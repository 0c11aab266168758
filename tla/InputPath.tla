----------------------------- MODULE InputPath -----------------------------
(***************************************************************************)
(* The way of an input event: the keyboard and the mouse behind the i8042  *)
(* controller (external), the PS/2 driver (userland/drivers/ps2_hid) that  *)
(* polls the controller, and the kernel's one-word mailbox (SYS_IPC_SEND,  *)
(* SYS_IPC_RECEIVE).  Each system call is one step.  The module Desktop    *)
(* adds the user interface that receives the events.                       *)
(***************************************************************************)
EXTENDS Naturals, Sequences

CONSTANTS Scancodes,     \* the bytes the keyboard sends
          Reports,       \* the packets the mouse sends: flags, dx and dy
          MaxKeys,       \* bound: bytes the keyboard sends
          MaxPackets,    \* bound: packets the mouse sends
          Timeout        \* polls the driver waits for the mouse's answer

ASSUME InputPathAssumption ==
  /\ Scancodes \subseteq 0..255 \ {250}      \* 0xFA is an answer, and no key's
  /\ Reports \subseteq [1..3 -> 0..255]
  /\ MaxKeys \in Nat /\ MaxPackets \in Nat /\ Timeout \in Nat

VARIABLES kbd, mouse,    \* bytes each device has still to hand over
          command,       \* the "enable reporting" command: unsent, sent or answered
          keys, packets, \* how much the devices have sent so far
          button,        \* is the mouse's left button down?
          obf,           \* the controller's output buffer, at most one byte
          pc, timeout, status, mouse_cycle, mouse_packet, payload,  \* the driver
          acked,         \* history: did the driver see the mouse's answer in time?
          mailbox,       \* GLOBAL_IPC_MAILBOX: a word, and the number of its event
          posted, taken  \* history: how many events were sent, which were received

devices == <<kbd, mouse, command, keys, packets, button>>
driver == <<pc, timeout, status, mouse_cycle, mouse_packet, payload, acked>>
ipc == <<mailbox, posted, taken>>
pathVars == <<devices, obf, driver, ipc>>

\* A byte, with the device it comes from and its place there: byte i of packet n.
Byte(from, n, i, value) == [from |-> from, n |-> n, i |-> i, value |-> value]
Answer == Byte("mouse", 0, 0, 250)       \* 0xFA
NoByte == Byte("none", 0, 0, 0)
Empty == [number |-> 0, word |-> 0]

PathInit ==
  /\ kbd = <<>> /\ mouse = <<>> /\ command = "unsent"
  /\ keys = 0 /\ packets = 0 /\ button = FALSE
  /\ obf = NoByte
  /\ pc = "enable" /\ timeout = Timeout
  /\ status = "none"
  /\ mouse_cycle = 0 /\ mouse_packet = <<NoByte, NoByte, NoByte>>
  /\ payload = 0
  /\ acked = FALSE
  /\ mailbox = Empty /\ posted = 0 /\ taken = <<>>
-----------------------------------------------------------------------------
\* The devices and the controller (external).
KeyPress ==
  /\ keys < MaxKeys
  /\ keys' = keys + 1
  /\ \E c \in Scancodes : kbd' = Append(kbd, Byte("keyboard", keys', 1, c))
  /\ UNCHANGED <<mouse, command, packets, button, obf, driver, ipc>>

MouseAnswers ==
  /\ command = "sent"
  /\ command' = "answered"
  /\ mouse' = Append(mouse, Answer)
  /\ UNCHANGED <<kbd, keys, packets, button, obf, driver, ipc>>

LeftDown(flags) == flags % 2 = 1

MouseMove ==
  /\ command = "answered"
  /\ packets < MaxPackets
  /\ packets' = packets + 1
  /\ \E r \in Reports :
       /\ mouse' = mouse \o [i \in 1..3 |-> Byte("mouse", packets', i, r[i])]
       /\ button' = LeftDown(r[1])
  /\ UNCHANGED <<kbd, command, keys, obf, driver, ipc>>

\* A byte is handed over only when the output buffer is empty.
LoadKey ==
  /\ obf = NoByte /\ kbd # <<>>
  /\ obf' = Head(kbd) /\ kbd' = Tail(kbd)
  /\ UNCHANGED <<mouse, command, keys, packets, button, driver, ipc>>

LoadMouse ==
  /\ obf = NoByte /\ mouse # <<>>
  /\ obf' = Head(mouse) /\ mouse' = Tail(mouse)
  /\ UNCHANGED <<kbd, command, keys, packets, button, driver, ipc>>
-----------------------------------------------------------------------------
\* The three port writes that enable the mouse.
Enable ==
  /\ pc = "enable"
  /\ command' = "sent"
  /\ pc' = "ackstatus"
  /\ UNCHANGED <<kbd, mouse, keys, packets, button, obf, timeout, status, mouse_cycle,
                 mouse_packet, payload, acked, ipc>>

\* One turn of the wait for the answer: the status register, and the byte if
\* there is one.
NextTryForgotten(t) == t
NextTry(t) == t - 1

AckStatus ==
  /\ pc = "ackstatus" /\ timeout > 0
  /\ IF obf = NoByte THEN timeout' = NextTry(timeout) /\ pc' = pc
                     ELSE timeout' = timeout /\ pc' = "ackdata"
  /\ UNCHANGED <<devices, obf, status, mouse_cycle, mouse_packet, payload, acked, ipc>>

\* Bytes other than the answer are dropped.
AnyByteAnswers(data) == TRUE
IsAnswer(data) == data = 250

AckData ==
  /\ pc = "ackdata"
  /\ obf' = NoByte
  /\ IF IsAnswer(obf.value)
     THEN acked' = TRUE /\ pc' = "status" /\ timeout' = timeout
     ELSE acked' = acked /\ pc' = "ackstatus" /\ timeout' = NextTry(timeout)
  /\ UNCHANGED <<devices, status, mouse_cycle, mouse_packet, payload, ipc>>

AckTimeout ==
  /\ pc = "ackstatus" /\ timeout = 0
  /\ pc' = "status"
  /\ UNCHANGED <<devices, obf, timeout, status, mouse_cycle, mouse_packet, payload,
                 acked, ipc>>

\* The event loop: the status register says whether there is a byte, and whose.
SourceIgnored(byte) == "keyboard"
Source(byte) == byte.from

Status ==
  /\ pc = "status"
  /\ obf # NoByte
  /\ status' = Source(obf)
  /\ pc' = "data"
  /\ UNCHANGED <<devices, obf, timeout, mouse_cycle, mouse_packet, payload, acked, ipc>>

\* The byte is taken; a key is an event of its own, 0x11 and the scancode.
ReadKey ==
  /\ pc = "data" /\ status = "keyboard"
  /\ obf' = NoByte
  /\ payload' = 17 * 16777216 + obf.value     \* 0x11 << 24
  /\ pc' = "send"
  /\ UNCHANGED <<devices, timeout, status, mouse_cycle, mouse_packet, acked, ipc>>

\* Every third byte of the mouse completes a packet: 0x5E, flags, dx and dy.
NextCycle(c) == IF c + 1 = 3 THEN 0 ELSE c + 1
MousePayload(p) ==
  94 * 16777216 + p[1].value * 65536 + p[2].value * 256 + p[3].value

ReadMouse ==
  /\ pc = "data" /\ status = "mouse"
  /\ obf' = NoByte
  /\ mouse_packet' = [mouse_packet EXCEPT ![mouse_cycle + 1] = obf]
  /\ mouse_cycle' = NextCycle(mouse_cycle)
  /\ IF mouse_cycle' = 0
     THEN payload' = MousePayload(mouse_packet') /\ pc' = "send"
     ELSE payload' = payload /\ pc' = "status"
  /\ UNCHANGED <<devices, timeout, status, acked, ipc>>

\* SYS_IPC_SEND stores the word, whatever the mailbox holds.
MailboxKeepsFirst(m) == IF mailbox = Empty THEN m ELSE mailbox
MailboxStore(m) == m

Send ==
  /\ pc = "send"
  /\ posted' = posted + 1
  /\ mailbox' = MailboxStore([number |-> posted', word |-> payload])
  /\ pc' = "status"
  /\ UNCHANGED <<devices, obf, timeout, status, mouse_cycle, mouse_packet, payload,
                 acked, taken>>

\* SYS_IPC_RECEIVE swaps the mailbox with 0; a 0 is no event.
AfterLoad == mailbox
AfterSwap == Empty

Receive ==
  /\ mailbox.word # 0
  /\ taken' = Append(taken, mailbox.number)
  /\ mailbox' = AfterSwap
  /\ UNCHANGED <<devices, obf, driver, posted>>

Device == KeyPress \/ MouseAnswers \/ MouseMove
Controller == LoadKey \/ LoadMouse
Driver == \/ Enable \/ AckStatus \/ AckData \/ AckTimeout
          \/ Status \/ ReadKey \/ ReadMouse \/ Send
-----------------------------------------------------------------------------
\* If the mouse answered in time, the driver stays in step with its packets: what
\* it sends as a mouse event is byte 1, 2 and 3 of one packet, however keys and
\* packets interleave.
FramedWhenAcked ==
  acked /\ pc = "send" /\ status = "mouse" =>
    \A i \in 1..3 : mouse_packet[i].i = i /\ mouse_packet[i].n = mouse_packet[1].n

\* The driver reads status and byte by separate system calls; the byte is still
\* the one whose source the status told.
StatusStillValid == pc = "data" => obf.from = status

\* GLOBAL_IPC_MAILBOX is a mailbox: the interface gets the newest event, none
\* twice and none that was not sent, and the last event is not lost, although
\* sender and receiver race for the word.
Box == INSTANCE NewestWins
ImplementsNewestWins == Box!Live
=============================================================================
