--------------------------- MODULE DesktopProofs ---------------------------
(***************************************************************************)
(* The input path from the mouse to the window, for every set of scancodes *)
(* and reports and every timeout of the driver.  The mouse sends its       *)
(* answer and then whole packets; a driver that saw the answer counts the  *)
(* bytes from there on (InStep), what it sends last tells the button, and  *)
(* the mailbox hands just that to the interface (NewestInv).  Last comes   *)
(* that the interface is the one of UiApp.                                 *)
(***************************************************************************)
EXTENDS Desktop, TLAPS

\* What the output buffer holds, and where the driver is in its code.
KeyByte == [from : {"keyboard"}, n : Nat, i : {1}, value : Scancodes]
MouseByte == [from : {"mouse"}, n : Nat, i : 0..3, value : 0..255]
Waiting == {"ackstatus", "ackdata"}
Labels == Waiting \cup {"enable", "status", "data", "send"}

\* The bytes of the p-th packet.
Packet(p, r) == [i \in 1..3 |-> Byte("mouse", p, i, r[i])]

\* The types of devices, controller and driver.
PathTypes ==
  /\ kbd \in Seq(KeyByte) /\ mouse \in Seq(MouseByte)
  /\ command \in {"unsent", "sent", "answered"}
  /\ keys \in Nat /\ packets \in Nat /\ button \in BOOLEAN
  /\ obf \in KeyByte \cup MouseByte \cup {NoByte}
  /\ pc \in Labels /\ status \in {"none", "keyboard", "mouse"}
  /\ mouse_cycle \in 0..2 /\ mouse_packet \in [1..3 -> MouseByte \cup {NoByte}]
  /\ acked \in BOOLEAN

\* What the driver has read is still there, and what it is about to send is a word
\* that SYS_IPC_RECEIVE does not take for an empty mailbox.
DriverInv ==
  /\ pc \in {"data", "ackdata"} => obf # NoByte
  /\ StatusStillValid
  /\ pc = "send" =>
       /\ payload \in Nat \ {0}
       /\ status = "mouse" => payload = MousePayload(mouse_packet)
  /\ pc \in Waiting \cup {"enable"} => status = "none" /\ mouse_cycle = 0 /\ acked = FALSE
  /\ command = "unsent" <=> pc = "enable"

\* The bytes of the mouse that the driver has still to read.
Stream == IF obf.from = "mouse" THEN <<obf>> \o mouse ELSE mouse

Follows(a, b) == IF a.i \in {1, 2} THEN b.i = a.i + 1 /\ b.n = a.n ELSE b.i = 1

\* These bytes are in the order the mouse sends them in, up to the end of packet
\* p, and the first byte of packet p tells the button.
InOrder(bytes, p, down) ==
  /\ \A j \in 1..(Len(bytes) - 1) : Follows(bytes[j], bytes[j + 1])
  /\ \A j \in 1..Len(bytes) :
       /\ bytes[j].n <= p
       /\ bytes[j].i = 1 /\ bytes[j].n = p => LeftDown(bytes[j].value) = down
  /\ bytes # <<>> => bytes[Len(bytes)].i \in {0, 3} /\ bytes[Len(bytes)].n = p

\* The mouse sends its answer and then packets.
StreamInv ==
  /\ command # "answered" => Stream = <<>> /\ packets = 0 /\ acked = FALSE
  /\ InOrder(Stream, packets, button)
  /\ command = "answered" /\ pc \in Waiting => Stream # <<>> /\ Stream[1] = Answer

\* Once it has seen the answer, the driver is where the stream is, and holds the
\* bytes that came before.
InStep ==
  acked =>
    /\ IF Stream = <<>> THEN mouse_cycle = 0 ELSE Stream[1].i = mouse_cycle + 1
    /\ \A k \in 1..mouse_cycle :
         mouse_packet[k].i = k /\ mouse_packet[k].n = mouse_packet[1].n
    /\ mouse_cycle > 0 =>
         /\ Stream[1].n = mouse_packet[1].n
         /\ mouse_packet[1].n = packets => LeftDown(mouse_packet[1].value) = button

\* A word that is a mouse event with the button in this state.
Tells(word, down) ==
  MsgByte(word, 16777216) = 94 /\ LeftDown(MsgByte(word, 65536)) = down

\* The newest word, if it is the mouse's and nothing else is to come, tells the
\* button.
NewestInv ==
  acked /\ status = "mouse" /\ Stream = <<>> =>
    /\ pc = "send" => LeftDown(mouse_packet[1].value) = button
    /\ pc = "status" =>
         \/ mailbox # Empty /\ Tells(mailbox.word, button)
         \/ mailbox = Empty /\ (is_dragging => button)

\* The mailbox is empty and the newest event taken, or it holds the newest.
BoxInv ==
  /\ posted \in Nat /\ taken \in Seq(Nat)
  /\ \/ mailbox = Empty /\ Box!LastTaken = posted
     \/ /\ mailbox \in [number : {posted}, word : Nat \ {0}]
        /\ Box!LastTaken < posted
-----------------------------------------------------------------------------
\* Whose byte the output buffer holds.
LEMMA ObfKinds ==
  ASSUME PathTypes
  PROVE  /\ obf = NoByte => obf.from = "none"
         /\ obf.from = "mouse" => obf \in MouseByte
         /\ obf.from = "keyboard" => obf \in KeyByte
         /\ obf # NoByte => obf.from \in {"keyboard", "mouse"}
  BY SMTT(20) DEF PathTypes, NoByte, Byte, KeyByte, MouseByte

\* What a packet is made of.
LEMMA PacketBytes ==
  ASSUME NEW p \in Nat, NEW r \in [1..3 -> 0..255]
  PROVE  /\ Packet(p, r) \in Seq(MouseByte) /\ Len(Packet(p, r)) = 3
         /\ \A i \in 1..3 :
              /\ Packet(p, r)[i] = Byte("mouse", p, i, r[i])
              /\ Packet(p, r)[i].n = p /\ Packet(p, r)[i].i = i
              /\ Packet(p, r)[i].value = r[i]
<1>1. ASSUME NEW i \in 1..3 PROVE Byte("mouse", p, i, r[i]) \in MouseByte
  <2>1. r[i] \in 0..255 /\ i \in 0..3
    OBVIOUS
  <2> QED
    BY <2>1 DEF Byte, MouseByte
<1>2. Packet(p, r) \in Seq(MouseByte) /\ Len(Packet(p, r)) = 3
  BY <1>1 DEF Packet
<1>3. ASSUME NEW i \in 1..3 PROVE Packet(p, r)[i] = Byte("mouse", p, i, r[i])
  BY DEF Packet
<1> QED
  BY <1>2, <1>3 DEF Byte

\* A packet the driver holds makes a word that is not 0.
LEMMA PayloadNotZero ==
  ASSUME NEW p \in [1..3 -> MouseByte \cup {NoByte}]
  PROVE  MousePayload(p) \in Nat \ {0}
<1>1. \A k \in 1..3 : p[k].value \in 0..255
  BY SMTT(30) DEF MouseByte, NoByte, Byte
<1> DEFINE a == p[1].value
           b == p[2].value
           c == p[3].value
<1>2. a \in 0..255 /\ b \in 0..255 /\ c \in 0..255
  BY <1>1
<1>3. MousePayload(p) = 94 * 16777216 + a * 65536 + b * 256 + c
  BY SMT DEF MousePayload
<1> HIDE DEF a, b, c
<1> QED
  BY <1>2, <1>3, SMT

\* Before the driver's first step.
LEMMA PathInits == Init => PathTypes /\ DriverInv
<1> SUFFICES ASSUME Init PROVE PathTypes /\ DriverInv
  OBVIOUS
<1>1. kbd \in Seq(KeyByte) /\ mouse \in Seq(MouseByte)
  BY DEF Init, PathInit
<1>2. mouse_packet \in [1..3 -> MouseByte \cup {NoByte}]
  BY DEF Init, PathInit
<1>3. acked = FALSE
  BY DEF Init, PathInit
<1>4. PathTypes
  <2>1. command = "unsent" /\ keys = 0 /\ packets = 0 /\ obf = NoByte /\ pc = "enable"
        /\ status = "none" /\ mouse_cycle = 0
    BY DEF Init, PathInit
  <2>2. button \in BOOLEAN
    BY Zenon DEF Init, PathInit
  <2>3. acked \in BOOLEAN
    BY <1>3, Zenon
  <2> QED
    BY <1>1, <1>2, <2>1, <2>2, <2>3 DEF PathTypes, Labels
<1>5. DriverInv
  BY <1>3 DEF Init, PathInit, DriverInv, StatusStillValid, Waiting
<1> QED
  BY <1>4, <1>5

\* Every step keeps the types and what the driver relies on.
LEMMA PathStep == PathTypes /\ DriverInv /\ [Next]_vars => PathTypes' /\ DriverInv'
<1> SUFFICES ASSUME PathTypes, DriverInv, [Next]_vars PROVE PathTypes' /\ DriverInv'
  OBVIOUS
<1> USE InputPathAssumption DEF StatusStillValid, Waiting, Labels
<1>1. CASE KeyPress
  <2>1. PICK c \in Scancodes : kbd' = Append(kbd, Byte("keyboard", keys + 1, 1, c))
    BY <1>1 DEF KeyPress
  <2>2. Byte("keyboard", keys + 1, 1, c) \in KeyByte
    BY DEF Byte, KeyByte, PathTypes
  <2>3. kbd' \in Seq(KeyByte) /\ keys' \in Nat
    BY <1>1, <2>1, <2>2 DEF PathTypes, KeyPress
  <2> QED
    BY <1>1, <2>3 DEF KeyPress, driver, PathTypes, DriverInv
<1>2. CASE MouseAnswers
  <2>1. Answer \in MouseByte
    BY DEF Answer, Byte, MouseByte
  <2>2. mouse' \in Seq(MouseByte)
    BY <1>2, <2>1, SMTT(30) DEF PathTypes, MouseAnswers
  <2> QED
    BY <1>2, <2>2 DEF MouseAnswers, driver, PathTypes, DriverInv
<1>3. CASE MouseMove
  <2>1. PICK r \in Reports :
          mouse' = mouse \o Packet(packets + 1, r) /\ button' = LeftDown(r[1])
    BY <1>3 DEF MouseMove, Packet
  <2>2. r \in [1..3 -> 0..255] /\ packets + 1 \in Nat /\ packets' = packets + 1
    BY <1>3 DEF PathTypes, MouseMove
  <2>3. Packet(packets + 1, r) \in Seq(MouseByte)
    BY <2>2, PacketBytes
  <2>4. mouse' \in Seq(MouseByte)
    BY <2>1, <2>3 DEF PathTypes
  <2>5. button' \in BOOLEAN
    BY <2>1 DEF LeftDown
  <2> QED
    BY <1>3, <2>2, <2>4, <2>5 DEF MouseMove, driver, PathTypes, DriverInv
<1>4. CASE LoadKey
  <2>1. obf' \in KeyByte /\ kbd' \in Seq(KeyByte)
    BY <1>4 DEF LoadKey, PathTypes
  <2>2. obf' # NoByte
    BY <2>1 DEF KeyByte, NoByte, Byte
  <2> QED
    BY <1>4, <2>1, <2>2 DEF LoadKey, driver, PathTypes, DriverInv
<1>5. CASE LoadMouse
  <2>1. obf' \in MouseByte /\ mouse' \in Seq(MouseByte)
    BY <1>5 DEF LoadMouse, PathTypes
  <2>2. obf' # NoByte
    BY <2>1 DEF MouseByte, NoByte, Byte
  <2> QED
    BY <1>5, <2>1, <2>2 DEF LoadMouse, driver, PathTypes, DriverInv
<1>6. CASE Enable
  BY <1>6 DEF Enable, PathTypes, DriverInv
<1>7. CASE AckStatus
  BY <1>7 DEF AckStatus, devices, PathTypes, DriverInv
<1>8. CASE AckData
  <2>1. pc' \in Labels /\ obf' = NoByte
    BY <1>8 DEF AckData
  <2>2. acked' \in BOOLEAN
    BY <1>8, ZenonT(30) DEF AckData, PathTypes
  <2>3. PathTypes'
    BY <1>8, <2>1, <2>2 DEF AckData, devices, PathTypes
  <2> QED
    BY <1>8, <2>3 DEF AckData, devices, DriverInv
<1>9. CASE AckTimeout
  BY <1>9 DEF AckTimeout, devices, PathTypes, DriverInv
<1>10. CASE Status
  BY <1>10, ObfKinds DEF Status, Source, devices, PathTypes, DriverInv
<1>11. CASE ReadKey
  <2>1. obf \in KeyByte
    BY <1>11, ObfKinds, SMT DEF ReadKey, DriverInv
  <2>2. payload' \in Nat \ {0}
    <3>1. obf.value \in Scancodes
      BY <2>1 DEF KeyByte
    <3>2. obf.value \in 0..255
      BY <3>1, ZenonT(30)
    <3>3. payload' = 17 * 16777216 + obf.value
      BY <1>11, SMT DEF ReadKey
    <3> QED
      BY <3>2, <3>3, SMT
  <2> QED
    BY <1>11, <2>2, SMT DEF ReadKey, devices, PathTypes, DriverInv
<1>12. CASE ReadMouse
  <2>1. obf \in MouseByte
    BY <1>12, ObfKinds DEF ReadMouse, DriverInv
  <2>2. mouse_packet' \in [1..3 -> MouseByte \cup {NoByte}]
    BY <1>12, <2>1 DEF ReadMouse, PathTypes
  <2>3. mouse_cycle' \in 0..2
    BY <1>12 DEF ReadMouse, NextCycle, PathTypes
  <2>4. pc' = "send" => payload' = MousePayload(mouse_packet')
    BY <1>12 DEF ReadMouse
  <2>5. pc' = "send" => payload' \in Nat \ {0}
    BY <2>2, <2>4, PayloadNotZero
  <2> QED
    BY <1>12, <2>2, <2>3, <2>4, <2>5, SMTT(30) DEF ReadMouse, devices, PathTypes, DriverInv
<1>13. CASE Send
  BY <1>13 DEF Send, devices, PathTypes, DriverInv
<1>14. CASE Interface
  BY <1>14, SMT DEF Interface, Receive, devices, driver, PathTypes, DriverInv
<1>15. CASE UNCHANGED vars
  BY <1>15 DEF vars, pathVars, devices, driver, PathTypes, DriverInv
<1> QED
  BY <1>1, <1>2, <1>3, <1>4, <1>5, <1>6, <1>7, <1>8, <1>9, <1>10, <1>11, <1>12, <1>13,
     <1>14, <1>15 DEF Next, Device, Controller, Driver
-----------------------------------------------------------------------------
\* The last element of a sequence that has just been appended.
LEMMA LastOfAppend ==
  ASSUME NEW s \in Seq(Nat), NEW n \in Nat
  PROVE  /\ Append(s, n) \in Seq(Nat) /\ Append(s, n) # <<>>
         /\ Append(s, n)[Len(Append(s, n))] = n
  OBVIOUS

\* The mailbox is empty at first, as NewestWins has it.
LEMMA BoxInits == Init => BoxInv /\ Box!BoxInit
  BY SMTT(20) DEF Init, PathInit, BoxInv, Box!LastTaken, Box!BoxInit

\* A step keeps the mailbox's invariant and is a step of NewestWins: SYS_IPC_SEND
\* is a Post, a SYS_IPC_RECEIVE that finds a word is a Take, all else a stutter.
LEMMA BoxStep ==
  DriverInv /\ BoxInv /\ [Next]_vars => BoxInv' /\ [Box!Post \/ Box!Take]_(Box!boxVars)
<1> SUFFICES ASSUME DriverInv, BoxInv, [Next]_vars
             PROVE  BoxInv' /\ [Box!Post \/ Box!Take]_(Box!boxVars)
  OBVIOUS
<1> USE DEF Box!boxVars
<1>1. Box!LastTaken \in Nat /\ Box!LastTaken <= posted
  BY DEF BoxInv, Box!LastTaken
<1>2. CASE Send
  <2>1. Box!LastTaken' = Box!LastTaken
    BY <1>2 DEF Send, Box!LastTaken
  <2>2. mailbox' = [number |-> posted + 1, word |-> payload] /\ posted' = posted + 1
        /\ taken' = taken /\ payload \in Nat \ {0}
    BY <1>2 DEF Send, MailboxStore, DriverInv
  <2> QED
    BY <1>1, <2>1, <2>2 DEF BoxInv, Box!Post
<1>3. CASE Interface
  <2>1. mailbox.number = posted /\ Box!LastTaken < posted
    BY <1>3 DEF Interface, Receive, BoxInv, Empty
  <2>2. taken' = Append(taken, posted) /\ posted' = posted /\ mailbox' = Empty
    BY <1>3, <2>1 DEF Interface, Receive, AfterSwap
  <2>3. Box!LastTaken' = posted /\ taken' \in Seq(Nat)
    BY <2>2, LastOfAppend DEF Box!LastTaken, BoxInv
  <2> QED
    BY <2>1, <2>2, <2>3 DEF BoxInv, Box!Take
<1>4. CASE UNCHANGED ipc
  BY <1>4 DEF ipc, BoxInv, Box!LastTaken, Empty
<1> QED
  BY <1>2, <1>3, <1>4, SMT DEF Next, Device, Controller, Driver, KeyPress, MouseAnswers,
     MouseMove, LoadKey, LoadMouse, Enable, AckStatus, AckData, AckTimeout, Status, ReadKey,
     ReadMouse, vars, pathVars

\* GLOBAL_IPC_MAILBOX implements the safety part of NewestWins, for every set of
\* keys and packets: the interface takes the newest event sent, and none twice.
THEOREM MailboxKeepsNewest == Spec => Box!Safe
<1>1. PathTypes /\ DriverInv /\ BoxInv /\ [Next]_vars =>
        (PathTypes /\ DriverInv /\ BoxInv)' /\ [Box!Post \/ Box!Take]_(Box!boxVars)
  BY PathStep, BoxStep
<1> QED
  BY <1>1, PathInits, BoxInits, PTL DEF Spec, Box!Safe
-----------------------------------------------------------------------------
\* What the stream is made of.
LEMMA StreamParts ==
  ASSUME PathTypes
  PROVE  /\ Stream \in Seq(MouseByte)
         /\ obf.from # "mouse" => Stream = mouse
         /\ obf.from = "mouse" =>
              /\ Len(Stream) = Len(mouse) + 1 /\ Stream[1] = obf
              /\ \A j \in 1..Len(mouse) : Stream[j + 1] = mouse[j]
<1>1. CASE obf.from = "mouse"
  <2>1. obf \in MouseByte /\ mouse \in Seq(MouseByte) /\ Stream = <<obf>> \o mouse
    BY <1>1, ObfKinds DEF PathTypes, Stream
  <2> QED
    BY <1>1, <2>1
<1>2. CASE obf.from # "mouse"
  BY <1>2 DEF Stream, PathTypes
<1> QED
  BY <1>1, <1>2

\* A byte that moves into the output buffer stays in the stream.
LEMMA LoadKeepsStream ==
  ASSUME PathTypes, LoadKey \/ LoadMouse
  PROVE  Stream' = Stream
<1>1. CASE LoadKey
  <2>1. obf' \in KeyByte
    BY <1>1 DEF LoadKey, PathTypes
  <2>2. obf'.from = "keyboard"
    BY <2>1 DEF KeyByte
  <2> QED
    BY <1>1, <2>2, ObfKinds DEF LoadKey, Stream
<1>2. CASE LoadMouse
  <2>1. obf' \in MouseByte /\ <<Head(mouse)>> \o Tail(mouse) = mouse
    BY <1>2 DEF LoadMouse, PathTypes
  <2>2. obf'.from = "mouse"
    BY <2>1 DEF MouseByte
  <2> QED
    BY <1>2, <2>1, <2>2, ObfKinds DEF LoadMouse, Stream
<1> QED
  BY <1>1, <1>2

\* The rest of a stream in order is in order, and its first byte follows the one
\* that was taken.
LEMMA InOrderRest ==
  ASSUME NEW s \in Seq(MouseByte), NEW t \in Seq(MouseByte), NEW p \in Nat, NEW down,
         Len(s) = Len(t) + 1, \A j \in 1..Len(t) : s[j + 1] = t[j],
         InOrder(s, p, down)
  PROVE  /\ InOrder(t, p, down)
         /\ t # <<>> => Follows(s[1], t[1])
         /\ t = <<>> => s[1].i \in {0, 3} /\ s[1].n = p
         /\ s[1].n <= p /\ (s[1].i = 1 /\ s[1].n = p => LeftDown(s[1].value) = down)
<1>1. Len(t) \in Nat
  OBVIOUS
<1>2. ASSUME NEW j \in 1..(Len(t) - 1) PROVE Follows(t[j], t[j + 1])
  <2>1. j + 1 \in 1..(Len(s) - 1) /\ s[j + 1] = t[j] /\ s[(j + 1) + 1] = t[j + 1]
    BY <1>1
  <2> QED
    BY <2>1 DEF InOrder
<1>3. ASSUME NEW j \in 1..Len(t)
      PROVE  t[j].n <= p /\ (t[j].i = 1 /\ t[j].n = p => LeftDown(t[j].value) = down)
  <2>1. j + 1 \in 1..Len(s) /\ s[j + 1] = t[j]
    BY <1>1
  <2> QED
    BY <2>1 DEF InOrder
<1>4. t # <<>> => t[Len(t)] = s[Len(s)] /\ s # <<>>
  <2>1. t # <<>> => Len(t) \in 1..Len(t)
    OBVIOUS
  <2> QED
    BY <1>1, <2>1
<1>5. t # <<>> => Follows(s[1], t[1])
  <2>1. t # <<>> => 1 \in 1..(Len(s) - 1) /\ 1 \in 1..Len(t)
    OBVIOUS
  <2> QED
    BY <2>1 DEF InOrder
<1>6. t = <<>> => Len(s) = 1 /\ s # <<>>
  <2>1. t = <<>> => Len(s) = 1
    OBVIOUS
  <2> QED
    BY <2>1, SMTT(20)
<1>7. 1 \in 1..Len(s)
  BY <1>1
<1> QED
  BY <1>2, <1>3, <1>4, <1>5, <1>6, <1>7 DEF InOrder

\* Where the elements of two sequences are in the sequence of both.
LEMMA ConcatIndices ==
  ASSUME NEW T, NEW s \in Seq(T), NEW u \in Seq(T)
  PROVE  /\ s \o u \in Seq(T) /\ Len(s \o u) = Len(s) + Len(u) /\ Len(s) \in Nat
         /\ \A j \in 1..Len(s) : (s \o u)[j] = s[j]
         /\ \A j \in 1..Len(u) : (s \o u)[Len(s) + j] = u[j]
  OBVIOUS

\* A packet more at the end of the stream.
LEMMA InOrderMore ==
  ASSUME NEW s \in Seq(MouseByte), NEW p \in Nat, NEW down, NEW r \in [1..3 -> 0..255],
         InOrder(s, p, down)
  PROVE  LET t == s \o Packet(p + 1, r)
         IN  /\ InOrder(t, p + 1, LeftDown(r[1]))
             /\ t # <<>>
             /\ t[1] = IF s = <<>> THEN Byte("mouse", p + 1, 1, r[1]) ELSE s[1]
<1> DEFINE three == Packet(p + 1, r)
           t == s \o three
<1>1. /\ three \in Seq(MouseByte) /\ Len(three) = 3
      /\ \A i \in 1..3 :
           /\ three[i] = Byte("mouse", p + 1, i, r[i])
           /\ three[i].n = p + 1 /\ three[i].i = i /\ three[i].value = r[i]
  BY PacketBytes, SMTT(20)
<1> HIDE DEF three
<1>2. /\ t \in Seq(MouseByte) /\ Len(t) = Len(s) + Len(three) /\ Len(s) \in Nat
      /\ \A j \in 1..Len(s) : t[j] = s[j]
      /\ \A j \in 1..Len(three) : t[Len(s) + j] = three[j]
  <2>1. three \in Seq(MouseByte)
    BY <1>1
  <2> QED
    BY <2>1, ConcatIndices
<1> HIDE DEF t
<1>3. /\ t \in Seq(MouseByte) /\ Len(t) = Len(s) + 3 /\ Len(s) \in Nat
      /\ \A j \in 1..Len(s) : t[j] = s[j]
      /\ t[Len(s) + 1] = three[1] /\ t[Len(s) + 2] = three[2] /\ t[Len(s) + 3] = three[3]
  BY <1>1, <1>2, SMTT(30)
<1>4. ASSUME NEW j \in 1..(Len(t) - 1) PROVE Follows(t[j], t[j + 1])
  <2>1. CASE j \in 1..(Len(s) - 1)
    <3>1. j \in 1..Len(s) /\ j + 1 \in 1..Len(s)
      BY <1>3, <2>1
    <3>2. t[j] = s[j] /\ t[j + 1] = s[j + 1]
      BY <1>3, <3>1, SMTT(20)
    <3> QED
      BY <2>1, <3>2 DEF InOrder
  <2>2. CASE j = Len(s)
    <3>1. t[j] = s[Len(s)] /\ t[j + 1] = three[1] /\ s # <<>>
      BY <1>3, <2>2
    <3> QED
      BY <1>1, <3>1, SMTT(20) DEF InOrder, Follows
  <2>3. CASE j = Len(s) + 1
    BY <1>1, <1>3, <2>3 DEF Follows
  <2>4. CASE j = Len(s) + 2
    BY <1>1, <1>3, <2>4, SMTT(30) DEF Follows
  <2> QED
    BY <1>3, <2>1, <2>2, <2>3, <2>4, SMTT(30)
<1>5. ASSUME NEW j \in 1..Len(t)
      PROVE  /\ t[j].n <= p + 1
             /\ t[j].i = 1 /\ t[j].n = p + 1 => LeftDown(t[j].value) = LeftDown(r[1])
  <2>1. CASE j \in 1..Len(s)
    <3>1. t[j] = s[j] /\ s[j] \in MouseByte
      BY <1>3, <2>1, SMTT(20)
    <3>2. s[j].n <= p /\ s[j].n \in Nat
      BY <2>1, <3>1 DEF InOrder, MouseByte
    <3> QED
      BY <3>1, <3>2, SMTT(20)
  <2>2. CASE j = Len(s) + 1
    BY <1>1, <1>3, <2>2
  <2>3. CASE j = Len(s) + 2
    BY <1>1, <1>3, <2>3
  <2>4. CASE j = Len(s) + 3
    BY <1>1, <1>3, <2>4
  <2> QED
    BY <1>3, <2>1, <2>2, <2>3, <2>4, SMTT(30)
<1>6. t # <<>> /\ t[Len(t)] = three[3]
  BY <1>3
<1>7. t[1] = IF s = <<>> THEN three[1] ELSE s[1]
  <2>1. s # <<>> => 1 \in 1..Len(s)
    OBVIOUS
  <2>2. s = <<>> => Len(s) + 1 = 1
    BY SMTT(30)
  <2> QED
    BY <1>3, <2>1, <2>2
<1>8. InOrder(t, p + 1, LeftDown(r[1]))
  <2>1. t[Len(t)].i = 3 /\ t[Len(t)].n = p + 1
    BY <1>1, <1>6
  <2> QED
    BY <1>4, <1>5, <2>1 DEF InOrder
<1>9. t[1] = IF s = <<>> THEN Byte("mouse", p + 1, 1, r[1]) ELSE s[1]
  BY <1>1, <1>7, SMTT(30)
<1> QED
  BY <1>6, <1>8, <1>9, SMTT(20) DEF t, three
-----------------------------------------------------------------------------
\* The driver and the stream of the mouse's bytes.
FramingInv == StreamInv /\ InStep /\ FramedWhenAcked

\* Before the mouse has sent anything.
LEMMA FramingInit == Init => FramingInv
  BY DEF Init, PathInit, FramingInv, StreamInv, InStep, FramedWhenAcked, InOrder, Stream,
         NoByte, Byte

\* A step that leaves the stream and the driver's place in it alone.
LEMMA FramingKept ==
  ASSUME FramingInv, Stream' = Stream,
         UNCHANGED <<packets, button, acked, mouse_cycle, mouse_packet>>,
         command' # "answered" <=> command # "answered",
         pc' \in Waiting => pc \in Waiting \/ command' # "answered",
         pc' = "send" /\ status' = "mouse" => pc = "send" /\ status = "mouse"
  PROVE  FramingInv'
<1>1. StreamInv'
  BY DEF FramingInv, StreamInv, InOrder
<1>2. InStep' /\ FramedWhenAcked'
  BY DEF FramingInv, InStep, FramedWhenAcked
<1> QED
  BY <1>1, <1>2 DEF FramingInv

\* Every step keeps the framing.
LEMMA FramingStep == PathTypes /\ DriverInv /\ FramingInv /\ [Next]_vars => FramingInv'
<1> SUFFICES ASSUME PathTypes, DriverInv, FramingInv, [Next]_vars PROVE FramingInv'
  OBVIOUS
<1> USE InputPathAssumption
<1>1. CASE KeyPress
  BY <1>1, FramingKept DEF KeyPress, driver, Stream
<1>2. CASE MouseAnswers
  <2>1. Stream = <<>> /\ packets = 0 /\ acked = FALSE /\ obf.from # "mouse" /\ mouse = <<>>
    BY <1>2, StreamParts DEF MouseAnswers, FramingInv, StreamInv, PathTypes
  <2>2. mouse' = <<Answer>> /\ obf' = obf
    BY <1>2, <2>1 DEF MouseAnswers
  <2>3. Stream' = <<Answer>>
    BY <2>1, <2>2 DEF Stream
  <2>4. packets' = 0 /\ button' = button /\ acked' = FALSE /\ command' = "answered" /\ pc' = pc
    BY <1>2, <2>1 DEF MouseAnswers, driver
  <2>5. StreamInv'
    BY <2>3, <2>4 DEF StreamInv, InOrder, Answer, Byte
  <2> QED
    BY <2>4, <2>5 DEF FramingInv, InStep, FramedWhenAcked
<1>3. CASE MouseMove
  <2>1. PICK r \in Reports :
          mouse' = mouse \o Packet(packets + 1, r) /\ button' = LeftDown(r[1])
    BY <1>3 DEF MouseMove, Packet
  <2>2. packets' = packets + 1 /\ command' = command /\ command = "answered" /\ obf' = obf
        /\ UNCHANGED driver
    BY <1>3 DEF MouseMove
  <2>3. r \in [1..3 -> 0..255] /\ packets \in Nat /\ packets + 1 \in Nat
    BY DEF PathTypes
  <2>4. Stream' = Stream \o Packet(packets + 1, r)
    <3>1. mouse \in Seq(MouseByte) /\ Packet(packets + 1, r) \in Seq(MouseByte)
      BY <2>3, PacketBytes DEF PathTypes
    <3>2. obf.from = "mouse" =>
            (<<obf>> \o mouse) \o Packet(packets + 1, r)
              = <<obf>> \o (mouse \o Packet(packets + 1, r))
      BY <3>1, ObfKinds, SMTT(20)
    <3> QED
      BY <2>1, <2>2, <3>2, ZenonT(30) DEF Stream
  <2>5. /\ InOrder(Stream', packets + 1, button') /\ Stream' # <<>>
        /\ Stream'[1] = IF Stream = <<>> THEN Byte("mouse", packets + 1, 1, r[1]) ELSE Stream[1]
    BY <2>1, <2>3, <2>4, InOrderMore, StreamParts DEF FramingInv, StreamInv
  <2>6. StreamInv'
    BY <2>2, <2>5 DEF FramingInv, StreamInv, driver
  <2>7. InStep'
    <3>1. Stream # <<>> => Stream[1].n <= packets
      <4>1. Stream # <<>> => 1 \in 1..Len(Stream)
        BY StreamParts, SMTT(20)
      <4> QED
        BY <4>1 DEF FramingInv, StreamInv, InOrder
    <3>2. CASE Stream = <<>>
      BY <2>2, <2>5, <3>2, SMTT(20) DEF FramingInv, InStep, driver, Byte
    <3>3. CASE Stream # <<>>
      BY <2>2, <2>3, <2>5, <3>1, <3>3 DEF FramingInv, InStep, driver
    <3> QED
      BY <3>2, <3>3
  <2> QED
    BY <2>2, <2>6, <2>7 DEF FramingInv, FramedWhenAcked, driver
<1>4. CASE LoadKey
  BY <1>4, LoadKeepsStream, FramingKept DEF LoadKey, driver
<1>5. CASE LoadMouse
  BY <1>5, LoadKeepsStream, FramingKept DEF LoadMouse, driver
<1>6. CASE Enable
  <2>1. Stream' = Stream /\ command = "unsent" /\ Stream = <<>>
    BY <1>6 DEF Enable, Stream, DriverInv, FramingInv, StreamInv
  <2> QED
    BY <1>6, <2>1, FramingKept DEF Enable, Waiting
<1>7. CASE AckStatus
  BY <1>7, FramingKept DEF AckStatus, Stream, devices, Waiting
<1>8. CASE AckTimeout
  BY <1>8, FramingKept DEF AckTimeout, Stream, devices, Waiting
<1>9. CASE Status
  BY <1>9, FramingKept DEF Status, Stream, devices, Waiting
<1>10. CASE ReadKey
  <2>1. Stream' = Stream
    BY <1>10, SMT DEF ReadKey, Stream, devices, DriverInv, StatusStillValid, NoByte, Byte
  <2> QED
    BY <1>10, <2>1, FramingKept, SMTT(30) DEF ReadKey, devices, Waiting
<1>11. CASE Send
  BY <1>11, FramingKept DEF Send, Stream, devices, Waiting
<1>12. CASE Interface
  <2>1. UNCHANGED <<devices, obf, driver>>
    BY <1>12, SMT DEF Interface, Receive
  <2> QED
    BY <2>1, FramingKept DEF Stream, devices, driver
<1>13. CASE UNCHANGED vars
  BY <1>13, FramingKept DEF vars, pathVars, Stream, devices, driver
<1>14. CASE AckData
  <2>0. Stream' = mouse /\ obf # NoByte /\ mouse_cycle' = 0
    <3>1. obf' = NoByte /\ mouse' = mouse /\ mouse_cycle' = mouse_cycle /\ pc = "ackdata"
      BY <1>14, SMTT(20) DEF AckData, devices
    <3> QED
      BY <3>1 DEF Stream, NoByte, Byte, DriverInv, Waiting
  <2>1. CASE obf.from = "mouse"
    <3>1. Stream # <<>> /\ Stream[1] = obf /\ obf = Answer
      BY <1>14, <2>1, StreamParts, SMTT(20) DEF AckData, FramingInv, StreamInv, Waiting
    <3>2. /\ InOrder(mouse, packets, button)
          /\ mouse # <<>> => Follows(Answer, mouse[1])
      BY <2>1, <3>1, StreamParts, InOrderRest DEF FramingInv, StreamInv, PathTypes
    <3>3. acked' = TRUE /\ pc' = "status" /\ command = "answered"
      BY <1>14, <3>1 DEF AckData, IsAnswer, Answer, Byte, FramingInv, StreamInv
    <3> QED
      BY <1>14, <2>0, <3>2, <3>3, SMTT(30)
         DEF AckData, devices, FramingInv, StreamInv, InStep, FramedWhenAcked, Waiting,
             Follows, Answer, Byte
  <2>2. CASE obf.from = "keyboard"
    <3>1. obf.value # 250
      BY <2>2, ObfKinds DEF KeyByte
    <3>2. Stream' = Stream
      BY <2>0, <2>2, StreamParts, SMTT(20)
    <3> QED
      BY <1>14, <3>1, <3>2, FramingKept DEF AckData, IsAnswer, devices, Waiting
  <2> QED
    BY <2>0, <2>1, <2>2, ObfKinds
<1>15. CASE ReadMouse
  <2>1. obf.from = "mouse" /\ obf \in MouseByte
    BY <1>15, ObfKinds DEF ReadMouse, DriverInv, StatusStillValid
  <2>2. Stream # <<>> /\ Stream[1] = obf
    BY <2>1, StreamParts
  <2>3. Stream' = mouse
    BY <1>15, SMTT(20) DEF ReadMouse, Stream, devices, NoByte, Byte
  <2>4. /\ InOrder(mouse, packets, button)
        /\ mouse # <<>> => Follows(obf, mouse[1])
        /\ mouse = <<>> => obf.i \in {0, 3} /\ obf.n = packets
        /\ obf.i = 1 /\ obf.n = packets => LeftDown(obf.value) = button
    BY <2>1, <2>2, StreamParts, InOrderRest DEF FramingInv, StreamInv, PathTypes
  <2>5. StreamInv'
    <3>1. pc' \notin Waiting /\ command = "answered"
      BY <1>15, <2>2, SMT DEF ReadMouse, FramingInv, StreamInv, Waiting
    <3>2. UNCHANGED <<packets, button, command>>
      BY <1>15, SMT DEF ReadMouse, devices
    <3> QED
      BY <2>3, <2>4, <3>1, <3>2 DEF StreamInv
  <2>6. ASSUME acked
        PROVE  InStep' /\ FramedWhenAcked'
    <3>1. obf.i = mouse_cycle + 1 /\ mouse_cycle \in 0..2
      BY <2>2, <2>6, SMTT(30) DEF FramingInv, InStep, PathTypes
    <3>2. CASE mouse_cycle = 2
      <4>1. mouse_cycle' = 0 /\ mouse_packet' = [mouse_packet EXCEPT ![3] = obf]
        BY <1>15, <3>2 DEF ReadMouse, NextCycle
      <4>2. InStep'
        BY <2>3, <2>4, <3>1, <3>2, <4>1, SMTT(30) DEF InStep, Follows
      <4>3. obf.n = mouse_packet[1].n
        BY <2>2, <2>6, <3>2 DEF FramingInv, InStep
      <4>4. \A k \in 1..2 : mouse_packet[k].i = k /\ mouse_packet[k].n = mouse_packet[1].n
        BY <2>6, <3>2 DEF FramingInv, InStep
      <4>5. \A k \in 1..2 : mouse_packet'[k] = mouse_packet[k]
        BY <4>1 DEF PathTypes
      <4>6. mouse_packet'[3] = obf
        BY <4>1, SMTT(20) DEF PathTypes
      <4> QED
        BY <3>1, <3>2, <4>2, <4>3, <4>4, <4>5, <4>6, SMTT(30) DEF FramedWhenAcked
    <3>3. CASE mouse_cycle \in 0..1
      BY <1>15, <2>2, <2>3, <2>4, <2>6, <3>1, <3>3, SMTT(30)
         DEF ReadMouse, FramingInv, InStep, FramedWhenAcked, NextCycle, Follows, PathTypes,
             devices
    <3> QED
      BY <3>1, <3>2, <3>3
  <2>7. acked' = acked
    BY <1>15 DEF ReadMouse
  <2> QED
    BY <2>5, <2>6, <2>7 DEF FramingInv, InStep, FramedWhenAcked
<1> QED
  BY <1>1, <1>2, <1>3, <1>4, <1>5, <1>6, <1>7, <1>8, <1>9, <1>10, <1>11, <1>12, <1>13,
     <1>14, <1>15 DEF Next, Device, Controller, Driver
-----------------------------------------------------------------------------
\* What the interface shifts out of a mouse event.
LEMMA EventBytes ==
  ASSUME NEW p \in [1..3 -> MouseByte \cup {NoByte}]
  PROVE  /\ MsgByte(MousePayload(p), 16777216) = 94
         /\ MsgByte(MousePayload(p), 65536) = p[1].value
<1>1. \A k \in 1..3 : p[k].value \in 0..255
  BY DEF MouseByte, NoByte, Byte
<1> DEFINE a == p[1].value
           b == p[2].value
           c == p[3].value
           word == MousePayload(p)
<1>2. a \in 0..255 /\ b \in 0..255 /\ c \in 0..255
  BY <1>1
<1>3. word = 94 * 16777216 + a * 65536 + b * 256 + c
  BY SMT DEF MousePayload
<1> HIDE DEF a, b, c, word
<1>4. word \div 16777216 = 94 /\ word \div 65536 = 94 * 256 + a
  BY <1>2, <1>3, SMT
<1>5. 94 % 256 = 94 /\ (94 * 256 + a) % 256 = a
  BY <1>2, SMT
<1> QED
  BY <1>4, <1>5, SMT DEF MsgByte, a, word

\* Before anything was sent.
LEMMA NewestInit == Init => NewestInv
  BY SMTT(20) DEF Init, PathInit, NewestInv

\* The release of the button is what the interface acts on last.
LEMMA NewestStep ==
  PathTypes /\ DriverInv /\ FramingInv /\ NewestInv /\ [Next]_vars => NewestInv'
<1> SUFFICES ASSUME PathTypes, DriverInv, FramingInv, NewestInv, [Next]_vars,
                    acked', status' = "mouse", Stream' = <<>>
             PROVE  /\ pc' = "send" => LeftDown(mouse_packet'[1].value) = button'
                    /\ pc' = "status" =>
                         \/ mailbox' # Empty /\ Tells(mailbox'.word, button')
                         \/ mailbox' = Empty /\ (is_dragging' => button')
  BY DEF NewestInv
<1>1. ASSUME acked' = acked, status' = status, Stream' = Stream,
             UNCHANGED <<pc, mouse_packet, button, mailbox, is_dragging>>
      PROVE  NewestInv'
  BY <1>1, SMTT(30) DEF NewestInv
<1>2. CASE (KeyPress \/ LoadKey \/ LoadMouse) /\ UNCHANGED uiVars
  <2>1. UNCHANGED <<acked, status, pc, mouse_packet, button, mailbox, is_dragging>>
    BY <1>2, Zenon DEF KeyPress, LoadKey, LoadMouse, driver, ipc, uiVars
  <2>2. KeyPress => Stream' = Stream
    BY DEF KeyPress, Stream
  <2>3. Stream' = Stream
    BY <1>2, <2>2, LoadKeepsStream
  <2>4. NewestInv'
    BY <2>1, <2>3, <1>1, Zenon
  <2> QED
    BY <2>4 DEF NewestInv
<1>3. CASE MouseAnswers
  BY <1>3 DEF MouseAnswers, driver, FramingInv, StreamInv
<1>4. CASE MouseMove
  <2>1. PICK r \in Reports : mouse' = mouse \o Packet(packets + 1, r)
    BY <1>4 DEF MouseMove, Packet
  <2>2. r \in [1..3 -> 0..255] /\ packets + 1 \in Nat
    BY InputPathAssumption, SMTT(20) DEF PathTypes
  <2>3. Packet(packets + 1, r) \in Seq(MouseByte) /\ Len(Packet(packets + 1, r)) = 3
    BY <2>2, PacketBytes
  <2>4. mouse' # <<>> /\ mouse' \in Seq(MouseByte)
    BY <2>1, <2>3 DEF PathTypes
  <2>5. Stream' # <<>>
    BY <1>4, <2>4, ObfKinds DEF MouseMove, Stream
  <2> QED
    BY <2>5
<1>5. CASE Enable \/ AckStatus \/ AckData \/ AckTimeout
  <2>1. pc \in Waiting \cup {"enable"} /\ status' = status
    BY <1>5, Zenon DEF Enable, AckStatus, AckData, AckTimeout, Waiting
  <2> QED
    BY <2>1 DEF DriverInv
<1>6. CASE Status
  BY <1>6 DEF Status
<1>7. CASE ReadKey
  BY <1>7, SMT DEF ReadKey
<1>8. CASE ReadMouse
  <2>1. obf.from = "mouse" /\ obf \in MouseByte
    BY <1>8, ObfKinds DEF ReadMouse, DriverInv, StatusStillValid
  <2>2. Stream # <<>> /\ Stream[1] = obf
    BY <2>1, StreamParts
  <2>3. mouse = <<>> /\ acked /\ button' = button
    BY <1>8 DEF ReadMouse, Stream, devices, NoByte, Byte
  <2>4. obf.i \in {0, 3} /\ obf.n = packets
    BY <2>1, <2>2, <2>3, StreamParts, InOrderRest, ZenonT(30) DEF FramingInv, StreamInv, PathTypes
  <2>5. mouse_cycle = 2 /\ mouse_packet[1].n = packets
    BY <2>2, <2>3, <2>4 DEF FramingInv, InStep, PathTypes
  <2>6. LeftDown(mouse_packet[1].value) = button
    BY <2>3, <2>5 DEF FramingInv, InStep
  <2>7. mouse_packet'[1] = mouse_packet[1] /\ pc' = "send"
    BY <1>8, <2>5, SMTT(30) DEF ReadMouse, NextCycle, PathTypes
  <2> QED
    BY <2>3, <2>6, <2>7
<1>9. CASE Send
  <2>1. Stream' = Stream /\ acked /\ status = "mouse" /\ button' = button /\ pc' = "status"
    BY <1>9 DEF Send, Stream, devices
  <2>2. mailbox'.word = MousePayload(mouse_packet) /\ mailbox' # Empty
    <3>1. payload = MousePayload(mouse_packet) /\ payload # 0
      BY <1>9, <2>1 DEF Send, DriverInv
    <3>2. mailbox' = [number |-> posted + 1, word |-> payload]
      BY <1>9 DEF Send, MailboxStore
    <3> QED
      BY <3>1, <3>2 DEF Empty
  <2>3. LeftDown(mouse_packet[1].value) = button
    BY <1>9, <2>1 DEF Send, NewestInv
  <2> QED
    BY <2>1, <2>2, <2>3, EventBytes, SMT DEF Tells, PathTypes
<1>10. CASE Interface
  <2>1. UNCHANGED <<devices, obf, driver>> /\ mailbox' = Empty /\ mailbox # Empty
    BY <1>10, SMT DEF Interface, Receive, AfterSwap, Empty
  <2>2. Stream' = Stream /\ button' = button /\ pc' = pc /\ mouse_packet' = mouse_packet
        /\ acked /\ status = "mouse"
    BY <2>1 DEF Stream, devices, driver
  <2>3. ASSUME pc = "status" PROVE is_dragging' => button
    <3>1. Tells(mailbox.word, button)
      BY <2>1, <2>2, <2>3 DEF NewestInv
    <3> DEFINE left == LeftDown(MsgByte(mailbox.word, 65536))
    <3>2. \E x, y : UI!Mouse(left, x, y)
      BY <1>10, <3>1, SMT DEF Interface, Handle, Tells
    <3> HIDE DEF left
    <3>3. left \/ is_dragging' = FALSE
      BY <3>2 DEF UI!Mouse, UI!Button, UI!Drop
    <3> QED
      BY <3>1, <3>3, SMT DEF Tells, left
  <2> QED
    BY <2>1, <2>2, <2>3 DEF NewestInv
<1>11. CASE UNCHANGED vars
  <2>1. NewestInv'
    BY <1>11, <1>1, Zenon DEF vars, pathVars, uiVars, Stream, devices, driver, ipc
  <2> QED
    BY <2>1 DEF NewestInv
<1> QED
  BY SMTT(20), <1>2, <1>3, <1>4, <1>5, <1>6, <1>7, <1>8, <1>9, <1>10, <1>11
     DEF Next, Device, Controller, Driver
-----------------------------------------------------------------------------
\* The inductive invariant of driver, devices and interface.
DesktopInv == PathTypes /\ DriverInv /\ FramingInv /\ NewestInv

\* It holds in every state of devices, driver, mailbox and interface.
THEOREM DesktopInvariant == Spec => []DesktopInv
<1>1. Init => DesktopInv
  BY PathInits, FramingInit, NewestInit DEF DesktopInv
<1>2. DesktopInv /\ [Next]_vars => DesktopInv'
  BY PathStep, FramingStep, NewestStep DEF DesktopInv
<1> QED
  BY <1>1, <1>2, PTL DEF Spec

\* For every set of scancodes and reports, and however long the driver waits: the
\* byte the driver fetches is the one whose source the status register told.
THEOREM StatusHolds == Spec => []StatusStillValid
<1>1. DesktopInv => StatusStillValid
  BY DEF DesktopInv, DriverInv
<1> QED
  BY <1>1, DesktopInvariant, PTL

\* If the mouse's answer was seen, the driver sends whole packets of the mouse,
\* however many keys and packets interleave.
THEOREM PacketsStayFramed == Spec => []FramedWhenAcked
<1>1. DesktopInv => FramedWhenAcked
  BY DEF DesktopInv, FramingInv
<1> QED
  BY <1>1, DesktopInvariant, PTL

\* Once every byte is read and every event handled, no drag has outlived the
\* release of the button, unless a key came last.
THEOREM DragEnds == Spec => []DragEndsWithButton
<1>1. DesktopInv => DragEndsWithButton
  <2> SUFFICES ASSUME DesktopInv, Settled, acked, status = "mouse", is_dragging
               PROVE  button
    BY DEF DragEndsWithButton
  <2>1. Stream = <<>> /\ pc = "status" /\ mailbox = Empty
    BY DEF Settled, Stream, NoByte, Byte
  <2> QED
    BY <2>1 DEF DesktopInv, NewestInv
<1> QED
  BY <1>1, DesktopInvariant, PTL
-----------------------------------------------------------------------------
\* What a condition counts for.
One(b) == IF b THEN 1 ELSE 0

\* The events sent, and those the driver has in hand or the keyboard's bytes will be.
Events == posted + One(pc = "send") + Len(kbd) + One(obf.from = "keyboard")

\* The mouse's bytes that will make an event, three by three.
MouseBytes == mouse_cycle + Len(mouse) + One(obf.from = "mouse")

\* What the devices have sent covers them.
CountInv ==
  /\ keys <= MaxKeys /\ packets <= MaxPackets
  /\ 3 * Events + MouseBytes <= 3 * (keys + packets) + One(command = "answered")

\* An event in the mailbox is not taken yet.
TakenInv ==
  /\ Len(taken) <= posted
  /\ mailbox # Empty => Len(taken) < posted

\* A word is the mouse's or a key's.
MouseWord(word) == MsgByte(word, 16777216) = 94
KeyWord(word) == \E c \in Scancodes : word = 17 * 16777216 + c

WordInv ==
  /\ pc = "send" => status = "mouse" \/ (status = "keyboard" /\ KeyWord(payload))
  /\ mailbox # Empty => MouseWord(mailbox.word) \/ KeyWord(mailbox.word)

\* What the interface makes of a key's word.
LEMMA KeyWordBytes ==
  ASSUME NEW word, KeyWord(word)
  PROVE  MsgByte(word, 16777216) = 17 /\ MsgByte(word, 1) \in Scancodes
<1>1. PICK c \in Scancodes : word = 17 * 16777216 + c
  BY SMT DEF KeyWord
<1>2. c \in 0..255
  BY InputPathAssumption
<1>3. word \div 16777216 = 17 /\ word \div 1 = word /\ 17 % 256 = 17
  BY <1>1, <1>2, SMT
<1>4. word % 256 = c
  BY <1>1, <1>2, SMT
<1> QED
  BY <1>3, <1>4, SMT DEF MsgByte

\* Before anything was sent.
LEMMA WordInit == Init => WordInv
  BY SMTT(30) DEF Init, PathInit, WordInv

\* Every step keeps the words in the driver and in the mailbox well-formed.
LEMMA WordStep == PathTypes /\ DriverInv /\ WordInv /\ [Next]_vars => WordInv'
<1> SUFFICES ASSUME PathTypes, DriverInv, WordInv, [Next]_vars PROVE WordInv'
  OBVIOUS
<1>1. CASE ReadKey
  <2>1. obf \in KeyByte
    BY <1>1, ObfKinds, SMT DEF ReadKey, DriverInv, StatusStillValid
  <2>2. obf.value \in Scancodes
    BY <2>1 DEF KeyByte
  <2>3. KeyWord(payload')
    BY <1>1, <2>2, SMT DEF ReadKey, KeyWord
  <2> QED
    BY <1>1, <2>3, SMT DEF ReadKey, ipc, WordInv
<1>2. CASE ReadMouse
  BY <1>2 DEF ReadMouse, ipc, WordInv
<1>3. CASE Send
  <2>1. pc' = "status" /\ mailbox' = [number |-> posted + 1, word |-> payload]
    BY <1>3, SMTT(30) DEF Send, MailboxStore
  <2>2. status = "mouse" => MouseWord(payload)
    BY <1>3, EventBytes, SMT DEF Send, DriverInv, PathTypes, MouseWord
  <2>3. status = "mouse" \/ KeyWord(payload)
    BY <1>3 DEF Send, WordInv
  <2> QED
    BY <2>1, <2>2, <2>3 DEF WordInv
<1>4. CASE Interface
  <2>1. UNCHANGED driver /\ mailbox' = Empty
    BY <1>4, SMT DEF Interface, Receive, AfterSwap
  <2> QED
    BY <2>1 DEF driver, WordInv
<1>5. CASE UNCHANGED <<driver, ipc>>
  BY <1>5 DEF driver, ipc, WordInv
<1>6. CASE Enable \/ AckStatus \/ AckData \/ AckTimeout \/ Status
  <2>1. pc' # "send" /\ mailbox' = mailbox
    BY <1>6, SMTT(30) DEF Enable, AckStatus, AckData, AckTimeout, Status, ipc
  <2> QED
    BY <2>1, SMTT(30) DEF WordInv
<1> QED
  BY <1>1, <1>2, <1>3, <1>4, <1>5, <1>6, SMT DEF Next, Device, Controller, Driver, KeyPress,
     MouseAnswers, MouseMove, LoadKey, LoadMouse, vars, pathVars

\* Before anything was read.
LEMMA CountInit == Init => CountInv /\ TakenInv
<1> SUFFICES ASSUME Init PROVE CountInv /\ TakenInv
  OBVIOUS
<1>1. CountInv
  BY InputPathAssumption DEF Init, PathInit, CountInv, Events, MouseBytes, One, NoByte, Byte
<1>2. TakenInv
  BY DEF Init, PathInit, TakenInv
<1> QED
  BY <1>1, <1>2

\* The two counts are numbers.
LEMMA CountTypes ==
  ASSUME PathTypes, BoxInv
  PROVE  Events \in Nat /\ Events >= posted /\ MouseBytes \in Nat
<1>1. /\ mouse_cycle \in Nat /\ posted \in Nat /\ Len(kbd) \in Nat /\ Len(mouse) \in Nat
  BY DEF PathTypes, BoxInv
<1> DEFINE s == One(pc = "send")
           k == One(obf.from = "keyboard")
           m == One(obf.from = "mouse")
<1>2. s \in Nat /\ k \in Nat /\ m \in Nat
  BY DEF One
<1>3. Events = posted + s + Len(kbd) + k /\ MouseBytes = mouse_cycle + Len(mouse) + m
  BY Zenon DEF Events, MouseBytes
<1> HIDE DEF s, k, m
<1> QED
  BY <1>1, <1>2, <1>3

\* Three bytes of the mouse weigh as much as an event.
LEMMA Weigh ==
  ASSUME NEW e \in Nat, NEW b \in Nat, NEW e2 \in Nat, NEW b2 \in Nat, NEW n \in Nat,
         3 * e + b <= n, (e2 <= e /\ b2 <= b) \/ (e2 <= e + 1 /\ b2 + 3 <= b)
  PROVE  3 * e2 + b2 <= n
  OBVIOUS

\* Every step keeps the count.
LEMMA CountStep == PathTypes /\ DriverInv /\ BoxInv /\ CountInv /\ [Next]_vars => CountInv'
<1> SUFFICES ASSUME PathTypes, DriverInv, BoxInv, CountInv, [Next]_vars PROVE CountInv'
  OBVIOUS
<1> DEFINE answers == One(command = "answered")
           sent == <<keys, packets, answers>>
<1>1. /\ keys \in Nat /\ packets \in Nat /\ mouse_cycle \in 0..2 /\ posted \in Nat
      /\ Len(kbd) \in Nat /\ Len(mouse) \in Nat
  BY DEF PathTypes, BoxInv
<1>2. /\ keys \in Nat /\ packets \in Nat /\ Events \in Nat /\ MouseBytes \in Nat
      /\ answers \in Nat /\ MaxKeys \in Nat /\ MaxPackets \in Nat
  BY <1>1, CountTypes, InputPathAssumption DEF One
<1>3. /\ keys <= MaxKeys /\ packets <= MaxPackets
      /\ 3 * Events + MouseBytes <= 3 * (keys + packets) + answers
  BY Zenon DEF CountInv
<1>4. ASSUME /\ keys' <= MaxKeys /\ packets' <= MaxPackets
             /\ 3 * Events' + MouseBytes' <= 3 * (keys' + packets') + answers'
      PROVE  CountInv'
  BY <1>4, Zenon DEF CountInv
<1>5. ASSUME Events' <= Events, MouseBytes' <= MouseBytes, UNCHANGED sent,
             Events' \in Nat, MouseBytes' \in Nat
      PROVE  CountInv'
  <2> HIDE DEF answers, sent
  <2> DEFINE n == 3 * (keys + packets) + answers
  <2>1. n \in Nat /\ 3 * Events + MouseBytes <= n
    BY <1>2, <1>3
  <2> HIDE DEF n
  <2>2. 3 * Events' + MouseBytes' <= n
    BY <1>2, <1>5, <2>1, Weigh, ZenonT(30)
  <2> QED
    BY <1>3, <1>4, <1>5, <2>2 DEF sent, n
<1>6. CASE KeyPress
  <2>1. Len(kbd') = Len(kbd) + 1
    BY <1>6 DEF KeyPress, PathTypes
  <2>2. /\ keys < MaxKeys /\ keys' = keys + 1
        /\ UNCHANGED <<mouse, command, packets, obf, pc, mouse_cycle, posted>>
    BY <1>6, SMTT(30) DEF KeyPress, driver, ipc
  <2>3. Events' = Events + 1
    <3>1. One(pc = "send")' = One(pc = "send") /\ One(pc = "send") \in Nat
      BY <2>2 DEF One
    <3>2. /\ One(obf.from = "keyboard")' = One(obf.from = "keyboard")
          /\ One(obf.from = "keyboard") \in Nat
      BY <2>2 DEF One
    <3> QED
      BY <1>1, <2>1, <2>2, <3>1, <3>2 DEF Events
  <2>4. MouseBytes' = MouseBytes /\ answers' = answers
    BY <2>2 DEF MouseBytes, One
  <2> HIDE DEF answers
  <2>5. 3 * Events' + MouseBytes' <= 3 * (keys' + packets') + answers'
    BY <1>2, <1>3, <2>2, <2>3, <2>4
  <2> QED
    BY <1>2, <1>3, <1>4, <2>2, <2>5
<1>7. CASE MouseAnswers
  <2>1. Len(mouse') = Len(mouse) + 1
    BY <1>7 DEF MouseAnswers, PathTypes
  <2>2. /\ command = "sent" /\ command' = "answered"
        /\ UNCHANGED <<kbd, keys, packets, obf, pc, mouse_cycle, posted>>
    BY <1>7 DEF MouseAnswers, driver, ipc
  <2>3. Events' = Events /\ answers' = answers + 1
    BY <2>2 DEF Events, One
  <2>4. MouseBytes' = MouseBytes + 1
    BY <1>1, <2>1, <2>2 DEF MouseBytes, One
  <2> HIDE DEF answers
  <2>5. 3 * Events' + MouseBytes' <= 3 * (keys' + packets') + answers'
    BY <1>2, <1>3, <2>2, <2>3, <2>4
  <2> QED
    BY <1>3, <1>4, <2>2, <2>5
<1>8. CASE MouseMove
  <2>1. PICK r \in Reports : mouse' = mouse \o Packet(packets + 1, r)
    BY <1>8 DEF MouseMove, Packet
  <2>2. r \in [1..3 -> 0..255] /\ packets + 1 \in Nat
    BY <1>1, InputPathAssumption, SMTT(20)
  <2>3. Packet(packets + 1, r) \in Seq(MouseByte) /\ Len(Packet(packets + 1, r)) = 3
    BY <2>2, PacketBytes
  <2>4. mouse \in Seq(MouseByte)
    BY DEF PathTypes
  <2>5. Len(mouse \o Packet(packets + 1, r)) = Len(mouse) + Len(Packet(packets + 1, r))
    BY <2>3, <2>4, ConcatIndices
  <2>6. Len(mouse') = Len(mouse) + 3
    BY <2>1, <2>3, <2>5, Zenon
  <2>7. /\ packets < MaxPackets /\ packets' = packets + 1
        /\ UNCHANGED <<kbd, command, keys, obf, pc, mouse_cycle, posted>>
    BY <1>8 DEF MouseMove, driver, ipc
  <2>8. Events' = Events /\ answers' = answers
    BY <2>7 DEF Events, One
  <2>9. MouseBytes' = MouseBytes + 3
    BY <1>1, <2>6, <2>7 DEF MouseBytes, One
  <2> HIDE DEF answers
  <2>10. 3 * Events' + MouseBytes' <= 3 * (keys' + packets') + answers'
    BY <1>2, <1>3, <2>7, <2>8, <2>9
  <2> QED
    BY <1>2, <1>3, <1>4, <2>7, <2>10
<1>9. CASE LoadKey
  <2>1. Len(kbd') = Len(kbd) - 1 /\ obf' \in KeyByte
    BY <1>9 DEF LoadKey, PathTypes
  <2>2. obf.from = "none" /\ obf'.from = "keyboard"
    BY <1>9, <2>1, ObfKinds DEF LoadKey, KeyByte
  <2>3. UNCHANGED <<mouse, command, keys, packets, pc, mouse_cycle, posted>>
    BY <1>9 DEF LoadKey, driver, ipc
  <2>4. Events' = Events
    BY <1>1, <2>1, <2>2, <2>3 DEF Events, One
  <2>5. MouseBytes' = MouseBytes
    BY <2>2, <2>3 DEF MouseBytes, One
  <2> QED
    BY <1>2, <1>5, <2>3, <2>4, <2>5
<1>10. CASE LoadMouse
  <2>1. Len(mouse') = Len(mouse) - 1 /\ obf' \in MouseByte
    BY <1>10, SMTT(30) DEF LoadMouse, PathTypes
  <2>2. obf.from = "none" /\ obf'.from = "mouse"
    BY <1>10, <2>1, ObfKinds DEF LoadMouse, MouseByte
  <2>3. UNCHANGED <<kbd, command, keys, packets, pc, mouse_cycle, posted>>
    BY <1>10 DEF LoadMouse, driver, ipc
  <2>4. Events' = Events
    BY <2>2, <2>3 DEF Events, One
  <2>5. MouseBytes' = MouseBytes
    BY <1>1, <2>1, <2>2, <2>3 DEF MouseBytes, One
  <2> QED
    BY <1>2, <1>5, <2>3, <2>4, <2>5
<1>11. CASE Enable
  <2>1. /\ command = "unsent" /\ command' = "sent" /\ pc # "send" /\ pc' # "send"
        /\ UNCHANGED <<kbd, mouse, keys, packets, obf, mouse_cycle, posted>>
    BY <1>11 DEF Enable, ipc, DriverInv
  <2>2. Events' = Events /\ MouseBytes' = MouseBytes /\ answers' = answers
    BY <2>1 DEF Events, MouseBytes, One
  <2> QED
    BY <1>2, <1>5, <2>1, <2>2
<1>12. CASE AckStatus \/ AckTimeout \/ Status
  <2>1. pc # "send" /\ pc' # "send" /\ UNCHANGED <<devices, obf, mouse_cycle, ipc>>
    BY <1>12 DEF AckStatus, AckTimeout, Status
  <2>2. Events' = Events /\ MouseBytes' = MouseBytes
    BY <2>1 DEF Events, MouseBytes, One, devices, ipc
  <2> QED
    BY <1>2, <1>5, <2>1, <2>2 DEF devices
<1>13. CASE AckData
  <2>1. obf'.from = "none" /\ pc # "send" /\ pc' # "send"
        /\ UNCHANGED <<devices, mouse_cycle, ipc>>
    BY <1>13 DEF AckData, NoByte, Byte
  <2>2. Events' <= Events /\ Events' \in Nat
    BY <1>1, <2>1 DEF Events, One, devices, ipc
  <2>3. MouseBytes' <= MouseBytes /\ MouseBytes' \in Nat
    BY <1>1, <2>1 DEF MouseBytes, One, devices, ipc
  <2> QED
    BY <1>5, <2>1, <2>2, <2>3, SMTT(30) DEF devices
<1>14. CASE ReadKey
  <2>1. obf.from = "keyboard" /\ obf'.from = "none"
    BY <1>14, SMT DEF ReadKey, DriverInv, StatusStillValid, NoByte, Byte
  <2>2. pc = "data" /\ pc' = "send" /\ UNCHANGED <<devices, mouse_cycle, ipc>>
    BY <1>14, SMT DEF ReadKey
  <2>3. Events' = Events
    BY <1>1, <2>1, <2>2 DEF Events, One, devices, ipc
  <2>4. MouseBytes' = MouseBytes
    BY <2>1, <2>2 DEF MouseBytes, One, devices
  <2> QED
    BY <1>2, <1>5, <2>2, <2>3, <2>4, SMTT(20) DEF devices
<1>15. CASE ReadMouse
  <2>1. obf.from = "mouse" /\ obf'.from = "none" /\ pc # "send"
        /\ UNCHANGED <<devices, ipc>>
    BY <1>15 DEF ReadMouse, DriverInv, StatusStillValid, NoByte, Byte
  <2>2. CASE mouse_cycle = 2
    <3>1. mouse_cycle' = 0 /\ pc' = "send"
      BY <1>15, <2>2 DEF ReadMouse, NextCycle
    <3>2. Events' = Events + 1
      BY <1>1, <2>1, <3>1 DEF Events, One, devices, ipc
    <3>3. MouseBytes' \in Nat /\ MouseBytes' + 3 <= MouseBytes
      BY <1>1, <2>1, <2>2, <3>1 DEF MouseBytes, One, devices
    <3>4. keys' = keys /\ packets' = packets /\ answers' = answers
      BY <2>1 DEF devices
    <3> HIDE DEF answers
    <3> DEFINE n == 3 * (keys + packets) + answers
    <3>5. n \in Nat /\ 3 * Events + MouseBytes <= n
      BY <1>2, <1>3
    <3>6. Events' \in Nat /\ Events' <= Events + 1
      BY <1>2, <3>2
    <3> HIDE DEF n
    <3>7. 3 * Events' + MouseBytes' <= n
      BY <1>2, <3>3, <3>5, <3>6, Weigh, Zenon
    <3> QED
      BY <1>3, <1>4, <3>4, <3>7 DEF n
  <2>3. CASE mouse_cycle # 2
    <3>1. mouse_cycle' = mouse_cycle + 1 /\ pc' = "status"
      BY <1>1, <1>15, <2>3 DEF ReadMouse, NextCycle
    <3>2. Events' = Events
      BY <2>1, <3>1 DEF Events, One, devices, ipc
    <3>3. MouseBytes' = MouseBytes
      BY <1>1, <2>1, <3>1, SMTT(30) DEF MouseBytes, One, devices
    <3> QED
      BY <1>2, <1>5, <2>1, <3>2, <3>3 DEF devices
  <2> QED
    BY <2>2, <2>3, SMTT(20)
<1>16. CASE Send
  <2>1. /\ pc = "send" /\ pc' = "status" /\ posted' = posted + 1
        /\ UNCHANGED <<devices, obf, mouse_cycle>>
    BY <1>16 DEF Send
  <2>2. Events' = Events
    BY <1>1, <2>1 DEF Events, One, devices
  <2>3. MouseBytes' = MouseBytes
    BY <2>1 DEF MouseBytes, One, devices
  <2> QED
    BY <1>2, <1>5, <2>1, <2>2, <2>3, SMTT(30) DEF devices
<1>17. CASE Interface \/ UNCHANGED vars
  <2>1. UNCHANGED <<devices, obf, driver, posted>>
    BY <1>17, SMT DEF Interface, Receive, vars, pathVars, ipc
  <2>2. Events' = Events /\ MouseBytes' = MouseBytes
    BY <2>1 DEF Events, MouseBytes, One, devices, driver
  <2> QED
    BY <1>2, <1>5, <2>1, <2>2 DEF devices
<1> QED
  BY <1>6, <1>7, <1>8, <1>9, <1>10, <1>11, <1>12, <1>13, <1>14, <1>15, <1>16, <1>17
     DEF Next, Device, Controller, Driver

\* Of devices, controller and driver only Send touches the mailbox.
LEMMA OnlySendPosts == Device \/ Controller \/ Driver => Send \/ UNCHANGED ipc
<1>1. Device \/ Controller => UNCHANGED ipc
  BY SMTT(20) DEF Device, Controller, KeyPress, MouseAnswers, MouseMove, LoadKey, LoadMouse
<1>2. Enable \/ AckStatus \/ AckData \/ AckTimeout \/ Status => UNCHANGED ipc
  BY DEF Enable, AckStatus, AckData, AckTimeout, Status
<1>3. ReadKey \/ ReadMouse => UNCHANGED ipc
  BY SMTT(20) DEF ReadKey, ReadMouse
<1> QED
  BY <1>1, <1>2, <1>3, SMTT(30) DEF Driver

\* Every step keeps the count of the events taken.
LEMMA TakenStep == BoxInv /\ TakenInv /\ [Next]_vars => TakenInv'
<1> SUFFICES ASSUME BoxInv, TakenInv, [Next]_vars PROVE TakenInv'
  OBVIOUS
<1>1. posted \in Nat /\ Len(taken) \in Nat
  BY DEF BoxInv
<1>2. CASE Send
  BY <1>1, <1>2 DEF Send, TakenInv
<1>3. CASE Interface
  <2>1. /\ mailbox # Empty /\ mailbox' = Empty /\ posted' = posted
        /\ taken' = Append(taken, mailbox.number)
    BY <1>3, SMT DEF Interface, Receive, AfterSwap, Empty
  <2>2. Len(taken') = Len(taken) + 1
    BY <2>1 DEF BoxInv
  <2> QED
    BY <1>1, <2>1, <2>2 DEF TakenInv
<1>4. CASE UNCHANGED ipc
  BY <1>4 DEF ipc, TakenInv
<1> QED
  BY <1>2, <1>3, <1>4, OnlySendPosts DEF Next, vars, pathVars

\* An event that waits was sent for a key or a packet and is not counted yet.
LEMMA EventsBounded ==
  ASSUME PathTypes, BoxInv, CountInv, TakenInv, mailbox # Empty
  PROVE  Len(taken) < MaxKeys + MaxPackets
<1>1. /\ keys \in Nat /\ packets \in Nat /\ mouse_cycle \in Nat /\ posted \in Nat
      /\ Len(kbd) \in Nat /\ Len(mouse) \in Nat /\ Len(taken) \in Nat
  BY DEF PathTypes, BoxInv
<1>2. keys <= MaxKeys /\ packets <= MaxPackets /\ 3 * posted <= 3 * (keys + packets) + 1
  <2> DEFINE answers == One(command = "answered")
  <2>1. Events \in Nat /\ MouseBytes \in Nat /\ answers \in 0..1 /\ Events >= posted
    BY CountTypes DEF One
  <2>2. /\ keys <= MaxKeys /\ packets <= MaxPackets
        /\ 3 * Events + MouseBytes <= 3 * (keys + packets) + answers
    BY Zenon DEF CountInv
  <2> HIDE DEF answers
  <2> QED
    BY <1>1, <2>1, <2>2, InputPathAssumption
<1>3. Len(taken) < posted
  BY DEF TakenInv
<1> QED
  BY <1>1, <1>2, <1>3, InputPathAssumption

\* A step of the whole is a step of the interface as UiApp has it, or none of it.
LEMMA InterfaceStep ==
  PathTypes /\ BoxInv /\ CountInv /\ TakenInv /\ WordInv /\ [Next]_vars
    => [UI!Next]_(UI!vars)
<1> SUFFICES ASSUME PathTypes, BoxInv, CountInv, TakenInv, WordInv, [Next]_vars
             PROVE  [UI!Next]_(UI!vars)
  OBVIOUS
<1>1. CASE Interface
  <2>1. mailbox # Empty /\ taken' = Append(taken, mailbox.number)
    BY <1>1, SMT DEF Interface, Receive, Empty
  <2>2. Len(taken) < MaxKeys + MaxPackets /\ Len(taken') = Len(taken) + 1
    BY <2>1, EventsBounded, SMTT(20) DEF BoxInv
  <2> DEFINE word == mailbox.word
             left == LeftDown(MsgByte(word, 65536))
             dx == MsgByte(word, 256)
             dy == MsgByte(word, 1)
  <2>3. left \in BOOLEAN /\ dx \in 0..255 /\ dy \in 0..255
    <3>1. mailbox.word \in Nat
      BY <2>1 DEF BoxInv
    <3> QED
      BY <3>1 DEF LeftDown, MsgByte
  <2>4. CASE MouseWord(word)
    <3>1. UI!Mouse(left, dx, dy)
      BY <1>1, <2>4, SMT DEF Interface, Handle, MouseWord
    <3> HIDE DEF left, dx, dy, word
    <3>2. \E l \in BOOLEAN, x, y \in 0..255 : UI!Mouse(l, x, y)
      BY <2>3, <3>1, ZenonT(30)
    <3> QED
      BY <2>2, <3>2, ZenonT(30) DEF UI!Next
  <2>5. CASE KeyWord(word)
    <3>1. dy \in Scancodes /\ MsgByte(word, 16777216) = 17
      BY <2>5, KeyWordBytes, SMT
    <3>2. UI!KeyDown(dy) \/ UI!KeyUp(dy)
      BY <1>1, <3>1, SMT DEF Interface, Handle
    <3>3. dy \in Scancodes
      BY <3>1, SMT
    <3> HIDE DEF dy
    <3>4. \E c \in Scancodes : UI!KeyDown(c) \/ UI!KeyUp(c)
      BY <3>2, <3>3, Zenon
    <3> QED
      BY <2>2, <3>4, Zenon DEF UI!Next
  <2> QED
    BY <2>1, <2>4, <2>5 DEF WordInv
<1>2. CASE UNCHANGED <<uiVars, taken>>
  BY <1>2 DEF UI!vars, uiVars
<1>3. CASE ~Interface
  <2>1. UNCHANGED uiVars /\ (Send \/ UNCHANGED ipc)
    BY <1>3, OnlySendPosts DEF Next, vars, pathVars
  <2>2. taken' = taken
    BY <2>1 DEF Send, ipc
  <2> QED
    BY <1>2, <2>1, <2>2
<1> QED
  BY <1>1, <1>3

\* The interface of the whole system is the one UiApp describes, for every set of
\* scancodes and reports: what reaches it through GLOBAL_IPC_MAILBOX, however events
\* are overwritten there, are only messages that UiApp's steps answer, and no more of
\* them than keys and packets were sent.
THEOREM InterfaceIsUiApp == Spec => UI!Spec
<1> DEFINE Inv == PathTypes /\ DriverInv /\ BoxInv /\ CountInv /\ TakenInv /\ WordInv
<1>1. Init => Inv /\ UI!Init
  BY PathInits, BoxInits, CountInit, WordInit DEF Init
<1>2. Inv /\ [Next]_vars => Inv'
  BY PathStep, BoxStep, CountStep, TakenStep, WordStep
<1>3. Inv /\ [Next]_vars => [UI!Next]_(UI!vars)
  BY InterfaceStep
<1> QED
  BY <1>1, <1>2, <1>3, PTL DEF Spec, UI!Spec
=============================================================================
