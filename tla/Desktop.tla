------------------------------ MODULE Desktop ------------------------------
(***************************************************************************)
(* Input devices, PS/2 driver and mailbox (InputPath) together with the    *)
(* user interface that polls the mailbox (UiApp): what becomes of a mouse  *)
(* button on its way to the window.  Driver and interface run on different *)
(* cores.  No pixel is observed here.                                      *)
(***************************************************************************)
EXTENDS InputPath

CONSTANTS FbWidth, FbHeight,   \* see UiApp
          Values32, Values64

VARIABLES mouse_x, mouse_y, win_x, win_y,
          is_dragging, drag_offset_x, drag_offset_y,
          win_color, inside

uiVars == <<mouse_x, mouse_y, win_x, win_y, is_dragging, drag_offset_x, drag_offset_y,
            win_color, inside>>
vars == <<pathVars, uiVars>>

UI == INSTANCE UiApp WITH Pixels <- {}, Deltas <- 0..255, MaxEvents <- MaxKeys + MaxPackets,
                          screen <- <<>>, events <- Len(taken)

\* The byte of a message that stands for so many, as the interface shifts it out
\* of the word.
MsgByte(msg, unit) == (msg \div unit) % 256

\* One turn of the interface's loop with a message.
Handle(msg) ==
  \/ /\ MsgByte(msg, 16777216) = 94
     /\ UI!Mouse(LeftDown(MsgByte(msg, 65536)), MsgByte(msg, 256), MsgByte(msg, 1))
  \/ /\ MsgByte(msg, 16777216) = 17
     /\ UI!KeyDown(MsgByte(msg, 1)) \/ UI!KeyUp(MsgByte(msg, 1))

Interface == Receive /\ Handle(mailbox.word)

Init == PathInit /\ UI!Init

Next ==
  \/ (Device \/ Controller \/ Driver) /\ UNCHANGED uiVars
  \/ Interface

Spec == Init /\ [][Next]_vars

\* The interface polls, the driver polls, and the controller hands over what the
\* devices have; nobody has to move the mouse or press a key, and the mouse need
\* not answer.
FairSpec ==
  /\ Spec
  /\ WF_vars(Controller /\ UNCHANGED uiVars)
  /\ WF_vars(Driver /\ UNCHANGED uiVars)
  /\ WF_vars(Interface)
-----------------------------------------------------------------------------
\* Every byte has been read, every event handled.
Settled ==
  /\ kbd = <<>> /\ mouse = <<>> /\ obf = NoByte
  /\ pc = "status"
  /\ mailbox = Empty

\* A drag ends with the button: once all is quiet no drag has outlived the release
\* of the button, although the release may be overwritten in the mailbox.  The
\* exception is a key that came last: it may have overwritten the release.
DragEndsWithButton ==
  Settled /\ acked /\ status = "mouse" => (is_dragging => button)

\* Input is handled to the end: whether or not the mouse ever answers, the driver
\* gets through its wait and the last event through driver, mailbox and interface.
InputSettles == <>[]Settled
=============================================================================
