----------------------------- MODULE NewestWins -----------------------------
(***************************************************************************)
(* What a one-word mailbox promises: a sender stores over whatever is      *)
(* there, the receiver takes the word and leaves 0.  Messages may be       *)
(* overwritten, but what is taken is always the newest one posted, no      *)
(* message is taken twice, none is taken after a later one, and the last   *)
(* one is not lost.  The kernel has three such words: SUPERVISOR_MAILBOX   *)
(* (task/scheduler.rs), IRQ_MAILBOXES (arch/x86_64/idt.rs) and             *)
(* GLOBAL_IPC_MAILBOX (arch/x86_64/syscall.rs).                            *)
(***************************************************************************)
EXTENDS Naturals, Sequences

VARIABLES posted,     \* how many messages were posted
          taken       \* the numbers of those that were taken, in order

boxVars == <<posted, taken>>

\* The newest message that was taken, 0 before the first.
LastTaken == IF taken = <<>> THEN 0 ELSE taken[Len(taken)]

BoxInit == posted = 0 /\ taken = <<>>

Post ==
  /\ posted' = posted + 1
  /\ taken' = taken

Take ==
  /\ LastTaken < posted
  /\ taken' = Append(taken, posted)
  /\ posted' = posted

Safe == BoxInit /\ [][Post \/ Take]_boxVars

\* A receiver that keeps looking gets what is there.
Live == Safe /\ WF_boxVars(Take)
=============================================================================
