------------------------------ MODULE BootCore ------------------------------
(***************************************************************************)
(* Core 0 from the start of the other cores (Smp) to its message loop      *)
(* (Supervisor), with the workers it has started.  No module sees the      *)
(* other's variables: what joins them is that core 0 enables interrupts    *)
(* and enters its loop when boot is over, and that only user code on a     *)
(* worker can make a system call.  User code uses no floating point here:  *)
(* what comes of that, Smp says alone.                                     *)
(***************************************************************************)
EXTENDS Smp, Supervisor

bootVars == <<vars, supervisorVars>>

BootInit == Init /\ SupervisorInit

InUserMode == \E a \in APs : pc[a] = "user"

BspBoots == BspStep /\ UNCHANGED supervisorVars
ApBoots(a) == ApStep(a) /\ UNCHANGED supervisorVars

Supervises == bsp = "supervisor" /\ Core0 /\ UNCHANGED vars

Events ==
  /\ bsp = "supervisor"
  /\ \/ \E m \in Messages : Post(m)
     \/ KeyboardIrq
     \/ TimerInterrupt
     \/ InUserMode /\ CheckIrq
  /\ UNCHANGED vars

BootNext == BspBoots \/ (\E a \in APs : ApBoots(a)) \/ Supervises \/ Events

BootSpec == BootInit /\ [][BootNext]_bootVars

\* Each core executes its own code; in boot nothing waits except for the barrier.
\* Nothing is assumed of posts, interrupts and system calls.
FairBootSpec ==
  /\ BootSpec
  /\ WF_bootVars(BspBoots)
  /\ \A a \in APs : WF_bootVars(ApBoots(a))
  /\ WF_bootVars(Supervises)
=============================================================================
