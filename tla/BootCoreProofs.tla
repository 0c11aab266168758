--------------------------- MODULE BootCoreProofs ---------------------------
(***************************************************************************)
(* The boot core: how it starts the other cores (Smp), for every finite    *)
(* set of application processors, and then its own loop (Supervisor), for  *)
(* any set of words and any number of posts and interrupts.                *)
(* NoSleepOverMessage is inductive as it stands: core 0 enters MWAIT from  *)
(* an empty mailbox, and the only step that fills the mailbox, a post,     *)
(* ends the watch.  That each mailbox implements NewestWins rests on       *)
(* SupervisorBoxInv and IrqBoxInv: an empty mailbox means that the newest  *)
(* message has been taken, a full one holds the newest message and it has  *)
(* not been taken.                                                         *)
(***************************************************************************)
EXTENDS BootCore, FiniteSetTheorems, TLAPS

\* The APs that have incremented AP_READY_COUNT.
Signalled == {a \in APs : pc[a] \notin {"parked", "hardware", "ready"}}

\* Logical ids: a core has one from its fetch_add on, below the counter, and
\* no two have the same.
IdsInv ==
  /\ \A a \in APs : pc[a] = "parked" <=> logical_id[a] = 0
  /\ \A a \in APs : logical_id[a] < LOGICAL_CORE_COUNT
  /\ UniqueLogicalIds

\* The barrier: AP_READY_COUNT counts the cores that have signalled, and the
\* boot core is behind the barrier only when all have.
BarrierInv ==
  /\ AP_READY_COUNT = Cardinality(Signalled)
  /\ bsp \notin {"release", "wait"} => Signalled = APs

\* The TSS: it belongs to the core with logical id 1 from init_ap_hardware on,
\* and as soon as any id was handed out, some core has id 1.
TssInv ==
  /\ \A a \in APs : a \in tss <=> logical_id[a] = 1 /\ pc[a] \notin {"parked", "hardware"}
  /\ LOGICAL_CORE_COUNT > 1 => \E a \in APs : logical_id[a] = 1

IInv == TypeOK /\ IdsInv /\ BarrierInv /\ TssInv

\* AP_READY_COUNT starts at zero, with no core started.
LEMMA InitHolds == Init => IInv
<1> SUFFICES ASSUME Init PROVE IInv
  OBVIOUS
<1>1. TypeOK
  BY DEF Init, TypeOK
<1>2. IdsInv
  BY DEF Init, IdsInv, UniqueLogicalIds
<1>3. Signalled = {}
  BY DEF Init, Signalled
<1>4. BarrierInv
  BY <1>3, FS_EmptySet DEF Init, BarrierInv
<1>5. TssInv
  BY DEF Init, TssInv
<1> QED
  BY <1>1, <1>2, <1>4, <1>5 DEF IInv

\* A step that moves no AP across the barrier keeps the count right.
LEMMA BarrierKept ==
  ASSUME BarrierInv, Signalled' = Signalled, AP_READY_COUNT' = AP_READY_COUNT,
         bsp' = bsp
  PROVE  BarrierInv'
<1>1. Cardinality(Signalled') = Cardinality(Signalled)
  OBVIOUS
<1> QED
  BY <1>1 DEF BarrierInv

\* The fetch_add of ap_main hands out a number that no core has.
LEMMA TakeIdStep ==
  ASSUME IInv, NEW a \in APs, TakeId(a)
  PROVE  IInv'
<1> USE DEF TakeId, Goto, bspVars, IInv
<1>1. TypeOK'
  BY DEF TypeOK, NextId
<1>2. IdsInv'
  BY DEF TypeOK, IdsInv, UniqueLogicalIds, NextId
<1>3. Signalled' = Signalled
  BY DEF TypeOK, Signalled
<1>4. BarrierInv'
  BY <1>3, BarrierKept
<1>5. TssInv'
  <2>1. \A b \in APs : b \in tss' <=> logical_id'[b] = 1 /\ pc'[b] \notin {"parked", "hardware"}
    BY DEF TypeOK, TssInv
  <2>2. CASE LOGICAL_CORE_COUNT = 1
    BY <2>1, <2>2 DEF TypeOK, TssInv
  <2>3. CASE LOGICAL_CORE_COUNT > 1
    <3>1. PICK b \in APs : logical_id[b] = 1
      BY <2>3 DEF TssInv
    <3>2. b # a
      BY <3>1 DEF IdsInv
    <3>3. logical_id'[b] = 1
      BY <3>1, <3>2 DEF TypeOK
    <3> QED
      BY <2>1, <3>3 DEF TssInv
  <2> QED
    BY <2>2, <2>3 DEF TypeOK
<1> QED
  BY <1>1, <1>2, <1>4, <1>5

\* Only the core with logical id 1 loads the TSS.
LEMMA InitHardwareStep ==
  ASSUME IInv, NEW a \in APs, InitHardware(a)
  PROVE  IInv'
<1> USE DEF InitHardware, Goto, bspVars, IInv
<1>1. TypeOK'
  BY DEF TypeOK
<1>2. IdsInv'
  BY DEF TypeOK, IdsInv, UniqueLogicalIds
<1>3. Signalled' = Signalled
  BY DEF TypeOK, Signalled
<1>4. BarrierInv'
  BY <1>3, BarrierKept
<1>5. TssInv'
  BY DEF TypeOK, TssInv, LoadsTss
<1> QED
  BY <1>1, <1>2, <1>4, <1>5

\* The increment of AP_READY_COUNT counts exactly the core that makes it.
LEMMA SignalReadyStep ==
  ASSUME IInv, NEW a \in APs, SignalReady(a)
  PROVE  IInv'
<1> USE DEF SignalReady, ReadyAdds, Goto, bspVars, IInv
<1>1. TypeOK'
  BY DEF TypeOK
<1>2. IdsInv'
  BY DEF TypeOK, IdsInv, UniqueLogicalIds
<1>3. BarrierInv'
  <2>1. Signalled' = Signalled \cup {a} /\ a \notin Signalled
    BY DEF TypeOK, Signalled
  <2>2. IsFiniteSet(Signalled)
    BY SmpAssumption, FS_Subset DEF Signalled
  <2>3. Cardinality(Signalled') = Cardinality(Signalled) + 1
    BY <2>1, <2>2, FS_AddElement, SMTT(30)
  <2>4. bsp \in {"release", "wait"}
    BY <2>1 DEF BarrierInv
  <2> QED
    BY <2>3, <2>4 DEF BarrierInv
<1>4. TssInv'
  BY DEF TypeOK, TssInv
<1> QED
  BY <1>1, <1>2, <1>3, <1>4

\* The boot core leaves its wait only when the count says that all have come.
LEMMA AllReadyStep ==
  ASSUME IInv, AllReady
  PROVE  IInv'
<1> USE DEF AllReady, apVars, IInv
<1>1. TypeOK' /\ IdsInv' /\ TssInv'
  BY DEF TypeOK, IdsInv, TssInv, UniqueLogicalIds
<1>2. Signalled' = Signalled
  BY DEF Signalled
<1>3. Signalled = APs
  <2>1. Signalled \subseteq APs /\ IsFiniteSet(APs)
    BY SmpAssumption DEF Signalled
  <2>2. IsFiniteSet(Signalled) /\ Cardinality(Signalled) <= Cardinality(APs)
        /\ (Cardinality(Signalled) = Cardinality(APs) => Signalled = APs)
    BY <2>1, FS_Subset
  <2>3. Cardinality(Signalled) \in Nat /\ Cardinality(APs) \in Nat
    BY <2>1, <2>2, FS_CardinalityType
  <2> QED
    BY <2>2, <2>3 DEF BarrierInv, expected_aps
<1>4. Cardinality(Signalled') = Cardinality(Signalled)
  BY <1>2
<1>5. BarrierInv'
  BY <1>2, <1>3, <1>4 DEF BarrierInv
<1> QED
  BY <1>1, <1>5

\* Every other step of the boot core and of an AP stays on its side of the
\* barrier and leaves the ids alone.
LEMMA OtherSteps ==
  ASSUME IInv,
         \/ \E a \in APs : Release(a) \/ Lidt(a) \/ DropToUserMode(a)
                           \/ FpuHandled(a) \/ FpuTripleFault(a)
         \/ Released \/ SidtBegins \/ SidtEnds \/ Supervise
         \/ UNCHANGED vars
  PROVE  IInv'
<1> USE DEF IInv
<1>1. UNCHANGED <<LOGICAL_CORE_COUNT, AP_READY_COUNT, logical_id, tss>>
  BY DEF Release, Lidt, DropToUserMode, FpuHandled, FpuTripleFault, Released,
         SidtBegins, SidtEnds, Supervise, apVars, bspVars, vars
<1>2. \A a \in APs : /\ pc'[a] = "parked" <=> pc[a] = "parked"
                     /\ pc'[a] = "hardware" <=> pc[a] = "hardware"
                     /\ pc'[a] = "ready" <=> pc[a] = "ready"
  BY DEF TypeOK, Goto, Release, Lidt, DropToUserMode, FpuHandled, FpuTripleFault,
         Released, SidtBegins, SidtEnds, Supervise, apVars, bspVars, vars
<1>3. TypeOK'
  <2>1. CASE \E a \in APs : Release(a)
    BY <2>1 DEF TypeOK, Release, apVars
  <2>2. CASE \E a \in APs : Lidt(a) \/ DropToUserMode(a) \/ FpuHandled(a)
    BY <2>2 DEF TypeOK, Lidt, DropToUserMode, FpuHandled, Goto, bspVars
  <2>3. CASE \E a \in APs : FpuTripleFault(a)
    BY <2>3 DEF TypeOK, FpuTripleFault, bspVars, apVars
  <2>4. CASE Released \/ SidtBegins \/ SidtEnds \/ Supervise
    BY <2>4 DEF TypeOK, Released, SidtBegins, SidtEnds, Supervise, apVars
  <2>5. CASE UNCHANGED vars
    BY <2>5, SMTT(30) DEF TypeOK, vars, bspVars, apVars
  <2> QED
    BY <2>1, <2>2, <2>3, <2>4, <2>5
<1>4. IdsInv' /\ TssInv'
  BY <1>1, <1>2 DEF IdsInv, TssInv, UniqueLogicalIds
<1>5. Signalled' = Signalled
  BY <1>2 DEF Signalled
<1>6. Cardinality(Signalled') = Cardinality(Signalled)
  BY <1>5
<1>7. bsp' \notin {"release", "wait"} => bsp \notin {"release", "wait"}
  BY DEF Release, Lidt, DropToUserMode, FpuHandled, FpuTripleFault, Released,
         SidtBegins, SidtEnds, Supervise, bspVars, vars
<1>8. BarrierInv'
  BY <1>1, <1>5, <1>6, <1>7 DEF BarrierInv
<1> QED
  BY <1>3, <1>4, <1>8

\* The ids, the barrier and the TSS together are inductive: smp::init and
\* ap_main keep them for any number of cores, in any order.
THEOREM SmpInvariance == Spec => []IInv
<1>1. Init => IInv
  BY InitHolds
<1>2. IInv /\ [Next]_vars => IInv'
  <2> SUFFICES ASSUME IInv, [Next]_vars PROVE IInv'
    OBVIOUS
  <2>1. CASE BspStep
    BY <2>1, AllReadyStep, OtherSteps DEF BspStep
  <2>2. CASE \E a \in APs : ApStep(a)
    BY <2>2, TakeIdStep, InitHardwareStep, SignalReadyStep, OtherSteps DEF ApStep
  <2>3. CASE \E a \in APs : UserFpu(a)
    BY <2>3, OtherSteps DEF UserFpu
  <2>4. CASE UNCHANGED vars
    BY <2>4, OtherSteps
  <2> QED
    BY <2>1, <2>2, <2>3, <2>4 DEF Next
<1> QED
  BY <1>1, <1>2, PTL DEF Spec

\* "Assigns a unique logical ID to each core as it comes online" (smp.rs).
THEOREM IdsUnique == Spec => []UniqueLogicalIds
<1>1. IInv => UniqueLogicalIds
  BY DEF IInv, IdsInv
<1> QED
  BY <1>1, SmpInvariance, PTL

\* The boot core leaves the wait of smp::init only when every application
\* processor has finished its hardware setup.
THEOREM BarrierHolds == Spec => []AllOnline
<1>1. IInv => AllOnline
  BY DEF IInv, BarrierInv, AllOnline, Signalled
<1> QED
  BY <1>1, SmpInvariance, PTL

\* init_ap loads the one TSS on exactly one application processor.
THEOREM TssOwnerUnique == Spec => []OneTssOwner
<1>1. IInv => OneTssOwner
  <2> SUFFICES ASSUME IInv PROVE OneTssOwner
    OBVIOUS
  <2>1. \A a, b \in tss : a = b
    BY DEF IInv, TypeOK, TssInv, IdsInv, UniqueLogicalIds
  <2>2. ASSUME bsp = "supervisor", NEW a \in APs
        PROVE  tss # {}
    <3>1. \A b \in APs : pc[b] \notin {"parked", "hardware", "ready"}
      BY <2>2 DEF IInv, BarrierInv, Signalled
    <3>2. logical_id[a] # 0 /\ logical_id[a] < LOGICAL_CORE_COUNT
      BY <3>1 DEF IInv, IdsInv
    <3>3. LOGICAL_CORE_COUNT > 1
      BY <3>2 DEF IInv, TypeOK
    <3> QED
      BY <3>1, <3>3 DEF IInv, TssInv
  <2> QED
    BY <2>1, <2>2 DEF OneTssOwner
<1> QED
  BY <1>1, SmpInvariance, PTL
-----------------------------------------------------------------------------
\* The loop starts awake, with an empty mailbox.
LEMMA AwakeInit == SupervisorInit => NoSleepOverMessage
  BY DEF SupervisorInit, NoSleepOverMessage, Empty

\* Every step of core 0, of a posting core and of an interrupt keeps the invariant.
LEMMA AwakeStep == NoSleepOverMessage /\ [SupervisorNext]_supervisorVars => NoSleepOverMessage'
<1> SUFFICES ASSUME NoSleepOverMessage, [SupervisorNext]_supervisorVars PROVE NoSleepOverMessage'
  OBVIOUS
<1> USE DEF NoSleepOverMessage
<1>1. CASE \E m \in Messages : Post(m)
  BY <1>1 DEF Post
<1>2. CASE KeyboardIrq \/ TimerInterrupt
  BY <1>2 DEF KeyboardIrq, TimerInterrupt, Interrupted
<1>3. CASE CheckIrq
  BY <1>3 DEF CheckIrq
<1>4. CASE Monitor
  BY <1>4 DEF Monitor
<1>5. CASE Check
  BY <1>5 DEF Check, Checked
<1>6. CASE Mwait
  BY <1>6 DEF Mwait
<1>7. CASE Swap
  BY <1>7 DEF Swap
<1>8. CASE Handle \/ AllAcks
  BY <1>8 DEF Handle, AllAcks
<1>9. CASE UNCHANGED supervisorVars
  BY <1>9 DEF supervisorVars
<1> QED
  BY <1>1, <1>2, <1>3, <1>4, <1>5, <1>6, <1>7, <1>8, <1>9 DEF SupervisorNext, Core0

\* In every behaviour of the supervisor loop core 0 sleeps in MWAIT only while
\* SUPERVISOR_MAILBOX is empty: no post, however it falls, is slept over.
THEOREM NoLostWakeup == SupervisorSpec => []NoSleepOverMessage
  BY AwakeInit, AwakeStep, PTL DEF SupervisorSpec
-----------------------------------------------------------------------------
\* What SUPERVISOR_MAILBOX and its history are at any time.
SupervisorBoxInv ==
  /\ posts \in Nat /\ taken \in Seq(Nat)
  /\ \/ SUPERVISOR_MAILBOX = Empty /\ Box!LastTaken = posts
     \/ /\ \E m \in Messages : SUPERVISOR_MAILBOX = [number |-> posts, word |-> m]
        /\ Box!LastTaken < posts

\* What IRQ_MAILBOXES[33] and its history are at any time.
IrqBoxInv ==
  /\ irqs \in Nat /\ seen \in Seq(Nat)
  /\ \/ irq_mailbox = 0 /\ IrqBox!LastTaken = irqs
     \/ irq_mailbox = irqs /\ IrqBox!LastTaken < irqs

\* The last element of a sequence that has just been appended.
LEMMA LastOfAppend ==
  ASSUME NEW s \in Seq(Nat), NEW n \in Nat
  PROVE  /\ Append(s, n) \in Seq(Nat) /\ Append(s, n) # <<>>
         /\ Append(s, n)[Len(Append(s, n))] = n
  OBVIOUS

\* Both mailboxes start empty, with nothing posted.
LEMMA BoxesInit ==
  SupervisorInit => SupervisorBoxInv /\ IrqBoxInv /\ Box!BoxInit /\ IrqBox!BoxInit
  BY DEF SupervisorInit, SupervisorBoxInv, IrqBoxInv, Box!LastTaken, IrqBox!LastTaken,
         Box!BoxInit, IrqBox!BoxInit

\* A step keeps the invariant of SUPERVISOR_MAILBOX and is a step of NewestWins:
\* a post is a Post, the swap of a full mailbox a Take, all else a stutter.
LEMMA SupervisorBoxStep ==
  SupervisorBoxInv /\ [SupervisorNext]_supervisorVars =>
    SupervisorBoxInv' /\ [Box!Post \/ Box!Take]_(Box!boxVars)
<1> SUFFICES ASSUME SupervisorBoxInv, [SupervisorNext]_supervisorVars
             PROVE  SupervisorBoxInv' /\ [Box!Post \/ Box!Take]_(Box!boxVars)
  OBVIOUS
<1> USE SupervisorAssumption DEF SupervisorBoxInv, Box!boxVars
<1>1. CASE \E m \in Messages : Post(m)
  <2>1. Box!LastTaken' = Box!LastTaken
    BY <1>1 DEF Post, Box!LastTaken
  <2>2. Box!LastTaken \in Nat /\ Box!LastTaken <= posts
    BY DEF Box!LastTaken
  <2> QED
    BY <1>1, <2>1, <2>2 DEF Post, Box!Post
<1>2. CASE Swap
  <2>1. CASE SUPERVISOR_MAILBOX = Empty /\ Box!LastTaken = posts
    BY <1>2, <2>1 DEF Swap, Empty, Box!LastTaken
  <2>2. CASE /\ \E m \in Messages : SUPERVISOR_MAILBOX = [number |-> posts, word |-> m]
             /\ Box!LastTaken < posts
    <3>1. taken' = Append(taken, posts) /\ posts' = posts /\ SUPERVISOR_MAILBOX' = Empty
      BY <1>2, <2>2 DEF Swap
    <3>2. Box!LastTaken' = posts /\ taken' \in Seq(Nat)
      BY <3>1, LastOfAppend DEF Box!LastTaken
    <3> QED
      BY <2>2, <3>1, <3>2 DEF Box!Take
  <2> QED
    BY <2>1, <2>2
<1>3. CASE UNCHANGED <<SUPERVISOR_MAILBOX, posts, taken>>
  BY <1>3 DEF Box!LastTaken, Empty
<1> QED
  BY <1>1, <1>2, <1>3 DEF SupervisorNext, Core0, KeyboardIrq, TimerInterrupt, CheckIrq, Monitor,
     Check, Mwait, Handle, AllAcks, supervisorVars

\* The same for IRQ_MAILBOXES[33]: an interrupt is a Post, a SYS_CHECK_IRQ that
\* finds one is a Take.
LEMMA IrqBoxStep ==
  IrqBoxInv /\ [SupervisorNext]_supervisorVars =>
    IrqBoxInv' /\ [IrqBox!Post \/ IrqBox!Take]_(IrqBox!boxVars)
<1> SUFFICES ASSUME IrqBoxInv, [SupervisorNext]_supervisorVars
             PROVE  IrqBoxInv' /\ [IrqBox!Post \/ IrqBox!Take]_(IrqBox!boxVars)
  OBVIOUS
<1> USE DEF IrqBoxInv, IrqBox!boxVars
<1>1. CASE KeyboardIrq
  <2>1. IrqBox!LastTaken' = IrqBox!LastTaken
    BY <1>1 DEF KeyboardIrq, IrqBox!LastTaken
  <2>2. IrqBox!LastTaken \in Nat /\ IrqBox!LastTaken <= irqs
    BY DEF IrqBox!LastTaken
  <2> QED
    BY <1>1, <2>1, <2>2 DEF KeyboardIrq, IrqStored, IrqBox!Post
<1>2. CASE CheckIrq
  <2>1. seen' = Append(seen, irqs) /\ irqs' = irqs /\ irq_mailbox' = 0
        /\ IrqBox!LastTaken < irqs
    BY <1>2 DEF CheckIrq
  <2>2. IrqBox!LastTaken' = irqs /\ seen' \in Seq(Nat)
    BY <2>1, LastOfAppend DEF IrqBox!LastTaken
  <2> QED
    BY <2>1, <2>2 DEF IrqBox!Take
<1>3. CASE UNCHANGED irqVars
  BY <1>3 DEF irqVars, IrqBox!LastTaken
<1> QED
  BY <1>1, <1>2, <1>3 DEF SupervisorNext, Core0, Post, TimerInterrupt, Monitor, Check, Mwait,
     Swap, Handle, AllAcks, supervisorVars

\* SUPERVISOR_MAILBOX implements the safety part of NewestWins: core 0 takes the
\* newest word posted, and takes no word twice.
THEOREM SupervisorKeepsNewest == SupervisorSpec => Box!Safe
<1>1. SupervisorSpec => Box!BoxInit /\ SupervisorBoxInv
  BY BoxesInit DEF SupervisorSpec
<1> QED
  BY <1>1, SupervisorBoxStep, PTL DEF SupervisorSpec, Box!Safe

\* No interrupt is seen twice, and the word that the keyboard handler stored last in
\* IRQ_MAILBOXES[33] stays there until a SYS_CHECK_IRQ sees it.
THEOREM IrqKeepsNewest == SupervisorSpec => IrqSeenByNextCheck
<1>1. SupervisorSpec => IrqBox!BoxInit /\ IrqBoxInv
  BY BoxesInit DEF SupervisorSpec
<1>2. IrqBoxInv => (irq_mailbox = 0 <=> IrqBox!LastTaken = irqs)
  <2> SUFFICES ASSUME IrqBoxInv PROVE irq_mailbox = 0 <=> IrqBox!LastTaken = irqs
    OBVIOUS
  <2>1. irqs \in Nat /\ IrqBox!LastTaken \in Nat
    BY DEF IrqBoxInv, IrqBox!LastTaken
  <2> QED
    BY <2>1 DEF IrqBoxInv
<1> QED
  BY <1>1, <1>2, IrqBoxStep, PTL DEF SupervisorSpec, IrqSeenByNextCheck, IrqBox!Safe
-----------------------------------------------------------------------------
\* Core 0 in boot and after it is what Smp and Supervisor say, so that what is proved
\* of each holds of both together.
THEOREM BootIsBoth == BootSpec => Spec /\ SupervisorSpec
<1>1. BootInit => Init /\ SupervisorInit
  BY DEF BootInit
<1>2. [BootNext]_bootVars => [Next]_vars /\ [SupervisorNext]_supervisorVars
  <2>1. CASE BspBoots \/ \E a \in APs : ApBoots(a)
    BY <2>1 DEF BspBoots, ApBoots, Next
  <2>2. CASE Supervises \/ Events
    BY <2>2 DEF Supervises, Events, SupervisorNext
  <2>3. CASE UNCHANGED bootVars
    BY <2>3 DEF bootVars
  <2> QED
    BY <2>1, <2>2, <2>3 DEF BootNext
<1> QED
  BY <1>1, <1>2, PTL DEF BootSpec, Spec, SupervisorSpec
=============================================================================
