-------------------------------- MODULE Smp --------------------------------
(***************************************************************************)
(* The start of the other cores (stardust/src/smp.rs), from the boot       *)
(* core's release of each application processor (AP) to the worker loop    *)
(* (task/scheduler.rs), with the descriptor tables each core ends up with  *)
(* and the first floating-point instruction of its user code.              *)
(***************************************************************************)
EXTENDS Naturals, FiniteSets

CONSTANTS APs,            \* the cores other than the boot core
          MaxWorker       \* the highest logical id that becomes a worker

ASSUME SmpAssumption == IsFiniteSet(APs) /\ MaxWorker \in Nat

VARIABLES bsp,            \* where the boot core is
          released,       \* the APs whose goto_address is written
          LOGICAL_CORE_COUNT, AP_READY_COUNT,
          global_idtr,    \* GLOBAL_IDTR
          pc,             \* where each AP is
          logical_id,     \* each AP's logical id, 0 before it has one
          idtr,           \* what each AP's IDT register holds
          tss,            \* the APs that have loaded the task state segment
          machine         \* is the machine up, or reset by a triple fault?

bspVars == <<bsp, released, global_idtr>>
apVars == <<LOGICAL_CORE_COUNT, AP_READY_COUNT, pc, logical_id, idtr, tss>>
vars == <<bspVars, apVars, machine>>

Goto(a, label) == pc' = [pc EXCEPT ![a] = label]

Init ==
  /\ bsp = "release"
  /\ released = {}
  /\ LOGICAL_CORE_COUNT = 1
  /\ AP_READY_COUNT = 0
  /\ global_idtr = "zero"
  /\ pc = [a \in APs |-> "parked"]
  /\ logical_id = [a \in APs |-> 0]
  /\ idtr = [a \in APs |-> "none"]
  /\ tss = {}
  /\ machine = "up"
-----------------------------------------------------------------------------
\* goto_address.write(ap_main), one AP after the other.
Release(a) ==
  /\ bsp = "release"
  /\ a \notin released
  /\ released' = released \cup {a}
  /\ UNCHANGED <<bsp, global_idtr, apVars, machine>>

Released ==
  /\ bsp = "release"
  /\ released = APs
  /\ bsp' = "wait"
  /\ UNCHANGED <<released, global_idtr, apVars, machine>>

ExpectedTooFew == Cardinality(APs) - 1
expected_aps == Cardinality(APs)

\* The end of the wait for all APs.  scheduler::init and the loader follow.
AllReady ==
  /\ bsp = "wait"
  /\ AP_READY_COUNT >= expected_aps
  /\ bsp' = "load"
  /\ UNCHANGED <<released, global_idtr, apVars, machine>>

\* sidt writes the ten bytes of GLOBAL_IDTR while APs may read them.
SidtBegins ==
  /\ bsp = "load"
  /\ global_idtr' = "torn"
  /\ bsp' = "sidt"
  /\ UNCHANGED <<released, apVars, machine>>

SidtEnds ==
  /\ bsp = "sidt"
  /\ global_idtr' = "kernel"
  /\ bsp' = "spawn"
  /\ UNCHANGED <<released, apVars, machine>>

\* The god thread is spawned: from now on there are threads to run.
Supervise ==
  /\ bsp = "spawn"
  /\ bsp' = "supervisor"
  /\ UNCHANGED <<released, global_idtr, apVars, machine>>
-----------------------------------------------------------------------------
NextIdNotAdded == LOGICAL_CORE_COUNT
NextId == LOGICAL_CORE_COUNT + 1

\* ap_main: fetch_add on LOGICAL_CORE_COUNT.
TakeId(a) ==
  /\ pc[a] = "parked"
  /\ a \in released
  /\ logical_id' = [logical_id EXCEPT ![a] = LOGICAL_CORE_COUNT]
  /\ LOGICAL_CORE_COUNT' = NextId
  /\ Goto(a, "hardware")
  /\ UNCHANGED <<bspVars, AP_READY_COUNT, idtr, tss, machine>>

\* The cores that load the one TSS.
LoadsTssAlways(id) == id >= 1
LoadsTss(id) == id = 1

\* init_ap_hardware, init_ap_features and init_ap_apic.
InitHardware(a) ==
  /\ pc[a] = "hardware"
  /\ tss' = IF LoadsTss(logical_id[a]) THEN tss \cup {a} ELSE tss
  /\ idtr' = [idtr EXCEPT ![a] = "kernel"]
  /\ Goto(a, "ready")
  /\ UNCHANGED <<bspVars, LOGICAL_CORE_COUNT, AP_READY_COUNT, logical_id, machine>>

WorkerId(id) == id <= MaxWorker

ReadyAddsIfWorker(id) == IF WorkerId(id) THEN 1 ELSE 0
ReadyAdds(id) == 1

\* AP_READY_COUNT.fetch_add, whatever the core goes on to do.
SignalReady(a) ==
  /\ pc[a] = "ready"
  /\ AP_READY_COUNT' = AP_READY_COUNT + ReadyAdds(logical_id[a])
  /\ Goto(a, "lidt")
  /\ UNCHANGED <<bspVars, LOGICAL_CORE_COUNT, logical_id, idtr, tss, machine>>

\* lock_ap_as_worker: lidt from GLOBAL_IDTR as it is now; the core's registers
\* and its local APIC are set up, and only low ids go on to poll for threads.
Lidt(a) ==
  /\ pc[a] = "lidt"
  /\ idtr' = [idtr EXCEPT ![a] = global_idtr]
  /\ Goto(a, IF WorkerId(logical_id[a]) THEN "poll" ELSE "halted")
  /\ UNCHANGED <<bspVars, LOGICAL_CORE_COUNT, AP_READY_COUNT, logical_id, tss, machine>>

\* drop_to_user_mode sets CR0.TS.  Which thread it is, Scheduler says.
DropToUserMode(a) ==
  /\ pc[a] = "poll"
  /\ bsp = "supervisor"
  /\ Goto(a, "user")
  /\ UNCHANGED <<bspVars, LOGICAL_CORE_COUNT, AP_READY_COUNT, logical_id, idtr, tss,
                 machine>>

\* A core can enter an exception handler from user mode when its IDT register
\* points to the IDT and a TSS gives it a ring 0 stack.
CanHandle(a) == idtr[a] = "kernel" /\ a \in tss

\* The first floating-point instruction of user code raises #NM, whose handler
\* clears TS.  Without a way to the handler the fault triples.
FpuHandled(a) ==
  /\ pc[a] = "user"
  /\ CanHandle(a)
  /\ Goto(a, "fpu")
  /\ UNCHANGED <<bspVars, LOGICAL_CORE_COUNT, AP_READY_COUNT, logical_id, idtr, tss,
                 machine>>

FpuTripleFault(a) ==
  /\ pc[a] = "user"
  /\ ~ CanHandle(a)
  /\ machine' = "reset"
  /\ UNCHANGED <<bspVars, apVars>>

BspStep ==
  /\ machine = "up"
  /\ \/ \E a \in APs : Release(a)
     \/ Released \/ AllReady \/ SidtBegins \/ SidtEnds \/ Supervise

ApStep(a) ==
  /\ machine = "up"
  /\ TakeId(a) \/ InitHardware(a) \/ SignalReady(a) \/ Lidt(a) \/ DropToUserMode(a)

UserFpu(a) == machine = "up" /\ (FpuHandled(a) \/ FpuTripleFault(a))

Next == BspStep \/ \E a \in APs : ApStep(a) \/ UserFpu(a)

Spec == Init /\ [][Next]_vars
-----------------------------------------------------------------------------
\* The types of the state.
TypeOK ==
  /\ bsp \in {"release", "wait", "load", "sidt", "spawn", "supervisor"}
  /\ released \subseteq APs
  /\ LOGICAL_CORE_COUNT \in Nat \ {0}
  /\ AP_READY_COUNT \in Nat
  /\ global_idtr \in {"zero", "torn", "kernel"}
  /\ pc \in [APs -> {"parked", "hardware", "ready", "lidt", "poll", "halted", "user",
                     "fpu"}]
  /\ logical_id \in [APs -> Nat]
  /\ idtr \in [APs -> {"none", "zero", "torn", "kernel"}]
  /\ tss \subseteq APs
  /\ machine \in {"up", "reset"}

\* "Assigns a unique logical ID to each core as it comes online" (smp.rs).
UniqueLogicalIds ==
  \A a, b \in APs : logical_id[a] = logical_id[b] /\ logical_id[a] # 0 => a = b

\* "All CPU Cores are now online and synchronized!" (smp.rs): once the boot core
\* has left the barrier, no AP touches LOGICAL_CORE_COUNT or its descriptor
\* tables' first setup any more.
AllOnline ==
  bsp \notin {"release", "wait"} =>
    \A a \in APs : pc[a] \notin {"parked", "hardware", "ready"}

\* The single TSS is loaded by at most one core (loading a busy one faults), and
\* all ids being out, by exactly one.
OneTssOwner ==
  /\ \A a, b \in tss : a = b
  /\ bsp = "supervisor" /\ APs # {} => tss # {}

\* Boot reaches the supervisor loop whatever the order in which the cores start,
\* take their numbers and signal ready: smp::init waits for exactly those it released.
BootCompletes == <>(bsp = "supervisor")

\* "Any subsequent attempt to execute an FPU/SSE instruction in user mode will
\* trigger a Device Not Available (#NM) exception.  This allows the kernel to
\* defer ..." (process.rs): the exception reaches its handler on every core that
\* runs user code.
LazyFpuReachesHandler == machine = "up"
=============================================================================
