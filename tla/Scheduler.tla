----------------------------- MODULE Scheduler -----------------------------
(***************************************************************************)
(* The thread table and its users (stardust/src/task/scheduler.rs): core 0 *)
(* spawns the first thread and then idles with interrupts on, its timer    *)
(* handler counts ticks, each worker core polls the table for a Ready      *)
(* thread and drops to user mode with it for good, and user code spawns    *)
(* more threads.  All of them share the SCHEDULER spinlock.  Reading the   *)
(* table and writing it are separate steps, so that only the lock keeps    *)
(* them together.                                                          *)
(***************************************************************************)
EXTENDS Naturals

CONSTANTS Workers,       \* the cores that run lock_ap_as_worker's loop
          Core0,         \* core 0's main flow
          Timer,         \* the timer handler, on core 0
          NoOne,         \* SCHEDULER is free
          MaxThreads,    \* MAX_THREADS
          MaxCalls,      \* bound: SYS_SPAWN_PROCESS calls in all
          MaxTicks       \* bound: timer interrupts

Contexts == Workers \cup {Core0, Timer}
Slots == 0..(MaxThreads - 1)

ASSUME SchedulerAssumption ==
  /\ Core0 \notin Workers /\ Timer \notin Workers \cup {Core0}
  /\ NoOne \notin Contexts
  /\ MaxThreads \in Nat \ {0} /\ MaxCalls \in Nat /\ MaxTicks \in Nat

VARIABLES threads,       \* slot -> id and state of its thread
          thread_count, ticks,
          lock,          \* who holds SCHEDULER
          pc,            \* where each context is
          slot,          \* the slot each context has found in the table
          runs,          \* the slot whose thread each worker runs
          interrupts,    \* are interrupts enabled on core 0?
          calls          \* history: SYS_SPAWN_PROCESS calls made

table == <<threads, thread_count, ticks>>
vars == <<threads, thread_count, ticks, lock, pc, slot, runs, interrupts, calls>>

ThreadState == {"Empty", "Ready", "Running"}
NoSlot == MaxThreads

Goto(x, label) == pc' = [pc EXCEPT ![x] = label]

\* An interrupt handler suspends the main flow of its core.
OnCpu(x) == x = Core0 => pc[Timer] = "off"

At(x, label) == pc[x] = label /\ OnCpu(x)

\* SCHEDULER.lock(): spin until it is free.
FreeIgnored == TRUE
Free == lock = NoOne

Lock(x) == Free /\ lock' = x

\* The first slot in this state, or none: the loops over 0..MAX_THREADS.
FirstSlotOffByOne(s, i) ==
  /\ threads[i].state = s
  /\ \A j \in Slots : j + 1 < i => threads[j].state # s
FirstSlot(s, i) ==
  /\ threads[i].state = s
  /\ \A j \in Slots : j < i => threads[j].state # s

NoSlotIsAtFirstLook(s) == threads[0].state # s
NoSlotIs(s) == \A i \in Slots : threads[i].state # s
-----------------------------------------------------------------------------
\* _start disables interrupts before it initialises anything.
BootInterruptsOn == TRUE
BootInterrupts == FALSE

Init ==
  /\ threads = [i \in Slots |-> [id |-> 0, state |-> "Empty"]]
  /\ thread_count = 0
  /\ ticks = 0
  /\ lock = NoOne
  /\ pc = [x \in Contexts |->
       IF x = Core0 THEN "spawn" ELSE IF x = Timer THEN "off" ELSE "poll"]
  /\ slot = [x \in Contexts |-> NoSlot]
  /\ runs = [w \in Workers |-> NoSlot]
  /\ interrupts = BootInterrupts
  /\ calls = 0

\* spawn_thread, for core 0's god thread and for SYS_SPAWN_PROCESS.
SpawnLock(x) ==
  /\ At(x, "spawn")
  /\ Lock(x)
  /\ Goto(x, "spawnscan")
  /\ UNCHANGED <<table, slot, runs, interrupts, calls>>

\* Where the caller goes on.
AfterSpawn(x) == IF x = Core0 THEN "sti" ELSE "user"

SpawnScan(x) ==
  /\ At(x, "spawnscan")
  /\ \E i \in Slots : FirstSlot("Empty", i) /\ slot' = [slot EXCEPT ![x] = i]
  /\ Goto(x, "spawnfill")
  /\ UNCHANGED <<table, lock, runs, interrupts, calls>>

\* The table is full: None, which every caller ignores.
SpawnFull(x) ==
  /\ At(x, "spawnscan")
  /\ NoSlotIs("Empty")
  /\ lock' = NoOne
  /\ Goto(x, AfterSpawn(x))
  /\ UNCHANGED <<table, slot, runs, interrupts, calls>>

\* The guard is dropped at the end of spawn_thread.
GuardKept == lock
GuardDropped == NoOne

SpawnFill(x) ==
  /\ At(x, "spawnfill")
  /\ thread_count' = thread_count + 1
  /\ threads' = [threads EXCEPT ![slot[x]] = [id |-> thread_count + 1, state |-> "Ready"]]
  /\ lock' = GuardDropped
  /\ slot' = [slot EXCEPT ![x] = NoSlot]
  /\ Goto(x, AfterSpawn(x))
  /\ UNCHANGED <<ticks, runs, interrupts, calls>>

\* Core 0 enables interrupts and waits for messages.
Sti ==
  /\ At(Core0, "sti")
  /\ interrupts' = TRUE
  /\ Goto(Core0, "idle")
  /\ UNCHANGED <<table, lock, slot, runs, calls>>
-----------------------------------------------------------------------------
\* The timer interrupts core 0 and its handler waits for SCHEDULER.
TimerFires ==
  /\ interrupts
  /\ pc[Timer] = "off"
  /\ ticks < MaxTicks
  /\ Goto(Timer, "tick")
  /\ UNCHANGED <<table, lock, slot, runs, interrupts, calls>>

TimerLock ==
  /\ pc[Timer] = "tick"
  /\ Lock(Timer)
  /\ Goto(Timer, "tock")
  /\ UNCHANGED <<table, slot, runs, interrupts, calls>>

\* tick(), and the handler returns.
Tick ==
  /\ pc[Timer] = "tock"
  /\ ticks' = ticks + 1
  /\ lock' = NoOne
  /\ Goto(Timer, "off")
  /\ UNCHANGED <<threads, thread_count, slot, runs, interrupts, calls>>
-----------------------------------------------------------------------------
\* The worker loop: lock, pop_ready_thread, unlock.
PollLock(w) ==
  /\ pc[w] = "poll"
  /\ Lock(w)
  /\ Goto(w, "scan")
  /\ UNCHANGED <<table, slot, runs, interrupts, calls>>

PollScan(w) ==
  /\ pc[w] = "scan"
  /\ \E i \in Slots : FirstSlot("Ready", i) /\ slot' = [slot EXCEPT ![w] = i]
  /\ Goto(w, "take")
  /\ UNCHANGED <<table, lock, runs, interrupts, calls>>

PollEmpty(w) ==
  /\ pc[w] = "scan"
  /\ NoSlotIs("Ready")
  /\ lock' = NoOne
  /\ Goto(w, "poll")
  /\ UNCHANGED <<table, slot, runs, interrupts, calls>>

\* What a thread's state becomes when it is popped.
PoppedStaysReady == "Ready"
PoppedState == "Running"

\* The thread is marked, the lock dropped, and drop_to_user_mode does not
\* return.
PollTake(w) ==
  /\ pc[w] = "take"
  /\ threads' = [threads EXCEPT ![slot[w]].state = PoppedState]
  /\ runs' = [runs EXCEPT ![w] = slot[w]]
  /\ slot' = [slot EXCEPT ![w] = NoSlot]
  /\ lock' = NoOne
  /\ Goto(w, "user")
  /\ UNCHANGED <<thread_count, ticks, interrupts, calls>>

\* User code on worker w makes SYS_SPAWN_PROCESS.
CallSpawn(w) ==
  /\ pc[w] = "user"
  /\ calls < MaxCalls
  /\ calls' = calls + 1
  /\ Goto(w, "spawn")
  /\ UNCHANGED <<table, lock, slot, runs, interrupts>>

\* User code faults: the handlers of the fatal exceptions halt their core for
\* good, and its thread stays Running.
Fault(w) ==
  /\ pc[w] = "user"
  /\ Goto(w, "halted")
  /\ UNCHANGED <<table, lock, slot, runs, interrupts, calls>>

Spawning(x) == SpawnLock(x) \/ SpawnScan(x) \/ SpawnFull(x) \/ SpawnFill(x)
Polling(w) == PollLock(w) \/ PollScan(w) \/ PollEmpty(w) \/ PollTake(w)
Ticking == TimerLock \/ Tick

Next ==
  \/ Spawning(Core0) \/ Sti
  \/ TimerFires \/ Ticking
  \/ \E w \in Workers : Spawning(w) \/ Polling(w) \/ CallSpawn(w) \/ Fault(w)

Spec == Init /\ [][Next]_vars

\* Kernel code keeps running on its core.  Weak fairness only: a spinlock
\* promises no order among those that wait for it.
FairSpec ==
  /\ Spec
  /\ WF_vars(Spawning(Core0)) /\ WF_vars(Sti) /\ WF_vars(Ticking)
  /\ \A w \in Workers : WF_vars(Spawning(w)) /\ WF_vars(Polling(w))
-----------------------------------------------------------------------------
Labels == {"spawn", "spawnscan", "spawnfill", "sti", "idle", "off", "tick", "tock",
           "poll", "scan", "take", "user", "halted"}

\* The types of the scheduler's state.
TypeOK ==
  /\ threads \in [Slots -> [id : Nat, state : ThreadState]]
  /\ thread_count \in 0..MaxThreads
  /\ ticks \in Nat
  /\ lock \in Contexts \cup {NoOne}
  /\ pc \in [Contexts -> Labels]
  /\ slot \in [Contexts -> 0..MaxThreads]
  /\ runs \in [Workers -> 0..MaxThreads]
  /\ interrupts \in BOOLEAN
  /\ calls \in Nat

InCall(w) == pc[w] \in {"spawn", "spawnscan", "spawnfill"}
InUser(w) == pc[w] = "user" \/ InCall(w) \/ pc[w] = "halted"

\* "Unique identifier for the thread across the entire system" (thread.rs):
\* the threads spawned so far fill the table from slot 0, each under an id of
\* its own, so that none is overwritten and none is lost.
TableIsDense ==
  \A i \in Slots :
    IF i < thread_count
    THEN threads[i].id = i + 1 /\ threads[i].state # "Empty"
    ELSE threads[i].state = "Empty"

\* A Running thread runs on exactly one worker, and a worker in user mode runs
\* a thread marked Running.
OneCorePerThread ==
  /\ \A w \in Workers : InUser(w) =>
       runs[w] \in Slots /\ threads[runs[w]].state = "Running"
  /\ \A v, w \in Workers : InUser(v) /\ InUser(w) /\ runs[v] = runs[w] => v = w
  /\ \A i \in Slots : threads[i].state = "Running" =>
       \E w \in Workers : InUser(w) /\ runs[w] = i

\* Threads are dispatched in the order they were spawned in.
DispatchInSpawnOrder ==
  \A i, j \in Slots :
    i < j /\ threads[j].state = "Running" => threads[i].state = "Running"

\* The timer handler, which spins on SCHEDULER, never interrupts the holder of
\* SCHEDULER on its own core: core 0 takes the lock before it enables interrupts.
TimerCannotSelfDeadlock == pc[Timer] # "off" => lock # Core0

\* A spawn is dropped only when the table is full: as long as it is not, each
\* completed spawn call has its thread in the table.
InFlight == {w \in Workers : InCall(w)}
SpawnsAreKept ==
  InFlight = {} /\ pc[Core0] \in {"sti", "idle"} =>
    thread_count = IF calls + 1 < MaxThreads THEN calls + 1 ELSE MaxThreads

\* A Ready thread gets a core, unless all workers are taken for good.
ReadyRuns ==
  \A i \in Slots : (threads[i].state = "Ready") ~>
    (threads[i].state = "Running" \/ \A w \in Workers : InUser(w))
=============================================================================
