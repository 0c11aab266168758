-------------------------- MODULE SchedulerProofs --------------------------
(***************************************************************************)
(* For every set of workers and every table size: thread ids are unique    *)
(* and no thread is overwritten, no thread runs on two cores, threads are  *)
(* dispatched in the order they were spawned in, spawns are dropped only   *)
(* by a full table, and the timer handler never waits for a lock held by   *)
(* the code it interrupted.                                                *)
(***************************************************************************)
EXTENDS Scheduler, FiniteSetTheorems, TLAPS

Critical(x) == pc[x] \in {"spawnscan", "spawnfill", "scan", "take", "tock"}

\* SCHEDULER is held exactly by the context that is between its lock and its
\* unlock.
LockInv == \A x \in Contexts : lock = x <=> Critical(x)

\* The labels each kind of context can be at, and when core 0 can be
\* interrupted.
ControlInv ==
  /\ pc[Core0] \in {"spawn", "spawnscan", "spawnfill", "sti", "idle"}
  /\ pc[Timer] \in {"off", "tick", "tock"}
  /\ \A w \in Workers : InUser(w) \/ pc[w] \in {"poll", "scan", "take"}
  /\ pc[Timer] # "off" => interrupts
  /\ interrupts => pc[Core0] = "idle"

\* What a context has found in the table is still true when it writes.
FoundInv ==
  \A x \in Contexts :
    /\ pc[x] = "spawnfill" => slot[x] \in Slots /\ FirstSlot("Empty", slot[x])
    /\ pc[x] = "take" => slot[x] \in Slots /\ FirstSlot("Ready", slot[x])

SchedulerInv ==
  /\ TypeOK
  /\ LockInv
  /\ ControlInv
  /\ FoundInv
  /\ TableIsDense
  /\ OneCorePerThread
  /\ DispatchInSpawnOrder
-----------------------------------------------------------------------------
\* Marking a thread as Running leaves a table of threads.
LEMMA MarkedTable ==
  ASSUME NEW S, NEW ts \in [S -> [id : Nat, state : ThreadState]], NEW i \in S
  PROVE  [ts EXCEPT ![i].state = "Running"] \in [S -> [id : Nat, state : ThreadState]]
<1>1. ts[i] \in [id : Nat, state : ThreadState]
  OBVIOUS
<1>2. [ts[i] EXCEPT !.state = "Running"] \in [id : Nat, state : ThreadState]
  BY <1>1 DEF ThreadState
<1> QED
  BY <1>2

\* A step keeps the types: what SpawnFill and PollTake write is in the table.
LEMMA TypeStep == TypeOK /\ FoundInv /\ TableIsDense /\ [Next]_vars => TypeOK'
<1> SUFFICES ASSUME TypeOK, FoundInv, TableIsDense, [Next]_vars PROVE TypeOK'
  OBVIOUS
<1> USE SchedulerAssumption
    DEF TypeOK, FoundInv, TableIsDense, Contexts, Slots, Goto, At, Lock, Labels,
        ThreadState, NoSlot, table, AfterSpawn, FirstSlot, PoppedState
<1>1. ASSUME NEW x \in Workers \cup {Core0}, SpawnLock(x) PROVE TypeOK'
  BY <1>1 DEF SpawnLock
<1>2. ASSUME NEW x \in Workers \cup {Core0}, SpawnScan(x) PROVE TypeOK'
  <2>1. PICK i \in Slots : slot' = [slot EXCEPT ![x] = i]
    BY <1>2, Zenon DEF SpawnScan
  <2>2. slot' \in [Contexts -> 0..MaxThreads]
    BY <2>1
  <2> HIDE DEF FoundInv, TableIsDense, FirstSlot
  <2> QED
    BY <1>2, <2>2 DEF SpawnScan
<1>3. ASSUME NEW x \in Workers \cup {Core0}, SpawnFull(x) PROVE TypeOK'
  BY <1>3 DEF SpawnFull
<1>4. ASSUME NEW x \in Workers \cup {Core0}, SpawnFill(x) PROVE TypeOK'
  <2>1. slot[x] \in Slots /\ thread_count + 1 \in 0..MaxThreads
    BY <1>4 DEF SpawnFill, GuardDropped
  <2>2. [id |-> thread_count + 1, state |-> "Ready"] \in [id : Nat, state : ThreadState]
    BY <2>1
  <2>3. threads' \in [Slots -> [id : Nat, state : ThreadState]]
    BY <1>4, <2>1, <2>2 DEF SpawnFill, GuardDropped
  <2> HIDE DEF FoundInv, TableIsDense, FirstSlot, ThreadState
  <2>4. thread_count' \in 0..MaxThreads /\ slot' \in [Contexts -> 0..MaxThreads]
    BY <1>4, <2>1 DEF SpawnFill, GuardDropped
  <2>5. lock' \in Contexts \cup {NoOne} /\ pc' \in [Contexts -> Labels]
    BY <1>4 DEF SpawnFill, GuardDropped
  <2>6. UNCHANGED <<ticks, runs, interrupts, calls>>
    BY <1>4 DEF SpawnFill, GuardDropped
  <2> QED
    BY <2>3, <2>4, <2>5, <2>6, Zenon
<1>5. CASE Sti
  BY <1>5 DEF Sti
<1>6. CASE TimerFires
  BY <1>6 DEF TimerFires
<1>7. CASE TimerLock
  BY <1>7 DEF TimerLock
<1>8. CASE Tick
  BY <1>8 DEF Tick
<1>9. ASSUME NEW w \in Workers, PollLock(w) PROVE TypeOK'
  BY <1>9 DEF PollLock
<1>10. ASSUME NEW w \in Workers, PollScan(w) PROVE TypeOK'
  <2>1. PICK i \in Slots : slot' = [slot EXCEPT ![w] = i]
    BY <1>10, Zenon DEF PollScan
  <2>2. slot' \in [Contexts -> 0..MaxThreads]
    BY <2>1
  <2> HIDE DEF FoundInv, TableIsDense, FirstSlot
  <2> QED
    BY <1>10, <2>2 DEF PollScan
<1>11. ASSUME NEW w \in Workers, PollEmpty(w) PROVE TypeOK'
  BY <1>11 DEF PollEmpty
<1>12. ASSUME NEW w \in Workers, PollTake(w) PROVE TypeOK'
  <2>1. slot[w] \in Slots
    BY <1>12 DEF PollTake
  <2>2. threads' \in [Slots -> [id : Nat, state : ThreadState]]
    <3>1. threads' = [threads EXCEPT ![slot[w]].state = "Running"]
      BY <1>12 DEF PollTake
    <3> HIDE DEF Slots, ThreadState, TableIsDense, FoundInv
    <3> QED
      BY <2>1, <3>1, MarkedTable DEF TypeOK
  <2> HIDE DEF FoundInv, TableIsDense, FirstSlot, ThreadState, PoppedState
  <2>3. slot' \in [Contexts -> 0..MaxThreads] /\ runs' \in [Workers -> 0..MaxThreads]
    <3>1. slot' = [slot EXCEPT ![w] = MaxThreads] /\ runs' = [runs EXCEPT ![w] = slot[w]]
      BY <1>12 DEF PollTake
    <3>2. MaxThreads \in 0..MaxThreads /\ slot[w] \in 0..MaxThreads
      BY <2>1
    <3> QED
      BY <3>1, <3>2
  <2>4. interrupts' \in BOOLEAN
    BY <1>12 DEF PollTake
  <2>5. lock' \in Contexts \cup {NoOne} /\ pc' \in [Contexts -> Labels]
    BY <1>12 DEF PollTake
  <2>6. thread_count' = thread_count /\ ticks' = ticks /\ calls' = calls
    BY <1>12 DEF PollTake
  <2> QED
    BY <2>2, <2>3, <2>4, <2>5, <2>6, Zenon
<1>13. ASSUME NEW w \in Workers, CallSpawn(w) PROVE TypeOK'
  BY <1>13 DEF CallSpawn
<1>14. ASSUME NEW w \in Workers, Fault(w) PROVE TypeOK'
  BY <1>14 DEF Fault
<1>15. CASE UNCHANGED vars
  BY <1>15 DEF vars, table
<1> QED
  BY <1>1, <1>2, <1>3, <1>4, <1>5, <1>6, <1>7, <1>8, <1>9, <1>10,
     <1>11, <1>12, <1>13, <1>14, <1>15
     DEF Next, Spawning, Polling, Ticking

\* Only a context that finds SCHEDULER free enters, and only the holder leaves.
LEMMA LockStep == TypeOK /\ ControlInv /\ LockInv /\ [Next]_vars => LockInv'
<1> SUFFICES ASSUME TypeOK, ControlInv, LockInv, [Next]_vars PROVE LockInv'
  OBVIOUS
<1> USE SchedulerAssumption
    DEF TypeOK, ControlInv, LockInv, Critical, InUser, InCall, Contexts, Goto, At,
        Lock, Free, AfterSpawn, table
<1>1. ASSUME NEW x \in Workers \cup {Core0}, SpawnLock(x) PROVE LockInv'
  BY <1>1 DEF SpawnLock
<1>2. ASSUME NEW x \in Workers \cup {Core0}, SpawnScan(x) PROVE LockInv'
  BY <1>2 DEF SpawnScan
<1>3. ASSUME NEW x \in Workers \cup {Core0}, SpawnFull(x) PROVE LockInv'
  BY <1>3 DEF SpawnFull
<1>4. ASSUME NEW x \in Workers \cup {Core0}, SpawnFill(x) PROVE LockInv'
  BY <1>4 DEF SpawnFill, GuardDropped
<1>5. CASE Sti
  BY <1>5 DEF Sti
<1>6. CASE TimerFires
  BY <1>6 DEF TimerFires
<1>7. CASE TimerLock
  BY <1>7 DEF TimerLock
<1>8. CASE Tick
  BY <1>8 DEF Tick
<1>9. ASSUME NEW w \in Workers, PollLock(w) PROVE LockInv'
  BY <1>9 DEF PollLock
<1>10. ASSUME NEW w \in Workers, PollScan(w) PROVE LockInv'
  BY <1>10 DEF PollScan
<1>11. ASSUME NEW w \in Workers, PollEmpty(w) PROVE LockInv'
  BY <1>11 DEF PollEmpty
<1>12. ASSUME NEW w \in Workers, PollTake(w) PROVE LockInv'
  BY <1>12 DEF PollTake
<1>13. ASSUME NEW w \in Workers, CallSpawn(w) PROVE LockInv'
  BY <1>13 DEF CallSpawn
<1>14. ASSUME NEW w \in Workers, Fault(w) PROVE LockInv'
  BY <1>14 DEF Fault
<1>15. CASE UNCHANGED vars
  BY <1>15, SMTT(20) DEF vars, table
<1> QED
  BY <1>1, <1>2, <1>3, <1>4, <1>5, <1>6, <1>7, <1>8, <1>9, <1>10,
     <1>11, <1>12, <1>13, <1>14, <1>15
     DEF Next, Spawning, Polling, Ticking

LEMMA ControlStep == TypeOK /\ ControlInv /\ [Next]_vars => ControlInv'
<1> SUFFICES ASSUME TypeOK, ControlInv, [Next]_vars PROVE ControlInv'
  OBVIOUS
<1> USE SchedulerAssumption
    DEF TypeOK, ControlInv, InUser, InCall, Contexts, Goto, At, OnCpu, AfterSpawn,
        table
<1>1. ASSUME NEW x \in Workers \cup {Core0}, SpawnLock(x) PROVE ControlInv'
  BY <1>1 DEF SpawnLock
<1>2. ASSUME NEW x \in Workers \cup {Core0}, SpawnScan(x) PROVE ControlInv'
  BY <1>2 DEF SpawnScan
<1>3. ASSUME NEW x \in Workers \cup {Core0}, SpawnFull(x) PROVE ControlInv'
  BY <1>3 DEF SpawnFull
<1>4. ASSUME NEW x \in Workers \cup {Core0}, SpawnFill(x) PROVE ControlInv'
  BY <1>4 DEF SpawnFill, GuardDropped
<1>5. CASE Sti
  BY <1>5 DEF Sti
<1>6. CASE TimerFires
  BY <1>6 DEF TimerFires
<1>7. CASE TimerLock
  BY <1>7 DEF TimerLock
<1>8. CASE Tick
  BY <1>8 DEF Tick
<1>9. ASSUME NEW w \in Workers, PollLock(w) PROVE ControlInv'
  BY <1>9 DEF PollLock
<1>10. ASSUME NEW w \in Workers, PollScan(w) PROVE ControlInv'
  BY <1>10 DEF PollScan
<1>11. ASSUME NEW w \in Workers, PollEmpty(w) PROVE ControlInv'
  BY <1>11 DEF PollEmpty
<1>12. ASSUME NEW w \in Workers, PollTake(w) PROVE ControlInv'
  BY <1>12 DEF PollTake
<1>13. ASSUME NEW w \in Workers, CallSpawn(w) PROVE ControlInv'
  BY <1>13 DEF CallSpawn
<1>14. ASSUME NEW w \in Workers, Fault(w) PROVE ControlInv'
  BY <1>14 DEF Fault
<1>15. CASE UNCHANGED vars
  BY <1>15, SMTT(20) DEF vars, table
<1> QED
  BY <1>1, <1>2, <1>3, <1>4, <1>5, <1>6, <1>7, <1>8, <1>9, <1>10,
     <1>11, <1>12, <1>13, <1>14, <1>15
     DEF Next, Spawning, Polling, Ticking

\* The table changes only under the lock, so no other context invalidates a scan.
LEMMA FoundStep ==
  TypeOK /\ ControlInv /\ LockInv /\ FoundInv /\ [Next]_vars => FoundInv'
<1> SUFFICES ASSUME TypeOK, ControlInv, LockInv, FoundInv, [Next]_vars PROVE FoundInv'
  OBVIOUS
<1> USE SchedulerAssumption
    DEF TypeOK, ControlInv, LockInv, FoundInv, Critical, FirstSlot, Contexts, Goto,
        At, Lock, Free, AfterSpawn, table
<1>1. ASSUME NEW x \in Workers \cup {Core0}, SpawnLock(x) PROVE FoundInv'
  BY <1>1 DEF SpawnLock
<1>2. ASSUME NEW x \in Workers \cup {Core0}, SpawnScan(x) PROVE FoundInv'
  BY <1>2 DEF SpawnScan
<1>3. ASSUME NEW x \in Workers \cup {Core0}, SpawnFull(x) PROVE FoundInv'
  BY <1>3 DEF SpawnFull
<1>4. ASSUME NEW x \in Workers \cup {Core0}, SpawnFill(x) PROVE FoundInv'
  BY <1>4 DEF SpawnFill, GuardDropped
<1>5. CASE Sti
  BY <1>5 DEF Sti
<1>6. CASE TimerFires
  BY <1>6 DEF TimerFires
<1>7. CASE TimerLock
  BY <1>7 DEF TimerLock
<1>8. CASE Tick
  BY <1>8 DEF Tick
<1>9. ASSUME NEW w \in Workers, PollLock(w) PROVE FoundInv'
  BY <1>9 DEF PollLock
<1>10. ASSUME NEW w \in Workers, PollScan(w) PROVE FoundInv'
  BY <1>10 DEF PollScan
<1>11. ASSUME NEW w \in Workers, PollEmpty(w) PROVE FoundInv'
  BY <1>11 DEF PollEmpty
<1>12. ASSUME NEW w \in Workers, PollTake(w) PROVE FoundInv'
  BY <1>12 DEF PollTake
<1>13. ASSUME NEW w \in Workers, CallSpawn(w) PROVE FoundInv'
  BY <1>13 DEF CallSpawn
<1>14. ASSUME NEW w \in Workers, Fault(w) PROVE FoundInv'
  BY <1>14 DEF Fault
<1>15. CASE UNCHANGED vars
  BY <1>15 DEF vars, table
<1> QED
  BY <1>1, <1>2, <1>3, <1>4, <1>5, <1>6, <1>7, <1>8, <1>9, <1>10,
     <1>11, <1>12, <1>13, <1>14, <1>15
     DEF Next, Spawning, Polling, Ticking

\* Only two steps change the table.
LEMMA TableSteps ==
  [Next]_vars => \/ UNCHANGED <<threads, thread_count>>
                 \/ \E x \in Workers \cup {Core0} : SpawnFill(x)
                 \/ \E w \in Workers : PollTake(w)
BY DEF Next, Spawning, Polling, Ticking, SpawnLock, SpawnScan, SpawnFull, Sti, TimerFires,
       TimerLock, Tick, PollLock, PollScan, PollEmpty, CallSpawn, Fault, vars, table

LEMMA DenseStep == TypeOK /\ FoundInv /\ TableIsDense /\ [Next]_vars => TableIsDense'
<1> SUFFICES ASSUME TypeOK, FoundInv, TableIsDense, [Next]_vars PROVE TableIsDense'
  OBVIOUS
<1> USE SchedulerAssumption
<1>1. CASE UNCHANGED <<threads, thread_count>>
  BY <1>1 DEF TableIsDense
<1>2. ASSUME NEW x \in Workers \cup {Core0}, SpawnFill(x) PROVE TableIsDense'
  \* The first Empty slot of a dense table is the one at thread_count.
  <2>1. slot[x] \in Slots /\ FirstSlot("Empty", slot[x])
    BY <1>2 DEF SpawnFill, GuardDropped, At, FoundInv, Contexts
  <2>2. slot[x] = thread_count
    BY <2>1 DEF FirstSlot, TableIsDense, TypeOK, Slots
  <2>3. /\ thread_count' = thread_count + 1
        /\ threads' = [threads EXCEPT ![thread_count] =
                          [id |-> thread_count + 1, state |-> "Ready"]]
    BY <1>2, <2>2 DEF SpawnFill, GuardDropped
  <2>4. threads'[thread_count] = [id |-> thread_count + 1, state |-> "Ready"]
    BY <2>1, <2>2, <2>3 DEF TypeOK
  <2>5. ASSUME NEW i \in Slots, i # thread_count PROVE threads'[i] = threads[i]
    BY <2>3, <2>5 DEF TypeOK
  <2>6. thread_count \in Nat
    BY DEF TypeOK
  <2>7. ASSUME NEW i \in Slots
        PROVE  IF i < thread_count'
               THEN threads'[i].id = i + 1 /\ threads'[i].state # "Empty"
               ELSE threads'[i].state = "Empty"
    BY <2>3, <2>4, <2>5, <2>6 DEF TableIsDense, Slots
  <2> QED
    BY <2>7 DEF TableIsDense
<1>3. ASSUME NEW w \in Workers, PollTake(w) PROVE TableIsDense'
  BY <1>3, SMTT(20)
  DEF PollTake, PoppedState, TypeOK, FoundInv, FirstSlot, Contexts, Slots,
      ThreadState, TableIsDense
<1> QED
  BY <1>1, <1>2, <1>3, TableSteps

LEMMA OneCoreStep ==
  TypeOK /\ ControlInv /\ FoundInv /\ OneCorePerThread /\ [Next]_vars => OneCorePerThread'
<1> SUFFICES ASSUME TypeOK, ControlInv, FoundInv, OneCorePerThread, [Next]_vars
             PROVE  OneCorePerThread'
  OBVIOUS
<1> USE SchedulerAssumption
    DEF TypeOK, ControlInv, FoundInv, FirstSlot, OneCorePerThread, InUser, InCall,
        Contexts, Goto, At, PoppedState, AfterSpawn, table
<1>1. ASSUME NEW x \in Workers \cup {Core0}, SpawnLock(x) PROVE OneCorePerThread'
  BY <1>1 DEF SpawnLock
<1>2. ASSUME NEW x \in Workers \cup {Core0}, SpawnScan(x) PROVE OneCorePerThread'
  BY <1>2 DEF SpawnScan
<1>3. ASSUME NEW x \in Workers \cup {Core0}, SpawnFull(x) PROVE OneCorePerThread'
  BY <1>3, SMTT(20) DEF SpawnFull
<1>4. ASSUME NEW x \in Workers \cup {Core0}, SpawnFill(x) PROVE OneCorePerThread'
  BY <1>4 DEF SpawnFill, GuardDropped
<1>5. CASE Sti
  BY <1>5 DEF Sti
<1>6. CASE TimerFires
  BY <1>6 DEF TimerFires
<1>7. CASE TimerLock
  BY <1>7 DEF TimerLock
<1>8. CASE Tick
  BY <1>8 DEF Tick
<1>9. ASSUME NEW w \in Workers, PollLock(w) PROVE OneCorePerThread'
  BY <1>9 DEF PollLock
<1>10. ASSUME NEW w \in Workers, PollScan(w) PROVE OneCorePerThread'
  BY <1>10 DEF PollScan
<1>11. ASSUME NEW w \in Workers, PollEmpty(w) PROVE OneCorePerThread'
  BY <1>11 DEF PollEmpty
<1>12. ASSUME NEW w \in Workers, PollTake(w) PROVE OneCorePerThread'
  <2>1. slot[w] \in Slots /\ threads[slot[w]].state = "Ready"
    BY <1>12 DEF PollTake
  <2>2. \A i \in Slots : threads'[i].state =
          IF i = slot[w] THEN "Running" ELSE threads[i].state
    BY <1>12, <2>1 DEF PollTake
  <2>3. /\ ~ InUser(w) /\ InUser(w)' /\ runs'[w] = slot[w]
        /\ \A v \in Workers : v # w => (InUser(v)' <=> InUser(v)) /\ runs'[v] = runs[v]
    BY <1>12 DEF PollTake
  <2> HIDE DEF TypeOK, ControlInv, FoundInv, InUser
  <2>4. \A v \in Workers : InUser(v) => runs[v] # slot[w]
    BY <2>1
  <2>5. \A v \in Workers : InUser(v)' =>
          runs'[v] \in Slots /\ threads'[runs'[v]].state = "Running"
    BY <2>1, <2>2, <2>3
  <2>6. \A u, v \in Workers : InUser(u)' /\ InUser(v)' /\ runs'[u] = runs'[v] => u = v
    BY <2>3, <2>4
  <2>7. \A i \in Slots : threads'[i].state = "Running" =>
          \E v \in Workers : InUser(v)' /\ runs'[v] = i
    BY <2>2, <2>3
  <2> QED
    BY <2>5, <2>6, <2>7 DEF Slots
<1>13. ASSUME NEW w \in Workers, CallSpawn(w) PROVE OneCorePerThread'
  BY <1>13 DEF CallSpawn
<1>14. ASSUME NEW w \in Workers, Fault(w) PROVE OneCorePerThread'
  BY <1>14 DEF Fault
<1>15. CASE UNCHANGED vars
  BY <1>15 DEF vars, table
<1> QED
  BY <1>1, <1>2, <1>3, <1>4, <1>5, <1>6, <1>7, <1>8, <1>9, <1>10,
     <1>11, <1>12, <1>13, <1>14, <1>15
     DEF Next, Spawning, Polling, Ticking

LEMMA OrderStep ==
  TypeOK /\ FoundInv /\ TableIsDense /\ DispatchInSpawnOrder /\ [Next]_vars
    => DispatchInSpawnOrder'
<1> SUFFICES ASSUME TypeOK, FoundInv, TableIsDense, DispatchInSpawnOrder, [Next]_vars
             PROVE  DispatchInSpawnOrder'
  OBVIOUS
<1> USE SchedulerAssumption
    DEF TypeOK, FoundInv, FirstSlot, TableIsDense, DispatchInSpawnOrder, Contexts, Slots,
        ThreadState
<1>1. CASE UNCHANGED <<threads, thread_count>>
  BY <1>1
<1>2. ASSUME NEW x \in Workers \cup {Core0}, SpawnFill(x) PROVE DispatchInSpawnOrder'
  BY <1>2 DEF SpawnFill, GuardDropped, At
\* All slots before the first Ready one hold threads, and none of those is Ready.
<1>3. ASSUME NEW w \in Workers, PollTake(w) PROVE DispatchInSpawnOrder'
  <2>1. slot[w] \in Slots /\ FirstSlot("Ready", slot[w])
    BY <1>3 DEF PollTake
  <2>2. \A i \in Slots : threads'[i].state =
          IF i = slot[w] THEN "Running" ELSE threads[i].state
    BY <1>3, <2>1 DEF PollTake, PoppedState
  <2>3. \A i \in Slots : i < slot[w] => threads[i].state = "Running"
    BY <2>1
  <2> HIDE DEF TypeOK, FoundInv, TableIsDense
  <2> QED
    BY <2>1, <2>2, <2>3
<1> QED
  BY <1>1, <1>2, <1>3, TableSteps

LEMMA InvInit == Init => SchedulerInv
<1> SUFFICES ASSUME Init PROVE SchedulerInv
  OBVIOUS
<1> USE SchedulerAssumption DEF Init, BootInterrupts, Contexts, NoSlot
<1>1. TypeOK
  <2>1. interrupts \in BOOLEAN
    OBVIOUS
  <2>2. threads \in [Slots -> [id : Nat, state : ThreadState]]
    BY DEF ThreadState
  <2>3. pc \in [Contexts -> Labels]
    BY DEF Labels
  <2>4. slot \in [Contexts -> 0..MaxThreads] /\ runs \in [Workers -> 0..MaxThreads]
    OBVIOUS
  <2> QED
    BY <2>1, <2>2, <2>3, <2>4 DEF TypeOK
<1>2. LockInv /\ FoundInv
  BY DEF LockInv, FoundInv, Critical
<1>3. ControlInv
  BY DEF ControlInv, InUser
<1>4. TableIsDense /\ DispatchInSpawnOrder
  BY DEF TableIsDense, DispatchInSpawnOrder, Slots
<1>5. OneCorePerThread
  BY DEF OneCorePerThread, InUser, InCall
<1> QED
  BY <1>1, <1>2, <1>3, <1>4, <1>5 DEF SchedulerInv

\* The inductive invariant: mutual exclusion on SCHEDULER makes every scan of
\* the table valid until the write that follows it.
THEOREM SchedulerInvariance == Spec => []SchedulerInv
<1>1. SchedulerInv /\ [Next]_vars => SchedulerInv'
  BY TypeStep, LockStep, ControlStep, FoundStep, DenseStep, OneCoreStep, OrderStep
     DEF SchedulerInv
<1> QED
  BY InvInit, <1>1, PTL DEF Spec

\* The scheduler's state keeps its types; in particular thread_count never
\* passes MAX_THREADS.
THEOREM SchedulerTypes == Spec => []TypeOK
<1>1. SchedulerInv => TypeOK
  BY DEF SchedulerInv
<1> QED
  BY <1>1, SchedulerInvariance, PTL

\* Spawns by several cores at once never share a slot or an id.
THEOREM ThreadsDense == Spec => []TableIsDense
<1>1. SchedulerInv => TableIsDense
  BY DEF SchedulerInv
<1> QED
  BY <1>1, SchedulerInvariance, PTL

\* pop_ready_thread hands a thread to one core only.
THEOREM ThreadsOnOneCore == Spec => []OneCorePerThread
<1>1. SchedulerInv => OneCorePerThread
  BY DEF SchedulerInv
<1> QED
  BY <1>1, SchedulerInvariance, PTL

\* pop_ready_thread takes threads in the order of their spawns.
THEOREM SpawnOrder == Spec => []DispatchInSpawnOrder
<1>1. SchedulerInv => DispatchInSpawnOrder
  BY DEF SchedulerInv
<1> QED
  BY <1>1, SchedulerInvariance, PTL

\* Core 0 holds SCHEDULER only before it enables interrupts, so the timer
\* handler never spins on a lock its own core holds.
THEOREM NoTimerSelfDeadlock == Spec => []TimerCannotSelfDeadlock
<1>1. SchedulerInv => TimerCannotSelfDeadlock
  BY SchedulerAssumption
     DEF SchedulerInv, ControlInv, LockInv, Critical, Contexts, TimerCannotSelfDeadlock
<1> QED
  BY <1>1, SchedulerInvariance, PTL
-----------------------------------------------------------------------------
\* The contexts inside spawn_thread.
Pending == {x \in Workers \cup {Core0} : InCall(x)}

\* Core 0's spawn and the SYS_SPAWN_PROCESS calls that have returned.
Returned == calls + 1 - Cardinality(Pending)

\* The table holds a thread for every spawn that has returned, as long as it has
\* room for them.
SpawnsCounted ==
  /\ IsFiniteSet(Pending) /\ Returned \in Nat
  /\ thread_count = IF Returned < MaxThreads THEN Returned ELSE MaxThreads

\* spawn_thread finds no empty slot exactly when MAX_THREADS threads are in the
\* table.
LEMMA FullTable ==
  ASSUME TypeOK, TableIsDense
  PROVE  NoSlotIs("Empty") <=> thread_count = MaxThreads
  BY SchedulerAssumption DEF TypeOK, TableIsDense, NoSlotIs, Slots

\* One context enters or leaves spawn_thread at a time.
LEMMA PendingMoves ==
  ASSUME TypeOK, NEW x \in Contexts, NEW label, Goto(x, label),
         x # Timer \/ label \in {"off", "tick", "tock"}, ControlInv
  PROVE  LET calling == {"spawn", "spawnscan", "spawnfill"}
         IN  /\ pc[x] \in calling <=> x \in Pending
             /\ label \in calling => Pending' = Pending \cup {x}
             /\ label \notin calling => Pending' = Pending \ {x}
  BY SchedulerAssumption DEF TypeOK, Contexts, Goto, Pending, InCall, ControlInv

\* What a step does to the count of the spawns that have returned.
LEMMA ReturnedMoves ==
  ASSUME TypeOK, SpawnsCounted, NEW x, IsFiniteSet(Pending)
  PROVE  /\ x \notin Pending /\ Pending' = Pending \cup {x} /\ calls' = calls + 1
              => IsFiniteSet(Pending') /\ Returned' = Returned
         /\ x \in Pending /\ Pending' = Pending \ {x} /\ calls' = calls
              => IsFiniteSet(Pending') /\ Returned' = Returned + 1
         /\ Pending' = Pending /\ calls' = calls
              => IsFiniteSet(Pending') /\ Returned' = Returned
<1>1. Cardinality(Pending) \in Nat
  BY FS_CardinalityType
<1>2. x \notin Pending =>
        /\ IsFiniteSet(Pending \cup {x})
        /\ Cardinality(Pending \cup {x}) = Cardinality(Pending) + 1
  BY FS_AddElement
<1>3. x \in Pending =>
        /\ IsFiniteSet(Pending \ {x})
        /\ Cardinality(Pending \ {x}) = Cardinality(Pending) - 1
  BY FS_RemoveElement
<1>4. calls \in Nat
  BY DEF TypeOK
<1>5. Returned = calls + 1 - Cardinality(Pending)
      /\ Returned' = calls' + 1 - Cardinality(Pending')
  BY DEF Returned
<1> HIDE DEF Pending
<1>6. ASSUME x \notin Pending, Pending' = Pending \cup {x}, calls' = calls + 1
      PROVE  IsFiniteSet(Pending') /\ Returned' = Returned
  BY <1>1, <1>2, <1>4, <1>5, <1>6
<1>7. ASSUME x \in Pending, Pending' = Pending \ {x}, calls' = calls
      PROVE  IsFiniteSet(Pending') /\ Returned' = Returned + 1
  BY <1>1, <1>3, <1>4, <1>5, <1>7
<1> QED
  BY <1>5, <1>6, <1>7

\* Every step keeps the count.
LEMMA CountStep == SchedulerInv /\ SpawnsCounted /\ [Next]_vars => SpawnsCounted'
<1> SUFFICES ASSUME SchedulerInv, SpawnsCounted, [Next]_vars PROVE SpawnsCounted'
  OBVIOUS
<1>0. TypeOK /\ ControlInv /\ TableIsDense /\ IsFiniteSet(Pending) /\ FoundInv
  BY DEF SchedulerInv, SpawnsCounted
<1>1. ASSUME Pending' = Pending, calls' = calls, thread_count' = thread_count
      PROVE  SpawnsCounted'
  BY <1>0, <1>1, ReturnedMoves DEF SpawnsCounted
<1>2. ASSUME NEW x \in Workers \cup {Core0}, SpawnLock(x) \/ SpawnScan(x)
      PROVE  SpawnsCounted'
  <2>1. Pending' = Pending
    BY <1>0, <1>2, PendingMoves, SchedulerAssumption DEF SpawnLock, SpawnScan, At, Contexts
  <2> QED
    BY <1>1, <1>2, <2>1 DEF SpawnLock, SpawnScan, table
<1>3. ASSUME NEW x \in Workers \cup {Core0}, SpawnFull(x)
      PROVE  SpawnsCounted'
  <2>1. x \in Pending /\ Pending' = Pending \ {x}
    BY <1>0, <1>3, PendingMoves, SchedulerAssumption DEF SpawnFull, At, Contexts, AfterSpawn
  <2>2. IsFiniteSet(Pending') /\ Returned' = Returned + 1
    BY <1>0, <1>3, <2>1, ReturnedMoves, Zenon DEF SpawnFull
  <2>3. thread_count = MaxThreads /\ thread_count' = thread_count
    BY <1>0, <1>3, FullTable DEF SpawnFull, table
  <2> QED
    BY <2>2, <2>3, SchedulerAssumption DEF SpawnsCounted
<1>4. ASSUME NEW x \in Workers \cup {Core0}, SpawnFill(x)
      PROVE  SpawnsCounted'
  <2>1. x \in Pending /\ Pending' = Pending \ {x}
    BY <1>0, <1>4, PendingMoves, SchedulerAssumption DEF SpawnFill, At, Contexts, AfterSpawn
  <2>2. IsFiniteSet(Pending') /\ Returned' = Returned + 1
    BY <1>0, <1>4, <2>1, ReturnedMoves DEF SpawnFill
  <2>3. ~ NoSlotIs("Empty")
    BY <1>0, <1>4 DEF SpawnFill, At, FoundInv, FirstSlot, NoSlotIs, Contexts
  <2>4. thread_count < MaxThreads /\ thread_count' = thread_count + 1
    BY <1>0, <1>4, <2>3, FullTable, SchedulerAssumption DEF SpawnFill, TypeOK
  <2> QED
    BY <2>2, <2>4, SchedulerAssumption DEF SpawnsCounted
<1>5. CASE Sti
  <2>1. Pending' = Pending
    BY <1>0, <1>5, PendingMoves, SchedulerAssumption DEF Sti, At, Contexts
  <2> QED
    BY <1>1, <1>5, <2>1 DEF Sti, table
<1>6. CASE TimerFires \/ TimerLock \/ Tick
  <2>1. Pending' = Pending
    BY <1>0, <1>6, PendingMoves, SchedulerAssumption DEF TimerFires, TimerLock, Tick, Contexts
  <2> QED
    BY <1>1, <1>6, <2>1 DEF TimerFires, TimerLock, Tick, table
<1>7. ASSUME NEW w \in Workers, Polling(w) \/ Fault(w)
      PROVE  SpawnsCounted'
  <2>1. Pending' = Pending
    BY <1>0, <1>7, PendingMoves, SchedulerAssumption
       DEF Polling, PollLock, PollScan, PollEmpty, PollTake, Fault, Contexts
  <2> QED
    BY <1>1, <1>7, <2>1 DEF Polling, PollLock, PollScan, PollEmpty, PollTake, Fault, table
<1>8. ASSUME NEW w \in Workers, CallSpawn(w)
      PROVE  SpawnsCounted'
  <2>1. w \notin Pending /\ Pending' = Pending \cup {w}
    BY <1>0, <1>8, PendingMoves, SchedulerAssumption DEF CallSpawn, Contexts
  <2>2. IsFiniteSet(Pending') /\ Returned' = Returned
    BY <1>0, <1>8, <2>1, ReturnedMoves, Zenon DEF CallSpawn
  <2> QED
    BY <1>8, <2>2 DEF CallSpawn, SpawnsCounted, table
<1>9. CASE UNCHANGED vars
  <2>1. Pending' = Pending
    BY <1>9 DEF vars, Pending, InCall
  <2> QED
    BY <1>1, <1>9, <2>1 DEF vars
<1> QED
  BY <1>2, <1>3, <1>4, <1>5, <1>6, <1>7, <1>8, <1>9 DEF Next, Spawning, Ticking

LEMMA CountInit == Init => SpawnsCounted
<1> SUFFICES ASSUME Init PROVE SpawnsCounted
  OBVIOUS
<1>1. Pending = {Core0}
  BY SchedulerAssumption DEF Init, Pending, InCall, Contexts
<1>2. IsFiniteSet(Pending) /\ Cardinality(Pending) = 1
  BY <1>1, FS_Singleton, Zenon
<1> QED
  BY <1>2, SchedulerAssumption DEF Init, SpawnsCounted, Returned

\* However the calls of several cores fall, spawn_thread drops a thread only when
\* the table is full.
THEOREM SpawnsKept == Spec => []SpawnsAreKept
<1>1. Spec => []SpawnsCounted
  BY CountInit, CountStep, SchedulerInvariance, PTL DEF Spec
<1>2. ASSUME SchedulerInv, SpawnsCounted PROVE SpawnsAreKept
  <2> SUFFICES ASSUME InFlight = {}, pc[Core0] \in {"sti", "idle"}
               PROVE  thread_count = IF calls + 1 < MaxThreads THEN calls + 1 ELSE MaxThreads
    BY DEF SpawnsAreKept
  <2>1. Pending = {}
    BY DEF InFlight, Pending, InCall
  <2>2. Returned = calls + 1
    BY <1>2, <2>1, FS_EmptySet DEF Returned, SchedulerInv, TypeOK
  <2> QED
    BY <1>2, <2>2 DEF SpawnsCounted
<1> QED
  BY <1>1, <1>2, SchedulerInvariance, PTL
=============================================================================
