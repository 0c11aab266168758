--------------------------- MODULE FrameAllocator ---------------------------
(***************************************************************************)
(* The bump allocator for physical frames (stardust/src/memory/frame.rs).  *)
(* Its cursor, region_index and current_addr, is guarded by the ALLOCATOR  *)
(* spinlock.  A core takes the lock for one or several calls: frame::init  *)
(* makes three, and map_to one per page table it lacks.  The others, which *)
(* are grant_frame (memory/shared.rs) and the two loaders (task/loader.rs  *)
(* and task/elf.rs), make one call and panic if it returns None.           *)
(* Reading the cursor (Fit) and writing it back (Take) are separate steps, *)
(* so that the lock, and not the model, keeps two cores apart.             *)
(* Addresses are natural numbers: physical addresses have at most 52 bits, *)
(* so that the code's 64-bit sums do not overflow.                         *)
(***************************************************************************)
EXTENDS Integers, Sequences

CONSTANTS Cores,        \* the cores that allocate
          NoCore,       \* the ALLOCATOR lock is free
          Entries,      \* the bootloader's memory map
          PageSize,     \* PAGE_SIZE
          MaxCalls      \* most calls made under one hold of the lock

ASSUME ConstAssumption ==
  /\ NoCore \notin Cores
  /\ PageSize \in Nat \ {0}
  /\ MaxCalls \in Nat

EntryType == {"USABLE", "RESERVED"}   \* RESERVED: every other kind

Entry == [type : EntryType, base : Nat, length : Nat]

ASSUME MapAssumption == Entries \in Seq(Entry)

Usable(e) == e.type = "USABLE"

RegionEnd(e) == e.base + e.length

\* Usable entries do not overlap, which the boot protocol guarantees.  Entries
\* need not be sorted, aligned or non-empty.
ASSUME DisjointAssumption ==
  \A i, j \in 1..Len(Entries) :
    (i # j /\ Usable(Entries[i]) /\ Usable(Entries[j])) =>
       \/ RegionEnd(Entries[i]) <= Entries[j].base
       \/ RegionEnd(Entries[j]) <= Entries[i].base

VARIABLES region_index, current_addr,  \* FrameAllocator's fields
          lock,         \* the core that holds ALLOCATOR, or NoCore
          pc,           \* where each core is in a call
          aligned_addr, \* each core's local of that name
          calls,        \* calls each core still makes before it unlocks
          granted,      \* history: the frames returned, in order
          refused       \* history: has a call returned None?

cursor == <<region_index, current_addr>>
history == <<granted, refused>>
vars == <<region_index, current_addr, lock, pc, aligned_addr, calls,
          granted, refused>>

\* entries[region_index]; the code counts from 0.
entry == Entries[region_index + 1]

\* (addr + PAGE_SIZE - 1) & !(PAGE_SIZE - 1)
AlignUp(addr) == ((addr + (PageSize - 1)) \div PageSize) * PageSize

\* The frames of a memory-map entry: aligned pages that lie wholly inside it.
FramesOf(e) ==
  {f \in e.base..RegionEnd(e) : f % PageSize = 0 /\ f + PageSize <= RegionEnd(e)}

Frames == UNION {FramesOf(Entries[i]) : i \in {j \in 1..Len(Entries) : Usable(Entries[j])}}
-----------------------------------------------------------------------------
Init ==
  /\ region_index = 0
  /\ current_addr = 0
  /\ lock = NoCore
  /\ pc = [c \in Cores |-> "idle"]
  /\ aligned_addr = [c \in Cores |-> 0]
  /\ calls = [c \in Cores |-> 0]
  /\ granted = <<>>
  /\ refused = FALSE

\* ALLOCATOR.lock(), for a hold of n calls; "expect" if None is fatal to the caller.
FreeIgnored == TRUE
Free == lock = NoCore

Acquire(c, n, label) ==
  /\ pc[c] = "idle"
  /\ Free
  /\ lock' = c
  /\ pc' = [pc EXCEPT ![c] = label]
  /\ calls' = [calls EXCEPT ![c] = n]
  /\ UNCHANGED <<cursor, aligned_addr, history>>

\* The guard is dropped at the end of its scope.
ReleaseForgotten(c) == FALSE

Release(c) ==
  /\ pc[c] = "call"
  /\ calls[c] = 0
  /\ lock' = NoCore
  /\ pc' = [pc EXCEPT ![c] = "idle"]
  /\ UNCHANGED <<cursor, aligned_addr, calls, history>>

\* The core is at the head of the while loop.
InLoop(c) ==
  /\ pc[c] \in {"call", "expect"}
  /\ calls[c] > 0
  /\ region_index < Len(Entries)

\* An entry that is not USABLE is passed over.
SkipUnusable(c) ==
  /\ InLoop(c)
  /\ ~Usable(entry)
  /\ region_index' = region_index + 1
  /\ UNCHANGED <<current_addr, lock, pc, aligned_addr, calls, history>>

\* Where the search starts in the current region: 0 stands for "its base".
StartAddr == IF current_addr = 0 THEN entry.base ELSE current_addr

\* Is there room for a frame at a?
RoomOffByOne(a) == a + PageSize < RegionEnd(entry)
RoomAt(a) == a + PageSize <= RegionEnd(entry)

\* The region has room: the frame's address is computed from the cursor.
Fit(c) ==
  /\ InLoop(c)
  /\ Usable(entry)
  /\ RoomAt(AlignUp(StartAddr))
  /\ current_addr' = StartAddr
  /\ aligned_addr' = [aligned_addr EXCEPT ![c] = AlignUp(StartAddr)]
  /\ pc' = [pc EXCEPT ![c] = "take"]
  /\ UNCHANGED <<region_index, lock, calls, history>>

\* The cursor moves past the frame, and the call returns Some(aligned_addr).
Take(c) ==
  /\ pc[c] = "take"
  /\ current_addr' = aligned_addr[c] + PageSize
  /\ granted' = Append(granted, aligned_addr[c])
  /\ pc' = [pc EXCEPT ![c] = "call"]
  /\ calls' = [calls EXCEPT ![c] = @ - 1]
  /\ UNCHANGED <<region_index, lock, aligned_addr, refused>>

\* The region has no room: go on with the next one, from its base.
AddrKept == StartAddr
AddrReset == 0

NextRegion(c) ==
  /\ InLoop(c)
  /\ Usable(entry)
  /\ ~RoomAt(AlignUp(StartAddr))
  /\ region_index' = region_index + 1
  /\ current_addr' = AddrReset
  /\ UNCHANGED <<lock, pc, aligned_addr, calls, history>>

\* The loop is over: the call returns None.  map_to gives up then, frame::init
\* goes on with its next call.
Exhausted(c) ==
  /\ pc[c] = "call"
  /\ calls[c] > 0
  /\ region_index >= Len(Entries)
  /\ refused' = TRUE
  /\ \E n \in {0, calls[c] - 1} : calls' = [calls EXCEPT ![c] = n]
  /\ UNCHANGED <<cursor, lock, pc, aligned_addr, granted>>

\* The same for .expect(...): the panic handler halts the core inside the statement
\* that holds the lock, which is never released.
Panic(c) ==
  /\ pc[c] = "expect"
  /\ region_index >= Len(Entries)
  /\ refused' = TRUE
  /\ pc' = [pc EXCEPT ![c] = "panic"]
  /\ UNCHANGED <<cursor, lock, aligned_addr, calls, granted>>

Step(c) ==
  \/ Release(c)
  \/ SkipUnusable(c)
  \/ Fit(c)
  \/ Take(c)
  \/ NextRegion(c)
  \/ Exhausted(c)
  \/ Panic(c)

Lock(c) == Acquire(c, 1, "expect") \/ \E n \in 0..MaxCalls : Acquire(c, n, "call")

Next == \E c \in Cores : Step(c) \/ Lock(c)

Spec == Init /\ [][Next]_vars

\* A core that holds the lock has interrupts disabled and is never preempted,
\* so that it keeps running.
FairSpec == Spec /\ \A c \in Cores : WF_vars(Step(c))
-----------------------------------------------------------------------------
\* The cursor stays within the map or one past its end, and every history is
\* a sequence of addresses.
TypeOK ==
  /\ region_index \in 0..Len(Entries)
  /\ current_addr \in Nat
  /\ lock \in Cores \cup {NoCore}
  /\ pc \in [Cores -> {"idle", "call", "expect", "take", "panic"}]
  /\ aligned_addr \in [Cores -> Nat]
  /\ calls \in [Cores -> Nat]
  /\ \A c \in Cores : pc[c] \in {"expect", "take"} => calls[c] > 0
  /\ granted \in Seq(Nat)
  /\ refused \in BOOLEAN

\* The module comment of frame.rs: "physical frames are never
\* double-allocated across different cores or threads".
NoDoubleAllocation ==
  \A i, j \in 1..Len(granted) : granted[i] = granted[j] => i = j

\* A core that is inside a call of allocate_frame_raw, or was halted in one, holds
\* ALLOCATOR.
OnlyHolderCalls == \A c \in Cores : pc[c] # "idle" => lock = c

\* A non-zero cursor lies in the usable region that region_index names: the
\* address 0, which stands for "not started", is restored on every change of
\* region, also across entries that are skipped.
CursorInRegion ==
  current_addr # 0 =>
    /\ region_index < Len(Entries)
    /\ Usable(entry)
    /\ entry.base <= current_addr
    /\ current_addr <= RegionEnd(entry)

\* What a core has computed from the cursor still holds when it writes the
\* cursor back.
TakeIsFresh ==
  \A c \in Cores : pc[c] = "take" =>
    /\ region_index < Len(Entries)
    /\ Usable(entry)
    /\ entry.base <= current_addr
    /\ aligned_addr[c] = AlignUp(current_addr)
    /\ aligned_addr[c] + PageSize <= RegionEnd(entry)

WasGranted(f) == \E k \in 1..Len(granted) : granted[k] = f

\* Has the cursor moved past frame f of entry i?
Passed(i, f) ==
  \/ i - 1 < region_index
  \/ i - 1 = region_index /\ f < current_addr

\* The frames given out are exactly those the cursor has moved past: none is
\* skipped and none is invented.
GivenIsPassed ==
  \A i \in 1..Len(Entries) : Usable(Entries[i]) =>
    \A f \in FramesOf(Entries[i]) :
      WasGranted(f) <=> Passed(i, f)

\* Every frame given out is an aligned page of usable memory.
GivenIsUsable == \A k \in 1..Len(granted) : granted[k] \in Frames

\* The inductive invariant behind NoDoubleAllocation and the refinement.
CursorInv ==
  /\ OnlyHolderCalls
  /\ CursorInRegion
  /\ TakeIsFresh
  /\ GivenIsPassed
  /\ GivenIsUsable

\* The allocator implements its promise: fresh frames only, and None only
\* when usable memory is exhausted.
Source == INSTANCE FrameSource
ImplementsFrameSource == Source!SourceSpec

\* Every hold of ALLOCATOR ends, on every map, unless memory has run out and the
\* .expect of its caller has halted the core.
HoldEnds ==
  \A c \in Cores : (lock = c) ~> (lock # c \/ (refused /\ pc[c] = "panic"))
=============================================================================
