------------------------ MODULE FrameAllocatorProofs ------------------------
(***************************************************************************)
(* Proofs about FrameAllocator, for every memory map, page size and set of *)
(* cores the assumptions allow.                                        *)
(***************************************************************************)
EXTENDS FrameAllocator, TLAPS

\* The alignment arithmetic of allocate_frame_raw: AlignUp rounds up to a
\* multiple of the page size, and by less than a page.
LEMMA AlignUpBounds ==
  ASSUME NEW a \in Nat
  PROVE  /\ AlignUp(a) \in Nat
         /\ AlignUp(a) % PageSize = 0
         /\ a <= AlignUp(a)
         /\ AlignUp(a) < a + PageSize
<1> DEFINE q == (a + (PageSize - 1)) \div PageSize
           r == (a + (PageSize - 1)) % PageSize
<1>1. PageSize \in Nat /\ PageSize > 0
  BY ConstAssumption
<1>2. q \in Nat /\ r \in 0..(PageSize - 1) /\ a + (PageSize - 1) = PageSize * q + r
  BY <1>1
<1>3. AlignUp(a) = q * PageSize /\ q * PageSize = PageSize * q
  BY <1>1, <1>2 DEF AlignUp
<1>4. (q * PageSize) % PageSize = 0
  BY <1>1, <1>2
<1> QED
  BY <1>1, <1>2, <1>3, <1>4

\* AlignUp is the least multiple of the page size that is not below a.
LEMMA AlignUpLeast ==
  ASSUME NEW a \in Nat, NEW f \in Nat, f % PageSize = 0, a <= f
  PROVE  AlignUp(a) <= f
<1> DEFINE q == (a + (PageSize - 1)) \div PageSize
           m == f \div PageSize
<1>1. PageSize \in Nat /\ PageSize > 0
  BY ConstAssumption
<1>2. m \in Nat /\ f = PageSize * m
  BY <1>1
<1>3. q \in Nat /\ PageSize * q <= a + (PageSize - 1) /\ AlignUp(a) = PageSize * q
  BY <1>1 DEF AlignUp
<1>4. CASE q <= m
  BY <1>1, <1>2, <1>3, <1>4
<1>5. CASE m + 1 <= q
  <2>1. PageSize * (m + 1) <= PageSize * q
    BY <1>1, <1>2, <1>3, <1>5
  <2>2. PageSize * (m + 1) = f + PageSize
    BY <1>1, <1>2
  <2> QED
    BY <1>1, <1>3, <2>1, <2>2
<1> QED
  BY <1>2, <1>3, <1>4, <1>5

\* Two multiples of the page size that differ are at least a page apart.
LEMMA MultiplesApart ==
  ASSUME NEW f \in Nat, NEW g \in Nat, f % PageSize = 0, g % PageSize = 0,
         f < g + PageSize
  PROVE  f <= g
<1> DEFINE m == f \div PageSize
           n == g \div PageSize
<1>1. PageSize \in Nat /\ PageSize > 0
  BY ConstAssumption
<1>2. m \in Nat /\ n \in Nat /\ f = PageSize * m /\ g = PageSize * n
  BY <1>1
<1>3. CASE m <= n
  BY <1>1, <1>2, <1>3
<1>4. CASE n + 1 <= m
  <2>1. PageSize * (n + 1) <= PageSize * m
    BY <1>1, <1>2, <1>4
  <2>2. PageSize * (n + 1) = g + PageSize
    BY <1>1, <1>2
  <2> QED
    BY <1>1, <1>2, <2>1, <2>2
<1> QED
  BY <1>2, <1>3, <1>4
-----------------------------------------------------------------------------
\* The facts about one entry that the proofs use.
LEMMA EntryFields ==
  ASSUME NEW i \in 1..Len(Entries)
  PROVE  /\ Entries[i].base \in Nat
         /\ Entries[i].length \in Nat
         /\ RegionEnd(Entries[i]) \in Nat
         /\ \A f \in FramesOf(Entries[i]) :
              /\ f \in Nat /\ f % PageSize = 0
              /\ Entries[i].base <= f /\ f + PageSize <= RegionEnd(Entries[i])
<1>1. Entries[i] \in Entry
  BY MapAssumption
<1>2. Entries[i].base \in Nat /\ Entries[i].length \in Nat
  BY <1>1 DEF Entry
<1> QED
  BY <1>2, ConstAssumption DEF RegionEnd, FramesOf

\* A frame belongs to one usable entry only.
LEMMA FrameHasOneEntry ==
  ASSUME NEW i \in 1..Len(Entries), NEW j \in 1..Len(Entries),
         Usable(Entries[i]), Usable(Entries[j]),
         NEW f \in FramesOf(Entries[i]), f \in FramesOf(Entries[j])
  PROVE  i = j
<1>1. /\ f \in Nat
      /\ Entries[i].base <= f /\ f + PageSize <= RegionEnd(Entries[i])
      /\ Entries[j].base <= f /\ f + PageSize <= RegionEnd(Entries[j])
  BY EntryFields
<1>2. RegionEnd(Entries[i]) \in Nat /\ RegionEnd(Entries[j]) \in Nat
  BY EntryFields
<1>3. Entries[i].base \in Nat /\ Entries[j].base \in Nat
  BY EntryFields
<1>4. SUFFICES ASSUME i # j PROVE FALSE
  OBVIOUS
<1>5. \/ RegionEnd(Entries[i]) <= Entries[j].base
      \/ RegionEnd(Entries[j]) <= Entries[i].base
  BY <1>4, DisjointAssumption
<1> QED
  BY <1>1, <1>2, <1>3, <1>5, ConstAssumption

\* The frames of usable memory, entry by entry.
LEMMA FramesMembership ==
  \A f : f \in Frames <=>
    \E i \in 1..Len(Entries) : Usable(Entries[i]) /\ f \in FramesOf(Entries[i])
BY DEF Frames

\* What the cursor points at while there is a region to look at.
LEMMA EntryAtCursor ==
  ASSUME TypeOK, region_index < Len(Entries)
  PROVE  /\ region_index + 1 \in 1..Len(Entries)
         /\ entry = Entries[region_index + 1]
         /\ entry.base \in Nat
         /\ RegionEnd(entry) \in Nat
<1>1. Len(Entries) \in Nat
  BY MapAssumption
<1>2. region_index + 1 \in 1..Len(Entries)
  BY <1>1 DEF TypeOK
<1> QED
  BY <1>2, EntryFields DEF entry

\* When the region has room, the search start lies in it.
LEMMA StartInRegion ==
  ASSUME TypeOK, CursorInRegion, region_index < Len(Entries)
  PROVE  StartAddr \in Nat /\ entry.base <= StartAddr
BY EntryAtCursor DEF StartAddr, TypeOK, CursorInRegion
-----------------------------------------------------------------------------
\* The type invariant of the allocator.
THEOREM TypeCorrect == Spec => []TypeOK
<1>1. Init => TypeOK
  <2>1. Len(Entries) \in Nat
    BY MapAssumption
  <2> SUFFICES ASSUME Init PROVE TypeOK
    OBVIOUS
  <2>2. refused \in BOOLEAN
    BY Zenon DEF Init
  <2>3. granted \in Seq(Nat)
    BY DEF Init
  <2> QED
    BY <2>1, <2>2, <2>3 DEF Init, TypeOK
<1>2. TypeOK /\ [Next]_vars => TypeOK'
  <2> SUFFICES ASSUME TypeOK, [Next]_vars PROVE TypeOK'
    OBVIOUS
  <2> USE DEF TypeOK
  <2>0. Len(Entries) \in Nat /\ PageSize \in Nat
    BY ConstAssumption, MapAssumption
  <2>1. ASSUME NEW c \in Cores, Lock(c) PROVE TypeOK'
    <3>1. CASE Acquire(c, 1, "expect")
      BY <3>1 DEF Acquire, Free, cursor, history
    <3>2. ASSUME NEW n \in 0..MaxCalls, Acquire(c, n, "call") PROVE TypeOK'
      BY <3>2, ConstAssumption DEF Acquire, Free, cursor, history
    <3> QED
      BY <2>1, <3>1, <3>2, SMTT(20) DEF Lock
  <2>2. ASSUME NEW c \in Cores, Release(c) PROVE TypeOK'
    BY <2>2 DEF Release, cursor, history
  <2>3. ASSUME NEW c \in Cores, SkipUnusable(c) PROVE TypeOK'
    BY <2>0, <2>3 DEF SkipUnusable, InLoop, history
  <2>4. ASSUME NEW c \in Cores, Fit(c) PROVE TypeOK'
    <3>1. StartAddr \in Nat
      BY <2>4, EntryAtCursor DEF Fit, InLoop, StartAddr
    <3> QED
      BY <2>4, <3>1, AlignUpBounds, Zenon DEF Fit, InLoop, history
  <2>5. ASSUME NEW c \in Cores, Take(c) PROVE TypeOK'
    <3>1. granted' \in Seq(Nat)
      BY <2>5 DEF Take
    <3>2. calls' \in [Cores -> Nat] /\ pc' \in [Cores -> {"idle", "call", "expect", "take", "panic"}]
      <4>1. calls[c] \in Nat \ {0}
        BY <2>5 DEF Take
      <4>2. calls' = [calls EXCEPT ![c] = @ - 1] /\ pc' = [pc EXCEPT ![c] = "call"]
        BY <2>5 DEF Take
      <4>3. calls[c] - 1 \in Nat
        BY <4>1
      <4> QED
        BY <4>2, <4>3
    <3>3. \A d \in Cores : pc'[d] \in {"expect", "take"} => calls'[d] > 0
      BY <2>5 DEF Take
    <3>4. current_addr' \in Nat
      BY <2>0, <2>5 DEF Take
    <3>5. UNCHANGED <<region_index, lock, aligned_addr, refused>>
      BY <2>5 DEF Take
    <3> QED
      BY <3>1, <3>2, <3>3, <3>4, <3>5
  <2>6. ASSUME NEW c \in Cores, NextRegion(c) PROVE TypeOK'
    BY <2>0, <2>6 DEF NextRegion, AddrReset, InLoop, history
  <2>7. ASSUME NEW c \in Cores, Exhausted(c) PROVE TypeOK'
    BY <2>7 DEF Exhausted, cursor
  <2>8. ASSUME NEW c \in Cores, Panic(c) PROVE TypeOK'
    BY <2>8 DEF Panic, cursor
  <2>9. CASE UNCHANGED vars
    BY <2>9 DEF vars
  <2> QED
    BY <2>1, <2>2, <2>3, <2>4, <2>5, <2>6, <2>7, <2>8, <2>9, SMTT(20) DEF Next, Step
<1> QED
  BY <1>1, <1>2, PTL DEF Spec
-----------------------------------------------------------------------------
\* The lock keeps the callers apart.
LEMMA HolderStep ==
  ASSUME TypeOK, OnlyHolderCalls, [Next]_vars
  PROVE  OnlyHolderCalls'
<1> USE DEF TypeOK, OnlyHolderCalls
<1>1. ASSUME NEW c \in Cores, Lock(c) PROVE OnlyHolderCalls'
  BY <1>1, ConstAssumption DEF Lock, Acquire, Free
<1>2. ASSUME NEW c \in Cores, Step(c) PROVE OnlyHolderCalls'
  BY <1>2, SMTT(20) DEF Step, Release, SkipUnusable, Fit, Take, NextRegion, AddrReset, Exhausted, Panic,
              InLoop
<1>3. CASE UNCHANGED vars
  BY <1>3 DEF vars
<1> QED
  BY <1>1, <1>2, <1>3 DEF Next

\* A core in the loop or about to take a frame is the only one that is.
LEMMA OtherCoresIdle ==
  ASSUME OnlyHolderCalls, NEW c \in Cores, pc[c] # "idle",
         NEW d \in Cores, pc[d] # "idle"
  PROVE  c = d
BY DEF OnlyHolderCalls

\* The cursor and what a core computes from it, step by step.
LEMMA CursorStep ==
  ASSUME TypeOK, TypeOK', OnlyHolderCalls, CursorInRegion, TakeIsFresh, [Next]_vars
  PROVE  CursorInRegion' /\ TakeIsFresh'
<1> USE DEF TypeOK
<1>0. PageSize \in Nat /\ PageSize > 0 /\ Len(Entries) \in Nat
  BY ConstAssumption, MapAssumption
<1>1. ASSUME NEW c \in Cores, Lock(c) PROVE CursorInRegion' /\ TakeIsFresh'
  BY <1>1, SMTT(20) DEF Lock, Acquire, Free, cursor, CursorInRegion, TakeIsFresh, entry
<1>2. ASSUME NEW c \in Cores, Release(c) PROVE CursorInRegion' /\ TakeIsFresh'
  BY <1>2 DEF Release, cursor, CursorInRegion, TakeIsFresh, entry
<1>3. ASSUME NEW c \in Cores, SkipUnusable(c) PROVE CursorInRegion' /\ TakeIsFresh'
  <2>1. current_addr = 0 /\ current_addr' = 0
    BY <1>3 DEF SkipUnusable, CursorInRegion
  <2>2. \A d \in Cores : pc'[d] # "take"
    BY <1>3, OtherCoresIdle, Zenon DEF SkipUnusable, InLoop
  <2> QED
    BY <2>1, <2>2 DEF CursorInRegion, TakeIsFresh
<1>4. ASSUME NEW c \in Cores, Fit(c) PROVE CursorInRegion' /\ TakeIsFresh'
  <2>1. region_index < Len(Entries) /\ StartAddr \in Nat /\ entry.base <= StartAddr
    BY <1>4, StartInRegion DEF Fit, InLoop
  <2>2. /\ region_index' = region_index /\ current_addr' = StartAddr
        /\ entry' = entry /\ Usable(entry)
        /\ AlignUp(StartAddr) + PageSize <= RegionEnd(entry)
    BY <1>4 DEF Fit, RoomAt, entry
  <2>3. AlignUp(StartAddr) \in Nat /\ StartAddr <= AlignUp(StartAddr)
    BY <2>1, AlignUpBounds, Zenon
  <2>4. CursorInRegion'
    <3>1. RegionEnd(entry) \in Nat
      BY <2>1, EntryAtCursor
    <3>2. AlignUp(StartAddr) + PageSize <= RegionEnd(entry)
      BY <2>2
    <3>3. StartAddr <= RegionEnd(entry)
      <4> HIDE DEF TypeOK
      <4> QED
        BY <1>0, <2>1, <2>3, <3>1, <3>2
    <3> QED
      BY <2>1, <2>2, <3>3 DEF CursorInRegion
  <2>5. \A d \in Cores : pc'[d] = "take" => d = c
    BY <1>4, OtherCoresIdle, Zenon DEF Fit, InLoop
  <2>6. aligned_addr'[c] = AlignUp(StartAddr)
    BY <1>4 DEF Fit
  <2> QED
    BY <2>1, <2>2, <2>4, <2>5, <2>6 DEF TakeIsFresh
<1>5. ASSUME NEW c \in Cores, Take(c) PROVE CursorInRegion' /\ TakeIsFresh'
  <2>1. \A d \in Cores : pc'[d] # "take"
    BY <1>5, OtherCoresIdle, Zenon DEF Take
  <2>2. /\ region_index < Len(Entries) /\ Usable(entry) /\ entry.base <= current_addr
        /\ aligned_addr[c] = AlignUp(current_addr)
        /\ aligned_addr[c] + PageSize <= RegionEnd(entry)
    BY <1>5 DEF Take, TakeIsFresh
  <2>3. region_index' = region_index /\ entry' = entry
        /\ current_addr' = aligned_addr[c] + PageSize
    BY <1>5 DEF Take, entry
  <2>4. current_addr <= aligned_addr[c]
    BY <2>2, AlignUpBounds
  <2>5. CursorInRegion'
    <3>1. entry.base \in Nat
      BY <2>2, EntryAtCursor
    <3>2. current_addr \in Nat /\ aligned_addr[c] \in Nat
      OBVIOUS
    <3>3. entry.base <= current_addr
      BY <2>2
    <3>4. entry.base <= aligned_addr[c] + PageSize
      <4> HIDE DEF TypeOK
      <4> QED
        BY <1>0, <2>4, <3>1, <3>2, <3>3
    <3> QED
      BY <2>2, <2>3, <3>4 DEF CursorInRegion
  <2> QED
    BY <2>1, <2>5 DEF TakeIsFresh
<1>6. ASSUME NEW c \in Cores, NextRegion(c) PROVE CursorInRegion' /\ TakeIsFresh'
  <2>1. \A d \in Cores : pc'[d] # "take"
    BY <1>6, OtherCoresIdle, Zenon DEF NextRegion, AddrReset, InLoop
  <2> QED
    BY <1>6, <2>1 DEF NextRegion, AddrReset, CursorInRegion, TakeIsFresh
<1>7. ASSUME NEW c \in Cores, Exhausted(c) PROVE CursorInRegion' /\ TakeIsFresh'
  BY <1>7 DEF Exhausted, cursor, CursorInRegion, TakeIsFresh, entry
<1>8. ASSUME NEW c \in Cores, Panic(c) PROVE CursorInRegion' /\ TakeIsFresh'
  BY <1>8 DEF Panic, cursor, CursorInRegion, TakeIsFresh, entry
<1>9. CASE UNCHANGED vars
  BY <1>9 DEF vars, CursorInRegion, TakeIsFresh, entry
<1> QED
  BY <1>1, <1>2, <1>3, <1>4, <1>5, <1>6, <1>7, <1>8, <1>9 DEF Next, Step
-----------------------------------------------------------------------------
\* A Take step appends one frame to the history.
LEMMA TakeAppends ==
  ASSUME TypeOK, NEW c \in Cores, Take(c)
  PROVE  /\ Len(granted') = Len(granted) + 1
         /\ granted'[Len(granted) + 1] = aligned_addr[c]
         /\ \A k \in 1..Len(granted) : granted'[k] = granted[k]
         /\ \A f : WasGranted(f)' <=> WasGranted(f) \/ f = aligned_addr[c]
<1>1. granted \in Seq(Nat) /\ granted' = Append(granted, aligned_addr[c])
      /\ aligned_addr[c] \in Nat
  BY DEF TypeOK, Take
<1>2. /\ Len(granted) \in Nat
      /\ Len(granted') = Len(granted) + 1
      /\ granted'[Len(granted) + 1] = aligned_addr[c]
      /\ \A k \in 1..Len(granted) : granted'[k] = granted[k]
  BY <1>1
<1>3. \A k \in 1..Len(granted') : k \in 1..Len(granted) \/ k = Len(granted) + 1
  BY <1>2
<1>4. Len(granted) + 1 \in 1..Len(granted')
      /\ \A k \in 1..Len(granted) : k \in 1..Len(granted')
  BY <1>2
<1>5. ASSUME NEW f PROVE WasGranted(f)' <=> WasGranted(f) \/ f = aligned_addr[c]
  BY <1>2, <1>3, <1>4 DEF WasGranted
<1> QED
  BY <1>2, <1>5

\* The frame a core is about to take is a frame of the current region that
\* nobody has been given.
LEMMA TakenIsFresh ==
  ASSUME TypeOK, CursorInv, NEW c \in Cores, pc[c] = "take"
  PROVE  /\ region_index + 1 \in 1..Len(Entries)
         /\ Usable(Entries[region_index + 1])
         /\ aligned_addr[c] \in FramesOf(Entries[region_index + 1])
         /\ aligned_addr[c] \in Frames
         /\ ~WasGranted(aligned_addr[c])
<1> DEFINE i == region_index + 1
           a == aligned_addr[c]
<1>0. PageSize \in Nat /\ PageSize > 0
  BY ConstAssumption
<1>1. /\ region_index < Len(Entries) /\ Usable(entry) /\ entry.base <= current_addr
      /\ a = AlignUp(current_addr) /\ a + PageSize <= RegionEnd(entry)
  BY DEF CursorInv, TakeIsFresh
<1>2. /\ i \in 1..Len(Entries) /\ entry = Entries[i]
      /\ entry.base \in Nat /\ RegionEnd(entry) \in Nat
  BY <1>1, EntryAtCursor
<1>3. current_addr \in Nat /\ region_index \in Nat
  BY DEF TypeOK
<1>4. a \in Nat /\ a % PageSize = 0 /\ current_addr <= a
  BY <1>1, <1>3, AlignUpBounds
<1>5. a \in FramesOf(Entries[i])
  <2>1. entry.base <= current_addr /\ a + PageSize <= RegionEnd(entry)
    BY <1>1
  <2> HIDE DEF a
  <2>2. a \in entry.base..RegionEnd(entry)
    BY <1>0, <1>2, <1>3, <1>4, <2>1
  <2> QED
    BY <1>2, <1>4, <2>1, <2>2 DEF FramesOf
<1>6. a \in Frames
  BY <1>1, <1>2, <1>5, FramesMembership
<1>7. ~Passed(i, a)
  BY <1>3, <1>4 DEF Passed
<1>8. ~WasGranted(a)
  BY <1>1, <1>2, <1>5, <1>7 DEF CursorInv, GivenIsPassed
<1> QED
  BY <1>1, <1>2, <1>5, <1>6, <1>8

\* A step that moves the cursor without passing a frame, and returns none,
\* keeps GivenIsPassed.
LEMMA SamePassed ==
  ASSUME GivenIsPassed, granted' = granted,
         \A i \in 1..Len(Entries) : Usable(Entries[i]) =>
           \A f \in FramesOf(Entries[i]) : Passed(i, f)' <=> Passed(i, f)
  PROVE  GivenIsPassed'
BY DEF GivenIsPassed, WasGranted

\* The frames given out are those the cursor has passed, step by step.
LEMMA GivenStep ==
  ASSUME TypeOK, TypeOK', CursorInv, [Next]_vars
  PROVE  GivenIsPassed'
<1>0. /\ PageSize \in Nat /\ PageSize > 0 /\ Len(Entries) \in Nat
      /\ region_index \in Nat /\ current_addr \in Nat /\ region_index <= Len(Entries)
  BY ConstAssumption, MapAssumption DEF TypeOK
<1>1. GivenIsPassed /\ CursorInRegion /\ TakeIsFresh
  BY DEF CursorInv
<1>2. CASE granted' = granted /\ region_index' = region_index /\ current_addr' = current_addr
  BY <1>1, <1>2, SamePassed DEF Passed
<1>3. ASSUME NEW c \in Cores, SkipUnusable(c) PROVE GivenIsPassed'
  <2>1. /\ granted' = granted /\ region_index' = region_index + 1
        /\ current_addr' = 0 /\ current_addr = 0 /\ ~Usable(Entries[region_index + 1])
    BY <1>1, <1>3 DEF SkipUnusable, history, CursorInRegion, entry
  <2>2. ASSUME NEW i \in 1..Len(Entries), Usable(Entries[i]), NEW f \in FramesOf(Entries[i])
        PROVE  Passed(i, f)' <=> Passed(i, f)
    <3>1. f \in Nat
      BY EntryFields
    <3>2. i # region_index + 1
      BY <2>1, <2>2
    <3> QED
      BY <1>0, <2>1, <3>1, <3>2 DEF Passed
  <2> QED
    BY <1>1, <2>1, <2>2, SamePassed
<1>4. ASSUME NEW c \in Cores, Fit(c) PROVE GivenIsPassed'
  <2>1. /\ granted' = granted /\ region_index' = region_index
        /\ current_addr' = StartAddr /\ region_index < Len(Entries)
    BY <1>4 DEF Fit, history, InLoop
  <2>2. /\ region_index + 1 \in 1..Len(Entries) /\ entry = Entries[region_index + 1]
    BY <2>1, EntryAtCursor
  <2>3. ASSUME NEW i \in 1..Len(Entries), Usable(Entries[i]), NEW f \in FramesOf(Entries[i])
        PROVE  Passed(i, f)' <=> Passed(i, f)
    <3>1. f \in Nat /\ Entries[i].base \in Nat /\ Entries[i].base <= f
      BY EntryFields
    <3>2. i = region_index + 1 => (f < StartAddr <=> f < current_addr)
      BY <1>0, <2>2, <3>1 DEF StartAddr
    <3> QED
      BY <1>0, <2>1, <3>1, <3>2 DEF Passed
  <2> QED
    BY <1>1, <2>1, <2>3, SamePassed
<1>5. ASSUME NEW c \in Cores, Take(c) PROVE GivenIsPassed'
  <2> DEFINE a == aligned_addr[c]
  <2>1. pc[c] = "take" /\ region_index' = region_index /\ current_addr' = a + PageSize
    BY <1>5 DEF Take
  <2>2. /\ region_index + 1 \in 1..Len(Entries) /\ Usable(Entries[region_index + 1])
        /\ a \in FramesOf(Entries[region_index + 1])
    BY <2>1, TakenIsFresh
  <2>3. a = AlignUp(current_addr)
    BY <1>1, <2>1 DEF TakeIsFresh
  <2>4. a \in Nat /\ a % PageSize = 0 /\ current_addr <= a
    BY <1>0, <2>3, AlignUpBounds, Zenon
  <2>5. ASSUME NEW i \in 1..Len(Entries), Usable(Entries[i]), NEW f \in FramesOf(Entries[i])
        PROVE  WasGranted(f)' <=> Passed(i, f)'
    <3>1. f \in Nat /\ f % PageSize = 0
      BY EntryFields
    <3>2. WasGranted(f) <=> Passed(i, f)
      BY <1>1, <2>5 DEF GivenIsPassed
    <3>3. WasGranted(f)' <=> WasGranted(f) \/ f = a
      BY <1>5, TakeAppends
    <3>4. CASE i = region_index + 1
      <4>1. f < a + PageSize => f <= a
        BY <3>1, <2>4, MultiplesApart
      <4>2. current_addr <= f => a <= f
        BY <1>0, <2>3, <3>1, AlignUpLeast
      <4>3. f < a + PageSize <=> f < current_addr \/ f = a
        BY <1>0, <2>4, <3>1, <4>1, <4>2
      <4> QED
        BY <1>0, <2>1, <3>1, <3>2, <3>3, <3>4, <4>3 DEF Passed
    <3>5. CASE i # region_index + 1
      <4>1. f # a
        BY <2>2, <2>5, <3>5, FrameHasOneEntry
      <4> QED
        BY <1>0, <2>1, <3>2, <3>3, <3>5, <4>1 DEF Passed
    <3> QED
      BY <3>4, <3>5
  <2> QED
    BY <2>5 DEF GivenIsPassed
<1>6. ASSUME NEW c \in Cores, NextRegion(c) PROVE GivenIsPassed'
  <2>1. /\ granted' = granted /\ region_index' = region_index + 1 /\ current_addr' = 0
        /\ region_index < Len(Entries)
        /\ ~(AlignUp(StartAddr) + PageSize <= RegionEnd(entry))
    BY <1>6 DEF NextRegion, AddrReset, history, InLoop, RoomAt
  <2>2. /\ region_index + 1 \in 1..Len(Entries) /\ entry = Entries[region_index + 1]
        /\ RegionEnd(entry) \in Nat /\ entry.base \in Nat
    BY <2>1, EntryAtCursor
  <2>3. StartAddr \in Nat
    BY <1>1, <2>1, StartInRegion
  <2>4. AlignUp(StartAddr) \in Nat
    BY <2>3, AlignUpBounds
  <2>5. ASSUME NEW i \in 1..Len(Entries), Usable(Entries[i]), NEW f \in FramesOf(Entries[i])
        PROVE  Passed(i, f)' <=> Passed(i, f)
    <3>1. /\ f \in Nat /\ f % PageSize = 0 /\ Entries[i].base <= f
          /\ f + PageSize <= RegionEnd(Entries[i])
      BY EntryFields
    <3>2. ASSUME i = region_index + 1 PROVE f < current_addr
      <4>1. StartAddr <= f => AlignUp(StartAddr) <= f
        BY <2>3, <3>1, AlignUpLeast
      <4>2. f < StartAddr
        BY <1>0, <2>1, <2>2, <2>3, <2>4, <3>1, <3>2, <4>1
      <4> QED
        BY <1>0, <2>2, <3>1, <3>2, <4>2 DEF StartAddr
    <3> QED
      BY <1>0, <2>1, <3>1, <3>2 DEF Passed
  <2> QED
    BY <1>1, <2>1, <2>5, SamePassed
<1>7. CASE UNCHANGED vars
  BY <1>2, <1>7 DEF vars
<1>8. ASSUME NEW c \in Cores,
             Release(c) \/ Exhausted(c) \/ Panic(c) \/ Lock(c)
      PROVE  GivenIsPassed'
  BY <1>2, <1>8 DEF Release, Exhausted, Panic, Lock, Acquire, Free, cursor, history
<1> QED
  BY <1>3, <1>4, <1>5, <1>6, <1>7, <1>8 DEF Next, Step
-----------------------------------------------------------------------------
\* The history changes by a Take step only.
LEMMA HistoryStep ==
  ASSUME [Next]_vars
  PROVE  granted' = granted \/ \E c \in Cores : Take(c)
BY DEF Next, Step, Lock, Acquire, Free, Release, SkipUnusable, Fit, NextRegion, AddrReset,
       Exhausted, Panic, history, vars

\* CursorInv is inductive.
LEMMA CursorInvStep ==
  ASSUME TypeOK, TypeOK', CursorInv, [Next]_vars
  PROVE  CursorInv'
<1>1. OnlyHolderCalls' /\ CursorInRegion' /\ TakeIsFresh'
  BY HolderStep, CursorStep DEF CursorInv
<1>2. GivenIsPassed'
  BY GivenStep
<1>3. GivenIsUsable'
  <2>1. CASE granted' = granted
    BY <2>1 DEF CursorInv, GivenIsUsable
  <2>2. ASSUME NEW c \in Cores, Take(c) PROVE GivenIsUsable'
    <3>1. aligned_addr[c] \in Frames
      BY <2>2, TakenIsFresh DEF Take
    <3>2. ASSUME NEW k \in 1..Len(granted') PROVE granted'[k] \in Frames
      <4>1. Len(granted) \in Nat
        BY DEF TypeOK
      <4>2. k \in 1..Len(granted) \/ k = Len(granted) + 1
        BY <2>2, <4>1, TakeAppends
      <4> QED
        BY <2>2, <3>1, <4>2, TakeAppends DEF CursorInv, GivenIsUsable
    <3> QED
      BY <3>2 DEF GivenIsUsable
  <2> QED
    BY <2>1, <2>2, HistoryStep
<1> QED
  BY <1>1, <1>2, <1>3 DEF CursorInv

\* Initially nothing is given out and nobody is inside a call.
LEMMA CursorInvInit ==
  ASSUME Init PROVE CursorInv
<1>1. region_index = 0 /\ current_addr = 0 /\ Len(granted) = 0
  BY DEF Init
<1>2. \A c \in Cores : pc[c] = "idle"
  BY DEF Init
<1>3. ASSUME NEW i \in 1..Len(Entries), NEW f \in FramesOf(Entries[i])
      PROVE  ~Passed(i, f)
  <2>1. f \in Nat
    BY EntryFields
  <2> QED
    BY <1>1, <2>1 DEF Passed
<1>4. \A f : ~WasGranted(f)
  BY <1>1 DEF WasGranted
<1>5. GivenIsPassed
  BY <1>3, <1>4 DEF GivenIsPassed
<1>6. GivenIsUsable
  BY <1>1 DEF GivenIsUsable
<1>7. OnlyHolderCalls /\ TakeIsFresh
  BY <1>2 DEF OnlyHolderCalls, TakeIsFresh
<1>8. CursorInRegion
  BY <1>1 DEF CursorInRegion
<1> QED
  BY <1>5, <1>6, <1>7, <1>8 DEF CursorInv

\* allocate_frame_raw's cursor and lock discipline, on every memory map: the
\* frames given out are at all times exactly the usable frames that lie
\* behind the cursor.
THEOREM CursorInvariance == Spec => []CursorInv
<1>1. Init => CursorInv
  BY CursorInvInit
<1>2. TypeOK /\ TypeOK' /\ CursorInv /\ [Next]_vars => CursorInv'
  BY CursorInvStep
<1> QED
  BY <1>1, <1>2, TypeCorrect, PTL DEF Spec

\* "Physical frames are never double-allocated across different cores or
\* threads": no two calls of allocate_frame_raw return the same frame.
THEOREM FramesUnique == Spec => []NoDoubleAllocation
<1>1. Init => NoDoubleAllocation
  BY DEF Init, NoDoubleAllocation
<1>2. TypeOK /\ CursorInv /\ NoDoubleAllocation /\ [Next]_vars => NoDoubleAllocation'
  <2> SUFFICES ASSUME TypeOK, CursorInv, NoDoubleAllocation, [Next]_vars
               PROVE  NoDoubleAllocation'
    OBVIOUS
  <2>1. CASE granted' = granted
    BY <2>1 DEF NoDoubleAllocation
  <2>2. ASSUME NEW c \in Cores, Take(c) PROVE NoDoubleAllocation'
    <3>1. ~WasGranted(aligned_addr[c])
      BY <2>2, TakenIsFresh DEF Take
    <3>2. Len(granted) \in Nat
      BY DEF TypeOK
    <3>3. /\ Len(granted') = Len(granted) + 1
          /\ granted'[Len(granted) + 1] = aligned_addr[c]
          /\ \A k \in 1..Len(granted) : granted'[k] = granted[k]
      BY <2>2, TakeAppends
    <3>4. \A k \in 1..Len(granted) : granted[k] # aligned_addr[c]
      BY <3>1 DEF WasGranted
    <3> QED
      BY <3>2, <3>3, <3>4 DEF NoDoubleAllocation
  <2> QED
    BY <2>1, <2>2, HistoryStep
<1> QED
  BY <1>1, <1>2, TypeCorrect, CursorInvariance, PTL DEF Spec

\* The bump allocator implements FrameSource: a call returns a fresh usable
\* frame, and None only when all of usable memory has been given out.
THEOREM Refinement == Spec => ImplementsFrameSource
<1>1. Init => Source!SourceInit
  BY DEF Init, Source!SourceInit
<1>2. TypeOK /\ CursorInv /\ [Next]_vars => [Source!SourceNext]_(Source!sourceVars)
  <2> SUFFICES ASSUME TypeOK, CursorInv, [Next]_vars
               PROVE  [Source!SourceNext]_(Source!sourceVars)
    OBVIOUS
  <2>0. DOMAIN granted = 1..Len(granted)
    BY DEF TypeOK
  <2>1. \A f : f \in Source!Given <=> WasGranted(f)
    BY <2>0 DEF Source!Given, WasGranted
  <2>2. ASSUME NEW c \in Cores, Take(c) PROVE Source!SourceNext
    <3>1. aligned_addr[c] \in Frames /\ ~WasGranted(aligned_addr[c])
      BY <2>2, TakenIsFresh DEF Take
    <3>2. Source!Grant(aligned_addr[c])
      BY <2>1, <2>2, <3>1 DEF Source!Grant, Take
    <3> QED
      BY <3>1, <3>2 DEF Source!SourceNext
  <2>3. ASSUME NEW c \in Cores, Exhausted(c) \/ Panic(c) PROVE Source!SourceNext
    <3>1. region_index >= Len(Entries) /\ region_index \in 0..Len(Entries)
      BY <2>3 DEF Exhausted, Panic, TypeOK
    <3>2. Len(Entries) \in Nat
      BY MapAssumption
    <3>3. ASSUME NEW f \in Frames PROVE WasGranted(f)
      <4>1. PICK i \in 1..Len(Entries) : Usable(Entries[i]) /\ f \in FramesOf(Entries[i])
        BY FramesMembership
      <4>2. Passed(i, f)
        BY <3>1, <3>2 DEF Passed
      <4> QED
        BY <4>1, <4>2 DEF CursorInv, GivenIsPassed
    <3>4. Source!Refuse
      BY <2>1, <2>3, <3>3 DEF Source!Refuse, Exhausted, Panic
    <3> QED
      BY <3>4 DEF Source!SourceNext
  <2>4. ASSUME NEW c \in Cores,
               Release(c) \/ SkipUnusable(c) \/ Fit(c) \/ NextRegion(c) \/ Lock(c)
        PROVE  UNCHANGED Source!sourceVars
    BY <2>4 DEF Release, SkipUnusable, Fit, NextRegion, AddrReset, Lock, Acquire, Free,
                history, Source!sourceVars
  <2>5. CASE UNCHANGED vars
    BY <2>5 DEF vars, Source!sourceVars
  <2> QED
    BY <2>2, <2>3, <2>4, <2>5 DEF Next, Step
<1> QED
  BY <1>1, <1>2, TypeCorrect, CursorInvariance, PTL
     DEF Spec, ImplementsFrameSource, Source!SourceSpec
=============================================================================
