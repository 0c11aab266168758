--------------------------- MODULE ElfLoadProofs ---------------------------
(***************************************************************************)
(* The two ELF loaders, for every page size, address space and image.      *)
(* Behind the page that is to be mapped next, all of the segment's pages   *)
(* are mapped (MapInv), and the segments loaded before stay as they are    *)
(* (ImageInv).  The arithmetic of pages comes first.                       *)
(***************************************************************************)
EXTENDS ElfLoad, TLAPS

\* What an address may hold, and the types of the loaders' variables.
Contents == {Unmapped, Junk, Zero} \cup {Data(i, k) : i \in Nat, k \in Nat}

Types ==
  /\ loader \in {"kernel", "user"}
  /\ segs \in Seq(Segments) /\ seg \in 1..Len(segs)
  /\ vaddr \in Nat
  /\ mem \in [Addr -> Contents]
  /\ pc \in {"map", "copy", "bss", "next", "fault", "done"}

\* While a segment is loaded, its pages are there up to the one to be mapped next.
Behind(a) == Floor(segs[seg].vaddr) <= a /\ a < Floor(vaddr)

MapInv ==
  /\ pc \in {"map", "copy", "bss"} =>
       /\ loader = "kernel" => Floor(vaddr) = vaddr
       /\ Floor(segs[seg].vaddr) <= vaddr
       /\ \A a \in Addr : Behind(a) => mem[a] # Unmapped
  /\ pc \in {"copy", "bss"} => vaddr >= End(segs[seg])
  /\ pc = "bss" => loader = "user"
  /\ pc = "done" => seg = Len(segs)

\* What has been loaded stays as the file has it, if the segments are as far apart
\* as the loader needs them to be.
FarApart ==
  \A i, j \in 1..Len(segs) :
    i # j => IF loader = "kernel" THEN PagesOf(segs[i]) \cap PagesOf(segs[j]) = {}
                                  ELSE WholeRange(segs[i]) \cap WholeRange(segs[j]) = {}

FileRight(i) == \A a \in FileRange(segs[i]) : mem[a] = Data(i, a - segs[i].vaddr)
BssRight(i) == \A a \in BssRange(segs[i]) : mem[a] = Zero
Loaded(i) == i < seg \/ (i = seg /\ pc \in {"next", "done"})

ImageInv ==
  FarApart =>
    /\ \A i \in 1..Len(segs) : Loaded(i) => FileRight(i) /\ BssRight(i)
    /\ loader = "kernel" /\ pc \in {"map", "copy"} =>
         \A a \in Addr : Behind(a) => mem[a] = Zero
    /\ pc = "bss" => FileRight(seg)

\* A step of one page further.
LEMMA NextMultiple ==
  ASSUME NEW m \in Nat, NEW n \in Nat, m < n
  PROVE  m * PageSize + PageSize <= n * PageSize
<1> DEFINE d == n - m - 1
<1>1. d \in Nat /\ n = m + 1 + d /\ PageSize \in Nat
  BY ElfLoadAssumption
<1> HIDE DEF d
<1>2. (m + 1 + d) * PageSize = m * PageSize + PageSize + d * PageSize /\ d * PageSize \in Nat
  BY <1>1
<1>3. m * PageSize \in Nat
  BY <1>1
<1> QED
  BY <1>1, <1>2, <1>3

\* The start of the page that holds an address.
LEMMA FloorFacts ==
  ASSUME NEW a \in Nat
  PROVE  /\ Floor(a) \in Nat /\ Floor(a) <= a /\ a < Floor(a) + PageSize
         /\ a % PageSize = a - Floor(a)
         /\ a \div PageSize \in Nat
<1>1. PageSize \in Nat /\ PageSize > 0
  BY ElfLoadAssumption
<1> DEFINE q == a \div PageSize
           r == a % PageSize
<1>2. q \in Nat /\ r \in 0..(PageSize - 1)
  BY <1>1
<1>3. a = PageSize * q + r
  BY <1>1
<1> HIDE DEF q, r
<1>4. PageSize * q = q * PageSize /\ q * PageSize \in Nat
  BY <1>1, <1>2
<1>5. Floor(a) = q * PageSize
  BY DEF Floor, q
<1> QED
  BY <1>1, <1>2, <1>3, <1>4, <1>5 DEF q, r

\* An address is in no more than one page.
LEMMA FloorUnique ==
  ASSUME NEW a \in Nat, NEW q \in Nat, q * PageSize <= a, a < q * PageSize + PageSize
  PROVE  Floor(a) = q * PageSize
<1> DEFINE p == a \div PageSize
<1>1. p \in Nat /\ Floor(a) = p * PageSize
  BY FloorFacts DEF Floor
<1>2. p * PageSize <= a /\ a < p * PageSize + PageSize
  BY <1>1, FloorFacts
<1>3. PageSize \in Nat /\ q * PageSize \in Nat /\ p * PageSize \in Nat
  BY <1>1, ElfLoadAssumption
<1> HIDE DEF p
<1>4. ~ p < q
  <2>1. p < q => p * PageSize + PageSize <= q * PageSize
    BY <1>1, NextMultiple
  <2> QED
    BY <1>2, <1>3, <2>1
<1>5. ~ q < p
  <2>1. q < p => q * PageSize + PageSize <= p * PageSize
    BY <1>1, NextMultiple
  <2> QED
    BY <1>2, <1>3, <2>1
<1>6. p = q
  BY <1>1, <1>4, <1>5
<1> QED
  BY <1>1, <1>6

\* Pages are in the order of their addresses, and a page size apart.
LEMMA FloorOrder ==
  ASSUME NEW a \in Nat, NEW b \in Nat
  PROVE  /\ a <= b => Floor(a) <= Floor(b)
         /\ Floor(a) < Floor(b) => Floor(a) + PageSize <= Floor(b)
<1> DEFINE p == a \div PageSize
           q == b \div PageSize
<1>1. p \in Nat /\ Floor(a) = p * PageSize /\ q \in Nat /\ Floor(b) = q * PageSize
  BY FloorFacts DEF Floor
<1>2. PageSize \in Nat /\ PageSize > 0
  BY ElfLoadAssumption
<1>3. /\ Floor(a) \in Nat /\ Floor(a) <= a /\ a < Floor(a) + PageSize
      /\ Floor(b) \in Nat /\ Floor(b) <= b /\ b < Floor(b) + PageSize
  BY FloorFacts
<1> HIDE DEF p, q
<1>4. /\ p < q => Floor(a) + PageSize <= Floor(b)
      /\ q < p => Floor(b) + PageSize <= Floor(a)
  BY <1>1, NextMultiple
<1>5. p = q => Floor(a) = Floor(b)
  BY <1>1
<1> QED
  BY <1>1, <1>2, <1>3, <1>4, <1>5

\* A whole number of pages further, and the start of a page itself.
LEMMA FloorShift ==
  ASSUME NEW a \in Nat, NEW n \in Nat
  PROVE  /\ Floor(a + n * PageSize) = Floor(a) + n * PageSize
         /\ Floor(Floor(a)) = Floor(a)
<1> DEFINE p == a \div PageSize
<1>1. p \in Nat /\ Floor(a) = p * PageSize
  BY FloorFacts DEF Floor
<1>2. PageSize \in Nat /\ PageSize > 0
  BY ElfLoadAssumption
<1>3. Floor(a) \in Nat /\ Floor(a) <= a /\ a < Floor(a) + PageSize
  BY FloorFacts
<1> HIDE DEF p
<1>4. (p + n) * PageSize = p * PageSize + n * PageSize /\ p + n \in Nat /\ n * PageSize \in Nat
  BY <1>1, <1>2
<1>5. (p + n) * PageSize <= a + n * PageSize /\ a + n * PageSize < (p + n) * PageSize + PageSize
  BY <1>1, <1>2, <1>3, <1>4
<1>6. Floor(a + n * PageSize) = (p + n) * PageSize
  BY <1>4, <1>5, FloorUnique
<1>7. Floor(Floor(a)) = p * PageSize
  BY <1>1, <1>2, <1>3, FloorUnique
<1> QED
  BY <1>1, <1>4, <1>6, <1>7
-----------------------------------------------------------------------------
\* The contents of memory can be told apart.
LEMMA ContentKinds ==
  /\ Unmapped # Zero /\ Unmapped # Junk
  /\ \A i, k \in Nat : Data(i, k) # Unmapped /\ Data(i, k) \in Contents
  BY DEF Unmapped, Zero, Junk, Data, Contents

\* A segment's place in the address space.
LEMMA SegmentFacts ==
  ASSUME NEW s \in Segments
  PROVE  /\ s.vaddr \in Nat /\ s.filesz \in Nat /\ s.memsz \in Nat
         /\ s.filesz <= s.memsz
         /\ PageSize \in Nat /\ PageSize > 0 /\ MaxAddr \in Nat
         /\ s.vaddr + s.memsz + PageSize <= MaxAddr
  BY ElfLoadAssumption

\* The kernel's loop stops at the first page behind the segment.
LEMMA KernelEndFacts ==
  ASSUME NEW s \in Segments
  PROVE  /\ KernelEnd(s) \in Nat /\ KernelEnd(s) >= s.vaddr + s.memsz
         /\ \A v \in Nat : Floor(v) = v /\ v < KernelEnd(s) => v < s.vaddr + s.memsz
<1> DEFINE x == s.vaddr + s.memsz
           y == x + PageSize - 1
<1>1. x \in Nat /\ y \in Nat /\ PageSize \in Nat /\ PageSize > 0 /\ y = x + (PageSize - 1)
  BY SegmentFacts
<1>2. KernelEnd(s) = Floor(y)
  BY DEF KernelEnd
<1> HIDE DEF x, y
<1>3. Floor(y) \in Nat /\ Floor(y) <= y /\ y < Floor(y) + PageSize
  BY <1>1, FloorFacts
<1>4. Floor(y) >= x
  BY <1>1, <1>3
<1>5. ASSUME NEW v \in Nat, Floor(v) = v, v < Floor(y) PROVE v < x
  <2>1. v + PageSize <= Floor(y)
    BY <1>1, <1>5, FloorOrder
  <2> QED
    BY <1>1, <1>3, <2>1
<1> QED
  BY <1>2, <1>3, <1>4, <1>5 DEF x

\* The userland's loop ends as many pages behind the segment's first as its size
\* alone asks for.
LEMMA UserEndFacts ==
  ASSUME NEW s \in Segments
  PROVE  /\ UserEnd(s) \in Nat /\ PagesFor(s.memsz) \in Nat
         /\ Floor(UserEnd(s)) = Floor(s.vaddr) + PagesFor(s.memsz) * PageSize
<1> DEFINE n == PagesFor(s.memsz)
<1>1. PageSize \in Nat /\ PageSize > 0 /\ s.memsz + PageSize - 1 \in Nat /\ s.vaddr \in Nat
  BY SegmentFacts
<1>2. n \in Nat
  BY <1>1, FloorFacts, Zenon DEF PagesFor
<1> HIDE DEF n
<1>3. n * PageSize \in Nat
  BY <1>1, <1>2
<1>4. UserEnd(s) = s.vaddr + n * PageSize
  BY DEF UserEnd, n
<1>5. Floor(s.vaddr + n * PageSize) = Floor(s.vaddr) + n * PageSize
  BY <1>1, <1>2, FloorShift
<1> QED
  BY <1>1, <1>2, <1>3, <1>4, <1>5 DEF n

\* An address is in its page, so a segment is in its pages.
LEMMA RangeInPages ==
  ASSUME NEW s \in Segments
  PROVE  WholeRange(s) \subseteq PagesOf(s)
<1> SUFFICES ASSUME NEW a \in WholeRange(s) PROVE a \in PagesOf(s)
  OBVIOUS
<1>1. a \in Nat
  BY ElfLoadAssumption DEF WholeRange, FileRange, BssRange, Addr
<1>2. a \in PageOf(a)
  <2>1. Floor(a) \in Nat /\ Floor(a) <= a /\ a < Floor(a) + PageSize
    BY <1>1, FloorFacts
  <2>2. PageSize \in Nat
    BY ElfLoadAssumption
  <2> QED
    BY <1>1, <2>1, <2>2 DEF PageOf
<1> QED
  BY <1>2 DEF PagesOf

\* The pages that the kernel maps and zeroes are pages of the segment.
LEMMA KernelPageInPages ==
  ASSUME NEW s \in Segments, NEW v \in Nat, Floor(v) = v, Floor(s.vaddr) <= v,
         v < KernelEnd(s)
  PROVE  PageOf(v) \subseteq PagesOf(s)
<1>1. v < s.vaddr + s.memsz
  BY KernelEndFacts
<1>2. CASE s.vaddr <= v
  <2>1. v \in WholeRange(s)
    BY <1>1, <1>2, SegmentFacts DEF WholeRange, FileRange, BssRange, Addr
  <2> QED
    BY <2>1 DEF PagesOf
<1>3. CASE v < s.vaddr
  <2>1. Floor(v) <= Floor(s.vaddr)
    BY <1>3, SegmentFacts, FloorOrder
  <2>2. Floor(s.vaddr) \in Nat
    BY SegmentFacts, FloorFacts, Zenon
  <2>3. Floor(v) = Floor(s.vaddr)
    BY <2>1, <2>2
  <2> QED
    BY <2>3 DEF PagesOf, PageOf
<1> QED
  BY <1>2, <1>3, SegmentFacts

\* If the segments are far enough apart, their bytes are.
LEMMA BytesApart ==
  ASSUME Types, FarApart, NEW i \in 1..Len(segs), NEW j \in 1..Len(segs), i # j
  PROVE  WholeRange(segs[i]) \cap WholeRange(segs[j]) = {}
<1>1. segs[i] \in Segments /\ segs[j] \in Segments
  BY DEF Types
<1> QED
  BY <1>1, RangeInPages, Zenon DEF FarApart
-----------------------------------------------------------------------------
\* One page further.
LEMMA OnePageOn ==
  ASSUME Types
  PROVE  Floor(vaddr + PageSize) = Floor(vaddr) + PageSize
<1> DEFINE one == 1
<1>1. one \in Nat /\ one * PageSize = PageSize /\ vaddr \in Nat
  BY ElfLoadAssumption DEF Types
<1> HIDE DEF one
<1> QED
  BY <1>1, FloorShift

\* Where a segment's loop starts, nothing is behind it.
LEMMA AtStart ==
  ASSUME NEW s \in Segments
  PROVE  /\ Start(s) \in Nat /\ Floor(Start(s)) = Floor(s.vaddr)
         /\ Floor(s.vaddr) <= Start(s)
         /\ loader = "kernel" => Floor(Start(s)) = Start(s)
<1>1. s.vaddr \in Nat /\ Floor(s.vaddr) \in Nat /\ Floor(s.vaddr) <= s.vaddr
  BY SegmentFacts, FloorFacts, Zenon
<1>2. Floor(Floor(s.vaddr)) = Floor(s.vaddr)
  BY <1>1, FloorShift
<1> QED
  BY <1>1, <1>2 DEF Start

\* An image has a segment, and it is the first that is loaded.
LEMMA TypesInit == Init => Types /\ segs[seg] \in Segments
<1> SUFFICES ASSUME Init PROVE Types /\ segs[seg] \in Segments
  OBVIOUS
<1>1. PICK n \in 1..MaxSegments : segs \in [1..n -> Segments]
  BY DEF Init
<1>2. segs \in Seq(Segments) /\ Len(segs) = n /\ 1 \in 1..n /\ n \in Nat
  BY <1>1, ElfLoadAssumption
<1>3. segs[1] \in Segments
  BY <1>1, <1>2
<1>4. mem \in [Addr -> Contents]
  BY DEF Init, Contents
<1>5. vaddr \in Nat
  BY <1>3, AtStart DEF Init
<1> QED
  BY <1>2, <1>3, <1>4, <1>5 DEF Init, Types

\* Every step keeps the types.
LEMMA TypesStep == Types /\ [Next]_vars => Types'
<1> SUFFICES ASSUME Types, [Next]_vars PROVE Types'
  OBVIOUS
<1> DEFINE s == segs[seg]
<1>1. s \in Segments /\ PageSize \in Nat /\ seg \in Nat
  BY ElfLoadAssumption DEF Types
<1>2. CASE KernelMap
  <2>1. mem' \in [Addr -> Contents]
    BY <1>2 DEF KernelMap, ZeroPage, Types, Contents
  <2> QED
    BY <1>1, <1>2, <2>1 DEF KernelMap, Goto, Types
<1>3. CASE UserMap
  <2>1. mem' \in [Addr -> Contents]
    BY <1>3 DEF UserMap, Granted, Types, Contents
  <2> QED
    BY <1>1, <1>3, <2>1 DEF UserMap, Goto, Types
<1>4. CASE AllMapped
  BY <1>4 DEF AllMapped, Goto, Types
<1>5. CASE Copy
  <2>1. ASSUME NEW a \in FileRange(s) PROVE Data(seg, a - s.vaddr) \in Contents
    <3>1. a - s.vaddr \in Nat
      BY <1>1, SegmentFacts, ElfLoadAssumption DEF FileRange, Addr
    <3> QED
      BY <1>1, <3>1, ContentKinds
  <2>2. mem' \in [Addr -> Contents]
    BY <1>5, <2>1 DEF Copy, Types
  <2> QED
    BY <1>5, <2>2 DEF Copy, Goto, Types
<1>6. CASE ZeroBss
  <2>1. mem' \in [Addr -> Contents]
    BY <1>6 DEF ZeroBss, Types, Contents
  <2> QED
    BY <1>6, <2>1 DEF ZeroBss, Goto, Types
<1>7. CASE Fault
  BY <1>7 DEF Fault, Goto, Types
<1>8. CASE NextSegment
  <2>1. seg' \in 1..Len(segs) /\ segs[seg'] \in Segments
    BY <1>8 DEF NextSegment, Types
  <2>2. vaddr' \in Nat
    BY <1>8, <2>1, AtStart DEF NextSegment
  <2> QED
    BY <1>8, <2>1, <2>2 DEF NextSegment, Goto, Types
<1>9. CASE Finish
  BY <1>9 DEF Finish, Goto, Types
<1>10. CASE UNCHANGED vars
  BY <1>10 DEF vars, Types
<1> QED
  BY <1>2, <1>3, <1>4, <1>5, <1>6, <1>7, <1>8, <1>9, <1>10 DEF Next
-----------------------------------------------------------------------------
\* A step of either mapping loop keeps what is behind it and adds the page.
LEMMA LoopStep ==
  ASSUME Types, MapInv, KernelMap \/ UserMap
  PROVE  /\ MapInv'
         /\ \A a \in Addr : Behind(a)' => Behind(a) \/ a \in PageOf(vaddr)
<1> DEFINE s == segs[seg]
<1>1. /\ pc = "map" /\ pc' = "map" /\ vaddr' = vaddr + PageSize
      /\ UNCHANGED <<loader, segs, seg>>
  BY DEF KernelMap, UserMap, Goto
<1>2. /\ s \in Segments /\ vaddr \in Nat /\ PageSize \in Nat /\ PageSize > 0
      /\ Floor(vaddr) \in Nat /\ Floor(s.vaddr) \in Nat
  <2>1. s \in Segments /\ vaddr \in Nat
    BY DEF Types
  <2>2. s.vaddr \in Nat /\ PageSize \in Nat /\ PageSize > 0
    BY <2>1, SegmentFacts
  <2> QED
    BY <2>1, <2>2, FloorFacts, Zenon
<1>3. Floor(vaddr') = Floor(vaddr) + PageSize
  BY <1>1, OnePageOn
<1>4. ASSUME NEW a \in Addr, Behind(a)' PROVE Behind(a) \/ a \in PageOf(vaddr)
  BY <1>1, <1>2, <1>3, <1>4, ElfLoadAssumption DEF Behind, PageOf, Addr
<1>5. ASSUME NEW a \in Addr, a \in PageOf(vaddr) \/ mem[a] # Unmapped PROVE mem'[a] # Unmapped
  BY <1>5, ContentKinds DEF KernelMap, UserMap, ZeroPage, Granted
<1>6. \A a \in Addr : Behind(a)' => mem'[a] # Unmapped
  BY <1>1, <1>4, <1>5 DEF MapInv
<1>7. /\ loader = "kernel" => Floor(vaddr') = vaddr'
      /\ Floor(s.vaddr) <= vaddr'
  BY <1>1, <1>2, <1>3 DEF MapInv
<1> QED
  BY <1>1, <1>4, <1>6, <1>7 DEF MapInv

\* All of the segment is mapped when the kernel's loop ends, and all that the size
\* accounts for when the userland's does.
LEMMA LoopDone ==
  ASSUME Types, MapInv, pc \in {"copy", "bss"}, NEW a \in WholeRange(segs[seg])
  PROVE  /\ loader = "kernel" => Behind(a)
         /\ ~ Behind(a) => (segs[seg].vaddr % PageSize) + segs[seg].memsz
                              > PagesFor(segs[seg].memsz) * PageSize
<1> DEFINE s == segs[seg]
           n == PagesFor(s.memsz) * PageSize
<1>1. /\ s \in Segments /\ vaddr \in Nat /\ PageSize \in Nat /\ PageSize > 0
      /\ s.vaddr \in Nat /\ s.memsz \in Nat /\ s.filesz \in Nat /\ s.filesz <= s.memsz
  BY SegmentFacts DEF Types
<1>2. /\ Floor(vaddr) \in Nat /\ Floor(s.vaddr) \in Nat /\ Floor(s.vaddr) <= s.vaddr
      /\ s.vaddr % PageSize = s.vaddr - Floor(s.vaddr)
  BY <1>1, FloorFacts, Zenon
<1>3. a \in Nat /\ s.vaddr <= a /\ a < s.vaddr + s.memsz
  BY <1>1, ElfLoadAssumption DEF WholeRange, FileRange, BssRange, Addr
<1>4. CASE loader = "kernel"
  <2>1. vaddr >= KernelEnd(s) /\ Floor(vaddr) = vaddr
    BY <1>4 DEF MapInv, End
  <2>2. KernelEnd(s) \in Nat /\ KernelEnd(s) >= s.vaddr + s.memsz
    BY <1>1, KernelEndFacts
  <2> QED
    BY <1>1, <1>2, <1>3, <2>1, <2>2 DEF Behind
<1>5. CASE loader = "user"
  <2>1. vaddr >= UserEnd(s)
    BY <1>5 DEF MapInv, End
  <2>2. UserEnd(s) \in Nat /\ PagesFor(s.memsz) \in Nat /\ Floor(UserEnd(s)) = Floor(s.vaddr) + n
    BY <1>1, UserEndFacts
  <2>3. Floor(s.vaddr) + n <= Floor(vaddr) /\ n \in Nat
    BY <1>1, <2>1, <2>2, FloorOrder
  <2> HIDE DEF n
  <2>4. ~ Behind(a) => (s.vaddr % PageSize) + s.memsz > n
    BY <1>1, <1>2, <1>3, <2>3 DEF Behind
  <2> QED
    BY <1>5, <2>4 DEF n
<1> QED
  BY <1>4, <1>5 DEF Types

\* Nothing is behind the first page.
LEMMA MapInit == Init => MapInv /\ FaultsExplained
<1> SUFFICES ASSUME Init PROVE MapInv
  BY DEF Init, FaultsExplained
<1>1. /\ Floor(vaddr) = Floor(segs[seg].vaddr) /\ Floor(segs[seg].vaddr) <= vaddr
      /\ loader = "kernel" => Floor(vaddr) = vaddr
  BY TypesInit, AtStart DEF Init
<1>2. Floor(vaddr) \in Nat
  BY TypesInit, FloorFacts DEF Types
<1>3. \A a \in Addr : ~ Behind(a)
  BY <1>1, <1>2, ElfLoadAssumption DEF Behind, Addr
<1> QED
  BY <1>1, <1>3 DEF Init, MapInv

\* Every step keeps the pages that are behind, and a fault has its reason.
LEMMA MapStep == Types /\ MapInv /\ FaultsExplained /\ [Next]_vars => MapInv' /\ FaultsExplained'
<1> SUFFICES ASSUME Types, MapInv, FaultsExplained, [Next]_vars
             PROVE  MapInv' /\ FaultsExplained'
  OBVIOUS
<1>1. CASE KernelMap \/ UserMap
  <2>1. pc' = "map"
    BY <1>1 DEF KernelMap, UserMap, Goto
  <2> QED
    BY <1>1, <2>1, LoopStep DEF FaultsExplained
<1>2. CASE AllMapped
  BY <1>2 DEF AllMapped, Goto, MapInv, FaultsExplained, Behind, End, KernelEnd, UserEnd
<1>3. CASE Copy
  <2>1. /\ pc = "copy" /\ UNCHANGED <<loader, segs, seg, vaddr>>
        /\ pc' = IF loader = "kernel" THEN "next" ELSE "bss"
    BY <1>3 DEF Copy, Goto
  <2>2. ASSUME NEW a \in Addr, mem[a] # Unmapped PROVE mem'[a] # Unmapped
    <3>1. a \in FileRange(segs[seg]) => a - segs[seg].vaddr \in Nat /\ seg \in Nat
      BY SegmentFacts, ElfLoadAssumption DEF Types, FileRange, Addr
    <3> QED
      BY <1>3, <2>2, <3>1, ContentKinds DEF Copy
  <2> QED
    BY <2>1, <2>2 DEF Types, MapInv, FaultsExplained, Behind, End
<1>4. CASE ZeroBss
  BY <1>4 DEF ZeroBss, Goto, MapInv, FaultsExplained
<1>5. CASE Fault
  <2>1. pc' = "fault" /\ UNCHANGED <<loader, segs, seg>> /\ pc \in {"copy", "bss"}
    BY <1>5 DEF Fault, Goto
  <2>2. PICK a \in WholeRange(segs[seg]) : mem[a] = Unmapped /\ a \in Addr
    BY <1>5 DEF Fault, Mapped, WholeRange, FileRange, BssRange
  <2>3. ~ Behind(a)
    BY <2>1, <2>2 DEF MapInv
  <2>4. loader = "user" /\ (segs[seg].vaddr % PageSize) + segs[seg].memsz
                              > PagesFor(segs[seg].memsz) * PageSize
    BY <2>1, <2>3, LoopDone DEF Types
  <2> QED
    BY <2>1, <2>4 DEF Types, MapInv, FaultsExplained
<1>6. CASE NextSegment
  <2>1. /\ pc' = "map" /\ seg' \in 1..Len(segs) /\ vaddr' = Start(segs[seg'])
        /\ UNCHANGED <<loader, segs>>
    BY <1>6 DEF NextSegment, Goto, Types
  <2>2. segs[seg'] \in Segments
    BY <2>1 DEF Types
  <2>3. /\ Floor(vaddr') = Floor(segs[seg'].vaddr) /\ Floor(segs[seg'].vaddr) <= vaddr'
        /\ loader = "kernel" => Floor(vaddr') = vaddr'
    BY <2>1, <2>2, AtStart
  <2>4. Floor(vaddr') \in Nat
    BY <2>1, <2>2, AtStart, FloorFacts, Zenon
  <2>5. \A a \in Addr : ~ Behind(a)'
    BY <2>1, <2>3, <2>4, ElfLoadAssumption DEF Behind, Addr
  <2> QED
    BY <2>1, <2>3, <2>5 DEF MapInv, FaultsExplained
<1>7. CASE Finish
  BY <1>7 DEF Finish, Goto, MapInv, FaultsExplained
<1>8. CASE UNCHANGED vars
  BY <1>8 DEF vars, MapInv, FaultsExplained, Behind, End, KernelEnd, UserEnd
<1> QED
  BY <1>1, <1>2, <1>3, <1>4, <1>5, <1>6, <1>7, <1>8 DEF Next
-----------------------------------------------------------------------------
\* A step that leaves the bytes of finished segments alone.
LEMMA LoadedKept ==
  ASSUME Types, FarApart, ImageInv, segs' = segs, NEW i \in 1..Len(segs), Loaded(i),
         \A a \in WholeRange(segs[i]) : mem'[a] = mem[a]
  PROVE  FileRight(i)' /\ BssRight(i)'
<1>1. FileRight(i) /\ BssRight(i)
  BY DEF ImageInv
<1> QED
  BY <1>1 DEF FileRight, BssRight, WholeRange, FileRange, BssRange

\* No segment is finished at first.
LEMMA ImageInit == Init => ImageInv
<1> SUFFICES ASSUME Init PROVE ImageInv
  OBVIOUS
<1>1. Floor(vaddr) = Floor(segs[seg].vaddr) /\ Floor(vaddr) \in Nat
  BY TypesInit, AtStart, FloorFacts, Zenon DEF Init
<1>2. \A a \in Addr : ~ Behind(a)
  BY <1>1, ElfLoadAssumption DEF Behind, Addr
<1>3. \A i \in 1..Len(segs) : ~ Loaded(i)
  BY TypesInit DEF Init, Types, Loaded
<1> QED
  BY <1>2, <1>3 DEF Init, ImageInv

\* Every step keeps what has been loaded.
LEMMA ImageStep == Types /\ MapInv /\ ImageInv /\ [Next]_vars => ImageInv'
<1> SUFFICES ASSUME Types, MapInv, ImageInv, [Next]_vars, FarApart'
             PROVE  ImageInv'
  BY DEF ImageInv
<1> DEFINE s == segs[seg]
<1>1. s \in Segments /\ seg \in 1..Len(segs) /\ Len(segs) \in Nat
  BY DEF Types
<1>2. UNCHANGED <<segs, loader>>
  BY DEF Next, vars, KernelMap, UserMap, AllMapped, Copy, ZeroBss, Fault, NextSegment,
         Finish, Goto
<1>3. FarApart
  BY <1>2 DEF FarApart, PagesOf, WholeRange, FileRange, BssRange, PageOf, Floor, Addr
<1>4. ASSUME NEW i \in 1..Len(segs), i < seg PROVE Loaded(i) /\ i # seg
  BY <1>1, <1>4 DEF Loaded
<1>5. CASE KernelMap
  <2>1. pc = "map" /\ pc' = "map" /\ loader = "kernel" /\ seg' = seg /\ vaddr < KernelEnd(s)
    BY <1>5 DEF KernelMap, Goto, End
  <2>2. PageOf(vaddr) \subseteq PagesOf(s)
    BY <1>1, <2>1, KernelPageInPages DEF Types, MapInv
  <2>3. ASSUME NEW i \in 1..Len(segs), i < seg, NEW a \in WholeRange(segs[i])
        PROVE  mem'[a] = mem[a]
    <3>1. a \notin PageOf(vaddr)
      <4>1. segs[i] \in Segments /\ i # seg
        BY <1>4, <2>3 DEF Types
      <4>2. a \in PagesOf(segs[i])
        BY <4>1, RangeInPages
      <4>3. PagesOf(segs[i]) \cap PagesOf(s) = {}
        BY <1>1, <1>3, <2>1, <4>1, Zenon DEF FarApart
      <4> QED
        BY <2>2, <4>2, <4>3
    <3>2. a \in Addr
      BY DEF WholeRange, FileRange, BssRange
    <3> QED
      BY <1>5, <3>1, <3>2 DEF KernelMap
  <2>4. ASSUME NEW i \in 1..Len(segs), Loaded(i)' PROVE FileRight(i)' /\ BssRight(i)'
    BY <1>2, <1>3, <1>4, <2>1, <2>3, <2>4, LoadedKept DEF Loaded
  <2>5. ASSUME NEW a \in Addr, Behind(a)' PROVE mem'[a] = Zero
    BY <1>3, <1>5, <2>1, <2>5, LoopStep DEF KernelMap, ZeroPage, ImageInv
  <2> QED
    BY <1>2, <2>1, <2>4, <2>5 DEF ImageInv
<1>6. CASE UserMap
  <2>1. pc = "map" /\ pc' = "map" /\ loader = "user" /\ seg' = seg
    BY <1>6 DEF UserMap, Goto
  <2>2. ASSUME NEW i \in 1..Len(segs), i < seg, NEW a \in WholeRange(segs[i])
        PROVE  mem'[a] = mem[a]
    <3>1. a \in Addr /\ (a \in FileRange(segs[i]) \/ a \in BssRange(segs[i]))
      BY DEF WholeRange, FileRange, BssRange
    <3>2. FileRight(i) /\ BssRight(i)
      BY <1>3, <1>4, <2>2 DEF ImageInv
    <3>3. mem[a] # Unmapped
      <4>1. a \in FileRange(segs[i]) => a - segs[i].vaddr \in Nat /\ i \in Nat
        BY SegmentFacts, ElfLoadAssumption DEF Types, FileRange, Addr
      <4> QED
        BY <3>1, <3>2, <4>1, ContentKinds DEF FileRight, BssRight
    <3> QED
      BY <1>6, <3>1, <3>3 DEF UserMap, Granted
  <2>3. ASSUME NEW i \in 1..Len(segs), Loaded(i)' PROVE FileRight(i)' /\ BssRight(i)'
    BY <1>2, <1>3, <1>4, <2>1, <2>2, <2>3, LoadedKept DEF Loaded
  <2> QED
    BY <1>2, <2>1, <2>3 DEF ImageInv
<1>7. CASE AllMapped \/ Fault \/ Finish \/ UNCHANGED vars
  <2>1. UNCHANGED <<mem, seg, vaddr>>
    BY <1>7 DEF AllMapped, Fault, Finish, vars
  <2>2. /\ pc' \in {"next", "done"} => pc \in {"next", "done"}
        /\ pc' \in {"map", "copy"} => pc \in {"map", "copy"}
        /\ pc' = "bss" => pc = "bss"
    BY <1>7 DEF AllMapped, Fault, Finish, Goto, vars
  <2>3. ASSUME NEW i \in 1..Len(segs), Loaded(i)' PROVE FileRight(i)' /\ BssRight(i)'
    <3>1. Loaded(i)
      BY <2>1, <2>2, <2>3 DEF Loaded
    <3> QED
      BY <1>2, <1>3, <2>1, <3>1, LoadedKept
  <2>4. \A a \in Addr : Behind(a)' => Behind(a)
    BY <1>2, <2>1 DEF Behind
  <2>5. FileRight(seg) => FileRight(seg)'
    BY <1>2, <2>1 DEF FileRight
  <2> QED
    BY <1>2, <1>3, <2>1, <2>2, <2>3, <2>4, <2>5 DEF ImageInv
<1>8. CASE Copy
  <2>1. /\ pc = "copy" /\ UNCHANGED <<seg, vaddr>>
        /\ pc' = IF loader = "kernel" THEN "next" ELSE "bss"
        /\ mem' = [a \in Addr |-> IF a \in FileRange(s) THEN Data(seg, a - s.vaddr) ELSE mem[a]]
    BY <1>8 DEF Copy, Goto
  <2>2. ASSUME NEW i \in 1..Len(segs), i < seg PROVE FileRight(i)' /\ BssRight(i)'
    <3>1. ASSUME NEW a \in WholeRange(segs[i]) PROVE mem'[a] = mem[a]
      <4>1. a \notin WholeRange(s) /\ a \in Addr
        BY <1>1, <1>3, <1>4, <2>2, BytesApart DEF WholeRange, FileRange, BssRange
      <4> QED
        BY <2>1, <4>1 DEF WholeRange
    <3> QED
      BY <1>2, <1>3, <1>4, <2>2, <3>1, LoadedKept
  <2>3. FileRight(seg)'
    BY <1>2, <2>1 DEF FileRight, FileRange
  <2>4. ASSUME loader = "kernel", NEW a \in BssRange(s) PROVE mem'[a] = Zero
    <3>1. a \in Addr /\ a \in WholeRange(s) /\ a \notin FileRange(s)
      BY <1>1, SegmentFacts, ElfLoadAssumption DEF WholeRange, FileRange, BssRange, Addr
    <3>2. Behind(a)
      BY <2>1, <2>4, <3>1, LoopDone
    <3>3. mem[a] = Zero
      BY <1>3, <2>1, <2>4, <3>1, <3>2 DEF ImageInv
    <3> QED
      BY <2>1, <3>1, <3>3
  <2>5. loader = "kernel" => BssRight(seg)'
    BY <1>2, <2>1, <2>4 DEF BssRight
  <2>6. ASSUME NEW i \in 1..Len(segs), Loaded(i)' PROVE FileRight(i)' /\ BssRight(i)'
    BY <2>1, <2>2, <2>3, <2>5, <2>6 DEF Loaded
  <2> QED
    BY <1>2, <2>1, <2>3, <2>6 DEF ImageInv
<1>9. CASE ZeroBss
  <2>1. /\ pc = "bss" /\ pc' = "next" /\ UNCHANGED <<seg, vaddr>>
        /\ mem' = [a \in Addr |-> IF a \in BssRange(s) THEN Zero ELSE mem[a]]
    BY <1>9 DEF ZeroBss, Goto, ToZero
  <2>2. ASSUME NEW i \in 1..Len(segs), i < seg PROVE FileRight(i)' /\ BssRight(i)'
    <3>1. ASSUME NEW a \in WholeRange(segs[i]) PROVE mem'[a] = mem[a]
      <4>1. a \notin WholeRange(s) /\ a \in Addr
        BY <1>1, <1>3, <1>4, <2>2, BytesApart DEF WholeRange, FileRange, BssRange
      <4> QED
        BY <2>1, <4>1 DEF WholeRange
    <3> QED
      BY <1>2, <1>3, <1>4, <2>2, <3>1, LoadedKept
  <2>3. BssRight(seg)'
    BY <1>2, <2>1 DEF BssRight, BssRange
  <2>4. FileRight(seg)'
    <3>1. FileRight(seg)
      BY <1>3, <2>1 DEF ImageInv
    <3>2. ASSUME NEW a \in FileRange(s) PROVE a \in Addr /\ a \notin BssRange(s)
      BY <1>1, SegmentFacts, ElfLoadAssumption DEF FileRange, BssRange, Addr
    <3> QED
      BY <1>2, <2>1, <3>1, <3>2 DEF FileRight
  <2>5. ASSUME NEW i \in 1..Len(segs), Loaded(i)' PROVE FileRight(i)' /\ BssRight(i)'
    BY <2>1, <2>2, <2>3, <2>4, <2>5 DEF Loaded
  <2> QED
    BY <1>2, <2>1, <2>5 DEF ImageInv
<1>10. CASE NextSegment
  <2>1. /\ pc = "next" /\ pc' = "map" /\ seg' = seg + 1 /\ mem' = mem
        /\ vaddr' = Start(segs[seg']) /\ seg' \in 1..Len(segs)
    BY <1>10 DEF NextSegment, Goto, Types
  <2>2. ASSUME NEW i \in 1..Len(segs), Loaded(i)' PROVE FileRight(i)' /\ BssRight(i)'
    <3>1. Loaded(i)
      BY <1>1, <2>1, <2>2 DEF Loaded
    <3> QED
      BY <1>2, <1>3, <2>1, <3>1, LoadedKept
  <2>3. segs[seg'] \in Segments
    BY <2>1 DEF Types
  <2>4. Floor(vaddr') = Floor(segs[seg'].vaddr) /\ Floor(vaddr') \in Nat
    BY <2>1, <2>3, AtStart, FloorFacts, Zenon
  <2>5. \A a \in Addr : ~ Behind(a)'
    BY <1>2, <2>4, ElfLoadAssumption DEF Behind, Addr
  <2> QED
    BY <1>2, <2>1, <2>2, <2>5 DEF ImageInv
<1> QED
  BY <1>5, <1>6, <1>7, <1>8, <1>9, <1>10 DEF Next
-----------------------------------------------------------------------------
\* The inductive invariant of both loaders.
ElfInv == Types /\ MapInv /\ FaultsExplained /\ ImageInv

\* It holds in every state of a load.
THEOREM ElfInvariant == Spec => []ElfInv
<1>1. Init => ElfInv
  BY TypesInit, MapInit, ImageInit DEF ElfInv
<1>2. ElfInv /\ [Next]_vars => ElfInv'
  BY TypesStep, MapStep, ImageStep DEF ElfInv
<1> QED
  BY <1>1, <1>2, PTL DEF Spec

\* For every page size, every address space and every image: the kernel's loader
\* never copies to an unmapped page, and the userland's faults only while it
\* loads a segment that needs a page more than its size alone accounts for.
THEOREM FaultsAreExplained == Spec => []FaultsExplained
<1>1. ElfInv => FaultsExplained
  BY DEF ElfInv
<1> QED
  BY <1>1, ElfInvariant, PTL

\* load_and_get_entry leaves every segment as the file has it, provided no page
\* belongs to two of them.
THEOREM KernelLoadsImage == Spec => []KernelImageCorrect
<1>1. ElfInv => KernelImageCorrect
  <2> SUFFICES ASSUME ElfInv, pc = "done", loader = "kernel", Apart(PagesOf)
               PROVE  ImageCorrect
    BY DEF KernelImageCorrect
  <2>1. FarApart
    BY DEF FarApart, Apart
  <2>2. \A i \in 1..Len(segs) : Loaded(i)
    BY DEF ElfInv, Types, MapInv, Loaded
  <2> QED
    BY <2>1, <2>2 DEF ElfInv, ImageInv, ImageCorrect, FileRight, BssRight
<1> QED
  BY <1>1, ElfInvariant, PTL

\* The userland's load does so provided the segments themselves are apart.
THEOREM UserLoadsImage == Spec => []UserImageCorrect
<1>1. ElfInv => UserImageCorrect
  <2> SUFFICES ASSUME ElfInv, pc = "done", loader = "user", Apart(WholeRange)
               PROVE  ImageCorrect
    BY DEF UserImageCorrect
  <2>1. FarApart
    BY DEF FarApart, Apart
  <2>2. \A i \in 1..Len(segs) : Loaded(i)
    BY DEF ElfInv, Types, MapInv, Loaded
  <2> QED
    BY <2>1, <2>2 DEF ElfInv, ImageInv, ImageCorrect, FileRight, BssRight
<1> QED
  BY <1>1, ElfInvariant, PTL
=============================================================================
