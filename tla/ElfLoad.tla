------------------------------ MODULE ElfLoad ------------------------------
(***************************************************************************)
(* The two ELF loaders: the kernel's, for the first process                *)
(* (stardust/src/task/elf.rs), and the userland's, for drivers             *)
(* (userland/libs/libstardust/src/elf.rs).  The address space is a short   *)
(* run of bytes.  Addresses are the ones after the kernel's relocation,    *)
(* which moves a whole image by a multiple of the page size.               *)
(***************************************************************************)
EXTENDS Naturals, Sequences

CONSTANTS PageSize,
          MaxAddr,       \* the address space is 0..MaxAddr - 1
          Segments,      \* the loadable segments an image may have
          MaxSegments    \* bound: segments of an image

ASSUME ElfLoadAssumption ==
  /\ PageSize \in Nat \ {0} /\ MaxAddr \in Nat /\ MaxSegments \in Nat
  /\ \A s \in Segments :
       /\ s.vaddr \in Nat /\ s.filesz \in Nat /\ s.memsz \in Nat
       /\ s.filesz <= s.memsz
       /\ s.vaddr + s.memsz + PageSize <= MaxAddr

VARIABLES loader,        \* "kernel" or "user"
          segs,          \* the image's PT_LOAD segments, in program header order
          seg,           \* the one being loaded
          vaddr,         \* the next address to map
          mem,           \* what each address holds
          pc

vars == <<loader, segs, seg, vaddr, mem, pc>>

Addr == 0..(MaxAddr - 1)
Floor(a) == (a \div PageSize) * PageSize
PageOf(a) == Floor(a)..(Floor(a) + PageSize - 1)
PagesFor(n) == (n + PageSize - 1) \div PageSize

\* Contents: nothing is mapped, a fresh frame's old contents, zero, or byte k of
\* segment i's data in the file.
Unmapped == <<"unmapped">>
Junk == <<"junk">>
Zero == <<"zero">>
Data(i, k) == <<"data", i, k>>

\* Where the loops over the pages of a segment start and end.
Start(s) == IF loader = "kernel" THEN Floor(s.vaddr) ELSE s.vaddr

KernelEndRoundsDown(s) == Floor(s.vaddr + s.memsz)
KernelEnd(s) == Floor(s.vaddr + s.memsz + PageSize - 1)
UserEnd(s) == s.vaddr + PagesFor(s.memsz) * PageSize
End(s) == IF loader = "kernel" THEN KernelEnd(s) ELSE UserEnd(s)

Init ==
  /\ loader \in {"kernel", "user"}
  /\ segs \in UNION {[1..n -> Segments] : n \in 1..MaxSegments}
  /\ seg = 1
  /\ vaddr = Start(segs[1])
  /\ mem = [a \in Addr |-> Unmapped]
  /\ pc = "map"

Goto(label) == pc' = label /\ UNCHANGED <<loader, segs>>

\* The kernel maps the page (or fails to, if it is mapped already) and zeroes it.
NoZeroing(c) == IF c = Unmapped THEN Junk ELSE c
ZeroPage(c) == Zero

KernelMap ==
  /\ loader = "kernel" /\ pc = "map" /\ vaddr < End(segs[seg])
  /\ mem' = [a \in Addr |-> IF a \in PageOf(vaddr) THEN ZeroPage(mem[a]) ELSE mem[a]]
  /\ vaddr' = vaddr + PageSize
  /\ Goto("map")
  /\ UNCHANGED seg

\* The userland asks for the page that holds the address; a page that is mapped
\* already stays as it is, and the result is ignored.
Granted(c) == IF c = Unmapped THEN Junk ELSE c

UserMap ==
  /\ loader = "user" /\ pc = "map" /\ vaddr < End(segs[seg])
  /\ mem' = [a \in Addr |-> IF a \in PageOf(vaddr) THEN Granted(mem[a]) ELSE mem[a]]
  /\ vaddr' = vaddr + PageSize
  /\ Goto("map")
  /\ UNCHANGED seg

AllMapped ==
  /\ pc = "map" /\ vaddr >= End(segs[seg])
  /\ Goto("copy")
  /\ UNCHANGED <<seg, vaddr, mem>>

FileRange(s) == {a \in Addr : s.vaddr <= a /\ a < s.vaddr + s.filesz}
BssRange(s) == {a \in Addr : s.vaddr + s.filesz <= a /\ a < s.vaddr + s.memsz}
Mapped(range) == \A a \in range : mem[a] # Unmapped

\* copy_nonoverlapping; a write to an unmapped page faults and halts the core.
Copy ==
  LET s == segs[seg] IN
  /\ pc = "copy" /\ Mapped(FileRange(s))
  /\ mem' = [a \in Addr |-> IF a \in FileRange(s) THEN Data(seg, a - s.vaddr) ELSE mem[a]]
  /\ Goto(IF loader = "kernel" THEN "next" ELSE "bss")
  /\ UNCHANGED <<seg, vaddr>>

\* The userland zeroes the rest of the segment; the kernel has zeroed its pages.
WholeRange(s) == FileRange(s) \cup BssRange(s)
ToZero(s) == BssRange(s)

ZeroBss ==
  LET s == segs[seg] IN
  /\ pc = "bss" /\ Mapped(BssRange(s))
  /\ mem' = [a \in Addr |-> IF a \in ToZero(s) THEN Zero ELSE mem[a]]
  /\ Goto("next")
  /\ UNCHANGED <<seg, vaddr>>

Fault ==
  LET s == segs[seg] IN
  /\ \/ pc = "copy" /\ ~ Mapped(FileRange(s))
     \/ pc = "bss" /\ ~ Mapped(BssRange(s))
  /\ Goto("fault")
  /\ UNCHANGED <<seg, vaddr, mem>>

NextSegment ==
  /\ pc = "next" /\ seg < Len(segs)
  /\ seg' = seg + 1
  /\ vaddr' = Start(segs[seg'])
  /\ Goto("map")
  /\ UNCHANGED mem

Finish ==
  /\ pc = "next" /\ seg = Len(segs)
  /\ Goto("done")
  /\ UNCHANGED <<seg, vaddr, mem>>

Next == KernelMap \/ UserMap \/ AllMapped \/ Copy \/ ZeroBss \/ Fault \/ NextSegment
        \/ Finish

Spec == Init /\ [][Next]_vars
-----------------------------------------------------------------------------
PagesOf(s) == UNION {PageOf(a) : a \in {s.vaddr} \cup WholeRange(s)}
Apart(S(_)) == \A i, j \in 1..Len(segs) : i # j => S(segs[i]) \cap S(segs[j]) = {}

\* What the ELF format asks for: the file's bytes, then zeroes.
ImageCorrect ==
  \A i \in 1..Len(segs) :
    /\ \A a \in FileRange(segs[i]) : mem[a] = Data(i, a - segs[i].vaddr)
    /\ \A a \in BssRange(segs[i]) : mem[a] = Zero

\* The kernel's loader leaves every segment as the file has it, provided no page
\* belongs to two segments, an empty one included: it zeroes a shared page after
\* its first use.
KernelImageCorrect ==
  pc = "done" /\ loader = "kernel" /\ Apart(PagesOf) => ImageCorrect

\* The userland's loader needs only that the segments themselves are apart.
UserImageCorrect ==
  pc = "done" /\ loader = "user" /\ Apart(WholeRange) => ImageCorrect

\* The kernel's loader always maps what it copies to; the userland's faults only
\* while it loads a segment that starts inside a page and ends in a page its size
\* alone does not account for.
FaultsExplained ==
  pc = "fault" =>
    LET s == segs[seg] IN
    /\ loader = "user"
    /\ (s.vaddr % PageSize) + s.memsz > PagesFor(s.memsz) * PageSize

\* "Uses system calls to request physical backing for the segments' virtual address
\* ranges" (libstardust/src/elf.rs): a segment's whole range is mapped before its
\* bytes are copied.
SegmentIsBacked == pc = "copy" => Mapped(WholeRange(segs[seg]))
=============================================================================
