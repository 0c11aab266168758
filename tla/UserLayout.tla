----------------------------- MODULE UserLayout -----------------------------
(***************************************************************************)
(* Who gets which part of the one user address space: what the kernel's    *)
(* loader leaves behind (stardust/src/task/loader.rs), then the Marshal    *)
(* (userland/marshal), which sets up its heap, parses its archive          *)
(* (libs/libstardust/src/tar.rs), loads the drivers of init.rc one by one  *)
(* while the earlier ones already run, and takes the framebuffer and a     *)
(* deep stack.  Addresses are in blocks of 64 KiB, the archive in bytes.   *)
(***************************************************************************)
EXTENDS Naturals, Sequences, FiniteSets

CONSTANTS Archives,      \* the archives considered
          MarshalBlocks, \* the extent of the Marshal's image
          FbBlocks       \* the extent of the framebuffer; 0 if there is none

\* A file: its name and size, what is in it if it is an init.rc, and where it loads
\* and how much if it is an ELF file (no blocks if it is none).
Line == [kind : {"driver", "app", "other"}, name : STRING]
File == [name : STRING, size : Nat, lines : Seq(Line), base : Nat, blocks : Nat]

\* An archive has each file's header at a multiple of 512 bytes, its data behind it,
\* and the next header, or else the two zero blocks that end the archive, in the
\* first place after that.  Bytes may be missing at the end.
Archive == [files : Seq(File), at : Seq(Nat), missing : Nat]
WellFormed(a) ==
  /\ Len(a.at) = Len(a.files) + 1 /\ a.at[1] = 0
  /\ \A k \in 1..Len(a.at) : a.at[k] % 512 = 0
  /\ \A k \in 1..Len(a.files) :
       LET data_end == a.at[k] + 512 + a.files[k].size
       IN  data_end <= a.at[k + 1] /\ a.at[k + 1] < data_end + 512
  /\ a.missing <= a.at[Len(a.at)] + 1024

\* A header holds a file's name, and its size as 11 octal digits.
Place == <<1073741824, 134217728, 16777216, 2097152, 262144, 32768, 4096, 512, 64, 8, 1>>
Octal(n) == [i \in 1..11 |-> (n \div Place[i]) % 8]
FitsHeader(f) == f.name # "" /\ f.size \div Place[1] < 8

ASSUME UserLayoutAssumption ==
  /\ FbBlocks \in Nat /\ MarshalBlocks \in Nat
  /\ Archives \subseteq Archive
  /\ \A a \in Archives :
       WellFormed(a) /\ \A k \in 1..Len(a.files) : FitsHeader(a.files[k])

VARIABLES archive,
          offset, object_table,    \* tar::parse
          object, line, drv_obj,   \* the places of the three nested loops
          pc,
          current_stack_base,
          regions,       \* what has been granted, and to whom
          spawned,       \* the drivers spawned, in order
          wasm           \* WASM_DATA_PTR: where the app's data starts; 0 if none

parser == <<offset, object_table>>
loops == <<object, line, drv_obj>>
layout == <<current_stack_base, regions, spawned, wasm>>
vars == <<archive, parser, loops, pc, layout>>
-----------------------------------------------------------------------------
\* What the parser reads at an offset: the header of a file, a zero block, or data
\* that it takes for a header.
IsFile(o) == \E k \in 1..Len(archive.files) : archive.at[k] = o
FileAt(o) == CHOOSE k \in 1..Len(archive.files) : archive.at[k] = o
FilesEnd == archive.at[Len(archive.at)]
Length == FilesEnd + 1024 - archive.missing

NameAt(o) ==
  IF IsFile(o) THEN archive.files[FileAt(o)].name ELSE IF o >= FilesEnd THEN "" ELSE "data"
DigitsAt(o) == IF IsFile(o) THEN Octal(archive.files[FileAt(o)].size) ELSE [i \in 1..11 |-> 8]

Region(who, lo, n) == [who |-> who, lo |-> lo, hi |-> lo + n]

\* Where things are.
MarshalImage == Region(<<"image of marshal">>, 64, MarshalBlocks)   \* 0x400000
FirstStack == Region(<<"first stack of marshal">>, 2147483645, 2)   \* below 0x7FFF_FFFF_0000
Heap == Region(<<"heap of marshal">>, 1073741824, 256)              \* 0x4000_0000_0000
SharedPage == Region(<<"shared page">>, 16384, 1)                   \* 0x4000_0000
Framebuffer == Region(<<"framebuffer">>, 45056, FbBlocks)           \* 0xB000_0000
StackBase == 1610612736                                         \* 0x6000_0000_0000
DeepStack == Region(<<"deep stack of marshal">>, StackBase + 240, 256)

DriverImage(n, f) == Region(<<"image", n, f.name>>, f.base, f.blocks)
DriverStack(n, base) == Region(<<"stack", n>>, base, 1)         \* 16 pages

\* There is room for the images and the framebuffer: the Marshal's image ends before
\* 0x800000, where the drivers' start, and these before the shared page.
DriverBase == 128
ImageFits(f) == DriverBase <= f.base /\ f.base + f.blocks <= SharedPage.lo

ASSUME RoomAssumption ==
  /\ MarshalImage.hi <= DriverBase /\ Framebuffer.hi <= Heap.lo
  /\ \A a \in Archives : \A k \in 1..Len(a.files) :
       a.files[k].blocks > 0 => ImageFits(a.files[k])

\* The kernel's loader has mapped the Marshal and its first stack, 32 pages.
Init ==
  /\ archive \in Archives
  /\ offset = 0 /\ object_table = <<>>
  /\ object = 1 /\ line = 1 /\ drv_obj = 1
  /\ pc = "heap"
  /\ current_stack_base = StackBase
  /\ regions = {MarshalImage, FirstStack}
  /\ spawned = <<>>
  /\ wasm = 0

InitHeap ==
  /\ pc = "heap"
  /\ regions' = regions \cup {Heap}
  /\ pc' = "parse"
  /\ UNCHANGED <<archive, parser, loops, current_stack_base, spawned, wasm>>
-----------------------------------------------------------------------------
\* tar::parse, one header at a time.  The size is read digit by digit; a character
\* that is no octal digit does not count.
Digit(n, b) == IF b \in 0..7 THEN n * 8 + b ELSE n
First5(d) == Digit(Digit(Digit(Digit(Digit(0, d[1]), d[2]), d[3]), d[4]), d[5])
SizeOf(d) == Digit(Digit(Digit(Digit(Digit(Digit(First5(d),
               d[6]), d[7]), d[8]), d[9]), d[10]), d[11])

UnpaddedSize(size) == size
PaddedSize(size) == ((size + 511) \div 512) * 512

AtHeader == offset + 512 <= Length /\ NameAt(offset) # ""

ParseEntry ==
  /\ pc = "parse" /\ AtHeader
  /\ LET data_start == offset + 512
         size == SizeOf(DigitsAt(offset))
     IN  /\ object_table' = IF data_start + size <= Length
                            THEN Append(object_table, [name |-> NameAt(offset),
                                                       start |-> data_start, len |-> size])
                            ELSE object_table
         /\ offset' = data_start + PaddedSize(size)
  /\ UNCHANGED <<archive, loops, pc, layout>>

ParseEnd ==
  /\ pc = "parse" /\ ~ AtHeader
  /\ pc' = "object"
  /\ UNCHANGED <<archive, parser, loops, layout>>
-----------------------------------------------------------------------------
\* What the bytes of an object are: its file, whose header precedes them.
Content(o) == archive.files[FileAt(o.start - 512)]

\* The objects named init.rc are read line by line.
NextObject ==
  /\ pc = "object" /\ object <= Len(object_table)
  /\ IF object_table[object].name = "init.rc"
     THEN pc' = "line" /\ line' = 1 /\ object' = object
     ELSE pc' = pc /\ line' = line /\ object' = object + 1
  /\ UNCHANGED <<archive, parser, drv_obj, layout>>

Lines == Content(object_table[object]).lines

MoreThanOneLine == line < Len(Lines)
MoreLines == line <= Len(Lines)

EndOfLines ==
  /\ pc = "line" /\ ~ MoreLines
  /\ pc' = "object" /\ object' = object + 1
  /\ UNCHANGED <<archive, parser, line, drv_obj, layout>>

\* Lines that name neither a driver nor an app are skipped.
NextLine ==
  /\ pc = "line" /\ MoreLines
  /\ IF Lines[line].kind = "other"
     THEN line' = line + 1 /\ UNCHANGED <<pc, drv_obj>>
     ELSE pc' = "match" /\ drv_obj' = 1 /\ line' = line
  /\ UNCHANGED <<archive, parser, object, layout>>

\* Every object of the name on the line is taken.
Candidate == object_table[drv_obj]
Named == drv_obj <= Len(object_table) /\ Candidate.name = Lines[line].name
IsElf == Content(Candidate).blocks > 0

LoadDriver ==
  /\ pc = "match" /\ Named /\ Lines[line].kind = "driver" /\ IsElf
  /\ regions' = regions \cup {DriverImage(Len(spawned) + 1, Content(Candidate))}
  /\ pc' = "stack"
  /\ UNCHANGED <<archive, parser, loops, current_stack_base, spawned, wasm>>

NoStack == {}
Stack == {DriverStack(Len(spawned) + 1, current_stack_base)}

GrantStack ==
  /\ pc = "stack"
  /\ regions' = regions \cup Stack
  /\ pc' = "spawn"
  /\ UNCHANGED <<archive, parser, loops, current_stack_base, spawned, wasm>>

\* The next driver's stack is 1 MiB further on.
StepForgotten(base) == base
Step(base) == base + 16

Spawn ==
  /\ pc = "spawn"
  /\ spawned' = Append(spawned, [file |-> Content(Candidate), sp |-> current_stack_base + 1])
  /\ current_stack_base' = Step(current_stack_base)
  /\ drv_obj' = drv_obj + 1
  /\ pc' = "match"
  /\ UNCHANGED <<archive, parser, object, line, regions, wasm>>

App ==
  /\ pc = "match" /\ Named /\ Lines[line].kind = "app"
  /\ wasm' = Candidate.start
  /\ drv_obj' = drv_obj + 1
  /\ UNCHANGED <<archive, parser, object, line, pc, current_stack_base, regions, spawned>>

\* An object of another name, and a driver that is no ELF file.
SkipObject ==
  /\ pc = "match" /\ drv_obj <= Len(object_table)
  /\ ~ Named \/ (Lines[line].kind = "driver" /\ ~ IsElf)
  /\ drv_obj' = drv_obj + 1
  /\ UNCHANGED <<archive, parser, object, line, pc, layout>>

EndOfObjects ==
  /\ pc = "match" /\ drv_obj > Len(object_table)
  /\ line' = line + 1 /\ pc' = "line"
  /\ UNCHANGED <<archive, parser, object, drv_obj, layout>>

\* The shared page, and the framebuffer if the bootloader reports one.
MapDevices ==
  /\ pc = "object" /\ object > Len(object_table)
  /\ regions' = regions \cup {SharedPage}
                        \cup (IF FbBlocks > 0 THEN {Framebuffer} ELSE {})
  /\ pc' = "deep"
  /\ UNCHANGED <<archive, parser, loops, current_stack_base, spawned, wasm>>

\* The deep stack, on which the WASM engine then runs.
SwitchStack ==
  /\ pc = "deep"
  /\ regions' = regions \cup {DeepStack}
  /\ pc' = "wasm"
  /\ UNCHANGED <<archive, parser, loops, current_stack_base, spawned, wasm>>

Next ==
  \/ InitHeap \/ ParseEntry \/ ParseEnd \/ NextObject \/ EndOfLines \/ NextLine
  \/ LoadDriver \/ GrantStack \/ Spawn \/ App \/ SkipObject \/ EndOfObjects
  \/ MapDevices \/ SwitchStack

Spec == Init /\ [][Next]_vars

\* The Marshal's core keeps executing it.
FairSpec == Spec /\ WF_vars(Next)
-----------------------------------------------------------------------------
\* The object that the k-th file of the archive is.
Entry(k) ==
  [name |-> archive.files[k].name, start |-> archive.at[k] + 512, len |-> archive.files[k].size]

\* The parser finds the files of the archive, in their order and with their own
\* bytes, whatever their sizes, and all of those that end within the archive; a
\* file cut off at its end is left out.
TableIsArchive ==
  pc \notin {"heap", "parse"} =>
    /\ \A k \in 1..Len(object_table) : object_table[k] = Entry(k)
    /\ \A k \in 1..Len(archive.files) :
         k <= Len(object_table) <=> Entry(k).start + Entry(k).len <= Length

Overlap(r, s) == r.lo < s.hi /\ s.lo < r.hi
IsImage(r) == r.who[1] = "image"

\* Apart from the drivers' images, whose place the linker chose, no two regions
\* of the address space collide, as long as at most 15 drivers are started: the
\* sixteenth driver's stack is the bottom of the Marshal's deep stack.
LayoutDisjoint ==
  Len(spawned) <= 15 =>
    \A r, s \in regions : r # s /\ ~ (IsImage(r) /\ IsImage(s)) => ~ Overlap(r, s)

\* When SYS_SPAWN_PROCESS is called for a driver, its image is in memory as it was
\* loaded, written over by nothing, and the stack it gets has been granted, apart
\* from those of the drivers before it.  The thread starts later, and the image of
\* the next driver may then be in the place of its own.
SpawnedIsReady ==
  [][spawned' # spawned =>
       LET n == Len(spawned) + 1
           image == DriverImage(n, spawned'[n].file)
           stack == DriverStack(n, spawned'[n].sp - 1)
       IN  /\ image \in regions /\ stack \in regions
           /\ \A r \in regions \ {image} :
                Overlap(r, image) => IsImage(r) /\ r.who[2] < n
           /\ \A i \in 1..Len(spawned) :
                ~ Overlap(DriverStack(i, spawned[i].sp - 1), stack)]_vars

\* The Marshal gets to the WASM engine, whatever loadable files are in archive and
\* init.rc, with one driver spawned for every line and object that name one.
InitRcs == {i \in DOMAIN object_table : object_table[i].name = "init.rc"}
LineOf(w) == Content(object_table[w[1]]).lines[w[2]]
Wanted ==
  {w \in UNION {{i} \X (DOMAIN Content(object_table[i]).lines)
                     \X (DOMAIN object_table) : i \in InitRcs} :
     /\ LineOf(w) = [kind |-> "driver", name |-> object_table[w[3]].name]
     /\ Content(object_table[w[3]]).blocks > 0}
MarshalStarts == <>(pc = "wasm" /\ Len(spawned) = Cardinality(Wanted))

\* "Dynamically offsets the memory layout for every Native Driver found, ensuring
\* zero collisions forever" (marshal).
ZeroCollisions == \A r, s \in regions : r # s => ~ Overlap(r, s)
=============================================================================
