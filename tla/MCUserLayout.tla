---------------------------- MODULE MCUserLayout ----------------------------
EXTENDS UserLayout, SequencesExt

\* Both drivers' linker scripts start at 0x800000.
Elf(name, size) == [name |-> name, size |-> size, lines |-> <<>>, base |-> 128, blocks |-> 1]
Plain(name, size, lines) ==
  [name |-> name, size |-> size, lines |-> lines, base |-> 0, blocks |-> 0]

Driver(f) == [kind |-> "driver", name |-> f]
AppLine(f) == [kind |-> "app", name |-> f]
MCLines == {Driver("ps2_hid"), Driver("gpu_driver"), Driver("missing"), Driver("init.rc"),
            AppLine("test_app.wasm"), AppLine("missing"), [kind |-> "other", name |-> ""]}

\* The least multiple of 512 from n on.
Aligned(n) == CHOOSE m \in n..(n + 511) : m % 512 = 0
Pack(files, cut) ==
  [files |-> files,
   at |-> [k \in 1..Len(files) + 1 |->
             FoldLeft(LAMBDA n, f : Aligned(n + 512 + f.size), 0, SubSeq(files, 1, k - 1))],
   missing |-> cut]

\* The repository's own files, with an init.rc of these lines.
Shipped(lines) ==
  Pack(<<Plain("init.rc", 60, lines), Plain("test_app.wasm", 1500, <<>>),
         Elf("ps2_hid", 1024), Elf("gpu_driver", 513)>>, 0)

\* Files of sizes around a block and an empty one, a driver that is there twice,
\* and an archive cut off in its zero blocks or in its last file.
MCOdd ==
  {Pack(<<Plain("notes", m, <<>>), Plain("init.rc", n, <<Driver("ps2_hid")>>),
          Elf("ps2_hid", 512), Elf("ps2_hid", k)>>, cut) :
     m \in {0, 1, 511, 512, 513}, n \in {15, 512, 513}, k \in {511, 512, 513},
     cut \in {0, 512, 1024, 1025, 1536}}

\* Short init.rc files of every kind of line, and up to 17 drivers.
MCArchives ==
  {Shipped(lines) : lines \in SeqOf(MCLines, 3)
                           \cup {[i \in 1..n |-> Driver("ps2_hid")] : n \in 14..17}}
    \cup MCOdd

\* What the Orchestrator writes: the app, then the two drivers in either order.
MCShipped ==
  {Shipped(<<AppLine("test_app.wasm"), Driver(f), Driver(g)>>) :
     <<f, g>> \in {<<"ps2_hid", "gpu_driver">>, <<"gpu_driver", "ps2_hid">>}}
=============================================================================
