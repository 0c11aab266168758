# Stardust in TLA+

Stardust is a small x86-64 operating system in Rust. This directory models its kernel
(`src/stardust`) and its user programs (`src/userland`) in TLA+, checks the models with TLC
on small instances, and proves every safety property of the passing runs for every value
of the constants with TLAPS.
`PROJECT.json` is the machine-readable index: components, runs, mutants, the map from
definitions to source lines, findings, hazards and theorems.

## The system and its parts

* **Boot.** Core 0 initialises memory, the capability tree and the APIC, wakes the other cores
  (`smp.rs`), loads the Marshal (the first process), spawns it as a thread and enters the
  supervisor loop. Other cores with a logical id up to 3 become workers.
* **Memory.** One bump allocator of physical frames (`frame.rs`), one page table for the whole
  system (`mapper.rs`), grants of single pages to user code (`shared.rs`), gated by the
  capability tree (`cdt.rs`). Three spinlocks: CDT, MAPPER, ALLOCATOR.
* **Threads.** A table of 64 slots under a spinlock (`scheduler.rs`). A worker takes a ready
  thread and drops to user mode for good: there is no preemption and no exit.
* **System calls** (`syscall.rs`) run on the calling core with interrupts off. IPC is one
  global mailbox word; core 0 and the interrupt handlers have mailbox words of the same kind.
* **User programs.** The Marshal reads `init.rc`, loads drivers, maps the framebuffer and runs a
  WASM application; the PS/2 driver polls the controller and sends events; the GPU driver
  scans the PCI bus; the test application draws and drags a window.

What interacts: workers share the allocator, page table and thread table with core 0; the PS/2
driver feeds the application through the mailbox; the two drivers use the I/O ports side by
side; the Marshal uses grants and spawn.

## Modules

| Module | Code | State and actions |
|---|---|---|
| `FrameSource` | promise of `frame.rs` | `granted`: the frames given out. `Grant(f)` of a fresh frame; `Refuse` only when none is left |
| `FrameAllocator` | `allocate_frame_raw` | the cursor (`region_index`, `current_addr`), the lock, each core's place in the loop; one action per branch of the loop, one for the panic of a caller that expects a frame |
| `PageGrant` | `grant_frame`, `map_page`, `validate`, `SYS_MAP_FRAMEBUFFER` | the three locks, page tables, leaf entries, each core's TLB; one action per lock taken and per level walked. Uses `FrameSource` as its allocator |
| `Scheduler` | `spawn_thread`, `pop_ready_thread`, `tick`, timer handler, worker loop | the table, the lock, a control point for core 0, each worker and the timer handler; the search, the decision and the write under the lock are separate steps |
| `Smp` | `smp::init`, `ap_main`, `sidt`/`lidt` hand-over | the two atomic counters, `GLOBAL_IDTR` (zero, torn, stored), each core's IDT register and TSS |
| `NewestWins` | promise of a mailbox word | how many messages were posted, which were taken; `Post`, and `Take` of the newest |
| `Supervisor` | core 0's message loop, `broadcast_tlb_shootdown`, the handlers on core 0, `SYS_CHECK_IRQ` | both mailboxes, the MONITOR watch; MONITOR, look, MWAIT, swap, handle, wait for answers, and interrupts between any two |
| `BootCore` | `Smp` followed by `Supervisor` on core 0 | both states; core 0 enters its loop and gets interrupts when boot is over, workers in user mode make the system call |
| `InputPath` | PS/2 driver, IPC calls | device queues, controller buffer, driver registers, mailbox |
| `Desktop` | `InputPath` with the interface of `UiApp` | both states; one step per system call of the driver, one per turn of the interface's loop |
| `GpuDriver` | GPU driver, port and batch calls and their wrappers | the PCI address register, the loops' bus and slot, the log; one action per system call |
| `UiApp` | test application, `draw_rect` | cursor, window, drag state, and the colours of chosen pixels; `draw_rect`'s cut with the widths of its integers |
| `ElfLoad` | both ELF loaders | memory bytes as unmapped, junk, zero or data; one action per page mapped, per copy, per zeroing |
| `UserLayout` | archive parser, the Marshal's boot, the linker scripts | the archive as its files and the places of their headers, the three nested loops, regions granted, drivers spawned; addresses in blocks of 64 KiB |

`MC*` modules give the constants their values; each `.cfg` is one run. The eight `*Proofs`
modules hold the theorems and lemmas. Each module also defines, just
before the operator it alters, the mutated forms that `PROJECT.json` lists: each run's property is
violated by one of them.

Three specifications are implemented by a more detailed one:

* `FrameAllocator` implements `FrameSource` (`ImplementsFrameSource`, checked and proved), and
  `PageGrant` is built on `FrameSource` alone, so that what it shows of frames rests on the
  allocator's promise and not on its cursor.
* `NewestWins` says what a one-word mailbox may lose (an older message, overwritten) and what it
  may not (the newest). Three words of the kernel implement it: `SUPERVISOR_MAILBOX` (with
  liveness; its safety is proved), `IRQ_MAILBOXES[33]` (proved) and `GLOBAL_IPC_MAILBOX` (with
  liveness, in `Desktop`; its safety is proved). The refinement mapping counts the stores and
  numbers the words taken.
* `Desktop` implements `UiApp`, without its pixels (`InterfaceIsUiApp`, proved; TLC would have to
  enumerate all movements at each step). What reaches the interface from the devices is thus
  something that `UiApp` has a step for.

## What the runs check

Passing runs:

* `frame_allocator`: no frame twice; the frames given out are exactly those the cursor has
  passed; refinement; every hold of the lock ends, except that of a caller whose `.expect` panics
  on `None` before the guard is dropped (`grant_frame` and the two loaders). That core is halted
  with the lock and the others may wait for ever: deadlock is not checked. The map has reserved,
  unaligned and too small entries, one starting at 0, and a last frame ending at its region's end.
* `page_grant`: two cores, of which one makes two calls; three frames, so that memory runs out
  also half-way through the two table levels; three pages, two of them in one leaf table (a
  framebuffer page can be mapped without a new frame, also when memory has run out) and one in
  another; a framebuffer of two pages; a valid and an inactive token. User code touches one page,
  the one that every kind of call can map (`Touched`). No frame has two uses, no TLB is stale,
  locks have one order, a grant that answers with an address has mapped its frame there or met an
  old mapping or the end of memory, nothing changes after a panic, calls return. The halted core
  of a panic keeps its locks, so the others may then wait for ever: deadlock is not checked.
* `scheduler`: three workers and four slots, up to four spawns from user code (so the table
  overflows and threads outnumber workers), two ticks. Threads are numbered and dispatched in
  order, run on one core, are dropped only by a full table, and run when a worker is left.
* `boot_core`: two application processors, one of which may work; three posts and two keyboard
  interrupts, enough to fall on each side of every step twice, and timer interrupts anywhere. Ids
  are unique, one core has the TSS, core 0 leaves the barrier when all are online, and it does leave
  it. No message is slept over; `SUPERVISOR_MAILBOX` implements `NewestWins`, and the last word is
  taken even if no interrupt comes. That includes the wait of a TLB shootdown: it ends because the
  mask is empty. With any core in the mask it would not, since the workers' APICs are off. The
  mailbox of the keyboard is empty exactly when the newest interrupt has been seen: the next
  `SYS_CHECK_IRQ` finds one that has not, and none is found twice.
* `desktop`: two keys, three mouse packets (a press on the title bar, a release, in any order) and a
  timeout of two polls, so that the mouse's answer can come in time, late or never, and a shifted
  packet shows. Packets are framed once the answer was seen, a status stays valid until its byte
  is read, the mailbox implements `NewestWins`, a drag does not outlive its button, and all input is
  handled to the end.
* `gpu_driver`: all 256 busses and 32 slots, on an emulator's machine, on one with displays in the
  first and last place and one at function 1, and on an empty one, while the PS/2 driver
  writes to its ports. The log holds exactly the display controllers at function 0, each with its
  device and what is kept of its vendor, and the scan ends.
* `ui_app`: the real screen of 800 by 600, five events, the largest movements both ways and
  none. It takes four to grab and leave the screen. Ten pixels stand for the screen, one for each
  part that may be uncovered. Every rectangle is drawn where it is on the screen and nowhere else,
  also where `FB_WIDTH - x` wraps. An `i32` has 2^12 values here and a `u64` 2^24, within TLC's
  integers: what matters is that a screen is far smaller than the one and that the one divides the
  other (`WidthAssumption`).
* `elf_load`: pages of four bytes, all pairs of segments of zero to five bytes at addresses 0 to 5:
  every combination of alignment, sharing of a page, and overlap. A segment without bytes that
  starts inside a page counts as having that page: the kernel's loader maps and clears it.
* `user_layout`: every `init.rc` of up to three lines of each kind; 14 to 17 drivers, around the
  limit of 15; and archives with files of 0, 1, 511, 512 and 513 bytes that end in their zero
  blocks or inside a file. The parser finds the files that are whole, each where it is; the
  Marshal reaches its own start with every loadable driver spawned; regions do not collide; when a
  driver is spawned, its image is loaded, over nothing but images of earlier drivers, and its
  stack is its own.

Runs that find a violation, each of a sentence in the repository (quoted under `findings`):

* `smp_fpu`: a worker can load the IDT register before core 0 has stored its value, and only
  logical core 1 has a TSS, so a lazy FPU trap may find no handler.
* `elf_load_backing`: libstardust's loader counts a segment's pages from its size alone, and
  copies to a segment that starts inside a page without having requested its last page.
* `user_layout_shipped`: the two drivers are linked for, and loaded at, the same address.

Where a comment says more than the code does, the passing properties say what does hold:

* `HoldEnds`: a hold of ALLOCATOR ends unless its caller panics for want of memory inside it.
* `GrantOutcome`: `grant_frame` is to return "the virtual address where the frame was mapped, or 0
  on failure" (`shared.rs:22`). It returns the address also when the page had a mapping or memory
  ran out on the way; the frame it took is then in no use.
* `ReadyRuns`: a ready thread runs only if some worker is left; the boot message
  (`scheduler.rs:67`) speaks of round robin. Which worker starts the first process is open too;
  `main.rs:86` says core 1.
* `FramedWhenAcked`: mouse packets are framed if the mouse's answer was seen in time. A late answer
  becomes the first byte of a packet and shifts all later ones.
* `ImplementsNewestWins`: the newest event is never lost; an older one that was not read is.
* `DragEndsWithButton`: a release that a movement overwrites is made up for by the movement, which
  carries the button too. A key carries no button: if it overwrites the release and nothing
  follows, the drag goes on. The property excepts that case, and fails without the exception.
* `LogIsRight`: the scan is called "exhaustive" (`gpu_driver/src/main.rs:58`) but looks at
  function 0 of a slot only; a display at another function is not logged. "Report Vendor/Device
  ID" (`:81`): the device is reported whole, the vendor together with 0x9000_0000 in the same
  bits, so that its bits 12 and 15 always read as set. The property asks for what is left.
* `CleanWhileInside`: repaints are clean until the window leaves the screen at the left or top,
  where `draw_rect` drops a rectangle whole.
* `KernelImageCorrect`: the kernel's loader clears a page again when a second segment shares it.
* `FaultsExplained`: libstardust's loader faults while it loads a segment that `elf_load_backing`
  shows, and on no other.
* `LayoutDisjoint`: the sixteenth driver's stack lies in the Marshal's deep stack.
* `SpawnedIsReady`: says what is in place when `SYS_SPAWN_PROCESS` is called. The thread starts
  later, on another core, and the next driver's image may by then be in the place of its own, as
  `user_layout_shipped` shows.

## Fairness

Weak fairness only, of steps that a running core takes by itself. Kernel code runs with interrupts
off on its own core, so an enabled step is taken. A spinlock promises nothing about who gets it
next: no strong fairness of a lock is assumed. Liveness across locks therefore holds in
`PageGrant` because each core makes a bounded number of calls. In `Scheduler` only `ReadyRuns` is
claimed: idle workers that poll can overtake core 0's first spawn forever, which is a hazard of
the unfair lock and is listed as one. In `BootCore` each core executes its own code, and nothing
is assumed of interrupts: the post itself must wake core 0. In `Desktop` driver and interface poll
on cores of their own and the controller hands over what it has; devices owe nothing, not even the
mouse its answer. In `GpuDriver` and `UserLayout` the one core in question keeps running.

## What is proved

For every value of the constants that the modules' `ASSUME`s allow:

* `FrameAllocatorProofs`: `TypeCorrect`, `CursorInvariance`, `FramesUnique`, `Refinement`.
  `NoDoubleAllocation` is not inductive: it says nothing of where the cursor is. `CursorInv`
  adds that only the lock's holder is in a call, that the cursor lies in the region it
  names, that what the holder computed is still true when it writes, and that the frames given
  are exactly the frames passed. A frame about to be taken is not passed, hence fresh. When
  the loop ends, all frames are passed, hence `None` is right, which gives the refinement. It
  rests on `AlignUp` lemmas and on usable entries being disjoint, which the boot protocol
  promises.
* `PageGrantProofs`: `MemoryInvariance` and from it `FramesUsedOnce`, `TlbNeverStale`,
  `LocksOrdered`, `GrantHasOutcome`, `PanicFreezes`. None of these is inductive alone. The
  invariant `IInv` ties each lock to the control points of its holder (`LockInv`), says what a
  call's locals are at each of them (`ArgInv`), that every frame in a table, in a leaf entry or in
  flight between allocation and mapping was given out and that no two of these share one
  (`UsedGiven`, `Apart`), and that a finished `map_page` has left its frame in the page's entry,
  or in no use because another was there or memory ran out (`MappedInv`). The steps of entry and
  `grant_frame` come first, then those of `map_page`. A panic freezes memory because the halted
  core keeps ALLOCATOR, which `LockInv` says every writer of the page tables must hold.
* `SchedulerProofs`: `SchedulerInvariance` and from it `SchedulerTypes`, `ThreadsDense`,
  `ThreadsOnOneCore`, `SpawnOrder`, `NoTimerSelfDeadlock`, `SpawnsKept`. The inductive invariant
  adds to the properties who may hold the lock at which control point, that interrupts are off
  until core 0 is done with its spawn, and that what the holder found in its search is still so
  when it writes. `SpawnsAreKept` speaks of moments when no call is under way; `SpawnsCounted`
  says at every moment that the table holds as many threads as calls have returned, up to its
  size, where the calls under way are counted as the cardinality of a set.
* `BootCoreProofs`: `SmpInvariance` and from it `IdsUnique`, `BarrierHolds`, `TssOwnerUnique`, for
  any finite set of processors. The invariant adds that ids lie below the counter, that
  `AP_READY_COUNT` is the cardinality of the set of cores that have signalled, and that the TSS's
  owner is the core with id 1. Of core 0's loop, for any number of posts and interrupts:
  `NoLostWakeup`, `SupervisorKeepsNewest`, `IrqKeepsNewest`. `NoSleepOverMessage` is inductive as
  it stands, since every store ends the watch. The refinements of `NewestWins` need that an empty
  mailbox means the newest message was taken, and a full one holds the newest message, not taken
  yet. `BootIsBoth` says that the composition of `BootCore` is a behaviour of `Smp` and of
  `Supervisor`, so that all of these hold of it.
* `DesktopProofs`: `StatusHolds`, `PacketsStayFramed`, `DragEnds` from `DesktopInvariant`, for
  every set of scancodes and reports, every number of them and every timeout. The invariant looks
  at the mouse's bytes still to be read as one sequence, controller buffer and queue together:
  they are in the order the mouse sends them in, and the answer comes first (`StreamInv`); a
  driver that saw the answer has its `mouse_cycle` where that sequence is (`InStep`); and once the
  sequence is empty the newest event, in the driver, in the mailbox or already handled, tells the
  button (`NewestInv`). `MailboxKeepsNewest` is the safety part of `NewestWins` for
  `GLOBAL_IPC_MAILBOX`. `InterfaceIsUiApp` is the refinement of `UiApp`: a word in the mailbox is
  a mouse event or a scancode's (`WordInv`), and three bytes of the mouse, or a key, weigh as much
  as one event, which bounds the events (`CountInv`, `TakenInv`).
* `UiAppProofs`: `DragIsExact`, `WritesStayInFramebuffer`, `RepaintIsClean`, for every framebuffer
  larger than the cursor, every set of pixels and every sequence of events. The first is inductive
  with the types, which bound how far a window can be dragged. So nothing is drawn further than
  `WidthAssumption` allows, and the conversions of the cut, remainders by two powers of which one
  divides the other, come out as a plain difference (`Conversions`, `CutIsExact`); what
  `draw_rect` draws is then what lies in the rectangle and on the screen (`DrawIsExact`). For the
  last, what a list of rectangles leaves of a pixel is the colour of the last rectangle over it;
  drawing two lists one after the other is drawing their concatenation; the erasing rectangles
  cover all that the old scene covered; so they restore the bare desktop, and `CleanOnBare` is
  kept.
* `ElfLoadProofs`: `FaultsAreExplained`, `KernelLoadsImage`, `UserLoadsImage`, for every page size
  and every list of segments. `MapInv` says that all of the segment's pages behind the next one
  are mapped, and that a loader leaves its mapping loop only past the end it computed; lemmas
  about rounding to pages relate that end to the segment's bytes. `ImageInv` says that segments
  loaded before are still intact, given that no two share a page (kernel) or a byte (libstardust).
* `UserlandProofs`, on the Marshal's boot: `MarshalInvariance` and from it `ParserIsRight`,
  `SpawnedReady`, `RegionsDisjoint`, for every well-formed archive, every `init.rc` and any number
  of drivers. `ParseInv` says that the table holds the first files of the archive, and that the
  parser is at the header of the next one, or past the end because that one is cut off. A step
  keeps it because the eleven octal digits of a header are read back as the size they were written
  for (`SizeIsRead`, digit by digit, without induction), and because rounding up to 512 leads to
  the next header and to no other (`NextHeader`). `SpawnInv` says which image and stack each
  driver has been granted, also the one being loaded. `RegionInv` says what every region can be;
  each kind lies in a zone of its own between two of the fixed addresses (`Zones`), so that only
  earlier images can be under a new one (`ImageApart`), and within the stacks' zone the sixteenth
  stack is the first to meet the deep stack.
* `UserlandProofs`, on the GPU driver: `ScanInvariance` and `ReportIsRight`, for every finite set
  of PCI functions. `LogIsRight` says nothing of the registers, so `ScanInv` adds that the address
  register still names the slot when its data is read, although the PS/2 driver writes to ports in
  between (`AddressHeld`); that from the vendor's read on the driver holds the vendor and device
  of the function that is there (`Identified`); and that the log is the beginning of the right
  one, as long as the displays in front of this slot ask for: one entry and two for each of them.
  That the reported word tells the display is a lemma about the bits (`PayloadTells`). A display
  is known by the number of displays up to it (`DisplayNumber`), which makes the next entry the
  right one.

Only model-checked: the liveness properties (`HoldEnds`, `CallsReturn`, `ReadyRuns`,
`BootCompletes`, `InputSettles`, `ScanEnds`, `MarshalStarts`, and the liveness part of
`ImplementsNewestWins`). Fairness and `ENABLED` are beyond the prover. That `Scheduler`'s idle
workers and `PageGrant`'s bounded calls make progress is thus known for the instances above only.

## Assumptions and abstractions

* Physical addresses are far below 2^64, so that the allocator's sums do not wrap.
* `map_to` is the x86_64 crate's, modelled from its use; parents that are huge pages are not.
* `PageGrant` counts addresses in pages; `Depth` and `Fanout` are small, the real ones 3 and 512.
* `Scheduler.Fault` ends a worker as the handlers do; `Smp` shows when the handler is not reached.
* Nothing in the repository posts to the supervisor's mailbox or calls `SYS_CHECK_IRQ`. Both are
  interfaces the kernel offers; posts and calls are external actions. A message carries its
  number in the model, also where the code stores a constant 1.
* `Desktop` receives and handles a message in one step: the interface works on its own locals.
* A 32-bit word is a pair of 16-bit halves in `GpuDriver`, since TLC's integers are signed.
* An archive is well-formed: headers at multiples of 512 bytes, each in the first place after the
  data before it, two zero blocks at the end, names that are not empty, sizes that fit in eleven
  octal digits; any number of bytes may be missing at the end. Of a header the name and the digits
  of the size matter.
* There is room (`RoomAssumption`): the Marshal's image ends before 0x800000, the drivers' images
  lie between there and the shared page at 0x4000_0000, the framebuffer ends before the heap.
* PCI functions have distinct addresses, and 0xFFFF is no vendor.
* `FrameAllocator` takes a caller with `.expect` to make one call under its hold, as the code does.
* `BootCore` has no floating point in user code: what comes of it `smp_fpu` shows in `Smp` alone.
* The pointer check of the batch call (`syscall.rs:112`) always passes in `GpuDriver`, whose
  buffer is the driver's own. `UserLayout` takes the images of drivers to be loadable without a
  fault.
* `UiApp` takes a framebuffer to be present, and to be wider and higher than the cursor's ten
  pixels.
* No scancode is 0xFA: a keyboard sends it only in answer to a command, and gets none.
* An ELF segment has at least as many bytes in memory as in the file.

## Not modelled

Serial output and boot probes, which no state depends on; table encodings, register saving and
MSRs, which are hardware formats; the IOMMU stub; the register context and the hash of a file's
name, which nothing uses; the shootdown's handler, which no core can reach; `is_safe_user_ptr`
beyond its comparison of pages; the WASM engine (external); the heap allocators (thin wrappers of
an external one); the drivers' byte-copying routines (`memcpy`, `memmove`, `memcmp`), which hold
no state; the build script.
