----------------------------- MODULE PageGrant -----------------------------
(***************************************************************************)
(* How user memory is mapped: SYS_GRANT_SHARED_MEMORY (memory/shared.rs),  *)
(* SYS_MAP_FRAMEBUFFER (arch/x86_64/syscall.rs) and the map_page they both *)
(* use (memory/mapper.rs), on several cores at once.  Three spinlocks      *)
(* guard the state: CDT the capability tree, MAPPER the one page table of  *)
(* the system, ALLOCATOR the frame allocator.  Page tables and user pages  *)
(* come from the same allocator, taken here as its promise, FrameSource.   *)
(* An address is the number of its page; a call's page and the core's TLB  *)
(* are all the properties need to know of it.                              *)
(***************************************************************************)
EXTENDS Naturals, Sequences

CONSTANTS Cores, NoCore,
          Frames, NoFrame,  \* usable memory
          Framebuffer,      \* the framebuffer's frames, in address order
          Pages,            \* 0..n: the pages user code may name
          SafeLimit,        \* is_safe_user_ptr's bound, as a page number
          Depth,            \* levels of page tables below the root
          Fanout,           \* entries of a page table
          Tokens,           \* the token ids user code may present
          MaxCapabilities,
          Touched,          \* bound: the pages that user code reads or writes
          MaxSyscalls       \* bound: system calls each core makes at most

ASSUME PageGrantAssumption ==
  /\ NoCore \notin Cores /\ NoFrame \notin Frames
  /\ Pages \subseteq Nat /\ Touched \subseteq Pages /\ SafeLimit \in Nat
  /\ Depth \in Nat \ {0} /\ Fanout \in Nat \ {0, 1}
  /\ Tokens \subseteq Nat /\ MaxCapabilities \in Nat \ {0} /\ MaxSyscalls \in [Cores -> Nat]
  /\ Len(Framebuffer) \in Nat /\ DOMAIN Framebuffer = 1..Len(Framebuffer)
  /\ \A i \in DOMAIN Framebuffer : Framebuffer[i] \notin Frames \cup {NoFrame}

\* The pages that a framebuffer mapping reaches from a page can be named too.
ASSUME PagesAssumption ==
  \A p \in Pages : p + Len(Framebuffer) < SafeLimit =>
    \A i \in 1..Len(Framebuffer) : p + i - 1 \in Pages

VARIABLES granted, refused,   \* the frame allocator, see FrameSource
          lock,      \* who holds CDT, MAPPER and ALLOCATOR
          table,     \* the frame behind each page table, or NoFrame
          pte,       \* the frame each page is mapped to, or NoFrame
          tlb,       \* each core's cached translations
          pc,        \* where each core is in a system call
          arg,       \* its locals: token, page, frame, walk level, loop index
          result,    \* what its last call returned
          budget     \* calls it may still make

allocVars == <<granted, refused>>
mapVars == <<table, pte, tlb>>
vars == <<granted, refused, lock, table, pte, tlb, pc, arg, result, budget>>

Source == INSTANCE FrameSource WITH
            Frames <- Frames, granted <- granted, refused <- refused

\* nodes[id] after cdt::init: only the genesis token at index 0 is active.
Node(id) == [active |-> id = 0, owner_pid |-> 0,
             rights |-> IF id = 0 THEN "RIGHT_GOD" ELSE "none"]

\* CDT.validate(pid, token).
Validate(pid, id, rights) ==
  /\ id < MaxCapabilities
  /\ Node(id).active
  /\ Node(id).owner_pid = pid
  /\ Node(id).rights = rights

\* is_safe_user_ptr for n pages from page p.
IsSafeUserPtr(p, n) == p + n < SafeLimit /\ n > 0

\* The page table of level l that the walk to page p goes through.
TableAt(l, p) == <<l, p \div Fanout^l>>
TableIds == {TableAt(l, p) : l \in 1..Depth, p \in Pages}

Locks == {"CDT", "MAPPER", "ALLOCATOR"}
Arg(p, t, f, i) == [page |-> p, token |-> t, frame |-> f, level |-> 0, i |-> i]
NoArg == Arg(0, 0, NoFrame, 0)
-----------------------------------------------------------------------------
Init ==
  /\ Source!SourceInit
  /\ lock = [l \in Locks |-> NoCore]
  /\ table = [t \in TableIds |-> NoFrame]
  /\ pte = [p \in Pages |-> NoFrame]
  /\ tlb = [c \in Cores |-> [p \in Pages |-> NoFrame]]
  /\ pc = [c \in Cores |-> "user"]
  /\ arg = [c \in Cores |-> NoArg]
  /\ result = [c \in Cores |-> [code |-> "none", page |-> 0]]
  /\ budget = MaxSyscalls

\* The core returns to user code: with an error code, a framebuffer
\* description, or the address of page p.
Return(c, code, p) ==
  /\ pc' = [pc EXCEPT ![c] = "user"]
  /\ arg' = [arg EXCEPT ![c] = NoArg]
  /\ result' = [result EXCEPT ![c] = [code |-> code, page |-> p]]

Goto(c, label) == pc' = [pc EXCEPT ![c] = label]

\* A core in user mode makes a system call.
Enter(c) ==
  /\ pc[c] = "user"
  /\ budget[c] > 0
  /\ budget' = [budget EXCEPT ![c] = @ - 1]

\* SYS_GRANT_SHARED_MEMORY: reject the pointer, or go on to lock CDT.
CallGrant(c, p, t) ==
  /\ Enter(c)
  /\ IF IsSafeUserPtr(p, 1)
     THEN /\ Goto(c, "cdt")
          /\ arg' = [arg EXCEPT ![c] = Arg(p, t, NoFrame, 0)]
          /\ UNCHANGED result
     ELSE Return(c, "MAX", 0)
  /\ UNCHANGED <<allocVars, lock, mapVars>>

\* grant_frame takes CDT and validates the token.  A rejected call drops CDT
\* again at once, an accepted one keeps it until it returns.
LockCdt(c) ==
  /\ pc[c] = "cdt"
  /\ lock["CDT"] = NoCore
  /\ IF Validate(0, arg[c].token, "RIGHT_GOD")
     THEN /\ lock' = [lock EXCEPT !["CDT"] = c]
          /\ Goto(c, "alloc")
          /\ UNCHANGED <<arg, result>>
     ELSE Return(c, "zero", 0) /\ UNCHANGED lock
  /\ UNCHANGED <<allocVars, mapVars, budget>>

\* The guard of ALLOCATOR is a temporary of the statement that allocates.
GuardIsKept(c) == [lock EXCEPT !["ALLOCATOR"] = c]
GuardIsDropped(c) == lock

\* grant_frame's frame, taken under ALLOCATOR.
AllocFrame(c) ==
  /\ pc[c] = "alloc"
  /\ lock["ALLOCATOR"] = NoCore
  /\ \E f \in Frames :
       /\ Source!Grant(f)
       /\ arg' = [arg EXCEPT ![c].frame = f]
  /\ lock' = GuardIsDropped(c)
  /\ Goto(c, "mapper")
  /\ UNCHANGED <<mapVars, result, budget>>

\* expect("FATAL: Out of Physical Memory!"): the panic handler halts this
\* core for good, inside the statement that holds ALLOCATOR, and with CDT held.
LocksUnwound(c) == [lock EXCEPT !["CDT"] = NoCore]
LocksOfPanic(c) == [lock EXCEPT !["ALLOCATOR"] = c]

Panic(c) ==
  /\ pc[c] = "alloc"
  /\ lock["ALLOCATOR"] = NoCore
  /\ Source!Refuse
  /\ lock' = LocksOfPanic(c)
  /\ Goto(c, "panic")
  /\ UNCHANGED <<mapVars, arg, result, budget>>
-----------------------------------------------------------------------------
\* map_page takes MAPPER, then ALLOCATOR.
LockMapper(c) ==
  /\ pc[c] = "mapper"
  /\ lock["MAPPER"] = NoCore
  /\ lock' = [lock EXCEPT !["MAPPER"] = c]
  /\ Goto(c, "mapalloc")
  /\ UNCHANGED <<allocVars, mapVars, arg, result, budget>>

\* The walk starts at the root's entry.
TopLevel == Depth

LockAllocator(c) ==
  /\ pc[c] = "mapalloc"
  /\ lock["ALLOCATOR"] = NoCore
  /\ lock' = [lock EXCEPT !["ALLOCATOR"] = c]
  /\ arg' = [arg EXCEPT ![c].level = TopLevel]
  /\ Goto(c, "walk")
  /\ UNCHANGED <<allocVars, mapVars, result, budget>>

\* map_to walks down the page tables of arg's page.
NextTable(c) == TableAt(arg[c].level, arg[c].page)

Descend(c) == arg' = [arg EXCEPT ![c].level = @ - 1]

\* The table of this level is there.
WalkPresent(c) ==
  /\ pc[c] = "walk" /\ arg[c].level > 0
  /\ table[NextTable(c)] # NoFrame
  /\ Descend(c)
  /\ UNCHANGED <<allocVars, lock, mapVars, pc, result, budget>>

\* It is missing: take a frame, zero it and link it.
WalkCreate(c) ==
  /\ pc[c] = "walk" /\ arg[c].level > 0
  /\ table[NextTable(c)] = NoFrame
  /\ \E f \in Frames :
       /\ Source!Grant(f)
       /\ table' = [table EXCEPT ![NextTable(c)] = f]
  /\ Descend(c)
  /\ UNCHANGED <<lock, pte, tlb, pc, result, budget>>

\* No frame is left for it: map_to returns FrameAllocationFailed, and the
\* tables it has linked stay.
WalkFail(c) ==
  /\ pc[c] = "walk" /\ arg[c].level > 0
  /\ table[NextTable(c)] = NoFrame
  /\ Source!Refuse
  /\ Goto(c, "mapped")
  /\ UNCHANGED <<lock, mapVars, arg, result, budget>>

\* map_to on a page that has a mapping returns PageAlreadyMapped.
LeafNeverLinked(p, f) == pte[p]
LeafOverwritten(p, f) == f
LeafAfter(p, f) == IF pte[p] = NoFrame THEN f ELSE pte[p]

\* The last level: link the page, and on success flush this core's TLB entry.
MapLeaf(c) ==
  /\ pc[c] = "walk" /\ arg[c].level = 0
  /\ LET p == arg[c].page IN
     /\ pte' = [pte EXCEPT ![p] = LeafAfter(p, arg[c].frame)]
     /\ tlb' = IF pte[p] = NoFrame THEN [tlb EXCEPT ![c][p] = NoFrame] ELSE tlb
  /\ Goto(c, "mapped")
  /\ UNCHANGED <<allocVars, lock, table, arg, result, budget>>

UnlockKeepsMapper(ls) ==
  lock' = [l \in Locks |-> IF l \in ls \ {"MAPPER"} THEN NoCore ELSE lock[l]]

Unlock(ls) == lock' = [l \in Locks |-> IF l \in ls THEN NoCore ELSE lock[l]]

\* map_page returns to grant_frame, which drops CDT and returns the address
\* it was asked for, whatever map_to said.
GrantReturn(c) ==
  /\ pc[c] = "mapped" /\ arg[c].i = 0
  /\ Unlock(Locks)
  /\ Return(c, "vaddr", arg[c].page)
  /\ UNCHANGED <<allocVars, mapVars, budget>>
-----------------------------------------------------------------------------
\* SYS_MAP_FRAMEBUFFER: 0 without a display, u64::MAX for an unsafe range,
\* otherwise map_page for each page of the framebuffer.  It never locks CDT.
CallMapFramebuffer(c, p) ==
  /\ Enter(c)
  /\ IF Framebuffer = <<>> THEN Return(c, "zero", 0)
     ELSE IF ~IsSafeUserPtr(p, Len(Framebuffer)) THEN Return(c, "MAX", 0)
     ELSE /\ Goto(c, "mapper")
          /\ arg' = [arg EXCEPT ![c] = Arg(p, 0, Framebuffer[1], 1)]
          /\ UNCHANGED result
  /\ UNCHANGED <<allocVars, lock, mapVars>>

\* map_page returns to the framebuffer loop, which maps the next page.
FramebufferNext(c) ==
  /\ pc[c] = "mapped" /\ arg[c].i \in 1..(Len(Framebuffer) - 1)
  /\ Unlock({"MAPPER", "ALLOCATOR"})
  /\ Goto(c, "mapper")
  /\ LET i == arg[c].i + 1 IN
       arg' = [arg EXCEPT ![c] = Arg(arg[c].page + 1, 0, Framebuffer[i], i)]
  /\ UNCHANGED <<allocVars, mapVars, result, budget>>

FramebufferReturn(c) ==
  /\ pc[c] = "mapped" /\ arg[c].i > 0 /\ arg[c].i = Len(Framebuffer)
  /\ Unlock({"MAPPER", "ALLOCATOR"})
  /\ Return(c, "info", 0)
  /\ UNCHANGED <<allocVars, mapVars, budget>>

\* User code touches a mapped page, and the core caches its translation.
Touch(c, p) ==
  /\ pc[c] = "user" /\ p \in Touched
  /\ pte[p] # NoFrame
  /\ tlb[c][p] = NoFrame
  /\ tlb' = [tlb EXCEPT ![c][p] = pte[p]]
  /\ UNCHANGED <<allocVars, lock, table, pte, pc, arg, result, budget>>

Step(c) ==
  \/ LockCdt(c) \/ AllocFrame(c) \/ Panic(c)
  \/ LockMapper(c) \/ LockAllocator(c)
  \/ WalkPresent(c) \/ WalkCreate(c) \/ WalkFail(c) \/ MapLeaf(c)
  \/ GrantReturn(c) \/ FramebufferNext(c) \/ FramebufferReturn(c)

Next ==
  \E c \in Cores :
    \/ Step(c)
    \/ \E p \in Pages : CallMapFramebuffer(c, p) \/ Touch(c, p)
    \/ \E p \in Pages, t \in Tokens : CallGrant(c, p, t)

Spec == Init /\ [][Next]_vars

\* A core inside the kernel runs with interrupts off and keeps running.  Weak
\* fairness of the lock steps is enough: each core makes a bounded number of calls,
\* so that nobody can take a lock over and over.
FairSpec == Spec /\ \A c \in Cores : WF_vars(Step(c))
-----------------------------------------------------------------------------
MappedTo == Frames \cup {NoFrame} \cup {Framebuffer[i] : i \in DOMAIN Framebuffer}

Args == [page : Pages \cup {0}, token : Tokens \cup {0}, frame : MappedTo,
         level : 0..Depth, i : 0..Len(Framebuffer)]

\* The types of the memory system's state.
TypeOK ==
  /\ granted \in Seq(Frames) /\ refused \in BOOLEAN
  /\ lock \in [Locks -> Cores \cup {NoCore}]
  /\ table \in [TableIds -> Frames \cup {NoFrame}]
  /\ pte \in [Pages -> MappedTo]
  /\ tlb \in [Cores -> [Pages -> MappedTo]]
  /\ pc \in [Cores -> {"user", "cdt", "alloc", "mapper", "mapalloc", "walk",
                       "mapped", "panic"}]
  /\ arg \in [Cores -> Args]
  /\ result \in [Cores -> [code : {"none", "zero", "MAX", "info", "vaddr"},
                           page : Pages \cup {0}]]
  /\ budget \in [Cores -> Nat]

\* The places a frame of usable memory can be used in: a page table, a user
\* page, or a grant that is on its way to map_page.
Uses(f) ==
  {<<"table", t>> : t \in {t \in TableIds : table[t] = f}}
  \cup {<<"page", p>> : p \in {p \in Pages : pte[p] = f}}
  \cup {<<"grant", c>> : c \in {c \in Cores :
          arg[c].frame = f /\ pc[c] \in {"mapper", "mapalloc", "walk"}}}

\* No frame of usable memory is in use twice: never mapped at two pages, never
\* both a page table and a user page, never mapped while another core is still
\* about to map it.
OneUsePerFrame ==
  \A f \in Frames : \A u, v \in Uses(f) : u = v

\* map_page flushes only the TLB of the core it runs on, and no other core is
\* told.  That is enough: a cached translation is never out of date, because
\* a page that has a mapping keeps it.
TlbCoherent ==
  \A c \in Cores, p \in Pages : tlb[c][p] # NoFrame => tlb[c][p] = pte[p]

Panicked == \E c \in Cores : pc[c] = "panic"

\* After the out-of-memory panic of grant_frame nothing is allocated or mapped
\* any more on any core: the halted core keeps CDT and ALLOCATOR.
PanicFreezesMemory == [][Panicked => UNCHANGED <<granted, table, pte>>]_vars

\* The locks are taken in the order CDT, MAPPER, ALLOCATOR: a core that waits
\* for one holds none that comes after it, so that cores never wait for each
\* other in a circle.
Rank == [CDT |-> 1, MAPPER |-> 2, ALLOCATOR |-> 3]
WaitsFor(c, l) ==
  \/ pc[c] = "cdt" /\ l = "CDT"
  \/ pc[c] \in {"alloc", "mapalloc"} /\ l = "ALLOCATOR"
  \/ pc[c] = "mapper" /\ l = "MAPPER"
LockOrder ==
  \A c \in Cores, l, k \in Locks : WaitsFor(c, l) /\ lock[k] = c => Rank[k] < Rank[l]

\* What a grant that returns an address has come to.  Its frame is mapped at that
\* address and is in no other use; or the page had a mapping or memory has run out,
\* and then the frame was given out for no use at all.  Only the first is "the
\* virtual address where the frame was mapped, or 0 on failure" (grant_frame).
GrantOutcome ==
  [][\A c \in Cores :
       pc[c] # "user" /\ pc'[c] = "user" /\ result'[c].code = "vaddr" =>
         LET f == arg[c].frame
             p == result'[c].page
         IN  \/ Uses(f) = {<<"page", p>>}
             \/ Uses(f) = {} /\ (pte[p] # NoFrame \/ refused)]_vars

\* Every system call that maps memory returns, unless a core has panicked.
CallsReturn == \A c \in Cores : (pc[c] # "user") ~> (pc[c] = "user" \/ Panicked)
=============================================================================
