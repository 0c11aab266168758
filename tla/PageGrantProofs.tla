-------------------------- MODULE PageGrantProofs ---------------------------
(***************************************************************************)
(* The theorems about PageGrant, for every number of cores, frames and     *)
(* pages, every depth of the page tables and every framebuffer: first the  *)
(* inductive invariant, then the steps of the system call entry and of     *)
(* grant_frame, the steps of map_page and its callers' returns, and last   *)
(* the theorems.                                                           *)
(***************************************************************************)
EXTENDS PageGrant, TLAPS

\* Who holds which spinlock: a core's position in the code tells.
HoldsCdt(c) ==
  /\ pc[c] \in {"alloc", "mapper", "mapalloc", "walk", "mapped", "panic"}
  /\ arg[c].i = 0
LockInv ==
  \A c \in Cores :
    /\ lock["CDT"] = c <=> HoldsCdt(c)
    /\ lock["MAPPER"] = c <=> pc[c] \in {"mapalloc", "walk", "mapped"}
    /\ lock["ALLOCATOR"] = c <=> pc[c] \in {"walk", "mapped", "panic"}

\* The locals of a system call: a page that can be named, a frame from
\* map_page on, and in the framebuffer loop the i-th frame and page.
InMapPage(c) == pc[c] \in {"mapper", "mapalloc", "walk", "mapped"}
FromSafeStart(c) ==
  \E start \in Pages : /\ start + Len(Framebuffer) < SafeLimit
                       /\ arg[c].page = start + arg[c].i - 1
ArgInv ==
  \A c \in Cores :
    /\ pc[c] # "user" => arg[c].page \in Pages
    /\ pc[c] \in {"cdt", "alloc", "panic"} => arg[c].i = 0
    /\ InMapPage(c) => arg[c].frame # NoFrame
    /\ InMapPage(c) /\ arg[c].i = 0 => arg[c].frame \in Frames
    /\ pc[c] # "user" /\ arg[c].i > 0 => FromSafeStart(c) /\ arg[c].frame \notin Frames

\* Every frame in use was given out, and no two uses share one.
InFlight(c) == pc[c] \in {"mapper", "mapalloc", "walk"} /\ arg[c].frame \in Frames
UsedGiven ==
  /\ \A t \in TableIds : table[t] # NoFrame => table[t] \in Source!Given
  /\ \A p \in Pages : pte[p] \in Frames => pte[p] \in Source!Given
  /\ \A c \in Cores : InFlight(c) => arg[c].frame \in Source!Given
Apart ==
  /\ \A s, t \in TableIds : table[s] # NoFrame /\ table[s] = table[t] => s = t
  /\ \A p, q \in Pages : pte[p] \in Frames /\ pte[p] = pte[q] => p = q
  /\ \A c, d \in Cores : InFlight(c) /\ InFlight(d) /\ arg[c].frame = arg[d].frame => c = d
  /\ \A t \in TableIds, p \in Pages : table[t] # NoFrame => table[t] # pte[p]
  /\ \A t \in TableIds, c \in Cores : InFlight(c) => table[t] # arg[c].frame
  /\ \A p \in Pages, c \in Cores : InFlight(c) => pte[p] # arg[c].frame

\* A finished map_page has mapped its frame, or else found a mapping or no memory;
\* then no place has the frame.
InNoUse(f) ==
  f \in Frames =>
    /\ \A t \in TableIds : table[t] # f
    /\ \A p \in Pages : pte[p] # f
    /\ \A c \in Cores : InFlight(c) => arg[c].frame # f
MappedInv ==
  \A c \in Cores : pc[c] = "mapped" =>
    \/ pte[arg[c].page] = arg[c].frame
    \/ InNoUse(arg[c].frame) /\ (pte[arg[c].page] # NoFrame \/ refused)

IInv == TypeOK /\ LockInv /\ ArgInv /\ UsedGiven /\ Apart /\ MappedInv /\ TlbCoherent
-----------------------------------------------------------------------------
\* What a page can be mapped to: a frame of memory, or one of the framebuffer,
\* which is not memory of the allocator.
LEMMA MappedToFacts ==
  /\ Frames \subseteq MappedTo /\ NoFrame \in MappedTo
  /\ NoFrame \notin Frames
  /\ Len(Framebuffer) \in Nat
  /\ \A i \in 1..Len(Framebuffer) :
       Framebuffer[i] \in MappedTo /\ Framebuffer[i] \notin Frames /\ Framebuffer[i] # NoFrame
BY PageGrantAssumption DEF MappedTo

\* allocate_frame hands out a frame nobody was given.
LEMMA GrantAdds ==
  ASSUME granted \in Seq(Frames), NEW f \in Frames, Source!Grant(f)
  PROVE  /\ granted' \in Seq(Frames) /\ refused' = refused
         /\ f \notin Source!Given
         /\ (Source!Given)' = Source!Given \cup {f}
<1>1. granted' = Append(granted, f) /\ f \notin Source!Given /\ refused' = refused
  BY DEF Source!Grant
<1>2. granted' \in Seq(Frames)
  BY <1>1
<1>3. /\ Len(granted') = Len(granted) + 1 /\ Len(granted) \in Nat
      /\ DOMAIN granted = 1..Len(granted) /\ DOMAIN granted' = 1..(Len(granted) + 1)
      /\ \A i \in 1..Len(granted) : granted'[i] = granted[i]
      /\ granted'[Len(granted) + 1] = f
  BY <1>1
<1>4. ASSUME NEW x PROVE x \in (Source!Given)' <=> x \in Source!Given \cup {f}
  <2>1. ASSUME x \in (Source!Given)' PROVE x \in Source!Given \cup {f}
    <3>1. PICK i \in 1..(Len(granted) + 1) : x = granted'[i]
      BY <1>3, <2>1 DEF Source!Given
    <3> QED
      BY <1>3, <3>1 DEF Source!Given
  <2>2. ASSUME x \in Source!Given PROVE x \in (Source!Given)'
    <3>1. PICK i \in 1..Len(granted) : x = granted[i]
      BY <1>3, <2>2 DEF Source!Given
    <3>2. i \in 1..(Len(granted) + 1) /\ x = granted'[i]
      BY <1>3, <3>1
    <3> QED
      BY <1>3, <3>2 DEF Source!Given
  <2>3. f \in (Source!Given)'
    <3>1. Len(granted) + 1 \in 1..(Len(granted) + 1)
      BY <1>3
    <3> QED
      BY <1>3, <3>1 DEF Source!Given
  <2> QED
    BY <2>1, <2>2, <2>3
<1> QED
  BY <1>1, <1>2, <1>4

\* A step that leaves the page tables alone and puts no new frame of memory in
\* flight keeps every frame's uses apart.
LEMMA UsesKept ==
  ASSUME UsedGiven, Apart, UNCHANGED <<granted, table, pte>>,
         \A c \in Cores : InFlight(c)' => InFlight(c) /\ arg'[c].frame = arg[c].frame
  PROVE  UsedGiven' /\ Apart'
<1>1. (Source!Given)' = Source!Given
  BY DEF Source!Given
<1>2. UsedGiven'
  BY <1>1 DEF UsedGiven
<1>3. Apart'
  BY DEF Apart
<1> QED
  BY <1>2, <1>3

\* Nor does it change what the finished calls of map_page have come to.
LEMMA MappedKept ==
  ASSUME MappedInv, UNCHANGED <<table, pte>>, refused => refused',
         \A c \in Cores : InFlight(c)' => InFlight(c) /\ arg'[c].frame = arg[c].frame,
         \A c \in Cores : pc'[c] = "mapped" =>
           pc[c] = "mapped" /\ arg'[c].page = arg[c].page /\ arg'[c].frame = arg[c].frame
  PROVE  MappedInv'
<1>1. \A f : InNoUse(f) => InNoUse(f)'
  BY DEF InNoUse
<1> QED
  BY <1>1 DEF MappedInv
-----------------------------------------------------------------------------

\* The page of the framebuffer loop's next round.
LEMMA NextPage ==
  ASSUME NEW start \in Nat, NEW i \in Nat, NEW p, p = start + i - 1
  PROVE  p + 1 = start + (i + 1) - 1
OBVIOUS

\* A step of core c that changes no other core's locals, and only takes free
\* locks or drops its own, leaves the other cores' locks as they were.
LEMMA OthersKeepLocks ==
  ASSUME LockInv, NEW c \in Cores,
         \A d \in Cores \ {c} : pc'[d] = pc[d] /\ arg'[d] = arg[d],
         /\ lock'["CDT"] = c <=> HoldsCdt(c)'
         /\ lock'["MAPPER"] = c <=> pc'[c] \in {"mapalloc", "walk", "mapped"}
         /\ lock'["ALLOCATOR"] = c <=> pc'[c] \in {"walk", "mapped", "panic"},
         \A l \in Locks : lock'[l] = lock[l] \/ {lock[l], lock'[l]} \subseteq {c, NoCore}
  PROVE  LockInv'
<1>1. ASSUME NEW d \in Cores \ {c}, NEW l \in Locks
      PROVE  lock'[l] = d <=> lock[l] = d
  BY <1>1, PageGrantAssumption
<1>2. ASSUME NEW d \in Cores \ {c}
      PROVE  HoldsCdt(d)' <=> HoldsCdt(d)
  BY <1>2 DEF HoldsCdt
<1> QED
  BY <1>1, <1>2 DEF LockInv, Locks

\* A call that is rejected, before it holds any lock.
LEMMA RejectStep ==
  ASSUME IInv, NEW c \in Cores, pc[c] \in {"user", "cdt"},
         NEW code \in {"zero", "MAX"}, Return(c, code, 0),
         UNCHANGED <<granted, refused, lock, table, pte, tlb>>, budget' \in [Cores -> Nat]
  PROVE  IInv'
<1> USE DEF IInv, Return
<1>1. TypeOK'
  <2>1. NoArg \in Args
    BY MappedToFacts, PageGrantAssumption DEF NoArg, Arg, Args
  <2>2. arg' \in [Cores -> Args] /\ result' \in [Cores -> [code : {"none", "zero", "MAX", "info", "vaddr"}, page : Pages \cup {0}]]
    BY <2>1 DEF TypeOK
  <2> QED
    BY <2>2 DEF TypeOK
<1>2. LockInv'
  BY DEF TypeOK, NoArg, Arg, LockInv, HoldsCdt
<1>3. ArgInv'
  BY DEF TypeOK, ArgInv, InMapPage, FromSafeStart
<1>4. \A d \in Cores : InFlight(d)' => InFlight(d) /\ arg'[d].frame = arg[d].frame
  BY DEF TypeOK, InFlight
<1>5. UsedGiven' /\ Apart'
  BY <1>4, UsesKept
<1>6. MappedInv'
  <2>1. \A d \in Cores : pc'[d] = "mapped" =>
          pc[d] = "mapped" /\ arg'[d].page = arg[d].page /\ arg'[d].frame = arg[d].frame
    BY DEF TypeOK, Args
  <2> QED
    BY <1>4, <2>1, MappedKept
<1>7. TlbCoherent'
  BY DEF TlbCoherent
<1> QED
  BY <1>1, <1>2, <1>3, <1>5, <1>6, <1>7

\* A call that is accepted: it goes to the lock it needs first, with its page
\* and, in the framebuffer's loop, the framebuffer's first frame.
LEMMA AcceptStep ==
  ASSUME IInv, NEW c \in Cores, pc[c] = "user",
         NEW p \in Pages, NEW a \in Args, a.page = p,
         \/ a.i = 0 /\ Goto(c, "cdt")
         \/ /\ a.i = 1 /\ Goto(c, "mapper")
            /\ p + Len(Framebuffer) < SafeLimit
            /\ a.frame \notin Frames /\ a.frame # NoFrame,
         arg' = [arg EXCEPT ![c] = a],
         UNCHANGED <<granted, refused, lock, table, pte, tlb, result>>,
         budget' \in [Cores -> Nat]
  PROVE  IInv'
<1> USE DEF IInv, Goto
<1>1. TypeOK'
  BY Zenon DEF TypeOK
<1>2. LockInv'
  <2>1. \A d \in Cores \ {c} : pc'[d] = pc[d] /\ arg'[d] = arg[d]
    BY DEF TypeOK
  <2>2. ~HoldsCdt(c) /\ ~HoldsCdt(c)'
    BY DEF TypeOK, HoldsCdt
  <2>3. pc[c] = "user" /\ pc'[c] \in {"cdt", "mapper"}
    BY DEF TypeOK
  <2> QED
    BY <2>1, <2>2, <2>3 DEF LockInv, HoldsCdt
<1>3. ArgInv'
  <2>1. \A d \in Cores \ {c} : pc'[d] = pc[d] /\ arg'[d] = arg[d]
    BY DEF TypeOK
  <2>2. arg'[c] = a /\ pc'[c] \in {"cdt", "mapper"}
    BY DEF TypeOK
  <2>3. a.i = 1 => FromSafeStart(c)'
    BY <2>2, PageGrantAssumption DEF FromSafeStart
  <2> QED
    BY <2>1, <2>2, <2>3 DEF TypeOK, ArgInv, InMapPage, FromSafeStart
<1>4. \A d \in Cores : InFlight(d)' => InFlight(d) /\ arg'[d].frame = arg[d].frame
  BY DEF TypeOK, InFlight
<1>5. UsedGiven' /\ Apart'
  BY <1>4, UsesKept
<1>6. MappedInv'
  <2>1. \A d \in Cores : pc'[d] = "mapped" =>
          pc[d] = "mapped" /\ arg'[d].page = arg[d].page /\ arg'[d].frame = arg[d].frame
    BY DEF TypeOK, Args
  <2> QED
    BY <1>4, <2>1, MappedKept
<1>7. TlbCoherent'
  BY DEF TlbCoherent
<1> QED
  BY <1>1, <1>2, <1>3, <1>5, <1>6, <1>7

\* A system call enters grant_frame or is rejected.
LEMMA CallGrantStep ==
  ASSUME IInv, NEW c \in Cores, NEW p \in Pages, NEW t \in Tokens, CallGrant(c, p, t)
  PROVE  IInv'
<1> USE DEF CallGrant, allocVars, mapVars
<1>1. pc[c] = "user" /\ budget' \in [Cores -> Nat]
  BY DEF Enter, IInv, TypeOK
<1>2. CASE IsSafeUserPtr(p, 1)
  <2> DEFINE a == Arg(p, t, NoFrame, 0)
  <2>1. a \in Args /\ a.page = p /\ a.i = 0
    BY MappedToFacts, PageGrantAssumption DEF Arg, Args
  <2>2. Goto(c, "cdt") /\ arg' = [arg EXCEPT ![c] = a]
    BY <1>2
  <2>3. UNCHANGED <<granted, refused, lock, table, pte, tlb, result>>
    BY <1>2
  <2> HIDE DEF a
  <2> QED
    BY <1>1, <2>1, <2>2, <2>3, AcceptStep, Zenon
<1>3. CASE ~IsSafeUserPtr(p, 1)
  BY <1>1, <1>3, RejectStep
<1> QED
  BY <1>2, <1>3

\* SYS_MAP_FRAMEBUFFER begins with the first page, or is rejected.
LEMMA CallMapFramebufferStep ==
  ASSUME IInv, NEW c \in Cores, NEW p \in Pages, CallMapFramebuffer(c, p)
  PROVE  IInv'
<1> USE DEF CallMapFramebuffer, allocVars, mapVars
<1>1. pc[c] = "user" /\ budget' \in [Cores -> Nat]
  BY DEF Enter, IInv, TypeOK
<1>2. CASE Framebuffer # <<>> /\ IsSafeUserPtr(p, Len(Framebuffer))
  <2> DEFINE a == Arg(p, 0, Framebuffer[1], 1)
  <2>1. p + Len(Framebuffer) < SafeLimit /\ 1 \in 1..Len(Framebuffer)
    BY <1>2, MappedToFacts DEF IsSafeUserPtr
  <2>2. a \in Args /\ a.page = p /\ a.i = 1 /\ a.frame \notin Frames /\ a.frame # NoFrame
    BY <2>1, MappedToFacts, PageGrantAssumption DEF Arg, Args
  <2>3. Goto(c, "mapper") /\ arg' = [arg EXCEPT ![c] = a]
    BY <1>2
  <2>4. UNCHANGED <<granted, refused, lock, table, pte, tlb, result>>
    BY <1>2
  <2> HIDE DEF a
  <2> QED
    BY <1>1, <2>1, <2>2, <2>3, <2>4, AcceptStep, Zenon
<1>3. CASE Framebuffer = <<>>
  BY <1>1, <1>3, RejectStep
<1>4. CASE Framebuffer # <<>> /\ ~IsSafeUserPtr(p, Len(Framebuffer))
  BY <1>1, <1>4, RejectStep
<1> QED
  BY <1>2, <1>3, <1>4

\* grant_frame takes CDT and keeps it if the token is valid.
LEMMA LockCdtStep ==
  ASSUME IInv, NEW c \in Cores, LockCdt(c)
  PROVE  IInv'
<1> USE DEF LockCdt, allocVars, mapVars
<1>1. CASE ~Validate(0, arg[c].token, "RIGHT_GOD")
  <2>1. budget' \in [Cores -> Nat]
    BY DEF IInv, TypeOK
  <2> QED
    BY <1>1, <2>1, RejectStep
<1>2. CASE Validate(0, arg[c].token, "RIGHT_GOD")
  <2> USE <1>2 DEF IInv, Goto
  <2>1. TypeOK'
    <3>1. lock' \in [Locks -> Cores \cup {NoCore}] /\ UNCHANGED <<arg, result>>
      BY Zenon DEF TypeOK
    <3> QED
      BY <3>1, Zenon DEF TypeOK
  <2>2. LockInv'
    <3>1. /\ lock'["CDT"] = c /\ lock["CDT"] = NoCore /\ c # NoCore
          /\ lock'["MAPPER"] = lock["MAPPER"] /\ lock'["ALLOCATOR"] = lock["ALLOCATOR"]
      BY PageGrantAssumption DEF TypeOK, Locks
    <3>2. /\ pc'[c] = "alloc" /\ arg' = arg /\ arg[c].i = 0 /\ pc[c] = "cdt"
          /\ \A d \in Cores \ {c} : pc'[d] = pc[d]
      BY DEF TypeOK, ArgInv
    <3>3. LockInv /\ lock["MAPPER"] # c /\ lock["ALLOCATOR"] # c
      BY <3>2 DEF LockInv
    <3> HIDE DEF IInv, LockCdt
    <3>4. NoCore \notin Cores
      BY PageGrantAssumption
    <3> QED
      BY <3>1, <3>2, <3>3, <3>4 DEF LockInv, HoldsCdt
  <2>3. ArgInv'
    BY DEF TypeOK, ArgInv, InMapPage, FromSafeStart
  <2>4. \A d \in Cores : InFlight(d)' => InFlight(d) /\ arg'[d].frame = arg[d].frame
    BY DEF TypeOK, InFlight
  <2>5. UsedGiven' /\ Apart'
    BY <2>4, UsesKept
  <2>6. \A d \in Cores : pc'[d] = "mapped" =>
          pc[d] = "mapped" /\ arg'[d].page = arg[d].page /\ arg'[d].frame = arg[d].frame
    BY DEF TypeOK
  <2>7. MappedInv' /\ TlbCoherent'
    BY <2>4, <2>6, MappedKept DEF TlbCoherent
  <2> QED
    BY <2>1, <2>2, <2>3, <2>5, <2>7
<1> QED
  BY <1>1, <1>2

\* The out-of-memory panic keeps CDT and ALLOCATOR.
LEMMA PanicStep ==
  ASSUME IInv, NEW c \in Cores, Panic(c)
  PROVE  IInv'
<1> USE DEF IInv, Panic, LocksOfPanic, Source!Refuse, Return, Goto, allocVars, mapVars
<1>1. TypeOK'
  BY MappedToFacts, PageGrantAssumption, Zenon DEF TypeOK, Args, NoArg, Arg
<1>2. LockInv'
  <2>1. \A d \in Cores \ {c} : pc'[d] = pc[d] /\ arg'[d] = arg[d]
    BY DEF TypeOK
  <2>2. /\ lock'["CDT"] = c <=> HoldsCdt(c)'
        /\ lock'["MAPPER"] = c <=> pc'[c] \in {"mapalloc", "walk", "mapped"}
        /\ lock'["ALLOCATOR"] = c <=> pc'[c] \in {"walk", "mapped", "panic"}
    BY PageGrantAssumption DEF TypeOK, Args, NoArg, Arg, ArgInv, LockInv, HoldsCdt, Locks
  <2>3. \A l \in Locks : lock'[l] = lock[l] \/ {lock[l], lock'[l]} \subseteq {c, NoCore}
    BY PageGrantAssumption DEF TypeOK, ArgInv, LockInv, HoldsCdt, Locks
  <2> HIDE DEF IInv
  <2> QED
    BY <2>1, <2>2, <2>3, OthersKeepLocks DEF IInv
<1>3. ArgInv'
  BY MappedToFacts DEF TypeOK, Args, NoArg, Arg, ArgInv, InMapPage, FromSafeStart
<1>4. \A d \in Cores : InFlight(d)' => InFlight(d) /\ arg'[d].frame = arg[d].frame
  BY MappedToFacts DEF TypeOK, Args, NoArg, Arg, InFlight
<1>5. UsedGiven' /\ Apart'
  BY <1>4, UsesKept
<1>6. MappedInv'
  <2>1. \A d \in Cores : pc'[d] = "mapped" =>
          pc[d] = "mapped" /\ arg'[d].page = arg[d].page /\ arg'[d].frame = arg[d].frame
    BY DEF TypeOK, Args
  <2> QED
    BY <1>4, <2>1, MappedKept
<1>7. TlbCoherent'
  BY DEF TypeOK, TlbCoherent
<1> QED
  BY <1>1, <1>2, <1>3, <1>5, <1>6, <1>7
-----------------------------------------------------------------------------
\* map_page takes MAPPER.
LEMMA LockMapperStep ==
  ASSUME IInv, NEW c \in Cores, LockMapper(c)
  PROVE  IInv'
<1> USE DEF IInv, LockMapper, Return, Goto, allocVars, mapVars
<1>1. TypeOK'
  BY MappedToFacts, PageGrantAssumption, Zenon DEF TypeOK, Args, NoArg, Arg
<1>2. LockInv'
  <2>1. \A d \in Cores \ {c} : pc'[d] = pc[d] /\ arg'[d] = arg[d]
    BY DEF TypeOK
  <2>2. /\ lock'["CDT"] = c <=> HoldsCdt(c)'
        /\ lock'["MAPPER"] = c <=> pc'[c] \in {"mapalloc", "walk", "mapped"}
        /\ lock'["ALLOCATOR"] = c <=> pc'[c] \in {"walk", "mapped", "panic"}
    BY PageGrantAssumption DEF TypeOK, Args, NoArg, Arg, ArgInv, LockInv, HoldsCdt, Locks
  <2>3. \A l \in Locks : lock'[l] = lock[l] \/ {lock[l], lock'[l]} \subseteq {c, NoCore}
    BY PageGrantAssumption DEF TypeOK, ArgInv, LockInv, HoldsCdt, Locks
  <2> HIDE DEF IInv
  <2> QED
    BY <2>1, <2>2, <2>3, OthersKeepLocks DEF IInv
<1>3. ArgInv'
  BY MappedToFacts DEF TypeOK, Args, NoArg, Arg, ArgInv, InMapPage, FromSafeStart
<1>4. \A d \in Cores : InFlight(d)' => InFlight(d) /\ arg'[d].frame = arg[d].frame
  BY MappedToFacts DEF TypeOK, Args, NoArg, Arg, InFlight
<1>5. UsedGiven' /\ Apart'
  BY <1>4, UsesKept
<1>6. MappedInv'
  <2>1. \A d \in Cores : pc'[d] = "mapped" =>
          pc[d] = "mapped" /\ arg'[d].page = arg[d].page /\ arg'[d].frame = arg[d].frame
    BY DEF TypeOK, Args
  <2> QED
    BY <1>4, <2>1, MappedKept
<1>7. TlbCoherent'
  BY DEF TypeOK, TlbCoherent
<1> QED
  BY <1>1, <1>2, <1>3, <1>5, <1>6, <1>7

\* map_page takes ALLOCATOR.
LEMMA LockAllocatorStep ==
  ASSUME IInv, NEW c \in Cores, LockAllocator(c)
  PROVE  IInv'
<1> USE DEF IInv, LockAllocator, TopLevel, Return, Goto, allocVars, mapVars
<1>1. TypeOK'
  <2>1. arg[c] \in Args /\ Depth \in 0..Depth
    BY PageGrantAssumption DEF TypeOK
  <2>2. [arg[c] EXCEPT !.level = Depth] \in Args
    BY <2>1 DEF Args
  <2> QED
    BY <2>2 DEF TypeOK, Locks
<1>2. LockInv'
  <2>1. \A d \in Cores \ {c} : pc'[d] = pc[d] /\ arg'[d] = arg[d]
    BY DEF TypeOK
  <2>2. /\ lock'["CDT"] = c <=> HoldsCdt(c)'
        /\ lock'["MAPPER"] = c <=> pc'[c] \in {"mapalloc", "walk", "mapped"}
        /\ lock'["ALLOCATOR"] = c <=> pc'[c] \in {"walk", "mapped", "panic"}
    BY PageGrantAssumption DEF TypeOK, Args, NoArg, Arg, ArgInv, LockInv, HoldsCdt, Locks
  <2>3. \A l \in Locks : lock'[l] = lock[l] \/ {lock[l], lock'[l]} \subseteq {c, NoCore}
    BY PageGrantAssumption DEF TypeOK, ArgInv, LockInv, HoldsCdt, Locks
  <2> HIDE DEF IInv
  <2> QED
    BY <2>1, <2>2, <2>3, OthersKeepLocks DEF IInv
<1>3. ArgInv'
  BY MappedToFacts DEF TypeOK, Args, NoArg, Arg, ArgInv, InMapPage, FromSafeStart
<1>4. \A d \in Cores : InFlight(d)' => InFlight(d) /\ arg'[d].frame = arg[d].frame
  BY MappedToFacts DEF TypeOK, Args, NoArg, Arg, InFlight
<1>5. UsedGiven' /\ Apart'
  BY <1>4, UsesKept
<1>6. MappedInv'
  <2>1. \A d \in Cores : pc'[d] = "mapped" =>
          pc[d] = "mapped" /\ arg'[d].page = arg[d].page /\ arg'[d].frame = arg[d].frame
    BY DEF TypeOK, Args
  <2> QED
    BY <1>4, <2>1, MappedKept
<1>7. TlbCoherent'
  BY DEF TypeOK, TlbCoherent
<1> QED
  BY <1>1, <1>2, <1>3, <1>5, <1>6, <1>7

\* The walk goes through a table that is there.
LEMMA WalkPresentStep ==
  ASSUME IInv, NEW c \in Cores, WalkPresent(c)
  PROVE  IInv'
<1> USE DEF IInv, WalkPresent, Descend, Return, Goto, allocVars, mapVars
<1>1. TypeOK'
  <2>1. arg[c] \in Args /\ arg[c].level - 1 \in 0..Depth
    BY PageGrantAssumption DEF TypeOK, Args
  <2>2. [arg[c] EXCEPT !.level = @ - 1] \in Args
    BY <2>1 DEF Args
  <2> QED
    BY <2>2 DEF TypeOK
<1>2. LockInv'
  <2>1. \A d \in Cores : arg'[d].i = arg[d].i
    BY DEF TypeOK, Args
  <2> QED
    BY <2>1 DEF LockInv, HoldsCdt
<1>3. ArgInv'
  BY MappedToFacts DEF TypeOK, Args, NoArg, Arg, ArgInv, InMapPage, FromSafeStart
<1>4. \A d \in Cores : InFlight(d)' => InFlight(d) /\ arg'[d].frame = arg[d].frame
  BY MappedToFacts DEF TypeOK, Args, NoArg, Arg, InFlight
<1>5. UsedGiven' /\ Apart'
  BY <1>4, UsesKept
<1>6. MappedInv'
  <2>1. \A d \in Cores : pc'[d] = "mapped" =>
          pc[d] = "mapped" /\ arg'[d].page = arg[d].page /\ arg'[d].frame = arg[d].frame
    BY DEF TypeOK, Args
  <2> QED
    BY <1>4, <2>1, MappedKept
<1>7. TlbCoherent'
  BY DEF TypeOK, TlbCoherent
<1> QED
  BY <1>1, <1>2, <1>3, <1>5, <1>6, <1>7

\* The walk fails for lack of a frame.
LEMMA WalkFailStep ==
  ASSUME IInv, NEW c \in Cores, WalkFail(c)
  PROVE  IInv'
<1> USE DEF IInv, WalkFail, Source!Refuse, Return, Goto, allocVars, mapVars
<1>1. TypeOK'
  BY MappedToFacts, PageGrantAssumption DEF TypeOK, Args, NoArg, Arg
<1>2. LockInv'
  <2>1. /\ \A d \in Cores \ {c} : pc'[d] = pc[d]
        /\ pc'[c] = "mapped" /\ pc[c] = "walk" /\ UNCHANGED <<lock, arg>>
    BY DEF TypeOK
  <2>2. LockInv
    OBVIOUS
  <2> HIDE DEF IInv, WalkFail
  <2> QED
    BY <2>1, <2>2 DEF LockInv, HoldsCdt
<1>3. ArgInv'
  BY MappedToFacts DEF TypeOK, Args, NoArg, Arg, ArgInv, InMapPage, FromSafeStart
<1>4. \A d \in Cores : InFlight(d)' => InFlight(d) /\ arg'[d].frame = arg[d].frame
  BY MappedToFacts DEF TypeOK, Args, NoArg, Arg, InFlight
<1>5. UsedGiven' /\ Apart'
  BY <1>4, UsesKept
<1>6. MappedInv'
  <2>1. pc' = [pc EXCEPT ![c] = "mapped"] /\ UNCHANGED <<table, pte, arg>> /\ refused'
    BY Zenon
  <2>2. \A d \in Cores : pc'[d] = "mapped" => d = c
    BY <2>1, ZenonT(30) DEF TypeOK, LockInv
  <2>3. InNoUse(arg[c].frame)'
    <3>1. /\ Apart /\ pc[c] = "walk" /\ pc'[c] = "mapped"
          /\ \A d \in Cores \ {c} : pc'[d] = pc[d]
      BY DEF TypeOK
    <3> HIDE DEF IInv, WalkFail
    <3> QED
      BY <2>1, <3>1 DEF InNoUse, Apart, InFlight
  <2> QED
    BY <2>1, <2>2, <2>3 DEF MappedInv
<1>7. TlbCoherent'
  BY DEF TypeOK, TlbCoherent
<1> QED
  BY <1>1, <1>2, <1>3, <1>5, <1>6, <1>7

\* grant_frame returns and drops all its locks.
LEMMA GrantReturnStep ==
  ASSUME IInv, NEW c \in Cores, GrantReturn(c)
  PROVE  IInv'
<1> USE DEF IInv, GrantReturn, Unlock, Return, Goto, allocVars, mapVars
<1>1. TypeOK'
  BY MappedToFacts, PageGrantAssumption DEF TypeOK, Args, NoArg, Arg
<1>2. LockInv'
  <2>1. \A d \in Cores \ {c} : pc'[d] = pc[d] /\ arg'[d] = arg[d]
    BY DEF TypeOK
  <2>2. lock["MAPPER"] = c /\ lock["ALLOCATOR"] = c /\ lock["CDT"] = c
    BY DEF LockInv, HoldsCdt
  <2>3. lock'["MAPPER"] = NoCore /\ lock'["ALLOCATOR"] = NoCore /\ lock'["CDT"] = NoCore
    BY DEF Locks
  <2>4. NoCore # c
    BY PageGrantAssumption
  <2>5. ~HoldsCdt(c)' /\ pc'[c] \notin {"mapalloc", "walk", "mapped", "panic"}
    BY DEF TypeOK, HoldsCdt
  <2> HIDE DEF IInv
  <2> QED
    BY <2>1, <2>2, <2>3, <2>4, <2>5, OthersKeepLocks, Zenon DEF IInv, Locks
<1>3. ArgInv'
  BY MappedToFacts DEF TypeOK, Args, NoArg, Arg, ArgInv, InMapPage, FromSafeStart
<1>4. \A d \in Cores : InFlight(d)' => InFlight(d) /\ arg'[d].frame = arg[d].frame
  BY MappedToFacts DEF TypeOK, Args, NoArg, Arg, InFlight
<1>5. UsedGiven' /\ Apart'
  BY <1>4, UsesKept
<1>6. MappedInv'
  <2>1. \A d \in Cores : pc'[d] = "mapped" =>
          pc[d] = "mapped" /\ arg'[d].page = arg[d].page /\ arg'[d].frame = arg[d].frame
    BY DEF TypeOK, Args
  <2> QED
    BY <1>4, <2>1, MappedKept
<1>7. TlbCoherent'
  BY DEF TypeOK, TlbCoherent
<1> QED
  BY <1>1, <1>2, <1>3, <1>5, <1>6, <1>7

\* The framebuffer loop goes on to the next page.
LEMMA FramebufferNextStep ==
  ASSUME IInv, NEW c \in Cores, FramebufferNext(c)
  PROVE  IInv'
<1> USE DEF IInv, FramebufferNext, Unlock, Return, Goto, allocVars, mapVars
<1>1. /\ arg[c].i \in Nat /\ arg[c].i + 1 \in 1..Len(Framebuffer)
      /\ arg[c] \in Args
  <2>1. arg[c] \in Args /\ arg[c].i \in 1..(Len(Framebuffer) - 1)
    BY DEF TypeOK
  <2> HIDE DEF IInv, FramebufferNext
  <2> QED
    BY <2>1, MappedToFacts
<1>2. PICK start \in Pages : /\ start + Len(Framebuffer) < SafeLimit
                             /\ arg[c].page = start + arg[c].i - 1
  BY <1>1 DEF ArgInv, FromSafeStart
<1>3. arg[c].page + 1 = start + (arg[c].i + 1) - 1 /\ arg[c].page + 1 \in Pages
  <2>1. start \in Nat
    BY PageGrantAssumption
  <2>2. arg[c].page + 1 = start + (arg[c].i + 1) - 1
    BY <1>1, <1>2, <2>1, NextPage, SMTT(20)
  <2> QED
    BY <1>1, <1>2, <2>2, PagesAssumption
<1> DEFINE a == Arg(arg[c].page + 1, 0, Framebuffer[arg[c].i + 1], arg[c].i + 1)
<1>4. /\ a \in Args /\ a.page = arg[c].page + 1 /\ a.i = arg[c].i + 1
      /\ a.frame \notin Frames /\ a.frame # NoFrame
  <2> HIDE DEF IInv, FramebufferNext
  <2>1. /\ Framebuffer[arg[c].i + 1] \in MappedTo \ (Frames \cup {NoFrame})
        /\ arg[c].i + 1 \in 0..Len(Framebuffer) /\ 0 \in 0..Depth
    BY <1>1, MappedToFacts, PageGrantAssumption
  <2>2. a.page = arg[c].page + 1 /\ a.i = arg[c].i + 1 /\ a.frame = Framebuffer[arg[c].i + 1]
    BY DEF Arg
  <2>3. a \in Args
    BY <1>3, <2>1 DEF Arg, Args
  <2> QED
    BY <2>1, <2>2, <2>3
<1>5. arg' = [arg EXCEPT ![c] = a] /\ pc[c] = "mapped"
  OBVIOUS
<1> HIDE DEF a
<1>6. /\ arg'[c] = a /\ pc'[c] = "mapper"
      /\ \A d \in Cores \ {c} : pc'[d] = pc[d] /\ arg'[d] = arg[d]
  BY <1>5 DEF TypeOK
<1>7. TypeOK'
  <2>1. arg' \in [Cores -> Args]
    BY <1>4, <1>5 DEF TypeOK
  <2>2. lock' \in [Locks -> Cores \cup {NoCore}]
    BY DEF TypeOK
  <2> QED
    BY <2>1, <2>2 DEF TypeOK
<1>8. LockInv'
  <2>2. lock["MAPPER"] = c /\ lock["ALLOCATOR"] = c /\ lock["CDT"] # c
    <3>1. LockInv /\ pc[c] = "mapped" /\ arg[c].i # 0
      OBVIOUS
    <3> HIDE DEF IInv
    <3> QED
      BY <3>1 DEF LockInv, HoldsCdt
  <2>3. lock'["MAPPER"] = NoCore /\ lock'["ALLOCATOR"] = NoCore /\ lock'["CDT"] = lock["CDT"]
    BY DEF Locks
  <2>4. NoCore # c
    BY PageGrantAssumption
  <2>5. ~HoldsCdt(c)' /\ pc'[c] \notin {"mapalloc", "walk", "mapped", "panic"}
    BY <1>1, <1>4, <1>6, SMTT(20) DEF HoldsCdt
  <2> HIDE DEF IInv
  <2> QED
    BY <1>6, <2>2, <2>3, <2>4, <2>5, OthersKeepLocks, Zenon DEF IInv, Locks
<1>9. ArgInv'
  <2>1. FromSafeStart(c)'
    BY <1>2, <1>3, <1>4, <1>6 DEF FromSafeStart
  <2>2. \A d \in Cores \ {c} : FromSafeStart(d)' <=> FromSafeStart(d)
    BY <1>6 DEF FromSafeStart
  <2> QED
    BY <1>3, <1>4, <1>6, <2>1, <2>2 DEF ArgInv, InMapPage
<1>10. \A d \in Cores : InFlight(d)' => InFlight(d) /\ arg'[d].frame = arg[d].frame
  BY <1>4, <1>6 DEF InFlight
<1>11. UsedGiven' /\ Apart'
  BY <1>10, UsesKept, Zenon
<1>12. MappedInv'
  <2>1. \A d \in Cores : pc'[d] = "mapped" =>
          pc[d] = "mapped" /\ arg'[d].page = arg[d].page /\ arg'[d].frame = arg[d].frame
    BY <1>6
  <2> QED
    BY <1>10, <2>1, MappedKept, Zenon
<1>13. TlbCoherent'
  BY DEF TlbCoherent
<1> QED
  BY <1>7, <1>8, <1>9, <1>11, <1>12, <1>13

\* The framebuffer loop ends.
LEMMA FramebufferReturnStep ==
  ASSUME IInv, NEW c \in Cores, FramebufferReturn(c)
  PROVE  IInv'
<1> USE DEF IInv, FramebufferReturn, Unlock, Return, Goto, allocVars, mapVars
<1>1. TypeOK'
  <2>1. NoArg \in Args
    BY MappedToFacts, PageGrantAssumption DEF NoArg, Arg, Args
  <2>2. arg' \in [Cores -> Args] /\ lock' \in [Locks -> Cores \cup {NoCore}]
    BY <2>1 DEF TypeOK
  <2>3. result' \in [Cores -> [code : {"none", "zero", "MAX", "info", "vaddr"},
                               page : Pages \cup {0}]]
    BY DEF TypeOK
  <2> QED
    BY <2>2, <2>3 DEF TypeOK
<1>2. LockInv'
  <2>1. \A d \in Cores \ {c} : pc'[d] = pc[d] /\ arg'[d] = arg[d]
    BY DEF TypeOK
  <2>2. lock["MAPPER"] = c /\ lock["ALLOCATOR"] = c /\ lock["CDT"] # c
    <3>1. LockInv /\ pc[c] = "mapped" /\ arg[c].i # 0
      OBVIOUS
    <3> HIDE DEF IInv
    <3> QED
      BY <3>1 DEF LockInv, HoldsCdt
  <2>3. lock'["MAPPER"] = NoCore /\ lock'["ALLOCATOR"] = NoCore /\ lock'["CDT"] = lock["CDT"]
    BY DEF Locks
  <2>4. NoCore # c
    BY PageGrantAssumption
  <2>5. ~HoldsCdt(c)' /\ pc'[c] \notin {"mapalloc", "walk", "mapped", "panic"}
    BY DEF TypeOK, Args, HoldsCdt
  <2> HIDE DEF IInv
  <2> QED
    BY <2>1, <2>2, <2>3, <2>4, <2>5, OthersKeepLocks, Zenon DEF IInv, Locks
<1>3. ArgInv'
  BY MappedToFacts DEF TypeOK, Args, NoArg, Arg, ArgInv, InMapPage, FromSafeStart
<1>4. \A d \in Cores : InFlight(d)' => InFlight(d) /\ arg'[d].frame = arg[d].frame
  BY MappedToFacts DEF TypeOK, Args, NoArg, Arg, InFlight
<1>5. UsedGiven' /\ Apart'
  BY <1>4, UsesKept
<1>6. MappedInv'
  <2>1. \A d \in Cores : pc'[d] = "mapped" =>
          pc[d] = "mapped" /\ arg'[d].page = arg[d].page /\ arg'[d].frame = arg[d].frame
    BY DEF TypeOK, Args
  <2> QED
    BY <1>4, <2>1, MappedKept
<1>7. TlbCoherent'
  BY DEF TypeOK, TlbCoherent
<1> QED
  BY <1>1, <1>2, <1>3, <1>5, <1>6, <1>7

\* User code fills its TLB.
LEMMA TouchStep ==
  ASSUME IInv, NEW c \in Cores, NEW p \in Pages, Touch(c, p)
  PROVE  IInv'
<1> USE DEF IInv, Touch, Return, Goto, allocVars, mapVars
<1>1. TypeOK'
  BY MappedToFacts, PageGrantAssumption, SMTT(20) DEF TypeOK, Args, NoArg, Arg
<1>2. LockInv'
  BY PageGrantAssumption DEF TypeOK, Args, NoArg, Arg, ArgInv, LockInv, HoldsCdt, Locks
<1>3. ArgInv'
  BY MappedToFacts DEF TypeOK, Args, NoArg, Arg, ArgInv, InMapPage, FromSafeStart
<1>4. \A d \in Cores : InFlight(d)' => InFlight(d) /\ arg'[d].frame = arg[d].frame
  BY MappedToFacts DEF TypeOK, Args, NoArg, Arg, InFlight
<1>5. UsedGiven' /\ Apart'
  BY <1>4, UsesKept
<1>6. MappedInv'
  <2>1. \A d \in Cores : pc'[d] = "mapped" =>
          pc[d] = "mapped" /\ arg'[d].page = arg[d].page /\ arg'[d].frame = arg[d].frame
    BY DEF TypeOK, Args
  <2> QED
    BY <1>4, <2>1, MappedKept
<1>7. TlbCoherent'
  BY DEF TypeOK, TlbCoherent
<1> QED
  BY <1>1, <1>2, <1>3, <1>5, <1>6, <1>7

\* The frame that grant_frame is given is in nobody's use.
LEMMA AllocFrameStep ==
  ASSUME IInv, NEW c \in Cores, AllocFrame(c)
  PROVE  IInv'
<1> USE DEF IInv, AllocFrame, GuardIsDropped, Goto, mapVars
<1>1. PICK f \in Frames : Source!Grant(f) /\ arg' = [arg EXCEPT ![c].frame = f]
  BY Zenon
<1>2. /\ granted' \in Seq(Frames) /\ refused' = refused
      /\ f \notin Source!Given /\ (Source!Given)' = Source!Given \cup {f}
  BY <1>1, GrantAdds DEF TypeOK
<1>3. TypeOK'
  <2>1. [arg[c] EXCEPT !.frame = f] \in Args
    <3>1. arg[c] \in Args /\ f \in MappedTo
      BY MappedToFacts DEF TypeOK
    <3> QED
      BY <3>1 DEF Args
  <2>2. arg' \in [Cores -> Args]
    BY <1>1, <2>1, Zenon DEF TypeOK
  <2> QED
    BY <1>2, <2>2 DEF TypeOK
<1>4. /\ arg'[c].frame = f /\ arg'[c].i = arg[c].i /\ arg'[c].page = arg[c].page
      /\ \A d \in Cores \ {c} : arg'[d] = arg[d] /\ pc'[d] = pc[d]
      /\ pc'[c] = "mapper" /\ pc[c] = "alloc"
  BY <1>1 DEF TypeOK, Args
<1>5. LockInv'
  BY <1>4 DEF LockInv, HoldsCdt
<1>6. ArgInv'
  BY <1>4, MappedToFacts DEF ArgInv, InMapPage, FromSafeStart
<1>7. \A d \in Cores : InFlight(d)' <=> InFlight(d) \/ d = c
  BY <1>4 DEF InFlight
<1>8. UsedGiven'
  BY <1>2, <1>4, <1>7 DEF UsedGiven
<1>9. Apart'
  <2>1. /\ \A t \in TableIds : table[t] # f
        /\ \A p \in Pages : pte[p] # f
        /\ \A d \in Cores : InFlight(d) => arg[d].frame # f
    BY <1>2, MappedToFacts DEF UsedGiven
  <2> QED
    BY <1>4, <1>7, <2>1 DEF Apart, InFlight
<1>10. MappedInv' /\ TlbCoherent'
  <2>1. \A d \in Cores : pc'[d] # "mapped"
    BY <1>4, PageGrantAssumption DEF LockInv
  <2> QED
    BY <2>1 DEF MappedInv, TlbCoherent
<1> QED
  BY <1>3, <1>5, <1>6, <1>8, <1>9, <1>10

\* The frame that becomes a page table is in nobody's use.
LEMMA WalkCreateStep ==
  ASSUME IInv, NEW c \in Cores, WalkCreate(c)
  PROVE  IInv'
<1> USE DEF IInv, WalkCreate, Descend
<1> DEFINE n == NextTable(c)
<1>1. PICK f \in Frames : Source!Grant(f) /\ table' = [table EXCEPT ![n] = f]
  BY Zenon
<1>2. /\ granted' \in Seq(Frames) /\ refused' = refused
      /\ f \notin Source!Given /\ (Source!Given)' = Source!Given \cup {f}
  BY <1>1, GrantAdds DEF TypeOK
<1>3. n \in TableIds /\ table[n] = NoFrame
  <2>1. arg[c].level \in 1..Depth /\ arg[c].page \in Pages
    BY PageGrantAssumption DEF TypeOK, Args, ArgInv
  <2> QED
    BY <2>1 DEF NextTable, TableIds
<1> HIDE DEF n
<1>4. /\ table' \in [TableIds -> Frames \cup {NoFrame}] /\ table'[n] = f
      /\ \A t \in TableIds \ {n} : table'[t] = table[t]
  BY <1>1, <1>3, Zenon DEF TypeOK
<1>5. TypeOK'
  <2>1. [arg[c] EXCEPT !.level = @ - 1] \in Args
    <3>1. arg[c] \in Args /\ arg[c].level - 1 \in 0..Depth
      BY PageGrantAssumption DEF TypeOK, Args
    <3> QED
      BY <3>1 DEF Args
  <2>2. arg' \in [Cores -> Args]
    BY <2>1 DEF TypeOK
  <2> QED
    BY <1>2, <1>4, <2>2 DEF TypeOK
<1>6. \A d \in Cores : arg'[d].i = arg[d].i /\ arg'[d].page = arg[d].page
                       /\ arg'[d].frame = arg[d].frame
  BY DEF TypeOK, Args
<1>7. LockInv' /\ ArgInv'
  BY <1>6 DEF LockInv, HoldsCdt, ArgInv, InMapPage, FromSafeStart
<1>8. \A d \in Cores : InFlight(d)' <=> InFlight(d)
  BY <1>6 DEF InFlight
<1>9. UsedGiven'
  BY <1>2, <1>4, <1>6, <1>8 DEF UsedGiven
<1>10. Apart'
  <2>1. /\ \A t \in TableIds : table[t] # f
        /\ \A p \in Pages : pte[p] # f
        /\ \A d \in Cores : InFlight(d) => arg[d].frame # f
    BY <1>2, MappedToFacts DEF UsedGiven
  <2>2. \A s, t \in TableIds : table'[s] # NoFrame /\ table'[s] = table'[t] => s = t
    BY <1>4, <2>1 DEF Apart
  <2>3. \A t \in TableIds, p \in Pages : table'[t] # NoFrame => table'[t] # pte[p]
    BY <1>4, <2>1 DEF Apart
  <2>4. \A t \in TableIds, d \in Cores : InFlight(d) => table'[t] # arg[d].frame
    BY <1>4, <2>1 DEF Apart
  <2> QED
    BY <1>6, <1>8, <2>2, <2>3, <2>4 DEF Apart
<1>11. MappedInv' /\ TlbCoherent'
  <2>1. \A d \in Cores : pc'[d] # "mapped"
    BY DEF LockInv
  <2> QED
    BY <2>1 DEF MappedInv, TlbCoherent
<1> QED
  BY <1>5, <1>7, <1>9, <1>10, <1>11

\* The leaf moves the call's frame into the page table, if the page was free.
LEMMA MapLeafStep ==
  ASSUME IInv, NEW c \in Cores, MapLeaf(c)
  PROVE  IInv'
<1> USE DEF IInv, MapLeaf, Goto, allocVars
<1> DEFINE p == arg[c].page
           f == arg[c].frame
<1>1. p \in Pages /\ f \in MappedTo /\ f # NoFrame /\ pc[c] = "walk"
  BY DEF TypeOK, Args, ArgInv, InMapPage
<1>2. /\ pte' = [pte EXCEPT ![p] = IF pte[p] = NoFrame THEN f ELSE pte[p]]
      /\ tlb' = IF pte[p] = NoFrame THEN [tlb EXCEPT ![c][p] = NoFrame] ELSE tlb
  BY DEF LeafAfter
<1>3. f \in Frames <=> InFlight(c)
  BY <1>1 DEF InFlight
<1>4. (Source!Given)' = Source!Given
  BY DEF Source!Given
<1>5. /\ UNCHANGED <<granted, refused, lock, table, arg, result, budget>>
      /\ pc'[c] = "mapped" /\ \A d \in Cores \ {c} : pc'[d] = pc[d]
      /\ pc' = [pc EXCEPT ![c] = "mapped"]
  BY DEF TypeOK
<1>6. \A d \in Cores : InFlight(d)' <=> InFlight(d) /\ d # c
  BY <1>1, <1>5 DEF InFlight
<1>7. /\ TypeOK /\ LockInv /\ ArgInv /\ UsedGiven /\ Apart /\ MappedInv
      /\ TlbCoherent
  OBVIOUS
<1> HIDE DEF p, f, IInv, MapLeaf
<1>8. /\ \A q \in Pages \ {p} : pte'[q] = pte[q]
      /\ pte'[p] = IF pte[p] = NoFrame THEN f ELSE pte[p]
      /\ pte' \in [Pages -> MappedTo] /\ pte'[p] # NoFrame
  <2>1. pte \in [Pages -> MappedTo]
    BY <1>7 DEF TypeOK
  <2> QED
    BY <1>1, <1>2, <2>1
<1>9. TypeOK'
  <2>1. tlb' \in [Cores -> [Pages -> MappedTo]]
    <3>1. tlb \in [Cores -> [Pages -> MappedTo]]
      BY <1>7 DEF TypeOK
    <3>2. [tlb[c] EXCEPT ![p] = NoFrame] \in [Pages -> MappedTo]
      BY <1>1, <3>1, MappedToFacts
    <3> QED
      BY <1>2, <3>1, <3>2, Zenon
  <2> QED
    BY <1>5, <1>7, <1>8, <2>1 DEF TypeOK
<1>10. LockInv' /\ ArgInv'
  <2>1. LockInv'
    BY <1>1, <1>5, <1>7 DEF LockInv, HoldsCdt
  <2>2. ArgInv'
    BY <1>1, <1>5, <1>7 DEF ArgInv, InMapPage, FromSafeStart
  <2> QED
    BY <2>1, <2>2
<1>11. UsedGiven'
  BY <1>3, <1>4, <1>5, <1>6, <1>7, <1>8, SMTT(20) DEF UsedGiven, f
<1>12. Apart'
  <2>1. InFlight(c) => /\ \A t \in TableIds : table[t] # f
                       /\ \A q \in Pages : pte[q] # f
                       /\ \A d \in Cores \ {c} : InFlight(d) => arg[d].frame # f
    BY <1>7 DEF Apart, f
  <2>2. \A r, q \in Pages : pte'[r] \in Frames /\ pte'[r] = pte'[q] => r = q
    BY <1>1, <1>3, <1>7, <1>8, <2>1 DEF Apart
  <2>3. \A t \in TableIds, q \in Pages : table[t] # NoFrame => table[t] # pte'[q]
    <3>1. /\ \A t \in TableIds : table[t] \in Frames \cup {NoFrame}
          /\ \A t \in TableIds, q \in Pages : table[t] # NoFrame => table[t] # pte[q]
      BY <1>7 DEF TypeOK, Apart
    <3> QED
      BY <1>3, <1>8, <2>1, <3>1
  <2>4. \A q \in Pages, d \in Cores : InFlight(d)' => pte'[q] # arg[d].frame
    <3>1. \A q \in Pages, d \in Cores : InFlight(d) => pte[q] # arg[d].frame
      BY <1>7 DEF Apart
    <3>2. \A d \in Cores \ {c} : InFlight(d) => arg[d].frame # f
      BY <1>3, <2>1 DEF InFlight
    <3> QED
      BY <1>6, <1>8, <3>1, <3>2
  <2> QED
    BY <1>5, <1>6, <1>7, <2>2, <2>3, <2>4, SMTT(20) DEF Apart
<1>13. MappedInv'
  <2>1. \A d \in Cores : pc'[d] = "mapped" => d = c
    BY <1>1, <1>5, <1>7 DEF LockInv
  <2>2. arg'[c].page = p /\ arg'[c].frame = f
    BY <1>5 DEF p, f
  <2>3. CASE pte[p] = NoFrame
    BY <1>8, <2>1, <2>2, <2>3 DEF MappedInv
  <2>4. CASE pte[p] # NoFrame
    <3>1. pte' = pte
      BY <1>1, <1>2, <1>7, <2>4, SMTT(20) DEF TypeOK
    <3>2. InNoUse(arg[c].frame)'
      BY <1>3, <1>5, <1>6, <1>7, <3>1, SMTT(20) DEF InNoUse, Apart, f
    <3> QED
      BY <2>1, <2>2, <2>4, <3>1, <3>2 DEF MappedInv
  <2> QED
    BY <2>3, <2>4
<1>14. TlbCoherent'
  <2>1. ASSUME NEW d \in Cores, NEW q \in Pages, tlb'[d][q] # NoFrame
        PROVE  tlb'[d][q] = pte'[q]
    <3>1. tlb'[d][q] = tlb[d][q]
      <4>1. tlb \in [Cores -> [Pages -> MappedTo]]
        BY <1>7 DEF TypeOK
      <4> QED
        BY <1>1, <1>2, <2>1, <4>1
    <3>2. tlb[d][q] = pte[q] /\ pte[q] # NoFrame
      BY <1>7, <2>1, <3>1 DEF TlbCoherent
    <3> QED
      BY <1>8, <3>1, <3>2
  <2> QED
    BY <2>1 DEF TlbCoherent
<1> QED
  BY <1>9, <1>10, <1>11, <1>12, <1>13, <1>14 DEF IInv
-----------------------------------------------------------------------------
\* Before the first system call no frame is in use and no lock is held.
LEMMA InitHolds == Init => IInv
<1> SUFFICES ASSUME Init PROVE IInv
  OBVIOUS
<1> USE DEF Init, Source!SourceInit
<1>1. TypeOK
  <2>1. NoArg \in Args
    BY MappedToFacts, PageGrantAssumption DEF NoArg, Arg, Args
  <2>2. pte \in [Pages -> MappedTo] /\ tlb \in [Cores -> [Pages -> MappedTo]]
    BY MappedToFacts
  <2>3. lock \in [Locks -> Cores \cup {NoCore}] /\ table \in [TableIds -> Frames \cup {NoFrame}]
    OBVIOUS
  <2>4. arg \in [Cores -> Args]
    BY <2>1
  <2>5. budget \in [Cores -> Nat]
    BY PageGrantAssumption
  <2>6. granted \in Seq(Frames)
    OBVIOUS
  <2>7. refused \in BOOLEAN
    BY Zenon
  <2> QED
    BY <2>2, <2>3, <2>4, <2>5, <2>6, <2>7 DEF TypeOK
<1>2. LockInv
  BY PageGrantAssumption, Zenon DEF LockInv, HoldsCdt, Locks
<1>3. ArgInv /\ MappedInv
  BY DEF ArgInv, InMapPage, MappedInv
<1>4. UsedGiven /\ Apart
  BY MappedToFacts, Zenon DEF UsedGiven, Apart, InFlight
<1>5. TlbCoherent
  BY DEF TlbCoherent
<1> QED
  BY <1>1, <1>2, <1>3, <1>4, <1>5 DEF IInv

\* The locks, the calls' locals and the uses of frames together are inductive.
THEOREM MemoryInvariance == Spec => []IInv
<1>1. Init => IInv
  BY InitHolds
<1>2. IInv /\ [Next]_vars => IInv'
  <2> SUFFICES ASSUME IInv, [Next]_vars PROVE IInv'
    OBVIOUS
  <2>1. CASE UNCHANGED vars
    <3>1. UNCHANGED <<granted, refused, lock, table, pte, tlb, pc, arg, result, budget>>
      BY <2>1 DEF vars
    <3>2. UsedGiven' /\ Apart'
      BY <3>1, UsesKept, Zenon DEF IInv, InFlight
    <3>3. TypeOK' /\ LockInv' /\ ArgInv'
      BY <3>1 DEF IInv, TypeOK, LockInv, HoldsCdt, ArgInv, InMapPage, FromSafeStart
    <3>4. MappedInv' /\ TlbCoherent'
      BY <3>1, MappedKept DEF IInv, InFlight, TlbCoherent
    <3> QED
      BY <3>2, <3>3, <3>4 DEF IInv
  <2>2. ASSUME NEW c \in Cores, Step(c) PROVE IInv'
    BY <2>2, LockCdtStep, AllocFrameStep, PanicStep, LockMapperStep, LockAllocatorStep,
       WalkPresentStep, WalkCreateStep, WalkFailStep, MapLeafStep, GrantReturnStep,
       FramebufferNextStep, FramebufferReturnStep DEF Step
  <2>3. ASSUME NEW c \in Cores, NEW p \in Pages, CallMapFramebuffer(c, p) \/ Touch(c, p)
        PROVE  IInv'
    BY <2>3, CallMapFramebufferStep, TouchStep
  <2>4. ASSUME NEW c \in Cores, NEW p \in Pages, NEW t \in Tokens, CallGrant(c, p, t)
        PROVE  IInv'
    BY <2>4, CallGrantStep
  <2> QED
    BY <2>1, <2>2, <2>3, <2>4 DEF Next
<1> QED
  BY <1>1, <1>2, PTL DEF Spec

\* No frame is a page table, a user page or a grant on its way twice, however
\* many cores call grant_frame and map_page at once.
THEOREM FramesUsedOnce == Spec => []OneUsePerFrame
<1>1. IInv => OneUsePerFrame
  <2> SUFFICES ASSUME IInv, NEW f \in Frames, NEW u \in Uses(f), NEW v \in Uses(f)
               PROVE  u = v
    BY SMTT(30) DEF OneUsePerFrame
  <2> DEFINE Table(w) == \E t \in TableIds : w = <<"table", t>> /\ table[t] = f
             Page(w) == \E p \in Pages : w = <<"page", p>> /\ pte[p] = f
             Grant(w) == \E c \in Cores : w = <<"grant", c>> /\ InFlight(c) /\ arg[c].frame = f
  <2>1. ASSUME NEW w \in Uses(f) PROVE Table(w) \/ Page(w) \/ Grant(w)
    BY <2>1 DEF Uses, InFlight
  <2>2. f # NoFrame
    BY MappedToFacts, SMTT(20)
  <2>3. Table(u) => v = u
    BY <2>1, <2>2 DEF IInv, Apart
  <2>4. Page(u) => v = u
    BY <2>1, <2>2 DEF IInv, Apart
  <2>5. Grant(u) => v = u
    BY <2>1, <2>2 DEF IInv, Apart
  <2> QED
    BY <2>1, <2>3, <2>4, <2>5
<1> QED
  BY <1>1, MemoryInvariance, PTL

\* No core's TLB is ever out of date, although map_page flushes only its own.
THEOREM TlbNeverStale == Spec => []TlbCoherent
<1>1. IInv => TlbCoherent
  BY DEF IInv
<1> QED
  BY <1>1, MemoryInvariance, PTL

\* CDT, MAPPER and ALLOCATOR are taken in this order on every core.
THEOREM LocksOrdered == Spec => []LockOrder
<1>1. IInv => LockOrder
  <2> SUFFICES ASSUME LockInv, NEW c \in Cores, NEW l \in Locks, NEW k \in Locks,
                      WaitsFor(c, l), lock[k] = c
               PROVE  Rank[k] < Rank[l]
    BY DEF IInv, LockOrder
  <2>1. CASE pc[c] = "cdt"
    BY <2>1 DEF LockInv, HoldsCdt, Locks
  <2>2. CASE pc[c] = "alloc"
    BY <2>2 DEF LockInv, WaitsFor, Locks, Rank
  <2>3. CASE pc[c] = "mapper"
    BY <2>3 DEF LockInv, WaitsFor, Locks, Rank
  <2>4. CASE pc[c] = "mapalloc"
    BY <2>4 DEF LockInv, WaitsFor, Locks, Rank
  <2> QED
    BY <2>1, <2>2, <2>3, <2>4 DEF WaitsFor
<1> QED
  BY <1>1, MemoryInvariance, PTL

\* A call of grant_frame that returns an address has mapped its frame there and
\* nowhere else, or else its frame is lost, to a page that had a mapping or to the
\* end of the memory.
THEOREM GrantHasOutcome == Spec => GrantOutcome
<1> DEFINE Returns(c) == pc[c] # "user" /\ pc'[c] = "user" /\ result'[c].code = "vaddr"
           Outcome(f, p) ==
             \/ Uses(f) = {<<"page", p>>}
             \/ Uses(f) = {} /\ (pte[p] # NoFrame \/ refused)
<1>1. ASSUME IInv, [Next]_vars, NEW c \in Cores, Returns(c)
      PROVE  Outcome(arg[c].frame, result'[c].page)
  <2>1. GrantReturn(c)
    <3>1. CASE UNCHANGED vars
      BY <1>1, <3>1 DEF vars
    <3>2. ASSUME NEW d \in Cores, Step(d) PROVE GrantReturn(c)
      <4>1. pc \in [Cores -> {"user", "cdt", "alloc", "mapper", "mapalloc", "walk", "mapped", "panic"}]
        BY <1>1 DEF IInv, TypeOK
      <4>2. CASE LockCdt(d) \/ FramebufferReturn(d)
        <5>1. /\ \A e \in Cores \ {d} : pc'[e] = pc[e]
              /\ pc'[d] = "user" => \E code \in {"zero", "info"} : Return(d, code, 0)
          BY <4>1, <4>2 DEF LockCdt, FramebufferReturn, Return, Goto
        <5>2. pc'[d] = "user" => result'[d].code \in {"zero", "info"}
          BY <1>1, <5>1 DEF Return, IInv, TypeOK
        <5> QED
          BY <1>1, <5>1, <5>2
      <4>3. CASE GrantReturn(d)
        BY <1>1, <4>1, <4>3, ZenonT(30) DEF GrantReturn, Return
      <4>4. CASE AllocFrame(d) \/ Panic(d) \/ LockMapper(d) \/ LockAllocator(d)
        BY <1>1, <4>1, <4>4 DEF AllocFrame, Panic, LockMapper, LockAllocator, Goto
      <4>5. CASE WalkPresent(d) \/ WalkCreate(d) \/ WalkFail(d) \/ MapLeaf(d) \/ FramebufferNext(d)
        BY <1>1, <4>1, <4>5 DEF WalkPresent, WalkCreate, WalkFail, MapLeaf, FramebufferNext, Goto
      <4> QED
        BY <3>2, <4>2, <4>3, <4>4, <4>5 DEF Step
    <3>3. ASSUME NEW d \in Cores, NEW p \in Pages,
                 \/ CallMapFramebuffer(d, p) \/ Touch(d, p)
                 \/ \E t \in Tokens : CallGrant(d, p, t)
          PROVE  FALSE
      <4>1. pc[d] = "user" /\ \A e \in Cores \ {d} : pc'[e] = pc[e]
        BY <1>1, <3>3, SMTT(20) DEF CallMapFramebuffer, Touch, CallGrant, Enter, Return, Goto, IInv, TypeOK
      <4> QED
        BY <1>1, <4>1
    <3> QED
      BY <1>1, <3>1, <3>2, <3>3 DEF Next
  <2> DEFINE f == arg[c].frame
             p == arg[c].page
  <2>2. /\ pc[c] = "mapped" /\ arg[c].i = 0 /\ result'[c].page = p
        /\ p \in Pages /\ f \in Frames
    BY <1>1, <2>1, SMTT(20) DEF GrantReturn, Return, IInv, TypeOK, ArgInv, InMapPage
  <2>3. Apart /\ MappedInv /\ f # NoFrame
    BY <1>1, <2>2, MappedToFacts, SMTT(20) DEF IInv
  <2> HIDE DEF f, p
  <2>4. CASE pte[p] = f
    <3>1. /\ \A t \in TableIds : table[t] # f
          /\ \A q \in Pages : pte[q] = f => q = p
          /\ \A d \in Cores : InFlight(d) => arg[d].frame # f
      BY <2>2, <2>3, <2>4 DEF Apart
    <3>2. Uses(f) = {<<"page", p>>}
      BY <2>2, <2>4, <3>1 DEF Uses, InFlight
    <3> QED
      BY <2>2, <3>2 DEF f
  <2>5. CASE pte[p] # f
    <3>1. InNoUse(f) /\ (pte[p] # NoFrame \/ refused)
      BY <2>2, <2>3, <2>5 DEF MappedInv, f, p
    <3>2. Uses(f) = {}
      BY <2>2, <3>1 DEF InNoUse, Uses, InFlight
    <3> QED
      BY <2>2, <3>1, <3>2 DEF f
  <2> QED
    BY <2>4, <2>5
<1>2. IInv /\ [Next]_vars =>
        [\A c \in Cores : Returns(c) => Outcome(arg[c].frame, result'[c].page)]_vars
  BY <1>1
<1> QED
  BY <1>2, MemoryInvariance, PTL DEF Spec, GrantOutcome

\* After the panic of grant_frame no core allocates or maps anything.
THEOREM PanicFreezes == Spec => PanicFreezesMemory
<1>1. IInv /\ [Next]_vars => [Panicked => UNCHANGED <<granted, table, pte>>]_vars
  <2> SUFFICES ASSUME IInv, Next, NEW d \in Cores, pc[d] = "panic"
               PROVE  UNCHANGED <<granted, table, pte>>
    BY DEF Panicked
  <2>1. lock["ALLOCATOR"] = d /\ \A c \in Cores : pc[c] # "walk"
    BY DEF IInv, LockInv
  <2>2. d # NoCore
    BY PageGrantAssumption
  <2>3. ASSUME NEW c \in Cores, Step(c) PROVE UNCHANGED <<granted, table, pte>>
    BY <2>1, <2>2, <2>3 DEF Step, LockCdt, AllocFrame, Panic, LockMapper, LockAllocator,
       WalkPresent, WalkCreate, WalkFail, MapLeaf, GrantReturn, FramebufferNext,
       FramebufferReturn, allocVars, mapVars
  <2> QED
    BY <2>3 DEF Next, CallMapFramebuffer, CallGrant, Touch, allocVars, mapVars
<1> QED
  BY <1>1, MemoryInvariance, PTL DEF Spec, PanicFreezesMemory
=============================================================================
