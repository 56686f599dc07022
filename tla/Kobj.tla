-------------------------------- MODULE Kobj --------------------------------
(***************************************************************************)
(* The user runtime's allocator of kernel objects (arm/lib/c/sys.c): a     *)
(* list of the untyped objects that the process has, split in halves until *)
(* one has the size that is needed.                                        *)
(*                                                                         *)
(* It is entered again from inside itself: the root server's               *)
(* request_memory (arm/root/mem.c) allocates frame objects to replace the  *)
(* one it used, and kobj_alloc requests memory for objects and for its     *)
(* pool.  The calls that are under way are a stack; each action is what    *)
(* the innermost does up to its next call.                                 *)
(***************************************************************************)
EXTENDS Integers, Sequences, SequencesExt, FiniteSets

CONSTANTS IsRoot,      \* request_memory is root's own
          Lens,        \* sizes of objects, powers of two
          FrameLen,    \* size of a frame object
          PageLen,     \* memory is requested in pages
          Pages,       \* pages there are
          Caps,        \* CLIST_CAPS
          PoolStart,   \* list entries in kobj_pool_initial
          PoolMore,    \* list entries in a page
          PoolLow,     \* the pool grows when fewer are free
          nil

\* What the code takes for granted of its constants.
KobjOK ==
  /\ IsRoot \in BOOLEAN /\ FrameLen \in Lens /\ PageLen \in Nat
  /\ \A l \in Lens : l \in 1..PageLen
  /\ {Pages, Caps, PoolStart, PoolMore, PoolLow} \subseteq Nat

VARIABLES kobjs,      \* the list: capability, length, in use or not
          free,       \* entries of kobj_pool that are free
          grown,      \* kobj_pool has entries from requested memory
          checking, replenish,
          caps,       \* capabilities that kcap_alloc gave
          pages,      \* pages left
          spare,      \* root's spare_frames that hold a frame
          stack,      \* calls under way, the innermost first
          kern,       \* the kernel's objects: length and type
          handed,     \* history: what kobj_alloc returned, and something twice
          up, refused \* root has not exited; a request for memory failed

pool == <<free, grown, checking>>
mem == <<pages, spare, replenish, refused>>
vars == <<kobjs, pool, mem, caps, stack, kern, handed, up>>

-----------------------------------------------------------------------------
Obj(cid, len, claimed) == [cid |-> cid, len |-> len, typed |-> FALSE,
                           claimed |-> claimed]
Call(want) == [op |-> "alloc", want |-> want, f |-> nil, step |-> "look",
               cid |-> nil]
Fill(i) == [op |-> "fill", i |-> i]

Top == stack[1]
Running(step) == up /\ stack # <<>> /\ Top.op = "alloc" /\ Top.step = step
Going(step) == [stack EXCEPT ![1].step = step]
PlaceOf(cid) == CHOOSE k \in 1..Len(kobjs) : kobjs[k].cid = cid

\* kobj_alloc returns cid to root's request_memory, which keeps the frame, or
\* to its caller.
Return(cid) ==
  /\ stack' = IF Len(stack) = 1 THEN <<>>
              ELSE [Tail(stack) EXCEPT ![1].i = @ + 1]
  /\ spare' = IF Len(stack) = 1 THEN spare ELSE spare \cup {stack[2].i}
  /\ handed' = [once |-> handed.once \cup {cid},
                twice |-> handed.twice \/ cid \in handed.once]
  /\ UNCHANGED up

\* It returns ERR: root's request_memory exits then.
Fails ==
  /\ stack' = IF Len(stack) = 1 THEN <<>> ELSE stack
  /\ up' = (Len(stack) = 1)
  /\ UNCHANGED handed

First(s) == CHOOSE i \in s : \A j \in s : i <= j

\* What a refused request leaves allocated: a process asks for the frame with a
\* capability of its own, and kobj_alloc_new goes on with the answer that is
\* negative nowhere, up to obj_create.
CapsLost(step) ==
  LET n == (IF IsRoot THEN 0 ELSE 1) + (IF step = "create" THEN 1 ELSE 0)
  IN  IF caps + n > Caps THEN Caps ELSE caps + n

\* request_memory for a page; the caller goes on with step.  Root takes a
\* spare frame, also when it has no memory, and it replaces the frame unless
\* it does so already.  A pool that gets no memory, or whose page cannot be
\* mapped for want of memory, is not grown.
RequestFails(step) ==
  /\ pages = 0 \/ (~IsRoot /\ caps = Caps)
  /\ IsRoot => spare # {}
  /\ IF step = "map"
     THEN stack' = Going("take") /\ checking' = FALSE /\ UNCHANGED <<handed, up>>
     ELSE Fails /\ UNCHANGED checking
  /\ spare' = IF IsRoot THEN spare \ {First(spare)} ELSE spare
  /\ refused' = TRUE /\ caps' = CapsLost(step)
  /\ UNCHANGED <<pages, replenish>>

RequestHere(step) ==
  /\ ~IsRoot /\ pages > 0 /\ caps < Caps
  /\ pages' = pages - 1 /\ caps' = caps + 1 /\ stack' = Going(step)
  /\ UNCHANGED <<spare, replenish, refused, checking, handed, up>>

NoSpare ==
  /\ IsRoot /\ spare = {}
  /\ up' = FALSE
  /\ UNCHANGED <<pages, spare, stack, replenish, caps, refused, checking, handed>>

GoingOn(step) ==
  IF replenish THEN Going(step) ELSE <<Fill(1)>> \o Going(step)

RequestInRoot(step) ==
  /\ IsRoot /\ pages > 0 /\ spare # {}
  /\ pages' = pages - 1
  /\ spare' = spare \ {First(spare)}
  /\ replenish' = TRUE
  /\ stack' = GoingOn(step)
  /\ UNCHANGED <<caps, refused, checking, handed, up>>

request_memory(step) ==
  RequestFails(step) \/ RequestHere(step) \/ NoSpare \/ RequestInRoot(step)

\* The loop over spare_frames.
Replenish ==
  /\ up /\ stack # <<>> /\ Top.op = "fill"
  /\ stack' = IF Top.i > 3 THEN Tail(stack)
              ELSE IF Top.i \in spare THEN [stack EXCEPT ![1].i = @ + 1]
              ELSE <<Call(FrameLen)>> \o stack
  /\ replenish' = (Top.i <= 3)
  /\ UNCHANGED <<kobjs, pool, pages, spare, refused, caps, kern, handed, up>>

-----------------------------------------------------------------------------
\* Entries of the list that can become the object.
Usable(want) == {k \in 1..Len(kobjs) :
  ~kobjs[k].typed /\ ~kobjs[k].claimed /\ want <= kobjs[k].len}

\* The smallest of them, the first of those in the list.
Best(want) ==
  CHOOSE k \in Usable(want) : \A j \in Usable(want) :
    \/ kobjs[k].len < kobjs[j].len
    \/ kobjs[k].len = kobjs[j].len /\ k <= j

kobj_alloc(len) ==
  /\ up /\ stack = <<>>
  /\ stack' = <<Call(len)>>
  /\ UNCHANGED <<kobjs, pool, mem, caps, kern, handed, up>>

Look ==
  /\ Running("look")
  /\ IF Usable(Top.want) = {}
     THEN stack' = Going("memory") /\ UNCHANGED kobjs
     ELSE /\ kobjs' = [kobjs EXCEPT ![Best(Top.want)].claimed = TRUE]
          /\ stack' = [stack EXCEPT ![1].step = "split",
                                    ![1].f = kobjs[Best(Top.want)].cid]
  /\ UNCHANGED <<pool, mem, caps, kern, handed, up>>

\* kobj_alloc_new.
kobj_alloc_new ==
  /\ Running("memory")
  /\ request_memory("create")
  /\ UNCHANGED <<kobjs, free, grown, kern>>

\* kcap_alloc finds no free capability.
NoCap ==
  /\ \/ Running("create")
     \/ Running("split") /\ Top.want < kobjs[PlaceOf(Top.f)].len
  /\ caps = Caps
  /\ Fails
  /\ UNCHANGED <<kobjs, pool, mem, caps, kern>>

\* obj_create.
Create ==
  /\ Running("create") /\ caps < Caps
  /\ caps' = caps + 1
  /\ kern' = Append(kern, [cid |-> caps, len |-> PageLen, typed |-> FALSE])
  /\ stack' = [stack EXCEPT ![1].step = "pool", ![1].cid = caps]
  /\ UNCHANGED <<kobjs, pool, mem, handed, up>>

\* kobj_pool_alloc: it grows the pool, unless it does so already.
MustGrow == ~checking /\ free < PoolLow

kobj_pool_alloc ==
  /\ Running("pool")
  /\ IF MustGrow
     THEN /\ checking' = TRUE
          /\ stack' = Going("growing")
     ELSE stack' = Going("take") /\ UNCHANGED checking
  /\ UNCHANGED <<kobjs, free, grown, mem, caps, kern, handed, up>>

GrowRequest ==
  /\ Running("growing")
  /\ request_memory("map")
  /\ UNCHANGED <<kobjs, free, grown, kern>>

\* frame_map_anywhere (Spans) may want memory too, for its pools of spans and for
\* level 2 tables: any number of requests.
MapRequest ==
  /\ Running("map")
  /\ request_memory("map")
  /\ UNCHANGED <<kobjs, free, grown, kern>>

\* The end of grow_pool: the page is mapped and its entries are free.
grow_pool ==
  /\ Running("map")
  /\ free' = free + PoolMore /\ grown' = TRUE /\ checking' = FALSE
  /\ stack' = Going("take")
  /\ UNCHANGED <<kobjs, mem, caps, kern, handed, up>>

NoEntry ==
  /\ Running("take") /\ free = 0
  /\ Fails
  /\ UNCHANGED <<kobjs, pool, mem, caps, kern>>

\* The end of kobj_alloc_new: the new object is first in the list, and
\* kobj_alloc claims it.
AddNew ==
  /\ Running("take") /\ free > 0 /\ Top.f = nil
  /\ free' = free - 1
  /\ kobjs' = <<Obj(Top.cid, PageLen, TRUE)>> \o kobjs
  /\ stack' = [stack EXCEPT ![1].step = "split", ![1].f = Top.cid]
  /\ UNCHANGED <<grown, checking, mem, caps, kern, handed, up>>

\* kobj_split asks for a capability, and for a list entry.
SplitCap ==
  /\ Running("split") /\ caps < Caps
  /\ Top.want < kobjs[PlaceOf(Top.f)].len
  /\ caps' = caps + 1
  /\ stack' = [stack EXCEPT ![1].step = "pool", ![1].cid = caps]
  /\ UNCHANGED <<kobjs, pool, mem, kern, handed, up>>

\* Mutant: the entry keeps its length.
HalvedNever(len) == len

\* The end of kobj_split.  The claimed of the new entry is not assigned: it
\* is what the memory of the entry holds.
Halved(len) == len \div 2

kobj_split ==
  /\ Running("take") /\ free > 0 /\ Top.f # nil
  /\ LET k == PlaceOf(Top.f)
         len == Halved(kobjs[k].len)
     IN  \E claimed \in IF grown THEN BOOLEAN ELSE {FALSE} :
           kobjs' = InsertAt([kobjs EXCEPT ![k].len = len], k + 1,
                             Obj(Top.cid, len, claimed))
  /\ kern' = LET k == CHOOSE j \in 1..Len(kern) : kern[j].cid = Top.f
                 len == kern[k].len \div 2
             IN  Append([kern EXCEPT ![k].len = len],
                        [cid |-> Top.cid, len |-> len, typed |-> FALSE])
  /\ free' = free - 1
  /\ stack' = Going("split")
  /\ UNCHANGED <<grown, checking, mem, caps, handed, up>>

\* obj_retype, and the return.
Retype ==
  /\ Running("split")
  /\ LET k == PlaceOf(Top.f)
         j == CHOOSE i \in 1..Len(kern) : kern[i].cid = Top.f
     IN  /\ Top.want >= kobjs[k].len
         /\ IF kern[j].typed \/ kern[j].len < Top.want
            THEN Fails /\ UNCHANGED <<kobjs, kern, spare>>
            ELSE /\ kern' = [kern EXCEPT ![j].typed = TRUE]
                 /\ kobjs' = [kobjs EXCEPT ![k].typed = TRUE]
                 /\ Return(Top.f)
  /\ UNCHANGED <<pool, pages, replenish, refused, caps>>

Init ==
  /\ kobjs = <<>> /\ kern = <<>> /\ caps = 0
  /\ free = PoolStart /\ grown = FALSE /\ checking = FALSE
  /\ pages = Pages /\ spare = 1..3 /\ replenish = FALSE
  /\ stack = <<>> /\ handed = [once |-> {}, twice |-> FALSE] /\ up = TRUE /\ refused = FALSE

Next ==
  \/ \E len \in Lens : kobj_alloc(len)
  \/ Look \/ kobj_alloc_new \/ NoCap \/ Create \/ kobj_pool_alloc
  \/ GrowRequest \/ MapRequest \/ grow_pool \/ NoEntry \/ AddNew \/ SplitCap \/ kobj_split
  \/ Retype \/ Replenish
Spec == Init /\ [][Next]_vars

-----------------------------------------------------------------------------
(* Properties.                                                             *)

KernelOf(cid) == CHOOSE o \in ToSet(kern) : o.cid = cid

\* The variables have the types of the allocator's data.
TypeOK ==
  /\ \A k \in 1..Len(kobjs) : kobjs[k].cid \in 0..caps /\ kobjs[k].len \in 1..PageLen
  /\ free \in Nat /\ caps \in 0..Caps /\ pages \in 0..Pages
  /\ {grown, checking, replenish, up, refused} \subseteq BOOLEAN
  /\ spare \subseteq 1..3
  /\ Len(stack) <= 4

\* The list says of every object what the kernel says of it, also while a
\* call inside a split has changed other objects.
ListMatchesKernel == \A k \in 1..Len(kobjs) :
  /\ \E o \in ToSet(kern) : o.cid = kobjs[k].cid
  /\ KernelOf(kobjs[k].cid).len = kobjs[k].len
  /\ KernelOf(kobjs[k].cid).typed = kobjs[k].typed

\* An object is the result of one call, and the calls under way split
\* different objects: claimed keeps an inner call from what an outer one has.
EachOwnObject ==
  /\ ~handed.twice
  /\ \A i, j \in 1..Len(stack) :
       /\ stack[i].op = "alloc" /\ stack[j].op = "alloc"
       /\ stack[i].f # nil /\ stack[i].f = stack[j].f
       => i = j

\* A process that is not root runs out of list entries only when it was
\* refused memory: the pool grows while there are entries to grow it with.
PoolSuffices == ~IsRoot /\ Running("take") /\ free = 0 => refused

\* The list of kernel objects is exact, each caller gets an object of its own
\* and the pool of list entries lasts, through calls inside calls.
ObjectsExact == TypeOK /\ ListMatchesKernel /\ EachOwnObject /\ PoolSuffices
=============================================================================
