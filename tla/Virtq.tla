------------------------------- MODULE Virtq --------------------------------
(***************************************************************************)
(* The virtio queue (arm/drivers/virtio/virtq.c): descriptors, of which    *)
(* the free ones are a list through next, the ring of chains that are      *)
(* available to the device and the ring of chains that it has used.  The   *)
(* indexes in the rings have 16 bits and wrap around at Word16;            *)
(* last_seen_used does not.  seen is the device's own index.               *)
(***************************************************************************)
EXTENDS Integers

CONSTANTS Word16, End   \* End is the index 0xffff

Nothing == 0

NextInit(num) == [i \in 0..num-1 |-> IF i = num - 1 THEN End ELSE i + 1]

virtq_init(num) ==
  [size |-> num,
   next |-> NextInit(num),
   desc_free_index |-> 0,
   avail |-> [i \in 0..num-1 |-> Nothing], avail_idx |-> 0, seen |-> 0,
   used |-> [i \in 0..num-1 |-> Nothing], used_index |-> 0,
   last_seen_used |-> 0]

\* virtq_get_desc returns this descriptor, and leaves the queue as TakeDesc.
virtq_get_desc(q) == q.desc_free_index
TakeDesc(q) ==
  IF q.desc_free_index = End THEN q
  ELSE [q EXCEPT !.desc_free_index = q.next[q.desc_free_index]]

virtq_free_desc(q, d) ==
  [q EXCEPT !.next[d] = q.desc_free_index, !.desc_free_index = d]

virtq_push(q, d) ==
  [q EXCEPT !.avail[q.avail_idx % q.size] = d,
            !.avail_idx = (@ + 1) % Word16]

\* virtq_pop returns an item if there is one, and leaves the queue as Popped.
IsUsed(q) == q.last_seen_used # q.used_index
virtq_pop(q) == q.used[q.last_seen_used % q.size]
Popped(q) == [q EXCEPT !.last_seen_used = @ + 1]

-----------------------------------------------------------------------------
(* The device's side.                                                      *)

IsAvailable(q) == q.seen # q.avail_idx
Chain(q) == q.avail[q.seen % q.size]
DeviceUses(q) ==
  [q EXCEPT !.seen = (@ + 1) % Word16,
            !.used[q.used_index % q.size] = Chain(q),
            !.used_index = (@ + 1) % Word16]

-----------------------------------------------------------------------------
(* The descriptors of a queue whose chains are pairs.                      *)

\* The list from desc_free_index, in at most as many steps as there are
\* descriptors.
FreeAt(q) ==
  LET at[n \in 0..q.size] ==
        IF n = 0 THEN q.desc_free_index
        ELSE IF at[n - 1] = End THEN End ELSE q.next[at[n - 1]]
  IN  at
FreeDescs(q) == {FreeAt(q)[n] : n \in 0..q.size} \ {End}

\* The chains that were pushed and not popped, by position in the rings, as long
\* as the indexes have not wrapped around: the head of a chain that the device
\* has used is in one ring, of one that it has not in the other.
InFlight(q) == q.last_seen_used .. q.avail_idx - 1
HeadAt(q, i) == IF i < q.seen THEN q.used[i % q.size] ELSE q.avail[i % q.size]
BodyAt(q, i) == q.next[HeadAt(q, i)]
ChainAt(q, i) == {HeadAt(q, i), BodyAt(q, i)}
=============================================================================
