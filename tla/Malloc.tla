------------------------------- MODULE Malloc -------------------------------
(***************************************************************************)
(* malloc and free of the memory library (lib/mem/alloc.c).  A chunk of    *)
(* bin b is 2^b units long; a unit is the smallest chunk.  A request       *)
(* that needs more than the largest chunk gets a frame of its own, which   *)
(* free does not give back.                                                *)
(*                                                                         *)
(* insert_chunk calls itself with the next bin, and get_chunk asks the     *)
(* next bin: both are folds over the bins.  The header of a chunk that is  *)
(* in use holds its size.                                                  *)
(***************************************************************************)
EXTENDS Integers, Sequences, SequencesExt, FiniteSetsExt

CONSTANTS BinMax,    \* BIN_MAX
          Pages,     \* pages that request_memory has to give
          Lens,      \* what callers ask for, header included
          MaxLive,   \* bound: blocks in use
          nil

\* What the code takes for granted of its constants.
MallocOK ==
  BinMax \in Nat /\ Pages \in Nat /\ Lens \subseteq Nat \ {0} /\ MaxLive \in Nat

VARIABLES bins,    \* bins[b]: the addresses in the list of bin b
          pages,   \* pages that were requested so far
          live     \* blocks in use: address, header and what was asked for

vars == <<bins, pages, live>>

CHUNK_SIZE(b) == 2^b
PageLen == CHUNK_SIZE(BinMax)
IsAligned(c, b) == c % CHUNK_SIZE(b) = 0

-----------------------------------------------------------------------------

\* Mutant: the address is not looked at.
JoinsAboveAnywhere(q, c, b, p) == p < Len(q) /\ c + CHUNK_SIZE(b) = q[p + 1]

\* The places p of the loop's pointer at which the chunk c of bin b is joined
\* with the chunk above it, or with the one below it.  A chunk above it that
\* is first in the list is not looked at.
JoinsAbove(q, c, b, p) ==
  IsAligned(c, b + 1) /\ p < Len(q) /\ c + CHUNK_SIZE(b) = q[p + 1]
JoinsBelow(q, c, b, p) ==
  ~IsAligned(c, b + 1) /\ q[p] + CHUNK_SIZE(b) = c

\* The first place where the loop of insert_chunk ends, Len(q)+1 if none.
Stops(q, c, b) ==
  Min({p \in 1..Len(q) : \/ c < q[p]
                         \/ b < BinMax /\ JoinsAbove(q, c, b, p)
                         \/ b < BinMax /\ JoinsBelow(q, c, b, p)}
      \cup {Len(q) + 1})

\* One level of insert_chunk.  s.c is the chunk, nil when it has its place.
InsertIn(s, b) ==
  LET q == s.bins[b]
      p == Stops(q, s.c, b)
      inner == b < BinMax /\ p <= Len(q)
  IN  IF s.c = nil THEN s
      ELSE IF inner /\ JoinsAbove(q, s.c, b, p)
      THEN [s EXCEPT !.bins[b] = RemoveAt(q, p + 1)]
      ELSE IF inner /\ JoinsBelow(q, s.c, b, p)
      THEN [s EXCEPT !.bins[b] = RemoveAt(q, p), !.c = q[p]]
      ELSE [s EXCEPT !.bins[b] = InsertAt(q, p, s.c), !.c = nil]

Bins(b, last) == [i \in 1..last - b + 1 |-> b + i - 1]

insert_chunk(bs, b, c) ==
  FoldLeft(InsertIn, [bins |-> bs, c |-> c], Bins(b, BinMax)).bins

\* The upper halves of a chunk c of bin k that is cut down to bin b.
Cut(bs, c, k, b) ==
  FoldRight(LAMBDA i, t : insert_chunk(t, i, c + CHUNK_SIZE(i)),
            Bins(b, k - 1), bs)

\* get_chunk for bin b, from the smallest bin that has a chunk, or from a new
\* page.  CHUNK_SIZE(BIN_MAX) is a page, so that a page is one chunk.
get_chunk(b) ==
  LET ks == {k \in b..BinMax : bins[k] # <<>>}
      k == Min(ks)
  IN  IF ks # {}
      THEN [c |-> Head(bins[k]), pages |-> pages,
            bins |-> Cut([bins EXCEPT ![k] = Tail(@)], Head(bins[k]), k, b)]
      ELSE IF pages < Pages
      THEN [c |-> pages * PageLen, pages |-> pages + 1,
            bins |-> Cut(bins, pages * PageLen, BinMax, b)]
      ELSE [c |-> nil, pages |-> pages, bins |-> bins]

bin_n(len) == Min({b \in 0..BinMax : CHUNK_SIZE(b) >= len} \cup {BinMax + 1})

\* PAGE_ALIGN(len) in pages.
PagesFor(len) == (len + PageLen - 1) \div PageLen

Block(a, size, len) == [a |-> a, size |-> size, len |-> len]

Malloc(len) ==
  /\ Cardinality(live) < MaxLive
  /\ IF bin_n(len) <= BinMax
     THEN \E g \in {get_chunk(bin_n(len))} :
            /\ bins' = g.bins /\ pages' = g.pages
            /\ live' = IF g.c = nil THEN live
                       ELSE live \cup {Block(g.c, CHUNK_SIZE(bin_n(len)), len)}
     ELSE /\ IF pages + PagesFor(len) <= Pages
             THEN /\ pages' = pages + PagesFor(len)
                  /\ live' = live \cup {Block(pages * PageLen,
                                              PagesFor(len) * PageLen, len)}
             ELSE UNCHANGED <<pages, live>>
          /\ UNCHANGED bins

\* What is larger than a chunk is not given back.
Free(m) ==
  /\ bin_n(m.size) <= BinMax
  /\ bins' = insert_chunk(bins, bin_n(m.size), m.a)
  /\ live' = live \ {m}
  /\ UNCHANGED pages

Init == bins = [b \in 0..BinMax |-> <<>>] /\ pages = 0 /\ live = {}
Next == \/ \E len \in Lens : Malloc(len)
        \/ \E m \in live : Free(m)
Spec == Init /\ [][Next]_vars

-----------------------------------------------------------------------------
(* Properties.                                                             *)

UnitsOf(a, size) == a .. a + size - 1
Chunks == {w \in (0..Pages * PageLen - 1) \X (0..BinMax) : w[1] \in ToSet(bins[w[2]])}

\* The variables have the types of the allocator's data.
TypeOK ==
  /\ bins \in [0..BinMax -> Seq(0..pages * PageLen - 1)]
  /\ pages \in 0..Pages
  /\ \A m \in live : m.a \in Nat /\ m.size \in Nat /\ m.len \in Lens

\* A block is as long as was asked for, and no other block or free chunk
\* has any of it: what insert_chunk joins was free, and what get_chunk cuts
\* is given out once.
BlocksAreOwn ==
  /\ \A m \in live :
       /\ m.size >= m.len
       /\ \A n \in live : m # n => UnitsOf(m.a, m.size) \cap UnitsOf(n.a, n.size) = {}
       /\ \A f \in Chunks : UnitsOf(m.a, m.size) \cap UnitsOf(f[1], CHUNK_SIZE(f[2])) = {}
  /\ \A f, g \in Chunks :
       f # g => UnitsOf(f[1], CHUNK_SIZE(f[2])) \cap UnitsOf(g[1], CHUNK_SIZE(g[2])) = {}

\* Nothing is lost: every unit of the pages requested is in a block or in a
\* list, however often chunks were cut and joined.
NothingLost ==
  UNION ({UnitsOf(m.a, m.size) : m \in live}
         \cup {UnitsOf(f[1], CHUNK_SIZE(f[2])) : f \in Chunks})
    = 0 .. pages * PageLen - 1

\* The lists are in the order of their addresses and a chunk starts at a
\* multiple of its size: insert_chunk finds the chunk next to another only
\* because of this.
ListsInOrder == \A b \in 0..BinMax :
  /\ \A i, j \in 1..Len(bins[b]) : i < j => bins[b][i] < bins[b][j]
  /\ \A c \in ToSet(bins[b]) : IsAligned(c, b)

\* No two blocks overlap and no memory is lost or left out of order, whatever is
\* allocated and freed.
ChunksExact == TypeOK /\ BlocksAreOwn /\ NothingLost /\ ListsInOrder
=============================================================================
