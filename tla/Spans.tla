------------------------------- MODULE Spans -------------------------------
(***************************************************************************)
(* The address space of a process as its runtime library divides it        *)
(* (arm/lib/c/addr.c).                                                     *)
(*                                                                         *)
(* Level 1 spans are whole tables: free ones, and those a level 2 table    *)
(* was mapped for, which are divided into free and mapped spans.  The      *)
(* lists are sorted by address, so a set and the choice of the first       *)
(* stands for each.  Spans come from two pools that grow by mapping a page *)
(* of their own, from inside frame_map_anywhere.  Addresses and lengths    *)
(* are in pages.                                                           *)
(***************************************************************************)
EXTENDS Integers, FiniteSetsExt

CONSTANTS Table,    \* pages of a level 2 table
          Tables,   \* tables of the address space
          Image,    \* pages of text and data
          Lens,     \* lengths of the frames that are mapped
          Spans0, L1Spans0,  \* free objects of the pools after addr_init
          Grow,     \* objects that a page adds to a pool
          MaxFaults

\* What the code takes for granted of its constants.
SpansOK ==
  /\ {Table, L1Spans0} \subseteq Nat \ {0} /\ {Tables, Spans0} \subseteq Nat \ {0, 1}
  /\ Grow \in Nat /\ Grow >= 4
  /\ Image \in 1..Table-1 /\ Lens \subseteq 1..(Table*Tables) /\ MaxFaults \in Nat

VARIABLES as,      \* the lists and the pools
          live,    \* mappings made for the program
          own,     \* pages mapped for the pools
          leaked,  \* history: spans whose frame_map failed
          short,   \* history: pool_alloc returned nil
          faults

vars == <<as, live, own, leaked, short, faults>>

Span(va, len) == [va |-> va, len |-> len]
End(s) == s.va + s.len
PagesOf(s) == s.va .. End(s) - 1
TableAlign(n) == ((n + Table - 1) \div Table) * Table

\* addr_init.
image == Span(0, Image)
Start ==
  [l1_mapped |-> {Span(0, Table)}, l1_free |-> {Span(Table, (Tables - 1) * Table)},
   free |-> {Span(Image, Table - Image)}, mapped |-> {image},
   spans |-> Spans0, l1_spans |-> L1Spans0]

-----------------------------------------------------------------------------
\* The shortest span, and of these the first: where both searches end.
Best(ss) == CHOOSE s \in ss :
  \A t \in ss : s.len < t.len \/ (s.len = t.len /\ s.va <= t.va)

\* A result is the state, whether the call succeeded, the spans that it took,
\* and whether a pool was empty.
Failed(a, empty) == [a |-> a, ok |-> FALSE, got |-> {}, empty |-> empty]
Got(a, ss) == [a |-> a, ok |-> TRUE, got |-> ss, empty |-> FALSE]

TailOf(s, len) == Span(s.va + len, s.len - len)

Exact(s, len) == len = s.len

\* split_span and take_add_span for a free span s.
TakeSpan(a, s, len) ==
  LET taken == [a EXCEPT !.free = @ \ {s}, !.mapped = @ \cup {Span(s.va, len)}] IN
  IF Exact(s, len) THEN Got(taken, {s})
  ELSE IF a.spans = 0 THEN Failed(a, TRUE)
  ELSE Got([taken EXCEPT !.free = @ \cup {TailOf(s, len)}, !.spans = @ - 1],
           {Span(s.va, len)})

\* split_l1_span and take_add_l1_span: n pages of a free level 1 span get a table.
TableTaken(a, l, n) ==
  [a EXCEPT !.l1_free = (@ \ {l}) \cup (IF n < l.len THEN {TailOf(l, n)} ELSE {}),
            !.l1_mapped = @ \cup {Span(l.va, n)},
            !.l1_spans = IF n < l.len THEN @ - 1 ELSE @]

\* A new table: its level 1 span is split off and moved, and becomes a span.
TakeTable(a, l, len) ==
  LET n == TableAlign(len)
      moved == TableTaken(a, l, n)
      s == Span(l.va, n)
  IN  IF n < l.len /\ a.l1_spans = 0 THEN Failed(a, TRUE)
      ELSE IF moved.spans = 0 THEN Failed(moved, TRUE)
      ELSE TakeSpan([moved EXCEPT !.free = @ \cup {s}, !.spans = @ - 1], s, len)

\* l2fails: there is no memory for the table, or it cannot be mapped.
get_free_span_slot(a, len, l2fails) ==
  LET fits == {s \in a.free : len <= s.len}
      tables == {l \in a.l1_free : len < l.len}
  IN  IF fits # {} THEN TakeSpan(a, Best(fits), len)
      ELSE IF tables = {} \/ l2fails THEN Failed(a, FALSE)
      ELSE TakeTable(a, Best(tables), len)

\* grow_pool maps a page; while it does, the pools are not checked.  There may
\* be no memory for the page or its table; frame_map does not refuse a page
\* that was just requested, at an address that has a table.
grow_pool(a, pool, fails) ==
  LET r == get_free_span_slot(a, 1, FALSE) IN
  IF fails THEN Failed(a, FALSE)
  ELSE IF ~r.ok THEN r
  ELSE Got(IF pool = "spans" THEN [r.a EXCEPT !.spans = @ + Grow]
           ELSE [r.a EXCEPT !.l1_spans = @ + Grow], r.got)

\* Mutant: the pool is grown when it is nearly empty.
LowLate(a, pool) == (IF pool = "spans" THEN a.spans ELSE a.l1_spans) < 1

Low(a, pool) == IF pool = "spans" THEN a.spans < 4 ELSE a.l1_spans < 3

\* One half of check_pools: the pool's result after r.
Check(r, pool, fails) ==
  IF r.ok /\ Low(r.a, pool)
  THEN LET g == grow_pool(r.a, pool, fails)
       IN  [a |-> g.a, ok |-> g.ok, got |-> r.got \cup g.got, empty |-> g.empty]
  ELSE r

check_pools(a, fail) ==
  Check(Check(Got(a, {}), "l1_spans", fail = "l1_pool"), "spans", fail = "span_pool")

-----------------------------------------------------------------------------
Failures == {"none", "l1_pool", "span_pool", "table", "map"}

\* A frame of len pages is mapped; fail says which kernel call or request for
\* memory fails, if one does.  A span whose frame_map fails is not put back.
frame_map_anywhere(len, fail) ==
  /\ fail # "none" => faults < MaxFaults
  /\ faults' = faults + (IF fail = "none" THEN 0 ELSE 1)
  /\ \E c \in {check_pools(as, fail)} :
     \E r \in {IF c.ok THEN get_free_span_slot(c.a, len, fail = "table")
              ELSE Failed(c.a, c.empty)} :
       /\ as' = r.a /\ own' = own \cup c.got /\ short' = (short \/ r.empty)
       /\ live' = IF fail = "map" THEN live ELSE live \cup r.got
       /\ leaked' = IF fail = "map" THEN leaked \cup r.got ELSE leaked

\* Mutant: the span goes back with the length of its table.
GivenBackTable(s) == Span(s.va, TableAlign(s.len))

GivenBack(s) == s

NotMapped(ss, s) == ss \ {s}

unmap_addr(s) ==
  /\ s \in live
  /\ live' = live \ {s}
  /\ as' = [as EXCEPT !.mapped = NotMapped(@, s), !.free = @ \cup {GivenBack(s)}]
  /\ UNCHANGED <<own, leaked, short, faults>>

Init ==
  /\ as = Start /\ live = {} /\ own = {} /\ leaked = {}
  /\ short = FALSE /\ faults = 0

MapAnywhere == \E len \in Lens, fail \in Failures : frame_map_anywhere(len, fail)
Unmap == \E s \in live : unmap_addr(s)
Next == MapAnywhere \/ Unmap
Spec == Init /\ [][Next]_vars

-----------------------------------------------------------------------------
(* Properties.                                                             *)

AllPages == 0 .. Table * Tables - 1
SpanIn(ss) == \A s \in ss : s.va \in Nat /\ s.len \in Nat \ {0}

\* The variables have the types of struct span and struct l1_span.
TypeOK ==
  /\ SpanIn(as.l1_mapped) /\ SpanIn(as.l1_free) /\ SpanIn(as.free) /\ SpanIn(as.mapped)
  /\ as.spans \in Nat /\ as.l1_spans \in Nat
  /\ SpanIn(live) /\ SpanIn(own) /\ SpanIn(leaked)
  /\ short \in BOOLEAN /\ faults \in 0..MaxFaults

Disjoint(ss) == \A s, t \in ss : s # t => PagesOf(s) \cap PagesOf(t) = {}
Covers(ss, pages) == Disjoint(ss) /\ UNION {PagesOf(s) : s \in ss} = pages

\* No address is lost and none is in two lists, however often tables and
\* spans are split and moved: the level 1 spans divide the address space, and
\* the free and mapped spans divide what has tables.
Divides(a) ==
  /\ a.l1_mapped \cap a.l1_free = {}
  /\ Covers(a.l1_mapped \cup a.l1_free, AllPages)
  /\ a.free \cap a.mapped = {}
  /\ Covers(a.free \cup a.mapped, UNION {PagesOf(l) : l \in a.l1_mapped})
Divided == Divides(as)

\* Everything in the mapped lists is accounted for: the image, the pages of
\* the pools, the program's mappings and the spans whose mapping failed.
MappedKnown == as.mapped = {image} \cup own \cup live \cup leaked

\* check_pools grows the pools in time: pool_alloc never comes back empty,
\* even while a pool is being grown.
NeverShort == ~short

\* The program sees mappings that never overlap (VaSpec).
Va == INSTANCE VaSpec WITH Pages <- AllPages
ImplementsVa == Va!Spec

\* The lists of addr.c are exact and its pools never run out.
SpansExact == TypeOK /\ Divided /\ MappedKnown /\ NeverShort

-----------------------------------------------------------------------------
(* What SpansExact and ImplementsVa rest on.                               *)

SpanType == [va : Nat, len : Nat \ {0}]
AsType == [l1_mapped : SUBSET SpanType, l1_free : SUBSET SpanType, free : SUBSET SpanType,
           mapped : SUBSET SpanType, spans : Nat, l1_spans : Nat]

\* Free level 1 spans are whole tables.
WholeTables(a) == \A l \in a.l1_free : \E k \in 0..Tables : l.len = k * Table

\* What the pools still have is enough for both of them to grow, one after
\* the other: a page for a pool comes out of a free span, which takes one
\* object, or where there is none out of a new table, which takes two.
PoolsSuffice(a) ==
  /\ a.l1_spans >= 1
  /\ IF a.l1_spans < 3 THEN a.spans >= 3 \/ (a.spans = 2 /\ a.free # {})
     ELSE a.spans >= 2 \/ (a.spans = 1 /\ a.free # {})

\* What the program may unmap is its own.
LiveApart == image \notin live /\ live \cap (own \cup leaked) = {}

SpansInv ==
  /\ as \in AsType /\ Divided /\ WholeTables(as) /\ PoolsSuffice(as)
  /\ live \in SUBSET SpanType /\ own \in SUBSET SpanType /\ leaked \in SUBSET SpanType
  /\ MappedKnown /\ LiveApart /\ short = FALSE /\ faults \in 0..MaxFaults
=============================================================================
