-------------------------------- MODULE Root --------------------------------
(***************************************************************************)
(* The root server (arm/root): it owns the RAM the kernel left, gives      *)
(* frames to the processes that ask (mem.c), and hands each service its    *)
(* endpoint, registers and interrupt and connections to other services     *)
(* (main.c).  Before it serves requests it starts the processes of the     *)
(* bundle (proc.c), with memory of its own.                                *)
(*                                                                         *)
(* Addresses and lengths are in pages.  A length that is computed wraps    *)
(* around at Word, as size_t does.  What root's own library allocates in   *)
(* between (kernel objects, entries of its pools, level 2 tables, and the  *)
(* frames that replace spare ones) shows here as pages that are requested: *)
(* Kobj has how those requests come about and nest, and that root may exit *)
(* for want of a spare frame.                                              *)
(***************************************************************************)
EXTENDS Integers, Sequences, SequencesExt

CONSTANTS Services,    \* processes that are services
          Devices,     \* those of them that drive a device
          Uses,        \* <<s, t>>: s's resources name the service t
          RamLen,      \* RAM is at 0 .. RamLen-1
          Removed,     \* boot, kernel, root and bundle ranges, in that order
          Codes,       \* lengths of the bundled processes, in order
          Lens, Aligns,  \* what services ask for; all of the repository's ask
                       \* for an alignment of a page
          MostPages,   \* pages that the library requests around a request
          Word, nil

\* What the code takes for granted of its constants.
RootOK ==
  /\ Devices \subseteq Services /\ Uses \subseteq Services \X Services
  /\ RamLen \in Nat /\ Lens \subseteq Nat \ {0} /\ Aligns \subseteq Nat \ {0}
  /\ Codes \in Seq(Nat \ {0}) /\ MostPages \in Nat /\ Word \in Nat /\ RamLen < Word

VARIABLES up,        \* FALSE when root has called exit
          ram_free,  \* the list of free ranges
          booting,   \* requests of init_procs that are still to be made
          service,   \* service[s]: what is left to give to s
          rsp,       \* the last reply
          given,     \* history: frames set up, with what was asked for
          handed     \* history: capabilities of services, with their takers

memory == <<ram_free, given>>
vars == <<up, memory, booting, service, rsp, handed>>

-----------------------------------------------------------------------------
(* mem.c: ranges.                                                          *)

Range2(start, len) == [start |-> start, len |-> len]
Without(q, k) == SubSeq(q, 1, k - 1) \o SubSeq(q, k + 1, Len(q))

\* addr_range_split at k: the rest goes behind it in the list.
Split(q, k, off) ==
  LET f == q[k] IN
  SubSeq(q, 1, k - 1)
    \o <<Range2(f.start, off), Range2(f.start + off, (f.len - off) % Word)>>
    \o SubSeq(q, k + 1, Len(q))

\* The first len pages of the k-th range, all of it if it is shorter: the
\* range taken and the list left.
TakeFront(q, k, len) ==
  IF q[k].len > len
  THEN [m |-> Range2(q[k].start, len), free |-> Without(Split(q, k, len), k)]
  ELSE [m |-> q[k], free |-> Without(q, k)]

\* The part of the k-th range from a on.
From(q, k, a, len) ==
  IF q[k].start < a THEN TakeFront(Split(q, k, a - q[k].start), k + 1, len)
  ELSE TakeFront(q, k, len)

First(ks) == CHOOSE k \in ks : \A i \in ks : k <= i

addr_range_get(q, r) ==
  LET k == First({i \in 1..Len(q) :
                    q[i].start <= r.start /\ r.start < q[i].start + q[i].len})
  IN  From(q, k, r.start, r.len).free

\* Mutant: the start is rounded down.
AlignDown(start, align) == (start \div align) * align

AlignUp(start, align) == ((start + align - 1) \div align) * align

LongEnough(f, a, len) == len < a - f.start + f.len

addr_range_get_any(q, len, align) ==
  LET fits == {k \in 1..Len(q) :
                 LongEnough(q[k], AlignUp(q[k].start, align), len)}
      k == First(fits)
  IN  IF fits = {} THEN [m |-> nil, free |-> q]
      ELSE From(q, k, AlignUp(q[k].start, align), len)

\* init_mem: one range of RAM, less the ranges in use.
InitialRam == FoldLeft(addr_range_get, <<Range2(0, RamLen)>>, Removed)

\* request_memory, as far as it takes a range and sets up a frame for it.
TakeFrame(s, a) ==
  LET r == addr_range_get_any(s.free, a.len, a.align) IN
  [free |-> r.free, m |-> r.m,
   given |-> IF r.m = nil THEN s.given
             ELSE s.given \cup {[r |-> r.m, len |-> a.len, align |-> a.align]}]

Ask(len, align) == [len |-> len, align |-> align]
APage == Ask(1, 1)

\* The request a and, if it is met, requests of the library for n pages; no
\* range is nil.
Requested(a, n) ==
  LET first == TakeFrame([free |-> ram_free, given |-> given, m |-> nil], a)
      pages == [i \in 1..(IF first.m = nil THEN 0 ELSE n) |-> APage]
  IN  [FoldLeft(TakeFrame, first, pages) EXCEPT !.m = first.m]

\* request_memory: root may exit when the library has requests of its own.
request_memory(s) == ram_free' = s.free /\ given' = s.given
GoesOn(n) == up' \in IF n = 0 THEN {TRUE} ELSE BOOLEAN

-----------------------------------------------------------------------------
(* proc.c: init_procs starts the bundled processes, one after the other.   *)

\* What init_bundled_proc requests: code, stack, level 1 and level 2 table.
Asked(len) == <<Ask(len, 1), APage, Ask(4, 4), APage>>

\* Its next request.  Without memory it cannot set up what follows, and exits.
init_bundled_proc ==
  /\ up /\ booting # <<>>
  /\ \E n \in 0..MostPages : \E s \in {Requested(Head(booting), n)} :
       request_memory(s) /\ IF s.m = nil THEN up' = FALSE ELSE GoesOn(n)
  /\ booting' = Tail(booting)
  /\ UNCHANGED <<service, rsp, handed>>

Serving == up /\ booting = <<>>

-----------------------------------------------------------------------------
(* main.c: requests.                                                       *)

Reply(p, ret, cap) == rsp' = [to |-> p, ret |-> ret, cap |-> cap]

\* request_memory returns nil, which is not negative, when it has no range:
\* the reply is OK then too, and has no frame.
handle_mem_req(p, len, align) ==
  /\ Serving
  /\ \E n \in 0..MostPages : \E s \in {Requested(Ask(len, align), n)} :
       /\ request_memory(s) /\ GoesOn(n)
       /\ IF up' THEN Reply(p, "OK", s.m) ELSE UNCHANGED rsp
  /\ UNCHANGED <<booting, service, handed>>

\* RESOURCE_type_mount: the number 0 that is left behind passes for an
\* endpoint the next time.
GiveMount(p) ==
  /\ Serving
  /\ LET c == service[p].listen_eid IN
     /\ Reply(p, "OK", c)
     /\ service' = [service EXCEPT ![p].listen_eid = nil]
     /\ handed' = IF c = nil THEN handed ELSE Append(handed, <<p, c>>)
  /\ UNCHANGED <<up, memory, booting>>

\* RESOURCE_type_int and RESOURCE_type_regs.  what is has_irq or has_regs.
MarkGiven(p, what) == [service EXCEPT ![p][what] = TRUE]

GiveDevice(p, what) ==
  /\ Serving
  /\ IF p \in Devices /\ ~service[p][what]
     THEN /\ service' = MarkGiven(p, what)
          /\ handed' = Append(handed, <<p, what>>)
          /\ Reply(p, "OK", what)
     ELSE Reply(p, "ERR", nil) /\ UNCHANGED <<service, handed>>
  /\ UNCHANGED <<up, memory, booting>>

\* The other resources: a connection to the service that p's list names.
GiveConnection(p) ==
  /\ Serving
  /\ IF \E t \in Services : <<p, t>> \in Uses
     THEN Reply(p, "OK", "connect") ELSE Reply(p, "ERR", nil)
  /\ UNCHANGED <<up, memory, booting, service, handed>>

Init ==
  /\ up = TRUE /\ ram_free = InitialRam /\ given = {}
  /\ booting = FlattenSeq([k \in 1..Len(Codes) |-> Asked(Codes[k])])
  /\ service = [s \in Services |-> [listen_eid |-> "listen", has_irq |-> FALSE,
                                    has_regs |-> FALSE]]
  /\ rsp = nil /\ handed = <<>>

Request(p) ==
  \/ \E len \in Lens, align \in Aligns : handle_mem_req(p, len, align)
  \/ GiveMount(p)
  \/ \E what \in {"has_irq", "has_regs"} : GiveDevice(p, what)
  \/ GiveConnection(p)

Next == init_bundled_proc \/ \E p \in Services : Request(p)
Spec == Init /\ [][Next]_vars

-----------------------------------------------------------------------------
(* Properties.                                                             *)

PagesOf(r) == r.start .. r.start + r.len - 1

\* The variables have the types of the root server's data.
TypeOK ==
  /\ up \in BOOLEAN /\ \A k \in 1..Len(booting) : booting[k].len \in Nat
  /\ \A r \in ToSet(ram_free) : r.start \in Nat /\ r.len \in 1..RamLen
  /\ \A s \in Services : service[s].listen_eid \in {"listen", nil} /\
       {service[s].has_irq, service[s].has_regs} \subseteq BOOLEAN

\* RAM is divided between the free ranges, the frames given out and the
\* ranges that were never root's: no page is given twice and none is lost,
\* however the list is split.
RamDivided ==
  LET gone == {g.r : g \in given} \cup ToSet(Removed)
      all == ToSet(ram_free) \cup gone
  IN  /\ UNION {PagesOf(r) : r \in all} = 0 .. RamLen - 1
      /\ \A r, s \in all : r # s => PagesOf(r) \cap PagesOf(s) = {}
      /\ ToSet(ram_free) \cap gone = {}

\* request_memory gives what was asked for, the level 1 tables of the bundled
\* processes included: sys_frame_l1_setup wants exactly this of their frames
\* (arm/kern/sys.c:291, 296).  addr_range_get_any takes a range for longer than it
\* is when its start is not aligned (mem.c:100).  In the order in which the
\* processes are started that does no harm where the first free range is long:
\* what is left before an aligned frame is too short for the next one, or used up
\* before it is asked for.
GivenAsAsked == \A g \in given :
  g.r.len = g.len /\ g.r.start % g.align = 0

\* A service's endpoint, interrupt and registers are handed out once.
HandedOnce == \A i, j \in 1..Len(handed) : handed[i] = handed[j] => i = j

\* Root and its clients get what they ask for, and memory and devices have one
\* owner each.
RequestsServed == TypeOK /\ RamDivided /\ GivenAsAsked /\ HandedOnce

-----------------------------------------------------------------------------
(* Stated in the repository, and not kept by the code (see the README).   *)

\* A request that is answered with OK has brought what it asked for: clients
\* take a failed request for memory to be negative (procs/test/net.c:36).
OkBringsCap == rsp # nil /\ rsp.ret = "OK" => rsp.cap # nil
=============================================================================
