----------------------------- MODULE MCRuntime ------------------------------
(***************************************************************************)
(* Instances of what processes run on: the runtime library with its spans  *)
(* of addresses, its kernel objects (in root, where requests for memory    *)
(* come back to the library, and in other processes) and its memory; the   *)
(* root server; the timer driver and the log server.  They are processes,  *)
(* or data of their own in one, so a run takes the steps of one of them    *)
(* and leaves the others where they start.                                 *)
(***************************************************************************)
EXTENDS Integers, Sequences

CONSTANTS
  nil, drv, cli,
  Table, Tables, Image, FrameLens, Spans0, L1Spans0, Grow, MaxFaults,  \* Spans
  TimerClients, Ms, Times, TimerSlots, MaxTimers,                      \* Timer
  LogClients, Size, Piece, MAX_SERVICES, RegisterLen, FailLen,         \* Log
  SlotLen, LogLens

VARIABLES
  which,                                                    \* the component that runs
  as, live, own, leaked, short, faults,                     \* Spans
  kobjs, free, grown, checking, replenish, caps, pages,     \* Kobj
  spare, stack, kern, handed, up, refused,
  bins, requested, blocks,                                  \* Malloc
  root_up, ram_free, booting, service, rsp, given,          \* Root
  handed_out,
  alive, timers, last_set, cur, on, irq, slots, asked, signals,  \* Timer
  services, ring, pc, slot, from, reply, queue, setup, waits,    \* Log
  logged, printed

spans == <<as, live, own, leaked, short, faults>>
objects == <<kobjs, free, grown, checking, replenish, caps, pages, spare, stack, kern,
             handed, up, refused>>
chunks == <<bins, requested, blocks>>
root == <<root_up, ram_free, booting, service, rsp, given, handed_out>>
timer == <<alive, timers, last_set, cur, on, irq, slots, asked, signals>>
log == <<services, ring, pc, slot, from, reply, queue, setup, waits, logged, printed>>
vars == <<which, spans, objects, chunks, root, timer, log>>

-----------------------------------------------------------------------------
Spans == INSTANCE Spans WITH Lens <- FrameLens

\* Objects that take up to three splits of a page.
KobjRoot == INSTANCE Kobj WITH
  IsRoot <- TRUE, Lens <- {2, 8}, FrameLen <- 2, PageLen <- 8, Pages <- 6, Caps <- 17,
  PoolStart <- 9, PoolMore <- 6, PoolLow <- 3
KobjProcess == INSTANCE Kobj WITH
  IsRoot <- FALSE, Lens <- {1, 4}, FrameLen <- 4, PageLen <- 8, Pages <- 4, Caps <- 12,
  PoolStart <- 5, PoolMore <- 6, PoolLow <- 3

\* Pages of four units: chunks are cut and joined over three bins.
Malloc == INSTANCE Malloc WITH
  BinMax <- 2, Pages <- 3, Lens <- {1, 2, 4, 5}, MaxLive <- 7, pages <- requested,
  live <- blocks

At(start, len) == [start |-> start, len |-> len]

\* The ranges in use are behind a long free one, as on the vexpress board (it loads
\* its image 32 MB into RAM), with short ones between and after them; two processes
\* are started, whose level 1 tables are aligned.
Root == INSTANCE Root WITH
  Services <- {drv, cli}, Devices <- {drv}, Uses <- {<<cli, drv>>}, RamLen <- 26,
  Removed <- <<At(20, 1), At(23, 1), At(21, 1), At(25, 1)>>, Codes <- <<1, 2>>,
  Lens <- {1, 3}, Aligns <- {1}, MostPages <- 1, Word <- 64, up <- root_up,
  handed <- handed_out

Timer == INSTANCE Timer WITH Clients <- TimerClients, Caps <- TimerSlots, caps <- slots

Log == INSTANCE Log WITH Clients <- LogClients

ASSUME ConstantsOK ==
  /\ Spans!SpansOK /\ KobjRoot!KobjOK /\ KobjProcess!KobjOK /\ Malloc!MallocOK
  /\ Root!RootOK /\ Timer!TimerOK /\ Log!LogOK

-----------------------------------------------------------------------------
Init ==
  /\ which \in {"spans", "kobj_root", "kobj", "malloc", "root", "timer", "log"}
  /\ Spans!Init
  /\ IF which = "kobj_root" THEN KobjRoot!Init ELSE KobjProcess!Init
  /\ Malloc!Init
  /\ Root!Init
  /\ Timer!Init
  /\ Log!Init

Next ==
  /\ \/ which = "spans" /\ Spans!Next /\ UNCHANGED <<objects, chunks, root, timer, log>>
     \/ /\ which = "kobj_root" /\ KobjRoot!Next
        /\ UNCHANGED <<spans, chunks, root, timer, log>>
     \/ /\ which = "kobj" /\ KobjProcess!Next
        /\ UNCHANGED <<spans, chunks, root, timer, log>>
     \/ which = "malloc" /\ Malloc!Next /\ UNCHANGED <<spans, objects, root, timer, log>>
     \/ which = "root" /\ Root!Next /\ UNCHANGED <<spans, objects, chunks, timer, log>>
     \/ which = "timer" /\ Timer!Next /\ UNCHANGED <<spans, objects, chunks, root, log>>
     \/ which = "log" /\ Log!Next /\ UNCHANGED <<spans, objects, chunks, root, timer>>
  /\ UNCHANGED which

Spec == Init /\ [][Next]_vars

-----------------------------------------------------------------------------
\* addr.c: the lists of spans divide the address space, know every mapping, and
\* their pools grow in time, also inside the mapping that grows them.
SpansExact == which = "spans" => Spans!SpansExact

\* addr.c: to the program, spans, tables and pools are a plain map from
\* addresses to frames (VaSpec).
ImplementsVa == Spans!ImplementsVa

\* sys.c of the library: the list of kernel objects matches the kernel and every
\* call gets an object of its own, through calls inside calls.
ObjectsExact ==
  /\ which = "kobj_root" => KobjRoot!ObjectsExact
  /\ which = "kobj" => KobjProcess!ObjectsExact

\* alloc.c: blocks never overlap and no memory is lost.
ChunksExact == which = "malloc" => Malloc!ChunksExact

\* root's main.c and mem.c: requests get what they ask for, memory and devices
\* have one owner.
RequestsServed == which = "root" => Root!RequestsServed

\* timer-sp804: no signal is early, and a timer that is set is waited for.
TimersExact == which = "timer" => Timer!TimersExact

\* procs/log and lib/log: what is logged is printed or kept in the ring.
LinesKept == which = "log" => Log!LinesKept
=============================================================================
