------------------------------ MODULE Frames ------------------------------
(***************************************************************************)
(* Frames of physical memory and the address spaces built of them          *)
(* (arm/kern/sys.c, arm/lib/c/mmu.c).                                      *)
(*                                                                         *)
(* A frame object names a range of memory.  Memory that is user memory     *)
(* ("MEM") can be mapped, or it can become a first-level table, a          *)
(* second-level table or kernel objects, all at the request of user        *)
(* processes.  The kernel finds a mapped frame again through the list that *)
(* starts at the first-level table, the processor through the tables: two  *)
(* records of the same thing.                                              *)
(*                                                                         *)
(* Memory is counted in pages; a second-level table fills a page.          *)
(* Objects shows that a frame has one capability, or none while it is on a *)
(* list; here that is the set held.                                        *)
(***************************************************************************)
EXTENDS Integers, Sequences

CONSTANTS Frames,     \* the frame objects
          Root,       \* root_l1, the table of the first process
          RootPa,     \* where that table is
          BootTable,  \* the second-level table the kernel gives to it
          BootPage,   \* the page it maps for the first process, at address 0
          NPages,     \* pages of physical memory, from 1
          Ranges,     \* the ranges of memory root makes frames of
          NVa,        \* user addresses, in pages
          PerTable,   \* entries of a second-level table
          L1Len,      \* length of a first-level table
          nil

Page == 1..NPages
Va == 0..(NVa - 1)
L1X(v) == v \div PerTable
L2X(v) == v % PerTable
Index == {L1X(v) : v \in Va}
Entries == 0..(PerTable - 1)

Pages(r) == r.pa .. (r.pa + r.len - 1)

ASSUME FramesOK ==
  /\ Root \in Frames
  /\ NPages \in Nat /\ NVa \in Nat \ {0}
  /\ PerTable \in Nat \ {0} /\ L1Len \in Nat \ {0}
  /\ nil \notin Page /\ nil \notin {"no_l2", "mapped", "unmap"}
  /\ \A r \in Ranges : r.pa \in Page /\ r.len \in Nat \ {0} /\ Pages(r) \subseteq Page
  /\ {RootPa, BootTable, BootPage} \subseteq Page
  /\ BootTable # BootPage
  /\ {BootTable, BootPage} \cap RootPa .. (RootPa + L1Len - 1) = {}
  /\ \A r \in Ranges : Pages(r) \cap {RootPa, BootTable, BootPage} = {}

VARIABLES frame,  \* frame[f]: the object's type, pa, len and va
          list,   \* list[t]: the frames mapped in table t (through next)
          held,   \* the frames a capability refers to
          l1,     \* l1[p], l2[p]: the table that is in page p
          l2,
          panic,  \* why the kernel stopped, or nil
          replaced \* history: the address spaces in which a second-level
                   \* table was put in the place of another

vars == <<frame, list, held, l1, l2, panic, replaced>>

FrameTypes == {"NONE", "MEM", "DEV", "L1", "L2", "KOBJ"}

FrameType == [type: FrameTypes, pa: Page \cup {0}, len: Nat, va: Va]

TypeOK ==
  /\ frame \in [Frames -> FrameType]
  /\ list \in [Frames -> Seq(Frames)]
  /\ held \subseteq Frames
  /\ l1 \in [Page -> [Index -> Page \cup {nil}]]
  /\ l2 \in [Page -> [Entries -> Page \cup {nil}]]
  /\ panic \in {nil, "no_l2", "mapped", "unmap"}
  /\ replaced \subseteq Frames

NoTable == [i \in Index |-> nil]
NoEntries == [i \in Entries |-> nil]

Init ==
  /\ frame = [f \in Frames |->
       IF f = Root THEN [type |-> "L1", pa |-> RootPa, len |-> L1Len, va |-> 0]
                   ELSE [type |-> "NONE", pa |-> 0, len |-> 0, va |-> 0]]
  /\ list = [f \in Frames |-> <<>>]
  /\ held = Frames
  /\ l1 = [p \in Page |-> IF p = RootPa THEN [NoTable EXCEPT ![0] = BootTable]
                                        ELSE NoTable]
  /\ l2 = [p \in Page |-> IF p = BootTable THEN [NoEntries EXCEPT ![0] = BootPage]
                                           ELSE NoEntries]
  /\ panic = nil
  /\ replaced = {}

\* A capability of a frame of one of these types.
Named(f, types) == f \in held /\ frame[f].type \in types

Table(t, v) == l1[frame[t].pa][L1X(v)]
Entry(t, v) == IF Table(t, v) = nil THEN nil ELSE l2[Table(t, v)][L2X(v)]

\* Which of the n pages from v on has entry i of the table in page p.
Offsets(t, v, n, p, i) ==
  {o \in 0..(n - 1) : Table(t, v + o) = p /\ L2X(v + o) = i}

-----------------------------------------------------------------------------
\* Root makes frames of memory it has not given away before: it takes them
\* out of ram_free, or they are devices of the board.
FrameSetup(f, t, r) ==
  /\ Named(f, {"NONE"})
  /\ \A g \in Frames : Pages(frame[g]) \cap Pages(r) = {}
  /\ frame' = [frame EXCEPT ![f].type = t, ![f].pa = r.pa, ![f].len = r.len]
  /\ list' = [list EXCEPT ![f] = <<>>]
  /\ UNCHANGED <<held, l1, l2, panic, replaced>>

FrameL1Setup(f) ==
  /\ Named(f, {"MEM"})
  /\ frame[f].pa % L1Len = 0
  /\ frame[f].len = L1Len
  /\ frame' = [frame EXCEPT ![f].type = "L1", ![f].va = 0]
  /\ list' = [list EXCEPT ![f] = <<>>]
  /\ l1' = [l1 EXCEPT ![frame[f].pa] = NoTable]
  /\ UNCHANGED <<held, l2, panic, replaced>>

\* map_l2: a page for each second-level table.
TableAt(f, o) == frame[f].pa + o

\* The entries of the first-level table that n tables from v on go to.
Spanned(v, n) == {L1X(v) + o : o \in 0..(n - 1)}

\* "TODO: check that there is nothing mapped before": what the entries held
\* is not looked at.  The frame may be as long as there are user addresses.
FrameL2Map(t, f, v) ==
  /\ Named(t, {"L1"})
  /\ Named(f, {"MEM"})
  /\ Spanned(v, frame[f].len) \subseteq Index
  /\ l1' = [l1 EXCEPT ![frame[t].pa] =
       [i \in Index |-> IF i \in Spanned(v, frame[f].len)
                        THEN TableAt(f, i - L1X(v)) ELSE @[i]]]
  /\ l2' = [p \in Page |-> IF p \in Pages(frame[f]) THEN NoEntries ELSE l2[p]]
  /\ frame' = [frame EXCEPT ![f].type = "L2", ![f].va = v]
  /\ list' = [list EXCEPT ![t] = <<f>> \o @]
  /\ held' = held \ {f}
  /\ replaced' = IF \E i \in Spanned(v, frame[f].len) : l1[frame[t].pa][i] # nil
                 THEN replaced \cup {t} ELSE replaced
  /\ UNCHANGED panic

\* Mutant: the type of the frame is not looked at.
MappableAny(f) == f \in held /\ frame[f].type # "NONE"

Mappable(f) == Named(f, {"MEM", "DEV"})

\* sys_frame_map, when every page has a table and a free entry.
FrameMap(t, f, v) ==
  /\ Named(t, {"L1"})
  /\ Mappable(f)
  /\ v + frame[f].len <= NVa
  /\ \A o \in 0..(frame[f].len - 1) : Table(t, v + o) # nil /\ Entry(t, v + o) = nil
  /\ l2' = [p \in Page |-> [i \in Entries |->
       IF Offsets(t, v, frame[f].len, p, i) = {} THEN l2[p][i]
       ELSE frame[f].pa + (CHOOSE o \in Offsets(t, v, frame[f].len, p, i) : TRUE)]]
  /\ frame' = [frame EXCEPT ![f].va = v]
  /\ list' = [list EXCEPT ![t] = <<f>> \o @]
  /\ held' = held \ {f}
  /\ UNCHANGED <<l1, panic, replaced>>

\* It panics at the first page that has not.
FrameMapPanics(t, f, v) ==
  /\ Named(t, {"L1"})
  /\ Mappable(f)
  /\ v + frame[f].len <= NVa
  /\ \E o \in 0..(frame[f].len - 1) :
       /\ \A k \in 0..(o - 1) : Table(t, v + k) # nil /\ Entry(t, v + k) = nil
       /\ \/ Table(t, v + o) = nil /\ panic' = "no_l2"
          \/ Entry(t, v + o) # nil /\ panic' = "mapped"
  /\ UNCHANGED <<frame, list, held, l1, l2, replaced>>

\* Mutant: tables are taken for mapped frames.
FoundTables(t, v) == {i \in DOMAIN list[t] : frame[list[t][i]].va = v}

\* The places in the list of t of frames that are mapped at v.
Found(t, v) ==
  {i \in DOMAIN list[t] : frame[list[t][i]].type # "L2" /\ frame[list[t][i]].va = v}

\* Mutant: the last page is left mapped.
CutBeforeLast(f) == frame[f].len - 1

\* How many pages sys_frame_unmap looks at.
Cut(f) == frame[f].len

\* sys_frame_unmap takes the first frame of the list that is mapped at v.  It
\* stops at the first of its pages that is not mapped, which is a panic, or
\* that is not the page after the one before it, which is not.
FrameUnmap(t, v) ==
  /\ Named(t, {"L1"})
  /\ \E i \in Found(t, v) :
       /\ \A j \in Found(t, v) : i <= j
       /\ LET f == list[t][i]
              InOrder(o) == /\ nil \notin {Entry(t, v), Entry(t, v + o)}
                            /\ Entry(t, v + o) = Entry(t, v) + o
          IN \E n \in 0..Cut(f) :
               /\ \A o \in 0..(n - 1) : InOrder(o)
               /\ n < Cut(f) => ~InOrder(n)
               /\ panic' = IF n < Cut(f) /\ Entry(t, v + n) = nil THEN "unmap" ELSE nil
               /\ l2' = [p \in Page |-> [e \in Entries |->
                    IF Offsets(t, v, n, p, e) = {} THEN l2[p][e] ELSE nil]]
               /\ frame' = [frame EXCEPT ![f].va = 0]
               /\ list' = [list EXCEPT ![t] =
                    SubSeq(@, 1, i - 1) \o SubSeq(@, i + 1, Len(@))]
               /\ held' = IF panic' = nil THEN held \cup {f} ELSE held
  /\ UNCHANGED <<l1, replaced>>

\* sys_obj_create: lengths are a power of two.
ObjCreate(f) ==
  /\ Named(f, {"MEM"})
  /\ \E k \in 0..frame[f].len : 2^k = frame[f].len
  /\ frame' = [frame EXCEPT ![f].type = "KOBJ"]
  /\ held' = held \ {f}
  /\ UNCHANGED <<list, l1, l2, panic, replaced>>

Next ==
  /\ panic = nil
  /\ \/ \E f \in Frames, t \in {"MEM", "DEV"}, r \in Ranges : FrameSetup(f, t, r)
     \/ \E f \in Frames : FrameL1Setup(f) \/ ObjCreate(f)
     \/ \E t, f \in Frames, v \in Va :
          FrameL2Map(t, f, v) \/ FrameMap(t, f, v) \/ FrameMapPanics(t, f, v)
     \/ \E t \in Frames, v \in Va : FrameUnmap(t, v)

Spec == Init /\ [][Next]_vars

-----------------------------------------------------------------------------
Tables == {t \in Frames : frame[t].type = "L1"}

\* The address spaces in which every second-level table is still in use.
Whole == Tables \ replaced

\* The pages that only the kernel may write.
KernelPages ==
  {RootPa, BootTable}
    \cup UNION {Pages(frame[f]) : f \in {g \in Frames : frame[g].type \in {"L1", "L2", "KOBJ"}}}

\* Whatever processes map, unmap and make tables or kernel objects of, no
\* address leads to a page that holds a table or kernel objects, and no page
\* is reached at two addresses, in one address space or in two: in all address
\* spaces where no table was put in the place of another, whatever is done in
\* the others.
PagesExclusive ==
  \A t \in Whole, v \in Va : Entry(t, v) # nil =>
    /\ Entry(t, v) \notin KernelPages
    /\ \A u \in Whole, w \in Va : Entry(u, w) = Entry(t, v) => u = t /\ w = v

\* The frames that the kernel finds through table t.
On(t) == {list[t][i] : i \in DOMAIN list[t]}

\* What is to be found at address v of table t: the first process's boot page,
\* or a page of a frame on the list.
Covers(t, v, p) ==
  \/ t = Root /\ v = 0 /\ p = BootPage
  \/ \E g \in On(t) : LET f == frame[g] IN
       /\ f.type # "L2"
       /\ v - f.va \in 0..(f.len - 1)
       /\ p = f.pa + (v - f.va)

\* The tables of an address space hold the frames of its list, whole and in
\* order, and nothing else (but what the first process was started with), for
\* as long as no second-level table of it is replaced.
TablesMatchList ==
  /\ TypeOK
  /\ \A t \in Whole, v \in Va, p \in Page : Entry(t, v) = p <=> Covers(t, v, p)

\* A frame that the kernel finds on the list of such an address space is there
\* to be unmapped: sys_frame_unmap panics in no other.
UnmapNeverPanics ==
  [][\A t \in Whole, v \in Va : FrameUnmap(t, v) => panic' = nil]_vars

-----------------------------------------------------------------------------
(* What the three properties rest on.                                      *)

\* What frames are: nothing yet, root's first table, or memory of the board
\* that the kernel did not use to start the first process.
FramesSound ==
  /\ frame[Root].type = "L1" /\ frame[Root].pa = RootPa /\ frame[Root].len = L1Len
  /\ \A f \in Frames \ {Root} :
       IF frame[f].type = "NONE" THEN frame[f].len = 0
       ELSE /\ frame[f].len # 0 /\ Pages(frame[f]) \subseteq Page
            /\ Pages(frame[f]) \cap {RootPa, BootTable, BootPage} = {}

\* Memory belongs to one frame, whatever it is used for.
FramesDisjoint ==
  \A f, g \in Frames : f # g => Pages(frame[f]) \cap Pages(frame[g]) = {}

\* A frame on a list is on that list only and has no capability; it is a
\* second-level table or memory mapped inside the address space.
ListsSound ==
  /\ \A t \in Frames : list[t] # <<>> => frame[t].type = "L1"
  /\ \A t \in Frames : \A f \in On(t) :
       /\ f \notin held
       /\ frame[f].type \in {"MEM", "DEV", "L2"}
       /\ frame[f].type # "L2" => frame[f].va + frame[f].len <= NVa
  /\ \A t, u \in Frames : On(t) \cap On(u) # {} => t = u
  /\ \A t \in Frames : \A i, j \in DOMAIN list[t] : list[t][i] = list[t][j] => i = j

\* Each second-level table serves one place of one address space, and is in a
\* page that is a second-level table's.
TablesApart ==
  \A t \in Tables, i \in Index : l1[frame[t].pa][i] # nil =>
    /\ \/ l1[frame[t].pa][i] = BootTable
       \/ \E f \in Frames : frame[f].type = "L2" /\ l1[frame[t].pa][i] \in Pages(frame[f])
    /\ \A u \in Tables, j \in Index :
         l1[frame[u].pa][j] = l1[frame[t].pa][i] => u = t /\ j = i

FramesInv ==
  /\ TablesMatchList
  /\ FramesSound /\ FramesDisjoint /\ ListsSound /\ TablesApart
=============================================================================
