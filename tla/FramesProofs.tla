--------------------------- MODULE FramesProofs ---------------------------
(***************************************************************************)
(* The kernel's two records of an address space, the list and the tables,  *)
(* agree, no process reaches a page it should not and sys_frame_unmap does *)
(* not panic, in every address space where no second-level table was put   *)
(* in the place of another, whatever is done in the others: for any amount *)
(* of memory, any number of frames and any sizes of tables.                *)
(***************************************************************************)
EXTENDS Frames, ListTheorems, TLAPS

-----------------------------------------------------------------------------
(* What the invariant says of a frame, a table and an address.             *)

\* An object that changes one of its fields stays a frame object.
LEMMA FrameTyped ==
  ASSUME NEW r \in FrameType
  PROVE  /\ r.type \in FrameTypes /\ r.pa \in Page \cup {0} /\ r.len \in Nat /\ r.va \in Va
         /\ \A x \in FrameTypes : [r EXCEPT !.type = x] \in FrameType
         /\ \A x \in Page \cup {0} : [r EXCEPT !.pa = x] \in FrameType
         /\ \A x \in Nat : [r EXCEPT !.len = x] \in FrameType
         /\ \A x \in Va : [r EXCEPT !.va = x] \in FrameType
  BY DEF FrameType

\* L1X and L2X together are the address.
LEMMA Address ==
  /\ \A v \in Va : v \in Nat /\ v < NVa /\ L1X(v) \in Index /\ L2X(v) \in Entries
  /\ \A v, w \in Va : L1X(v) = L1X(w) /\ L2X(v) = L2X(w) => v = w
<1> USE FramesOK
<1>1. ASSUME NEW v \in Va
      PROVE  v \in Nat /\ v < NVa /\ L1X(v) \in Index /\ L2X(v) \in Entries
  <2>1. v \in Nat /\ v < NVa
    BY DEF Va
  <2>2. v % PerTable \in 0..(PerTable - 1)
    BY <2>1
  <2> QED
    BY <2>1, <2>2 DEF Index, Entries, L2X
<1>2. ASSUME NEW v \in Nat, NEW w \in Nat, NEW n \in Nat \ {0}, v \div n = w \div n, v % n = w % n
      PROVE  v = w
  BY <1>2
<1> QED
  BY <1>1, <1>2 DEF L1X, L2X

\* Tables are told apart by where they are, and their entries by where they lead.
LEMMA Apart ==
  ASSUME FramesInv
  PROVE  /\ \A t \in Tables : t \in Frames /\ frame[t].pa \in Pages(frame[t]) /\ frame[t].pa \in Page
         /\ \A t, u \in Tables : frame[t].pa = frame[u].pa => t = u
         /\ \A t \in Tables, v \in Va : Table(t, v) \in Page \cup {nil}
         /\ \A t, u \in Tables, v, w \in Va :
              Table(t, v) # nil /\ Table(u, w) = Table(t, v) /\ L2X(v) = L2X(w)
                => t = u /\ v = w
<1> USE FramesOK DEF FramesInv
<1>0. TypeOK
  BY DEF TablesMatchList
<1>1. \A t \in Tables : t \in Frames /\ frame[t].len \in Nat \ {0} /\ frame[t].pa \in Int
  <2> SUFFICES ASSUME NEW t \in Tables
               PROVE  t \in Frames /\ frame[t].len \in Nat \ {0} /\ frame[t].pa \in Int
    OBVIOUS
  <2>1. frame[t] \in FrameType /\ t \in Frames
    BY <1>0 DEF Tables, TypeOK
  <2>2. frame[t].len \in Nat /\ frame[t].pa \in Int
    BY <2>1, FrameTyped DEF Page
  <2>3. frame[t].len # 0
    BY <2>1 DEF Tables, FramesSound
  <2> QED
    BY <2>1, <2>2, <2>3
<1>2. \A t \in Tables : frame[t].pa \in Pages(frame[t])
  BY <1>1 DEF Pages
<1>3. \A t \in Tables : frame[t].pa \in Page
  BY <1>1, <1>2 DEF FramesSound, Tables
<1>4. \A t, u \in Tables : frame[t].pa = frame[u].pa => t = u
  BY <1>1, <1>2 DEF FramesDisjoint
<1>5. \A t \in Tables, v \in Va : Table(t, v) \in Page \cup {nil}
  BY <1>0, <1>3, Address DEF Table, TypeOK
<1>6. \A t, u \in Tables, v, w \in Va :
        Table(t, v) # nil /\ Table(u, w) = Table(t, v) /\ L2X(v) = L2X(w) => t = u /\ v = w
  BY Address DEF TablesApart, Table
<1> QED
  BY <1>1, <1>2, <1>3, <1>4, <1>5, <1>6

\* A frame that has a capability is on no list, and neither is the root table.
LEMMA HeldOff ==
  ASSUME FramesInv
  PROVE  /\ \A t \in Frames, f \in held : f \notin On(t)
         /\ \A t \in Frames : On(t) \subseteq Frames \ (Tables \cup {Root})
         /\ \A t \in Frames \ Tables : list[t] = <<>> /\ On(t) = {}
<1> USE DEF FramesInv
<1>1. \A t \in Frames, f \in held : f \notin On(t)
  BY DEF ListsSound
<1>2. \A t \in Frames : On(t) \subseteq Frames
  BY DEF TablesMatchList, TypeOK, On
<1>3. \A t \in Frames : On(t) \cap (Tables \cup {Root}) = {}
  BY DEF ListsSound, FramesSound, Tables
<1>4. \A t \in Frames \ Tables : list[t] = <<>>
  BY DEF ListsSound, Tables
<1>5. \A t \in Frames \ Tables : On(t) = {}
  <2> SUFFICES ASSUME NEW t \in Frames \ Tables PROVE DOMAIN list[t] = {}
    BY DEF On
  <2>1. list[t] = <<>>
    BY <1>4
  <2> QED
    BY <2>1
<1> QED
  BY <1>1, <1>2, <1>3, <1>4, <1>5

\* Frames made of memory are where there is memory, and share none of it.
LEMMA FramePages ==
  ASSUME FramesInv
  PROVE  /\ \A f \in Frames : frame[f].pa \in Int /\ frame[f].len \in Nat /\ frame[f].va \in Va
         /\ \A f \in Frames \ {Root} : \A o \in 0..(frame[f].len - 1) :
              /\ frame[f].pa + o \in Page \cap Pages(frame[f])
              /\ frame[f].pa + o \notin {RootPa, BootTable, BootPage}
<1> USE FramesOK DEF FramesInv
<1>1. \A f \in Frames : frame[f].pa \in Int /\ frame[f].len \in Nat /\ frame[f].va \in Va
  BY FrameTyped DEF TablesMatchList, TypeOK, Page
<1>2. ASSUME NEW f \in Frames \ {Root}, NEW o \in 0..(frame[f].len - 1)
      PROVE  /\ frame[f].pa + o \in Page \cap Pages(frame[f])
             /\ frame[f].pa + o \notin {RootPa, BootTable, BootPage}
  <2>1. frame[f].pa + o \in Pages(frame[f]) /\ frame[f].len # 0
    BY <1>1 DEF Pages
  <2> QED
    BY <2>1 DEF FramesSound
<1> QED
  BY <1>1, <1>2

\* What the tables of a whole address space say is a page of a frame on the
\* list, or the boot page.
LEMMA EntryCovered ==
  ASSUME FramesInv
  PROVE  /\ \A t \in Tables, v \in Va : Entry(t, v) \in Page \cup {nil}
         /\ \A t \in Whole, v \in Va, p \in Page : Entry(t, v) = p <=> Covers(t, v, p)
         /\ \A t \in Tables : \A v, p : Covers(t, v, p) => p \in Page
<1> USE DEF FramesInv
<1>1. \A t \in Tables, v \in Va : Entry(t, v) \in Page \cup {nil}
  BY Apart, Address DEF TablesMatchList, TypeOK, Entry
<1>2. ASSUME NEW t \in Tables, NEW v, NEW p, Covers(t, v, p) PROVE p \in Page
  <2>1. t \in Frames
    BY DEF Tables
  <2> QED
    BY <1>2, <2>1, HeldOff, FramePages, FramesOK DEF Covers
<1> QED
  BY <1>1, <1>2 DEF TablesMatchList

\* The frames of the lists are apart, and so is what the processes reach.
LEMMA Exclusive == FramesInv => PagesExclusive
<1> SUFFICES ASSUME FramesInv, NEW t \in Whole, NEW v \in Va, Entry(t, v) # nil
             PROVE  /\ Entry(t, v) \notin KernelPages
                    /\ \A u \in Whole, w \in Va : Entry(u, w) = Entry(t, v) => u = t /\ w = v
  BY DEF PagesExclusive
<1> DEFINE p == Entry(t, v)
<1>0. Whole \subseteq Tables
  BY DEF Whole
<1>1. p \in Page /\ Covers(t, v, p)
  BY <1>0, EntryCovered
<1>2. t \in Frames /\ v \in Int
  BY <1>0, Address DEF Tables
<1>3. ASSUME NEW u \in Tables, NEW w \in Va, NEW g \in On(u), NEW q,
             w - frame[g].va \in 0..(frame[g].len - 1), q = frame[g].pa + (w - frame[g].va)
      PROVE  q \in Pages(frame[g]) /\ q \notin {RootPa, BootTable, BootPage} /\ g \in Frames \ {Root}
  BY <1>3, HeldOff, FramePages DEF Tables
<1>4. ASSUME NEW g \in On(t), frame[g].type # "L2", p \in Pages(frame[g]), g \in Frames,
             p \notin {RootPa, BootTable, BootPage}
      PROVE  p \notin KernelPages
  <2>1. frame[g].type \in {"MEM", "DEV"}
    BY <1>2, <1>4 DEF FramesInv, ListsSound
  <2> QED
    BY <1>4, <2>1 DEF FramesInv, FramesDisjoint, KernelPages
<1>5. BootPage \notin KernelPages
  <2>1. \A f \in Frames : BootPage \notin Pages(frame[f])
    <3>1. BootPage \notin Pages(frame[Root])
      BY FramesOK DEF FramesInv, FramesSound, Pages
    <3>2. ASSUME NEW f \in Frames \ {Root} PROVE BootPage \notin Pages(frame[f])
      <4>1. CASE frame[f].type = "NONE"
        BY <4>1, FramePages DEF FramesInv, FramesSound, Pages
      <4>2. CASE frame[f].type # "NONE"
        BY <4>2 DEF FramesInv, FramesSound
      <4> QED
        BY <4>1, <4>2
    <3> QED
      BY <3>1, <3>2
  <2>2. BootPage # RootPa /\ BootPage # BootTable
    BY FramesOK DEF Page
  <2> QED
    BY <2>1, <2>2 DEF KernelPages
<1>6. p \notin KernelPages
  BY <1>0, <1>1, <1>3, <1>4, <1>5 DEF Covers
<1>7. ASSUME NEW u \in Whole, NEW w \in Va, Entry(u, w) = p PROVE u = t /\ w = v
  <2>1. Covers(u, w, p) /\ u \in Frames /\ w \in Int
    BY <1>0, <1>1, <1>7, EntryCovered, Address DEF Tables
  <2>2. CASE p = BootPage
    BY <1>0, <1>1, <1>3, <2>1, <2>2 DEF Covers
  <2>3. CASE p # BootPage
    <3>1. PICK g \in On(t) : v - frame[g].va \in 0..(frame[g].len - 1) /\ p = frame[g].pa + (v - frame[g].va)
      BY <1>1, <2>3 DEF Covers
    <3>2. PICK h \in On(u) : w - frame[h].va \in 0..(frame[h].len - 1) /\ p = frame[h].pa + (w - frame[h].va)
      BY <2>1, <2>3 DEF Covers
    <3>3. p \in Pages(frame[g]) \cap Pages(frame[h]) /\ g \in Frames /\ h \in Frames
      BY <1>0, <1>3, <3>1, <3>2
    <3>4. g = h
      BY <3>3 DEF FramesInv, FramesDisjoint
    <3>5. u = t
      BY <1>2, <2>1, <3>4 DEF FramesInv, ListsSound
    <3>6. frame[g].pa \in Int /\ frame[g].va \in Int
      BY <3>3, FramePages, Address
    <3> QED
      BY <1>2, <2>1, <3>1, <3>2, <3>4, <3>5, <3>6
  <2> QED
    BY <2>2, <2>3
<1> QED
  BY <1>6, <1>7

-----------------------------------------------------------------------------
(* The invariant, action by action.                                        *)

\* The kernel starts the first process with one page mapped, at address 0.
LEMMA InitInv == Init => FramesInv
<1> SUFFICES ASSUME Init PROVE FramesInv
  OBVIOUS
<1> USE FramesOK DEF Init
<1>1. 0 \in Va /\ L1X(0) = 0 /\ L2X(0) = 0 /\ 0 \in Index /\ 0 \in Entries
  <2>1. 0 \in Va /\ 0 \in Entries /\ 0 \div PerTable = 0 /\ 0 % PerTable = 0
    BY DEF Va, Entries
  <2> QED
    BY <2>1 DEF L1X, L2X, Index
<1>2. TypeOK
  <2>1. frame \in [Frames -> FrameType]
    BY <1>1 DEF FrameTypes, FrameType
  <2>2. l1 \in [Page -> [Index -> Page \cup {nil}]]
    BY <1>1 DEF NoTable
  <2>3. l2 \in [Page -> [Entries -> Page \cup {nil}]]
    BY <1>1 DEF NoEntries
  <2> QED
    BY <2>1, <2>2, <2>3 DEF TypeOK
<1>3. Tables = {Root}
  BY DEF Tables
<1>4. \A v \in Va : Table(Root, v) = IF L1X(v) = 0 THEN BootTable ELSE nil
  BY <1>1, Address DEF Table, NoTable
<1>5. ASSUME NEW v \in Va PROVE Entry(Root, v) = IF v = 0 THEN BootPage ELSE nil
  <2>1. CASE L1X(v) = 0
    <3>1. Entry(Root, v) = l2[BootTable][L2X(v)]
      BY <1>4, <2>1 DEF Entry
    <3>2. l2[BootTable][L2X(v)] = IF L2X(v) = 0 THEN BootPage ELSE nil
      BY <1>1, Address DEF NoEntries
    <3>3. L2X(v) = 0 <=> v = 0
      BY <1>1, <2>1, Address
    <3> QED
      BY <3>1, <3>2, <3>3
  <2>2. CASE L1X(v) # 0
    BY <1>1, <1>4, <2>2 DEF Entry
  <2> QED
    BY <2>1, <2>2
<1>6. \A t \in Frames : On(t) = {}
  <2> SUFFICES ASSUME NEW t \in Frames PROVE DOMAIN list[t] = {}
    BY DEF On
  <2> QED
    OBVIOUS
<1>7. TablesMatchList
  BY <1>2, <1>3, <1>5, <1>6 DEF TablesMatchList, Covers, Whole
<1>9. FramesSound
  BY DEF FramesSound
<1>10. FramesDisjoint
  BY DEF FramesDisjoint, Pages
<1>11. ListsSound
  <2>1. \A t \in Frames : DOMAIN list[t] = {}
    OBVIOUS
  <2> QED
    BY <1>6, <2>1 DEF ListsSound
<1>12. TablesApart
  BY <1>1, <1>3 DEF TablesApart, NoTable
<1> QED
  BY <1>7, <1>9, <1>10, <1>11, <1>12 DEF FramesInv

\* Memory that belongs to no frame is given to one.
LEMMA SetupInv ==
  ASSUME FramesInv, NEW f \in Frames, NEW t \in {"MEM", "DEV"}, NEW r \in Ranges,
         FrameSetup(f, t, r)
  PROVE  FramesInv'
<1> USE FramesOK DEF FramesInv
<1>1. f \in held /\ f # Root /\ f \notin Tables
  BY DEF FrameSetup, Named, FramesSound, Tables
<1>2. list' = list /\ list[f] = <<>>
  BY <1>1, HeldOff DEF FrameSetup, TablesMatchList, TypeOK
<1>3. /\ \A g \in Frames \ {f} : frame'[g] = frame[g]
      /\ frame'[f].type = t /\ frame'[f].pa = r.pa /\ frame'[f].len = r.len
      /\ Pages(frame'[f]) = Pages(r)
  BY DEF FrameSetup, TablesMatchList, TypeOK, Pages
<1>4. TypeOK'
  <2>1. frame \in [Frames -> FrameType] /\ t \in FrameTypes
    BY DEF TablesMatchList, TypeOK, FrameTypes
  <2>2. frame' = [frame EXCEPT ![f] =
          [[[frame[f] EXCEPT !.type = t] EXCEPT !.pa = r.pa] EXCEPT !.len = r.len]]
    BY <2>1 DEF FrameSetup
  <2>3. frame' \in [Frames -> FrameType]
    BY <2>1, <2>2, FrameTyped
  <2> QED
    BY <1>2, <2>3 DEF FrameSetup, TablesMatchList, TypeOK
<1>5. Tables' = Tables
  BY <1>1, <1>3 DEF Tables
<1>6. \A u \in Frames : On(u)' = On(u) /\ f \notin On(u)
  BY <1>1, <1>2, HeldOff DEF On
<1>7. \A u \in Tables : frame'[u] = frame[u] /\ u \in Frames
  BY <1>1, <1>3 DEF Tables
<1>8. \A u \in Tables, v \in Va : Entry(u, v)' = Entry(u, v)
  <2>1. l1' = l1 /\ l2' = l2
    BY DEF FrameSetup
  <2> QED
    BY <1>7, <2>1 DEF Entry, Table
<1>9. \A u \in Tables, v \in Va, p \in Page : Covers(u, v, p)' <=> Covers(u, v, p)
  <2>1. \A u \in Tables : \A g \in On(u) : frame'[g] = frame[g]
    BY <1>3, <1>6, <1>7, HeldOff
  <2> QED
    BY <1>6, <1>7, <2>1 DEF Covers
<1>10. TablesMatchList'
  <2>1. Whole' = Whole /\ Whole \subseteq Tables
    BY <1>5 DEF Whole, FrameSetup
  <2> QED
    BY <1>4, <1>8, <1>9, <2>1 DEF TablesMatchList
<1>11. FramesSound'
  BY <1>1, <1>3 DEF FramesSound
<1>12. FramesDisjoint'
  BY <1>3 DEF FrameSetup, FramesDisjoint
<1>13. ListsSound'
  <2>1. \A u \in Frames : \A g \in On(u) : frame'[g] = frame[g]
    BY <1>3, <1>6, HeldOff
  <2>2. \A u \in Frames : list[u] # <<>> => frame'[u] = frame[u]
    BY <1>2, <1>3
  <2>3. held' = held
    BY DEF FrameSetup
  <2> QED
    BY <1>2, <1>6, <2>1, <2>2, <2>3 DEF ListsSound
<1>14. TablesApart'
  <2>1. l1' = l1
    BY DEF FrameSetup
  <2>2. \A g \in Frames : frame[g].type = "L2" => frame'[g] = frame[g]
    BY <1>3 DEF FrameSetup, Named
  <2> QED
    BY <1>5, <1>7, <2>1, <2>2 DEF TablesApart
<1> QED
  BY <1>10, <1>11, <1>12, <1>13, <1>14

\* A new first-level table is empty, and leaves the others as they are.
LEMMA L1SetupInv ==
  ASSUME FramesInv, NEW f \in Frames, FrameL1Setup(f)
  PROVE  FramesInv'
<1> USE FramesOK DEF FramesInv
<1>1. f \in held /\ f # Root /\ f \notin Tables /\ frame[f].type = "MEM"
  BY DEF FrameL1Setup, Named, FramesSound, Tables
<1>2. list' = list /\ list[f] = <<>>
  BY <1>1, HeldOff DEF FrameL1Setup, TablesMatchList, TypeOK
<1>3. /\ \A g \in Frames \ {f} : frame'[g] = frame[g]
      /\ frame'[f].type = "L1" /\ frame'[f].pa = frame[f].pa /\ frame'[f].len = frame[f].len
      /\ \A g \in Frames : Pages(frame'[g]) = Pages(frame[g])
  BY DEF FrameL1Setup, TablesMatchList, TypeOK, Pages
<1>4. frame[f].pa \in Page /\ frame[f].pa \in Pages(frame[f])
  <2>0. frame[f].len # 0 /\ frame[f].len \in Nat
    BY <1>1, FramePages DEF FramesSound
  <2>1. frame[f].pa + 0 \in Page \cap Pages(frame[f])
    BY <1>1, <2>0, FramePages
  <2> QED
    BY <2>1, FramePages
<1>5. TypeOK'
  <2>1. 0 \in Va
    BY DEF Va
  <2>2. l1' \in [Page -> [Index -> Page \cup {nil}]]
    BY <1>4 DEF FrameL1Setup, TablesMatchList, TypeOK, NoTable
  <2>3. frame \in [Frames -> FrameType] /\ "L1" \in FrameTypes
    BY DEF TablesMatchList, TypeOK, FrameTypes
  <2>4. frame' = [frame EXCEPT ![f] = [[frame[f] EXCEPT !.type = "L1"] EXCEPT !.va = 0]]
    BY <2>3 DEF FrameL1Setup
  <2>5. frame' \in [Frames -> FrameType]
    BY <2>1, <2>3, <2>4, FrameTyped
  <2> QED
    BY <1>2, <2>2, <2>5 DEF FrameL1Setup, TablesMatchList, TypeOK
<1>6. Tables' = Tables \cup {f}
  BY <1>3 DEF Tables
<1>7. \A u \in Frames : On(u)' = On(u) /\ f \notin On(u)
  BY <1>1, <1>2, HeldOff DEF On
<1>8. \A u \in Tables : /\ u \in Frames /\ u # f /\ frame'[u] = frame[u]
                        /\ l1'[frame'[u].pa] = l1[frame[u].pa]
  <2>1. ASSUME NEW u \in Tables PROVE frame[u].pa # frame[f].pa
    BY <1>1, <1>4, Apart DEF FramesDisjoint
  <2> QED
    BY <1>1, <1>3, <2>1 DEF Tables, FrameL1Setup, TablesMatchList, TypeOK
<1>9. l1'[frame'[f].pa] = NoTable
  BY <1>3, <1>4 DEF FrameL1Setup, TablesMatchList, TypeOK
<1>10. \A u \in Tables, v \in Va : Entry(u, v)' = Entry(u, v)
  <2>1. l2' = l2
    BY DEF FrameL1Setup
  <2> QED
    BY <1>8, <2>1 DEF Entry, Table
<1>11. \A v \in Va : Entry(f, v)' = nil
  BY <1>9, Address DEF Entry, Table, NoTable
<1>12. \A u \in Tables, v \in Va, p \in Page : Covers(u, v, p)' <=> Covers(u, v, p)
  <2>1. \A u \in Tables : \A g \in On(u) : frame'[g] = frame[g]
    BY <1>3, <1>7, <1>8, HeldOff
  <2> QED
    BY <1>7, <1>8, <2>1 DEF Covers
<1>13. \A v \in Va, p \in Page : ~Covers(f, v, p)'
  BY <1>1, <1>7, HeldOff DEF Covers
<1>14. TablesMatchList'
  <2>1. Whole' \subseteq Whole \cup {f} /\ Whole \subseteq Tables
    BY <1>6 DEF Whole, FrameL1Setup
  <2> QED
    BY <1>5, <1>10, <1>11, <1>12, <1>13, <2>1 DEF TablesMatchList
<1>15. FramesSound'
  BY <1>1, <1>3 DEF FramesSound
<1>16. FramesDisjoint'
  BY <1>3 DEF FramesDisjoint
<1>17. ListsSound'
  <2>1. \A u \in Frames : \A g \in On(u) : frame'[g] = frame[g]
    BY <1>3, <1>7, HeldOff
  <2>2. \A u \in Frames : list[u] # <<>> => frame'[u] = frame[u]
    BY <1>2, <1>3
  <2>3. held' = held
    BY DEF FrameL1Setup
  <2> QED
    BY <1>2, <1>7, <2>1, <2>2, <2>3 DEF ListsSound
<1>18. TablesApart'
  <2>1. \A g \in Frames : frame[g].type = "L2" => frame'[g] = frame[g]
    BY <1>1, <1>3
  <2>2. \A i \in Index : l1'[frame'[f].pa][i] = nil
    BY <1>9 DEF NoTable
  <2> QED
    BY <1>6, <1>8, <2>1, <2>2 DEF TablesApart
<1> QED
  BY <1>14, <1>15, <1>16, <1>17, <1>18

\* Memory that becomes kernel objects was mapped nowhere.
LEMMA ObjCreateInv ==
  ASSUME FramesInv, NEW f \in Frames, ObjCreate(f)
  PROVE  FramesInv'
<1> USE FramesOK DEF FramesInv
<1>1. f \in held /\ f # Root /\ f \notin Tables /\ frame[f].type = "MEM"
  BY DEF ObjCreate, Named, FramesSound, Tables
<1>2. list' = list /\ l1' = l1 /\ l2' = l2 /\ held' = held \ {f}
      /\ panic' = panic /\ replaced' = replaced
  BY DEF ObjCreate
<1>3. /\ \A g \in Frames \ {f} : frame'[g] = frame[g]
      /\ frame'[f].type = "KOBJ" /\ frame'[f].pa = frame[f].pa /\ frame'[f].len = frame[f].len
      /\ \A g \in Frames : Pages(frame'[g]) = Pages(frame[g])
  BY DEF ObjCreate, TablesMatchList, TypeOK, Pages
<1>4. TypeOK'
  <2>1. frame \in [Frames -> FrameType] /\ "KOBJ" \in FrameTypes
    BY DEF TablesMatchList, TypeOK, FrameTypes
  <2>2. frame' = [frame EXCEPT ![f] = [frame[f] EXCEPT !.type = "KOBJ"]]
    BY DEF ObjCreate
  <2>3. frame' \in [Frames -> FrameType]
    BY <2>1, <2>2, FrameTyped
  <2> QED
    BY <1>2, <2>3 DEF TablesMatchList, TypeOK
<1>5. Tables' = Tables
  BY <1>1, <1>3 DEF Tables
<1>6. \A u \in Frames : On(u)' = On(u) /\ f \notin On(u)
  BY <1>1, <1>2, HeldOff DEF On
<1>7. \A u \in Tables : frame'[u] = frame[u] /\ u \in Frames
  BY <1>1, <1>3 DEF Tables
<1>8. \A u \in Tables, v \in Va : Entry(u, v)' = Entry(u, v)
  BY <1>2, <1>7 DEF Entry, Table
<1>9. \A u \in Tables, v \in Va, p \in Page : Covers(u, v, p)' <=> Covers(u, v, p)
  <2>1. \A u \in Tables : \A g \in On(u) : frame'[g] = frame[g]
    BY <1>3, <1>6, <1>7, HeldOff
  <2> QED
    BY <1>6, <1>7, <2>1 DEF Covers
<1>10. TablesMatchList'
  <2>1. Whole' = Whole /\ Whole \subseteq Tables
    BY <1>2, <1>5 DEF Whole
  <2> QED
    BY <1>4, <1>8, <1>9, <2>1 DEF TablesMatchList
<1>11. FramesSound'
  BY <1>1, <1>3 DEF FramesSound
<1>12. FramesDisjoint'
  BY <1>3 DEF FramesDisjoint
<1>13. ListsSound'
  <2>1. \A u \in Frames : \A g \in On(u) : frame'[g] = frame[g]
    BY <1>3, <1>6, HeldOff
  <2>2. \A u \in Frames : list[u] # <<>> => frame'[u] = frame[u]
    BY <1>1, <1>3, HeldOff
  <2> QED
    BY <1>2, <1>6, <2>1, <2>2 DEF ListsSound
<1>14. TablesApart'
  <2>1. \A g \in Frames : frame[g].type = "L2" => frame'[g] = frame[g]
    BY <1>1, <1>3
  <2> QED
    BY <1>2, <1>5, <1>7, <2>1 DEF TablesApart
<1> QED
  BY <1>10, <1>11, <1>12, <1>13, <1>14

\* A frame with a capability is put in front of the list of a table.
LEMMA Linked ==
  ASSUME FramesInv, NEW t \in Tables, NEW f \in held,
         list' = [list EXCEPT ![t] = <<f>> \o list[t]]
  PROVE  /\ list' \in [Frames -> Seq(Frames)] /\ OneEach(list'[t])
         /\ \A u \in Frames \ {t} : list'[u] = list[u]
         /\ On(t)' = On(t) \cup {f}
         /\ \A u \in Frames \ {t} : On(u)' = On(u)
<1>1. list \in [Frames -> Seq(Frames)] /\ f \in Frames /\ t \in Frames
  BY DEF FramesInv, TablesMatchList, TypeOK, Tables
<1>2. list[t] \in Seq(Frames) /\ OneEach(list[t]) /\ f \notin ListOf(list[t])
  BY <1>1, HeldOff DEF FramesInv, ListsSound, OneEach, ListOf, On
<1>3. /\ <<f>> \o list[t] \in Seq(Frames) /\ OneEach(<<f>> \o list[t])
      /\ ListOf(<<f>> \o list[t]) = ListOf(list[t]) \cup {f}
  BY <1>1, <1>2, ConsProps
<1> QED
  BY <1>1, <1>3 DEF ListOf, On

\* The lists stay sound, if the frame is fit to be on one and its capability
\* is taken away.
LEMMA LinkedSound ==
  ASSUME FramesInv, NEW t \in Tables, NEW f \in held, f \notin Tables,
         list' = [list EXCEPT ![t] = <<f>> \o list[t]],
         held' = held \ {f},
         \A g \in Frames \ {f} : frame'[g] = frame[g],
         frame'[f].type \in {"MEM", "DEV", "L2"},
         frame'[f].type # "L2" => frame'[f].va + frame'[f].len <= NVa
  PROVE  ListsSound'
<1>0. /\ OneEach(list'[t])
      /\ \A u \in Frames \ {t} : list'[u] = list[u]
      /\ On(t)' = On(t) \cup {f}
      /\ \A u \in Frames \ {t} : On(u)' = On(u)
  BY Linked
<1>1. t \in Frames /\ f \in Frames /\ t # f
  BY DEF Tables, FramesInv, TablesMatchList, TypeOK
<1>2. \A u \in Frames : f \notin On(u)
  BY HeldOff
<1>3. \A u \in Frames : list'[u] # <<>> => frame'[u].type = "L1"
  BY <1>0, <1>1, HeldOff DEF Tables
<1>4. \A u \in Frames : \A g \in On(u) : frame'[g] = frame[g]
  BY <1>2, HeldOff
<1>5. ASSUME NEW u \in Frames, NEW g \in On(u)', g # f PROVE g \in On(u)
  BY <1>0, <1>1, <1>5
<1>6. ASSUME NEW u \in Frames, NEW g \in On(u)'
      PROVE  /\ g \notin held'
             /\ frame'[g].type \in {"MEM", "DEV", "L2"}
             /\ frame'[g].type # "L2" => frame'[g].va + frame'[g].len <= NVa
  <2>1. CASE g # f
    <3>1. g \in On(u)
      BY <1>5, <2>1
    <3> QED
      BY <1>4, <3>1 DEF FramesInv, ListsSound
  <2> QED
    BY <2>1
<1>7. ASSUME NEW u \in Frames, NEW x \in Frames, NEW g, g \in On(u)', g \in On(x)' PROVE u = x
  <2>1. CASE g = f
    BY <1>0, <1>1, <1>2, <1>7, <2>1
  <2>2. CASE g # f
    <3>1. g \in On(u) /\ g \in On(x)
      BY <1>5, <1>7, <2>2
    <3> QED
      BY <3>1 DEF FramesInv, ListsSound
  <2> QED
    BY <2>1, <2>2
<1>8. \A u \in Frames : \A i, j \in DOMAIN list'[u] : list'[u][i] = list'[u][j] => i = j
  BY <1>0, <1>1 DEF FramesInv, ListsSound, OneEach
<1> QED
  BY <1>3, <1>6, <1>7, <1>8 DEF ListsSound

\* A frame becomes second-level tables.  If the addresses had none, nothing is
\* reached that was not reached before, as they are empty; if they had, the
\* address space is whole no more, and the others are as they were.
LEMMA L2MapInv ==
  ASSUME FramesInv, NEW t \in Frames, NEW f \in Frames, NEW v \in Va, FrameL2Map(t, f, v)
  PROVE  FramesInv'
<1> USE FramesOK DEF FramesInv
<1> DEFINE n == frame[f].len
           new(i) == i \in Spanned(v, n)
<1>1. /\ f \in held /\ f # Root /\ f \notin Tables /\ frame[f].type = "MEM"
      /\ t \in held /\ t \in Tables /\ t # f
  BY DEF FrameL2Map, Named, FramesSound, Tables
<1>2. frame \in [Frames -> FrameType] /\ list \in [Frames -> Seq(Frames)]
  BY DEF TablesMatchList, TypeOK
<1>3. frame' = [frame EXCEPT ![f] = [[frame[f] EXCEPT !.type = "L2"] EXCEPT !.va = v]]
  BY <1>2 DEF FrameL2Map
<1>4. /\ \A g \in Frames \ {f} : frame'[g] = frame[g]
      /\ frame'[f].type = "L2" /\ frame'[f].pa = frame[f].pa /\ frame'[f].len = frame[f].len
      /\ \A g \in Frames : Pages(frame'[g]) = Pages(frame[g])
  BY <1>2, <1>3, FrameTyped DEF Pages, FrameType
<1>5. held' = held \ {f}
  BY DEF FrameL2Map
<1>6. list' = [list EXCEPT ![t] = <<f>> \o list[t]]
  BY <1>2 DEF FrameL2Map
<1>7. /\ list' \in [Frames -> Seq(Frames)]
      /\ On(t)' = On(t) \cup {f}
      /\ \A u \in Frames \ {t} : On(u)' = On(u)
  BY <1>1, <1>6, Linked
<1>8. \A u \in Frames : f \notin On(u)
  BY <1>1, HeldOff
<1>9. \A i \in Index : i \in Int /\ L1X(v) \in Int
  <2>1. \A w \in Va : w \div PerTable \in Int
    BY Address
  <2> QED
    BY <2>1 DEF Index, L1X
<1>10. /\ \A i \in Index : new(i) => TableAt(f, i - L1X(v)) \in Page \cap Pages(frame[f])
       /\ \A i, j \in Index : new(i) /\ new(j) /\ TableAt(f, i - L1X(v)) = TableAt(f, j - L1X(v)) => i = j
  <2>1. \A i \in Index : new(i) => i - L1X(v) \in 0..(n - 1)
    BY <1>9, FramePages DEF Spanned
  <2>2. \A i \in Index : new(i) => TableAt(f, i - L1X(v)) \in Page \cap Pages(frame[f])
    BY <1>1, <2>1, FramePages DEF TableAt
  <2>3. \A i, j \in Index : TableAt(f, i - L1X(v)) = TableAt(f, j - L1X(v)) => i = j
    BY <1>9, FramePages DEF TableAt
  <2> QED
    BY <2>1, <2>2, <2>3
<1>11. /\ frame[t].pa \in Page
       /\ l1' = [l1 EXCEPT ![frame[t].pa] =
            [i \in Index |-> IF new(i) THEN TableAt(f, i - L1X(v)) ELSE l1[frame[t].pa][i]]]
       /\ l2' = [p \in Page |-> IF p \in Pages(frame[f]) THEN NoEntries ELSE l2[p]]
  BY <1>1, Apart DEF FrameL2Map, TablesMatchList, TypeOK
<1>12. TypeOK'
  <2>1. frame' \in [Frames -> FrameType]
    BY <1>2, <1>3, FrameTyped DEF FrameTypes
  <2>2. l1' \in [Page -> [Index -> Page \cup {nil}]]
    BY <1>10, <1>11 DEF TablesMatchList, TypeOK
  <2>3. l2' \in [Page -> [Entries -> Page \cup {nil}]]
    BY <1>11 DEF TablesMatchList, TypeOK, NoEntries
  <2>4. held' \subseteq Frames /\ panic' = panic
    BY DEF FrameL2Map, TablesMatchList, TypeOK
  <2>5. replaced' \in {replaced, replaced \cup {t}} /\ t \in Frames
    BY DEF FrameL2Map
  <2>6. replaced' \subseteq Frames
    BY <2>5 DEF TablesMatchList, TypeOK
  <2> QED
    BY <1>7, <2>1, <2>2, <2>3, <2>4, <2>6 DEF TablesMatchList, TypeOK
<1>13. Tables' = Tables
  BY <1>1, <1>4 DEF Tables
<1>14. \A u \in Tables : u \in Frames /\ u # f /\ frame'[u] = frame[u]
  BY <1>1, <1>4 DEF Tables
<1>15. /\ \A i \in Index : l1'[frame'[t].pa][i] =
            IF new(i) THEN TableAt(f, i - L1X(v)) ELSE l1[frame[t].pa][i]
       /\ \A u \in Tables \ {t} : l1'[frame'[u].pa] = l1[frame[u].pa]
  <2>1. l1 \in [Page -> [Index -> Page \cup {nil}]]
    BY DEF TablesMatchList, TypeOK
  <2>2. \A u \in Tables \ {t} : frame[u].pa # frame[t].pa
    BY <1>1, Apart
  <2> QED
    BY <1>1, <1>11, <1>14, <2>1, <2>2
<1>13a. /\ Whole' \subseteq Whole /\ Whole \subseteq Tables
        /\ t \in Whole' => \A i \in Index : new(i) => l1[frame[t].pa][i] = nil
  <2>1. \/ replaced' = replaced /\ \A i \in Spanned(v, n) : l1[frame[t].pa][i] = nil
        \/ replaced' = replaced \cup {t}
    BY DEF FrameL2Map
  <2> QED
    BY <1>13, <2>1 DEF Whole
<1> HIDE DEF new
<1>16. \A u \in Tables, i \in Index : l1[frame[u].pa][i] # nil => l1[frame[u].pa][i] \notin Pages(frame[f])
  <2> SUFFICES ASSUME NEW u \in Tables, NEW i \in Index, l1[frame[u].pa][i] # nil
               PROVE  l1[frame[u].pa][i] \notin Pages(frame[f])
    OBVIOUS
  <2>1. CASE l1[frame[u].pa][i] = BootTable
    BY <1>1, <2>1 DEF FramesSound
  <2>2. CASE \E g \in Frames : frame[g].type = "L2" /\ l1[frame[u].pa][i] \in Pages(frame[g])
    BY <1>1, <2>2 DEF FramesDisjoint
  <2> QED
    BY <2>1, <2>2 DEF TablesApart
<1>17. ASSUME NEW u \in Whole', NEW w \in Va PROVE Entry(u, w)' = Entry(u, w)
  <2>0. u \in Tables
    BY <1>13a
  <2>1. L1X(w) \in Index /\ L2X(w) \in Entries
    BY Address
  <2>2. CASE u = t /\ new(L1X(w))
    <3>0. Table(u, w) = nil
      BY <1>13a, <2>1, <2>2 DEF Table
    <3>1. Table(u, w)' \in Page \cap Pages(frame[f])
      BY <1>10, <1>15, <2>1, <2>2 DEF Table
    <3>2. l2'[Table(u, w)'] = NoEntries
      BY <1>11, <3>1
    <3>3. Entry(u, w) = nil /\ Entry(u, w)' = nil
      BY <2>1, <3>0, <3>1, <3>2 DEF Entry, NoEntries
    <3> QED
      BY <3>3
  <2>3. CASE ~(u = t /\ new(L1X(w)))
    <3>1. Table(u, w)' = Table(u, w)
      BY <1>15, <2>0, <2>1, <2>3 DEF Table
    <3>2. Table(u, w) # nil => Table(u, w) \in Page /\ Table(u, w) \notin Pages(frame[f])
      BY <1>16, <2>0, <2>1, Apart DEF Table
    <3>3. Table(u, w) # nil => l2'[Table(u, w)] = l2[Table(u, w)]
      BY <1>11, <3>2
    <3> QED
      BY <3>1, <3>3 DEF Entry
  <2> QED
    BY <2>2, <2>3
<1>18. \A u \in Tables : \A g \in On(u) : frame'[g] = frame[g]
  BY <1>4, <1>8, <1>14, HeldOff
<1>19. \A u \in Tables, w \in Va, p \in Page : Covers(u, w, p)' <=> Covers(u, w, p)
  <2> SUFFICES ASSUME NEW u \in Tables, NEW w \in Va, NEW p \in Page
               PROVE  Covers(u, w, p)' <=> Covers(u, w, p)
    OBVIOUS
  <2>1. CASE u = t
    <3>1. \A g \in On(u)' : frame'[g].type # "L2" => g \in On(u)
      BY <1>4, <1>7, <2>1
    <3>2. On(u) \subseteq On(u)'
      BY <1>7, <2>1
    <3> QED
      BY <1>18, <3>1, <3>2 DEF Covers
  <2>2. CASE u # t
    <3>1. On(u)' = On(u)
      BY <1>7, <1>14, <2>2
    <3> QED
      BY <1>18, <3>1 DEF Covers
  <2> QED
    BY <2>1, <2>2
<1>20. TablesMatchList'
  <2>1. \A u \in Whole' : u \in Tables /\ u \in Whole
    BY <1>13a
  <2> QED
    BY <1>12, <1>17, <1>19, <2>1 DEF TablesMatchList
<1>21. FramesSound'
  BY <1>1, <1>4 DEF FramesSound
<1>22. FramesDisjoint'
  BY <1>4 DEF FramesDisjoint
<1>23. ListsSound'
  BY <1>1, <1>4, <1>5, <1>6, LinkedSound
<1>24. TablesApart'
  <2>1. \A g \in Frames : frame[g].type = "L2" => frame'[g].type = "L2"
    BY <1>4
  <2> SUFFICES ASSUME NEW u \in Tables, NEW i \in Index, l1'[frame'[u].pa][i] # nil
               PROVE  /\ \/ l1'[frame'[u].pa][i] = BootTable
                         \/ \E g \in Frames : frame'[g].type = "L2" /\ l1'[frame'[u].pa][i] \in Pages(frame'[g])
                      /\ \A x \in Tables, j \in Index :
                           l1'[frame'[x].pa][j] = l1'[frame'[u].pa][i] => x = u /\ j = i
    BY <1>13 DEF TablesApart
  <2>2. CASE u = t /\ new(i)
    <3>1. l1'[frame'[u].pa][i] = TableAt(f, i - L1X(v)) /\ TableAt(f, i - L1X(v)) \in Pages(frame[f])
      BY <1>10, <1>15, <2>2
    <3>2. ASSUME NEW x \in Tables, NEW j \in Index, l1'[frame'[x].pa][j] = l1'[frame'[u].pa][i]
          PROVE  x = t /\ new(j)
      BY <1>15, <1>16, <3>1, <3>2, <2>2
    <3>3. \A x \in Tables, j \in Index : l1'[frame'[x].pa][j] = l1'[frame'[u].pa][i] => x = u /\ j = i
      BY <1>10, <1>15, <2>2, <3>1, <3>2
    <3> QED
      BY <1>4, <3>1, <3>3
  <2>3. CASE ~(u = t /\ new(i))
    <3>1. l1'[frame'[u].pa][i] = l1[frame[u].pa][i]
      BY <1>15, <2>3
    <3>2. l1[frame[u].pa][i] \notin Pages(frame[f])
      BY <1>16, <3>1
    <3>3. \/ l1'[frame'[u].pa][i] = BootTable
          \/ \E g \in Frames : frame'[g].type = "L2" /\ l1'[frame'[u].pa][i] \in Pages(frame'[g])
      BY <1>4, <2>1, <3>1 DEF TablesApart
    <3>4. ASSUME NEW x \in Tables, NEW j \in Index, l1'[frame'[x].pa][j] = l1'[frame'[u].pa][i]
          PROVE  x = u /\ j = i
      <4>1. l1'[frame'[x].pa][j] = l1[frame[x].pa][j]
        BY <1>10, <1>15, <3>1, <3>2, <3>4
      <4>2. l1[frame[x].pa][j] = l1[frame[u].pa][i] /\ l1[frame[u].pa][i] # nil
        BY <3>1, <3>4, <4>1
      <4> QED
        BY <4>2 DEF TablesApart
    <3> QED
      BY <3>3, <3>4
  <2> QED
    BY <2>2, <2>3
<1> QED
  BY <1>20, <1>21, <1>22, <1>23, <1>24

\* The entries a range of addresses has in the tables are those of its
\* addresses, and of no other address of any address space.
LEMMA OffsetsAre ==
  ASSUME FramesInv, NEW t \in Tables, NEW v \in Va, NEW n \in Nat, v + n <= NVa,
         NEW u \in Tables, NEW w \in Va, Table(u, w) # nil
  PROVE  Offsets(t, v, n, Table(u, w), L2X(w)) =
           IF u = t /\ w - v \in 0..(n - 1) THEN {w - v} ELSE {}
<1> USE FramesOK
<1>1. v \in Nat /\ w \in Nat /\ NVa \in Nat
  BY Address
<1>2. ASSUME NEW o \in 0..(n - 1), Table(t, v + o) = Table(u, w), L2X(v + o) = L2X(w)
      PROVE  u = t /\ w = v + o
  <2>1. v + o \in Va
    BY <1>1 DEF Va
  <2> QED
    BY <1>2, <2>1, Apart
<1>3. CASE u = t /\ w - v \in 0..(n - 1)
  <2>1. v + (w - v) = w
    BY <1>1
  <2>2. \A o \in 0..(n - 1) : w = v + o => o = w - v
    BY <1>1
  <2> QED
    BY <1>2, <1>3, <2>1, <2>2 DEF Offsets
<1>4. CASE ~(u = t /\ w - v \in 0..(n - 1))
  <2>1. \A o \in 0..(n - 1) : w = v + o => w - v = o
    BY <1>1
  <2> QED
    BY <1>2, <1>4, <2>1 DEF Offsets
<1> QED
  BY <1>3, <1>4

\* A frame is mapped where nothing was.
LEMMA MapInv ==
  ASSUME FramesInv, NEW t \in Frames, NEW f \in Frames, NEW v \in Va, FrameMap(t, f, v)
  PROVE  FramesInv'
<1> USE FramesOK DEF FramesInv
<1> DEFINE n == frame[f].len
           in(u, w) == u = t /\ w - v \in 0..(n - 1)
<1>1. /\ f \in held /\ f # Root /\ f \notin Tables /\ frame[f].type \in {"MEM", "DEV"}
      /\ t \in held /\ t \in Tables /\ t # f
  BY DEF FrameMap, Mappable, Named, FramesSound, Tables
<1>2. /\ frame \in [Frames -> FrameType] /\ list \in [Frames -> Seq(Frames)]
      /\ n \in Nat /\ v + n <= NVa /\ v \in Nat /\ frame[f].pa \in Int
  BY FramePages, Address DEF TablesMatchList, TypeOK, FrameMap
<1>3. frame' = [frame EXCEPT ![f] = [frame[f] EXCEPT !.va = v]]
  BY DEF FrameMap
<1>4. /\ \A g \in Frames \ {f} : frame'[g] = frame[g]
      /\ frame'[f].type = frame[f].type /\ frame'[f].pa = frame[f].pa
      /\ frame'[f].len = frame[f].len /\ frame'[f].va = v
      /\ \A g \in Frames : Pages(frame'[g]) = Pages(frame[g])
  BY <1>2, <1>3 DEF Pages, FrameType
<1>5. held' = held \ {f} /\ l1' = l1 /\ panic' = panic /\ replaced' = replaced
  BY DEF FrameMap
<1>6. list' = [list EXCEPT ![t] = <<f>> \o list[t]]
  BY <1>2 DEF FrameMap
<1>7. /\ list' \in [Frames -> Seq(Frames)]
      /\ On(t)' = On(t) \cup {f}
      /\ \A u \in Frames \ {t} : On(u)' = On(u)
  BY <1>1, <1>6, Linked
<1>8. \A u \in Frames : f \notin On(u)
  BY <1>1, HeldOff
<1>9. l2' = [p \in Page |-> [i \in Entries |->
         IF Offsets(t, v, n, p, i) = {} THEN l2[p][i]
         ELSE frame[f].pa + (CHOOSE o \in Offsets(t, v, n, p, i) : TRUE)]]
  BY DEF FrameMap
<1>10. TypeOK'
  <2>1. frame' \in [Frames -> FrameType]
    BY <1>2, <1>3, FrameTyped
  <2>2. \A o \in 0..(n - 1) : frame[f].pa + o \in Page
    BY <1>1, FramePages
  <2>3. \A p \in Page, i \in Entries : Offsets(t, v, n, p, i) # {} =>
          (CHOOSE o \in Offsets(t, v, n, p, i) : TRUE) \in 0..(n - 1)
    BY DEF Offsets
  <2>4. \A p \in Page, i \in Entries : l2[p][i] \in Page \cup {nil}
    BY DEF TablesMatchList, TypeOK
  <2>5. l2' \in [Page -> [Entries -> Page \cup {nil}]]
    BY <1>9, <2>2, <2>3, <2>4
  <2> QED
    BY <1>5, <1>7, <2>1, <2>5 DEF TablesMatchList, TypeOK
<1>11. Tables' = Tables
  BY <1>1, <1>4 DEF Tables
<1>12. \A u \in Tables : u \in Frames /\ u # f /\ frame'[u] = frame[u]
  BY <1>1, <1>4 DEF Tables
<1>13. \A u \in Tables, w \in Va : Table(u, w)' = Table(u, w)
  BY <1>5, <1>12 DEF Table
<1>14. ASSUME NEW u \in Tables, NEW w \in Va
       PROVE  Entry(u, w)' = IF in(u, w) THEN frame[f].pa + (w - v) ELSE Entry(u, w)
  <2>1. L2X(w) \in Entries
    BY Address
  <2>2. CASE Table(u, w) # nil
    <3>1. Table(u, w) \in Page
      BY <2>2, Apart
    <3>2. Offsets(t, v, n, Table(u, w), L2X(w)) = IF in(u, w) THEN {w - v} ELSE {}
      BY <1>1, <1>2, <2>2, OffsetsAre
    <3>3. (CHOOSE o \in {w - v} : TRUE) = w - v
      OBVIOUS
    <3>4. l2'[Table(u, w)][L2X(w)] =
            IF in(u, w) THEN frame[f].pa + (w - v) ELSE l2[Table(u, w)][L2X(w)]
      BY <1>9, <2>1, <3>1, <3>2, <3>3
    <3> QED
      BY <1>13, <2>2, <3>4 DEF Entry
  <2>3. CASE Table(u, w) = nil
    <3>1. ~in(u, w)
      <4>1. ASSUME in(u, w) PROVE FALSE
        <5>1. v + (w - v) = w
          BY <1>2, Address
        <5> QED
          BY <2>3, <4>1, <5>1 DEF FrameMap
      <4> QED
        BY <4>1
    <3> QED
      BY <1>13, <2>3, <3>1 DEF Entry
  <2> QED
    BY <2>2, <2>3
<1>13a. Whole' = Whole /\ Whole \subseteq Tables
  BY <1>5, <1>11 DEF Whole
<1>15. ASSUME NEW w \in Va, in(t, w), t \in Whole, NEW p \in Page PROVE ~Covers(t, w, p)
  <2>1. v + (w - v) = w
    BY <1>2, Address
  <2>2. Entry(t, w) = nil
    BY <1>15, <2>1 DEF FrameMap
  <2> QED
    BY <1>15, <2>2, FramesOK, EntryCovered
<1>16. \A u \in Tables : \A g \in On(u) : frame'[g] = frame[g]
  BY <1>4, <1>8, <1>12, HeldOff
<1>17. ASSUME NEW u \in Tables, NEW w \in Va, NEW p \in Page
       PROVE  Covers(u, w, p)' <=> Covers(u, w, p) \/ (in(u, w) /\ p = frame[f].pa + (w - v))
  <2>1. CASE u = t
    <3>1. On(u)' = On(u) \cup {f} /\ frame'[f].type # "L2"
      BY <1>1, <1>4, <1>7, <2>1
    <3> QED
      BY <1>4, <1>16, <2>1, <3>1 DEF Covers
  <2>2. CASE u # t
    <3>1. On(u)' = On(u)
      BY <1>7, <1>12, <2>2
    <3> QED
      BY <1>16, <2>2, <3>1 DEF Covers
  <2> QED
    BY <2>1, <2>2
<1>18. ASSUME NEW u \in Whole, NEW w \in Va, NEW p \in Page
       PROVE  Entry(u, w)' = p <=> Covers(u, w, p)'
  <2>1. CASE in(u, w)
    BY <1>14, <1>15, <1>17, <1>13a, <2>1
  <2>2. CASE ~in(u, w)
    BY <1>14, <1>17, <1>13a, <2>2, EntryCovered
  <2> QED
    BY <2>1, <2>2
<1>19. TablesMatchList'
  BY <1>10, <1>18, <1>13a DEF TablesMatchList
<1>20. FramesSound'
  BY <1>1, <1>4 DEF FramesSound
<1>21. FramesDisjoint'
  BY <1>4 DEF FramesDisjoint
<1>22. ListsSound'
  BY <1>1, <1>2, <1>4, <1>5, <1>6, LinkedSound
<1>23. TablesApart'
  BY <1>4, <1>5, <1>11, <1>12 DEF TablesApart
<1> QED
  BY <1>19, <1>20, <1>21, <1>22, <1>23

\* A frame of the list of a whole address space is found whole and in order,
\* so that it is unmapped to its end and nothing else is.
LEMMA UnmapWhole ==
  ASSUME FramesInv, NEW t \in Whole, NEW v \in Va, NEW f \in On(t),
         frame[f].type # "L2", frame[f].va = v
  PROVE  \A o \in 0..(frame[f].len - 1) :
           /\ v + o \in Va
           /\ Entry(t, v + o) = frame[f].pa + o
           /\ nil \notin {Entry(t, v), Entry(t, v + o)}
           /\ Entry(t, v + o) = Entry(t, v) + o
<1> USE FramesOK DEF FramesInv
<1> DEFINE len == frame[f].len
<1>1. t \in Frames /\ t \in Tables
  BY DEF Whole, Tables
<1>2. f \in Frames /\ f # Root /\ v + len <= NVa
  BY <1>1, HeldOff DEF ListsSound
<1>3. len \in Nat /\ v \in Nat /\ frame[f].pa \in Int /\ NVa \in Nat
  BY <1>2, FramePages, Address
<1>4. ASSUME NEW o \in 0..(len - 1)
      PROVE  v + o \in Va /\ Entry(t, v + o) = frame[f].pa + o /\ Entry(t, v + o) # nil
  <2>1. v + o \in Va /\ (v + o) - v = o
    BY <1>2, <1>3 DEF Va
  <2>2. frame[f].pa + o \in Page
    BY <1>2, FramePages
  <2>3. Covers(t, v + o, frame[f].pa + o)
    BY <2>1 DEF Covers
  <2> QED
    BY <1>1, <2>1, <2>2, <2>3, EntryCovered
<1> QED
  <2> SUFFICES ASSUME NEW o \in 0..(len - 1)
               PROVE  /\ v + o \in Va
                      /\ Entry(t, v + o) = frame[f].pa + o
                      /\ nil \notin {Entry(t, v), Entry(t, v + o)}
                      /\ Entry(t, v + o) = Entry(t, v) + o
    OBVIOUS
  <2>1. 0 \in 0..(len - 1) /\ v + 0 = v /\ frame[f].pa + 0 = frame[f].pa
    BY <1>3
  <2>2. Entry(t, v) = frame[f].pa /\ Entry(t, v) # nil
    BY <1>4, <2>1
  <2> QED
    BY <1>4, <2>2

\* What sys_frame_unmap does: it takes a frame off the list and the first
\* pages of its addresses out of the tables, all of them if the address space
\* is whole.
LEMMA UnmapDoes ==
  ASSUME FramesInv, NEW t \in Frames, NEW v \in Va, FrameUnmap(t, v)
  PROVE  /\ t \in Tables /\ t \in held
         /\ \E k \in 1..Len(list[t]) : \E n \in 0..frame[list[t][k]].len :
              /\ frame[list[t][k]].type # "L2" /\ frame[list[t][k]].va = v
              /\ list' = [list EXCEPT ![t] =
                   SubSeq(list[t], 1, k - 1) \o SubSeq(list[t], k + 1, Len(list[t]))]
              /\ frame' = [frame EXCEPT ![list[t][k]].va = 0]
              /\ l2' = [p \in Page |-> [e \in Entries |->
                   IF Offsets(t, v, n, p, e) = {} THEN l2[p][e] ELSE nil]]
              /\ panic' \in {nil, "unmap"}
              /\ held' = IF panic' = nil THEN held \cup {list[t][k]} ELSE held
              /\ t \in Whole => n = frame[list[t][k]].len /\ panic' = nil
<1> USE FramesOK
<1>1. t \in Tables /\ t \in held
  BY DEF FrameUnmap, Named, Tables
<1>2. PICK k \in Found(t, v) :
        \E n \in 0..Cut(list[t][k]) :
          /\ n < Cut(list[t][k]) =>
               ~(/\ nil \notin {Entry(t, v), Entry(t, v + n)}
                 /\ Entry(t, v + n) = Entry(t, v) + n)
          /\ panic' = IF n < Cut(list[t][k]) /\ Entry(t, v + n) = nil THEN "unmap" ELSE nil
          /\ l2' = [p \in Page |-> [e \in Entries |->
               IF Offsets(t, v, n, p, e) = {} THEN l2[p][e] ELSE nil]]
          /\ frame' = [frame EXCEPT ![list[t][k]].va = 0]
          /\ list' = [list EXCEPT ![t] =
               SubSeq(list[t], 1, k - 1) \o SubSeq(list[t], k + 1, Len(list[t]))]
          /\ held' = IF panic' = nil THEN held \cup {list[t][k]} ELSE held
  BY DEF FrameUnmap
<1> DEFINE f == list[t][k]
           len == frame[f].len
<1>3. /\ list[t] \in Seq(Frames) /\ k \in 1..Len(list[t]) /\ f \in On(t)
      /\ frame[f].type # "L2" /\ frame[f].va = v /\ len \in Nat
  <2>1. list[t] \in Seq(Frames)
    BY DEF FramesInv, TablesMatchList, TypeOK
  <2>2. k \in 1..Len(list[t]) /\ f \in On(t) /\ frame[f].type # "L2" /\ frame[f].va = v
    BY <2>1 DEF Found, On
  <2> QED
    BY <2>1, <2>2, HeldOff, FramePages
<1>4. PICK n \in 0..len :
        /\ n < len => ~(/\ nil \notin {Entry(t, v), Entry(t, v + n)}
                        /\ Entry(t, v + n) = Entry(t, v) + n)
        /\ panic' = IF n < len /\ Entry(t, v + n) = nil THEN "unmap" ELSE nil
        /\ l2' = [p \in Page |-> [e \in Entries |->
             IF Offsets(t, v, n, p, e) = {} THEN l2[p][e] ELSE nil]]
        /\ frame' = [frame EXCEPT ![f].va = 0]
        /\ list' = [list EXCEPT ![t] =
             SubSeq(list[t], 1, k - 1) \o SubSeq(list[t], k + 1, Len(list[t]))]
        /\ held' = IF panic' = nil THEN held \cup {f} ELSE held
  BY <1>2 DEF Cut
<1>5. ASSUME t \in Whole, n < len PROVE FALSE
  <2>1. n \in 0..(len - 1)
    BY <1>3, <1>5
  <2>2. nil \notin {Entry(t, v), Entry(t, v + n)} /\ Entry(t, v + n) = Entry(t, v) + n
    BY <1>3, <1>5, <2>1, UnmapWhole
  <2> QED
    BY <1>4, <1>5, <2>2
<1>6. t \in Whole => n = len /\ panic' = nil
  BY <1>3, <1>4, <1>5
<1> QED
  BY <1>1, <1>3, <1>4, <1>6

\* The frame leaves the list and its addresses the tables; no other address
\* space changes.
LEMMA UnmapInv ==
  ASSUME FramesInv, NEW t \in Frames, NEW v \in Va, FrameUnmap(t, v)
  PROVE  FramesInv'
<1> USE FramesOK DEF FramesInv
<1>1. t \in Tables /\ t \in held
  BY UnmapDoes
<1>2. PICK k \in 1..Len(list[t]) : \E n \in 0..frame[list[t][k]].len :
        /\ frame[list[t][k]].type # "L2" /\ frame[list[t][k]].va = v
        /\ list' = [list EXCEPT ![t] =
             SubSeq(list[t], 1, k - 1) \o SubSeq(list[t], k + 1, Len(list[t]))]
        /\ frame' = [frame EXCEPT ![list[t][k]].va = 0]
        /\ l2' = [p \in Page |-> [e \in Entries |->
             IF Offsets(t, v, n, p, e) = {} THEN l2[p][e] ELSE nil]]
        /\ panic' \in {nil, "unmap"}
        /\ held' = IF panic' = nil THEN held \cup {list[t][k]} ELSE held
        /\ t \in Whole => n = frame[list[t][k]].len /\ panic' = nil
  BY UnmapDoes
<1> DEFINE f == list[t][k]
           len == frame[f].len
<1>2a. PICK n \in 0..len :
        /\ frame[f].type # "L2" /\ frame[f].va = v
        /\ list' = [list EXCEPT ![t] =
             SubSeq(list[t], 1, k - 1) \o SubSeq(list[t], k + 1, Len(list[t]))]
        /\ frame' = [frame EXCEPT ![f].va = 0]
        /\ l2' = [p \in Page |-> [e \in Entries |->
             IF Offsets(t, v, n, p, e) = {} THEN l2[p][e] ELSE nil]]
        /\ panic' \in {nil, "unmap"}
        /\ held' = IF panic' = nil THEN held \cup {f} ELSE held
        /\ t \in Whole => n = len /\ panic' = nil
  BY <1>2
<1> DEFINE in(u, w) == u = t /\ w - v \in 0..(n - 1)
<1>3. /\ frame \in [Frames -> FrameType] /\ list \in [Frames -> Seq(Frames)]
      /\ list[t] \in Seq(Frames) /\ k \in 1..Len(list[t]) /\ f \in On(t)
      /\ frame[f].type # "L2" /\ frame[f].va = v
  <2>1. frame \in [Frames -> FrameType] /\ list \in [Frames -> Seq(Frames)] /\ t \in Frames
    BY DEF TablesMatchList, TypeOK
  <2>2. list[t] \in Seq(Frames)
    BY <2>1
  <2>3. k \in 1..Len(list[t]) /\ k \in DOMAIN list[t]
    BY <2>2
  <2>4. f \in On(t)
    BY <2>3 DEF On
  <2> QED
    BY <1>2a, <2>1, <2>2, <2>3, <2>4
<1>4. /\ f \in Frames /\ f # Root /\ f \notin Tables /\ f \notin held
      /\ frame[f].type \in {"MEM", "DEV"} /\ v + len <= NVa
  BY <1>3, HeldOff DEF ListsSound
<1>5. /\ len \in Nat /\ v \in Nat /\ frame[f].pa \in Int /\ NVa \in Nat
      /\ n \in Nat /\ n <= len /\ v + n <= NVa
  <2>1. len \in Nat /\ v \in Nat /\ frame[f].pa \in Int /\ NVa \in Nat
    BY <1>4, FramePages, Address
  <2> QED
    BY <1>4, <2>1
<1>6. ASSUME t \in Whole, NEW o \in 0..(n - 1)
      PROVE  v + o \in Va /\ Entry(t, v + o) = frame[f].pa + o /\ o \in 0..(len - 1)
  <2>1. o \in 0..(len - 1)
    BY <1>5
  <2> QED
    BY <1>3, <1>6, <2>1, UnmapWhole
<1>7. frame' = [frame EXCEPT ![f] = [frame[f] EXCEPT !.va = 0]]
  BY <1>2a
<1>8. /\ \A g \in Frames \ {f} : frame'[g] = frame[g]
      /\ frame'[f].type = frame[f].type /\ frame'[f].pa = frame[f].pa
      /\ frame'[f].len = frame[f].len
      /\ \A g \in Frames : Pages(frame'[g]) = Pages(frame[g])
  <2> DEFINE new == [frame[f] EXCEPT !.va = 0]
  <2>1. new.type = frame[f].type /\ new.pa = frame[f].pa /\ new.len = frame[f].len
    <3>1. frame[f] \in FrameType
      BY <1>3, <1>4
    <3> HIDE DEF f
    <3> QED
      BY <3>1 DEF FrameType
  <2>2. frame' = [frame EXCEPT ![f] = new]
    BY <1>7
  <2> HIDE DEF new, f
  <2>3. \A g \in Frames : frame'[g] = IF g = f THEN new ELSE frame[g]
    BY <1>3, <2>2
  <2> QED
    BY <1>4, <2>1, <2>3 DEF Pages
<1>9. l1' = l1 /\ replaced' = replaced
  BY DEF FrameUnmap
<1>10. /\ list' \in [Frames -> Seq(Frames)] /\ OneEach(list'[t])
       /\ \A u \in Frames \ {t} : list'[u] = list[u]
       /\ On(t)' = On(t) \ {f}
       /\ \A u \in Frames \ {t} : On(u)' = On(u)
  <2>1. OneEach(list[t])
    BY DEF ListsSound, OneEach
  <2> DEFINE d == SubSeq(list[t], 1, k - 1) \o SubSeq(list[t], k + 1, Len(list[t]))
  <2>2. d \in Seq(Frames) /\ ListOf(d) = ListOf(list[t]) \ {f} /\ OneEach(d)
    BY <1>3, <2>1, DropProps
  <2>3. list' = [list EXCEPT ![t] = d]
    BY <1>2a
  <2> HIDE DEF d
  <2> QED
    BY <1>3, <2>2, <2>3 DEF ListOf, On
<1>11. TypeOK'
  <2>1. 0 \in Va
    BY DEF Va
  <2>2. frame' \in [Frames -> FrameType]
    BY <1>3, <1>4, <1>7, <2>1, FrameTyped
  <2>3. \A p \in Page, i \in Entries : l2[p][i] \in Page \cup {nil}
    BY DEF TablesMatchList, TypeOK
  <2>4. l2' \in [Page -> [Entries -> Page \cup {nil}]]
    BY <1>2a, <2>3
  <2>5. held' \subseteq Frames
    BY <1>2a, <1>4 DEF TablesMatchList, TypeOK
  <2> QED
    BY <1>2a, <1>9, <1>10, <2>2, <2>4, <2>5 DEF TablesMatchList, TypeOK
<1>12. Tables' = Tables
  BY <1>4, <1>8 DEF Tables
<1>12a. Whole' = Whole /\ Whole \subseteq Tables
  BY <1>9, <1>12 DEF Whole
<1>13. \A u \in Tables : u \in Frames /\ u # f /\ frame'[u] = frame[u]
  BY <1>4, <1>8 DEF Tables
<1>14. \A u \in Tables, w \in Va : Table(u, w)' = Table(u, w)
  BY <1>9, <1>13 DEF Table
<1>15. ASSUME NEW u \in Tables, NEW w \in Va
       PROVE  Entry(u, w)' = IF in(u, w) THEN nil ELSE Entry(u, w)
  <2>1. L2X(w) \in Entries
    BY Address
  <2>2. CASE Table(u, w) # nil
    <3>1. Table(u, w) \in Page
      BY <2>2, Apart
    <3>2. Offsets(t, v, n, Table(u, w), L2X(w)) = IF in(u, w) THEN {w - v} ELSE {}
      BY <1>1, <1>5, <2>2, OffsetsAre
    <3>3. l2'[Table(u, w)][L2X(w)] = IF in(u, w) THEN nil ELSE l2[Table(u, w)][L2X(w)]
      BY <1>2a, <2>1, <3>1, <3>2
    <3> QED
      BY <1>14, <2>2, <3>3 DEF Entry
  <2>3. CASE Table(u, w) = nil
    BY <1>14, <2>3 DEF Entry
  <2> QED
    BY <2>2, <2>3
<1>16. ASSUME t \in Whole, NEW w \in Va, in(t, w), NEW p \in Page, Covers(t, w, p),
              NEW g \in On(t), g # f, w - frame[g].va \in 0..(frame[g].len - 1),
              p = frame[g].pa + (w - frame[g].va)
       PROVE  FALSE
  <2>0. w \in Nat
    BY Address
  <2>1. v + (w - v) = w
    BY <1>5, <2>0
  <2>2. Entry(t, w) = frame[f].pa + (w - v) /\ Entry(t, w) = p
    BY <1>1, <1>6, <1>16, <2>1, EntryCovered
  <2>3. w - v \in 0..(len - 1) /\ g \in Frames \ {Root}
    BY <1>1, <1>5, <1>16, HeldOff DEF Tables
  <2>4. p \in Pages(frame[f]) /\ p \in Pages(frame[g])
    BY <1>4, <1>16, <2>2, <2>3, FramePages
  <2> QED
    BY <1>4, <1>16, <2>3, <2>4 DEF FramesDisjoint
<1>17. ASSUME t \in Whole, NEW w \in Va, in(t, w), t = Root, w = 0 PROVE FALSE
  <2>1. v + (w - v) = w
    BY <1>5, Address
  <2>2. Entry(t, w) = frame[f].pa + (w - v) /\ Entry(t, w) = BootPage
    BY <1>1, <1>6, <1>17, <2>1, EntryCovered DEF Covers
  <2>3. w - v \in 0..(len - 1)
    BY <1>5, <1>17
  <2> QED
    BY <1>4, <2>2, <2>3, FramePages
<1>18. \A u \in Tables : \A g \in On(u)' : g \in On(u) /\ g # f /\ frame'[g] = frame[g]
  <2> SUFFICES ASSUME NEW u \in Tables, NEW g \in On(u)'
               PROVE  g \in On(u) /\ g # f /\ frame'[g] = frame[g]
    OBVIOUS
  <2>1. g \in On(u) /\ g # f
    <3>1. CASE u = t
      BY <1>10, <3>1
    <3>2. CASE u # t
      <4>1. g \in On(u)
        BY <1>10, <1>13, <3>2
      <4> QED
        BY <1>3, <1>13, <3>2, <4>1 DEF ListsSound
    <3> QED
      BY <3>1, <3>2
  <2> QED
    BY <1>8, <1>13, <2>1, HeldOff
<1>19. ASSUME NEW u \in Whole, NEW w \in Va, NEW p \in Page
       PROVE  Covers(u, w, p)' <=> Covers(u, w, p) /\ ~in(u, w)
  <2>0. u \in Tables
    BY <1>12a
  <2>1. ASSUME Covers(u, w, p)' PROVE Covers(u, w, p) /\ ~in(u, w)
    <3>1. Covers(u, w, p)
      BY <1>18, <2>0, <2>1 DEF Covers
    <3>2. ASSUME in(u, w) PROVE FALSE
      <4>1. CASE t = Root /\ w = 0
        BY <1>17, <3>2, <4>1
      <4>2. CASE ~(t = Root /\ w = 0)
        <5>1. PICK g \in On(u)' : w - frame'[g].va \in 0..(frame'[g].len - 1)
                               /\ p = frame'[g].pa + (w - frame'[g].va)
          BY <2>1, <3>2, <4>2 DEF Covers
        <5>2. g \in On(t) /\ g # f /\ frame'[g] = frame[g]
          BY <1>18, <2>0, <3>2
        <5> QED
          BY <1>16, <3>1, <3>2, <5>1, <5>2
      <4> QED
        BY <4>1, <4>2
    <3> QED
      BY <3>1, <3>2
  <2>2. ASSUME Covers(u, w, p), ~in(u, w) PROVE Covers(u, w, p)'
    <3>1. CASE u = Root /\ w = 0 /\ p = BootPage
      BY <3>1 DEF Covers
    <3>2. CASE ~(u = Root /\ w = 0 /\ p = BootPage)
      <4>1. PICK g \in On(u) : /\ frame[g].type # "L2"
                               /\ w - frame[g].va \in 0..(frame[g].len - 1)
                               /\ p = frame[g].pa + (w - frame[g].va)
        BY <2>2, <3>2 DEF Covers
      <4>2. ASSUME g = f PROVE FALSE
        <5>1. u = t
          BY <1>1, <1>3, <1>13, <2>0, <4>1, <4>2 DEF ListsSound
        <5> QED
          BY <1>2a, <2>2, <4>1, <4>2, <5>1
      <4>3. g \in On(u)' /\ frame'[g] = frame[g]
        BY <1>8, <1>10, <1>13, <2>0, <4>2, HeldOff
      <4> QED
        BY <4>1, <4>3 DEF Covers
    <3> QED
      BY <3>1, <3>2
  <2> QED
    BY <2>1, <2>2
<1>20. TablesMatchList'
  <2>1. ASSUME NEW u \in Whole, NEW w \in Va, NEW p \in Page
        PROVE  Entry(u, w)' = p <=> Covers(u, w, p)'
    BY <1>12a, <1>15, <1>19, EntryCovered
  <2> QED
    BY <1>11, <1>12a, <2>1 DEF TablesMatchList
<1>21. FramesSound'
  BY <1>4, <1>8 DEF FramesSound
<1>22. FramesDisjoint'
  BY <1>8 DEF FramesDisjoint
<1>23. ListsSound'
  <2>1. \A u \in Frames \ Tables : On(u)' = {} /\ list'[u] = <<>>
    BY <1>1, <1>10, HeldOff
  <2>2. \A u \in Frames : list'[u] # <<>> => frame'[u].type = "L1"
    BY <1>13, <2>1 DEF Tables
  <2>3. ASSUME NEW u \in Frames, NEW g \in On(u)'
        PROVE  /\ g \notin held'
               /\ frame'[g].type \in {"MEM", "DEV", "L2"}
               /\ frame'[g].type # "L2" => frame'[g].va + frame'[g].len <= NVa
    <3>1. u \in Tables
      BY <2>1, <2>3
    <3>2. g \in On(u) /\ g # f /\ frame'[g] = frame[g]
      BY <1>18, <3>1
    <3> QED
      BY <1>2a, <3>2 DEF ListsSound
  <2>4. ASSUME NEW u \in Frames, NEW x \in Frames, NEW g, g \in On(u)', g \in On(x)' PROVE u = x
    <3>1. u \in Tables /\ x \in Tables
      BY <2>1, <2>4
    <3>2. g \in On(u) /\ g \in On(x)
      BY <1>18, <2>4, <3>1
    <3> QED
      BY <3>2 DEF ListsSound
  <2>5. \A u \in Frames : \A i, j \in DOMAIN list'[u] : list'[u][i] = list'[u][j] => i = j
    BY <1>10 DEF ListsSound, OneEach
  <2> QED
    BY <2>2, <2>3, <2>4, <2>5 DEF ListsSound
<1>24. TablesApart'
  BY <1>8, <1>9, <1>12, <1>13 DEF TablesApart
<1> QED
  BY <1>20, <1>21, <1>22, <1>23, <1>24

-----------------------------------------------------------------------------
(* The theorems.                                                           *)

\* One step per action.
LEMMA NextInv == FramesInv /\ [Next]_vars => FramesInv'
<1> SUFFICES ASSUME FramesInv, [Next]_vars PROVE FramesInv'
  OBVIOUS
<1> USE DEF FramesInv
<1>1. ASSUME UNCHANGED <<frame, list, held, l1, l2, replaced>>, panic' \in {panic, "no_l2", "mapped"}
      PROVE  FramesInv'
  <2> USE <1>1
  <2>1. TypeOK'
    BY DEF TablesMatchList, TypeOK
  <2>2. /\ Tables' = Tables /\ Whole' = Whole
        /\ \A t : On(t)' = On(t)
        /\ \A t, v : Entry(t, v)' = Entry(t, v)
    BY DEF Tables, Whole, On, Entry, Table
  <2>3. \A t, v, p : Covers(t, v, p)' <=> Covers(t, v, p)
    BY <2>2 DEF Covers
  <2>4. TablesMatchList'
    BY <2>1, <2>2, <2>3 DEF TablesMatchList
  <2>5. FramesSound' /\ FramesDisjoint'
    BY DEF FramesSound, FramesDisjoint
  <2>6. ListsSound'
    BY <2>2 DEF ListsSound
  <2>7. TablesApart'
    BY <2>2 DEF TablesApart
  <2> QED
    BY <2>1, <2>4, <2>5, <2>6, <2>7
<1>2. CASE UNCHANGED vars
  BY <1>1, <1>2 DEF vars
<1>3. ASSUME NEW t \in Frames, NEW f \in Frames, NEW v \in Va, FrameMapPanics(t, f, v)
      PROVE  FramesInv'
  BY <1>1, <1>3 DEF FrameMapPanics
<1> QED
  BY <1>2, <1>3, SetupInv, L1SetupInv, ObjCreateInv, L2MapInv, MapInv, UnmapInv DEF Next

\* The invariant from which the three properties follow.
LEMMA FramesAlways == Spec => []FramesInv
  BY InitInv, NextInv, PTL DEF Spec

\* Through every sequence of sys_frame_setup, sys_frame_l1_setup,
\* sys_frame_l2_map, sys_frame_map, sys_frame_unmap and sys_obj_create, the
\* tables of an address space hold the frames of its list, whole, in order and
\* nothing else, until sys_frame_l2_map replaces one of its tables.
THEOREM TablesAlwaysMatch == Spec => []TablesMatchList
<1>1. FramesInv => TablesMatchList
  BY DEF FramesInv
<1> QED
  BY FramesAlways, <1>1, PTL

\* In the address spaces that are whole no process reaches a page that holds
\* tables or kernel objects, and no page is reached from two addresses, however
\* the tables of the others were replaced.
THEOREM PagesStayExclusive == Spec => []PagesExclusive
  BY FramesAlways, Exclusive, PTL

\* sys_frame_unmap does not panic in an address space that is whole.
THEOREM NoUnmapPanic == Spec => UnmapNeverPanics
<1>1. FramesInv /\ [Next]_vars =>
        [\A t \in Whole, v \in Va : FrameUnmap(t, v) => panic' = nil]_vars
  <2>1. ASSUME FramesInv, NEW t \in Whole, NEW v \in Va, FrameUnmap(t, v) PROVE panic' = nil
    BY <2>1, UnmapDoes DEF Whole, Tables
  <2> QED
    BY <2>1
<1> QED
  BY FramesAlways, <1>1, PTL DEF Spec, UnmapNeverPanics
=============================================================================
