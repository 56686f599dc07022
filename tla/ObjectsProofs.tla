--------------------------- MODULE ObjectsProofs ---------------------------
(***************************************************************************)
(* Kernel objects never overlap and memory never has two owners, for any   *)
(* amount of memory, any number of slots and any object sizes; and an      *)
(* interrupt object always has a driver that will end its interrupt.       *)
(***************************************************************************)
EXTENDS Objects, Intr, TLAPS

\* A slot is empty or holds the capability of an object.
LEMMA SlotCases ==
  ASSUME TypeOK, NEW s \in Slots
  PROVE  /\ caps[s] = Empty \/ (caps[s] # Empty /\ caps[s] \in Cap)
         /\ caps[s] = Empty <=> caps[s].obj \notin Addr
         /\ caps[s] # Empty => caps[s].obj \in Addr /\ caps[s].perm \in {"w", "rw"}
         /\ caps[s] # Empty => caps[s].obj # nil
<1> USE ObjectsOK
<1>1. Empty.obj = nil /\ nil \notin Addr
  BY DEF Empty
<1> QED
  BY <1>1 DEF TypeOK, Cap

\* The same for all slots at once.
LEMMA SlotFacts ==
  ASSUME TypeOK
  PROVE  /\ \A r \in Slots : caps[r] # Empty => caps[r].obj \in Addr
         /\ \A r \in Slots : caps[r].perm = "w" => caps[r] # Empty
         /\ Empty.obj = nil /\ Empty.perm = "no" /\ nil \notin Addr
         /\ inuse \subseteq Addr
  BY SlotCases, ObjectsOK DEF Empty, TypeOK

\* A slot that is emptied takes part in no aliasing.
LEMMA EmptiedObj ==
  ASSUME ObjInv, NEW s \in Slots, type' = type, caps' = [caps EXCEPT ![s] = Empty],
         \A r \in Slots \ {s} : caps[r].obj \notin inuse', inuse' \subseteq Addr
  PROVE  Unaliased' /\ WriteOnly'
<1>1. \A r \in Slots : caps'[r] = IF r = s THEN Empty ELSE caps[r]
  BY DEF ObjInv, TypeOK
<1>2. /\ \A r \in Slots : caps[r] # Empty => caps[r].obj \in Addr
      /\ \A r \in Slots : caps[r].perm = "w" => caps[r] # Empty
      /\ Empty.obj = nil /\ Empty.perm = "no" /\ nil \notin Addr
  BY SlotFacts DEF ObjInv
<1>3. ASSUME NEW q \in Slots, NEW r \in Slots, q # r, caps'[q] # Empty,
             caps'[q].obj = caps'[r].obj
      PROVE  type'[caps'[q].obj] = "endpoint" /\ "w" \in {caps'[q].perm, caps'[r].perm}
  <2>1. q # s /\ r # s
    BY <1>1, <1>2, <1>3
  <2> QED
    BY <1>1, <1>3, <2>1 DEF ObjInv, Unaliased
<1>4. \A r \in Slots : caps'[r].obj \notin inuse'
  BY <1>1, <1>2
<1>5. WriteOnly'
  BY <1>1, <1>2 DEF ObjInv, WriteOnly
<1> QED
  BY <1>3, <1>4, <1>5 DEF Unaliased

\* The objects that root starts with satisfy the invariant.
LEMMA InitObj == Init => ObjInv
<1> SUFFICES ASSUME Init PROVE ObjInv
  OBVIOUS
<1> USE ObjectsOK DEF Init
<1>1. TypeOK
  BY DEF TypeOK, Addr
<1>2. \A s \in Slots : caps[s].obj = nil /\ caps[s] = Empty /\ caps[s].perm = "no"
  BY DEF Empty
<1>3. \A a \in Addr : ~Reachable(a)
  BY <1>2 DEF Reachable
<1>4. Disjoint /\ Unaliased /\ WriteOnly /\ Sized
  BY <1>2, <1>3 DEF Disjoint, Unaliased, WriteOnly, Sized
<1> QED
  BY <1>1, <1>4 DEF ObjInv

\* What the invariant says of a slot that holds untyped memory or a frame:
\* no other slot and no kernel list refers to it.
LEMMA SoleOwner ==
  ASSUME ObjInv, NEW s \in Slots, NEW t, t # "endpoint", Holds(s, t)
  PROVE  /\ caps[s].obj \in Addr
         /\ Reachable(caps[s].obj)
         /\ caps[s].perm = "rw"
         /\ caps[s].obj \notin inuse
         /\ \A r \in Slots \ {s} : caps[r].obj # caps[s].obj
  BY SlotCases DEF ObjInv, Holds, Reachable, Unaliased, WriteOnly

-----------------------------------------------------------------------------
\* sys_obj_create keeps it.
LEMMA CreateObj ==
  ASSUME ObjInv, NEW s \in Slots, NEW b \in Blocks, Create(s, b)
  PROVE  ObjInv'
<1> USE ObjectsOK
<1> DEFINE c == [obj |-> b, perm |-> "rw"]
<1>1. /\ b \in Addr /\ c \in Cap /\ c # Empty
      /\ caps' = [caps EXCEPT ![s] = c]
      /\ type' = [type EXCEPT ![b] = "untyped"]
      /\ len' = [len EXCEPT ![b] = BlockLen[b]]
      /\ fresh' = fresh \ {b} /\ inuse' = inuse
      /\ caps[s] = Empty /\ b \in fresh
  BY DEF Create, Cap, Empty
<1>2. TypeOK'
  BY <1>1 DEF ObjInv, TypeOK
<1>3. ~Reachable(b)
  BY <1>1 DEF ObjInv, Disjoint, Sized, TypeOK, Addr
<1>4. \A r \in Slots : caps'[r] = IF r = s THEN c ELSE caps[r]
  BY <1>1 DEF ObjInv, TypeOK
<1>5. \A a \in Addr : Reachable(a)' <=> a = b \/ Reachable(a)
  BY <1>1, <1>4, SlotCases DEF Reachable, ObjInv
<1>6. \A a \in Addr : len'[a] = IF a = b THEN BlockLen[b] ELSE len[a]
  BY <1>1 DEF ObjInv, TypeOK
<1>7. Disjoint'
  <2>1. \A a \in Addr : Reachable(a) => a + len[a] <= b \/ b + BlockLen[b] <= a
    BY <1>1 DEF ObjInv, Disjoint
  <2>2. /\ \A a \in Addr : a \in Nat /\ len[a] \in Nat
        /\ BlockLen[b] \in Nat /\ b + BlockLen[b] <= Size
    BY <1>1 DEF ObjInv, TypeOK, Addr
  <2>3. ASSUME NEW a \in Addr, Reachable(a)' PROVE a + len'[a] <= Size
    BY <1>5, <1>6, <2>2, <2>3 DEF ObjInv, Disjoint
  <2>4. ASSUME NEW a \in Addr, NEW d \in Addr, Reachable(a)', Reachable(d)', a < d
        PROVE  a + len'[a] <= d
    <3>1. CASE a = b
      BY <1>5, <1>6, <2>1, <2>2, <2>4, <3>1
    <3>2. CASE d = b
      BY <1>5, <1>6, <2>1, <2>2, <2>4, <3>2
    <3>3. CASE a # b /\ d # b
      BY <1>5, <1>6, <2>4, <3>3 DEF ObjInv, Disjoint
    <3> QED
      BY <3>1, <3>2, <3>3
  <2>5. ASSUME NEW a \in Addr, NEW d \in fresh', Reachable(a)'
        PROVE  a + len'[a] <= d \/ d + BlockLen[d] <= a
    <3>1. d \in fresh /\ d \in Blocks /\ d # b
      BY <1>1, <2>5 DEF ObjInv, TypeOK
    <3>2. d < b \/ b < d
      BY <1>1, <3>1 DEF Addr
    <3>3. CASE a = b
      BY <1>1, <1>6, <3>1, <3>2, <3>3
    <3>4. CASE a # b
      BY <1>5, <1>6, <2>5, <3>1, <3>4 DEF ObjInv, Disjoint
    <3> QED
      BY <3>3, <3>4
  <2> QED
    BY <2>3, <2>4, <2>5 DEF Disjoint
<1>8. Unaliased' /\ WriteOnly'
  <2>1. \A r \in Slots : caps[r].obj # b
    BY <1>3 DEF Reachable
  <2>2. b \notin inuse
    BY <1>3 DEF Reachable
  <2>3. \A r \in Slots \ {s} : caps[r] # Empty => type'[caps[r].obj] = type[caps[r].obj]
    BY <1>1, <2>1, SlotCases DEF ObjInv, TypeOK
  <2>4. c.obj = b /\ c.perm = "rw"
    OBVIOUS
  <2>5. Empty.perm = "no"
    BY DEF Empty
  <2>6. Unaliased'
    BY <1>1, <1>4, <2>1, <2>2, <2>3, <2>4 DEF ObjInv, Unaliased
  <2>7. WriteOnly'
    BY <1>1, <1>4, <2>3, <2>4, <2>5 DEF ObjInv, WriteOnly
  <2> QED
    BY <2>6, <2>7
<1>9. Sized'
  BY <1>1, <1>3, <1>5, <1>6 DEF ObjInv, Sized, Reachable, TypeOK
<1> QED
  BY <1>2, <1>7, <1>8, <1>9 DEF ObjInv

\* Retyping and shrinking: the memory of an object that has one owner becomes
\* shorter or stays as long as it is.
LEMMA ShorterObj ==
  ASSUME ObjInv, NEW s \in Slots, Holds(s, "untyped"),
         NEW t \in Types \cup {"untyped"}, NEW n \in Nat \ {0}, n <= len[caps[s].obj],
         type' = [type EXCEPT ![caps[s].obj] = t],
         len' = [len EXCEPT ![caps[s].obj] = n],
         UNCHANGED <<caps, fresh, inuse>>
  PROVE  ObjInv'
<1> USE ObjectsOK
<1> DEFINE o == caps[s].obj
<1>1. /\ o \in Addr /\ Reachable(o) /\ caps[s].perm = "rw" /\ o \notin inuse
      /\ \A r \in Slots \ {s} : caps[r].obj # o
  BY SoleOwner
<1> HIDE DEF o
<1>2. TypeOK'
  BY DEF ObjInv, TypeOK
<1>3. \A a \in Addr : Reachable(a)' <=> Reachable(a)
  BY DEF Reachable
<1>4. \A a \in Addr : len'[a] = IF a = o THEN n ELSE len[a]
  BY DEF ObjInv, TypeOK, o
<1>5. \A a \in Addr : len'[a] \in Nat /\ len[a] \in Nat /\ len'[a] <= len[a]
  BY <1>1, <1>4 DEF ObjInv, TypeOK, o
<1>6. Disjoint'
  <2>1. \A a \in Addr : a \in Nat
    BY DEF Addr
  <2>2. Size \in Nat /\ \A d \in fresh : d \in Nat /\ BlockLen[d] \in Nat
    BY DEF ObjInv, TypeOK, Addr
  <2>3. ASSUME NEW a \in Addr, Reachable(a)' PROVE a + len'[a] <= Size
    BY <1>3, <1>5, <2>1, <2>2, <2>3 DEF ObjInv, Disjoint
  <2>4. ASSUME NEW a \in Addr, NEW d \in Addr, Reachable(a)', Reachable(d)', a < d
        PROVE  a + len'[a] <= d
    <3>1. a + len[a] <= d
      BY <1>3, <2>4 DEF ObjInv, Disjoint
    <3> QED
      BY <1>5, <2>1, <3>1
  <2>5. ASSUME NEW a \in Addr, NEW d \in fresh', Reachable(a)'
        PROVE  a + len'[a] <= d \/ d + BlockLen[d] <= a
    <3>1. d \in fresh /\ (a + len[a] <= d \/ d + BlockLen[d] <= a)
      BY <1>3, <2>5 DEF ObjInv, Disjoint
    <3> QED
      BY <1>5, <2>1, <2>2, <3>1
  <2> QED
    BY <2>3, <2>4, <2>5 DEF Disjoint
<1>7. \A a \in Addr \ {o} : type'[a] = type[a]
  BY DEF ObjInv, TypeOK, o
<1>8. Unaliased' /\ WriteOnly'
  <2>1. \A r \in Slots \ {s} : caps[r] # Empty => type'[caps[r].obj] = type[caps[r].obj]
    BY <1>1, <1>7, SlotCases DEF ObjInv
  <2>2. caps[s].obj = o
    BY DEF o
  <2>3. \A r \in Slots : caps[r].perm = "w" => r # s /\ caps[r] # Empty
    BY <1>1, SlotCases DEF Empty
  <2>4. Unaliased'
    BY <1>1, <2>1, <2>2 DEF ObjInv, Unaliased
  <2>5. WriteOnly'
    BY <2>1, <2>3 DEF ObjInv, WriteOnly
  <2> QED
    BY <2>4, <2>5
<1>9. Sized'
  BY <1>1, <1>3, <1>4, <1>7 DEF ObjInv, Sized, TypeOK
<1> QED
  BY <1>2, <1>6, <1>8, <1>9 DEF ObjInv

\* sys_obj_retype keeps it.
LEMMA RetypeObj ==
  ASSUME ObjInv, NEW s \in Slots, NEW t \in Types, Retype(s, t)
  PROVE  ObjInv'
  BY ShorterObj, ObjectsOK DEF Retype

\* Making untyped memory smaller keeps it.
LEMMA ShrinkObj ==
  ASSUME ObjInv, NEW s \in Slots, NEW n \in 1..Size, Shrink(s, n)
  PROVE  ObjInv'
<1>1. type' = [type EXCEPT ![caps[s].obj] = "untyped"]
  BY SlotCases DEF Shrink, Holds, ObjInv, TypeOK
<1>2. /\ n \in Nat \ {0} /\ n <= len[caps[s].obj] /\ Holds(s, "untyped")
      /\ len' = [len EXCEPT ![caps[s].obj] = n]
      /\ UNCHANGED <<caps, fresh, inuse>>
  BY ObjectsOK DEF Shrink
<1> QED
  BY <1>1, <1>2, ShorterObj

\* sys_obj_split keeps it.
LEMMA SplitObj ==
  ASSUME ObjInv, NEW s \in Slots, NEW t \in Slots, Split(s, t)
  PROVE  ObjInv'
<1> USE ObjectsOK
<1> DEFINE o == caps[s].obj
           h == Half(len[o])
           u == o + h
           c == [obj |-> u, perm |-> "rw"]
<1>1. /\ o \in Addr /\ Reachable(o) /\ caps[s].perm = "rw" /\ o \notin inuse
      /\ \A r \in Slots \ {s} : caps[r].obj # o
  BY SoleOwner DEF Split
<1>2. /\ h >= MinLen /\ caps[t] = Empty /\ caps[s] # Empty
      /\ type' = [type EXCEPT ![u] = "untyped"]
      /\ len' = [len EXCEPT ![u] = h, ![o] = h]
      /\ caps' = [caps EXCEPT ![t] = c]
      /\ fresh' = fresh /\ inuse' = inuse
  BY DEF Split, Holds
<1>3. len[o] \in Nat /\ o + len[o] <= Size
  BY <1>1 DEF ObjInv, TypeOK, Disjoint
<1>4. h \in Nat /\ h > 0 /\ o < u /\ u + h <= o + len[o] /\ u \in Addr
  BY <1>1, <1>2, <1>3 DEF Addr, Half
<1> HIDE DEF o, h, u
<1>5. c \in Cap /\ c # Empty /\ c.obj = u /\ c.perm = "rw"
  BY <1>4 DEF Cap, Empty, Addr
<1> HIDE DEF c
<1>6. TypeOK'
  BY <1>2, <1>4, <1>5 DEF ObjInv, TypeOK
<1>7. ~Reachable(u)
  BY <1>1, <1>3, <1>4 DEF ObjInv, Disjoint, Addr
<1>8. \A r \in Slots : caps'[r] = IF r = t THEN c ELSE caps[r]
  BY <1>2 DEF ObjInv, TypeOK
<1>9. \A a \in Addr : Reachable(a)' <=> a = u \/ Reachable(a)
  BY <1>2, <1>4, <1>5, <1>8, SlotCases DEF Reachable, ObjInv
<1>10. \A a \in Addr : len'[a] = IF a = u \/ a = o THEN h ELSE len[a]
  BY <1>1, <1>2, <1>4 DEF ObjInv, TypeOK
<1>11. Disjoint'
  <2>1. \A a \in Addr : len[a] \in Nat /\ a \in Nat
    BY DEF ObjInv, TypeOK, Addr
  <2>2. \A a \in Addr : Reachable(a)' => a + len'[a] <= Size
    BY <1>1, <1>3, <1>4, <1>9, <1>10, <2>1 DEF ObjInv, Disjoint
  <2>3. ASSUME NEW a \in Addr, NEW b \in Addr, Reachable(a)', Reachable(b)', a < b
        PROVE  a + len'[a] <= b
    <3>1. CASE a = o /\ b = u
      BY <1>4, <1>10, <3>1, <2>1 DEF u
    <3>2. CASE a = o /\ b # u
      BY <1>1, <1>4, <1>9, <1>10, <2>1, <2>3, <3>2 DEF ObjInv, Disjoint
    <3>3. CASE a = u
      <4>1. b # o /\ Reachable(b) /\ o < b
        BY <1>1, <1>4, <1>9, <2>1, <2>3, <3>3
      <4>2. o + len[o] <= b
        BY <1>1, <4>1 DEF ObjInv, Disjoint
      <4> QED
        BY <1>1, <1>3, <1>4, <1>10, <2>1, <3>3, <4>2
    <3>4. CASE a # o /\ a # u
      <4>1. Reachable(a) /\ len'[a] = len[a]
        BY <1>9, <1>10, <2>3, <3>4
      <4>2. CASE b = u
        <5>1. a < o
          BY <1>1, <1>3, <1>4, <2>1, <2>3, <3>4, <4>1, <4>2 DEF ObjInv, Disjoint
        <5> QED
          BY <1>1, <1>4, <2>1, <4>1, <4>2, <5>1 DEF ObjInv, Disjoint
      <4>3. CASE b # u
        BY <1>9, <2>3, <4>1, <4>3 DEF ObjInv, Disjoint
      <4> QED
        BY <4>2, <4>3
    <3> QED
      BY <3>1, <3>2, <3>3, <3>4
  <2>4. ASSUME NEW a \in Addr, NEW b \in fresh, Reachable(a)'
        PROVE  a + len'[a] <= b \/ b + BlockLen[b] <= a
    <3>1. b \in Nat /\ BlockLen[b] \in Nat
      BY DEF ObjInv, TypeOK, Addr
    <3>2. o + len[o] <= b \/ b + BlockLen[b] <= o
      BY <1>1 DEF ObjInv, Disjoint
    <3>3. a # u /\ a # o => a + len[a] <= b \/ b + BlockLen[b] <= a
      BY <1>9, <2>4 DEF ObjInv, Disjoint
    <3> QED
      BY <1>1, <1>3, <1>4, <1>10, <2>1, <3>1, <3>2, <3>3
  <2> QED
    BY <1>2, <2>2, <2>3, <2>4 DEF Disjoint
<1>12. Unaliased' /\ WriteOnly'
  <2>1. u \notin inuse /\ \A r \in Slots : caps[r].obj # u
    BY <1>7 DEF Reachable
  <2>2. \A r \in Slots : caps[r] # Empty => type'[caps[r].obj] = type[caps[r].obj]
    BY <1>2, <1>4, <2>1, SlotCases DEF ObjInv, TypeOK
  <2>3. Empty.perm = "no"
    BY DEF Empty
  <2>4. Unaliased'
    BY <1>2, <1>5, <1>8, <2>1, <2>2 DEF ObjInv, Unaliased
  <2>5. WriteOnly'
    BY <1>5, <1>8, <2>2, <2>3 DEF ObjInv, WriteOnly
  <2> QED
    BY <2>4, <2>5
<1>13. Sized'
  BY <1>2, <1>4, <1>7, <1>9, <1>10 DEF ObjInv, Sized, Reachable, TypeOK
<1> QED
  BY <1>6, <1>11, <1>12, <1>13 DEF ObjInv

\* Only neighbours are merged: nothing reachable lies between them.
LEMMA MergeObj ==
  ASSUME ObjInv, NEW s \in Slots, NEW t \in Slots, Merge(s, t)
  PROVE  ObjInv'
<1> USE ObjectsOK
<1> DEFINE o == caps[s].obj
           u == caps[t].obj
<1>1. /\ o \in Addr /\ Reachable(o) /\ caps[s].perm = "rw" /\ o \notin inuse
      /\ \A r \in Slots \ {s} : caps[r].obj # o
  BY SoleOwner DEF Merge
<1>2. /\ u \in Addr /\ Reachable(u) /\ u \notin inuse
      /\ \A r \in Slots \ {t} : caps[r].obj # u
  BY SoleOwner DEF Merge
<1>3. /\ o + len[o] = u
      /\ len' = [len EXCEPT ![o] = len[o] + len[u]]
      /\ caps' = [caps EXCEPT ![t] = Empty]
      /\ type' = type /\ fresh' = fresh /\ inuse' = inuse
      /\ caps[s] # Empty
  BY DEF Merge, Holds
<1>4. \A a \in Addr : len[a] \in Nat /\ a \in Nat
  BY DEF ObjInv, TypeOK, Addr
<1>5. len[o] > 0 /\ len[u] > 0 /\ o # u /\ s # t
  BY <1>1, <1>2, <1>3, <1>4 DEF ObjInv, Sized
<1>6. caps[s].obj = o /\ caps[t].obj = u
  OBVIOUS
<1> HIDE DEF o, u
<1>7. TypeOK'
  BY <1>1, <1>2, <1>3, <1>4 DEF ObjInv, TypeOK
<1>8. \A r \in Slots : caps'[r] = IF r = t THEN Empty ELSE caps[r]
  BY <1>3 DEF ObjInv, TypeOK
<1>9. Empty.obj = nil /\ Empty.perm = "no"
  BY DEF Empty
<1>10. \A a \in Addr : Reachable(a)' => Reachable(a) /\ a # u
  BY <1>2, <1>3, <1>8, <1>9 DEF Reachable
<1>11. \A a \in Addr : len'[a] = IF a = o THEN len[o] + len[u] ELSE len[a]
  BY <1>1, <1>3 DEF ObjInv, TypeOK
<1>12. Disjoint'
  <2>1. \A a \in Addr : Reachable(a)' => a + len'[a] <= Size
    BY <1>1, <1>2, <1>3, <1>4, <1>10, <1>11 DEF ObjInv, Disjoint
  <2>2. ASSUME NEW a \in Addr, NEW b \in Addr, Reachable(a)', Reachable(b)', a < b
        PROVE  a + len'[a] <= b
    <3>1. Reachable(a) /\ Reachable(b) /\ b # u /\ a + len[a] <= b
      BY <1>10, <2>2 DEF ObjInv, Disjoint
    <3>2. CASE a = o
      <4>1. u < b
        BY <1>1, <1>2, <1>3, <1>4, <3>1, <3>2
      <4>2. u + len[u] <= b
        BY <1>2, <3>1, <4>1 DEF ObjInv, Disjoint
      <4> QED
        BY <1>1, <1>2, <1>3, <1>4, <1>11, <3>2, <4>2
    <3> QED
      BY <1>11, <3>1, <3>2
  <2>3. ASSUME NEW a \in Addr, NEW b \in fresh, Reachable(a)'
        PROVE  a + len'[a] <= b \/ b + BlockLen[b] <= a
    <3>1. b \in Nat /\ BlockLen[b] \in Nat \ {0}
      BY DEF ObjInv, TypeOK, Addr
    <3>2. /\ o + len[o] <= b \/ b + BlockLen[b] <= o
          /\ u + len[u] <= b \/ b + BlockLen[b] <= u
          /\ a + len[a] <= b \/ b + BlockLen[b] <= a
      BY <1>1, <1>2, <1>10, <2>3 DEF ObjInv, Disjoint
    <3> QED
      BY <1>1, <1>2, <1>3, <1>4, <1>11, <3>1, <3>2
  <2> QED
    BY <1>3, <2>1, <2>2, <2>3 DEF Disjoint
<1>13. Unaliased' /\ WriteOnly'
  BY <1>3, EmptiedObj DEF ObjInv, Unaliased, TypeOK
<1>14. Sized'
  BY <1>1, <1>2, <1>3, <1>4, <1>5, <1>10, <1>11 DEF ObjInv, Sized
<1> QED
  BY <1>7, <1>12, <1>13, <1>14 DEF ObjInv

\* Steps that only move capabilities and reach nothing new.
LEMMA NothingNew ==
  ASSUME ObjInv, UNCHANGED <<type, len, fresh>>,
         \A a \in Addr : Reachable(a)' => Reachable(a)
  PROVE  Disjoint' /\ \A a \in Addr : Reachable(a)' => len'[a] > 0
  BY DEF ObjInv, Disjoint, Sized

\* sys_endpoint_connect keeps it.
LEMMA ConnectObj ==
  ASSUME ObjInv, NEW s \in Slots, NEW t \in Slots, Connect(s, t)
  PROVE  ObjInv'
<1> USE ObjectsOK
<1> DEFINE c == [obj |-> caps[s].obj, perm |-> "w"]
<1>1. /\ caps[s].obj \in Addr /\ type[caps[s].obj] = "endpoint"
      /\ caps[s] # Empty /\ caps[t] = Empty
      /\ caps' = [caps EXCEPT ![t] = c]
      /\ UNCHANGED <<type, len, fresh, inuse>>
  BY SlotCases DEF Connect, Holds, ObjInv
<1>2. c \in Cap /\ c.obj = caps[s].obj /\ c.perm = "w"
  BY <1>1 DEF Cap
<1> HIDE DEF c
<1>3. TypeOK'
  BY <1>1, <1>2 DEF ObjInv, TypeOK
<1>4. \A r \in Slots : caps'[r] = IF r = t THEN c ELSE caps[r]
  BY <1>1 DEF ObjInv, TypeOK
<1>5. \A a \in Addr : Reachable(a)' => Reachable(a)
  BY <1>1, <1>2, <1>4 DEF Reachable
<1>6. Unaliased' /\ WriteOnly'
  BY <1>1, <1>2, <1>4 DEF ObjInv, Unaliased, WriteOnly
<1>7. Disjoint' /\ Sized'
  BY <1>1, <1>5, NothingNew DEF ObjInv, Sized
<1> QED
  BY <1>3, <1>6, <1>7 DEF ObjInv

\* Passing a capability on in a message keeps it.
LEMMA GiveObj ==
  ASSUME ObjInv, NEW s \in Slots, NEW t \in Slots, Give(s, t)
  PROVE  ObjInv'
<1> USE ObjectsOK
<1>1. /\ caps[s] # Empty /\ caps[t] = Empty /\ s # t
      /\ caps' = [caps EXCEPT ![t] = caps[s], ![s] = Empty]
      /\ UNCHANGED <<type, len, fresh, inuse>>
  BY DEF Give
<1>2. TypeOK'
  BY <1>1 DEF ObjInv, TypeOK
<1>3. \A r \in Slots : caps'[r] = IF r = s THEN Empty ELSE IF r = t THEN caps[s] ELSE caps[r]
  BY <1>1 DEF ObjInv, TypeOK
<1>4. Empty.obj = nil /\ Empty.perm = "no" /\ nil \notin Addr
  BY DEF Empty
<1>5. \A a \in Addr : Reachable(a)' => Reachable(a)
  BY <1>1, <1>3, <1>4 DEF Reachable
<1>6. type' = type /\ inuse' = inuse
  BY <1>1
<1>7. /\ \A r \in Slots : caps[r] # Empty => caps[r].obj \in Addr
      /\ inuse \subseteq Addr
  BY SlotFacts DEF ObjInv
<1>8. Unaliased'
  <2>1. ASSUME NEW q \in Slots, NEW r \in Slots, q # r, caps'[q] # Empty,
               caps'[q].obj = caps'[r].obj
        PROVE  type'[caps'[q].obj] = "endpoint" /\ "w" \in {caps'[q].perm, caps'[r].perm}
    <3>1. q # s /\ r # s
      BY <1>3, <1>4, <1>7, <2>1
    <3>2. CASE q = t
      BY <1>3, <1>6, <2>1, <3>1, <3>2 DEF ObjInv, Unaliased
    <3>3. CASE r = t
      BY <1>3, <1>6, <2>1, <3>1, <3>3 DEF ObjInv, Unaliased
    <3>4. CASE q # t /\ r # t
      BY <1>3, <1>6, <2>1, <3>1, <3>4 DEF ObjInv, Unaliased
    <3> QED
      BY <3>2, <3>3, <3>4
  <2>2. \A r \in Slots : caps'[r].obj \notin inuse'
    BY <1>3, <1>4, <1>7, <1>6 DEF ObjInv, Unaliased
  <2> QED
    BY <2>1, <2>2 DEF Unaliased
<1>9. WriteOnly'
  <2>1. \A r \in Slots : caps'[r].perm = "w" => type[caps'[r].obj] = "endpoint"
    BY <1>3, <1>4 DEF ObjInv, WriteOnly
  <2> QED
    BY <1>1, <2>1 DEF WriteOnly
<1>10. Disjoint' /\ Sized'
  BY <1>1, <1>5, NothingNew DEF ObjInv, Sized
<1> QED
  BY <1>2, <1>8, <1>9, <1>10 DEF ObjInv

\* sys_frame_map keeps it.
LEMMA FrameMapObj ==
  ASSUME ObjInv, NEW s \in Slots, FrameMap(s)
  PROVE  ObjInv'
<1> USE ObjectsOK
<1> DEFINE o == caps[s].obj
<1>1. /\ o \in Addr /\ Reachable(o) /\ o \notin inuse
      /\ \A r \in Slots \ {s} : caps[r].obj # o
  BY SoleOwner DEF FrameMap
<1>2. /\ type[o] = "frame"
      /\ inuse' = inuse \cup {o}
      /\ caps' = [caps EXCEPT ![s] = Empty]
      /\ UNCHANGED <<type, len, fresh>>
  BY DEF FrameMap, Holds
<1> HIDE DEF o
<1>3. TypeOK'
  BY <1>1, <1>2 DEF ObjInv, TypeOK
<1>4. \A r \in Slots : caps'[r] = IF r = s THEN Empty ELSE caps[r]
  BY <1>2 DEF ObjInv, TypeOK
<1>5. Empty.obj = nil /\ Empty.perm = "no" /\ nil \notin Addr
  BY DEF Empty
<1>6. \A a \in Addr : Reachable(a)' => Reachable(a)
  BY <1>1, <1>2, <1>4, <1>5 DEF Reachable
<1>7. inuse' \subseteq Addr
  BY <1>1, <1>2 DEF ObjInv, TypeOK
<1>8. Unaliased' /\ WriteOnly'
  BY <1>1, <1>2, <1>7, EmptiedObj DEF ObjInv, Unaliased
<1>9. Disjoint' /\ Sized'
  BY <1>2, <1>6, NothingNew DEF ObjInv, Sized
<1> QED
  BY <1>3, <1>8, <1>9 DEF ObjInv

\* sys_frame_unmap keeps it.
LEMMA FrameUnmapObj ==
  ASSUME ObjInv, NEW s \in Slots, NEW a \in Addr, FrameUnmap(s, a)
  PROVE  ObjInv'
<1> USE ObjectsOK
<1> DEFINE c == [obj |-> a, perm |-> "rw"]
<1>1. /\ a \in inuse /\ type[a] = "frame"
      /\ inuse' = inuse \ {a}
      /\ caps' = [caps EXCEPT ![s] = c]
      /\ UNCHANGED <<type, len, fresh>>
  BY DEF FrameUnmap, ObjInv, Sized
<1>2. c \in Cap /\ c.obj = a /\ c.perm = "rw"
  BY DEF Cap
<1> HIDE DEF c
<1>3. TypeOK'
  BY <1>1, <1>2 DEF ObjInv, TypeOK
<1>4. \A r \in Slots : caps'[r] = IF r = s THEN c ELSE caps[r]
  BY <1>1 DEF ObjInv, TypeOK
<1>5. \A r \in Slots : caps[r].obj # a
  BY <1>1 DEF ObjInv, Unaliased
<1>6. \A x \in Addr : Reachable(x)' => Reachable(x)
  BY <1>1, <1>2, <1>4 DEF Reachable
<1>7. Unaliased' /\ WriteOnly'
  BY <1>1, <1>2, <1>4, <1>5 DEF ObjInv, Unaliased, WriteOnly
<1>8. Disjoint' /\ Sized'
  BY <1>1, <1>6, NothingNew DEF ObjInv, Sized
<1> QED
  BY <1>3, <1>7, <1>8 DEF ObjInv

-----------------------------------------------------------------------------
\* Every step keeps it.
LEMMA NextObj == ObjInv /\ [Next]_vars => ObjInv'
<1> SUFFICES ASSUME ObjInv, [Next]_vars PROVE ObjInv'
  OBVIOUS
<1>1. CASE Next
  BY <1>1, CreateObj, RetypeObj, ShrinkObj, SplitObj, MergeObj, ConnectObj, GiveObj,
     FrameMapObj, FrameUnmapObj DEF Next
<1>2. CASE UNCHANGED vars
  BY <1>2 DEF vars, ObjInv, TypeOK, Disjoint, Unaliased, WriteOnly, Sized, Reachable
<1> QED
  BY <1>1, <1>2

\* The invariant holds in every reachable state.
LEMMA ObjectsInvariant == Spec => []ObjInv
  BY InitObj, NextObj, PTL DEF Spec

\* Headers and capabilities keep their types under every sequence of calls.
THEOREM ObjectTypes == Spec => []TypeOK
<1>1. ObjInv => TypeOK
  BY DEF ObjInv
<1> QED
  BY <1>1, ObjectsInvariant, PTL

\* sys_obj_split, sys_obj_merge and sys_obj_retype never make two reachable
\* objects overlap, and never reach into memory that is still the user's.
THEOREM ObjectsDisjoint == Spec => []Disjoint
<1>1. ObjInv => Disjoint
  BY DEF ObjInv
<1> QED
  BY <1>1, ObjectsInvariant, PTL

\* Memory that can be retyped, split or merged has exactly one owner, and an
\* endpoint has at most one capability that can receive.
THEOREM SingleOwner == Spec => []Unaliased
<1>1. ObjInv => Unaliased
  BY DEF ObjInv
<1> QED
  BY <1>1, ObjectsInvariant, PTL

-----------------------------------------------------------------------------
(* Interrupt objects: an interrupt that has not ended always has somebody  *)
(* who will end it, for any number of devices and drivers.                 *)

\* The invariant holds when the kernel has started.
LEMMA IntrStartInv == IntrStart => IntrInv
  BY IntrOK DEF IntrStart, IntrInv, IntrTypeOK, Connected, AckOwed, Procs

\* One step per action; where an action moves several variables the three
\* parts of the invariant are proved one by one.
LEMMA IntrNextInv == IntrInv /\ [IntrNext]_intr_vars => IntrInv'
<1> SUFFICES ASSUME IntrInv, [IntrNext]_intr_vars PROVE IntrInv'
  OBVIOUS
<1> USE IntrOK DEF IntrInv, Procs
<1>1. CASE UNCHANGED intr_vars
  BY <1>1 DEF intr_vars, IntrTypeOK, Connected, AckOwed
<1>2. ASSUME NEW i \in Irqs, Assert(i) PROVE IntrInv'
  BY <1>2 DEF Assert, tables, IntrTypeOK, Connected, AckOwed
<1>3. CASE TickPasses \/ Systick
  <2> USE <1>3 DEF TickPasses, Systick, tables
  <2>1. IntrTypeOK'
    BY DEF IntrTypeOK
  <2>2. Connected' /\ AckOwed'
    BY DEF Connected, AckOwed
  <2> QED
    BY <2>1, <2>2
<1>4. ASSUME NEW p \in Procs, Pick(p) \/ Yield(p) PROVE IntrInv'
  <2> USE <1>4 DEF Pick, Yield, hardware, tables
  <2>1. IntrTypeOK'
    BY DEF IntrTypeOK
  <2>2. Connected' /\ AckOwed'
    BY DEF Connected, AckOwed
  <2> QED
    BY <2>1, <2>2
<1>5. ASSUME NEW d \in Drivers, DriverCalls(d) \/ ServerAnswers(d) PROVE IntrInv'
  <2> USE <1>5 DEF DriverCalls, ServerAnswers, hardware, tables
  <2>1. \A c \in Drivers : at'[c] = at[c] \/ (c = d /\ at[c] \notin {"start", "clear", "ack"}
                                              /\ at'[c] \in {"recv", "mesg"})
    BY DEF IntrTypeOK
  <2>2. IntrTypeOK'
    BY DEF IntrTypeOK
  <2>3. Connected' /\ AckOwed'
    BY <2>1 DEF Connected, AckOwed
  <2> QED
    BY <2>2, <2>3
<1>6. ASSUME NEW d \in Drivers, NEW i \in Irqs, IntrInit(d, i) PROVE IntrInv'
  <2> USE <1>6 DEF IntrInit, hardware
  <2>1. IntrTypeOK'
    BY DEF IntrTypeOK
  <2>2. \A c \in Drivers : irqn[c] # 0 => irqn'[c] = irqn[c]
    BY DEF IntrTypeOK
  <2>3. \A j \in Irqs : handler[j] # none => handler[j] \in Drivers /\ irqn[handler[j]] # 0
    BY DEF IntrTypeOK, Connected
  <2>4. Connected'
    BY <2>2, <2>3 DEF IntrTypeOK, Connected
  <2>5. AckOwed'
    BY <2>2 DEF IntrTypeOK, AckOwed
  <2> QED
    BY <2>1, <2>4, <2>5
<1>7. ASSUME NEW d \in Drivers, IntrConnect(d) PROVE IntrInv'
  <2> USE <1>7 DEF IntrConnect, hardware
  <2>1. IntrTypeOK' /\ irqn[d] \in Irqs
    BY DEF IntrTypeOK
  <2>2. \A i \in Irqs : handler'[i] = IF i = irqn[d] THEN d ELSE handler[i]
    BY DEF IntrTypeOK
  <2>3. \A c \in Drivers : /\ at'[c] # "start" => c = d \/ at[c] # "start"
                           /\ at'[c] = "asleep" => at[c] = "asleep"
                           /\ c # d => at'[c] = at[c]
    BY DEF IntrTypeOK
  <2>4. Connected'
    BY <2>1, <2>2, <2>3 DEF IntrTypeOK, Connected
  <2>5. AckOwed'
    BY <2>3 DEF IntrTypeOK, AckOwed
  <2> QED
    BY <2>1, <2>4, <2>5
<1>8. ASSUME NEW i \in Irqs, IrqHandler(i) PROVE IntrInv'
  <2> USE <1>8 DEF IrqHandler, Delivers, hardware, tables
  <2>1. handler[i] \in Drivers /\ irqn[handler[i]] = i
    BY DEF IntrTypeOK, Connected
  <2>2. Signalled(handler[i])
    BY <2>1
  <2>3. /\ signal' = [signal EXCEPT ![handler[i]] = TRUE]
        /\ at[handler[i]] = "asleep" => at' = [at EXCEPT ![handler[i]] = "recv"]
        /\ at[handler[i]] # "asleep" => at' = at
        /\ up' \in Procs \cup {none}
    BY <2>1, <2>2 DEF Signalled, IntrTypeOK
  <2>4. IntrTypeOK'
    BY <2>1, <2>3 DEF IntrTypeOK
  <2>5. signal'[handler[i]] /\ at'[handler[i]] # "asleep"
    BY <2>1, <2>3 DEF IntrTypeOK
  <2>6. \A c \in Drivers : at'[c] = at[c] \/ (c = handler[i] /\ at[c] = "asleep")
    BY <2>1, <2>3 DEF IntrTypeOK
  <2>7. \A c \in Drivers : signal'[c] => c = handler[i] \/ signal[c]
    BY <2>1, <2>3 DEF IntrTypeOK
  <2>8. Connected'
    BY <2>5, <2>6, <2>7 DEF Connected
  <2>9. AckOwed'
    BY <2>1, <2>5 DEF AckOwed
  <2> QED
    BY <2>4, <2>8, <2>9
<1>9. ASSUME NEW d \in Drivers, DriverRecv(d) PROVE IntrInv'
  <2> USE <1>9 DEF DriverRecv, hardware, tables
  <2>1. \A c \in Drivers : at'[c] # "start" => at[c] # "start"
    BY DEF IntrTypeOK
  <2>2. \A c \in Drivers : at'[c] = "asleep" => at[c] = "asleep" /\ signal'[c] = signal[c]
    BY DEF IntrTypeOK
  <2>3. IntrTypeOK' /\ Connected'
    BY <2>1, <2>2 DEF IntrTypeOK, Connected
  <2>4. AckOwed'
    BY DEF IntrTypeOK, AckOwed
  <2> QED
    BY <2>3, <2>4
<1>10. ASSUME NEW d \in Drivers, DriverSleeps(d) PROVE IntrInv'
  <2> USE <1>10 DEF DriverSleeps, hardware, tables
  <2>1. \A c \in Drivers : c # d => at'[c] = at[c]
    BY DEF IntrTypeOK
  <2>2. at'[d] = "asleep"
    BY DEF IntrTypeOK
  <2>3. IntrTypeOK'
    BY DEF IntrTypeOK
  <2>4. Connected' /\ AckOwed'
    BY <2>1, <2>2 DEF Connected, AckOwed
  <2> QED
    BY <2>3, <2>4
<1>11. ASSUME NEW d \in Drivers, DriverClear(d) PROVE IntrInv'
  <2> USE <1>11 DEF DriverClear, tables
  <2>1. IntrTypeOK' /\ Connected'
    BY DEF IntrTypeOK, Connected
  <2>2. AckOwed'
    BY DEF IntrTypeOK, AckOwed
  <2> QED
    BY <2>1, <2>2
<1>12. ASSUME NEW d \in Drivers, IntrAck(d) PROVE IntrInv'
  <2> USE <1>12 DEF IntrAck, Ended, Unmasked, hardware, tables
  <2>1. irqn[d] \in Irqs /\ handler[irqn[d]] # none
    BY DEF IntrTypeOK, Connected
  <2>2. IntrTypeOK' /\ Connected'
    BY <2>1 DEF IntrTypeOK, Connected
  <2>3. AckOwed'
    BY DEF IntrTypeOK, AckOwed
  <2> QED
    BY <2>2, <2>3
<1> QED
  BY <1>1, <1>2, <1>3, <1>4, <1>5, <1>6, <1>7, <1>8, <1>9, <1>10, <1>11, <1>12
  DEF IntrNext, Driver

\* The state of controller, kernel and drivers keeps its types.
THEOREM IntrTypes == IntrSpec => []IntrTypeOK
<1>1. IntrInv => IntrTypeOK
  BY DEF IntrInv
<1> QED
  BY IntrStartInv, IntrNextInv, <1>1, PTL DEF IntrSpec

\* While an interrupt keeps the others out (the kernel masked it and wrote no
\* end of interrupt), its driver has the signal or is about to acknowledge, and
\* does not sleep.
THEOREM AckAlwaysOwed == IntrSpec => []AckOwed
<1>1. IntrInv => AckOwed
  BY DEF IntrInv
<1> QED
  BY IntrStartInv, IntrNextInv, <1>1, PTL DEF IntrSpec
=============================================================================
