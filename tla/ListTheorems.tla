--------------------------- MODULE ListTheorems ---------------------------
(***************************************************************************)
(* What linking an element in front or at the end of a list does to it,    *)
(* unlinking one or several, joining two lists and cutting one, for lists  *)
(* of any length; and the induction over the natural numbers that this     *)
(* takes, in the form that the provers can use.                            *)
(***************************************************************************)
EXTENDS Lists, WellFoundedInduction, TLAPS

\* Every set of natural numbers has a least one.
LEMMA NatLeast ==
  ASSUME NEW S \in SUBSET Nat, S # {}
  PROVE  \E m \in S : \A n \in S : m <= n
<1>1. PICK m \in S : \A n \in S : ~(<<n, m>> \in OpToRel(<, Nat))
  BY NatLessThanWellFounded, WFMin
<1>2. \A n \in S : ~(n < m)
  BY <1>1 DEF OpToRel
<1> QED
  BY <1>2

\* A set that has 0, and n + 1 whenever it has n, has every number up to N.
LEMMA UpTo ==
  ASSUME NEW N \in Nat, NEW S, 0 \in S, \A n \in 0..(N - 1) : n \in S => n + 1 \in S
  PROVE  0..N \subseteq S
<1> SUFFICES ASSUME (0..N) \ S # {} PROVE FALSE
  OBVIOUS
<1> DEFINE T == (0..N) \ S
<1>0. T \in SUBSET Nat /\ T # {}
  OBVIOUS
<1>1. PICK m \in T : \A n \in T : m <= n
  <2> HIDE DEF T
  <2> QED
    BY <1>0, NatLeast
<1>2. m - 1 \in 0..(N - 1) /\ m - 1 \in S
  BY <1>1
<1> QED
  BY <1>1, <1>2

\* x->next = head; head = x.
LEMMA ConsProps ==
  ASSUME NEW S, NEW s \in Seq(S), NEW x \in S
  PROVE  /\ <<x>> \o s \in Seq(S)
         /\ ListOf(<<x>> \o s) = ListOf(s) \cup {x}
         /\ OneEach(s) /\ x \notin ListOf(s) => OneEach(<<x>> \o s)
<1> DEFINE c == <<x>> \o s
<1>1. c \in Seq(S) /\ Len(c) = Len(s) + 1 /\ DOMAIN c = 1..(Len(s) + 1)
  OBVIOUS
<1>2. Len(s) \in Nat /\ DOMAIN s = 1..Len(s)
  OBVIOUS
<1>3. c[1] = x /\ 1 \in DOMAIN c
  BY <1>1, <1>2
<1>4. \A i \in DOMAIN s : i + 1 \in DOMAIN c /\ c[i + 1] = s[i]
  BY <1>1, <1>2
<1>5. \A i \in DOMAIN c : i # 1 => i - 1 \in DOMAIN s /\ c[i] = s[i - 1]
  BY <1>1, <1>2
<1> HIDE DEF c
<1>6. ListOf(c) \subseteq ListOf(s) \cup {x}
  <2> SUFFICES ASSUME NEW i \in DOMAIN c PROVE c[i] \in ListOf(s) \cup {x}
    BY DEF ListOf
  <2> QED
    BY <1>3, <1>5 DEF ListOf
<1>7. ListOf(s) \cup {x} \subseteq ListOf(c)
  <2> SUFFICES ASSUME NEW i \in DOMAIN s PROVE s[i] \in ListOf(c)
    BY <1>3 DEF ListOf
  <2> QED
    BY <1>4 DEF ListOf
<1>8. ASSUME OneEach(s), x \notin ListOf(s) PROVE OneEach(c)
  <2> SUFFICES ASSUME NEW i \in DOMAIN c, NEW j \in DOMAIN c, c[i] = c[j] PROVE i = j
    BY DEF OneEach
  <2>1. CASE i # 1 /\ j # 1
    <3>1. i - 1 = j - 1
      BY <1>5, <1>8, <2>1 DEF OneEach
    <3> QED
      BY <1>1, <1>2, <3>1
  <2>2. CASE i = 1 \/ j = 1
    BY <1>3, <1>5, <1>8, <2>2 DEF ListOf
  <2> QED
    BY <2>1, <2>2
<1> QED
  BY <1>1, <1>6, <1>7, <1>8 DEF c

\* Cutting the k-th element out, place by place.
LEMMA CutOut ==
  ASSUME NEW S, NEW s \in Seq(S), NEW k \in 1..Len(s)
  PROVE  LET d == SubSeq(s, 1, k - 1) \o SubSeq(s, k + 1, Len(s)) IN
         /\ d \in Seq(S)
         /\ Len(d) = Len(s) - 1
         /\ \A i \in 1..Len(d) : d[i] = s[IF i < k THEN i ELSE i + 1]
<1> DEFINE a == SubSeq(s, 1, k - 1)
           b == SubSeq(s, k + 1, Len(s))
           d == a \o b
<1>1. Len(s) \in Nat
  OBVIOUS
<1>2. a \in Seq(S) /\ Len(a) = k - 1 /\ \A i \in 1..(k - 1) : a[i] = s[i]
  OBVIOUS
<1>3. b \in Seq(S) /\ Len(b) = Len(s) - k /\ \A i \in 1..(Len(s) - k) : b[i] = s[i + k]
  OBVIOUS
<1> HIDE DEF a, b
<1>4. /\ d \in Seq(S) /\ Len(d) = Len(s) - 1
      /\ \A i \in 1..Len(d) : d[i] = IF i < k THEN a[i] ELSE b[i - (k - 1)]
  <2>0. a \in Seq(S) /\ b \in Seq(S)
    BY <1>2, <1>3
  <2>1. d \in Seq(S) /\ Len(d) = Len(a) + Len(b)
    BY <2>0
  <2>2. \A i \in 1..Len(d) : d[i] = IF i <= Len(a) THEN a[i] ELSE b[i - Len(a)]
    BY <1>2, <1>3
  <2> QED
    BY <1>1, <1>2, <1>3, <2>1, <2>2
<1> HIDE DEF d
<1>5. ASSUME NEW i \in 1..Len(d) PROVE d[i] = s[IF i < k THEN i ELSE i + 1]
  <2>1. CASE i < k
    BY <1>1, <1>2, <1>4, <2>1
  <2>2. CASE ~(i < k)
    <3>1. i - (k - 1) \in 1..(Len(s) - k) /\ (i - (k - 1)) + k = i + 1
      BY <1>1, <1>4, <2>2
    <3> QED
      BY <1>3, <1>4, <2>2, <3>1
  <2> QED
    BY <2>1, <2>2
<1> QED
  BY <1>4, <1>5 DEF a, b, d

\* *p = (*p)->next, where *p is the k-th element.
LEMMA DropProps ==
  ASSUME NEW S, NEW s \in Seq(S), NEW k \in 1..Len(s), OneEach(s)
  PROVE  LET d == SubSeq(s, 1, k - 1) \o SubSeq(s, k + 1, Len(s)) IN
         d \in Seq(S) /\ ListOf(d) = ListOf(s) \ {s[k]} /\ OneEach(d)
<1> DEFINE d == SubSeq(s, 1, k - 1) \o SubSeq(s, k + 1, Len(s))
           at(i) == IF i < k THEN i ELSE i + 1
<1>1. d \in Seq(S) /\ Len(d) = Len(s) - 1 /\ \A i \in 1..Len(d) : d[i] = s[at(i)]
  BY CutOut
<1> HIDE DEF d
<1>2. Len(s) \in Nat /\ DOMAIN s = 1..Len(s) /\ DOMAIN d = 1..(Len(s) - 1)
  BY <1>1
<1>3. \A i \in DOMAIN d : at(i) \in DOMAIN s /\ at(i) # k /\ d[i] = s[at(i)]
  BY <1>1, <1>2
<1>4. \A i, j \in DOMAIN d : at(i) = at(j) => i = j
  BY <1>1, <1>2
<1>5. ASSUME NEW i \in DOMAIN s, i # k PROVE \E j \in DOMAIN d : at(j) = i
  <2>1. CASE i < k
    <3>1. i \in DOMAIN d /\ at(i) = i
      BY <1>2, <2>1
    <3> QED
      BY <3>1
  <2>2. CASE ~(i < k)
    <3>1. i - 1 \in DOMAIN d /\ at(i - 1) = i
      BY <1>2, <1>5, <2>2
    <3> QED
      BY <3>1
  <2> QED
    BY <2>1, <2>2
<1> HIDE DEF at
<1>6. ListOf(d) \subseteq ListOf(s) \ {s[k]}
  <2> SUFFICES ASSUME NEW i \in DOMAIN d PROVE d[i] \in ListOf(s) \ {s[k]}
    BY DEF ListOf
  <2>1. k \in DOMAIN s
    BY <1>2
  <2> QED
    BY <1>3, <2>1 DEF ListOf, OneEach
<1>7. ListOf(s) \ {s[k]} \subseteq ListOf(d)
  <2> SUFFICES ASSUME NEW i \in DOMAIN s, s[i] # s[k] PROVE s[i] \in ListOf(d)
    BY DEF ListOf
  <2>1. PICK j \in DOMAIN d : at(j) = i
    BY <1>5
  <2>2. d[j] = s[i]
    BY <1>3, <2>1
  <2> QED
    BY <2>2 DEF ListOf
<1>8. OneEach(d)
  <2> SUFFICES ASSUME NEW i \in DOMAIN d, NEW j \in DOMAIN d, d[i] = d[j] PROVE i = j
    BY DEF OneEach
  <2> QED
    BY <1>3, <1>4 DEF OneEach
<1> QED
  BY <1>1, <1>6, <1>7, <1>8 DEF d

\* tail->next = x.
LEMMA AppendProps ==
  ASSUME NEW S, NEW s \in Seq(S), NEW x \in S
  PROVE  /\ Append(s, x) \in Seq(S)
         /\ ListOf(Append(s, x)) = ListOf(s) \cup {x}
         /\ OneEach(s) /\ x \notin ListOf(s) => OneEach(Append(s, x))
<1> DEFINE c == Append(s, x)
<1>1. c \in Seq(S) /\ DOMAIN c = 1..(Len(s) + 1)
  OBVIOUS
<1>2. Len(s) \in Nat /\ DOMAIN s = 1..Len(s)
  OBVIOUS
<1>3. c[Len(s) + 1] = x /\ Len(s) + 1 \in DOMAIN c
  BY <1>1, <1>2
<1>4. \A i \in DOMAIN s : i \in DOMAIN c /\ c[i] = s[i]
  BY <1>1, <1>2
<1> HIDE DEF c
<1>5. \A i \in DOMAIN c : i # Len(s) + 1 => i \in DOMAIN s
  BY <1>1, <1>2
<1>6. ListOf(c) \subseteq ListOf(s) \cup {x}
  <2> SUFFICES ASSUME NEW i \in DOMAIN c PROVE c[i] \in ListOf(s) \cup {x}
    BY DEF ListOf
  <2> QED
    BY <1>3, <1>4, <1>5 DEF ListOf
<1>7. ListOf(s) \cup {x} \subseteq ListOf(c)
  <2> SUFFICES ASSUME NEW i \in DOMAIN s PROVE s[i] \in ListOf(c)
    BY <1>3 DEF ListOf
  <2> QED
    BY <1>4 DEF ListOf
<1>8. ASSUME OneEach(s), x \notin ListOf(s) PROVE OneEach(c)
  <2> SUFFICES ASSUME NEW i \in DOMAIN c, NEW j \in DOMAIN c, c[i] = c[j] PROVE i = j
    BY DEF OneEach
  <2>1. CASE i \in DOMAIN s /\ j \in DOMAIN s
    BY <1>4, <1>8, <2>1 DEF OneEach
  <2>2. CASE i = Len(s) + 1 \/ j = Len(s) + 1
    BY <1>3, <1>4, <1>5, <1>8, <2>2 DEF ListOf
  <2> QED
    BY <1>5, <2>1, <2>2
<1> QED
  BY <1>1, <1>6, <1>7, <1>8 DEF c

\* Two lists, one after the other.
LEMMA JoinProps ==
  ASSUME NEW S, NEW s \in Seq(S), NEW r \in Seq(S)
  PROVE  /\ s \o r \in Seq(S)
         /\ ListOf(s \o r) = ListOf(s) \cup ListOf(r)
         /\ OneEach(s) /\ OneEach(r) /\ ListOf(s) \cap ListOf(r) = {} => OneEach(s \o r)
<1> DEFINE c == s \o r
<1>1. c \in Seq(S) /\ DOMAIN c = 1..(Len(s) + Len(r))
  OBVIOUS
<1>2. Len(s) \in Nat /\ DOMAIN s = 1..Len(s) /\ Len(r) \in Nat /\ DOMAIN r = 1..Len(r)
  OBVIOUS
<1>3. \A i \in DOMAIN s : i \in DOMAIN c /\ c[i] = s[i]
  BY <1>1, <1>2
<1>4. \A i \in DOMAIN r : i + Len(s) \in DOMAIN c /\ c[i + Len(s)] = r[i]
  BY <1>1, <1>2
<1>5. \A i \in DOMAIN c : i \notin DOMAIN s => i - Len(s) \in DOMAIN r /\ c[i] = r[i - Len(s)]
  BY <1>1, <1>2
<1> HIDE DEF c
<1>6. ListOf(c) \subseteq ListOf(s) \cup ListOf(r)
  <2> SUFFICES ASSUME NEW i \in DOMAIN c PROVE c[i] \in ListOf(s) \cup ListOf(r)
    BY DEF ListOf
  <2> QED
    BY <1>3, <1>5 DEF ListOf
<1>7. ListOf(s) \subseteq ListOf(c)
  <2> SUFFICES ASSUME NEW i \in DOMAIN s PROVE s[i] \in ListOf(c)
    BY DEF ListOf
  <2> QED
    BY <1>3 DEF ListOf
<1>8. ListOf(r) \subseteq ListOf(c)
  <2> SUFFICES ASSUME NEW i \in DOMAIN r PROVE r[i] \in ListOf(c)
    BY DEF ListOf
  <2> QED
    BY <1>4 DEF ListOf
<1>9. ASSUME OneEach(s), OneEach(r), ListOf(s) \cap ListOf(r) = {} PROVE OneEach(c)
  <2> SUFFICES ASSUME NEW i \in DOMAIN c, NEW j \in DOMAIN c, c[i] = c[j] PROVE i = j
    BY DEF OneEach
  <2>1. CASE i \in DOMAIN s /\ j \in DOMAIN s
    BY <1>3, <1>9, <2>1 DEF OneEach
  <2>2. CASE i \notin DOMAIN s /\ j \notin DOMAIN s
    <3>1. i - Len(s) = j - Len(s)
      BY <1>5, <1>9, <2>2 DEF OneEach
    <3> QED
      BY <1>1, <1>2, <3>1
  <2>3. CASE (i \in DOMAIN s) # (j \in DOMAIN s)
    BY <1>3, <1>5, <1>9, <2>3 DEF ListOf
  <2> QED
    BY <2>1, <2>2, <2>3
<1> QED
  BY <1>1, <1>6, <1>7, <1>8, <1>9 DEF c

\* A piece of a list.
LEMMA PieceProps ==
  ASSUME NEW S, NEW s \in Seq(S), NEW a \in 1..(Len(s) + 1), NEW b \in 0..Len(s), a <= b + 1
  PROVE  /\ SubSeq(s, a, b) \in Seq(S)
         /\ ListOf(SubSeq(s, a, b)) = {s[i] : i \in a..b}
         /\ OneEach(s) => OneEach(SubSeq(s, a, b))
<1> DEFINE c == SubSeq(s, a, b)
<1>1. Len(s) \in Nat /\ DOMAIN s = 1..Len(s)
  OBVIOUS
<1>2. c \in Seq(S) /\ Len(c) = b - a + 1 /\ \A i \in 1..(b - a + 1) : c[i] = s[i + a - 1]
  BY <1>1
<1>3. DOMAIN c = 1..(b - a + 1)
  BY <1>2
<1> HIDE DEF c
<1>4. \A i \in DOMAIN c : i + a - 1 \in a..b /\ i + a - 1 \in DOMAIN s /\ c[i] = s[i + a - 1]
  <2> SUFFICES ASSUME NEW i \in 1..(b - a + 1)
               PROVE  i + a - 1 \in a..b /\ i + a - 1 \in 1..Len(s)
    BY <1>1, <1>2, <1>3
  <2> QED
    BY <1>1
<1>5. \A i \in a..b : i - a + 1 \in DOMAIN c /\ c[i - a + 1] = s[i]
  <2> SUFFICES ASSUME NEW i \in a..b PROVE i - a + 1 \in DOMAIN c /\ c[i - a + 1] = s[i]
    OBVIOUS
  <2>1. i - a + 1 \in 1..(b - a + 1) /\ (i - a + 1) + a - 1 = i
    BY <1>1
  <2> QED
    BY <1>2, <1>3, <2>1
<1>6. ListOf(c) \subseteq {s[i] : i \in a..b}
  <2> SUFFICES ASSUME NEW i \in DOMAIN c PROVE c[i] \in {s[j] : j \in a..b}
    BY DEF ListOf
  <2> QED
    BY <1>4
<1>7. {s[i] : i \in a..b} \subseteq ListOf(c)
  <2> SUFFICES ASSUME NEW i \in a..b PROVE s[i] \in ListOf(c)
    OBVIOUS
  <2> QED
    BY <1>5 DEF ListOf
<1>8. ASSUME OneEach(s) PROVE OneEach(c)
  <2> SUFFICES ASSUME NEW i \in DOMAIN c, NEW j \in DOMAIN c, c[i] = c[j] PROVE i = j
    BY DEF OneEach
  <2>1. i + a - 1 = j + a - 1
    BY <1>4, <1>8 DEF OneEach
  <2> QED
    BY <1>1, <1>3, <2>1
<1> QED
  BY <1>2, <1>6, <1>7, <1>8 DEF c

\* The walk of Kept exists: it can be continued from every place of the list.
LEMMA KeptWalk ==
  ASSUME NEW S, NEW s \in Seq(S), NEW K
  PROVE  \E F : /\ \A i \in 0..Len(s) :
                     F[i] = IF i = 0 THEN <<>>
                            ELSE IF s[i] \in K THEN Append(F[i - 1], s[i]) ELSE F[i - 1]
                /\ Kept(s, K) = F[Len(s)]
<1> DEFINE body(G, i) == IF i = 0 THEN <<>>
                         ELSE IF s[i] \in K THEN Append(G[i - 1], s[i]) ELSE G[i - 1]
           walk(G, m) == G = [i \in 0..m |-> body(G, i)]
           T == {m \in 0..Len(s) : \E G : walk(G, m)}
<1>1. Len(s) \in Nat
  OBVIOUS
<1>2. 0 \in T
  <2> DEFINE G == [i \in 0..0 |-> <<>>]
  <2>1. walk(G, 0)
    OBVIOUS
  <2> HIDE DEF G, walk
  <2>2. \E X : walk(X, 0)
    BY <2>1
  <2> QED
    BY <1>1, <2>2
<1>3. ASSUME NEW m \in 0..(Len(s) - 1), m \in T PROVE m + 1 \in T
  <2>1. PICK G : walk(G, m)
    BY <1>3
  <2> DEFINE next == IF s[m + 1] \in K THEN Append(G[m], s[m + 1]) ELSE G[m]
             H == [i \in 0..(m + 1) |-> IF i = m + 1 THEN next ELSE G[i]]
  <2>2. ASSUME NEW i \in 0..(m + 1) PROVE H[i] = body(H, i)
    <3>1. CASE i = 0
      <4>1. 0 \in 0..m /\ i # m + 1
        BY <3>1
      <4>2. G[0] = body(G, 0)
        BY <2>1, <4>1
      <4> QED
        BY <3>1, <4>1, <4>2
    <3>2. CASE i = m + 1
      <4>1. i - 1 = m /\ H[m] = G[m] /\ H[i] = next /\ i # 0
        BY <3>2
      <4> QED
        BY <3>2, <4>1
    <3>3. CASE i # 0 /\ i # m + 1
      <4>1. i \in 0..m /\ i - 1 \in 0..(m + 1) /\ i - 1 # m + 1
        BY <3>3
      <4>2. H[i] = G[i] /\ H[i - 1] = G[i - 1]
        BY <3>3, <4>1
      <4>3. G[i] = body(G, i)
        BY <2>1, <4>1
      <4> HIDE DEF H
      <4> QED
        BY <3>3, <4>2, <4>3
    <3> QED
      BY <3>1, <3>2, <3>3
  <2>3. walk(H, m + 1)
    <3>1. H = [i \in 0..(m + 1) |-> H[i]]
      OBVIOUS
    <3> HIDE DEF H, body
    <3> QED
      BY <2>2, <3>1
  <2>4. m + 1 \in 0..Len(s)
    BY <1>1
  <2> HIDE DEF walk, H
  <2> QED
    BY <2>3, <2>4
<1>4. Len(s) \in T
  <2> HIDE DEF T
  <2>1. 0..Len(s) \subseteq T
    BY <1>1, <1>2, <1>3, UpTo
  <2> QED
    BY <1>1, <2>1
<1>5. PICK W : walk(W, Len(s))
  BY <1>4
<1> DEFINE F == CHOOSE G : walk(G, Len(s))
<1>6. walk(F, Len(s))
  <2> HIDE DEF walk
  <2> QED
    BY <1>5
<1>7. Kept(s, K) = F[Len(s)]
  BY DEF Kept
<1>8. \A i \in 0..Len(s) : F[i] = body(F, i)
  <2> HIDE DEF F, body
  <2> QED
    BY <1>6
<1> HIDE DEF F
<1> QED
  BY <1>7, <1>8

\* Kept leaves out the others, and nothing else.
LEMMA KeptProps ==
  ASSUME NEW S, NEW s \in Seq(S), NEW K
  PROVE  /\ Kept(s, K) \in Seq(S)
         /\ ListOf(Kept(s, K)) = ListOf(s) \cap K
         /\ OneEach(s) => OneEach(Kept(s, K))
<1>1. PICK F : /\ \A i \in 0..Len(s) :
                    F[i] = IF i = 0 THEN <<>>
                           ELSE IF s[i] \in K THEN Append(F[i - 1], s[i]) ELSE F[i - 1]
               /\ Kept(s, K) = F[Len(s)]
  BY KeptWalk
<1>2. Len(s) \in Nat /\ DOMAIN s = 1..Len(s)
  OBVIOUS
<1>3. F[0] = <<>>
  BY <1>1, <1>2
<1>4. ASSUME NEW m \in 0..(Len(s) - 1)
      PROVE  /\ m + 1 \in DOMAIN s /\ s[m + 1] \in S
             /\ F[m + 1] = IF s[m + 1] \in K THEN Append(F[m], s[m + 1]) ELSE F[m]
  <2>1. m + 1 \in 0..Len(s) /\ m + 1 # 0 /\ (m + 1) - 1 = m /\ m + 1 \in DOMAIN s
    BY <1>2
  <2> QED
    BY <1>1, <2>1
<1> DEFINE seen(m) == {s[j] : j \in 1..m}
           good(m) == /\ F[m] \in Seq(S)
                      /\ ListOf(F[m]) = seen(m) \cap K
                      /\ OneEach(s) => OneEach(F[m])
           T == {m \in 0..Len(s) : good(m)}
<1>5. 0 \in T
  <2>1. <<>> \in Seq(S) /\ DOMAIN <<>> = {}
    OBVIOUS
  <2>2. ListOf(<<>>) = {} /\ OneEach(<<>>)
    BY <2>1 DEF ListOf, OneEach
  <2>3. seen(0) = {}
    OBVIOUS
  <2>4. good(0)
    <3> HIDE DEF seen
    <3> QED
      BY <1>3, <2>1, <2>2, <2>3
  <2> HIDE DEF good
  <2> QED
    BY <1>2, <2>4
<1>6. ASSUME NEW m \in 0..(Len(s) - 1), m \in T PROVE m + 1 \in T
  <2>0. good(m) /\ m + 1 \in 0..Len(s)
    BY <1>2, <1>6
  <2>1. seen(m + 1) = seen(m) \cup {s[m + 1]}
    <3>1. \A j \in 1..(m + 1) : j \in 1..m \/ j = m + 1
      OBVIOUS
    <3>2. \A j \in 1..m : j \in 1..(m + 1)
      OBVIOUS
    <3>3. m + 1 \in 1..(m + 1)
      OBVIOUS
    <3> QED
      BY <3>1, <3>2, <3>3
  <2>2. OneEach(s) => s[m + 1] \notin seen(m)
    <3> SUFFICES ASSUME OneEach(s), NEW j \in 1..m, s[j] = s[m + 1] PROVE FALSE
      OBVIOUS
    <3>1. j \in DOMAIN s /\ m + 1 \in DOMAIN s /\ j # m + 1
      BY <1>2
    <3> QED
      BY <3>1 DEF OneEach
  <2> HIDE DEF seen
  <2>3. good(m + 1)
    <3>1. CASE s[m + 1] \in K
      <4>1. F[m + 1] = Append(F[m], s[m + 1]) /\ s[m + 1] \in S
        BY <1>4, <3>1
      <4>2. /\ F[m + 1] \in Seq(S)
            /\ ListOf(F[m + 1]) = ListOf(F[m]) \cup {s[m + 1]}
            /\ OneEach(F[m]) /\ s[m + 1] \notin ListOf(F[m]) => OneEach(F[m + 1])
        BY <2>0, <4>1, AppendProps
      <4> QED
        BY <2>0, <2>1, <2>2, <3>1, <4>2
    <3>2. CASE s[m + 1] \notin K
      <4>1. F[m + 1] = F[m]
        BY <1>4, <3>2
      <4> QED
        BY <2>0, <2>1, <3>2, <4>1
    <3> QED
      BY <3>1, <3>2
  <2> QED
    BY <2>0, <2>3
<1>7. Len(s) \in T
  <2> HIDE DEF T
  <2>1. 0..Len(s) \subseteq T
    BY <1>2, <1>5, <1>6, UpTo
  <2> QED
    BY <1>2, <2>1
<1>8. seen(Len(s)) = ListOf(s)
  BY <1>2 DEF ListOf
<1> QED
  BY <1>1, <1>7, <1>8

\* The walk of Kept, one element further.
LEMMA KeptStep ==
  ASSUME NEW S, NEW s \in Seq(S), NEW K
  PROVE  \E F : /\ F[0] = <<>>
                /\ \A m \in 0..(Len(s) - 1) :
                     F[m + 1] = IF s[m + 1] \in K THEN Append(F[m], s[m + 1]) ELSE F[m]
                /\ Kept(s, K) = F[Len(s)]
<1>1. PICK F : /\ \A i \in 0..Len(s) :
                    F[i] = IF i = 0 THEN <<>>
                           ELSE IF s[i] \in K THEN Append(F[i - 1], s[i]) ELSE F[i - 1]
               /\ Kept(s, K) = F[Len(s)]
  BY KeptWalk
<1>2. Len(s) \in Nat
  OBVIOUS
<1>3. F[0] = <<>>
  BY <1>1, <1>2
<1>4. ASSUME NEW m \in 0..(Len(s) - 1)
      PROVE  F[m + 1] = IF s[m + 1] \in K THEN Append(F[m], s[m + 1]) ELSE F[m]
  <2>1. m + 1 \in 0..Len(s) /\ m + 1 # 0 /\ (m + 1) - 1 = m
    BY <1>2
  <2> QED
    BY <1>1, <2>1
<1> QED
  BY <1>1, <1>3, <1>4

\* Only what K says of the list's elements matters.
LEMMA KeptSame ==
  ASSUME NEW S, NEW s \in Seq(S), NEW K, NEW J, \A i \in 1..Len(s) : s[i] \in K <=> s[i] \in J
  PROVE  Kept(s, K) = Kept(s, J)
<1>1. PICK F : /\ F[0] = <<>>
               /\ \A m \in 0..(Len(s) - 1) :
                    F[m + 1] = IF s[m + 1] \in K THEN Append(F[m], s[m + 1]) ELSE F[m]
               /\ Kept(s, K) = F[Len(s)]
  BY KeptStep
<1>2. PICK G : /\ G[0] = <<>>
               /\ \A m \in 0..(Len(s) - 1) :
                    G[m + 1] = IF s[m + 1] \in J THEN Append(G[m], s[m + 1]) ELSE G[m]
               /\ Kept(s, J) = G[Len(s)]
  BY KeptStep
<1> DEFINE T == {m \in 0..Len(s) : F[m] = G[m]}
<1>3. Len(s) \in Nat
  OBVIOUS
<1>4. 0 \in T
  BY <1>1, <1>2, <1>3
<1>5. ASSUME NEW m \in 0..(Len(s) - 1), m \in T PROVE m + 1 \in T
  <2>1. m + 1 \in 1..Len(s) /\ m + 1 \in 0..Len(s) /\ F[m] = G[m]
    BY <1>3, <1>5
  <2>2. F[m + 1] = G[m + 1]
    BY <1>1, <1>2, <2>1
  <2> QED
    BY <2>1, <2>2
<1>6. Len(s) \in T
  <2> HIDE DEF T
  <2>1. 0..Len(s) \subseteq T
    BY <1>3, <1>4, <1>5, UpTo
  <2> QED
    BY <1>3, <2>1
<1> QED
  BY <1>1, <1>2, <1>6

\* An element is appended.
LEMMA KeptAppend ==
  ASSUME NEW S, NEW s \in Seq(S), NEW x \in S, NEW K
  PROVE  Kept(Append(s, x), K) = IF x \in K THEN Append(Kept(s, K), x) ELSE Kept(s, K)
<1> DEFINE t == Append(s, x)
           n == Len(s)
<1>0. /\ t \in Seq(S) /\ n \in Nat /\ Len(t) = n + 1 /\ t[n + 1] = x
      /\ \A m \in 1..n : t[m] = s[m]
  OBVIOUS
<1> HIDE DEF t
<1>1. PICK F : /\ F[0] = <<>>
               /\ \A m \in 0..(Len(s) - 1) :
                    F[m + 1] = IF s[m + 1] \in K THEN Append(F[m], s[m + 1]) ELSE F[m]
               /\ Kept(s, K) = F[Len(s)]
  BY KeptStep
<1>2. PICK G : /\ G[0] = <<>>
               /\ \A m \in 0..(Len(t) - 1) :
                    G[m + 1] = IF t[m + 1] \in K THEN Append(G[m], t[m + 1]) ELSE G[m]
               /\ Kept(t, K) = G[Len(t)]
  <2>1. t \in Seq(S)
    BY <1>0
  <2> QED
    BY <2>1, KeptStep
<1> HIDE DEF n
<1> DEFINE T == {m \in 0..n : F[m] = G[m]}
<1>3. n = Len(s)
  BY DEF n
<1>4. 0 \in T
  BY <1>0, <1>1, <1>2
<1>5. ASSUME NEW m \in 0..(n - 1), m \in T PROVE m + 1 \in T
  <2>1. m + 1 \in 1..n /\ m + 1 \in 0..n /\ m \in 0..(Len(t) - 1) /\ F[m] = G[m]
    BY <1>0, <1>5
  <2>2. F[m + 1] = G[m + 1]
    BY <1>0, <1>1, <1>2, <1>3, <2>1
  <2> QED
    BY <2>1, <2>2
<1>6. n \in T
  <2> HIDE DEF T
  <2>1. 0..n \subseteq T
    BY <1>0, <1>4, <1>5, UpTo
  <2> QED
    BY <1>0, <2>1
<1>7. G[n + 1] = IF x \in K THEN Append(G[n], x) ELSE G[n]
  <2>1. n \in 0..(Len(t) - 1)
    BY <1>0
  <2> QED
    BY <1>0, <1>2, <2>1
<1>8. F[n] = G[n] /\ Kept(s, K) = F[n] /\ Kept(t, K) = G[n + 1]
  BY <1>0, <1>1, <1>2, <1>3, <1>6
<1> QED
  BY <1>7, <1>8 DEF t

\* An element that is left out anyway is unlinked: t is s without its i-th.
LEMMA KeptWithout ==
  ASSUME NEW S, NEW s \in Seq(S), NEW i \in 1..Len(s), NEW K, s[i] \notin K,
         NEW t \in Seq(S), Len(t) = Len(s) - 1,
         \A j \in 1..(Len(s) - 1) : t[j] = s[IF j < i THEN j ELSE j + 1]
  PROVE  Kept(t, K) = Kept(s, K)
<1>1. PICK F : /\ F[0] = <<>>
               /\ \A m \in 0..(Len(s) - 1) :
                    F[m + 1] = IF s[m + 1] \in K THEN Append(F[m], s[m + 1]) ELSE F[m]
               /\ Kept(s, K) = F[Len(s)]
  BY KeptStep
<1>2. PICK G : /\ G[0] = <<>>
               /\ \A m \in 0..(Len(t) - 1) :
                    G[m + 1] = IF t[m + 1] \in K THEN Append(G[m], t[m + 1]) ELSE G[m]
               /\ Kept(t, K) = G[Len(t)]
  BY KeptStep
<1> DEFINE n == Len(t)
           T == {m \in 0..n : /\ m < i => G[m] = F[m]
                              /\ m >= i => G[m] = F[m + 1]}
<1>3. n \in Nat /\ Len(s) = n + 1 /\ n = Len(t)
  OBVIOUS
<1> HIDE DEF n
<1>4. 0 \in T
  BY <1>1, <1>2, <1>3
<1>5. ASSUME NEW m \in 0..(n - 1), m \in T PROVE m + 1 \in T
  <2>1. /\ m + 1 \in 0..n /\ m + 1 \in 1..(Len(s) - 1)
        /\ m \in 0..(Len(s) - 1) /\ m + 1 \in 0..(Len(s) - 1) /\ m \in 0..(Len(t) - 1)
    BY <1>3
  <2>2. CASE m + 1 < i
    <3>1. t[m + 1] = s[m + 1] /\ G[m] = F[m]
      BY <1>5, <2>1, <2>2
    <3>2. G[m + 1] = F[m + 1]
      BY <1>1, <1>2, <2>1, <3>1
    <3> QED
      BY <2>1, <2>2, <3>2
  <2>3. CASE m + 1 = i
    <3>1. t[m + 1] = s[m + 2] /\ G[m] = F[m] /\ F[m + 1] = F[m]
      BY <1>1, <1>5, <2>1, <2>3
    <3>2. F[(m + 1) + 1] = IF s[(m + 1) + 1] \in K THEN Append(F[m + 1], s[(m + 1) + 1])
                           ELSE F[m + 1]
      BY <1>1, <2>1
    <3>3. G[m + 1] = F[m + 2] /\ (m + 1) + 1 = m + 2
      BY <1>2, <2>1, <3>1, <3>2
    <3> QED
      BY <2>1, <2>3, <3>3
  <2>4. CASE m + 1 > i
    <3>1. t[m + 1] = s[m + 2] /\ G[m] = F[m + 1]
      <4>1. ~(m + 1 < i) /\ m >= i /\ (m + 1) + 1 = m + 2
        BY <2>4
      <4>2. t[m + 1] = s[(m + 1) + 1]
        BY <2>1, <4>1
      <4> QED
        BY <1>5, <4>1, <4>2
    <3>2. F[(m + 1) + 1] = IF s[(m + 1) + 1] \in K THEN Append(F[m + 1], s[(m + 1) + 1])
                           ELSE F[m + 1]
      BY <1>1, <2>1
    <3>3. G[m + 1] = F[m + 2] /\ (m + 1) + 1 = m + 2
      BY <1>2, <2>1, <3>1, <3>2
    <3> QED
      BY <2>1, <2>4, <3>3
  <2> QED
    BY <2>1, <2>2, <2>3, <2>4
<1>6. n \in T
  <2> HIDE DEF T
  <2>1. 0..n \subseteq T
    BY <1>3, <1>4, <1>5, UpTo
  <2> QED
    BY <1>3, <2>1
<1>7. CASE n < i
  <2>1. i = n + 1 /\ G[n] = F[n] /\ n \in 0..(Len(s) - 1)
    BY <1>3, <1>6, <1>7
  <2>2. F[n + 1] = F[n]
    BY <1>1, <2>1
  <2> QED
    BY <1>1, <1>2, <1>3, <2>1, <2>2
<1>8. CASE n >= i
  BY <1>1, <1>2, <1>3, <1>6, <1>8
<1> QED
  BY <1>3, <1>7, <1>8

\* The first element that is kept, and the rest when it is left out.
LEMMA KeptFirst ==
  ASSUME NEW S, NEW s \in Seq(S), OneEach(s), NEW K, NEW i \in 1..Len(s), s[i] \in K,
         \A j \in 1..(i - 1) : s[j] \notin K
  PROVE  /\ Kept(s, K) # <<>>
         /\ Head(Kept(s, K)) = s[i]
         /\ Tail(Kept(s, K)) = Kept(s, K \ {s[i]})
<1> DEFINE J == K \ {s[i]}
           x == s[i]
<1>0. Len(s) \in Nat /\ DOMAIN s = 1..Len(s) /\ x \in S
  OBVIOUS
<1>1. PICK F : /\ F[0] = <<>>
               /\ \A m \in 0..(Len(s) - 1) :
                    F[m + 1] = IF s[m + 1] \in K THEN Append(F[m], s[m + 1]) ELSE F[m]
               /\ Kept(s, K) = F[Len(s)]
  BY KeptStep
<1>2. PICK G : /\ G[0] = <<>>
               /\ \A m \in 0..(Len(s) - 1) :
                    G[m + 1] = IF s[m + 1] \in J THEN Append(G[m], s[m + 1]) ELSE G[m]
               /\ Kept(s, J) = G[Len(s)]
  <2> HIDE DEF J
  <2> QED
    BY KeptStep
<1> DEFINE T == {m \in 0..Len(s) : /\ G[m] \in Seq(S)
                                   /\ m < i => F[m] = <<>> /\ G[m] = <<>>
                                   /\ m >= i => F[m] = <<x>> \o G[m]}
<1>3. 0 \in T
  <2>1. 0 \in 0..Len(s) /\ 0 < i /\ ~(0 >= i) /\ <<>> \in Seq(S)
    BY <1>0
  <2>2. F[0] = <<>> /\ G[0] = <<>>
    BY <1>1, <1>2
  <2> HIDE DEF x
  <2> QED
    BY <2>1, <2>2
<1>4. ASSUME NEW m \in 0..(Len(s) - 1), m \in T PROVE m + 1 \in T
  <2>1. /\ m + 1 \in 0..Len(s) /\ m + 1 \in DOMAIN s /\ s[m + 1] \in S /\ G[m] \in Seq(S)
        /\ i \in DOMAIN s
    BY <1>0, <1>4
  <2>2. s[m + 1] \in J <=> s[m + 1] \in K /\ m + 1 # i
    BY <2>1 DEF OneEach
  <2>3. CASE m + 1 < i
    <3>1. m + 1 \in 1..(i - 1) /\ F[m] = <<>> /\ G[m] = <<>>
      BY <1>4, <2>3
    <3>2. F[m + 1] = <<>> /\ G[m + 1] = <<>>
      <4> HIDE DEF J, T, x
      <4> QED
        BY <1>1, <1>2, <2>2, <3>1
    <3>3. m + 1 < i /\ ~(m + 1 >= i) /\ <<>> \in Seq(S)
      BY <2>3
    <3> HIDE DEF x
    <3> QED
      BY <2>1, <3>2, <3>3
  <2>4. CASE m + 1 = i
    <3>1. F[m] = <<>> /\ G[m] = <<>>
      BY <1>4, <2>4
    <3>2. F[m + 1] = Append(<<>>, x) /\ G[m + 1] = <<>>
      <4> HIDE DEF J, T
      <4> QED
        BY <1>1, <1>2, <2>2, <2>4, <3>1
    <3>3. Append(<<>>, x) = <<x>> \o <<>>
      <4> HIDE DEF x
      <4> QED
        BY <1>0
    <3>4. ~(m + 1 < i) /\ <<>> \in Seq(S)
      BY <2>4
    <3> HIDE DEF x
    <3> QED
      BY <2>1, <3>2, <3>3, <3>4
  <2>5. CASE m + 1 > i
    <3>1. F[m] = <<x>> \o G[m]
      BY <1>4, <2>5
    <3> DEFINE y == s[m + 1]
    <3>2. CASE y \in K
      <4>1. F[m + 1] = Append(F[m], y) /\ G[m + 1] = Append(G[m], y)
        <5> HIDE DEF J, T, x
        <5>1. y \in K /\ y \in J
          BY <2>2, <2>5, <3>2
        <5> QED
          BY <1>1, <1>2, <5>1
      <4>2. ASSUME NEW g \in Seq(S), NEW z \in S
            PROVE  /\ Append(<<x>> \o g, z) = <<x>> \o Append(g, z)
                   /\ Append(g, z) \in Seq(S)
        <5> HIDE DEF x
        <5> QED
          BY <1>0
      <4> HIDE DEF x
      <4>3. F[m + 1] = <<x>> \o G[m + 1] /\ G[m + 1] \in Seq(S)
        BY <2>1, <3>1, <4>1, <4>2
      <4> QED
        BY <2>1, <2>5, <4>3
    <3>3. CASE y \notin K
      <4>1. F[m + 1] = F[m] /\ G[m + 1] = G[m]
        <5> HIDE DEF J, T, x
        <5> QED
          BY <1>1, <1>2, <2>2, <2>5, <3>3
      <4>2. /\ G[m + 1] \in Seq(S) /\ F[m + 1] = <<x>> \o G[m + 1]
            /\ m + 1 \in 0..Len(s) /\ ~(m + 1 < i)
        <5> HIDE DEF x
        <5> QED
          BY <2>1, <2>5, <3>1, <4>1
      <4> HIDE DEF x
      <4> QED
        BY <4>2
    <3> QED
      BY <3>2, <3>3
  <2> QED
    BY <2>1, <2>3, <2>4, <2>5
<1>5. Len(s) \in T
  <2> HIDE DEF T
  <2>1. 0..Len(s) \subseteq T
    BY <1>0, <1>3, <1>4, UpTo
  <2> QED
    BY <1>0, <2>1
<1>6. Kept(s, K) = <<x>> \o Kept(s, J) /\ Kept(s, J) \in Seq(S)
  <2>1. Len(s) >= i /\ F[Len(s)] = <<x>> \o G[Len(s)] /\ G[Len(s)] \in Seq(S)
    BY <1>0, <1>5
  <2> HIDE DEF x, J
  <2> QED
    BY <1>1, <1>2, <2>1
<1>7. ASSUME NEW g \in Seq(S), NEW z \in S
      PROVE  <<z>> \o g # <<>> /\ Head(<<z>> \o g) = z /\ Tail(<<z>> \o g) = g
  <2>1. <<z>> \o g \in Seq(S) /\ Len(<<z>> \o g) = Len(g) + 1
    OBVIOUS
  <2>2. Tail(<<z>> \o g) = g
    OBVIOUS
  <2> QED
    BY <2>1, <2>2
<1> HIDE DEF J, x
<1>8. Kept(s, K) # <<>> /\ Head(Kept(s, K)) = x /\ Tail(Kept(s, K)) = Kept(s, J)
  BY <1>0, <1>6, <1>7
<1> QED
  BY <1>8 DEF J, x
=============================================================================
