--------------------------- MODULE SchedTheorems ---------------------------
(***************************************************************************)
(* What the functions of sys/proc.c do to the scheduler's memory: lemmas   *)
(* for any number of processes and priorities and any lengths of slices.   *)
(***************************************************************************)
EXTENDS Sched, ListTheorems, FiniteSetTheorems

-----------------------------------------------------------------------------
(* Scheduler memory, field by field.                                       *)

\* What the type of the memory says.
LEMMA SchedTyped ==
  ASSUME NEW s \in SchedType
  PROVE  /\ s.queue \in [Priorities -> [{0, 1} -> Seq(Procs)]]
         /\ s.q \in [Priorities -> {0, 1}]
         /\ s.ts \in [Procs -> 0..MaxTs]
         /\ s.priority \in [Procs -> Priorities]
         /\ \A r \in Priorities, k \in {0, 1} : s.queue[r][k] \in Seq(Procs)
         /\ \A a \in [Priorities -> [{0, 1} -> Seq(Procs)]] :
              /\ [s EXCEPT !.queue = a] \in SchedType
              /\ [s EXCEPT !.queue = a].queue = a
              /\ [s EXCEPT !.queue = a].q = s.q
              /\ [s EXCEPT !.queue = a].ts = s.ts
              /\ [s EXCEPT !.queue = a].priority = s.priority
         /\ \A a \in [Procs -> 0..MaxTs] :
              /\ [s EXCEPT !.ts = a] \in SchedType
              /\ [s EXCEPT !.ts = a].queue = s.queue
              /\ [s EXCEPT !.ts = a].q = s.q
              /\ [s EXCEPT !.ts = a].ts = a
              /\ [s EXCEPT !.ts = a].priority = s.priority
         /\ \A a \in [Procs -> Priorities] :
              /\ [s EXCEPT !.priority = a] \in SchedType
              /\ [s EXCEPT !.priority = a].queue = s.queue
              /\ [s EXCEPT !.priority = a].q = s.q
              /\ [s EXCEPT !.priority = a].ts = s.ts
              /\ [s EXCEPT !.priority = a].priority = a
  BY DEF SchedType

\* Time slices and the choice of the current queue make no queue unsound.
LEMMA SoundSame ==
  ASSUME NEW s, Sound(s), NEW z \in SchedType, z.queue = s.queue, z.priority = s.priority
  PROVE  Sound(z) /\ \A p : OnList(z, p) <=> OnList(s, p)
  BY DEF Sound, OnList

\* A process that is on no queue is put at the end of one of its priority.
LEMMA AddSound ==
  ASSUME NEW s, Sound(s), NEW p \in Procs, ~OnList(s, p), NEW k \in {0, 1}
  PROVE  LET z == add_to_list_tail(s, s.priority[p], k, p) IN
         /\ Sound(z) /\ z.priority = s.priority /\ z.ts = s.ts /\ z.q = s.q
         /\ \A x : OnList(z, x) <=> OnList(s, x) \/ x = p
<1> DEFINE r == s.priority[p]
           z == add_to_list_tail(s, r, k, p)
<1>1. s \in SchedType /\ r \in Priorities
  BY SchedTyped DEF Sound
<1>2. s.queue[r][k] \in Seq(Procs) /\ OneEach(s.queue[r][k]) /\ p \notin ListOf(s.queue[r][k])
  BY <1>1, SchedTyped DEF Sound, OnList
<1> DEFINE new == Append(s.queue[r][k], p)
           a == [s.queue EXCEPT ![r] = [s.queue[r] EXCEPT ![k] = new]]
<1>3. new \in Seq(Procs) /\ OneEach(new) /\ ListOf(new) = ListOf(s.queue[r][k]) \cup {p}
  BY <1>2, AppendProps
<1>4. z = [s EXCEPT !.queue = a]
  BY <1>1 DEF add_to_list_tail
<1> HIDE DEF new, z
<1>5. s.queue \in [Priorities -> [{0, 1} -> Seq(Procs)]]
  BY <1>1, SchedTyped
<1>6. a \in [Priorities -> [{0, 1} -> Seq(Procs)]]
  BY <1>1, <1>3, <1>5
<1>7. /\ z \in SchedType /\ z.queue = a
      /\ z.priority = s.priority /\ z.ts = s.ts /\ z.q = s.q
  <2> HIDE DEF a, r
  <2>1. s \in SchedType
    BY <1>1
  <2> QED
    BY <1>4, <1>6, <2>1, SchedTyped
<1>8. \A y \in Priorities, j \in {0, 1} :
        z.queue[y][j] = IF y = r /\ j = k THEN new ELSE s.queue[y][j]
  BY <1>1, <1>5, <1>7
<1>9. Sound(z)
  <2>1. ASSUME NEW y \in Priorities, NEW j \in {0, 1}
        PROVE  OneEach(z.queue[y][j]) /\ \A x \in ListOf(z.queue[y][j]) : z.priority[x] = y
    BY <1>3, <1>7, <1>8 DEF Sound
  <2>2. ASSUME NEW y \in Priorities PROVE ListOf(z.queue[y][0]) \cap ListOf(z.queue[y][1]) = {}
    <3>1. p \notin ListOf(s.queue[y][0]) /\ p \notin ListOf(s.queue[y][1])
      BY DEF OnList
    <3>2. ListOf(s.queue[y][0]) \cap ListOf(s.queue[y][1]) = {}
      BY DEF Sound
    <3>3. \A j \in {0, 1} : ListOf(z.queue[y][j]) =
            IF y = r /\ j = k THEN ListOf(s.queue[y][j]) \cup {p} ELSE ListOf(s.queue[y][j])
      BY <1>3, <1>8
    <3> QED
      BY <3>1, <3>2, <3>3
  <2> QED
    BY <1>7, <2>1, <2>2 DEF Sound
<1>10. \A x : OnList(z, x) <=> OnList(s, x) \/ x = p
  BY <1>1, <1>3, <1>8 DEF OnList
<1> QED
  BY <1>7, <1>9, <1>10 DEF z

\* remove_from_list() makes memory sound in which one process alone is on
\* a queue that is not its priority's.
LEMMA RemoveSound ==
  ASSUME NEW s \in SchedType, NEW p \in Procs,
         \A r \in Priorities, k \in {0, 1} :
           /\ OneEach(s.queue[r][k])
           /\ \A x \in ListOf(s.queue[r][k]) : x # p => s.priority[x] = r,
         \A r \in Priorities : ListOf(s.queue[r][0]) \cap ListOf(s.queue[r][1]) = {}
  PROVE  LET z == remove_from_list(s, p) IN
         /\ Sound(z) /\ z.priority = s.priority /\ z.ts = s.ts /\ z.q = s.q
         /\ \A x \in Procs : OnList(z, x) <=> OnList(s, x) /\ x # p
<1> DEFINE a == [r \in Priorities |-> [k \in {0, 1} |-> Kept(s.queue[r][k], Procs \ {p})]]
           z == remove_from_list(s, p)
<1>1. \A r \in Priorities, k \in {0, 1} : s.queue[r][k] \in Seq(Procs)
  BY SchedTyped
<1>2. ASSUME NEW r \in Priorities, NEW k \in {0, 1}
      PROVE  /\ a[r][k] \in Seq(Procs) /\ OneEach(a[r][k])
             /\ ListOf(a[r][k]) = ListOf(s.queue[r][k]) \cap (Procs \ {p})
  BY <1>1, KeptProps
<1>3. a \in [Priorities -> [{0, 1} -> Seq(Procs)]]
  BY <1>2
<1>4. z = [s EXCEPT !.queue = a]
  BY DEF remove_from_list
<1> HIDE DEF a, z
<1>5. /\ z \in SchedType /\ z.queue = a
      /\ z.priority = s.priority /\ z.ts = s.ts /\ z.q = s.q
  BY <1>3, <1>4, SchedTyped
<1>6. Sound(z)
  <2>1. ASSUME NEW r \in Priorities, NEW k \in {0, 1}
        PROVE  OneEach(z.queue[r][k]) /\ \A x \in ListOf(z.queue[r][k]) : z.priority[x] = r
    BY <1>2, <1>5
  <2>2. ASSUME NEW r \in Priorities PROVE ListOf(z.queue[r][0]) \cap ListOf(z.queue[r][1]) = {}
    BY <1>2, <1>5
  <2> QED
    BY <1>5, <2>1, <2>2 DEF Sound
<1>7. ASSUME NEW x \in Procs PROVE OnList(z, x) <=> OnList(s, x) /\ x # p
  BY <1>2, <1>5 DEF OnList
<1> QED
  BY <1>5, <1>6, <1>7 DEF z

-----------------------------------------------------------------------------
(* next_proc().                                                            *)

\* The least place of a queue that has a property.
LEMMA MinIs ==
  ASSUME NEW S \in SUBSET Nat, S # {}
  PROVE  Min(S) \in S /\ \A n \in S : Min(S) <= n
  BY NatLeast DEF Min

\* The highest priority of a set of them.
LEMMA HighestIs ==
  ASSUME NEW S \in SUBSET Priorities, S # {}
  PROVE  Highest(S) \in S /\ \A n \in S : n <= Highest(S)
<1> DEFINE T == {PRIORITY_MAX - n : n \in S}
<1>1. \A n \in S : n \in Int /\ PRIORITY_MAX - n \in Nat
  BY SchedConstantsOK DEF Priorities
<1>2. PICK m \in T : \A n \in T : m <= n
  <2>1. T \in SUBSET Nat /\ T # {}
    BY <1>1
  <2> HIDE DEF T
  <2> QED
    BY <2>1, NatLeast
<1>3. PICK h \in S : m = PRIORITY_MAX - h
  BY <1>2
<1>4. \A n \in S : n <= h
  <2> SUFFICES ASSUME NEW n \in S PROVE n <= h
    OBVIOUS
  <2>1. m <= PRIORITY_MAX - n
    BY <1>2
  <2> QED
    BY <1>1, <1>3, <2>1, SchedConstantsOK
<1>5. \E x \in S : \A n \in S : n <= x
  BY <1>4
<1> QED
  BY <1>5 DEF Highest, Max

\* A pair of queues, whichever of them is the current one.
LEMMA TwoProps ==
  ASSUME NEW a \in Seq(Procs), NEW b \in Seq(Procs), OneEach(a), OneEach(b),
         ListOf(a) \cap ListOf(b) = {}, NEW q \in {0, 1}, NEW z,
         z = [k \in {0, 1} |-> IF k = q THEN a ELSE b]
  PROVE  /\ z \in [{0, 1} -> Seq(Procs)]
         /\ OneEach(z[0]) /\ OneEach(z[1]) /\ ListOf(z[0]) \cap ListOf(z[1]) = {}
         /\ ListOf(z[0]) \cup ListOf(z[1]) = ListOf(a) \cup ListOf(b)
<1>1. CASE q = 0
  <2>1. z[0] = a /\ z[1] = b
    BY <1>1
  <2> QED
    BY <2>1
<1>2. CASE q = 1
  <2>1. z[0] = b /\ z[1] = a
    BY <1>2
  <2> QED
    BY <2>1
<1> QED
  BY <1>1, <1>2

\* The processes on the queues of priority r, and those that are ready.
QueuedAt(s, r) == ListOf(s.queue[r][0]) \cup ListOf(s.queue[r][1])
ReadyIn(st) == {p \in Procs : IsReady(st, p)}

\* What the search of one priority may do to its queues.
Searched(s, st, r, a) ==
  /\ a.q \in {0, 1} /\ a.queue \in [{0, 1} -> Seq(Procs)]
  /\ OneEach(a.queue[0]) /\ OneEach(a.queue[1])
  /\ ListOf(a.queue[0]) \cap ListOf(a.queue[1]) = {}
  /\ ListOf(a.queue[0]) \cup ListOf(a.queue[1]) \subseteq QueuedAt(s, r)
  /\ QueuedAt(s, r) \cap ReadyIn(st) \subseteq ListOf(a.queue[0]) \cup ListOf(a.queue[1])
  /\ IF a.found = nil THEN QueuedAt(s, r) \cap ReadyIn(st) = {}
     ELSE a.found \in QueuedAt(s, r) \cap ReadyIn(st)

\* Dropping the processes that are not ready and moving those without time
\* left to the other queue loses no ready process; one is found if there is
\* one, after at most one exchange of the two queues.
LEMMA SearchProps ==
  ASSUME NEW s, Sound(s), NEW st, NEW r \in Priorities
  PROVE  Searched(s, st, r, Search(s, st, r))
<1> USE SchedConstantsOK
<1> DEFINE q == s.q[r]
           cur == s.queue[r][q]
           oth == s.queue[r][1 - q]
           ready == ReadyIn(st)
           able == {i \in DOMAIN cur : cur[i] \in ready /\ s.ts[cur[i]] > MIN_TIME_SLICE}
           fresh == oth \o Kept(cur, ready)
           able2 == {i \in DOMAIN fresh : fresh[i] \in ready}
           Two(k, x, y) == [j \in {0, 1} |-> IF j = k THEN x ELSE y]
           res == Search(s, st, r)
<1>1. q \in {0, 1} /\ 1 - q \in {0, 1}
  BY SchedTyped DEF Sound
<1>2. /\ cur \in Seq(Procs) /\ oth \in Seq(Procs) /\ OneEach(cur) /\ OneEach(oth)
      /\ ListOf(cur) \cap ListOf(oth) = {}
      /\ QueuedAt(s, r) = ListOf(cur) \cup ListOf(oth)
  <2>1. cur \in Seq(Procs) /\ oth \in Seq(Procs) /\ OneEach(cur) /\ OneEach(oth)
    BY <1>1, SchedTyped DEF Sound
  <2>2. CASE q = 0
    <3>1. cur = s.queue[r][0] /\ oth = s.queue[r][1]
      BY <2>2
    <3> HIDE DEF cur, oth
    <3> QED
      BY <2>1, <3>1 DEF Sound, QueuedAt
  <2>3. CASE q = 1
    <3>1. cur = s.queue[r][1] /\ oth = s.queue[r][0]
      BY <2>3
    <3> HIDE DEF cur, oth
    <3> QED
      BY <2>1, <3>1 DEF Sound, QueuedAt
  <2> QED
    BY <1>1, <2>1, <2>2, <2>3
<1>3. /\ Kept(cur, ready) \in Seq(Procs) /\ OneEach(Kept(cur, ready))
      /\ ListOf(Kept(cur, ready)) = ListOf(cur) \cap ready
  <2> HIDE DEF cur, oth, ready
  <2> QED
    BY <1>2, KeptProps, SMTT(20)
<1>4. fresh \in Seq(Procs) /\ OneEach(fresh) /\ ListOf(fresh) = ListOf(oth) \cup (ListOf(cur) \cap ready)
  <2> HIDE DEF cur, oth, ready
  <2> QED
    BY <1>2, <1>3, JoinProps
<1>5. ready \subseteq Procs /\ nil \notin Procs
  BY DEF ReadyIn
<1>6. DOMAIN cur = 1..Len(cur) /\ Len(cur) \in Nat /\ DOMAIN fresh = 1..Len(fresh) /\ Len(fresh) \in Nat
  <2> HIDE DEF fresh, cur
  <2> QED
    BY <1>2, <1>4
<1>7. CASE able # {}
  <2> DEFINE i == Min(able)
             a == SubSeq(cur, i, Len(cur))
             pre == SubSeq(cur, 1, i - 1)
             b == oth \o Kept(pre, ready)
  <2>1. i \in able /\ i \in 1..Len(cur)
    <3>1. able \in SUBSET Nat
      <4> HIDE DEF cur
      <4> QED
        BY <1>6
    <3> HIDE DEF able
    <3>2. i \in able
      BY <1>7, <3>1, MinIs
    <3> QED
      BY <1>6, <3>2 DEF able
  <2>2. /\ res.found = cur[i] /\ res.q = q
        /\ res.queue = Two(q, a, b)
    BY <1>7 DEF Search, ReadyIn
  <2> HIDE DEF res, i, cur, oth, ready
  <2>3. a \in Seq(Procs) /\ OneEach(a) /\ ListOf(a) = {cur[j] : j \in i..Len(cur)}
    <3>1. i \in 1..(Len(cur) + 1) /\ Len(cur) \in 0..Len(cur) /\ i <= Len(cur) + 1
      BY <1>6, <2>1
    <3> QED
      BY <1>2, <3>1, PieceProps
  <2>4. pre \in Seq(Procs) /\ OneEach(pre) /\ ListOf(pre) = {cur[j] : j \in 1..(i - 1)}
    <3>1. i - 1 \in 0..Len(cur) /\ 1 \in 1..(Len(cur) + 1) /\ 1 <= (i - 1) + 1
      BY <1>6, <2>1
    <3> QED
      BY <1>2, <3>1, PieceProps
  <2>5. ListOf(cur) = ListOf(a) \cup ListOf(pre) /\ ListOf(a) \cap ListOf(pre) = {}
    <3>1. ListOf(cur) = {cur[j] : j \in 1..Len(cur)}
      BY <1>6 DEF ListOf
    <3>2. \A j \in 1..Len(cur) : j \in i..Len(cur) \/ j \in 1..(i - 1)
      BY <1>6, <2>1
    <3>3. \A j \in i..Len(cur) : j \in 1..Len(cur)
      BY <1>6, <2>1
    <3>4. \A j \in 1..(i - 1) : j \in 1..Len(cur)
      BY <1>6, <2>1
    <3>5. \A j \in i..Len(cur), k \in 1..(i - 1) : cur[j] # cur[k]
      <4>1. \A j \in i..Len(cur), k \in 1..(i - 1) : j # k
        BY <1>6, <2>1
      <4> QED
        BY <1>2, <1>6, <3>3, <3>4, <4>1 DEF OneEach
    <3> HIDE DEF a, pre
    <3>6. ListOf(cur) \subseteq ListOf(a) \cup ListOf(pre)
      BY <2>3, <2>4, <3>1, <3>2
    <3>7. ListOf(a) \subseteq ListOf(cur)
      BY <2>3, <3>1, <3>3
    <3>8. ListOf(pre) \subseteq ListOf(cur)
      BY <2>4, <3>1, <3>4
    <3>9. ListOf(a) \cap ListOf(pre) = {}
      BY <2>3, <2>4, <3>5
    <3> QED
      BY <3>6, <3>7, <3>8, <3>9
  <2> HIDE DEF a, pre
  <2>6. /\ Kept(pre, ready) \in Seq(Procs) /\ OneEach(Kept(pre, ready))
        /\ ListOf(Kept(pre, ready)) = ListOf(pre) \cap ready
    BY <2>4, KeptProps
  <2>7. b \in Seq(Procs) /\ OneEach(b) /\ ListOf(b) = ListOf(oth) \cup (ListOf(pre) \cap ready)
    BY <1>2, <2>5, <2>6, JoinProps
  <2> HIDE DEF b
  <2>8. ListOf(a) \cap ListOf(b) = {}
    BY <1>2, <2>5, <2>7
  <2>9. /\ res.queue \in [{0, 1} -> Seq(Procs)]
        /\ OneEach(res.queue[0]) /\ OneEach(res.queue[1])
        /\ ListOf(res.queue[0]) \cap ListOf(res.queue[1]) = {}
        /\ ListOf(res.queue[0]) \cup ListOf(res.queue[1]) = ListOf(a) \cup ListOf(b)
    BY <1>1, <2>2, <2>3, <2>7, <2>8, TwoProps
  <2>10. cur[i] \in ready /\ cur[i] \in ListOf(cur)
    BY <2>1 DEF ListOf
  <2>11. Searched(s, st, r, res)
    BY <1>1, <1>2, <1>5, <2>2, <2>5, <2>7, <2>9, <2>10 DEF Searched, ready
  <2> QED
    BY <2>11 DEF res
<1>8. CASE able = {} /\ able2 # {}
  <2> DEFINE i == Min(able2)
             a == SubSeq(fresh, i, Len(fresh))
  <2>1. i \in able2 /\ i \in 1..Len(fresh) /\ \A j \in able2 : i <= j
    <3>1. able2 \in SUBSET Nat
      <4> HIDE DEF fresh
      <4> QED
        BY <1>6
    <3> HIDE DEF able2
    <3>2. i \in able2 /\ \A j \in able2 : i <= j
      BY <1>8, <3>1, MinIs
    <3> QED
      BY <1>6, <3>2 DEF able2
  <2>2. /\ res.found = fresh[i] /\ res.q = 1 - q
        /\ res.queue = Two(1 - q, a, <<>>)
    BY <1>8 DEF Search, ReadyIn
  <2>3. fresh[i] \in ready /\ fresh[i] \in ListOf(fresh)
    BY <2>1 DEF ListOf
  <2>4. \A j \in 1..Len(fresh) : fresh[j] \in ready => j \in i..Len(fresh)
    <3>1. \A j \in 1..Len(fresh) : fresh[j] \in ready => j \in able2
      BY <1>6
    <3> HIDE DEF able2, fresh, i
    <3> QED
      BY <1>6, <2>1, <3>1
  <2> HIDE DEF res, i, fresh, cur, oth, ready
  <2>5. a \in Seq(Procs) /\ OneEach(a) /\ ListOf(a) = {fresh[j] : j \in i..Len(fresh)}
    BY <1>4, <1>6, <2>1, PieceProps
  <2> HIDE DEF a
  <2>6. ListOf(a) \subseteq ListOf(fresh) /\ ListOf(fresh) \cap ready \subseteq ListOf(a)
    <3>1. ListOf(fresh) = {fresh[j] : j \in 1..Len(fresh)}
      BY <1>6 DEF ListOf
    <3>2. \A j \in i..Len(fresh) : j \in 1..Len(fresh)
      BY <1>6, <2>1
    <3> QED
      BY <2>4, <2>5, <3>1, <3>2
  <2>7. <<>> \in Seq(Procs) /\ ListOf(<<>>) = {} /\ OneEach(<<>>)
    <3>1. DOMAIN <<>> = {}
      OBVIOUS
    <3> QED
      BY <3>1 DEF ListOf, OneEach
  <2>8. /\ res.queue \in [{0, 1} -> Seq(Procs)]
        /\ OneEach(res.queue[0]) /\ OneEach(res.queue[1])
        /\ ListOf(res.queue[0]) \cap ListOf(res.queue[1]) = {}
        /\ ListOf(res.queue[0]) \cup ListOf(res.queue[1]) = ListOf(a) \cup ListOf(<<>>)
    BY <1>1, <2>2, <2>5, <2>7, TwoProps
  <2>9. Searched(s, st, r, res)
    BY <1>1, <1>2, <1>4, <1>5, <2>2, <2>3, <2>6, <2>7, <2>8 DEF Searched, ready
  <2> QED
    BY <2>9 DEF res
<1>9. CASE able = {} /\ able2 = {}
  <2>1. /\ res.found = nil /\ res.q \in {1 - q, q}
        /\ res.queue = Two(0, <<>>, <<>>)
    BY <1>9 DEF Search, ReadyIn
  <2>2. ListOf(fresh) \cap ready = {}
    <3> HIDE DEF fresh, ready
    <3> QED
      BY <1>9 DEF ListOf
  <2> HIDE DEF res, fresh, cur, oth, ready
  <2>3. QueuedAt(s, r) \cap ready = {}
    BY <1>2, <1>4, <2>2
  <2>4. <<>> \in Seq(Procs) /\ ListOf(<<>>) = {} /\ OneEach(<<>>)
    <3>1. DOMAIN <<>> = {}
      OBVIOUS
    <3> QED
      BY <3>1 DEF ListOf, OneEach
  <2>5. /\ res.queue \in [{0, 1} -> Seq(Procs)]
        /\ OneEach(res.queue[0]) /\ OneEach(res.queue[1])
        /\ ListOf(res.queue[0]) \cap ListOf(res.queue[1]) = {}
        /\ ListOf(res.queue[0]) \cup ListOf(res.queue[1]) = ListOf(<<>>) \cup ListOf(<<>>)
    BY <2>1, <2>4, TwoProps
  <2>6. Searched(s, st, r, res)
    BY <1>1, <2>1, <2>3, <2>4, <2>5 DEF Searched, ready
  <2> QED
    BY <2>6 DEF res
<1> QED
  BY <1>7, <1>8, <1>9

\* The search goes down to the first priority that has a ready process: no
\* ready process is lost, and the one chosen has the highest priority.
LEMMA NextProcProps ==
  ASSUME NEW s, Sound(s), NEW st
  PROVE  LET n == next_proc(s, st) IN
         /\ Sound(n.sc) /\ n.sc.priority = s.priority
         /\ \A p \in ReadyIn(st) : OnList(s, p) => OnList(n.sc, p)
         /\ IF n.up = nil THEN \A p \in ReadyIn(st) : ~OnList(s, p)
            ELSE /\ n.up \in ReadyIn(st) /\ OnList(s, n.up)
                 /\ \A p \in ReadyIn(st) : OnList(s, p) => s.priority[p] <= s.priority[n.up]
<1> USE SchedConstantsOK
<1> DEFINE at == [r \in Priorities |-> Search(s, st, r)]
           hits == {r \in Priorities : at[r].found # nil}
           searched == {r \in Priorities : hits = {} \/ r >= Highest(hits)}
           A == [r \in Priorities |-> IF r \in searched THEN at[r].queue ELSE s.queue[r]]
           B == [r \in Priorities |-> IF r \in searched THEN at[r].q ELSE s.q[r]]
           C == [p \in Procs |-> IF \E r \in searched : p \in at[r].refill THEN SYSTICK ELSE s.ts[p]]
           n == next_proc(s, st)
<1>1. ASSUME NEW r \in Priorities PROVE Searched(s, st, r, at[r])
  BY SearchProps
<1>2. /\ n.up = IF hits = {} THEN nil ELSE at[Highest(hits)].found
      /\ n.sc = [s EXCEPT !.queue = A, !.q = B, !.ts = C]
  BY DEF next_proc
<1>3. s \in SchedType /\ nil \notin Procs /\ \A p \in ReadyIn(st) : p \in Procs
  BY DEF Sound, ReadyIn
<1> HIDE DEF at, n
<1>4. hits # {} => Highest(hits) \in hits /\ \A r \in hits : r <= Highest(hits)
  <2>1. hits \in SUBSET Priorities
    OBVIOUS
  <2> HIDE DEF hits
  <2> QED
    BY <2>1, HighestIs
<1>5. n.sc \in SchedType /\ n.sc.queue = A /\ n.sc.priority = s.priority
  <2>1. A \in [Priorities -> [{0, 1} -> Seq(Procs)]]
    <3> HIDE DEF searched
    <3> QED
      BY <1>1, <1>3, SchedTyped DEF Searched
  <2>2. B \in [Priorities -> {0, 1}]
    <3> HIDE DEF searched
    <3> QED
      BY <1>1, <1>3, SchedTyped DEF Searched
  <2>3. C \in [Procs -> 0..MaxTs]
    <3>1. SYSTICK \in 0..MaxTs /\ \A p \in Procs : s.ts[p] \in 0..MaxTs
      BY <1>3, SchedTyped
    <3> HIDE DEF searched
    <3> QED
      BY <3>1
  <2> HIDE DEF A, B, C
  <2> QED
    BY <1>2, <1>3, <2>1, <2>2, <2>3 DEF SchedType
<1> HIDE DEF searched, C, B
<1>6. ASSUME NEW r \in Priorities
      PROVE  /\ OneEach(n.sc.queue[r][0]) /\ OneEach(n.sc.queue[r][1])
             /\ ListOf(n.sc.queue[r][0]) \cap ListOf(n.sc.queue[r][1]) = {}
             /\ QueuedAt(n.sc, r) \subseteq QueuedAt(s, r)
             /\ QueuedAt(s, r) \cap ReadyIn(st) \subseteq QueuedAt(n.sc, r)
  <2>1. CASE r \in searched
    <3>1. n.sc.queue[r] = at[r].queue
      BY <1>5, <2>1
    <3> QED
      BY <1>1, <3>1 DEF Searched, QueuedAt
  <2>2. CASE r \notin searched
    <3>1. n.sc.queue[r] = s.queue[r]
      BY <1>5, <2>2
    <3> QED
      BY <3>1 DEF Sound, QueuedAt
  <2> QED
    BY <2>1, <2>2
<1>7. Sound(n.sc)
  <2>1. ASSUME NEW r \in Priorities, NEW k \in {0, 1}, NEW p \in ListOf(n.sc.queue[r][k])
        PROVE  n.sc.priority[p] = r
    <3>1. p \in QueuedAt(s, r)
      BY <1>6 DEF QueuedAt
    <3> QED
      BY <1>5, <3>1 DEF QueuedAt, Sound
  <2> QED
    BY <1>5, <1>6, <2>1 DEF Sound
<1>8. ASSUME NEW z, NEW p PROVE OnList(z, p) <=> \E r \in Priorities : p \in QueuedAt(z, r)
  BY DEF OnList, QueuedAt
<1>9. \A p \in ReadyIn(st) : OnList(s, p) => OnList(n.sc, p)
  BY <1>6, <1>8
<1>10. ASSUME NEW p \in ReadyIn(st), NEW r \in Priorities, p \in QueuedAt(s, r)
       PROVE  r \in hits /\ s.priority[p] = r
  <2>1. at[r].found # nil
    BY <1>1, <1>10 DEF Searched
  <2> QED
    BY <1>10, <2>1 DEF QueuedAt, Sound
<1>11. CASE hits = {}
  BY <1>2, <1>5, <1>7, <1>8, <1>9, <1>10, <1>11 DEF n
<1>12. CASE hits # {}
  <2> DEFINE h == Highest(hits)
  <2>1. h \in hits /\ h \in Priorities /\ \A r \in hits : r <= h
    BY <1>4, <1>12
  <2>2. n.up = at[h].found /\ at[h].found # nil
    BY <1>2, <1>12, <2>1
  <2> HIDE DEF h, hits
  <2>3. n.up \in QueuedAt(s, h) /\ n.up \in ReadyIn(st)
    BY <1>1, <2>1, <2>2 DEF Searched
  <2>4. s.priority[n.up] = h /\ OnList(s, n.up)
    BY <1>8, <1>10, <2>1, <2>3
  <2>5. \A p \in ReadyIn(st) : OnList(s, p) => s.priority[p] <= h
    BY <1>8, <1>10, <2>1
  <2>6. n.up # nil
    BY <2>2
  <2> QED
    BY <1>5, <1>7, <1>9, <2>3, <2>4, <2>5, <2>6 DEF n
<1> QED
  BY <1>11, <1>12

-----------------------------------------------------------------------------
(* schedule().                                                             *)

\* A process that the kernel makes ready is put on a queue, once.
LEMMA ReadySound ==
  ASSUME NEW s, Sound(s), NEW p \in Procs
  PROVE  LET z == proc_ready(s, p) IN
         /\ Sound(z) /\ z.ts = s.ts /\ z.priority = s.priority
         /\ \A x : OnList(z, x) <=> OnList(s, x) \/ x = p
<1>1. CASE OnList(s, p)
  BY <1>1 DEF proc_ready
<1>2. CASE ~OnList(s, p)
  <2>0. s.q \in [Priorities -> {0, 1}] /\ s.priority[p] \in Priorities
    BY SchedTyped DEF Sound
  <2>1. 1 - s.q[s.priority[p]] \in {0, 1}
    BY <2>0
  <2> QED
    BY <1>2, <2>1, AddSound DEF proc_ready, AddToOther
<1> QED
  BY <1>1, <1>2

\* Whatever schedule() decides, every ready process is on a queue and a ready
\* one runs, if there is one.
LEMMA ScheduleProps ==
  ASSUME NEW s, Sound(s), NEW st, NEW cur \in Procs, NEW left \in 0..s.ts[cur],
         NEW n \in Procs \cup {nil}, n # nil => s.ts[n] + left <= MaxTs,
         \A p \in ReadyIn(st) : p # cur => OnList(s, p)
  PROVE  LET z == schedule(s, st, cur, left, n) IN
         /\ Sound(z.sc)
         /\ \A p \in ReadyIn(st) : OnList(z.sc, p)
         /\ IF z.up = nil THEN ReadyIn(st) = {} ELSE z.up \in ReadyIn(st)
<1> USE SchedConstantsOK
<1> DEFINE ts1 == [s.ts EXCEPT ![cur] = left]
           ts2 == [ts1 EXCEPT ![n] = @ + left]
           slices == IF n = nil THEN ts1 ELSE ts2
           given == [s EXCEPT !.ts = slices]
           put == IF ~IsReady(st, cur) THEN [given EXCEPT !.ts[cur] = 0]
                  ELSE IF OnList(given, cur) THEN given
                  ELSE AddToCurrent(given, cur)
           z == schedule(s, st, cur, left, n)
<1>1. /\ s \in SchedType /\ s.ts \in [Procs -> 0..MaxTs] /\ nil \notin Procs
      /\ left \in 0..MaxTs /\ MaxTs \in Nat
  <2>1. s \in SchedType /\ s.ts \in [Procs -> 0..MaxTs] /\ nil \notin Procs
    BY SchedTyped DEF Sound
  <2>2. s.ts[cur] \in 0..MaxTs
    BY <2>1
  <2> QED
    BY <2>1, <2>2
<1>2. ts1 \in [Procs -> 0..MaxTs]
  BY <1>1
<1>3. n # nil => ts2 \in [Procs -> 0..MaxTs]
  <2> SUFFICES ASSUME n # nil PROVE ts1[n] + left \in 0..MaxTs
    BY <1>2
  <2>1. CASE n = cur
    <3>1. ts1[n] = left /\ left <= s.ts[n] /\ s.ts[n] \in 0..MaxTs
      BY <1>1, <2>1
    <3> QED
      BY <1>1, <3>1
  <2>2. CASE n # cur
    <3>1. ts1[n] = s.ts[n] /\ s.ts[n] \in 0..MaxTs
      BY <1>1, <2>2
    <3> QED
      BY <1>1, <3>1
  <2> QED
    BY <2>1, <2>2
<1>4. given \in SchedType /\ given.queue = s.queue /\ given.priority = s.priority
  <2>1. slices \in [Procs -> 0..MaxTs]
    BY <1>2, <1>3
  <2> HIDE DEF slices
  <2> QED
    BY <1>1, <2>1, SchedTyped, SMTT(20)
<1>5. Sound(given) /\ \A p : OnList(given, p) <=> OnList(s, p)
  <2> HIDE DEF given
  <2> QED
    BY <1>4, SoundSame
<1>6. /\ Sound(put) /\ \A p \in ReadyIn(st) : OnList(put, p)
  <2> HIDE DEF given
  <2>1. CASE ~IsReady(st, cur)
    <3> DEFINE ts0 == [given.ts EXCEPT ![cur] = 0]
    <3>1. put = [given EXCEPT !.ts = ts0]
      BY <1>4, <2>1 DEF SchedType
    <3>2. ts0 \in [Procs -> 0..MaxTs]
      <4>1. given.ts \in [Procs -> 0..MaxTs]
        BY <1>4, SchedTyped
      <4>2. 0 \in 0..MaxTs
        BY <1>1
      <4> QED
        BY <4>1, <4>2
    <3> HIDE DEF ts0, put
    <3>3. put \in SchedType /\ put.queue = given.queue /\ put.priority = given.priority
      BY <1>4, <3>1, <3>2, SchedTyped
    <3> HIDE DEF put
    <3>4. Sound(put) /\ \A p : OnList(put, p) <=> OnList(given, p)
      BY <1>5, <3>3, SoundSame
    <3>5. \A p \in ReadyIn(st) : p # cur
      BY <2>1 DEF ReadyIn
    <3> QED
      BY <1>5, <3>4, <3>5
  <2>2. CASE IsReady(st, cur) /\ OnList(given, cur)
    BY <1>5, <2>2
  <2>3. CASE IsReady(st, cur) /\ ~OnList(given, cur)
    <3>1. given.q[given.priority[cur]] \in {0, 1}
      BY <1>4, SchedTyped
    <3>2. put = add_to_list_tail(given, given.priority[cur], given.q[given.priority[cur]], cur)
      BY <2>3 DEF AddToCurrent
    <3> HIDE DEF put
    <3>3. Sound(put) /\ \A p : OnList(put, p) <=> OnList(given, p) \/ p = cur
      BY <1>5, <2>3, <3>1, <3>2, AddSound
    <3> QED
      BY <1>5, <3>3
  <2> QED
    BY <2>1, <2>2, <2>3
<1>7. z = IF n # nil /\ IsReady(st, n) /\ put.ts[n] > MIN_TIME_SLICE
          THEN [up |-> n, sc |-> put]
          ELSE IF n # nil /\ IsReady(st, n) /\ ~OnList(put, n)
          THEN next_proc(AddToOther(put, n), st)
          ELSE next_proc(put, st)
  BY DEF schedule
<1> HIDE DEF put
<1>8. CASE n # nil /\ IsReady(st, n) /\ put.ts[n] > MIN_TIME_SLICE
  <2>1. z.up = n /\ z.sc = put /\ n \in ReadyIn(st) /\ n # nil
    BY <1>7, <1>8 DEF ReadyIn
  <2> QED
    BY <1>6, <2>1
<1>9. CASE ~(n # nil /\ IsReady(st, n) /\ put.ts[n] > MIN_TIME_SLICE)
  <2>1. ASSUME NEW y, Sound(y), \A p \in ReadyIn(st) : OnList(y, p), z = next_proc(y, st)
        PROVE  /\ Sound(z.sc)
               /\ \A p \in ReadyIn(st) : OnList(z.sc, p)
               /\ IF z.up = nil THEN ReadyIn(st) = {} ELSE z.up \in ReadyIn(st)
    <3> HIDE DEF z
    <3> QED
      BY <2>1, NextProcProps
  <2>2. CASE n # nil /\ IsReady(st, n) /\ ~OnList(put, n)
    <3>1. n \in ReadyIn(st)
      BY <2>2 DEF ReadyIn
    <3> QED
      BY <1>6, <2>2, <3>1
  <2>3. CASE ~(n # nil /\ IsReady(st, n) /\ ~OnList(put, n))
    <3>1. z = next_proc(put, st)
      BY <1>7, <1>9, <2>3
    <3> QED
      BY <1>6, <2>1, <3>1
  <2> QED
    BY <2>2, <2>3
<1> QED
  BY <1>8, <1>9

\* The scheduler starts with the root process on a queue.
LEMMA BootSound ==
  ASSUME NEW pri \in [Procs -> Priorities]
  PROVE  Sound(BootSched(pri)) /\ OnList(BootSched(pri), Root)
<1> USE SchedConstantsOK
<1> DEFINE s == [queue |-> [r \in Priorities |-> [k \in {0, 1} |-> <<>>]],
                 q |-> [r \in Priorities |-> 0],
                 ts |-> [p \in Procs |-> SYSTICK],
                 priority |-> [pri EXCEPT ![Root] = 1]]
<1>2. BootSched(pri) = proc_ready(s, Root)
  BY DEF BootSched
<1>3. s \in SchedType
  <2>1. 1 \in Priorities
    BY DEF Priorities
  <2> QED
    BY <2>1 DEF SchedType
<1>4. \A r \in Priorities, k \in {0, 1} : s.queue[r][k] = <<>>
  OBVIOUS
<1>5. ListOf(<<>>) = {} /\ OneEach(<<>>)
  <2>1. DOMAIN <<>> = {}
    OBVIOUS
  <2> QED
    BY <2>1 DEF ListOf, OneEach
<1> HIDE DEF s
<1>6. Sound(s)
  BY <1>3, <1>4, <1>5 DEF Sound
<1> QED
  BY <1>2, <1>6, ReadySound
=============================================================================
