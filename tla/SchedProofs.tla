---------------------------- MODULE SchedProofs ----------------------------
(***************************************************************************)
(* The scheduler loses no process and prefers the highest priority, for    *)
(* any number of processes and priorities and any lengths of time slices.  *)
(***************************************************************************)
EXTENDS SchedSpec, SchedTheorems

-----------------------------------------------------------------------------
(* The calls of the rest of the kernel.                                    *)

\* The running process leaves the cpu from sound memory, in which every ready
\* process but itself is on a queue.
LEMMA SwitchInv ==
  ASSUME state' \in [Procs -> {"fault", "ready", "blocked"}], NEW s, Sound(s),
         up \in Procs, NEW n \in Procs \cup {nil}, Switch(s, n),
         \A p \in Procs : p # up /\ state'[p] = "ready" => OnList(s, p)
  PROVE  SchedInv'
<1> USE SchedConstantsOK
<1>1. PICK left \in Left(s, up, MinUsed) :
        /\ n # nil => s.ts[n] + left <= MaxTs
        /\ up' = schedule(s, state', up, left, n).up
        /\ sc' = schedule(s, state', up, left, n).sc
  BY DEF Switch
<1>2. left \in 0..s.ts[up]
  <2>1. s.ts[up] \in 0..MaxTs
    BY SchedTyped DEF Sound
  <2> QED
    BY <2>1, CallsOK DEF Left
<1>3. ReadyIn(state') = {p \in Procs : state'[p] = "ready"}
  BY DEF ReadyIn, IsReady
<1>4. /\ Sound(sc')
      /\ \A p \in ReadyIn(state') : OnList(sc', p)
      /\ IF up' = nil THEN ReadyIn(state') = {} ELSE up' \in ReadyIn(state')
  BY <1>1, <1>2, <1>3, ScheduleProps
<1> QED
  BY <1>3, <1>4 DEF SchedInv, TypeOK, Sound

\* The root process runs and is on a queue; nobody else is ready.
LEMMA InitInv == Init => SchedInv
<1> SUFFICES ASSUME Init PROVE SchedInv
  OBVIOUS
<1> USE SchedConstantsOK
<1>1. PICK pri \in [Procs -> Priorities] : sc = BootSched(pri)
  BY DEF Init
<1>7. Sound(sc) /\ OnList(sc, Root)
  BY <1>1, BootSound
<1> QED
  BY <1>7 DEF Init, SchedInv, TypeOK, Sound

\* One step per action.
LEMMA NextInv == SchedInv /\ [Next]_vars => SchedInv'
<1> SUFFICES ASSUME SchedInv, [Next]_vars PROVE SchedInv'
  OBVIOUS
<1> USE SchedConstantsOK
<1>1. /\ state \in [Procs -> {"fault", "ready", "blocked"}] /\ up \in Procs \cup {nil}
      /\ Sound(sc) /\ \A p \in Procs : state[p] = "ready" => OnList(sc, p)
  BY DEF SchedInv, TypeOK
<1>2. CASE UNCHANGED vars
  BY <1>2 DEF vars, SchedInv, TypeOK
<1>3. CASE Yield
  BY <1>1, <1>3, SwitchInv DEF Yield
<1>4. CASE Block
  <2>1. /\ up \in Procs /\ state' \in [Procs -> {"fault", "ready", "blocked"}]
        /\ \A p \in Procs : p # up => state'[p] = state[p]
    BY <1>1, <1>4 DEF Block
  <2> QED
    BY <1>1, <1>4, <2>1, SwitchInv DEF Block
<1>5. ASSUME NEW n \in Procs, NEW x \in {"ready", "blocked"}, Wake(n, x) PROVE SchedInv'
  <2>1. /\ up \in Procs /\ state' \in [Procs -> {"fault", "ready", "blocked"}]
        /\ \A p \in Procs : p # up /\ p # n => state'[p] = state[p]
    BY <1>1, <1>5, CallsOK DEF Wake
  <2> DEFINE s == proc_ready(sc, n)
  <2>2. Sound(s) /\ \A p : OnList(s, p) <=> OnList(sc, p) \/ p = n
    BY <1>1, ReadySound
  <2>3. Switch(s, n)
    BY <1>5 DEF Wake
  <2> HIDE DEF s
  <2>4. \A p \in Procs : p # up /\ state'[p] = "ready" => OnList(s, p)
    BY <1>1, <2>1, <2>2
  <2> QED
    BY <2>1, <2>2, <2>3, <2>4, SwitchInv
<1>6. CASE Fault
  <2>1. /\ up \in Procs /\ state' \in [Procs -> {"fault", "ready", "blocked"}]
        /\ \A p \in Procs : p # up => state'[p] = state[p]
    BY <1>1, <1>6 DEF Fault
  <2> DEFINE s == proc_fault(sc, up)
  <2>2. Sound(s) /\ \A p \in Procs : p # up => (OnList(s, p) <=> OnList(sc, p))
    <3>1. CASE OnList(sc, up)
      <4>1. s = remove_from_list(sc, up)
        BY <3>1 DEF proc_fault
      <4>2. /\ sc \in SchedType
            /\ \A r \in Priorities, k \in {0, 1} :
                 /\ OneEach(sc.queue[r][k])
                 /\ \A y \in ListOf(sc.queue[r][k]) : y # up => sc.priority[y] = r
            /\ \A r \in Priorities : ListOf(sc.queue[r][0]) \cap ListOf(sc.queue[r][1]) = {}
        BY <1>1 DEF Sound
      <4> QED
        BY <2>1, <4>1, <4>2, RemoveSound
    <3>2. CASE ~OnList(sc, up)
      BY <1>1, <3>2 DEF proc_fault
    <3> QED
      BY <3>1, <3>2
  <2>3. Switch(s, nil)
    BY <1>6 DEF Fault
  <2> HIDE DEF s
  <2> QED
    BY <1>1, <2>1, <2>2, <2>3, SwitchInv
<1>7. ASSUME NEW p \in Procs, Start(p) PROVE SchedInv'
  <2>1. /\ sc' = proc_ready(sc, p) /\ up' = up /\ up = Root
        /\ state' = [state EXCEPT ![p] = "ready"]
    BY <1>7 DEF Start
  <2>2. Sound(sc') /\ \A y : OnList(sc', y) <=> OnList(sc, y) \/ y = p
    BY <1>1, <2>1, ReadySound
  <2> QED
    BY <1>1, <2>1, <2>2 DEF SchedInv, TypeOK, Sound
<1>8. ASSUME NEW p \in Procs, NEW r \in Priorities, SetPriority(p, r) PROVE SchedInv'
  <2>1. UNCHANGED <<state, up>> /\ sc' = proc_set_priority(sc, p, r)
    BY <1>8 DEF SetPriority
  <2>2. Min({r, PRIORITY_MAX}) = r
    <3>1. r \in Nat /\ PRIORITY_MAX \in Nat /\ r < PRIORITY_MAX
      BY DEF Priorities
    <3>2. Min({r, PRIORITY_MAX}) \in {r, PRIORITY_MAX} /\ Min({r, PRIORITY_MAX}) <= r
      <4>1. {r, PRIORITY_MAX} \in SUBSET Nat /\ {r, PRIORITY_MAX} # {}
        BY <3>1
      <4> QED
        BY <4>1, MinIs
    <3> QED
      BY <3>1, <3>2
  <2> DEFINE pr == [sc.priority EXCEPT ![p] = r]
             new == [sc EXCEPT !.priority = pr]
  <2>3. sc \in SchedType /\ sc.priority \in [Procs -> Priorities]
    BY <1>1, SchedTyped DEF Sound
  <2>4. new \in SchedType /\ new.queue = sc.queue /\ new.priority = pr
    <3>1. pr \in [Procs -> Priorities]
      BY <2>3
    <3>2. sc \in SchedType
      BY <2>3
    <3>3. new = [sc EXCEPT !.priority = pr]
      OBVIOUS
    <3> HIDE DEF pr, new
    <3> QED
      BY <3>1, <3>2, <3>3 DEF SchedType
  <2>5. sc' = IF OnList(sc, p) THEN AddToOther(remove_from_list(new, p), p) ELSE new
    BY <2>1, <2>2 DEF proc_set_priority
  <2> HIDE DEF new
  <2>6. \A y \in Procs : y # p => new.priority[y] = sc.priority[y]
    BY <2>3, <2>4
  <2> HIDE DEF pr
  <2>7. \A k \in Priorities, j \in {0, 1} : \A y \in ListOf(sc.queue[k][j]) : y \in Procs
    <3>1. \A k \in Priorities, j \in {0, 1} : sc.queue[k][j] \in Seq(Procs)
      BY <2>3, SchedTyped
    <3> QED
      BY <3>1 DEF ListOf
  <2>8. Sound(sc') /\ \A y \in Procs : OnList(sc', y) <=> OnList(sc, y)
    <3>1. CASE OnList(sc, p)
      <4> DEFINE s == remove_from_list(new, p)
      <4>1. /\ \A k \in Priorities, j \in {0, 1} :
                 /\ OneEach(new.queue[k][j])
                 /\ \A y \in ListOf(new.queue[k][j]) : y # p => new.priority[y] = k
            /\ \A k \in Priorities : ListOf(new.queue[k][0]) \cap ListOf(new.queue[k][1]) = {}
        BY <1>1, <2>4, <2>6, <2>7 DEF Sound
      <4>2. Sound(s) /\ \A y \in Procs : OnList(s, y) <=> OnList(new, y) /\ y # p
        BY <2>4, <4>1, RemoveSound
      <4>3. \A y : OnList(new, y) <=> OnList(sc, y)
        BY <2>4 DEF OnList
      <4>4. sc' = AddToOther(s, p)
        BY <2>5, <3>1
      <4> HIDE DEF s
      <4>5. s.q \in [Priorities -> {0, 1}] /\ s.priority[p] \in Priorities
        BY <4>2, SchedTyped DEF Sound
      <4>6. 1 - s.q[s.priority[p]] \in {0, 1}
        BY <4>5
      <4>7. Sound(sc') /\ \A y : OnList(sc', y) <=> OnList(s, y) \/ y = p
        BY <4>2, <4>4, <4>6, AddSound DEF AddToOther
      <4> QED
        BY <3>1, <4>2, <4>3, <4>7
    <3>2. CASE ~OnList(sc, p)
      <4>1. sc' = new
        BY <2>5, <3>2
      <4>2. \A k \in Priorities, j \in {0, 1} : p \notin ListOf(sc.queue[k][j])
        BY <3>2 DEF OnList
      <4>3. Sound(new)
        BY <1>1, <2>4, <2>6, <2>7, <4>2 DEF Sound
      <4> QED
        BY <2>4, <4>1, <4>3 DEF OnList
    <3> QED
      BY <3>1, <3>2
  <2> QED
    BY <1>1, <2>1, <2>8 DEF SchedInv, TypeOK, Sound
<1>9. CASE Halted
  BY <1>2, <1>9 DEF Halted
<1> QED
  BY <1>2, <1>3, <1>4, <1>5, <1>6, <1>7, <1>8, <1>9 DEF Next, Schedules

-----------------------------------------------------------------------------
(* The theorems.                                                           *)

\* A queue is no longer than there are processes.
LEMMA QueueFits ==
  ASSUME NEW s \in Seq(Procs), OneEach(s)
  PROVE  Len(s) <= Cardinality(Procs)
<1>1. s \in [1..Len(s) -> Procs] /\ Len(s) \in Nat
  OBVIOUS
<1>2. s \in Injection(1..Len(s), Procs)
  BY <1>1 DEF Injection, IsInjective, OneEach
<1>3. Cardinality(1..Len(s)) <= Cardinality(Procs)
  BY <1>2, SchedConstantsOK, FS_Injection
<1>4. Cardinality(1..Len(s)) = Len(s)
  <2>1. ASSUME NEW n \in Nat PROVE Cardinality(1..n) = n
    <3>1. Cardinality(1..n) = IF 1 > n THEN 0 ELSE n - 1 + 1
      BY FS_Interval
    <3> QED
      BY <3>1
  <2> QED
    BY <1>1, <2>1
<1> QED
  BY <1>3, <1>4

\* The places of a process on sound queues: one at most, and one if it is on
\* a queue.
LEMMA OnePlace ==
  ASSUME Sound(sc), NEW p \in Procs
  PROVE  /\ Cardinality(Places(p)) <= 1
         /\ \A w \in Places(p) : w[1] = sc.priority[p]
         /\ OnList(sc, p) <=> Places(p) # {}
<1>1. \A r \in Priorities, k \in {0, 1} : sc.queue[r][k] \in Seq(Procs)
  BY SchedTyped DEF Sound
<1>2. \A w \in Places(p) : /\ w = <<w[1], w[2], w[3]>> /\ w[1] \in Priorities /\ w[2] \in {0, 1}
                           /\ w[3] \in DOMAIN sc.queue[w[1]][w[2]]
                           /\ sc.queue[w[1]][w[2]][w[3]] = p
                           /\ p \in ListOf(sc.queue[w[1]][w[2]])
  BY DEF Places, ListOf
<1>3. \A w \in Places(p) : w[1] = sc.priority[p]
  BY <1>2 DEF Sound
<1>4. ASSUME NEW w \in Places(p), NEW x \in Places(p) PROVE w = x
  <2>1. w[1] = x[1]
    BY <1>3
  <2>2. w[2] = x[2]
    BY <1>2, <2>1 DEF Sound
  <2>3. w[3] = x[3]
    BY <1>2, <2>1, <2>2 DEF Sound, OneEach
  <2> QED
    BY <1>2, <2>1, <2>2, <2>3
<1>5. Cardinality(Places(p)) <= 1
  <2>1. CASE Places(p) = {}
    BY <2>1, FS_EmptySet
  <2>2. CASE Places(p) # {}
    <3>1. PICK w \in Places(p) : TRUE
      BY <2>2
    <3>2. Places(p) = {w}
      BY <1>4, <3>1
    <3> QED
      BY <3>2, FS_Singleton
  <2> QED
    BY <2>1, <2>2
<1>6. ASSUME OnList(sc, p) PROVE Places(p) # {}
  <2>1. PICK r \in Priorities, k \in {0, 1} : p \in ListOf(sc.queue[r][k])
    BY <1>6 DEF OnList
  <2>2. PICK i \in DOMAIN sc.queue[r][k] : sc.queue[r][k][i] = p
    BY <2>1 DEF ListOf
  <2>3. i \in 1..Cardinality(Procs)
    <3> DEFINE s == sc.queue[r][k]
    <3>1. s \in Seq(Procs) /\ OneEach(s)
      BY <1>1 DEF Sound
    <3>2. Len(s) <= Cardinality(Procs) /\ Cardinality(Procs) \in Nat
      BY <3>1, SchedConstantsOK, QueueFits, FS_CardinalityType
    <3>3. i \in 1..Len(s) /\ Len(s) \in Nat
      BY <2>2, <3>1
    <3> HIDE DEF s
    <3> QED
      BY <3>2, <3>3
  <2>4. <<r, k, i>> \in Places(p)
    BY <2>2, <2>3 DEF Places
  <2> QED
    BY <2>4
<1>7. ASSUME Places(p) # {} PROVE OnList(sc, p)
  BY <1>2, <1>7 DEF OnList
<1> QED
  BY <1>3, <1>5, <1>6, <1>7

\* The invariant from which the three properties follow.
LEMMA SchedAlways == Spec => []SchedInv
  BY InitInv, NextInv, PTL DEF Spec

\* Through every sequence of calls a process is on one queue at most, that of
\* its priority, and no queue grows beyond the number of processes.
THEOREM QueuesStayExact == Spec => []QueuesExact
<1>1. SchedInv => QueuesExact
  <2> SUFFICES ASSUME SchedInv PROVE QueuesExact
    OBVIOUS
  <2>1. \A r \in Priorities, k \in {0, 1} : Len(sc.queue[r][k]) <= Cardinality(Procs)
    BY QueueFits, SchedTyped DEF SchedInv, Sound
  <2> QED
    BY <2>1, OnePlace DEF SchedInv, QueuesExact
<1> QED
  BY SchedAlways, <1>1, PTL

\* A ready process is always on a queue, so that next_proc() comes to it; the
\* kernel panics for want of a process only when none is ready.
THEOREM ReadyStaysQueued == Spec => []NoReadyLost
<1>1. SchedInv => NoReadyLost
  BY OnePlace DEF SchedInv, NoReadyLost
<1> QED
  BY SchedAlways, <1>1, PTL

\* next_proc() would always choose a ready process that none outranks.
THEOREM HighestAlwaysNext == Spec => []HighestPriorityNext
<1>1. SchedInv => HighestPriorityNext
  <2> SUFFICES ASSUME SchedInv, up # nil PROVE HighestPriorityNext
    BY DEF HighestPriorityNext
  <2> DEFINE n == next_proc(sc, state)
  <2>1. ReadyIn(state) = {p \in Procs : state[p] = "ready"}
    BY DEF ReadyIn, IsReady
  <2>2. up \in Procs /\ Sound(sc) /\ \A p \in ReadyIn(state) : OnList(sc, p)
    BY <2>1 DEF SchedInv, TypeOK
  <2>3. up \in ReadyIn(state)
    BY <2>1, <2>2 DEF SchedInv
  <2>4. IF n.up = nil THEN \A p \in ReadyIn(state) : ~OnList(sc, p)
        ELSE /\ n.up \in ReadyIn(state)
             /\ \A p \in ReadyIn(state) : OnList(sc, p) => sc.priority[p] <= sc.priority[n.up]
    BY <2>2, NextProcProps
  <2> HIDE DEF n
  <2>5. /\ n.up \in Procs /\ state[n.up] = "ready"
        /\ \A p \in Procs : state[p] = "ready" => sc.priority[p] <= sc.priority[n.up]
    BY <2>1, <2>2, <2>3, <2>4
  <2> QED
    BY <2>5 DEF HighestPriorityNext, n
<1> QED
  BY SchedAlways, <1>1, PTL
=============================================================================
