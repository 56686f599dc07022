------------------------------- MODULE Sched -------------------------------
(***************************************************************************)
(* The scheduler (sys/proc.c): two queues of processes per priority, one   *)
(* current and one for the next round, and time slices that a process      *)
(* hands to the one it wakes.                                              *)
(*                                                                         *)
(* The scheduler's memory is one record sc, and every function of proc.c   *)
(* is an operator on it; what the rest of the kernel does to the process   *)
(* states is the second argument.  p->slist is not kept: it is nil exactly *)
(* when p is on no queue.                                                  *)
(***************************************************************************)
EXTENDS Processes, Lists, FiniteSetsExt

CONSTANTS PRIORITY_MAX,    \* priorities are below it
          SYSTICK,         \* a full time slice
          MIN_TIME_SLICE,  \* a process with no more than this is not run
          MaxTs            \* bound on the time slices that are explored

ASSUME SchedConstantsOK ==
  /\ IsFiniteSet(Procs) /\ Root \in Procs /\ nil \notin Procs
  /\ PRIORITY_MAX \in Nat /\ PRIORITY_MAX > 1
  /\ MIN_TIME_SLICE \in Nat
  /\ SYSTICK \in Nat /\ SYSTICK > MIN_TIME_SLICE
  /\ MaxTs \in Nat /\ MaxTs >= SYSTICK

Priorities == 0..(PRIORITY_MAX - 1)

\* sc.queue[r][k] is ready[r].queue[k], sc.q[r] says which one is current.
SchedType ==
  [queue: [Priorities -> [{0, 1} -> Seq(Procs)]],
   q: [Priorities -> {0, 1}],
   ts: [Procs -> 0..MaxTs],
   priority: [Procs -> Priorities]]

OnList(sc, p) == \E r \in Priorities, k \in {0, 1} : p \in ListOf(sc.queue[r][k])

\* Mutant: p->state is not looked at.
IsReadyAlways(state, p) == TRUE

IsReady(state, p) == state[p] = "ready"

add_to_list_tail(sc, r, k, p) == [sc EXCEPT !.queue[r][k] = Append(@, p)]

remove_from_list(sc, p) ==
  [sc EXCEPT !.queue =
     [r \in Priorities |-> [k \in {0, 1} |->
        Kept(sc.queue[r][k], Procs \ {p})]]]

\* The queue of the next round at p's priority.
AddToOther(sc, p) ==
  add_to_list_tail(sc, sc.priority[p], 1 - sc.q[sc.priority[p]], p)

AddToCurrent(sc, p) ==
  add_to_list_tail(sc, sc.priority[p], sc.q[sc.priority[p]], p)

\* Mutant: p->slist is not looked at.
proc_ready_again(sc, p) == AddToOther(sc, p)

\* Mutant: the state alone is changed.
proc_ready_unlisted(sc, p) == sc

proc_ready(sc, p) == IF OnList(sc, p) THEN sc ELSE AddToOther(sc, p)

proc_fault(sc, p) == IF OnList(sc, p) THEN remove_from_list(sc, p) ELSE sc

proc_set_priority(sc, p, r) ==
  LET new == [sc EXCEPT !.priority[p] = Min({r, PRIORITY_MAX})] IN
  IF OnList(sc, p) THEN AddToOther(remove_from_list(new, p), p) ELSE new

-----------------------------------------------------------------------------
(* next_proc.  Queues are thinned as they are searched: a process that is  *)
(* not ready is dropped, a ready one without time left goes to the other   *)
(* queue.  When the current queue has nothing to offer the queues change   *)
(* places and every process in the new current one gets a full slice.      *)

\* What one priority's search leaves behind, and the process found (or nil).
Search(sc, state, r) ==
  LET cur == sc.queue[r][sc.q[r]]
      oth == sc.queue[r][1 - sc.q[r]]
      ready == {p \in Procs : IsReady(state, p)}
      able == {i \in DOMAIN cur : cur[i] \in ready /\ sc.ts[cur[i]] > MIN_TIME_SLICE}
      fresh == oth \o Kept(cur, ready)
      able2 == {i \in DOMAIN fresh : fresh[i] \in ready}
      From(s, i) == SubSeq(s, i, Len(s))
      Two(q, s, t) == [k \in {0, 1} |-> IF k = q THEN s ELSE t]
  IN IF able # {}
     THEN LET i == Min(able) IN
          [found |-> cur[i],
           q |-> sc.q[r],
           queue |-> Two(sc.q[r], From(cur, i),
                         oth \o Kept(SubSeq(cur, 1, i - 1), ready)),
           refill |-> {}]
     ELSE IF able2 # {}
     THEN LET i == Min(able2) IN
          [found |-> fresh[i],
           q |-> 1 - sc.q[r],
           queue |-> Two(1 - sc.q[r], From(fresh, i), <<>>),
           refill |-> ListOf(fresh)]
     ELSE [found |-> nil,
           q |-> IF fresh = <<>> THEN 1 - sc.q[r] ELSE sc.q[r],
           queue |-> Two(0, <<>>, <<>>),
           refill |-> ListOf(fresh)]

\* Mutant: the search begins at the wrong end.
HighestLowest(hits) == Min(hits)

Highest(hits) == Max(hits)

\* Priorities are searched from the highest down to the first that has a
\* ready process; the ones below it are not touched.
next_proc(sc, state) ==
  LET at == [r \in Priorities |-> Search(sc, state, r)]
      hits == {r \in Priorities : at[r].found # nil}
      searched == {r \in Priorities : hits = {} \/ r >= Highest(hits)}
  IN [up |-> IF hits = {} THEN nil ELSE at[Highest(hits)].found,
      sc |-> [sc EXCEPT
        !.queue = [r \in Priorities |->
                     IF r \in searched THEN at[r].queue ELSE sc.queue[r]],
        !.q = [r \in Priorities |->
                     IF r \in searched THEN at[r].q ELSE sc.q[r]],
        !.ts = [p \in Procs |->
                  IF \E r \in searched : p \in at[r].refill
                  THEN SYSTICK ELSE sc.ts[p]]]]

\* schedule(n) when the process cur has left ticks of its slice unused.
schedule(sc, state, cur, left, n) ==
  LET kept == [sc.ts EXCEPT ![cur] = left]
      given == [sc EXCEPT !.ts = IF n = nil THEN kept ELSE [kept EXCEPT ![n] = @ + left]]
      put == IF ~IsReady(state, cur) THEN [given EXCEPT !.ts[cur] = 0]
             ELSE IF OnList(given, cur) THEN given
             ELSE AddToCurrent(given, cur)
  IN IF n # nil /\ IsReady(state, n) /\ put.ts[n] > MIN_TIME_SLICE
     THEN [up |-> n, sc |-> put]
     ELSE IF n # nil /\ IsReady(state, n) /\ ~OnList(put, n)
     THEN next_proc(AddToOther(put, n), state)
     ELSE next_proc(put, state)

\* init_root and the first schedule(): the root process has priority 1 and
\* runs, every other one has been created and given its priority pri[p].
BootSched(pri) ==
  proc_ready([queue |-> [r \in Priorities |-> [k \in {0, 1} |-> <<>>]],
              q |-> [r \in Priorities |-> 0],
              ts |-> [p \in Procs |-> SYSTICK],
              priority |-> [pri EXCEPT ![Root] = 1]],
             Root)

\* Mutant: the time that passed is not subtracted.
LeftWhole(sc, cur, used) == {sc.ts[cur]}

\* How much of its slice the running process may have left: time has passed,
\* possibly less than a tick.
Left(sc, cur, used) == 0..(IF sc.ts[cur] > used THEN sc.ts[cur] - used ELSE 0)

-----------------------------------------------------------------------------
\* Memory that the functions of proc.c leave behind.
Sound(s) ==
  /\ s \in SchedType
  /\ \A r \in Priorities, k \in {0, 1} :
       /\ OneEach(s.queue[r][k])
       /\ \A p \in ListOf(s.queue[r][k]) : s.priority[p] = r
  /\ \A r \in Priorities : ListOf(s.queue[r][0]) \cap ListOf(s.queue[r][1]) = {}
=============================================================================
