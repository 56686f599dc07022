----------------------------- MODULE SchedSpec -----------------------------
(***************************************************************************)
(* The scheduler driven by every sequence of calls that the rest of the    *)
(* kernel makes: processes that yield, are preempted, block, wake others   *)
(* with or without blocking, fault, are started and change priority.       *)
(***************************************************************************)
EXTENDS Sched

CONSTANTS MinUsed,  \* the least number of ticks that pass before a schedule()
          MayWake   \* <<p, n>>: p's messages, replies or signals can wake n

ASSUME CallsOK == MinUsed \in Nat /\ MayWake \subseteq Procs \X Procs

VARIABLES state, up, sc
vars == <<state, up, sc>>

TypeOK ==
  /\ state \in [Procs -> {"fault", "ready", "blocked"}]
  /\ up \in Procs \cup {nil}
  /\ sc \in SchedType

Init ==
  /\ state = [p \in Procs |-> IF p = Root THEN "ready" ELSE "fault"]
  /\ up = Root
  /\ \E pri \in [Procs -> Priorities] : sc = BootSched(pri)

\* The running process leaves the cpu by schedule(n) from scheduler memory s,
\* with the process states as the step leaves them.
Switch(s, n) ==
  \E left \in Left(s, up, MinUsed) :
    /\ n # nil => s.ts[n] + left <= MaxTs
    /\ \E r \in {schedule(s, state', up, left, n)} : up' = r.up /\ sc' = r.sc

\* sys_yield and the system tick.
Yield == up # nil /\ UNCHANGED state /\ Switch(sc, nil)

\* recv and mesg with nobody to wake.
Block ==
  /\ up # nil
  /\ state' = [state EXCEPT ![up] = "blocked"]
  /\ Switch(sc, nil)

\* reply and signal (up stays ready) and mesg (up blocks).
Wake(n, s) ==
  /\ <<up, n>> \in MayWake
  /\ state[n] # "fault"
  /\ state' = [state EXCEPT ![n] = "ready", ![up] = s]
  /\ Switch(proc_ready(sc, n), n)

\* sys_exit and a trap.
Fault ==
  /\ up # nil
  /\ state' = [state EXCEPT ![up] = "fault"]
  /\ Switch(proc_fault(sc, up), nil)

\* sys_proc_start of a process that is not running.
Start(p) ==
  /\ up = Root
  /\ state[p] = "fault"
  /\ state' = [state EXCEPT ![p] = "ready"]
  /\ sc' = proc_ready(sc, p)
  /\ UNCHANGED up

SetPriority(p, r) ==
  /\ up # nil
  /\ sc' = proc_set_priority(sc, p, r)
  /\ UNCHANGED <<state, up>>

Halted == up = nil /\ UNCHANGED vars

Schedules == Yield \/ Block \/ Fault \/ \E n \in Procs, s \in {"ready", "blocked"} : Wake(n, s)

Next ==
  \/ Schedules
  \/ \E p \in Procs : Start(p)
  \/ \E p \in Procs, r \in Priorities : SetPriority(p, r)
  \/ Halted

Spec == Init /\ [][Next]_vars

-----------------------------------------------------------------------------
Places(p) == {w \in Priorities \X {0, 1} \X (1..Cardinality(Procs)) :
                /\ w[3] \in DOMAIN sc.queue[w[1]][w[2]]
                /\ sc.queue[w[1]][w[2]][w[3]] = p}

\* The queues stay well formed: a process is in one place at most, and on a
\* queue of its own priority, through lazy removal, refills and re-queueing.
QueuesExact ==
  /\ TypeOK
  /\ \A r \in Priorities, k \in {0, 1} :
       Len(sc.queue[r][k]) <= Cardinality(Procs)
  /\ \A p \in Procs :
       /\ Cardinality(Places(p)) <= 1
       /\ \A w \in Places(p) : w[1] = sc.priority[p]

\* No ready process is lost: it runs or is on a queue, so next_proc() comes to
\* it and the panic "no procs to run!" means that nobody is ready.
NoReadyLost ==
  /\ \A p \in Procs : state[p] = "ready" => p = up \/ Places(p) # {}
  /\ IF up = nil THEN \A p \in Procs : state[p] # "ready"
     ELSE state[up] = "ready"

\* Whenever the choice is next_proc()'s it falls on a ready process that no
\* ready process outranks, however stale the queues are by then.
HighestPriorityNext ==
  LET n == next_proc(sc, state).up IN
  up # nil =>
    /\ n \in Procs /\ state[n] = "ready"
    /\ \A p \in Procs : state[p] = "ready" => sc.priority[p] <= sc.priority[n]

-----------------------------------------------------------------------------
(* What the three properties rest on.                                      *)

\* A ready process is on a queue even while it runs.
SchedInv ==
  /\ TypeOK
  /\ Sound(sc)
  /\ \A p \in Procs : state[p] = "ready" => OnList(sc, p)
  /\ IF up = nil THEN \A p \in Procs : state[p] # "ready" ELSE state[up] = "ready"
=============================================================================
