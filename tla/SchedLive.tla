----------------------------- MODULE SchedLive -----------------------------
(***************************************************************************)
(* Fairness of the scheduler under the calls that message passing makes    *)
(* (sys/sys.c).  A message wakes a process that waits in recv, and its     *)
(* sender waits for the reply; a reply wakes one that waits for it, and a  *)
(* signal or an interrupt one in recv, and who wakes them stays ready.     *)
(* Any process may send to any other.  A bit that every schedule() flips   *)
(* lets the fairness be stated of states.                                  *)
(***************************************************************************)
EXTENDS SchedSpec

VARIABLES call,  \* "recv" or "mesg" for a process that waits there, "woken" for
                 \* one that was woken from recv and has not run since
          free,  \* history: the last schedule() stopped a process that had used
                 \* no tick and is still ready
          bit

Running == "running"

LiveInit ==
  /\ Init
  /\ call = [p \in Procs |-> Running] /\ free = FALSE /\ bit = 0

\* schedule(n), and what it leaves of calls: the process that runs next returns
\* from its call.  Either no tick has passed, or one or more.
Turn(s, n, calls) ==
  /\ \E used \in {0, 1} : \E left \in IF used = 0 THEN {s.ts[up]} ELSE Left(s, up, 1) :
       /\ n # nil => s.ts[n] + left <= MaxTs
       /\ \E r \in {schedule(s, state', up, left, n)} : up' = r.up /\ sc' = r.sc
       /\ free' = (used = 0 /\ state'[up] = "ready")
  /\ call' = [q \in Procs |-> IF q = up' THEN Running ELSE calls[q]]
  /\ bit' = 1 - bit

Blocks(c) ==
  /\ state' = [state EXCEPT ![up] = "blocked"]
  /\ Turn(sc, nil, [call EXCEPT ![up] = c])

Wakes(n, s, calls) ==
  /\ state' = [state EXCEPT ![n] = "ready", ![up] = s]
  /\ Turn(proc_ready(sc, n), n, calls)

\* rwait names a process until it has run, so it is woken again.
Waiting(n) == call[n] \in {"recv", "woken"}

recv == up # nil /\ Blocks("recv")
mesg ==
  /\ up # nil
  /\ \/ Blocks("mesg")
     \/ \E n \in Procs \ {up} :
          Waiting(n) /\ Wakes(n, "blocked", [call EXCEPT ![up] = "mesg", ![n] = "woken"])
reply ==
  /\ up # nil
  /\ \E n \in Procs : call[n] = "mesg" /\ Wakes(n, "ready", [call EXCEPT ![n] = Running])
signal ==
  /\ up # nil
  /\ \E n \in Procs \ {up} : Waiting(n) /\ Wakes(n, "ready", [call EXCEPT ![n] = "woken"])
sys_yield == up # nil /\ UNCHANGED state /\ Turn(sc, nil, call)
sys_exit ==
  /\ up # nil
  /\ state' = [state EXCEPT ![up] = "fault"]
  /\ Turn(proc_fault(sc, up), nil, [call EXCEPT ![up] = Running])

LiveNext ==
  \/ recv \/ mesg \/ reply \/ signal \/ sys_yield \/ sys_exit
  \/ (\E p \in Procs : Start(p)) /\ UNCHANGED <<call, free, bit>>
  \/ Halted /\ UNCHANGED <<call, free, bit>>

livevars == <<vars, call, free, bit>>

\* The timer is set when a process is dispatched and only schedule() stops
\* it, so the running process calls schedule() again and again.
Ticks == []<>(up = nil \/ bit = 0) /\ []<>(up = nil \/ bit = 1)

LiveSpec == LiveInit /\ [][LiveNext]_livevars /\ Ticks

-----------------------------------------------------------------------------
Outranked(p) == \E o \in Procs : state[o] = "ready" /\ sc.priority[o] > sc.priority[p]
\* schedule and next_proc, proc.c: a process that stays ready, with nobody above
\* it, runs again and again, however requests and replies hand slices to and fro
\* and wake each other's receivers; unless processes that stay ready give up the
\* cpu within a tick for ever, which costs them nothing of their slices.
TurnComes ==
  \A p \in Procs : []<>(free \/ up \in {p, nil} \/ state[p] # "ready" \/ Outranked(p))
=============================================================================
