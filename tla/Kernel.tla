------------------------------- MODULE Kernel -------------------------------
(***************************************************************************)
(* The kernel's processes: message passing (Ipc) on top of the scheduler   *)
(* (Sched).  Where Ipc lets any ready process have the cpu, the scheduler  *)
(* takes the one its queues and time slices determine, and p->state is the *)
(* one field both work on.                                                 *)
(***************************************************************************)
EXTENDS Ipc, Sched

CONSTANT Priority0  \* the priorities that the processes are created with

ASSUME PrioritiesOK == Priority0 \in [Procs -> Priorities]

VARIABLE sc  \* the scheduler's memory

kvars == <<vars, sc>>

KInit == Init /\ sc = BootSched(Priority0)

\* schedule(n) by the running process, from scheduler memory s.
Switch(s, n) ==
  \E left \in Left(s, up, 0) :
    /\ n # nil => s.ts[n] + left <= MaxTs
    /\ \E r \in {schedule(s, state', up, left, n)} :
         /\ up' = r.up
         /\ sc' = r.sc
         /\ panic' = IF r.up = nil THEN "idle" ELSE panic

KNext ==
  \/ \E p \in Procs :
       \/ Stays(p) /\ UNCHANGED <<up, panic, sc>>
       \/ \E q \in Procs :
            ProcStart(p, q) /\ sc' = proc_ready(sc, q) /\ UNCHANGED <<up, panic>>
       \/ \E n \in Procs : Wakes(p, n) /\ Switch(proc_ready(sc, n), n)
       \/ Blocks(p) /\ Switch(sc, nil)
       \/ Stop(p) /\ Switch(proc_fault(sc, p), nil)
       \/ Panics(p) /\ up' = nil /\ UNCHANGED <<ipcVars, sc>>
  \/ Halted /\ UNCHANGED sc

KSpec == KInit /\ [][KNext]_kvars

-----------------------------------------------------------------------------
\* The scheduler is a correct Dispatch: although blocked processes linger on
\* its queues, and waking, donating and re-queueing interleave with message
\* passing, schedule() only ever resumes a ready process, and it panics for
\* want of one only when there is none.
RefinesIpc == Spec
=============================================================================
