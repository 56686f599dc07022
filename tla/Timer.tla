------------------------------- MODULE Timer --------------------------------
(***************************************************************************)
(* The timer driver (arm/drivers/timer-sp804/main.c): clients create       *)
(* timers and set them, and the driver signals an endpoint of theirs when  *)
(* the time has passed.  One hardware counter serves all of them: it is    *)
(* loaded with the shortest time, counts down once and interrupts.         *)
(*                                                                         *)
(* A millisecond is Ms ticks of the counter.  The driver waits in recv_cap *)
(* with a new capability slot each time, because kcap_free does nothing;   *)
(* when there is none left it returns.                                     *)
(***************************************************************************)
EXTENDS Integers, Sequences

CONSTANTS Clients,
          Ms, Times,   \* ticks in a millisecond; times that clients ask for
          Caps,        \* capability slots
          MaxTimers,   \* bound
          nil

\* What the code takes for granted of its constants.
TimerOK ==
  Ms \in Nat \ {0} /\ Times \subseteq Nat /\ Caps \in Nat /\ nil \notin Nat

VARIABLES alive,    \* main has not returned
          timers,   \* by id: owner, set, time_ms
          last_set, \* what the counter was loaded with
          cur, on,  \* the counter, and whether it is enabled
          irq,      \* it reached 0 and that was not acknowledged
          caps,     \* slots that kcap_alloc gave
          asked,    \* history: by id, ticks until its signal is due, nil if none is
          signals   \* history: by id, what the last signal was to its client

hw == <<last_set, cur, on, irq>>
hist == <<asked, signals>>
vars == <<alive, timers, hw, caps, hist>>

Ids == 1..Len(timers)

-----------------------------------------------------------------------------
Least(s) == CHOOSE i \in s : \A j \in s : i <= j

\* Mutant: a time of 0 is taken for none.
set_timerZero(ts) ==
  LET times == {ts[i].time_ms : i \in {i \in 1..Len(ts) : ts[i].set}} IN
  IF times = {} \/ 0 \in times THEN on' = FALSE /\ UNCHANGED <<last_set, cur>>
  ELSE /\ on' = TRUE
       /\ last_set' = Least(times) * Ms /\ cur' = Least(times) * Ms

\* set_timer for the timers ts: every call starts the counter again.
set_timer(ts) ==
  LET times == {ts[i].time_ms : i \in {i \in 1..Len(ts) : ts[i].set}} IN
  IF times = {} THEN on' = FALSE /\ UNCHANGED <<last_set, cur>>
  ELSE /\ on' = TRUE
       /\ last_set' = Least(times) * Ms /\ cur' = Least(times) * Ms

\* kcap_alloc before recv_cap.
TakesSlot == alive /\ caps < Caps /\ caps' = caps + 1 /\ UNCHANGED alive

Returns ==
  /\ alive /\ caps = Caps
  /\ alive' = FALSE
  /\ UNCHANGED <<timers, hw, caps, hist>>

\* handle_create.  set and time_ms are what malloc's memory holds.
handle_create(c) ==
  /\ TakesSlot /\ Len(timers) < MaxTimers
  /\ \E set \in BOOLEAN, t \in Times :
       /\ timers' = Append(timers, [pid |-> c, set |-> set, time_ms |-> t])
       /\ set_timer(timers')
  /\ asked' = Append(asked, nil) /\ signals' = Append(signals, "none")
  /\ UNCHANGED irq

\* handle_set, of a timer that is the client's own.
handle_set(c, i, t) ==
  /\ TakesSlot
  /\ timers[i].pid = c
  /\ timers' = [timers EXCEPT ![i].set = TRUE, ![i].time_ms = t]
  /\ set_timer(timers')
  /\ asked' = [asked EXCEPT ![i] = t * Ms]
  /\ UNCHANGED <<irq, signals>>

\* A request that is not answered: an unknown type, a set of a timer that is
\* not the client's, a create without a capability or memory.  The counter
\* is started again for it too.
Ignored ==
  /\ TakesSlot
  /\ set_timer(timers)
  /\ UNCHANGED <<timers, irq, hist>>

\* check_timers: time that has passed since set_timer.
elipsed == (last_set - cur) \div Ms

\* Mutant: a timer passes a millisecond too early.
PassedEarly(t) == t.set /\ t.time_ms <= elipsed + 1

Passed(t) == t.set /\ t.time_ms <= elipsed

Left(t) ==
  IF Passed(t) THEN [t EXCEPT !.set = FALSE]
  ELSE IF t.set THEN [t EXCEPT !.time_ms = @ - elipsed] ELSE t

Signal(due) == IF due = nil THEN "unasked" ELSE IF due > 0 THEN "early" ELSE "due"

\* The driver receives its interrupt's signal.
HandleInterrupt ==
  /\ TakesSlot /\ irq
  /\ irq' = FALSE
  /\ timers' = [i \in Ids |-> Left(timers[i])]
  /\ set_timer(timers')
  /\ signals' = [i \in Ids |-> IF Passed(timers[i])
                                THEN Signal(asked[i])
                                ELSE signals[i]]
  /\ asked' = [i \in Ids |-> IF Passed(timers[i]) THEN nil ELSE asked[i]]

\* Time passes: the counter counts down once and interrupts at 0.
Tick ==
  /\ alive
  /\ IF on /\ cur > 0 THEN cur' = cur - 1 /\ irq' = (irq \/ cur = 1)
     ELSE UNCHANGED cur /\ irq' = (irq \/ on)
  /\ asked' = [i \in Ids |-> IF asked[i] \in {nil, 0} THEN asked[i] ELSE asked[i] - 1]
  /\ UNCHANGED <<alive, timers, last_set, on, caps, signals>>

Init ==
  /\ alive = TRUE /\ timers = <<>> /\ caps = 0
  /\ last_set = 0 /\ cur = 0 /\ on = FALSE /\ irq = FALSE
  /\ asked = <<>> /\ signals = <<>>

Next ==
  \/ \E c \in Clients : \/ handle_create(c)
                        \/ \E i \in Ids, t \in Times : handle_set(c, i, t)
  \/ Ignored \/ HandleInterrupt \/ Returns \/ Tick
Spec == Init /\ [][Next]_vars

\* Time goes on, and the driver is scheduled.
FairSpec == Spec /\ WF_vars(Tick) /\ WF_vars(HandleInterrupt) /\ WF_vars(Returns)

-----------------------------------------------------------------------------
(* Properties.                                                             *)

\* The variables have the types of the driver's data.
TypeOK ==
  /\ \A i \in Ids : timers[i].pid \in Clients /\ timers[i].set \in BOOLEAN
                    /\ timers[i].time_ms \in Nat
  /\ cur \in 0..last_set /\ {alive, on, irq} \subseteq BOOLEAN
  /\ caps \in 0..Caps /\ Len(asked) = Len(timers) /\ Len(signals) = Len(timers)

\* No signal comes before the time that was asked for has passed, however
\* requests, the interrupt and other timers follow each other.
NotEarly == \A i \in Ids : signals[i] # "early"

\* A timer that has time to wait for is waited for: the counter runs, or its
\* interrupt is about to be handled.
CounterRuns == alive /\ (\E i \in Ids : timers[i].set) => on \/ irq

\* A timer that is set is signalled some time, as long as the driver has a
\* slot to receive with: requests put it off, and there are only finitely many.
Fires == \A i \in 1..MaxTimers :
  (i \in Ids /\ asked[i] # nil) ~> ((i \in Ids /\ asked[i] = nil) \/ ~alive)

\* Timers that share the counter: none is signalled early and none is left
\* with the counter off.
TimersExact == TypeOK /\ NotEarly /\ CounterRuns

\* The time that the counter still has to run for a timer, in ticks: what is
\* left of time_ms is known to the driver only when the interrupt comes.
Remaining(t) ==
  IF t.time_ms * Ms > last_set - cur THEN t.time_ms * Ms - (last_set - cur) ELSE 0

\* What TimersExact rests on: a client that waits has its timer set, and the
\* counter will not be done with it before the client's time has passed.
TimerInv ==
  /\ timers \in Seq([pid : Clients, set : BOOLEAN, time_ms : Nat])
  /\ asked \in Seq(Nat \cup {nil}) /\ Len(asked) = Len(timers)
  /\ signals \in Seq({"none", "unasked", "due"}) /\ Len(signals) = Len(timers)
  /\ last_set \in Nat /\ cur \in 0..last_set /\ caps \in 0..Caps
  /\ alive \in BOOLEAN /\ on \in BOOLEAN /\ irq \in BOOLEAN
  /\ on <=> \E i \in Ids : timers[i].set
  /\ \A i \in Ids : asked[i] # nil => timers[i].set /\ asked[i] <= Remaining(timers[i])

-----------------------------------------------------------------------------
(* Stated in the repository, and not kept by the code (see the README).   *)

\* A signal is the answer to one TIMER_set: the test sets its timer and takes
\* the next signal for the end of that time (procs/test/timer.c:60-80).
SignalsAreAsked == \A i \in Ids : signals[i] # "unasked"
=============================================================================
