--------------------------- MODULE RuntimeProofs ---------------------------
(***************************************************************************)
(* Components of the runtime, one by one, for every value of the constants *)
(* that MCRuntime hands to them.                                           *)
(***************************************************************************)
EXTENDS MCRuntime, ListTheorems

-----------------------------------------------------------------------------
(* The timer driver.                                                       *)

Timing == [pid : TimerClients, set : BOOLEAN, time_ms : Nat]

\* Ticks and milliseconds: elipsed rounds down, and products keep the order.
LEMMA Rounded ==
  ASSUME NEW d \in Nat, NEW k \in Nat \ {0}
  PROVE  d \div k \in Nat /\ (d \div k) * k <= d
  OBVIOUS

\* Products with a constant keep order and differences.
LEMMA TimesKeeps ==
  ASSUME NEW a \in Nat, NEW b \in Nat, NEW k \in Nat \ {0}, a <= b
  PROVE  a * k \in Nat /\ a * k <= b * k /\ (b - a) * k = b * k - a * k
  OBVIOUS

\* What the fields of a timer are.
LEMMA TimingOf ==
  ASSUME NEW ts \in Seq(Timing), NEW i \in 1..Len(ts)
  PROVE  ts[i] \in Timing /\ ts[i].pid \in TimerClients /\ ts[i].set \in BOOLEAN
         /\ ts[i].time_ms \in Nat
<1>1. ts[i] \in Timing
  OBVIOUS
<1> QED
  BY <1>1 DEF Timing

\* set_timer starts the counter for the timers ts: it runs exactly if one of
\* them is set, and has all of its time before it.
LEMMA SetTimerProps ==
  ASSUME Timer!TimerOK, last_set \in Nat, cur \in 0..last_set, NEW ts \in Seq(Timing),
         Timer!set_timer(ts)
  PROVE  /\ last_set' \in Nat /\ cur' \in 0..last_set'
         /\ on' \in BOOLEAN /\ (on' <=> \E i \in 1..Len(ts) : ts[i].set)
         /\ on' => cur' = last_set'
<1> DEFINE times == {ts[i].time_ms : i \in {i \in 1..Len(ts) : ts[i].set}}
<1>1. \A i \in 1..Len(ts) : ts[i].time_ms \in Nat
  BY TimingOf
<1>2. times \in SUBSET Nat
  BY <1>1
<1>3. times = {} <=> ~\E i \in 1..Len(ts) : ts[i].set
  OBVIOUS
<1>4. IF times = {} THEN on' = FALSE /\ UNCHANGED <<last_set, cur>>
      ELSE /\ on' = TRUE
           /\ last_set' = Timer!Least(times) * Ms /\ cur' = Timer!Least(times) * Ms
  BY DEF Timer!set_timer
<1> HIDE DEF times
<1>5. CASE times = {}
  BY <1>3, <1>4, <1>5
<1>6. CASE times # {}
  <2>1. \E i \in times : \A j \in times : i <= j
    BY <1>2, <1>6, NatLeast
  <2>2. Timer!Least(times) \in times
    BY <2>1 DEF Timer!Least
  <2> DEFINE least == Timer!Least(times)
  <2>3. least \in Nat
    BY <1>2, <2>2
  <2>4. on' = TRUE /\ last_set' = least * Ms /\ cur' = least * Ms
    BY <1>4, <1>6
  <2> HIDE DEF least
  <2>5. least * Ms \in Nat
    BY <2>3 DEF Timer!TimerOK
  <2> QED
    BY <1>3, <1>6, <2>4, <2>5
<1> QED
  BY <1>5, <1>6

\* A step that starts the counter again leaves every client at least its time:
\* ts are the timers, and due the times, that it leaves.
LEMMA Restarted ==
  ASSUME Timer!TimerOK, Timer!TimerInv, NEW ts \in Seq(Timing), timers' = ts,
         Timer!set_timer(ts), NEW due \in Seq(Nat \cup {nil}), asked' = due,
         Len(due) = Len(ts),
         \A i \in 1..Len(ts) : due[i] # nil => ts[i].set /\ due[i] <= ts[i].time_ms * Ms,
         signals' \in Seq({"none", "unasked", "due"}), Len(signals') = Len(ts),
         slots' \in 0..TimerSlots, alive' \in BOOLEAN, irq' \in BOOLEAN
  PROVE  Timer!TimerInv'
<1>1. /\ last_set' \in Nat /\ cur' \in 0..last_set'
      /\ on' \in BOOLEAN /\ (on' <=> \E i \in 1..Len(ts) : ts[i].set)
      /\ on' => cur' = last_set'
  BY SetTimerProps DEF Timer!TimerInv
<1>2. ASSUME NEW i \in 1..Len(ts), due[i] # nil
      PROVE  ts[i].set /\ due[i] <= Timer!Remaining(ts[i])'
  <2>1. last_set' - cur' = 0 /\ ts[i].time_ms \in Nat /\ due[i] \in Nat
    <3>1. ts[i].time_ms \in Nat /\ ts[i].set
      BY <1>2, TimingOf
    <3>2. due[i] \in Nat
      BY <1>2
    <3>3. cur' = last_set'
      <4>1. \E j \in 1..Len(ts) : ts[j].set
        BY <3>1
      <4> QED
        BY <1>1, <4>1
    <3>4. last_set' - cur' = 0
      <4>1. \A x \in Nat : x - x = 0
        OBVIOUS
      <4> QED
        BY <1>1, <3>3, <4>1
    <3> QED
      BY <3>1, <3>2, <3>4
  <2>2. ts[i].time_ms * Ms \in Nat /\ due[i] <= ts[i].time_ms * Ms
    BY <1>2, <2>1 DEF Timer!TimerOK
  <2> QED
    BY <1>2, <2>1, <2>2 DEF Timer!Remaining
<1> QED
  BY <1>1, <1>2 DEF Timer!TimerInv, Timer!Ids, Timing

\* What the invariant says of a timer that its client waits for.
LEMMA Waited ==
  ASSUME Timer!TimerOK, Timer!TimerInv
  PROVE  /\ timers \in Seq(Timing) /\ asked \in Seq(Nat \cup {nil}) /\ Len(asked) = Len(timers)
         /\ signals \in Seq({"none", "unasked", "due"}) /\ Len(signals) = Len(timers)
         /\ \A i \in 1..Len(timers) : asked[i] # nil =>
              timers[i].set /\ asked[i] \in Nat /\ asked[i] <= timers[i].time_ms * Ms
<1>1. /\ timers \in Seq(Timing) /\ asked \in Seq(Nat \cup {nil}) /\ Len(asked) = Len(timers)
      /\ signals \in Seq({"none", "unasked", "due"}) /\ Len(signals) = Len(timers)
  BY DEF Timer!TimerInv, Timing
<1>2. ASSUME NEW i \in 1..Len(timers), asked[i] # nil
      PROVE  timers[i].set /\ asked[i] \in Nat /\ asked[i] <= timers[i].time_ms * Ms
  <2>1. timers[i].set /\ asked[i] <= Timer!Remaining(timers[i])
    BY <1>2 DEF Timer!TimerInv, Timer!Ids
  <2>2. timers[i].time_ms \in Nat /\ asked[i] \in Nat /\ Ms \in Nat /\ last_set - cur \in Nat
    <3>1. asked[i] \in Nat
      BY <1>1, <1>2
    <3>2. last_set - cur \in Nat
      BY DEF Timer!TimerInv
    <3> QED
      BY <1>1, <3>1, <3>2, TimingOf DEF Timer!TimerOK
  <2> DEFINE w == timers[i].time_ms * Ms
  <2>3. w \in Nat
    BY <2>2
  <2>4. Timer!Remaining(timers[i]) = IF w > last_set - cur THEN w - (last_set - cur) ELSE 0
    BY DEF Timer!Remaining
  <2> HIDE DEF w
  <2>5. asked[i] <= w
    BY <2>1, <2>2, <2>3, <2>4
  <2> QED
    BY <2>1, <2>2, <2>5 DEF w
<1> QED
  BY <1>1, <1>2

\* A new timer, set or not by what its memory held: nobody asked for it.
LEMMA CreateInv ==
  ASSUME Timer!TimerOK, Timer!TimerInv, NEW c \in TimerClients, Timer!handle_create(c)
  PROVE  Timer!TimerInv'
<1>1. PICK set \in BOOLEAN, t \in Times :
        /\ timers' = Append(timers, [pid |-> c, set |-> set, time_ms |-> t])
        /\ Timer!set_timer(timers')
  BY DEF Timer!handle_create
<1> DEFINE new == [pid |-> c, set |-> set, time_ms |-> t]
           ts == Append(timers, new)
           due == Append(asked, nil)
<1>2. new \in Timing
  BY DEF Timing, Timer!TimerOK
<1>3. /\ timers \in Seq(Timing) /\ asked \in Seq(Nat \cup {nil}) /\ Len(asked) = Len(timers)
      /\ signals \in Seq({"none", "unasked", "due"}) /\ Len(signals) = Len(timers)
      /\ \A i \in 1..Len(timers) : asked[i] # nil =>
           timers[i].set /\ asked[i] \in Nat /\ asked[i] <= timers[i].time_ms * Ms
  BY Waited
<1> HIDE DEF new
<1>4. ts \in Seq(Timing) /\ Len(ts) = Len(timers) + 1 /\ \A i \in 1..Len(timers) : ts[i] = timers[i]
  BY <1>2, <1>3
<1>5. /\ due \in Seq(Nat \cup {nil}) /\ Len(due) = Len(timers) + 1 /\ due[Len(timers) + 1] = nil
      /\ \A i \in 1..Len(timers) : due[i] = asked[i]
  BY <1>3
<1>6. signals' \in Seq({"none", "unasked", "due"}) /\ Len(signals') = Len(timers) + 1
  BY <1>3 DEF Timer!handle_create
<1>7. timers' = ts /\ Timer!set_timer(ts) /\ asked' = due
  BY <1>1 DEF Timer!handle_create, new
<1>8. slots' \in 0..TimerSlots /\ alive' \in BOOLEAN /\ irq' \in BOOLEAN
  BY DEF Timer!handle_create, Timer!TakesSlot, Timer!TimerInv, Timer!TimerOK
<1> HIDE DEF ts, due
<1>9. ASSUME NEW i \in 1..Len(ts), due[i] # nil PROVE ts[i].set /\ due[i] <= ts[i].time_ms * Ms
  <2>1. i \in 1..Len(timers)
    <3>1. Len(timers) \in Nat
      BY <1>3
    <3> QED
      BY <1>4, <1>5, <1>9, <3>1
  <2> QED
    BY <1>3, <1>4, <1>5, <1>9, <2>1
<1> QED
  BY <1>4, <1>5, <1>6, <1>7, <1>8, <1>9, Restarted

\* A timer that is set; the counter starts anew for all of them, which can
\* only make the others later.
LEMMA SetInv ==
  ASSUME Timer!TimerOK, Timer!TimerInv, NEW c \in TimerClients, NEW i \in Timer!Ids,
         NEW t \in Times, Timer!handle_set(c, i, t)
  PROVE  Timer!TimerInv'
<1> DEFINE ts == [timers EXCEPT ![i] = [timers[i] EXCEPT !.set = TRUE, !.time_ms = t]]
           due == [asked EXCEPT ![i] = t * Ms]
<1>1. /\ timers \in Seq(Timing) /\ asked \in Seq(Nat \cup {nil}) /\ Len(asked) = Len(timers)
      /\ signals \in Seq({"none", "unasked", "due"}) /\ Len(signals) = Len(timers)
      /\ \A j \in 1..Len(timers) : asked[j] # nil =>
           timers[j].set /\ asked[j] \in Nat /\ asked[j] <= timers[j].time_ms * Ms
  BY Waited
<1>2. i \in 1..Len(timers) /\ t \in Nat /\ t * Ms \in Nat
  BY DEF Timer!Ids, Timer!TimerOK
<1> DEFINE new == [timers[i] EXCEPT !.set = TRUE, !.time_ms = t]
<1>3. new \in Timing /\ new.set /\ new.time_ms = t
  <2>1. timers[i] \in Timing
    BY <1>1, <1>2, TimingOf
  <2> QED
    BY <1>2, <2>1 DEF Timing
<1>4. timers' = ts /\ Timer!set_timer(timers') /\ asked' = due /\ signals' = signals
  BY <1>1 DEF Timer!handle_set
<1> HIDE DEF new
<1>5. /\ ts \in Seq(Timing) /\ Len(ts) = Len(timers)
      /\ \A j \in 1..Len(timers) : ts[j] = IF j = i THEN new ELSE timers[j]
  <2>1. ts = [timers EXCEPT ![i] = new]
    BY DEF new
  <2> HIDE DEF ts
  <2> QED
    BY <1>1, <1>2, <1>3, <2>1
<1>6. /\ due \in Seq(Nat \cup {nil}) /\ Len(due) = Len(timers)
      /\ \A j \in 1..Len(timers) : due[j] = IF j = i THEN t * Ms ELSE asked[j]
  <2> DEFINE x == t * Ms
  <2>1. x \in Nat /\ due = [asked EXCEPT ![i] = x]
    BY <1>2
  <2> HIDE DEF due, x
  <2>2. /\ due \in Seq(Nat \cup {nil}) /\ Len(due) = Len(timers)
        /\ \A j \in 1..Len(timers) : due[j] = IF j = i THEN x ELSE asked[j]
    BY <1>1, <1>2, <2>1
  <2> QED
    BY <2>2 DEF x
<1>7. slots' \in 0..TimerSlots /\ alive' \in BOOLEAN /\ irq' \in BOOLEAN
  BY DEF Timer!handle_set, Timer!TakesSlot, Timer!TimerInv, Timer!TimerOK
<1> HIDE DEF ts, due
<1>8. ASSUME NEW j \in 1..Len(ts), due[j] # nil PROVE ts[j].set /\ due[j] <= ts[j].time_ms * Ms
  <2>1. CASE j = i
    BY <1>2, <1>3, <1>5, <1>6, <2>1
  <2>2. CASE j # i
    BY <1>1, <1>5, <1>6, <1>8, <2>2
  <2> QED
    BY <2>1, <2>2
<1> QED
  BY <1>1, <1>4, <1>5, <1>6, <1>7, <1>8, Restarted

\* A request that is not answered starts the counter anew too.
LEMMA IgnoredInv ==
  ASSUME Timer!TimerOK, Timer!TimerInv, Timer!Ignored
  PROVE  Timer!TimerInv'
<1>1. /\ timers \in Seq(Timing) /\ asked \in Seq(Nat \cup {nil}) /\ Len(asked) = Len(timers)
      /\ signals \in Seq({"none", "unasked", "due"}) /\ Len(signals) = Len(timers)
      /\ \A j \in 1..Len(timers) : asked[j] # nil =>
           timers[j].set /\ asked[j] \in Nat /\ asked[j] <= timers[j].time_ms * Ms
  BY Waited
<1>2. timers' = timers /\ Timer!set_timer(timers) /\ asked' = asked /\ signals' = signals
  BY DEF Timer!Ignored, Timer!hist
<1>3. slots' \in 0..TimerSlots /\ alive' \in BOOLEAN /\ irq' \in BOOLEAN
  BY DEF Timer!Ignored, Timer!TakesSlot, Timer!TimerInv, Timer!TimerOK
<1> QED
  BY <1>1, <1>2, <1>3, Restarted

\* check_timers takes no more than the time that passed from a timer, and a
\* timer that it finds passed was due.
LEMMA CheckTimers ==
  ASSUME Timer!TimerOK, Timer!TimerInv, NEW i \in 1..Len(timers)
  PROVE  /\ Timer!Left(timers[i]) \in Timing
         /\ asked[i] # nil /\ Timer!Passed(timers[i]) => asked[i] = 0
         /\ asked[i] # nil /\ ~Timer!Passed(timers[i]) =>
              /\ Timer!Left(timers[i]).set
              /\ asked[i] <= Timer!Left(timers[i]).time_ms * Ms
<1> DEFINE d == last_set - cur
           e == Timer!elipsed
           t == timers[i]
<1>1. d \in Nat /\ Ms \in Nat \ {0} /\ e = d \div Ms
  BY DEF Timer!TimerInv, Timer!TimerOK, Timer!elipsed
<1> HIDE DEF d, e
<1>2. e \in Nat /\ e * Ms <= d /\ e * Ms \in Nat
  BY <1>1, Rounded
<1>3. t \in Timing /\ t.time_ms \in Nat /\ t.set \in BOOLEAN
  BY Waited, TimingOf
<1>4. /\ Timer!Passed(t) <=> t.set /\ t.time_ms <= e
      /\ Timer!Left(t) = IF Timer!Passed(t) THEN [t EXCEPT !.set = FALSE]
                         ELSE IF t.set THEN [t EXCEPT !.time_ms = t.time_ms - e] ELSE t
  BY DEF Timer!Passed, Timer!Left, e
<1>5. asked[i] # nil => asked[i] \in Nat /\ t.set /\ asked[i] <= Timer!Remaining(t)
  <2>1. asked[i] # nil => t.set /\ asked[i] <= Timer!Remaining(t)
    BY DEF Timer!TimerInv, Timer!Ids
  <2> QED
    BY <2>1, Waited
<1>6. Timer!Remaining(t) = IF t.time_ms * Ms > d THEN t.time_ms * Ms - d ELSE 0
  BY DEF Timer!Remaining, d
<1> HIDE DEF t
<1>7. CASE Timer!Passed(t)
  <2>1. Timer!Left(t) \in Timing
    BY <1>3, <1>4, <1>7 DEF Timing
  <2>2. t.time_ms * Ms \in Nat /\ t.time_ms * Ms <= e * Ms
    BY <1>1, <1>2, <1>3, <1>4, <1>7, TimesKeeps
  <2>3. Timer!Remaining(t) = 0
    BY <1>1, <1>2, <1>6, <2>2
  <2> QED
    BY <1>5, <1>7, <2>1, <2>3 DEF t
<1>8. CASE ~Timer!Passed(t) /\ t.set
  <2>1. e <= t.time_ms /\ t.time_ms - e \in Nat
    BY <1>2, <1>3, <1>4, <1>8
  <2>2. /\ Timer!Left(t) \in Timing /\ Timer!Left(t).set
        /\ Timer!Left(t).time_ms = t.time_ms - e
    BY <1>3, <1>4, <1>8, <2>1 DEF Timing
  <2>3. (t.time_ms - e) * Ms = t.time_ms * Ms - e * Ms /\ e * Ms <= t.time_ms * Ms
    <3> DEFINE u == t.time_ms
    <3>1. e \in Nat /\ u \in Nat /\ Ms \in Nat \ {0} /\ e <= u
      BY <1>1, <1>2, <1>3, <2>1
    <3> HIDE DEF u
    <3>2. (u - e) * Ms = u * Ms - e * Ms /\ e * Ms <= u * Ms
      BY <3>1, TimesKeeps
    <3> QED
      BY <3>2 DEF u
  <2>4. t.time_ms * Ms \in Nat
    BY <1>1, <1>3
  <2>5. Timer!Remaining(t) <= t.time_ms * Ms - e * Ms
    BY <1>1, <1>2, <1>6, <2>3, <2>4
  <2>6. Timer!Remaining(t) \in Nat
    BY <1>1, <1>6, <2>4
  <2>7. asked[i] # nil => asked[i] <= Timer!Left(t).time_ms * Ms
    BY <1>2, <1>5, <2>2, <2>3, <2>4, <2>5, <2>6
  <2> QED
    BY <1>8, <2>2, <2>7 DEF t
<1>9. CASE ~t.set
  BY <1>3, <1>4, <1>5, <1>9 DEF t
<1> QED
  BY <1>3, <1>7, <1>8, <1>9

\* The counter has run out: timers that are due are signalled, the rest
\* charged, and the counter restarted for them.
LEMMA InterruptInv ==
  ASSUME Timer!TimerOK, Timer!TimerInv, Timer!HandleInterrupt
  PROVE  Timer!TimerInv'
<1> DEFINE n == Len(timers)
           ts == [i \in 1..n |-> Timer!Left(timers[i])]
           due == [i \in 1..n |-> IF Timer!Passed(timers[i]) THEN nil ELSE asked[i]]
           sig == [i \in 1..n |-> IF Timer!Passed(timers[i])
                                  THEN Timer!Signal(asked[i]) ELSE signals[i]]
<1>1. /\ timers \in Seq(Timing) /\ asked \in Seq(Nat \cup {nil}) /\ Len(asked) = n
      /\ signals \in Seq({"none", "unasked", "due"}) /\ Len(signals) = n /\ n \in Nat
  BY Waited
<1>2. timers' = ts /\ Timer!set_timer(timers') /\ asked' = due /\ signals' = sig
  BY DEF Timer!HandleInterrupt, Timer!Ids
<1>3. ASSUME NEW i \in 1..n
      PROVE  /\ Timer!Left(timers[i]) \in Timing
             /\ asked[i] # nil /\ Timer!Passed(timers[i]) => asked[i] = 0
             /\ asked[i] # nil /\ ~Timer!Passed(timers[i]) =>
                  /\ Timer!Left(timers[i]).set
                  /\ asked[i] <= Timer!Left(timers[i]).time_ms * Ms
  BY CheckTimers
<1>4. ts \in Seq(Timing) /\ Len(ts) = n /\ \A i \in 1..n : ts[i] = Timer!Left(timers[i])
  BY <1>1, <1>3
<1>5. /\ due \in Seq(Nat \cup {nil}) /\ Len(due) = n
      /\ \A i \in 1..n : due[i] = IF Timer!Passed(timers[i]) THEN nil ELSE asked[i]
  BY <1>1
<1>6. sig \in Seq({"none", "unasked", "due"}) /\ Len(sig) = n
  <2>1. ASSUME NEW i \in 1..n PROVE sig[i] \in {"none", "unasked", "due"}
    <3>1. CASE Timer!Passed(timers[i])
      <4>1. Timer!Signal(asked[i]) \in {"unasked", "due"}
        BY <1>3, <3>1 DEF Timer!Signal
      <4> QED
        BY <3>1, <4>1
    <3>2. CASE ~Timer!Passed(timers[i])
      BY <1>1, <3>2
    <3> QED
      BY <3>1, <3>2
  <2>2. sig = [i \in 1..n |-> sig[i]]
    OBVIOUS
  <2> HIDE DEF sig
  <2> QED
    BY <1>1, <2>1, <2>2
<1>7. slots' \in 0..TimerSlots /\ alive' \in BOOLEAN /\ irq' \in BOOLEAN
  <2>1. irq' = FALSE /\ alive' = alive /\ slots < TimerSlots /\ slots' = slots + 1
    BY DEF Timer!HandleInterrupt, Timer!TakesSlot
  <2>2. slots \in 0..TimerSlots /\ alive \in BOOLEAN /\ TimerSlots \in Nat
    BY DEF Timer!TimerInv, Timer!TimerOK
  <2>3. slots' \in 0..TimerSlots
    <3>1. slots \in 0..TimerSlots /\ TimerSlots \in Nat /\ slots < TimerSlots /\ slots' = slots + 1
      BY <2>1, <2>2
    <3> QED
      BY <3>1
  <2>4. alive' \in BOOLEAN /\ irq' \in BOOLEAN
    BY <2>1, <2>2
  <2> QED
    BY <2>3, <2>4
<1> HIDE DEF ts, due, sig
<1>8. \A i \in 1..Len(ts) : due[i] # nil => ts[i].set /\ due[i] <= ts[i].time_ms * Ms
  BY <1>3, <1>4, <1>5
<1> HIDE DEF n
<1> QED
  BY <1>2, <1>4, <1>5, <1>6, <1>7, <1>8, Restarted

\* Time passes: the clients wait one tick less, and so does the counter.
LEMMA TickInv ==
  ASSUME Timer!TimerOK, Timer!TimerInv, Timer!Tick
  PROVE  Timer!TimerInv'
<1>1. /\ timers \in Seq(Timing) /\ asked \in Seq(Nat \cup {nil}) /\ Len(asked) = Len(timers)
      /\ Len(timers) \in Nat
      /\ \A i \in 1..Len(timers) : asked[i] # nil => asked[i] \in Nat
  BY Waited
<1>2. /\ asked' = [i \in 1..Len(timers) |-> IF asked[i] \in {nil, 0} THEN asked[i] ELSE asked[i] - 1]
      /\ timers' = timers /\ last_set' = last_set /\ on' = on /\ slots' = slots
      /\ alive' = alive /\ signals' = signals
  BY DEF Timer!Tick, Timer!Ids
<1>3. asked' \in Seq(Nat \cup {nil}) /\ Len(asked') = Len(timers)
  <2>1. \A i \in 1..Len(timers) :
          (IF asked[i] \in {nil, 0} THEN asked[i] ELSE asked[i] - 1) \in Nat \cup {nil}
    BY <1>1
  <2> QED
    BY <1>1, <1>2, <2>1
<1>4. cur' \in 0..last_set' /\ irq' \in BOOLEAN /\ (cur' = cur \/ cur' = cur - 1)
  BY <1>2 DEF Timer!Tick, Timer!TimerInv
<1>5. ASSUME NEW i \in 1..Len(timers), asked'[i] # nil
      PROVE  timers'[i].set /\ asked'[i] <= Timer!Remaining(timers[i])'
  <2>1. asked[i] # nil /\ asked[i] \in Nat /\ asked'[i] = IF asked[i] = 0 THEN 0 ELSE asked[i] - 1
    BY <1>1, <1>2, <1>5
  <2>2. timers[i].set /\ asked[i] <= Timer!Remaining(timers[i])
    BY <2>1 DEF Timer!TimerInv, Timer!Ids
  <2> DEFINE w == timers[i].time_ms * Ms
  <2>3. w \in Nat
    BY <1>1, TimingOf DEF Timer!TimerOK
  <2>4. /\ Timer!Remaining(timers[i]) = IF w > last_set - cur THEN w - (last_set - cur) ELSE 0
        /\ Timer!Remaining(timers[i])' = IF w > last_set - cur' THEN w - (last_set - cur') ELSE 0
    BY <1>2 DEF Timer!Remaining
  <2> HIDE DEF w
  <2>5. last_set \in Nat /\ cur \in 0..last_set /\ cur' \in 0..last_set
    BY <1>2, <1>4 DEF Timer!TimerInv
  <2>6. asked'[i] <= IF w > last_set - cur' THEN w - (last_set - cur') ELSE 0
    <3>1. asked[i] <= IF w > last_set - cur THEN w - (last_set - cur) ELSE 0
      BY <2>2, <2>4
    <3>2. ASSUME NEW a \in Nat, NEW b \in Nat, NEW x \in Nat, NEW y \in Nat, y = x \/ y = x + 1,
                 a <= IF w > x THEN w - x ELSE 0, b = IF a = 0 THEN 0 ELSE a - 1
          PROVE  b <= IF w > y THEN w - y ELSE 0
      BY <2>3, <3>2
    <3>3. /\ last_set - cur \in Nat /\ last_set - cur' \in Nat
          /\ last_set - cur' = last_set - cur \/ last_set - cur' = (last_set - cur) + 1
      <4>1. cur' = cur \/ cur' = cur - 1
        BY <1>4
      <4>2. ASSUME NEW l \in Nat, NEW u \in 0..l, NEW v \in 0..l, v = u \/ v = u - 1
            PROVE  /\ l - u \in Nat /\ l - v \in Nat
                   /\ l - v = l - u \/ l - v = (l - u) + 1
        BY <4>2
      <4> QED
        BY <2>5, <4>1, <4>2
    <3>4. asked'[i] \in Nat
      BY <2>1
    <3> QED
      BY <2>1, <3>1, <3>2, <3>3, <3>4
  <2> QED
    BY <1>2, <2>2, <2>4, <2>6
<1> QED
  BY <1>2, <1>3, <1>4, <1>5 DEF Timer!TimerInv, Timer!Ids

\* Every step of the driver, its clients and the counter keeps the invariant.
LEMMA TimerStep ==
  ASSUME Timer!TimerOK, Timer!TimerInv, [Timer!Next]_(Timer!vars)
  PROVE  Timer!TimerInv'
<1>1. CASE UNCHANGED Timer!vars \/ Timer!Returns
  <2>1. /\ timers' = timers /\ asked' = asked /\ signals' = signals /\ last_set' = last_set
        /\ cur' = cur /\ on' = on /\ irq' = irq /\ slots' = slots /\ alive' \in {alive, FALSE}
    BY <1>1 DEF Timer!Returns, Timer!vars, Timer!hw, Timer!hist
  <2>2. \A i \in Timer!Ids : Timer!Remaining(timers[i])' = Timer!Remaining(timers[i])
    BY <2>1 DEF Timer!Remaining
  <2>3. /\ (timers \in Seq([pid : TimerClients, set : BOOLEAN, time_ms : Nat]))'
        /\ (\A i \in Timer!Ids : asked[i] # nil =>
              timers[i].set /\ asked[i] <= Timer!Remaining(timers[i]))'
    BY <2>1, <2>2 DEF Timer!TimerInv, Timer!Ids
  <2> QED
    BY <2>1, <2>3 DEF Timer!TimerInv, Timer!Ids
<1> QED
  BY <1>1, CreateInv, SetInv, IgnoredInv, InterruptInv, TickInv DEF Timer!Next

\* Timers that share the counter: whatever requests, interrupts and other
\* timers come in between, no client is signalled before the time that it
\* asked for, and none waits with the counter off.
THEOREM TimersStayExact == Spec => []TimersExact
<1> DEFINE Inv == which = "timer" => Timer!TimerInv
<1>1. Timer!TimerOK
  BY ConstantsOK
<1>2. Init => Inv
  <2>1. ASSUME Timer!Init PROVE Timer!TimerInv
    <3>1. /\ timers = <<>> /\ asked = <<>> /\ signals = <<>> /\ last_set = 0 /\ cur = 0
          /\ slots = 0 /\ alive = TRUE /\ on = FALSE /\ irq = FALSE
      BY <2>1 DEF Timer!Init
    <3>2. 1..Len(timers) = {}
      BY <3>1
    <3>3. TimerSlots \in Nat
      BY <1>1 DEF Timer!TimerOK
    <3>4. \A S : <<>> \in Seq(S)
      OBVIOUS
    <3>5. Len(asked) = Len(timers) /\ Len(signals) = Len(timers)
      BY <3>1
    <3>6. last_set \in Nat /\ cur \in 0..last_set /\ slots \in 0..TimerSlots
      BY <3>1, <3>3
    <3> QED
      BY <3>1, <3>2, <3>4, <3>5, <3>6 DEF Timer!TimerInv, Timer!Ids
  <2> QED
    BY <2>1 DEF Init
<1>3. Inv /\ [Next]_vars => Inv'
  <2> SUFFICES ASSUME Inv, [Next]_vars, which' = "timer" PROVE Timer!TimerInv'
    OBVIOUS
  <2>1. which = "timer"
    BY DEF Next, vars
  <2>2. [Timer!Next]_(Timer!vars)
    BY <2>1 DEF Next, vars, timer, Timer!vars, Timer!hw, Timer!hist
  <2> QED
    BY <1>1, <2>1, <2>2, TimerStep
<1>4. Inv => TimersExact
  <2> SUFFICES ASSUME Timer!TimerInv PROVE Timer!TimersExact
    BY DEF TimersExact
  <2>1. Timer!TypeOK
    <3>1. \A i \in Timer!Ids : /\ timers[i].pid \in TimerClients /\ timers[i].set \in BOOLEAN
                               /\ timers[i].time_ms \in Nat
      BY <1>1, Waited, TimingOf DEF Timer!Ids
    <3> QED
      BY <3>1 DEF Timer!TypeOK, Timer!TimerInv
  <2>2. Timer!NotEarly
    <3>1. \A i \in 1..Len(timers) : signals[i] \in {"none", "unasked", "due"}
      BY <1>1, Waited
    <3> QED
      BY <3>1 DEF Timer!NotEarly, Timer!Ids
  <2>3. Timer!CounterRuns
    BY DEF Timer!CounterRuns, Timer!TimerInv
  <2> QED
    BY <2>1, <2>2, <2>3 DEF Timer!TimersExact
<1> QED
  BY <1>2, <1>3, <1>4, PTL DEF Spec

-----------------------------------------------------------------------------
(* The log server.                                                         *)

RingType == [buf : [0..Size - 1 -> 0..Size], start : 0..Size - 1, end : 0..Size - 1]

\* x modulo k, for the x that occur: around the end of the buffer once.
Wrap(x, k) == IF x < k THEN x ELSE x - k

\* Modulo is going around once, within two lengths.
LEMMA ModWraps ==
  ASSUME NEW k \in Nat \ {0}, NEW x \in 0..(2 * k - 1)
  PROVE  x % k = Wrap(x, k) /\ Wrap(x, k) \in 0..(k - 1)
<1>1. CASE x < k
  BY <1>1 DEF Wrap
<1>2. CASE x >= k
  <2>1. x - k \in 0..(k - 1) /\ x = 1 * k + (x - k)
    BY <1>2
  <2> QED
    BY <1>2, <2>1 DEF Wrap
<1> QED
  BY <1>1, <1>2

\* The distance from b forward to a, around the end.
LEMMA ModBack ==
  ASSUME NEW k \in Nat \ {0}, NEW a \in 0..(k - 1), NEW b \in 0..(k - 1)
  PROVE  (a - b) % k = IF b <= a THEN a - b ELSE a + k - b
  OBVIOUS

\* What LogOK says of the buffer's size and the piece's.
LEMMA SizeOK ==
  ASSUME Log!LogOK
  PROVE  Size \in Nat /\ Size > 2 /\ Piece \in Nat \ {0}
<1>1. MAX_SERVICES * SlotLen \in Nat /\ MAX_SERVICES * SlotLen >= 1
  BY DEF Log!LogOK
<1>2. FailLen \in Nat \ {0} /\ Size \in Nat /\ FailLen + MAX_SERVICES * SlotLen < Size
  BY DEF Log!LogOK
<1> QED
  BY <1>1, <1>2 DEF Log!LogOK

\* One memcpy into the buffer, which does not go past its end.
LEMMA PutProps ==
  ASSUME Log!LogOK, NEW r \in RingType, NEW b \in Nat, NEW n \in 0..Size, r.end + n <= Size
  PROVE  LET q == Log!Put(r, b, n) IN
         /\ q \in RingType /\ q.start = r.start
         /\ q.end = IF r.end + n = Size THEN 0 ELSE r.end + n
         /\ \A i \in 0..Size - 1 :
              q.buf[i] = IF i \in r.end .. r.end + n - 1 THEN (b + i - r.end) % (Size + 1)
                         ELSE r.buf[i]
<1>0. Size \in Nat /\ Size > 2
  BY SizeOK
<1>1. /\ r.buf \in [0..Size - 1 -> 0..Size] /\ r.start \in 0..Size - 1 /\ r.end \in 0..Size - 1
  BY DEF RingType
<1> DEFINE new == [i \in 0..Size - 1 |-> IF i \in r.end .. r.end + n - 1
                                          THEN (b + i - r.end) % (Size + 1) ELSE r.buf[i]]
           end == (r.end + n) % Size
           q == Log!Put(r, b, n)
<1>2. q = [r EXCEPT !.buf = new, !.end = end]
  BY <1>1 DEF Log!Put, Log!Number
<1>3. new \in [0..Size - 1 -> 0..Size]
  <2>1. ASSUME NEW i \in 0..Size - 1, i \in r.end .. r.end + n - 1
        PROVE  (b + i - r.end) % (Size + 1) \in 0..Size
    <3>1. b + i - r.end \in Nat
      <4>1. r.end \in Nat /\ i \in Nat /\ r.end <= i
        BY <1>0, <1>1, <2>1
      <4> QED
        BY <4>1
    <3>2. \A x \in Nat : x % (Size + 1) \in 0..Size
      BY <1>0
    <3> QED
      BY <3>1, <3>2
  <2> QED
    BY <1>1, <2>1
<1>4. end = IF r.end + n = Size THEN 0 ELSE r.end + n
  <2>1. r.end + n \in 0..(2 * Size - 1)
    BY <1>0, <1>1
  <2>2. end = Wrap(r.end + n, Size)
    BY <1>0, <2>1, ModWraps
  <2> HIDE DEF end
  <2> QED
    BY <1>0, <1>1, <2>2 DEF Wrap
<1>5. end \in 0..Size - 1
  <2> HIDE DEF end
  <2> QED
    BY <1>0, <1>1, <1>4
<1>6. q \in RingType /\ q.start = r.start /\ q.end = end /\ q.buf = new
  <2> HIDE DEF new, end, q
  <2> QED
    BY <1>2, <1>3, <1>5 DEF RingType
<1> QED
  BY <1>4, <1>6

\* What the buffer holds, n bytes of it from number p on.
Holds(r, n, p) ==
  /\ n \in 0..Size - 1
  /\ r.end = Wrap(r.start + n, Size)
  /\ \A k \in 0..n - 1 : r.buf[Wrap(r.start + k, Size)] = Wrap(p + k, Size + 1)

\* A line that fits is put behind what the buffer holds, in two parts when it
\* reaches the buffer's end.
LEMMA AddLogProps ==
  ASSUME Log!LogOK, NEW r \in RingType, NEW n \in 0..Size - 1, NEW p \in 0..Size,
         Holds(r, n, p), NEW len \in Nat \ {0}, n + len < Size
  PROVE  LET q == Log!add_log(r, Wrap(p + n, Size + 1), len) IN
         q \in RingType /\ q.start = r.start /\ Holds(q, n + len, p)
<1> DEFINE b == Wrap(p + n, Size + 1)
           q == Log!add_log(r, b, len)
<1>0. /\ Size \in Nat /\ Size > 2 /\ b \in 0..Size
      /\ r.start \in 0..Size - 1 /\ r.end \in 0..Size - 1 /\ r.end = Wrap(r.start + n, Size)
  <2>1. Size \in Nat /\ Size > 2
    BY SizeOK
  <2>2. r.start \in 0..Size - 1 /\ r.end \in 0..Size - 1
    BY DEF RingType
  <2>3. b \in 0..Size
    BY <2>1 DEF Wrap
  <2>4. r.end = Wrap(r.start + n, Size)
    BY DEF Holds
  <2> QED
    BY <2>1, <2>2, <2>3, <2>4
<1>1. ~Log!Full(r, len)
  BY <1>0 DEF Log!Full, Wrap
<1>2. \A j \in 0..len - 1 : Wrap(p + (n + j), Size + 1) = (b + j) % (Size + 1)
  <2> SUFFICES ASSUME NEW j \in 0..len - 1
               PROVE  Wrap(p + (n + j), Size + 1) = (b + j) % (Size + 1)
    OBVIOUS
  <2>1. b + j \in 0..(2 * (Size + 1) - 1)
    BY <1>0
  <2>2. (b + j) % (Size + 1) = Wrap(b + j, Size + 1)
    BY <1>0, <2>1, ModWraps
  <2> QED
    BY <1>0, <2>2 DEF Wrap
<1> HIDE DEF b
<1>3. ASSUME NEW z, z \in RingType, z.start = r.start, z.end = Wrap(r.start + (n + len), Size),
             \A j \in 0..len - 1 : z.buf[Wrap(r.end + j, Size)] = (b + j) % (Size + 1),
             \A k \in 0..n - 1 : z.buf[Wrap(r.start + k, Size)] = r.buf[Wrap(r.start + k, Size)]
      PROVE  Holds(z, n + len, p)
  <2>1. ASSUME NEW k \in 0..(n + len) - 1
        PROVE  z.buf[Wrap(r.start + k, Size)] = Wrap(p + k, Size + 1)
    <3>1. CASE k < n
      <4>1. k \in 0..n - 1
        BY <3>1
      <4> QED
        BY <1>3, <4>1 DEF Holds
    <3>2. CASE k >= n
      <4>1. k - n \in 0..len - 1 /\ p + (n + (k - n)) = p + k
        BY <1>0, <3>2
      <4>2. Wrap(r.end + (k - n), Size) = Wrap(r.start + k, Size)
        BY <1>0, <4>1 DEF Wrap
      <4>3. z.buf[Wrap(r.end + (k - n), Size)] = (b + (k - n)) % (Size + 1)
        BY <1>3, <4>1
      <4>4. Wrap(p + (n + (k - n)), Size + 1) = (b + (k - n)) % (Size + 1)
        BY <1>2, <4>1
      <4> QED
        BY <4>1, <4>2, <4>3, <4>4
    <3> QED
      BY <3>1, <3>2
  <2> QED
    BY <1>0, <1>3, <2>1 DEF Holds
<1>4. CASE r.end + len <= Size
  <2>1. q = Log!Put(r, b, len)
    BY <1>0, <1>1, <1>4 DEF Log!add_log
  <2>2. len \in 0..Size /\ b \in Nat
    BY <1>0
  <2> HIDE DEF q
  <2>3. /\ q \in RingType /\ q.start = r.start
        /\ q.end = IF r.end + len = Size THEN 0 ELSE r.end + len
        /\ \A i \in 0..Size - 1 :
             q.buf[i] = IF i \in r.end .. r.end + len - 1 THEN (b + i - r.end) % (Size + 1)
                        ELSE r.buf[i]
    BY <1>4, <2>1, <2>2, PutProps
  <2>4. ASSUME NEW j \in 0..len - 1 PROVE q.buf[Wrap(r.end + j, Size)] = (b + j) % (Size + 1)
    <3>1. /\ Wrap(r.end + j, Size) = r.end + j /\ r.end + j \in 0..Size - 1
          /\ r.end + j \in r.end .. r.end + len - 1 /\ b + (r.end + j) - r.end = b + j
      BY <1>0, <1>4 DEF Wrap
    <3> QED
      BY <2>3, <3>1
  <2>5. ASSUME NEW k \in 0..n - 1
        PROVE  q.buf[Wrap(r.start + k, Size)] = r.buf[Wrap(r.start + k, Size)]
    <3>1. /\ Wrap(r.start + k, Size) \in 0..Size - 1
          /\ Wrap(r.start + k, Size) \notin r.end .. r.end + len - 1
      BY <1>0, <1>4 DEF Wrap
    <3> QED
      BY <2>3, <3>1
  <2>6. q.end = Wrap(r.start + (n + len), Size)
    <3>1. ASSUME NEW s \in 0..Size - 1, NEW e, e = Wrap(s + n, Size), e + len <= Size
          PROVE  (IF e + len = Size THEN 0 ELSE e + len) = Wrap(s + (n + len), Size)
      <4>1. CASE s + n < Size
        <5>1. e = s + n /\ e + len = s + (n + len)
          BY <1>0, <3>1, <4>1 DEF Wrap
        <5> QED
          BY <1>0, <3>1, <5>1 DEF Wrap
      <4>2. CASE s + n >= Size
        <5>1. e = s + n - Size /\ e + len < Size /\ s + (n + len) >= Size
          BY <1>0, <3>1, <4>2 DEF Wrap
        <5> QED
          BY <1>0, <3>1, <5>1 DEF Wrap
      <4> QED
        BY <1>0, <4>1, <4>2
    <3> QED
      BY <1>0, <1>4, <2>3, <3>1
  <2> QED
    BY <1>3, <2>3, <2>4, <2>5, <2>6 DEF q, b
<1>5. CASE r.end + len > Size
  <2> DEFINE m == Size - r.end
             r1 == Log!Put(r, b, m)
  <2>1. m \in 1..Size /\ r.end + m = Size /\ r.start <= r.end /\ r.end = r.start + n
        /\ len - m \in 1..Size /\ len - m < r.start
    BY <1>0, <1>5 DEF Wrap
  <2>2. q = Log!Rest(r1, b + Size - r.end, len - m)
    BY <1>0, <1>1, <1>5 DEF Log!add_log
  <2> HIDE DEF q, r1, m
  <2>3. b \in Nat /\ m \in 0..Size /\ r.end + m <= Size
    BY <1>0, <2>1
  <2>4. /\ r1 \in RingType /\ r1.start = r.start /\ r1.end = 0
        /\ \A i \in 0..Size - 1 :
             r1.buf[i] = IF i \in r.end .. r.end + m - 1 THEN (b + i - r.end) % (Size + 1)
                         ELSE r.buf[i]
    BY <2>1, <2>3, PutProps DEF r1
  <2>5. ~Log!Full(r1, len - m)
    BY <1>0, <2>1, <2>4 DEF Log!Full
  <2>6. q = Log!Put(r1, b + m, len - m)
    <3>1. b + Size - r.end = b + m
      BY <1>0 DEF m
    <3> QED
      BY <2>2, <2>5, <3>1 DEF Log!Rest
  <2>7. b + m \in Nat /\ len - m \in 0..Size /\ r1.end + (len - m) <= Size
    BY <1>0, <2>1, <2>4
  <2>8. /\ q \in RingType /\ q.start = r1.start
        /\ q.end = IF r1.end + (len - m) = Size THEN 0 ELSE r1.end + (len - m)
        /\ \A i \in 0..Size - 1 :
             q.buf[i] = IF i \in r1.end .. r1.end + (len - m) - 1
                        THEN ((b + m) + i - r1.end) % (Size + 1) ELSE r1.buf[i]
    <3> DEFINE b1 == b + m
               l1 == len - m
    <3>1. q = Log!Put(r1, b1, l1) /\ b1 \in Nat /\ l1 \in 0..Size /\ r1.end + l1 <= Size
      BY <2>6, <2>7
    <3> HIDE DEF b1, l1
    <3>2. /\ q \in RingType /\ q.start = r1.start
          /\ q.end = IF r1.end + l1 = Size THEN 0 ELSE r1.end + l1
          /\ \A i \in 0..Size - 1 :
               q.buf[i] = IF i \in r1.end .. r1.end + l1 - 1
                          THEN (b1 + i - r1.end) % (Size + 1) ELSE r1.buf[i]
      <4>1. r1 \in RingType
        BY <2>4
      <4>2. ASSUME NEW x, x = Log!Put(r1, b1, l1)
            PROVE  /\ x \in RingType /\ x.start = r1.start
                   /\ x.end = IF r1.end + l1 = Size THEN 0 ELSE r1.end + l1
                   /\ \A i \in 0..Size - 1 :
                        x.buf[i] = IF i \in r1.end .. r1.end + l1 - 1
                                   THEN (b1 + i - r1.end) % (Size + 1) ELSE r1.buf[i]
        BY <3>1, <4>1, <4>2, PutProps
      <4> QED
        BY <3>1, <4>2
    <3> QED
      BY <3>2 DEF b1, l1
  <2>9. \A i \in 0..Size - 1 :
          q.buf[i] = IF i < len - m THEN ((b + m) + i) % (Size + 1)
                     ELSE IF i >= r.end THEN (b + (i - r.end)) % (Size + 1) ELSE r.buf[i]
    <3> SUFFICES ASSUME NEW i \in 0..Size - 1
                 PROVE  q.buf[i] = IF i < len - m THEN ((b + m) + i) % (Size + 1)
                                   ELSE IF i >= r.end THEN (b + (i - r.end)) % (Size + 1) ELSE r.buf[i]
      OBVIOUS
    <3>1. i \in r1.end .. r1.end + (len - m) - 1 <=> i < len - m
      BY <1>0, <2>1, <2>4
    <3>2. i \in r.end .. r.end + m - 1 <=> i >= r.end
      BY <1>0, <2>1
    <3>3. (b + m) + i - r1.end = (b + m) + i /\ b + i - r.end = b + (i - r.end)
      BY <1>0, <2>1, <2>4
    <3> QED
      BY <2>4, <2>8, <3>1, <3>2, <3>3
  <2>10. ASSUME NEW j \in 0..len - 1 PROVE q.buf[Wrap(r.end + j, Size)] = (b + j) % (Size + 1)
    <3>1. CASE j < m
      <4>1. /\ Wrap(r.end + j, Size) = r.end + j /\ r.end + j \in 0..Size - 1
            /\ ~(r.end + j < len - m) /\ r.end + j >= r.end /\ (r.end + j) - r.end = j
        BY <1>0, <2>1, <3>1 DEF Wrap
      <4> QED
        BY <2>9, <4>1
    <3>2. CASE j >= m
      <4>1. /\ Wrap(r.end + j, Size) = j - m /\ j - m \in 0..Size - 1
            /\ j - m < len - m /\ (b + m) + (j - m) = b + j
        BY <1>0, <2>1, <3>2 DEF Wrap
      <4> QED
        BY <2>9, <4>1
    <3> QED
      BY <2>1, <3>1, <3>2
  <2>11. ASSUME NEW k \in 0..n - 1
        PROVE  q.buf[Wrap(r.start + k, Size)] = r.buf[Wrap(r.start + k, Size)]
    <3>1. /\ Wrap(r.start + k, Size) \in 0..Size - 1
          /\ ~(Wrap(r.start + k, Size) < len - m) /\ ~(Wrap(r.start + k, Size) >= r.end)
      BY <1>0, <2>1 DEF Wrap
    <3> QED
      BY <2>9, <3>1
  <2>12. q.end = Wrap(r.start + (n + len), Size)
    BY <1>0, <2>1, <2>4, <2>8 DEF Wrap, m
  <2> QED
    BY <1>3, <2>4, <2>8, <2>10, <2>11, <2>12 DEF q, b
<1> QED
  BY <1>0, <1>4, <1>5

\* The bytes between start and end, in one stretch or two.
LEMMA HeldIs ==
  ASSUME Log!LogOK, NEW r \in RingType
  PROVE  /\ Log!Held(r) = IF r.start <= r.end THEN r.end - r.start ELSE r.end + Size - r.start
         /\ Log!Held(r) \in 0..Size - 1 /\ r.end = Wrap(r.start + Log!Held(r), Size)
         /\ \A n \in 0..Size - 1 : r.end = Wrap(r.start + n, Size) => n = Log!Held(r)
<1>1. Size \in Nat \ {0} /\ r.start \in 0..Size - 1 /\ r.end \in 0..Size - 1
  BY SizeOK DEF RingType
<1> DEFINE h == Log!Held(r)
<1>2. h = IF r.start <= r.end THEN r.end - r.start ELSE r.end + Size - r.start
  BY <1>1, ModBack DEF Log!Held
<1> HIDE DEF h
<1>3. h \in 0..Size - 1 /\ r.end = Wrap(r.start + h, Size)
  BY <1>1, <1>2 DEF Wrap
<1>4. \A n \in 0..Size - 1 : r.end = Wrap(r.start + n, Size) => n = h
  BY <1>1, <1>2 DEF Wrap
<1> QED
  BY <1>2, <1>3, <1>4 DEF h

\* RingHolds of a buffer r, with the numbers l and p.
Exact(r, l, p) ==
  /\ Log!Held(r) = (l - p) % (Size + 1)
  /\ \A k \in 0..Log!Held(r) - 1 : r.buf[(r.start + k) % Size] = (p + k) % (Size + 1)

\* It says the same with the modulo worked out.
LEMMA ExactHolds ==
  ASSUME Log!LogOK, NEW r \in RingType, NEW l \in 0..Size, NEW p \in 0..Size
  PROVE  Exact(r, l, p) <=> /\ Holds(r, Log!Held(r), p)
                            /\ l = Wrap(p + Log!Held(r), Size + 1)
<1> DEFINE n == Log!Held(r)
<1>1. Size \in Nat \ {0} /\ Size + 1 \in Nat \ {0} /\ r.start \in 0..Size - 1
  BY SizeOK DEF RingType
<1>2. n \in 0..Size - 1 /\ r.end = Wrap(r.start + n, Size)
  BY HeldIs
<1> HIDE DEF n
<1>3. n = (l - p) % (Size + 1) <=> l = Wrap(p + n, Size + 1)
  <2>1. l \in 0..(Size + 1) - 1 /\ p \in 0..(Size + 1) - 1
    BY <1>1
  <2>2. (l - p) % (Size + 1) = IF p <= l THEN l - p ELSE l + (Size + 1) - p
    BY <1>1, <2>1, ModBack
  <2> QED
    BY <1>1, <1>2, <2>2 DEF Wrap
<1>4. ASSUME NEW k \in 0..n - 1
      PROVE  /\ (r.start + k) % Size = Wrap(r.start + k, Size)
             /\ (p + k) % (Size + 1) = Wrap(p + k, Size + 1)
  <2>1. r.start + k \in 0..(2 * Size - 1) /\ p + k \in 0..(2 * (Size + 1) - 1)
    BY <1>1, <1>2
  <2> QED
    BY <1>1, <2>1, ModWraps
<1>5. Exact(r, l, p) <=> /\ n = (l - p) % (Size + 1)
                         /\ \A k \in 0..n - 1 : r.buf[Wrap(r.start + k, Size)] = Wrap(p + k, Size + 1)
  BY <1>4 DEF Exact, n
<1>6. Holds(r, n, p) <=>
        \A k \in 0..n - 1 : r.buf[Wrap(r.start + k, Size)] = Wrap(p + k, Size + 1)
  BY <1>2 DEF Holds
<1> QED
  BY <1>3, <1>5, <1>6 DEF n

\* A line that is added and fits.
LEMMA LineAdded ==
  ASSUME Log!LogOK, NEW r \in RingType, NEW l \in 0..Size, NEW p \in 0..Size, Exact(r, l, p),
         NEW len \in Nat \ {0}, Log!Held(r) + len < Size
  PROVE  LET q == Log!add_log(r, l, len)
             l1 == (l + len) % (Size + 1) IN
         /\ q \in RingType /\ l1 \in 0..Size
         /\ Log!Held(q) = Log!Held(r) + len /\ Exact(q, l1, p)
<1> DEFINE n == Log!Held(r)
           q == Log!add_log(r, l, len)
           l1 == (l + len) % (Size + 1)
<1>1. Size \in Nat \ {0} /\ Size + 1 \in Nat \ {0} /\ n \in 0..Size - 1
  BY SizeOK, HeldIs
<1>2. Holds(r, n, p) /\ l = Wrap(p + n, Size + 1)
  BY ExactHolds
<1>3. n + len < Size /\ n + len \in 0..Size - 1
  BY <1>1
<1>4. l1 = Wrap(l + len, Size + 1) /\ l1 \in 0..Size
  <2> DEFINE x == l + len
             k == Size + 1
  <2>1. x \in 0..(2 * k - 1) /\ k \in Nat \ {0} /\ 0..(k - 1) = 0..Size /\ l1 = x % k
    BY <1>1, <1>3
  <2> HIDE DEF x, k, l1
  <2>2. x % k = Wrap(x, k) /\ Wrap(x, k) \in 0..(k - 1)
    BY <2>1, ModWraps
  <2> QED
    BY <2>1, <2>2 DEF x, k
<1> HIDE DEF n, l1
<1>5. l1 = Wrap(p + (n + len), Size + 1)
  BY <1>1, <1>2, <1>3, <1>4 DEF Wrap
<1>6. q = Log!add_log(r, Wrap(p + n, Size + 1), len)
  BY <1>2
<1> HIDE DEF q
<1>7. q \in RingType /\ Holds(q, n + len, p)
  BY <1>1, <1>2, <1>3, <1>6, AddLogProps
<1>8. Log!Held(q) = n + len
  <2>1. q.end = Wrap(q.start + (n + len), Size)
    BY <1>7 DEF Holds
  <2> DEFINE k == n + len
  <2>2. k \in 0..Size - 1 /\ q.end = Wrap(q.start + k, Size)
    BY <1>3, <2>1
  <2> HIDE DEF k
  <2>3. k = Log!Held(q)
    BY <1>7, <2>2, HeldIs
  <2> QED
    BY <2>3 DEF k
<1>9. Exact(q, l1, p)
  BY <1>4, <1>5, <1>7, <1>8, ExactHolds
<1> QED
  BY <1>4, <1>7, <1>8, <1>9 DEF q, n, l1

\* A piece that is sent is the oldest there is, and at least a byte.
LEMMA PieceSent ==
  ASSUME Log!LogOK, NEW r \in RingType, NEW l \in 0..Size, NEW p \in 0..Size, Exact(r, l, p),
         r.start # r.end
  PROVE  LET q == [r EXCEPT !.start = (@ + Log!Sent(r)) % Size]
             p1 == (p + Log!Sent(r)) % (Size + 1) IN
         q \in RingType /\ p1 \in 0..Size /\ Exact(q, l, p1)
<1> DEFINE n == Log!Held(r)
           s == Log!Sent(r)
           st == (r.start + s) % Size
           q == [r EXCEPT !.start = (@ + s) % Size]
           p1 == (p + s) % (Size + 1)
<1>1. /\ Size \in Nat \ {0} /\ Size + 1 \in Nat \ {0} /\ Piece \in Nat \ {0}
      /\ r.start \in 0..Size - 1 /\ r.end \in 0..Size - 1
  BY SizeOK DEF RingType
<1>2. /\ n = IF r.start <= r.end THEN r.end - r.start ELSE r.end + Size - r.start
      /\ n \in 0..Size - 1 /\ r.end = Wrap(r.start + n, Size)
  BY HeldIs
<1>3. Holds(r, n, p) /\ l = Wrap(p + n, Size + 1)
  BY ExactHolds
<1> HIDE DEF n
<1>4. s \in 1..n
  BY <1>1, <1>2 DEF Log!Sent, Log!UptoEnd
<1> HIDE DEF s
<1>5. st = Wrap(r.start + s, Size) /\ st \in 0..Size - 1
  <2>1. r.start + s \in 0..(2 * Size - 1)
    BY <1>1, <1>2, <1>4
  <2> QED
    BY <1>1, <2>1, ModWraps
<1>6. p1 = Wrap(p + s, Size + 1) /\ p1 \in 0..Size
  <2>1. p + s \in 0..(2 * (Size + 1) - 1)
    BY <1>1, <1>2, <1>4
  <2>2. Size + 1 - 1 = Size
    BY <1>1
  <2> QED
    BY <1>1, <2>1, <2>2, ModWraps
<1>7. q \in RingType /\ q.start = st /\ q.end = r.end /\ q.buf = r.buf
  <2>1. q = [r EXCEPT !.start = st]
    OBVIOUS
  <2> HIDE DEF st, q
  <2> QED
    BY <1>5, <2>1 DEF RingType
<1> HIDE DEF st, p1, q
<1> DEFINE m == n - s
<1>8. /\ m \in 0..Size - 1 /\ q.end = Wrap(q.start + m, Size)
      /\ l = Wrap(p1 + m, Size + 1)
  <2>1. m \in 0..Size - 1
    BY <1>1, <1>2, <1>4
  <2>2. q.end = Wrap(st + m, Size)
    BY <1>1, <1>2, <1>4, <1>5, <1>7 DEF Wrap
  <2>3. l = Wrap(p1 + m, Size + 1)
    <3>1. CASE p + s < Size + 1
      <4>1. p1 = p + s /\ p1 + m = p + n
        BY <1>1, <1>2, <1>4, <1>6, <3>1 DEF Wrap
      <4> QED
        BY <1>3, <4>1
    <3>2. CASE p + s >= Size + 1
      <4>1. p1 = (p + s) - (Size + 1) /\ p1 + m = (p + n) - (Size + 1)
            /\ p + n >= Size + 1 /\ (p + n) - (Size + 1) < Size + 1
        BY <1>1, <1>2, <1>4, <1>6, <3>2 DEF Wrap
      <4>2. l = (p + n) - (Size + 1)
        <5>1. ~(p + n < Size + 1)
          BY <1>1, <1>2, <4>1
        <5> QED
          BY <1>3, <5>1 DEF Wrap
      <4>3. Wrap(p1 + m, Size + 1) = p1 + m
        <5> HIDE DEF m
        <5> QED
          BY <4>1 DEF Wrap
      <4> QED
        BY <4>1, <4>2, <4>3
    <3> QED
      BY <1>1, <1>2, <1>4, <3>1, <3>2
  <2> QED
    BY <1>7, <2>1, <2>2, <2>3
<1>9. ASSUME NEW k \in 0..m - 1
      PROVE  q.buf[Wrap(q.start + k, Size)] = Wrap(p1 + k, Size + 1)
  <2>1. s + k \in 0..n - 1
    BY <1>1, <1>2, <1>4
  <2>2. Wrap(st + k, Size) = Wrap(r.start + (s + k), Size)
    BY <1>1, <1>2, <1>4, <1>5, <2>1 DEF Wrap
  <2>3. Wrap(p1 + k, Size + 1) = Wrap(p + (s + k), Size + 1)
    BY <1>1, <1>2, <1>4, <1>6, <2>1 DEF Wrap
  <2>4. r.buf[Wrap(r.start + (s + k), Size)] = Wrap(p + (s + k), Size + 1)
    BY <1>3, <2>1 DEF Holds
  <2> QED
    BY <1>7, <2>2, <2>3, <2>4
<1>10. Holds(q, m, p1)
  <2> HIDE DEF m
  <2> QED
    BY <1>8, <1>9 DEF Holds
<1> HIDE DEF m
<1>11. m = Log!Held(q)
  BY <1>7, <1>8, HeldIs
<1>12. Exact(q, l, p1)
  BY <1>6, <1>7, <1>8, <1>10, <1>11, ExactHolds
<1> QED
  BY <1>6, <1>7, <1>12 DEF q, p1, s

\* LogInv as it is proved: the buffer on one side, the clients on the other.
RingPart ==
  /\ ring \in RingType /\ logged \in 0..Size /\ printed \in 0..Size
  /\ Exact(ring, logged, printed)
  /\ pc = "recv" => ring.start = ring.end
  /\ pc = "slots" => Log!Held(ring) = FailLen + slot * SlotLen

TablePart ==
  /\ services \in [Log!Slots -> LogClients \cup {nil}] /\ slot \in Log!Slots
  /\ pc \in {"recv", "slots", "send", "exited"} /\ from \in LogClients \cup {nil}
  /\ setup \in [LogClients -> BOOLEAN]
  /\ Log!SetUpIsKnown /\ Log!ClientsFit

\* The two parts are the invariant.
LEMMA LogParts == (RingPart /\ TablePart => Log!LogInv) /\ (Log!LogInv => RingPart /\ TablePart)
<1>1. ring \in RingType => /\ ring.start \in 0..Size - 1 /\ ring.end \in 0..Size - 1
                           /\ ring.buf \in [0..Size - 1 -> 0..Size]
  BY DEF RingType
<1>2. Exact(ring, logged, printed) <=> Log!RingHolds
  BY DEF Exact, Log!RingHolds, Log!Held, Log!Number
<1>3. Log!RingFits <=> /\ ring \in RingType /\ logged \in 0..Size /\ printed \in 0..Size
                       /\ pc = "recv" => ring.start = ring.end
                       /\ pc = "slots" => Log!Held(ring) = FailLen + slot * SlotLen
  BY DEF Log!RingFits, RingType
<1> QED
  BY <1>1, <1>2, <1>3 DEF RingPart, TablePart, Log!LogInv, Log!LinesKept, Log!TypeOK

\* A line of len bytes that fits, logged while nothing is printed.
LEMMA AddLineRing ==
  ASSUME Log!LogOK, RingPart, NEW len \in Nat \ {0}, Log!Held(ring) + len < Size,
         Log!AddLine(len), printed' = printed
  PROVE  /\ ring' \in RingType /\ logged' \in 0..Size /\ printed' \in 0..Size
         /\ Exact(ring', logged', printed') /\ Log!Held(ring') = Log!Held(ring) + len
<1>1. ring' = Log!add_log(ring, logged, len) /\ logged' = (logged + len) % (Size + 1)
  BY DEF Log!AddLine, Log!Number
<1>2. /\ ring \in RingType /\ logged \in 0..Size /\ printed \in 0..Size
      /\ Exact(ring, logged, printed)
  BY DEF RingPart
<1> QED
  BY <1>1, <1>2, LineAdded

\* A buffer that is empty when the request comes takes one line of it.
LEMMA EmptyTakes ==
  ASSUME Log!LogOK, RingPart, pc = "recv", NEW len \in Nat \ {0}, len < Size,
         Log!AddLine(len), printed' = printed, pc' = "send" \/ (pc' = "slots" /\ slot' = 0 /\ len = FailLen)
  PROVE  RingPart'
<1>1. Log!Held(ring) = 0
  BY HeldIs, SizeOK DEF RingPart, RingType
<1>2. Log!Held(ring) + len < Size
  BY <1>1
<1>3. /\ ring' \in RingType /\ logged' \in 0..Size /\ printed' \in 0..Size
      /\ Exact(ring', logged', printed') /\ Log!Held(ring') = Log!Held(ring) + len
  BY <1>2, AddLineRing
<1>4. pc' = "slots" => Log!Held(ring') = FailLen + slot' * SlotLen
  <2> SUFFICES ASSUME pc' = "slots" PROVE Log!Held(ring') = FailLen + slot' * SlotLen
    OBVIOUS
  <2>1. slot' = 0 /\ len = FailLen /\ SlotLen \in Nat /\ FailLen \in Nat
    BY DEF Log!LogOK
  <2>2. FailLen + 0 * SlotLen = FailLen /\ 0 + FailLen = FailLen
    BY <2>1
  <2> QED
    BY <1>1, <1>3, <2>1, <2>2
<1> QED
  BY <1>3, <1>4 DEF RingPart

\* The table is logged line by line; all of it fits.
LEMMA SlotRing ==
  ASSUME Log!LogOK, RingPart, TablePart, Log!LogSlot
  PROVE  RingPart'
<1> DEFINE n == slot * SlotLen
<1>1. /\ pc = "slots" /\ Log!AddLine(SlotLen) /\ printed' = printed
      /\ Log!Held(ring) = FailLen + n
      /\ (pc' = pc /\ slot' = slot + 1) \/ pc' = "send"
  BY DEF Log!LogSlot, RingPart
<1>2. /\ slot \in Nat /\ slot + 1 <= MAX_SERVICES
      /\ MAX_SERVICES \in Nat /\ SlotLen \in Nat \ {0} /\ FailLen \in Nat /\ Size \in Nat
      /\ FailLen + MAX_SERVICES * SlotLen < Size
  BY DEF TablePart, Log!Slots, Log!LogOK
<1>3. (slot + 1) * SlotLen = n + SlotLen /\ n \in Nat
  BY <1>2
<1>4. (slot + 1) * SlotLen <= MAX_SERVICES * SlotLen /\ MAX_SERVICES * SlotLen \in Nat
  BY <1>2, TimesKeeps
<1> HIDE DEF n
<1>5. Log!Held(ring) + SlotLen < Size
  BY <1>1, <1>2, <1>3, <1>4
<1>6. /\ ring' \in RingType /\ logged' \in 0..Size /\ printed' \in 0..Size
      /\ Exact(ring', logged', printed') /\ Log!Held(ring') = Log!Held(ring) + SlotLen
  BY <1>1, <1>2, <1>5, AddLineRing
<1>7. pc' = "slots" => Log!Held(ring') = FailLen + slot' * SlotLen
  <2> SUFFICES ASSUME pc' = "slots" PROVE Log!Held(ring') = FailLen + slot' * SlotLen
    OBVIOUS
  <2>1. slot' = slot + 1
    BY <1>1
  <2>2. (FailLen + n) + SlotLen = FailLen + (n + SlotLen)
    BY <1>2, <1>3
  <2> QED
    BY <1>1, <1>3, <1>6, <2>1, <2>2
<1>8. pc' # "recv"
  BY <1>1
<1> QED
  BY <1>6, <1>7, <1>8 DEF RingPart

\* A piece is sent.
LEMMA SendRing ==
  ASSUME Log!LogOK, RingPart, Log!send_logs
  PROVE  RingPart'
<1>1. /\ pc = "send" /\ pc' = pc /\ ring.start # ring.end /\ logged' = logged
      /\ ring' = [ring EXCEPT !.start = (@ + Log!Sent(ring)) % Size]
      /\ printed' = (printed + Log!Sent(ring)) % (Size + 1)
  BY DEF Log!send_logs, Log!Number
<1>2. /\ ring \in RingType /\ logged \in 0..Size /\ printed \in 0..Size
      /\ Exact(ring, logged, printed)
  BY DEF RingPart
<1>3. ring' \in RingType /\ printed' \in 0..Size /\ Exact(ring', logged, printed')
  BY <1>1, <1>2, PieceSent
<1> QED
  BY <1>1, <1>2, <1>3 DEF RingPart

\* Steps that leave the buffer alone.
LEMMA RingKept ==
  ASSUME RingPart, ring' = ring, logged' = logged, printed' = printed,
         pc' = "recv" => ring.start = ring.end, pc' = "slots" => pc = "slots" /\ slot' = slot
  PROVE  RingPart'
<1>1. Log!Held(ring') = Log!Held(ring) /\ Exact(ring', logged', printed')
  BY DEF RingPart
<1> QED
  BY <1>1 DEF RingPart

\* The parts of ClientsFit and SetUpIsKnown, for one client.
LEMMA ClientFits ==
  ASSUME TablePart, NEW c \in LogClients
  PROVE  /\ setup[c] \in BOOLEAN
         /\ setup[c] => \E i \in Log!Slots :
                          services[i] = c /\ \A j \in Log!Slots \ {i} : services[j] # c
         /\ ~setup[c] => \A i \in Log!Slots : services[i] # c
         /\ waits[c] # nil => Log!Request(waits[c])
         /\ waits[c] # nil /\ waits[c].type = "register" => ~setup[c]
  BY DEF TablePart, Log!SetUpIsKnown, Log!ClientsFit

\* The parts put together again, in the next state.
LEMMA TableNext ==
  ASSUME services' \in [Log!Slots -> LogClients \cup {nil}], slot' \in Log!Slots,
         pc' \in {"recv", "slots", "send", "exited"}, from' \in LogClients \cup {nil},
         setup' \in [LogClients -> BOOLEAN], waits' = [c \in LogClients |-> waits'[c]],
         pc' = "recv" => from' = nil,
         pc' = "slots" =>
           from' \in LogClients /\ waits'[from'] # nil /\ waits'[from'].type = "register",
         pc' = "send" /\ from' # nil => waits'[from'] # nil /\ waits'[from'].type = "log",
         \A c \in LogClients :
           /\ setup'[c] => \E i \in Log!Slots :
                             services'[i] = c /\ \A j \in Log!Slots \ {i} : services'[j] # c
           /\ ~setup'[c] => \A i \in Log!Slots : services'[i] # c
           /\ waits'[c] # nil => Log!Request(waits'[c])
           /\ waits'[c] # nil /\ waits'[c].type = "register" => ~setup'[c]
  PROVE  TablePart'
  BY DEF TablePart, Log!SetUpIsKnown, Log!ClientsFit, Log!Slots

\* The client's side: it asks only when it has no answer to wait for.
LEMMA AskTable ==
  ASSUME Log!LogOK, TablePart, NEW c \in LogClients,
         \/ Log!log_init(c)
         \/ \E len \in LogLens, known \in BOOLEAN : Log!log(c, len, known)
  PROVE  TablePart'
<1>1. PICK rq : /\ waits[c] = nil /\ waits' = [waits EXCEPT ![c] = rq]
                /\ Log!Request(rq) /\ (rq.type = "register" => ~setup[c])
                /\ services' = services /\ slot' = slot /\ pc' = pc /\ from' = from
                /\ setup' = setup
  BY DEF Log!log_init, Log!log, Log!Mesg, Log!server, Log!Request
<1>2. waits = [d \in LogClients |-> waits[d]]
  BY DEF TablePart, Log!ClientsFit
<1>3. waits' = [d \in LogClients |-> IF d = c THEN rq ELSE waits[d]]
  BY <1>1, <1>2
<1>4. /\ pc = "recv" => from = nil
      /\ pc = "slots" => from \in LogClients /\ waits[from] # nil /\ waits[from].type = "register"
      /\ pc = "send" /\ from # nil => waits[from] # nil /\ waits[from].type = "log"
  BY DEF TablePart, Log!ClientsFit
<1>5. waits[from] # nil /\ from \in LogClients => waits'[from] = waits[from]
  BY <1>1, <1>3
<1>6. from \in LogClients \cup {nil}
  BY DEF TablePart
<1>7. \A d \in LogClients :
        /\ waits'[d] # nil => Log!Request(waits'[d])
        /\ waits'[d] # nil /\ waits'[d].type = "register" => ~setup'[d]
  BY <1>1, <1>3, ClientFits
<1>8. \A d \in LogClients :
        /\ setup'[d] => \E i \in Log!Slots :
                          services'[i] = d /\ \A j \in Log!Slots \ {i} : services'[j] # d
        /\ ~setup'[d] => \A i \in Log!Slots : services'[i] # d
  BY <1>1, ClientFits
<1>9. waits' = [d \in LogClients |-> waits'[d]]
  BY <1>3
<1> QED
  BY <1>1, <1>4, <1>5, <1>6, <1>7, <1>8, <1>9, TableNext DEF TablePart

\* The server takes a line to log: whom it serves waits for it.
LEMMA LogTable ==
  ASSUME Log!LogOK, TablePart, NEW c \in LogClients, waits[c] # nil, Log!handle_log(c, waits[c])
  PROVE  TablePart'
<1>1. /\ waits[c].type = "log" /\ pc' = "send" /\ from' = c
      /\ services' = services /\ slot' = slot /\ setup' = setup /\ waits' = waits
  BY DEF Log!handle_log, Log!clients
<1>2. waits = [d \in LogClients |-> waits[d]]
  BY DEF TablePart, Log!ClientsFit
<1>3. \A d \in LogClients :
        /\ setup'[d] => \E i \in Log!Slots :
                          services'[i] = d /\ \A j \in Log!Slots \ {i} : services'[j] # d
        /\ ~setup'[d] => \A i \in Log!Slots : services'[i] # d
        /\ waits'[d] # nil => Log!Request(waits'[d])
        /\ waits'[d] # nil /\ waits'[d].type = "register" => ~setup'[d]
  BY <1>1, ClientFits
<1> QED
  BY <1>1, <1>2, <1>3, TableNext DEF TablePart

\* An answer that is no successful registration: the client goes on as before.
LEMMA ReplyTable ==
  ASSUME Log!LogOK, TablePart, NEW c \in LogClients, NEW ret, Log!Reply(c, ret),
         waits[c].type # "register" \/ ret # "OK",
         services' = services, slot' \in Log!Slots, from' = nil,
         pc' \in {"recv", "send"}
  PROVE  TablePart'
<1>1. waits = [d \in LogClients |-> waits[d]] /\ setup \in [LogClients -> BOOLEAN]
  BY DEF TablePart, Log!ClientsFit
<1>2. waits' = [d \in LogClients |-> IF d = c THEN nil ELSE waits[d]]
  BY <1>1 DEF Log!Reply
<1>3. setup' = setup
  <2>1. setup' = [setup EXCEPT ![c] = setup[c] \/ (waits[c].type = "register" /\ ret = "OK")]
    BY DEF Log!Reply
  <2>2. (setup[c] \/ (waits[c].type = "register" /\ ret = "OK")) = setup[c]
    BY <1>1
  <2> QED
    BY <1>1, <2>1, <2>2
<1>4. \A d \in LogClients :
        /\ setup'[d] => \E i \in Log!Slots :
                          services'[i] = d /\ \A j \in Log!Slots \ {i} : services'[j] # d
        /\ ~setup'[d] => \A i \in Log!Slots : services'[i] # d
  BY <1>3, ClientFits
<1>5. \A d \in LogClients :
        /\ waits'[d] # nil => Log!Request(waits'[d])
        /\ waits'[d] # nil /\ waits'[d].type = "register" => ~setup'[d]
  BY <1>2, <1>3, ClientFits
<1>6. waits' = [d \in LogClients |-> waits'[d]]
  BY <1>2
<1> QED
  BY <1>1, <1>3, <1>4, <1>5, <1>6, TableNext DEF TablePart

\* A registration: the client gets the first free slot and is set up, or, when
\* there is none, waits until the table is logged.
LEMMA RegisterTable ==
  ASSUME Log!LogOK, TablePart, NEW c \in LogClients, waits[c] # nil,
         Log!handle_register(c, waits[c])
  PROVE  TablePart'
<1>1. waits[c].type = "register"
  BY DEF Log!handle_register
<1>2. waits = [d \in LogClients |-> waits[d]] /\ setup \in [LogClients -> BOOLEAN]
  BY DEF TablePart, Log!ClientsFit
<1>3. services \in [Log!Slots -> LogClients \cup {nil}] /\ nil \notin LogClients
  BY DEF TablePart, Log!LogOK
<1>4. pc = "recv" /\ from = nil
  BY DEF Log!handle_register, Log!Receive, TablePart, Log!ClientsFit
<1>5. CASE Log!Free # {}
  <2> DEFINE s == Log!First(Log!Free)
  <2>1. s \in Log!Slots /\ services[s] = nil
    <3>1. Log!Free \in SUBSET Nat
      BY DEF Log!Free, Log!Slots, Log!LogOK
    <3>2. \E i \in Log!Free : \A j \in Log!Free : i <= j
      BY <1>5, <3>1, NatLeast
    <3>3. s \in Log!Free
      BY <3>2 DEF Log!First
    <3> QED
      BY <3>3 DEF Log!Free
  <2>2. /\ services' = [services EXCEPT ![s] = c] /\ Log!Reply(c, "OK")
        /\ pc' = "send" /\ slot' = slot /\ from' = from
    BY <1>5 DEF Log!handle_register
  <2> HIDE DEF s
  <2>3. services' = [i \in Log!Slots |-> IF i = s THEN c ELSE services[i]]
    BY <1>3, <2>1, <2>2
  <2>4. waits' = [d \in LogClients |-> IF d = c THEN nil ELSE waits[d]]
    BY <1>2, <2>2 DEF Log!Reply
  <2>5. setup' = [d \in LogClients |-> IF d = c THEN TRUE ELSE setup[d]]
    <3>1. setup' = [setup EXCEPT ![c] = TRUE]
      BY <1>1, <2>2 DEF Log!Reply
    <3> QED
      BY <1>2, <3>1
  <2>6. ~setup[c] /\ \A i \in Log!Slots : services[i] # c
    BY <1>1, ClientFits
  <2>7. ASSUME NEW d \in LogClients
        PROVE  /\ setup'[d] => \E i \in Log!Slots :
                                 services'[i] = d /\ \A j \in Log!Slots \ {i} : services'[j] # d
               /\ ~setup'[d] => \A i \in Log!Slots : services'[i] # d
    <3>1. CASE d = c
      <4>1. services'[s] = d /\ \A j \in Log!Slots \ {s} : services'[j] # d
        BY <2>1, <2>3, <2>6, <3>1
      <4> QED
        BY <2>1, <2>5, <3>1, <4>1
    <3>2. CASE d # c
      <4>1. \A i \in Log!Slots : services'[i] = d <=> services[i] = d
        BY <1>3, <2>1, <2>3, <3>2
      <4>2. setup'[d] = setup[d]
        BY <2>5, <3>2
      <4> QED
        BY <4>1, <4>2, ClientFits
    <3> QED
      BY <3>1, <3>2
  <2>8. \A d \in LogClients :
          /\ waits'[d] # nil => Log!Request(waits'[d])
          /\ waits'[d] # nil /\ waits'[d].type = "register" => ~setup'[d]
    BY <2>4, <2>5, ClientFits
  <2>9. services' \in [Log!Slots -> LogClients \cup {nil}] /\ setup' \in [LogClients -> BOOLEAN]
    BY <1>2, <1>3, <2>3, <2>5
  <2>10. waits' = [d \in LogClients |-> waits'[d]]
    BY <2>4
  <2> QED
    BY <1>4, <2>2, <2>7, <2>8, <2>9, <2>10, TableNext DEF TablePart
<1>6. CASE Log!Free = {}
  <2>1. /\ pc' = "slots" /\ slot' = 0 /\ from' = c /\ services' = services
        /\ setup' = setup /\ waits' = waits
    BY <1>6 DEF Log!handle_register, Log!clients
  <2>2. 0 \in Log!Slots
    BY DEF Log!Slots, Log!LogOK
  <2>3. \A d \in LogClients :
          /\ setup'[d] => \E i \in Log!Slots :
                            services'[i] = d /\ \A j \in Log!Slots \ {i} : services'[j] # d
          /\ ~setup'[d] => \A i \in Log!Slots : services'[i] # d
          /\ waits'[d] # nil => Log!Request(waits'[d])
          /\ waits'[d] # nil /\ waits'[d].type = "register" => ~setup'[d]
    BY <2>1, ClientFits
  <2> QED
    BY <1>1, <1>2, <1>3, <2>1, <2>2, <2>3, TableNext DEF TablePart
<1> QED
  BY <1>5, <1>6

\* Steps that leave the clients alone: the server goes on with whom it serves.
LEMMA TableKept ==
  ASSUME TablePart, services' = services, slot' \in Log!Slots, from' = from, setup' = setup,
         waits' = waits, pc' \in {pc, "exited"} \/ (pc' = "recv" /\ from = nil)
  PROVE  TablePart'
<1>1. \A d \in LogClients :
        /\ setup'[d] => \E i \in Log!Slots :
                          services'[i] = d /\ \A j \in Log!Slots \ {i} : services'[j] # d
        /\ ~setup'[d] => \A i \in Log!Slots : services'[i] # d
        /\ waits'[d] # nil => Log!Request(waits'[d])
        /\ waits'[d] # nil /\ waits'[d].type = "register" => ~setup'[d]
  BY ClientFits
<1>2. /\ waits = [d \in LogClients |-> waits[d]]
      /\ pc = "recv" => from = nil
      /\ pc = "slots" => from \in LogClients /\ waits[from] # nil /\ waits[from].type = "register"
      /\ pc = "send" /\ from # nil => waits[from] # nil /\ waits[from].type = "log"
  BY DEF TablePart, Log!ClientsFit
<1> QED
  BY <1>1, <1>2, TableNext DEF TablePart

\* The table is logged, and then the client is told that it failed.
LEMMA SlotTable ==
  ASSUME Log!LogOK, TablePart, Log!LogSlot
  PROVE  TablePart'
<1>1. /\ slot \in Nat /\ MAX_SERVICES \in Nat \ {0} /\ 0 \in Log!Slots
      /\ slot + 1 < MAX_SERVICES => slot + 1 \in Log!Slots
  BY DEF TablePart, Log!Slots, Log!LogOK
<1>2. pc = "slots" /\ services' = services /\ from \in LogClients
  BY DEF Log!LogSlot, TablePart, Log!ClientsFit
<1>3. CASE slot + 1 < MAX_SERVICES
  <2>1. slot' = slot + 1 /\ pc' = pc /\ from' = from /\ setup' = setup /\ waits' = waits
    BY <1>3 DEF Log!LogSlot, Log!clients
  <2> QED
    BY <1>1, <1>2, <1>3, <2>1, TableKept
<1>4. CASE ~(slot + 1 < MAX_SERVICES)
  <2>1. pc' = "send" /\ slot' = 0 /\ from' = nil /\ Log!Reply(from, "ERR")
    BY <1>4 DEF Log!LogSlot
  <2> QED
    BY <1>1, <1>2, <2>1, ReplyTable
<1> QED
  BY <1>3, <1>4

\* The client's request is answered without a line, or after its line.
LEMMA AnswerTable ==
  ASSUME Log!LogOK, TablePart,
         \/ \E c \in LogClients : waits[c] # nil /\ Log!Refused(c, waits[c])
         \/ Log!Done
  PROVE  TablePart'
<1>0. slot \in Log!Slots /\ from \in LogClients \cup {nil}
      /\ (pc = "recv" => from = nil)
      /\ (pc = "send" /\ from # nil => waits[from].type = "log")
  BY DEF TablePart, Log!ClientsFit
<1>1. CASE \E c \in LogClients : waits[c] # nil /\ Log!Refused(c, waits[c])
  <2>1. PICK c \in LogClients : Log!Refused(c, waits[c])
    BY <1>1
  <2>2. /\ pc = "recv" /\ Log!Reply(c, "ERR") /\ services' = services /\ slot' = slot
        /\ from' = from /\ pc' = pc
    BY <2>1 DEF Log!Refused, Log!Receive, Log!server
  <2> QED
    BY <1>0, <2>2, ReplyTable
<1>2. CASE Log!Done
  <2>1. /\ pc = "send" /\ pc' = "recv" /\ from' = nil /\ services' = services /\ slot' = slot
        /\ IF from # nil THEN Log!Reply(from, reply) ELSE setup' = setup /\ waits' = waits
    BY <1>2 DEF Log!Done, Log!clients
  <2>2. CASE from # nil
    BY <1>0, <2>1, <2>2, ReplyTable
  <2>3. CASE from = nil
    BY <1>0, <2>1, <2>3, TableKept
  <2> QED
    BY <2>2, <2>3
<1> QED
  BY <1>1, <1>2

\* Every step of the log server and its clients keeps the invariant.
LEMMA LogStep ==
  ASSUME Log!LogOK, Log!LogInv, [Log!Next]_(Log!vars)
  PROVE  Log!LogInv'
<1>0. RingPart /\ TablePart
  BY LogParts
<1>1. RingPart' /\ TablePart' => Log!LogInv'
  <2>1. ring' \in RingType => /\ ring'.start \in 0..Size - 1 /\ ring'.end \in 0..Size - 1
                              /\ ring'.buf \in [0..Size - 1 -> 0..Size]
    BY DEF RingType
  <2>2. Exact(ring', logged', printed') <=> Log!RingHolds'
    BY DEF Exact, Log!RingHolds, Log!Held, Log!Number
  <2>3. RingPart' => Log!RingFits'
    BY DEF Log!RingFits, RingType, RingPart
  <2> QED
    BY <2>1, <2>2, <2>3 DEF RingPart, TablePart, Log!LogInv, Log!LinesKept, Log!TypeOK
<1>2. \A l \in LogLens \cup {RegisterLen, FailLen} : l \in Nat \ {0} /\ l < Size
  <2> DEFINE t == MAX_SERVICES * SlotLen
  <2>1. t \in Nat /\ FailLen \in Nat \ {0} /\ FailLen + t < Size /\ Size \in Nat
    BY DEF Log!LogOK
  <2> HIDE DEF t
  <2>2. FailLen < Size
    BY <2>1
  <2> QED
    BY <2>1, <2>2 DEF Log!LogOK
<1>3. ASSUME NEW c \in LogClients, waits[c] # nil, Log!handle_register(c, waits[c])
      PROVE  RingPart' /\ TablePart'
  <2>1. pc = "recv" /\ printed' = printed
    BY <1>3 DEF Log!handle_register, Log!Receive
  <2>2. \/ Log!AddLine(RegisterLen) /\ pc' = "send"
        \/ Log!AddLine(FailLen) /\ pc' = "slots" /\ slot' = 0
    BY <1>3 DEF Log!handle_register
  <2> QED
    BY <1>0, <1>2, <1>3, <2>1, <2>2, EmptyTakes, RegisterTable
<1>4. ASSUME NEW c \in LogClients, waits[c] # nil, Log!handle_log(c, waits[c])
      PROVE  RingPart' /\ TablePart'
  <2>1. /\ pc = "recv" /\ printed' = printed /\ pc' = "send" /\ Log!AddLine(waits[c].len)
        /\ waits[c].type = "log"
    BY <1>4 DEF Log!handle_log, Log!Receive
  <2>2. waits[c].len \in LogLens
    BY <1>0, <1>4, <2>1, ClientFits DEF Log!Request
  <2> QED
    BY <1>0, <1>2, <1>4, <2>1, <2>2, EmptyTakes, LogTable
<1>5. ASSUME (\E c \in LogClients : waits[c] # nil /\ Log!Refused(c, waits[c])) \/ Log!Done
      PROVE  RingPart' /\ TablePart'
  <2>1. /\ ring' = ring /\ logged' = logged /\ printed' = printed
        /\ \/ pc' = pc /\ slot' = slot
           \/ pc' = "recv" /\ ring.start = ring.end
    BY <1>5 DEF Log!Refused, Log!Done, Log!server
  <2>2. pc = "recv" => ring.start = ring.end
    BY <1>0 DEF RingPart
  <2> QED
    BY <1>0, <1>5, <2>1, <2>2, RingKept, AnswerTable
<1>6. ASSUME Log!LogSlot PROVE RingPart' /\ TablePart'
  BY <1>0, <1>6, SlotRing, SlotTable
<1>7. ASSUME Log!send_logs PROVE RingPart' /\ TablePart'
  <2>1. /\ services' = services /\ slot' = slot /\ from' = from /\ setup' = setup
        /\ waits' = waits /\ pc' = pc /\ slot \in Log!Slots
    BY <1>0, <1>7 DEF Log!send_logs, Log!clients, TablePart
  <2> QED
    BY <1>0, <1>7, <2>1, SendRing, TableKept
<1>8. ASSUME Log!SendFails \/ UNCHANGED Log!vars PROVE RingPart' /\ TablePart'
  <2>1. /\ services' = services /\ slot' = slot /\ from' = from /\ setup' = setup
        /\ waits' = waits /\ pc' \in {pc, "exited"} /\ slot \in Log!Slots
        /\ ring' = ring /\ logged' = logged /\ printed' = printed
    BY <1>0, <1>8 DEF Log!SendFails, Log!vars, Log!server, Log!clients, TablePart
  <2>2. pc = "recv" => ring.start = ring.end
    BY <1>0 DEF RingPart
  <2> QED
    BY <1>0, <2>1, <2>2, RingKept, TableKept
<1>9. ASSUME NEW c \in LogClients,
             \/ Log!log_init(c)
             \/ \E len \in LogLens, known \in BOOLEAN : Log!log(c, len, known)
      PROVE  RingPart' /\ TablePart'
  <2>1. ring' = ring /\ logged' = logged /\ printed' = printed /\ pc' = pc /\ slot' = slot
    BY <1>9 DEF Log!log_init, Log!log, Log!server
  <2>2. pc = "recv" => ring.start = ring.end
    BY <1>0 DEF RingPart
  <2> QED
    BY <1>0, <1>9, <2>1, <2>2, RingKept, AskTable
<1>10. CASE Log!ServerNext
  <2>1. \/ \E c \in LogClients : waits[c] # nil /\ Log!handle_register(c, waits[c])
        \/ \E c \in LogClients : waits[c] # nil /\ Log!Refused(c, waits[c])
        \/ \E c \in LogClients : waits[c] # nil /\ Log!handle_log(c, waits[c])
        \/ Log!LogSlot \/ Log!send_logs \/ Log!Done
    BY <1>10 DEF Log!ServerNext
  <2> QED
    BY <1>1, <1>3, <1>4, <1>5, <1>6, <1>7, <2>1
<1>11. CASE Log!ClientNext
  BY <1>1, <1>9, <1>11 DEF Log!ClientNext
<1> QED
  BY <1>1, <1>8, <1>10, <1>11 DEF Log!Next

\* The log server's first line is in the buffer when it starts.
LEMMA LogStart ==
  ASSUME Log!LogOK, Log!Init
  PROVE  Log!LogInv
<1> DEFINE r0 == [buf |-> [i \in 0..Size - 1 |-> 0], start |-> 0, end |-> 0]
<1>1. Size \in Nat /\ Size > 2
  BY SizeOK
<1>2. r0 \in RingType /\ r0.start = 0 /\ r0.end = 0
  <2>1. 0 \in 0..Size - 1 /\ 0 \in 0..Size
    BY <1>1
  <2> QED
    BY <2>1 DEF RingType
<1>3. ring = Log!add_log(r0, 0, 1) /\ logged = 1 /\ printed = 0 /\ pc = "send"
  BY DEF Log!Init
<1> HIDE DEF r0
<1>4. Log!Held(r0) = 0
  BY <1>1, <1>2, HeldIs
<1>5. Exact(r0, 0, 0)
  BY <1>1, <1>4 DEF Exact
<1>6. 0 \in 0..Size /\ 1 \in 0..Size /\ 1 \in Nat \ {0} /\ 0 + 1 < Size /\ (0 + 1) % (Size + 1) = 1
  BY <1>1
<1>7. ring \in RingType /\ Exact(ring, logged, printed)
  BY <1>2, <1>3, <1>4, <1>5, <1>6, LineAdded
<1>8. RingPart
  BY <1>3, <1>6, <1>7 DEF RingPart
<1>9. TablePart
  <2>1. /\ services = [i \in Log!Slots |-> nil] /\ slot = 0 /\ from = nil
        /\ setup = [c \in LogClients |-> FALSE] /\ waits = [c \in LogClients |-> nil]
    BY DEF Log!Init
  <2>2. 0 \in Log!Slots /\ nil \notin LogClients
    BY DEF Log!Slots, Log!LogOK
  <2>3. waits = [c \in LogClients |-> waits[c]]
    BY <2>1
  <2> QED
    BY <1>3, <2>1, <2>2, <2>3 DEF TablePart, Log!SetUpIsKnown, Log!ClientsFit
<1> QED
  BY <1>8, <1>9, LogParts

\* The log server: whatever requests come and however the buffer wraps around,
\* what was logged is printed or still in the buffer, whole and in order, and
\* who may log is known.
THEOREM LinesStayKept == Spec => []LinesKept
<1> DEFINE Inv == which = "log" => Log!LogInv
<1>1. Log!LogOK
  BY ConstantsOK
<1>2. Init => Inv
  BY <1>1, LogStart DEF Init
<1>3. Inv /\ [Next]_vars => Inv'
  <2> SUFFICES ASSUME Inv, [Next]_vars, which' = "log" PROVE Log!LogInv'
    OBVIOUS
  <2>1. which = "log"
    BY DEF Next, vars
  <2>2. [Log!Next]_(Log!vars)
    BY <2>1 DEF Next, vars, log, Log!vars, Log!server, Log!clients
  <2> QED
    BY <1>1, <2>1, <2>2, LogStep
<1>4. Inv => LinesKept
  BY DEF LinesKept, Log!LogInv
<1> QED
  BY <1>2, <1>3, <1>4, PTL DEF Spec

-----------------------------------------------------------------------------
(* The address space of a process.                                         *)

\* The lists divide the address space, and free level 1 spans are tables.
Sound(a) == a \in Spans!AsType /\ Spans!Divides(a) /\ Spans!WholeTables(a)

\* What a span is.
LEMMA SpanIs ==
  ASSUME NEW s \in Spans!SpanType
  PROVE  /\ s.va \in Nat /\ s.len \in Nat \ {0} /\ s = Spans!Span(s.va, s.len)
         /\ Spans!PagesOf(s) = s.va .. ((s.va + s.len) - 1)
         /\ s.va \in Spans!PagesOf(s)
<1>1. s.va \in Nat /\ s.len \in Nat \ {0} /\ s = Spans!Span(s.va, s.len)
  BY DEF Spans!SpanType, Spans!Span
<1>2. Spans!PagesOf(s) = s.va .. ((s.va + s.len) - 1)
  BY DEF Spans!PagesOf, Spans!End
<1> QED
  BY <1>1, <1>2

\* The searches end at a span of the list.
LEMMA BestIn ==
  ASSUME NEW ss \in SUBSET Spans!SpanType, ss # {}
  PROVE  Spans!Best(ss) \in ss
<1> DEFINE lens == {s.len : s \in ss}
<1>1. \A s \in ss : s.va \in Nat /\ s.len \in Nat
  BY SpanIs
<1>2. PICK m \in lens : \A j \in lens : m <= j
  <2>1. lens \in SUBSET Nat /\ lens # {}
    BY <1>1
  <2> HIDE DEF lens
  <2> QED
    BY <2>1, NatLeast
<1> DEFINE firsts == {s \in ss : s.len = m}
           vas == {s.va : s \in firsts}
<1>3. PICK v \in vas : \A j \in vas : v <= j
  <2>1. vas \in SUBSET Nat /\ vas # {}
    BY <1>1, <1>2
  <2> HIDE DEF vas
  <2> QED
    BY <2>1, NatLeast
<1>4. PICK s \in firsts : s.va = v
  BY <1>3
<1>5. \A t \in ss : s.len < t.len \/ (s.len = t.len /\ s.va <= t.va)
  <2> TAKE t \in ss
  <2>1. s.len = m /\ m <= t.len /\ m \in Nat /\ t.len \in Nat
    BY <1>1, <1>2, <1>4
  <2>2. t.len = m => v <= t.va
    BY <1>3
  <2> QED
    BY <1>4, <2>1, <2>2
<1> QED
  BY <1>4, <1>5 DEF Spans!Best

\* A span is divided into its head and its tail.
LEMMA SplitPages ==
  ASSUME NEW s \in Spans!SpanType, NEW len \in Nat \ {0}, len < s.len, NEW h, NEW t,
         h = Spans!Span(s.va, len), t = Spans!TailOf(s, len)
  PROVE  /\ h \in Spans!SpanType /\ t \in Spans!SpanType
         /\ h.len = len /\ t.len = s.len - len
         /\ Spans!PagesOf(h) \cup Spans!PagesOf(t) = Spans!PagesOf(s)
         /\ Spans!PagesOf(h) \cap Spans!PagesOf(t) = {}
<1>1. s.va \in Nat /\ s.len \in Nat \ {0} /\ Spans!PagesOf(s) = s.va .. ((s.va + s.len) - 1)
  BY SpanIs
<1>2. h.va = s.va /\ h.len = len /\ h \in Spans!SpanType
  BY <1>1 DEF Spans!Span, Spans!SpanType
<1>3. t.va = s.va + len /\ t.len = s.len - len /\ t \in Spans!SpanType
  BY <1>1 DEF Spans!Span, Spans!SpanType, Spans!TailOf
<1>4. Spans!PagesOf(h) = s.va .. ((s.va + len) - 1)
  BY <1>2, SpanIs
<1>5. Spans!PagesOf(t) = (s.va + len) .. ((s.va + s.len) - 1)
  <2>1. Spans!PagesOf(t) = t.va .. ((t.va + t.len) - 1)
    BY <1>3, SpanIs
  <2>2. t.va + t.len = s.va + s.len
    BY <1>1, <1>3
  <2> QED
    BY <1>3, <2>1, <2>2
<1> QED
  BY <1>1, <1>2, <1>3, <1>4, <1>5

\* A cover stays one when a span of it is divided ...
LEMMA CoverSplit ==
  ASSUME NEW ss, NEW region, NEW s \in ss, NEW h, NEW t, Spans!Covers(ss, region),
         Spans!PagesOf(h) \cup Spans!PagesOf(t) = Spans!PagesOf(s),
         Spans!PagesOf(h) \cap Spans!PagesOf(t) = {}
  PROVE  Spans!Covers((ss \ {s}) \cup {h, t}, region)
<1> DEFINE new == (ss \ {s}) \cup {h, t}
<1>1. \A u \in ss \ {s} : Spans!PagesOf(u) \cap Spans!PagesOf(s) = {}
  BY DEF Spans!Covers, Spans!Disjoint
<1>2. \A u \in ss \ {s} :
        Spans!PagesOf(u) \cap Spans!PagesOf(h) = {} /\ Spans!PagesOf(u) \cap Spans!PagesOf(t) = {}
  BY <1>1
<1>3. ASSUME NEW u \in new, NEW w \in new, u # w
      PROVE  Spans!PagesOf(u) \cap Spans!PagesOf(w) = {}
  <2>1. CASE u \in ss \ {s} /\ w \in ss \ {s}
    BY <1>3, <2>1 DEF Spans!Covers, Spans!Disjoint
  <2>2. CASE u \in ss \ {s} /\ w \in {h, t}
    BY <1>2, <2>2
  <2>3. CASE u \in {h, t} /\ w \in ss \ {s}
    BY <1>2, <2>3
  <2>4. CASE u \in {h, t} /\ w \in {h, t}
    BY <1>3, <2>4
  <2> QED
    BY <2>1, <2>2, <2>3, <2>4
<1>4. UNION {Spans!PagesOf(u) : u \in new} = UNION {Spans!PagesOf(u) : u \in ss}
  OBVIOUS
<1> QED
  BY <1>3, <1>4 DEF Spans!Covers, Spans!Disjoint

\* ... and when a span is added that is apart from it.
LEMMA CoverAdd ==
  ASSUME NEW ss, NEW region, NEW s, Spans!Covers(ss, region), Spans!PagesOf(s) \cap region = {}
  PROVE  Spans!Covers(ss \cup {s}, region \cup Spans!PagesOf(s))
<1>1. \A u \in ss : Spans!PagesOf(u) \subseteq region
  BY DEF Spans!Covers
<1>2. \A u \in ss : Spans!PagesOf(u) \cap Spans!PagesOf(s) = {}
  BY <1>1
<1>3. \A u, w \in ss \cup {s} : u # w => Spans!PagesOf(u) \cap Spans!PagesOf(w) = {}
  BY <1>2 DEF Spans!Covers, Spans!Disjoint
<1>4. UNION {Spans!PagesOf(u) : u \in ss \cup {s}} = region \cup Spans!PagesOf(s)
  BY DEF Spans!Covers
<1> QED
  BY <1>3, <1>4 DEF Spans!Covers, Spans!Disjoint

\* What has a page of a span of a cover is that span.
LEMMA CoverOne ==
  ASSUME NEW ss, NEW region, NEW s \in ss, NEW u \in ss, NEW p, Spans!Covers(ss, region),
         p \in Spans!PagesOf(s), p \in Spans!PagesOf(u)
  PROVE  s = u
BY DEF Spans!Covers, Spans!Disjoint

\* The level 1 table of a frame is as long as it needs, in whole tables, and
\* no longer than the free tables it is taken from.
LEMMA TableAlignIs ==
  ASSUME Spans!SpansOK, NEW len \in Nat \ {0}, NEW k \in Nat, len < k * Table
  PROVE  /\ Spans!TableAlign(len) \in Nat \ {0} /\ len <= Spans!TableAlign(len)
         /\ \E j \in 0..k : Spans!TableAlign(len) = j * Table
<1> DEFINE d == len + (Table - 1)
           j == d \div Table
<1>1. Table \in Nat \ {0} /\ d \in Nat
  BY DEF Spans!SpansOK
<1>2. Spans!TableAlign(len) = j * Table
  BY DEF Spans!TableAlign
<1>3. d + 1 = len + Table
  BY <1>1
<1> HIDE DEF d
<1>4. j \in Nat /\ j * Table <= d
  BY <1>1, Rounded
<1>5. d < (j * Table) + Table
  BY <1>1
<1> HIDE DEF j
<1> DEFINE n == j * Table
<1>6. n \in Nat /\ len <= n /\ n < len + Table
  <2>1. n \in Nat /\ n <= d /\ d < n + Table
    BY <1>1, <1>4, <1>5
  <2> HIDE DEF n
  <2> QED
    BY <1>1, <1>3, <2>1
<1>7. j <= k
  <2> SUFFICES ASSUME k + 1 <= j PROVE FALSE
    BY <1>4
  <2>1. (k + 1) * Table <= n
    BY <1>1, <1>4, TimesKeeps
  <2>2. (k + 1) * Table = (k * Table) + Table
    BY <1>1
  <2>3. k * Table \in Nat
    BY <1>1
  <2> QED
    BY <1>1, <1>6, <2>1, <2>2, <2>3
<1> QED
  BY <1>2, <1>4, <1>6, <1>7

\* A span of len pages was taken for a mapping.
Taken(a, r, len) ==
  /\ r.ok /\ Sound(r.a)
  /\ \E m \in Spans!SpanType : /\ r.got = {m} /\ m.len = len /\ m \notin a.mapped
                               /\ r.a.mapped = a.mapped \cup {m}

\* ... out of the free span s, at the cost of an object for the rest of it.
TakenFrom(a, s, len, r) ==
  /\ Taken(a, r, len) /\ r.empty = FALSE /\ r.a.l1_spans = a.l1_spans
  /\ len = s.len => r.a.spans = a.spans
  /\ len # s.len => r.a.spans = a.spans - 1 /\ r.a.free # {}

\* split_span and take_add_span leave the lists sound and take at most one
\* object, for the rest of the span, which is then free.
LEMMA TakeSpanProps ==
  ASSUME NEW a, Sound(a), NEW s \in a.free, NEW len \in Nat \ {0}, len <= s.len,
         a.spans >= 1
  PROVE  TakenFrom(a, s, len, Spans!TakeSpan(a, s, len))
<1> DEFINE r == Spans!TakeSpan(a, s, len)
<1>1. /\ a \in Spans!AsType /\ s \in Spans!SpanType /\ a.free \in SUBSET Spans!SpanType
      /\ a.mapped \in SUBSET Spans!SpanType /\ a.spans \in Nat
  BY DEF Sound, Spans!AsType
<1>2. /\ a.free \cap a.mapped = {} /\ s \notin a.mapped
      /\ Spans!Covers(a.free \cup a.mapped, UNION {Spans!PagesOf(l) : l \in a.l1_mapped})
  BY DEF Sound, Spans!Divides
<1> DEFINE region == UNION {Spans!PagesOf(l) : l \in a.l1_mapped}
<1>3. CASE len = s.len
  <2> DEFINE b == [a EXCEPT !.free = @ \ {s}, !.mapped = @ \cup {s}]
  <2>1. r = [a |-> b, ok |-> TRUE, got |-> {s}, empty |-> FALSE]
    BY <1>1, <1>3, SpanIs DEF Spans!TakeSpan, Spans!Exact, Spans!Got
  <2>2. /\ b \in Spans!AsType /\ b.free = a.free \ {s} /\ b.mapped = a.mapped \cup {s}
        /\ b.l1_free = a.l1_free /\ b.l1_mapped = a.l1_mapped
        /\ b.spans = a.spans /\ b.l1_spans = a.l1_spans
    BY <1>1 DEF Spans!AsType
  <2> HIDE DEF b
  <2>3. b.free \cup b.mapped = a.free \cup a.mapped /\ b.free \cap b.mapped = {}
    BY <1>2, <2>2
  <2>4. Sound(b)
    BY <2>2, <2>3 DEF Sound, Spans!Divides, Spans!WholeTables
  <2> QED
    BY <1>1, <1>2, <1>3, <2>1, <2>2, <2>4 DEF Taken, TakenFrom
<1>4. CASE len < s.len
  <2> DEFINE h == Spans!Span(s.va, len)
             t == Spans!TailOf(s, len)
             b == [a EXCEPT !.free = (@ \ {s}) \cup {t}, !.mapped = @ \cup {h}, !.spans = @ - 1]
  <2>1. r = [a |-> b, ok |-> TRUE, got |-> {h}, empty |-> FALSE]
    <3>1. a.spans # 0 /\ len # s.len
      BY <1>1, <1>4, SpanIs
    <3> QED
      BY <1>1, <3>1 DEF Spans!TakeSpan, Spans!Exact, Spans!Got, Spans!AsType
  <2>2. /\ h \in Spans!SpanType /\ t \in Spans!SpanType /\ h.len = len
        /\ Spans!PagesOf(h) \cup Spans!PagesOf(t) = Spans!PagesOf(s)
        /\ Spans!PagesOf(h) \cap Spans!PagesOf(t) = {}
    BY <1>1, <1>4, SplitPages
  <2> HIDE DEF h, t
  <2>3. a.spans - 1 \in Nat
    BY <1>1, <1>4
  <2>4. /\ b \in Spans!AsType /\ b.free = (a.free \ {s}) \cup {t} /\ b.mapped = a.mapped \cup {h}
        /\ b.l1_free = a.l1_free /\ b.l1_mapped = a.l1_mapped
        /\ b.spans = a.spans - 1 /\ b.l1_spans = a.l1_spans
    BY <1>1, <2>2, <2>3 DEF Spans!AsType
  <2> HIDE DEF b
  <2>5. PICK p \in Spans!PagesOf(h) : TRUE
    BY <2>2, SpanIs
  <2>6. PICK q \in Spans!PagesOf(t) : TRUE
    BY <2>2, SpanIs
  <2>7. h \notin a.mapped /\ t \notin a.mapped /\ h # t /\ h \notin a.free \ {s}
    <3> DEFINE all == a.free \cup a.mapped
    <3>1. p \in Spans!PagesOf(s) /\ q \in Spans!PagesOf(s) /\ s \in all
      BY <2>2, <2>5, <2>6
    <3>2. \A u \in all : (u = h \/ u = t) => u = s
      <4> SUFFICES ASSUME NEW u \in all, u = h \/ u = t PROVE u = s
        OBVIOUS
      <4>1. p \in Spans!PagesOf(u) \/ q \in Spans!PagesOf(u)
        BY <2>5, <2>6
      <4> HIDE DEF all, region
      <4>2. Spans!Covers(all, region)
        BY <1>2 DEF all, region
      <4> QED
        BY <3>1, <4>1, <4>2, CoverOne
    <3>3. h # t
      BY <2>2, <2>5
    <3> QED
      BY <1>2, <3>2, <3>3
  <2>8. b.free \cap b.mapped = {}
    BY <1>2, <2>4, <2>7
  <2>9. Spans!Covers(b.free \cup b.mapped, region)
    <3>1. b.free \cup b.mapped = ((a.free \cup a.mapped) \ {s}) \cup {h, t}
      BY <1>2, <2>4
    <3> DEFINE all == a.free \cup a.mapped
    <3>2. s \in all /\ Spans!Covers(all, region)
      BY <1>2
    <3> HIDE DEF all, region
    <3>3. Spans!Covers((all \ {s}) \cup {h, t}, region)
      BY <2>2, <3>2, CoverSplit
    <3> QED
      BY <3>1, <3>3 DEF all
  <2>10. Sound(b)
    BY <2>4, <2>8, <2>9 DEF Sound, Spans!Divides, Spans!WholeTables
  <2>11. Taken(a, r, len)
    BY <2>1, <2>2, <2>4, <2>7, <2>10 DEF Taken
  <2>12. b.free # {} /\ len # s.len
    BY <1>1, <1>4, <2>4, SpanIs
  <2> QED
    BY <2>1, <2>4, <2>11, <2>12 DEF TakenFrom
<1>5. len = s.len \/ len < s.len
  <2>1. s.len \in Nat
    BY <1>1, SpanIs
  <2> QED
    BY <2>1
<1> QED
  BY <1>3, <1>4, <1>5

\* What the list fs keeps of its span l when the first n pages are taken.
Left(fs, l, n) == (fs \ {l}) \cup (IF n < l.len THEN {Spans!TailOf(l, n)} ELSE {})

\* Two lists of spans divide pages between them.
Share(ms, fs, region) ==
  /\ ms \in SUBSET Spans!SpanType /\ fs \in SUBSET Spans!SpanType
  /\ ms \cap fs = {} /\ Spans!Covers(ms \cup fs, region)

\* A cover of two lists of which one takes s from l, which is in the other.
LEMMA Moved ==
  ASSUME NEW ms, NEW fs, NEW region, Share(ms, fs, region), NEW l \in fs,
         NEW n \in Nat \ {0}, n <= l.len, NEW s, s = Spans!Span(l.va, n)
  PROVE  /\ Share(ms \cup {s}, Left(fs, l, n), region)
         /\ s \in Spans!SpanType /\ s.len = n
         /\ \A m \in ms : Spans!PagesOf(m) \cap Spans!PagesOf(s) = {}
<1>1. l \in Spans!SpanType /\ l.len \in Nat \ {0} /\ l = Spans!Span(l.va, l.len) /\ l.va \in Nat
  BY SpanIs DEF Share
<1> DEFINE all == ms \cup fs
           rest == Left(fs, l, n)
<1>2. /\ l \in all /\ l \notin ms /\ Spans!Covers(all, region)
      /\ ms \in SUBSET Spans!SpanType /\ fs \in SUBSET Spans!SpanType /\ ms \cap fs = {}
  BY DEF Share
<1>3. CASE n = l.len
  <2>1. s = l /\ rest = fs \ {l}
    BY <1>1, <1>3 DEF Left
  <2>2. (ms \cup {s}) \cup rest = all
    BY <2>1
  <2>3. \A m \in ms : Spans!PagesOf(m) \cap Spans!PagesOf(s) = {}
    BY <1>2, <2>1 DEF Spans!Covers, Spans!Disjoint
  <2>4. (ms \cup {s}) \cap rest = {}
    BY <1>2, <2>1
  <2> QED
    BY <1>1, <1>2, <1>3, <2>1, <2>2, <2>3, <2>4 DEF Share
<1>4. CASE n < l.len
  <2> DEFINE t == Spans!TailOf(l, n)
  <2>1. rest = (fs \ {l}) \cup {t}
    BY <1>4 DEF Left
  <2>2. /\ s \in Spans!SpanType /\ t \in Spans!SpanType /\ s.len = n
        /\ Spans!PagesOf(s) \cup Spans!PagesOf(t) = Spans!PagesOf(l)
        /\ Spans!PagesOf(s) \cap Spans!PagesOf(t) = {}
    BY <1>1, <1>4, SplitPages
  <2> HIDE DEF t
  <2>3. (ms \cup {s}) \cup rest = (all \ {l}) \cup {s, t}
    BY <1>2, <2>1
  <2> HIDE DEF all
  <2>4. Spans!Covers((all \ {l}) \cup {s, t}, region)
    BY <1>2, <2>2, CoverSplit
  <2>5. \A m \in all \ {l} : Spans!PagesOf(m) \cap Spans!PagesOf(l) = {}
    BY <1>2 DEF Spans!Covers, Spans!Disjoint
  <2>6. \A m \in all \ {l} : m # s /\ m # t
    <3>1. Spans!PagesOf(s) # {} /\ Spans!PagesOf(t) # {}
      BY <2>2, SpanIs
    <3> QED
      BY <2>2, <2>5, <3>1
  <2>7. s # t
    <3>1. Spans!PagesOf(s) # {}
      BY <2>2, SpanIs
    <3> QED
      BY <2>2, <3>1
  <2>8. (ms \cup {s}) \cap rest = {}
    BY <1>2, <2>1, <2>6, <2>7 DEF all
  <2>9. \A m \in ms : Spans!PagesOf(m) \cap Spans!PagesOf(s) = {}
    BY <1>2, <2>2, <2>5 DEF all
  <2>10. rest \in SUBSET Spans!SpanType
    BY <1>2, <2>1, <2>2
  <2> QED
    BY <1>1, <1>2, <2>2, <2>3, <2>4, <2>8, <2>9, <2>10 DEF Share
<1>5. n = l.len \/ n < l.len
  BY <1>1
<1> QED
  BY <1>3, <1>4, <1>5

\* b is a with a new table of n pages, from the free tables l, for a span of
\* len pages; s is the span it has.
HasTable(a, l, len, n, s, b) ==
  /\ Sound(b) /\ s \in b.free /\ s.len = n /\ n \in Nat /\ len <= n /\ n <= l.len
  /\ \E j \in Nat : n = j * Table
  /\ b.mapped = a.mapped /\ b.spans = a.spans - 1
  /\ b.l1_spans \in {a.l1_spans, a.l1_spans - 1}

\* A new table takes a level 1 object, if tables are left over, and its span
\* an object of the other pool.
LEMMA NewTable ==
  ASSUME Spans!SpansOK, NEW a, Sound(a), NEW l \in a.l1_free, NEW len \in Nat \ {0},
         len < l.len, a.l1_spans >= 1, a.spans >= 1,
         NEW n, n = Spans!TableAlign(len), NEW s, s = Spans!Span(l.va, n), NEW b,
         b = [Spans!TableTaken(a, l, n) EXCEPT !.free = @ \cup {s}, !.spans = @ - 1]
  PROVE  HasTable(a, l, len, n, s, b)
<1>1. /\ a \in Spans!AsType /\ l \in Spans!SpanType
      /\ a.l1_free \in SUBSET Spans!SpanType /\ a.l1_mapped \in SUBSET Spans!SpanType
      /\ a.free \in SUBSET Spans!SpanType /\ a.mapped \in SUBSET Spans!SpanType
      /\ a.spans \in Nat /\ a.l1_spans \in Nat
  BY DEF Sound, Spans!AsType
<1>2. /\ a.l1_mapped \cap a.l1_free = {}
      /\ Spans!Covers(a.l1_mapped \cup a.l1_free, Spans!AllPages)
      /\ a.free \cap a.mapped = {}
      /\ Spans!Covers(a.free \cup a.mapped, UNION {Spans!PagesOf(m) : m \in a.l1_mapped})
  BY DEF Sound, Spans!Divides
<1>3. Table \in Nat /\ Tables \in Nat /\ l.len \in Nat
  BY <1>1, SpanIs DEF Spans!SpansOK
<1>4. PICK k \in 0..Tables : l.len = k * Table
  BY DEF Sound, Spans!WholeTables
<1>5. n \in Nat \ {0} /\ len <= n /\ \E j \in 0..k : n = j * Table
  <2>1. k \in Nat /\ len < k * Table
    BY <1>3, <1>4
  <2> QED
    BY <2>1, TableAlignIs
<1>6. PICK j \in 0..k : n = j * Table
  BY <1>5
<1>7. n <= l.len /\ (k - j) * Table = l.len - n /\ j \in Nat /\ k - j \in 0..Tables
  <2>1. j \in Nat /\ k \in Nat /\ j <= k /\ k - j \in 0..Tables /\ Table \in Nat \ {0}
    BY <1>3, <1>4, <1>6 DEF Spans!SpansOK
  <2>2. j * Table <= k * Table /\ (k - j) * Table = (k * Table) - (j * Table)
    BY <2>1, TimesKeeps
  <2> QED
    BY <1>4, <1>6, <2>1, <2>2
<1> DEFINE rest == Left(a.l1_free, l, n)
           left == IF n < l.len THEN a.l1_spans - 1 ELSE a.l1_spans
<1>8. /\ rest \in SUBSET Spans!SpanType /\ s \in Spans!SpanType /\ s.len = n
      /\ (a.l1_mapped \cup {s}) \cap rest = {}
      /\ Spans!Covers((a.l1_mapped \cup {s}) \cup rest, Spans!AllPages)
      /\ \A m \in a.l1_mapped : Spans!PagesOf(m) \cap Spans!PagesOf(s) = {}
  <2> DEFINE ms == a.l1_mapped
             fs == a.l1_free
             all == Spans!AllPages
  <2>1. Share(ms, fs, all) /\ l \in fs /\ rest = Left(fs, l, n)
    BY <1>1, <1>2 DEF Share
  <2>2. n \in Nat \ {0} /\ n <= l.len
    BY <1>5, <1>7
  <2> HIDE DEF ms, fs, all, rest
  <2>3. /\ Share(ms \cup {s}, rest, all) /\ s \in Spans!SpanType /\ s.len = n
        /\ \A m \in ms : Spans!PagesOf(m) \cap Spans!PagesOf(s) = {}
    BY <2>1, <2>2, Moved
  <2> QED
    BY <2>3 DEF ms, all, Share
<1>9. left \in Nat /\ left \in {a.l1_spans, a.l1_spans - 1} /\ a.spans - 1 \in Nat
  BY <1>1
<1>10. \A m \in rest : \E i \in 0..Tables : m.len = i * Table
  <2>1. \A m \in a.l1_free : \E i \in 0..Tables : m.len = i * Table
    BY DEF Sound, Spans!WholeTables
  <2>2. n < l.len => Spans!TailOf(l, n).len = (k - j) * Table
    BY <1>7 DEF Spans!TailOf, Spans!Span
  <2> QED
    BY <1>7, <2>1, <2>2 DEF Left
<1>11. /\ Spans!TableTaken(a, l, n) =
            [a EXCEPT !.l1_free = rest, !.l1_mapped = @ \cup {s}, !.l1_spans = left]
  BY DEF Spans!TableTaken, Left
<1> HIDE DEF rest, left
<1>12. /\ b \in Spans!AsType /\ b.l1_free = rest /\ b.l1_mapped = a.l1_mapped \cup {s}
       /\ b.l1_spans = left /\ b.free = a.free \cup {s} /\ b.mapped = a.mapped
       /\ b.spans = a.spans - 1
  <2> DEFINE c == [a EXCEPT !.l1_free = rest, !.l1_mapped = @ \cup {s}, !.l1_spans = left]
  <2>1. /\ c \in Spans!AsType /\ c.l1_free = rest /\ c.l1_mapped = a.l1_mapped \cup {s}
        /\ c.l1_spans = left /\ c.free = a.free /\ c.mapped = a.mapped
        /\ c.spans = a.spans
    BY <1>1, <1>8, <1>9 DEF Spans!AsType
  <2>2. b = [c EXCEPT !.free = @ \cup {s}, !.spans = @ - 1]
    BY <1>11
  <2> HIDE DEF c
  <2> DEFINE fs == c.free \cup {s}
             less == c.spans - 1
  <2>3. fs \in SUBSET Spans!SpanType /\ less \in Nat
    BY <1>1, <1>8, <1>9, <2>1
  <2>4. b = [c EXCEPT !.free = fs, !.spans = less]
    BY <2>2
  <2>5. fs = a.free \cup {s} /\ less = a.spans - 1
    BY <2>1
  <2> HIDE DEF fs, less
  <2>6. /\ b \in Spans!AsType /\ b.l1_free = c.l1_free /\ b.l1_mapped = c.l1_mapped
        /\ b.l1_spans = c.l1_spans /\ b.free = fs /\ b.mapped = c.mapped /\ b.spans = less
    BY <2>1, <2>3, <2>4 DEF Spans!AsType
  <2> QED
    BY <2>1, <2>5, <2>6
<1> DEFINE region == UNION {Spans!PagesOf(m) : m \in a.l1_mapped}
<1>13. Spans!PagesOf(s) \cap region = {}
  BY <1>8
<1>14. UNION {Spans!PagesOf(m) : m \in b.l1_mapped} = region \cup Spans!PagesOf(s)
  BY <1>12
<1>15. Spans!Covers(b.free \cup b.mapped, region \cup Spans!PagesOf(s))
  <2> DEFINE all == a.free \cup a.mapped
  <2>1. b.free \cup b.mapped = all \cup {s}
    BY <1>12
  <2>2. Spans!Covers(all, region)
    BY <1>2
  <2> HIDE DEF all, region
  <2>3. Spans!Covers(all \cup {s}, region \cup Spans!PagesOf(s))
    BY <1>13, <2>2, CoverAdd
  <2> QED
    BY <2>1, <2>3
<1>16. s \notin a.mapped
  <2>1. \A m \in a.mapped : Spans!PagesOf(m) \subseteq region
    BY <1>2 DEF Spans!Covers
  <2>2. s.va \in Spans!PagesOf(s)
    BY <1>8, SpanIs
  <2> HIDE DEF region
  <2> QED
    BY <1>13, <2>1, <2>2
<1>17. Spans!Divides(b)
  <2>1. b.l1_mapped \cap b.l1_free = {} /\ Spans!Covers(b.l1_mapped \cup b.l1_free, Spans!AllPages)
    BY <1>8, <1>12
  <2>2. b.free \cap b.mapped = {}
    BY <1>2, <1>12, <1>16
  <2> QED
    BY <1>14, <1>15, <2>1, <2>2 DEF Spans!Divides
<1>18. Sound(b)
  BY <1>10, <1>12, <1>17 DEF Sound, Spans!WholeTables
<1> QED
  BY <1>5, <1>6, <1>7, <1>8, <1>9, <1>12, <1>18 DEF HasTable

\* What a span of len pages costs the pools: one object for the rest of a free
\* span or, where there is none, two and a level 1 object for a table.  A page
\* never leaves the list of free spans empty if it costs something.
Cost(a, b, len) ==
  /\ b.l1_spans \in {a.l1_spans, a.l1_spans - 1}
  /\ b.spans \in {a.spans, a.spans - 1, a.spans - 2}
  /\ b.spans = a.spans - 2 => b.free # {}
  /\ len = 1 /\ b.spans = a.spans - 1 => b.free # {}
  /\ len = 1 /\ a.free # {} => b.spans \in {a.spans, a.spans - 1}

\* What the pools must have for a span of len pages.
Enough(a, len) ==
  a.l1_spans >= 1 /\ (a.spans >= 2 \/ (a.spans = 1 /\ len = 1 /\ a.free # {}))

\* The result r of a search for len pages.
Found(a, len, r) ==
  /\ Sound(r.a) /\ r.empty = FALSE /\ Cost(a, r.a, len)
  /\ r.ok => Taken(a, r, len)
  /\ ~r.ok => r.a = a /\ r.got = {}

\* get_free_span_slot finds a span that is free or leaves everything as it is.
LEMMA GetProps ==
  ASSUME Spans!SpansOK, NEW a, Sound(a), NEW len \in Nat \ {0}, NEW fails \in BOOLEAN,
         Enough(a, len)
  PROVE  Found(a, len, Spans!get_free_span_slot(a, len, fails))
<1> DEFINE r == Spans!get_free_span_slot(a, len, fails)
           fits == {s \in a.free : len <= s.len}
           tables == {l \in a.l1_free : len < l.len}
<1>1. /\ a.free \in SUBSET Spans!SpanType /\ a.l1_free \in SUBSET Spans!SpanType
      /\ a.spans \in Nat /\ a.l1_spans \in Nat
  BY DEF Sound, Spans!AsType
<1>2. len = 1 /\ a.free # {} => fits # {}
  <2>1. \A s \in a.free : s.len \in Nat \ {0}
    BY <1>1, SpanIs
  <2> QED
    BY <2>1
<1>3. CASE fits # {}
  <2> DEFINE s == Spans!Best(fits)
  <2>1. fits \in SUBSET Spans!SpanType
    BY <1>1
  <2>2. s \in fits
    <3> HIDE DEF fits
    <3> QED
      BY <1>3, <2>1, BestIn
  <2>3. s \in a.free /\ len <= s.len /\ r = Spans!TakeSpan(a, s, len)
    BY <1>3, <2>2 DEF Spans!get_free_span_slot
  <2> HIDE DEF s, fits
  <2>4. a.spans >= 1
    BY <1>1 DEF Enough
  <2>5. TakenFrom(a, s, len, r)
    BY <2>3, <2>4, TakeSpanProps
  <2>6. Cost(a, r.a, len)
    BY <1>1, <2>5 DEF Cost, TakenFrom
  <2> QED
    BY <2>5, <2>6 DEF Taken, TakenFrom, Found
<1>4. CASE fits = {} /\ (tables = {} \/ fails)
  <2>1. r = Spans!Failed(a, FALSE)
    BY <1>4 DEF Spans!get_free_span_slot
  <2>2. r.a = a /\ r.got = {} /\ r.empty = FALSE /\ r.ok = FALSE
    BY <2>1 DEF Spans!Failed
  <2>3. Cost(a, a, len)
    BY <1>1 DEF Cost
  <2> QED
    BY <2>2, <2>3 DEF Found
<1>5. CASE fits = {} /\ tables # {} /\ ~fails
  <2> DEFINE l == Spans!Best(tables)
             n == Spans!TableAlign(len)
             s == Spans!Span(l.va, n)
             moved == Spans!TableTaken(a, l, n)
             b == [moved EXCEPT !.free = @ \cup {s}, !.spans = @ - 1]
  <2>1. tables \in SUBSET Spans!SpanType
    BY <1>1
  <2>2. l \in tables
    <3> HIDE DEF tables
    <3> QED
      BY <1>5, <2>1, BestIn
  <2>3. l \in a.l1_free /\ len < l.len /\ r = Spans!TakeTable(a, l, len)
    BY <1>5, <2>2 DEF Spans!get_free_span_slot
  <2>4. a.spans >= 2 /\ ~(len = 1 /\ a.free # {}) /\ a.l1_spans >= 1
    BY <1>1, <1>2, <1>5 DEF Enough
  <2> HIDE DEF l, tables, fits
  <2>5. moved.spans = a.spans
    BY DEF Spans!TableTaken, Sound, Spans!AsType
  <2>6. r = Spans!TakeSpan(b, s, len)
    <3>1. a.l1_spans # 0 /\ moved.spans # 0
      BY <1>1, <2>4, <2>5
    <3> QED
      BY <2>3, <3>1 DEF Spans!TakeTable
  <2> HIDE DEF moved, n, s, b
  <2>7. HasTable(a, l, len, n, s, b)
    <3>1. a.spans >= 1
      BY <1>1, <2>4
    <3>2. n = Spans!TableAlign(len) /\ s = Spans!Span(l.va, n)
      BY DEF n, s
    <3>3. b = [Spans!TableTaken(a, l, n) EXCEPT !.free = @ \cup {s}, !.spans = @ - 1]
      BY DEF b, moved
    <3> QED
      BY <2>3, <2>4, <3>1, <3>2, <3>3, NewTable
  <2>8. b.spans >= 1
    BY <1>1, <2>4, <2>7 DEF HasTable
  <2>9. TakenFrom(b, s, len, r)
    <3>1. Sound(b) /\ s \in b.free /\ len <= s.len
      BY <2>7 DEF HasTable
    <3> QED
      BY <2>6, <2>8, <3>1, TakeSpanProps
  <2>10. len = 1 => len # n
    <3> SUFFICES ASSUME n = 1 PROVE FALSE
      OBVIOUS
    <3>1. PICK j \in Nat : n = j * Table
      BY <2>7 DEF HasTable
    <3>2. Table \in Nat \ {0} /\ Table >= 2
      BY DEF Spans!SpansOK
    <3>3. CASE j = 0
      BY <3>1, <3>2, <3>3
    <3>4. CASE j # 0
      <4>1. 1 * Table <= j * Table
        BY <3>2, <3>4, TimesKeeps
      <4> QED
        BY <3>1, <3>2, <4>1
    <3> QED
      BY <3>3, <3>4
  <2>11. Cost(a, r.a, len)
    <3>1. r.a.l1_spans \in {a.l1_spans, a.l1_spans - 1}
      BY <2>7, <2>9 DEF HasTable, TakenFrom
    <3>2. CASE len = n
      <4>1. r.a.spans = a.spans - 1 /\ len # 1
        BY <2>7, <2>9, <2>10, <3>2 DEF HasTable, TakenFrom
      <4> QED
        BY <1>1, <3>1, <4>1 DEF Cost
    <3>3. CASE len # n
      <4>1. r.a.spans = a.spans - 2 /\ r.a.free # {}
        BY <1>1, <2>7, <2>9, <3>3 DEF HasTable, TakenFrom
      <4> QED
        BY <1>1, <2>4, <3>1, <4>1 DEF Cost
    <3> QED
      BY <3>2, <3>3
  <2>12. Taken(a, r, len)
    BY <2>7, <2>9 DEF Taken, HasTable, TakenFrom
  <2> QED
    BY <2>9, <2>11, <2>12 DEF Taken, TakenFrom, Found
<1> QED
  BY <1>3, <1>4, <1>5

\* Pages were mapped for the pools.
Mapped(a, r) ==
  /\ Sound(r.a) /\ r.empty = FALSE /\ r.got \in SUBSET Spans!SpanType
  /\ r.a.mapped = a.mapped \cup r.got /\ r.got \cap a.mapped = {}

\* The result g of growing a pool.
Grown(a, pool, g) ==
  /\ Mapped(a, g) /\ (~g.ok => g.a = a)
  /\ g.ok => \E b : /\ Cost(a, b, 1) /\ g.a.free = b.free
                    /\ b.spans \in Nat /\ b.l1_spans \in Nat
                    /\ g.a.spans = IF pool = "spans" THEN b.spans + Grow ELSE b.spans
                    /\ g.a.l1_spans = IF pool = "spans" THEN b.l1_spans ELSE b.l1_spans + Grow

\* grow_pool takes its page and adds its objects, or leaves everything.
LEMMA GrowProps ==
  ASSUME Spans!SpansOK, NEW a, Sound(a), Enough(a, 1), NEW pool \in {"spans", "l1_spans"},
         NEW fails \in BOOLEAN
  PROVE  Grown(a, pool, Spans!grow_pool(a, pool, fails))
<1> DEFINE r == Spans!get_free_span_slot(a, 1, FALSE)
           g == Spans!grow_pool(a, pool, fails)
<1>1. /\ Sound(r.a) /\ r.empty = FALSE /\ Cost(a, r.a, 1)
      /\ r.ok => Taken(a, r, 1)
      /\ ~r.ok => r.a = a /\ r.got = {}
  <2>1. 1 \in Nat \ {0} /\ FALSE \in BOOLEAN
    OBVIOUS
  <2>2. Found(a, 1, r)
    BY <2>1, GetProps
  <2> QED
    BY <2>2 DEF Found
<1>2. Grow \in Nat
  BY DEF Spans!SpansOK
<1>3. CASE fails
  <2>1. g = [a |-> a, ok |-> FALSE, got |-> {}, empty |-> FALSE]
    BY <1>3 DEF Spans!grow_pool, Spans!Failed
  <2> QED
    BY <2>1 DEF Mapped, Grown
<1>4. CASE ~fails /\ ~r.ok
  <2>1. g = r
    BY <1>4 DEF Spans!grow_pool
  <2> HIDE DEF r
  <2> QED
    BY <1>1, <1>4, <2>1 DEF Mapped, Grown
<1>5. CASE ~fails /\ r.ok
  <2> DEFINE b == r.a
             c == IF pool = "spans" THEN [b EXCEPT !.spans = @ + Grow]
                  ELSE [b EXCEPT !.l1_spans = @ + Grow]
  <2>1. g = [a |-> c, ok |-> TRUE, got |-> r.got, empty |-> FALSE]
    BY <1>5 DEF Spans!grow_pool, Spans!Got
  <2>2. PICK m \in Spans!SpanType : r.got = {m} /\ m \notin a.mapped /\ b.mapped = a.mapped \cup {m}
    BY <1>1, <1>5 DEF Taken
  <2>3. b \in Spans!AsType /\ Sound(b) /\ b.spans \in Nat /\ b.l1_spans \in Nat /\ Cost(a, b, 1)
    BY <1>1 DEF Sound, Spans!AsType
  <2> HIDE DEF r, b
  <2>4. b.spans + Grow \in Nat /\ b.l1_spans + Grow \in Nat
    BY <1>2, <2>3
  <2>5. /\ c \in Spans!AsType /\ c.free = b.free /\ c.mapped = b.mapped
        /\ c.l1_free = b.l1_free /\ c.l1_mapped = b.l1_mapped
        /\ c.spans = IF pool = "spans" THEN b.spans + Grow ELSE b.spans
        /\ c.l1_spans = IF pool = "spans" THEN b.l1_spans ELSE b.l1_spans + Grow
    <3> DEFINE more == b.spans + Grow
               l1_more == b.l1_spans + Grow
    <3>1. c = IF pool = "spans" THEN [b EXCEPT !.spans = more] ELSE [b EXCEPT !.l1_spans = l1_more]
      OBVIOUS
    <3>2. more \in Nat /\ l1_more \in Nat
      BY <2>4
    <3> HIDE DEF c, more, l1_more
    <3>3. /\ c \in Spans!AsType /\ c.free = b.free /\ c.mapped = b.mapped
          /\ c.l1_free = b.l1_free /\ c.l1_mapped = b.l1_mapped
          /\ c.spans = IF pool = "spans" THEN more ELSE b.spans
          /\ c.l1_spans = IF pool = "spans" THEN b.l1_spans ELSE l1_more
      <4>1. CASE pool = "spans"
        BY <2>3, <3>1, <3>2, <4>1 DEF Spans!AsType
      <4>2. CASE pool # "spans"
        BY <2>3, <3>1, <3>2, <4>2 DEF Spans!AsType
      <4> QED
        BY <4>1, <4>2
    <3> QED
      BY <3>3 DEF more, l1_more
  <2> HIDE DEF c
  <2>6. Sound(c)
    BY <2>3, <2>5 DEF Sound, Spans!Divides, Spans!WholeTables
  <2>7. Mapped(a, g)
    BY <2>1, <2>2, <2>5, <2>6 DEF Mapped
  <2>8. g.a = c /\ g.ok
    BY <2>1
  <2> QED
    BY <2>3, <2>5, <2>7, <2>8 DEF Grown
<1> QED
  BY <1>3, <1>4, <1>5

\* What the spans' pool must have to grow, once the other pool has enough.
CanGrow(a) == a.spans >= 2 \/ (a.spans = 1 /\ a.free # {})

\* The first half of check_pools: the level 1 pool.
LEMMA CheckL1Props ==
  ASSUME Spans!SpansOK, NEW a, Sound(a), Spans!PoolsSuffice(a), NEW fails \in BOOLEAN,
         NEW d, d = Spans!Check(Spans!Got(a, {}), "l1_spans", fails)
  PROVE  /\ Mapped(a, d) /\ (d.ok => d.a.l1_spans >= 3 /\ CanGrow(d.a))
         /\ Spans!PoolsSuffice(d.a)
<1>1. a.spans \in Nat /\ a.l1_spans \in Nat
  BY DEF Sound, Spans!AsType
<1>2. CASE a.l1_spans >= 3
  <2>1. ~(a.l1_spans < 3)
    BY <1>1, <1>2
  <2>2. d = [a |-> a, ok |-> TRUE, got |-> {}, empty |-> FALSE]
    BY <2>1 DEF Spans!Check, Spans!Low, Spans!Got
  <2>3. Mapped(a, d)
    BY <2>2 DEF Mapped
  <2>4. CanGrow(a)
    BY <2>1 DEF CanGrow, Spans!PoolsSuffice
  <2> QED
    BY <1>2, <2>2, <2>3, <2>4
<1>3. CASE a.l1_spans < 3
  <2> DEFINE g == Spans!grow_pool(a, "l1_spans", fails)
  <2>1. d = [a |-> g.a, ok |-> g.ok, got |-> {} \cup g.got, empty |-> g.empty]
    BY <1>3 DEF Spans!Check, Spans!Low, Spans!Got
  <2>2. a.l1_spans >= 1 /\ (a.spans >= 3 \/ (a.spans = 2 /\ a.free # {}))
    BY <1>3 DEF Spans!PoolsSuffice
  <2>3. Enough(a, 1)
    BY <1>1, <2>2 DEF Enough
  <2>4. /\ Mapped(a, g) /\ (~g.ok => g.a = a)
        /\ g.ok => \E b : /\ Cost(a, b, 1) /\ g.a.free = b.free
                          /\ b.spans \in Nat /\ b.l1_spans \in Nat
                          /\ g.a.spans = b.spans /\ g.a.l1_spans = b.l1_spans + Grow
    <3>1. Grown(a, "l1_spans", g)
      BY <2>3, GrowProps
    <3> QED
      BY <3>1 DEF Grown
  <2> HIDE DEF g
  <2>5. Mapped(a, d) /\ d.a = g.a /\ d.ok = g.ok
    BY <2>1, <2>4 DEF Mapped
  <2>6. CASE ~g.ok
    BY <2>4, <2>5, <2>6
  <2>7. CASE g.ok
    <3>1. PICK b : /\ Cost(a, b, 1) /\ g.a.free = b.free
                   /\ b.spans \in Nat /\ b.l1_spans \in Nat
                   /\ g.a.spans = b.spans /\ g.a.l1_spans = b.l1_spans + Grow
      BY <2>4, <2>7
    <3>2. g.a.l1_spans >= 3 /\ ~(g.a.l1_spans < 3) /\ g.a.l1_spans >= 1
      BY <1>1, <2>2, <3>1 DEF Spans!SpansOK
    <3>3. b.spans >= 2 \/ (b.spans = 1 /\ b.free # {})
      <4>1. CASE a.spans >= 3
        BY <1>1, <3>1, <4>1 DEF Cost
      <4>2. CASE a.spans = 2 /\ a.free # {}
        BY <1>1, <3>1, <4>2 DEF Cost
      <4> QED
        BY <2>2, <4>1, <4>2
    <3>4. CanGrow(g.a)
      BY <3>1, <3>3 DEF CanGrow
    <3>5. Spans!PoolsSuffice(g.a)
      BY <3>2, <3>4 DEF CanGrow, Spans!PoolsSuffice
    <3> QED
      BY <2>5, <3>2, <3>4, <3>5
  <2> QED
    BY <2>6, <2>7
<1> QED
  BY <1>1, <1>2, <1>3

\* check_pools: after it, if it succeeds, the pools have what any span costs.
LEMMA CheckProps ==
  ASSUME Spans!SpansOK, NEW a, Sound(a), Spans!PoolsSuffice(a), NEW fail,
         NEW c, c = Spans!check_pools(a, fail)
  PROVE  /\ Mapped(a, c)
         /\ c.ok => c.a.spans >= 4 /\ c.a.l1_spans >= 2
         /\ ~c.ok => Spans!PoolsSuffice(c.a)
<1> DEFINE d == Spans!Check(Spans!Got(a, {}), "l1_spans", fail = "l1_pool")
           f == fail = "span_pool"
<1>1. c = Spans!Check(d, "spans", f)
  BY DEF Spans!check_pools
<1>2. /\ Mapped(a, d) /\ (d.ok => d.a.l1_spans >= 3 /\ CanGrow(d.a))
      /\ Spans!PoolsSuffice(d.a)
  BY CheckL1Props
<1> HIDE DEF d
<1>3. d.a.spans \in Nat /\ d.a.l1_spans \in Nat /\ Sound(d.a)
  BY <1>2 DEF Mapped, Sound, Spans!AsType
<1>4. CASE ~d.ok
  <2>1. c = d
    BY <1>1, <1>4 DEF Spans!Check
  <2> QED
    BY <1>2, <1>4, <2>1
<1>5. CASE d.ok /\ d.a.spans >= 4
  <2>1. ~(d.a.spans < 4)
    BY <1>3, <1>5
  <2>2. c = d
    BY <1>1, <2>1 DEF Spans!Check, Spans!Low
  <2>3. d.a.l1_spans >= 2
    BY <1>2, <1>3, <1>5
  <2> QED
    BY <1>2, <1>5, <2>2, <2>3
<1>6. CASE d.ok /\ d.a.spans < 4
  <2> DEFINE g == Spans!grow_pool(d.a, "spans", f)
  <2>1. c = [a |-> g.a, ok |-> g.ok, got |-> d.got \cup g.got, empty |-> g.empty]
    BY <1>1, <1>6 DEF Spans!Check, Spans!Low
  <2>2. Enough(d.a, 1)
    BY <1>2, <1>3, <1>6 DEF Enough, CanGrow
  <2>3. /\ Mapped(d.a, g) /\ (~g.ok => g.a = d.a)
        /\ g.ok => \E b : /\ Cost(d.a, b, 1) /\ g.a.free = b.free
                          /\ b.spans \in Nat /\ b.l1_spans \in Nat
                          /\ g.a.spans = b.spans + Grow /\ g.a.l1_spans = b.l1_spans
    <3>1. f \in BOOLEAN
      OBVIOUS
    <3>2. Grown(d.a, "spans", g)
      <4> HIDE DEF f
      <4> QED
        BY <1>3, <2>2, <3>1, GrowProps
    <3> QED
      BY <3>2 DEF Grown
  <2> HIDE DEF g, f
  <2>4. Mapped(a, c)
    BY <1>2, <2>1, <2>3 DEF Mapped
  <2>5. c.a = g.a /\ c.ok = g.ok
    BY <2>1
  <2>6. g.ok => g.a.spans >= 4 /\ g.a.l1_spans >= 2
    <3> SUFFICES ASSUME g.ok PROVE g.a.spans >= 4 /\ g.a.l1_spans >= 2
      OBVIOUS
    <3>1. PICK b : /\ Cost(d.a, b, 1) /\ b.spans \in Nat /\ b.l1_spans \in Nat
                   /\ g.a.spans = b.spans + Grow /\ g.a.l1_spans = b.l1_spans
      BY <2>3
    <3>2. b.l1_spans >= 2
      BY <1>2, <1>3, <1>6, <3>1 DEF Cost
    <3>3. b.spans + Grow >= 4
      BY <3>1 DEF Spans!SpansOK
    <3> QED
      BY <3>1, <3>2, <3>3
  <2> QED
    BY <1>2, <2>3, <2>4, <2>5, <2>6
<1> QED
  BY <1>3, <1>4, <1>5, <1>6

\* A span of len pages, apart from what was mapped, is mapped for the program.
NewMapping(len) ==
  \E m \in Spans!SpanType : m.len = len /\ m \notin as.mapped /\ live' = live \cup {m}

\* frame_map_anywhere: every step of it, and every failure, keeps the lists.
LEMMA MapInv ==
  ASSUME Spans!SpansOK, Spans!SpansInv, NEW len \in FrameLens, NEW fail \in Spans!Failures,
         Spans!frame_map_anywhere(len, fail)
  PROVE  Spans!SpansInv' /\ (live' = live \/ NewMapping(len))
<1>1. Sound(as) /\ Spans!PoolsSuffice(as)
  BY DEF Spans!SpansInv, Sound, Spans!Divided
<1> DEFINE c == Spans!check_pools(as, fail)
           f == fail = "table"
           r == IF c.ok THEN Spans!get_free_span_slot(c.a, len, f)
                ELSE Spans!Failed(c.a, c.empty)
<1>2. /\ as' = r.a /\ own' = own \cup c.got /\ short' = (short \/ r.empty)
      /\ live' = IF fail = "map" THEN live ELSE live \cup r.got
      /\ leaked' = IF fail = "map" THEN leaked \cup r.got ELSE leaked
  BY DEF Spans!frame_map_anywhere
<1>3. faults' \in 0..MaxFaults
  BY DEF Spans!frame_map_anywhere, Spans!SpansInv, Spans!SpansOK
<1>4. /\ Mapped(as, c)
      /\ c.ok => c.a.spans >= 4 /\ c.a.l1_spans >= 2
      /\ ~c.ok => Spans!PoolsSuffice(c.a)
  BY <1>1, CheckProps
<1>5. len \in Nat \ {0} /\ f \in BOOLEAN
  <2>1. Table * Tables \in Nat /\ FrameLens \subseteq 1..(Table * Tables)
    BY DEF Spans!SpansOK
  <2> QED
    BY <2>1
<1> HIDE DEF c, f
<1>6. /\ Sound(r.a) /\ Spans!PoolsSuffice(r.a) /\ r.empty = FALSE
      /\ r.a.mapped = c.a.mapped \cup r.got
      /\ r.got = {} \/ \E m \in Spans!SpanType : r.got = {m} /\ m.len = len /\ m \notin c.a.mapped
  <2>1. CASE ~c.ok
    <3>1. r = [a |-> c.a, ok |-> FALSE, got |-> {}, empty |-> c.empty]
      BY <2>1 DEF Spans!Failed
    <3>2. r.a = c.a /\ r.got = {} /\ r.empty = c.empty
      BY <3>1
    <3> HIDE DEF r
    <3> QED
      BY <1>4, <2>1, <3>2 DEF Mapped
  <2>2. CASE c.ok
    <3>1. r = Spans!get_free_span_slot(c.a, len, f)
      BY <2>2
    <3> HIDE DEF r
    <3>2. Sound(c.a) /\ c.a.spans \in Nat /\ c.a.l1_spans \in Nat
      BY <1>4 DEF Mapped, Sound, Spans!AsType
    <3>3. Enough(c.a, len)
      BY <1>4, <2>2, <3>2 DEF Enough
    <3>4. Found(c.a, len, r)
      BY <1>5, <3>1, <3>2, <3>3, GetProps
    <3>5. Spans!PoolsSuffice(r.a)
      <4>1. Cost(c.a, r.a, len) /\ r.a.spans \in Nat /\ r.a.l1_spans \in Nat
        BY <3>4 DEF Found, Sound, Spans!AsType
      <4>2. r.a.l1_spans >= 1 /\ (r.a.spans >= 3 \/ (r.a.spans = 2 /\ r.a.free # {}))
        BY <1>4, <2>2, <3>2, <4>1 DEF Cost
      <4> QED
        BY <4>1, <4>2 DEF Spans!PoolsSuffice
    <3>6. CASE r.ok
      BY <3>4, <3>5, <3>6 DEF Found, Taken
    <3>7. CASE ~r.ok
      BY <3>4, <3>5, <3>7 DEF Found
    <3> QED
      BY <3>6, <3>7
  <2> QED
    BY <2>1, <2>2
<1> HIDE DEF r
<1>7. /\ c.got \in SUBSET Spans!SpanType /\ c.got \cap as.mapped = {}
      /\ c.a.mapped = as.mapped \cup c.got
  BY <1>4 DEF Mapped
<1>8. /\ r.got \in SUBSET Spans!SpanType /\ r.got \cap as.mapped = {} /\ r.got \cap c.got = {}
      /\ r.a.mapped = (as.mapped \cup c.got) \cup r.got
  BY <1>6, <1>7
<1>9. /\ live \in SUBSET Spans!SpanType /\ own \in SUBSET Spans!SpanType
      /\ leaked \in SUBSET Spans!SpanType /\ short = FALSE
      /\ as.mapped = {Spans!image} \cup own \cup live \cup leaked
      /\ Spans!image \notin live /\ live \cap (own \cup leaked) = {}
  BY DEF Spans!SpansInv, Spans!MappedKnown, Spans!LiveApart
<1>10. /\ live' \in SUBSET Spans!SpanType /\ own' \in SUBSET Spans!SpanType
       /\ leaked' \in SUBSET Spans!SpanType
  BY <1>2, <1>7, <1>8, <1>9
<1>11. short' = FALSE
  BY <1>2, <1>6, <1>9
<1>12. as'.mapped = {Spans!image} \cup own' \cup live' \cup leaked'
  <2>1. CASE fail = "map"
    BY <1>2, <1>8, <1>9, <2>1
  <2>2. CASE fail # "map"
    BY <1>2, <1>8, <1>9, <2>2
  <2> QED
    BY <2>1, <2>2
<1>13. Spans!image \notin live' /\ live' \cap (own' \cup leaked') = {}
  <2>1. CASE fail = "map"
    BY <1>2, <1>7, <1>8, <1>9, <2>1
  <2>2. CASE fail # "map"
    BY <1>2, <1>7, <1>8, <1>9, <2>2
  <2> QED
    BY <2>1, <2>2
<1>14. Sound(as') /\ Spans!PoolsSuffice(as')
  BY <1>2, <1>6
<1>15. Spans!SpansInv'
  BY <1>3, <1>10, <1>11, <1>12, <1>13, <1>14
     DEF Sound, Spans!SpansInv, Spans!Divided, Spans!MappedKnown, Spans!LiveApart, Spans!image
<1>16. live' = live \/ NewMapping(len)
  <2>1. CASE fail = "map" \/ r.got = {}
    BY <1>2, <2>1
  <2>2. CASE fail # "map" /\ r.got # {}
    BY <1>2, <1>6, <1>7, <2>2 DEF NewMapping
  <2> QED
    BY <2>1, <2>2
<1> QED
  BY <1>15, <1>16

\* unmap_addr: the span goes back whole, and is no longer the program's.
LEMMA UnmapInv ==
  ASSUME Spans!SpansInv, NEW s \in live, Spans!unmap_addr(s)
  PROVE  Spans!SpansInv'
<1>1. /\ as \in Spans!AsType /\ Spans!Divides(as) /\ Spans!WholeTables(as)
      /\ Spans!PoolsSuffice(as) /\ s \in Spans!SpanType
      /\ as.mapped = {Spans!image} \cup own \cup live \cup leaked
      /\ Spans!image \notin live /\ live \cap (own \cup leaked) = {}
  BY DEF Spans!SpansInv, Spans!Divided, Spans!MappedKnown, Spans!LiveApart
<1>2. /\ as' = [as EXCEPT !.mapped = @ \ {s}, !.free = @ \cup {s}]
      /\ live' = live \ {s} /\ UNCHANGED <<own, leaked, short, faults>>
  BY DEF Spans!unmap_addr, Spans!NotMapped, Spans!GivenBack
<1>3. /\ as' \in Spans!AsType /\ as'.mapped = as.mapped \ {s} /\ as'.free = as.free \cup {s}
      /\ as'.l1_mapped = as.l1_mapped /\ as'.l1_free = as.l1_free
      /\ as'.spans = as.spans /\ as'.l1_spans = as.l1_spans
  BY <1>1, <1>2 DEF Spans!AsType
<1>4. Spans!Divides(as')
  <2>1. as'.free \cup as'.mapped = as.free \cup as.mapped
    BY <1>1, <1>3
  <2>2. as'.free \cap as'.mapped = {}
    BY <1>1, <1>3 DEF Spans!Divides
  <2> QED
    BY <1>1, <1>3, <2>1, <2>2 DEF Spans!Divides
<1>5. Spans!WholeTables(as') /\ Spans!PoolsSuffice(as')
  BY <1>1, <1>3 DEF Spans!WholeTables, Spans!PoolsSuffice
<1>6. /\ as'.mapped = {Spans!image} \cup own' \cup live' \cup leaked'
      /\ Spans!image \notin live' /\ live' \cap (own' \cup leaked') = {}
  BY <1>1, <1>2, <1>3
<1> QED
  BY <1>2, <1>3, <1>4, <1>5, <1>6
     DEF Spans!SpansInv, Spans!Divided, Spans!MappedKnown, Spans!LiveApart, Spans!image

\* addr_init leaves the lists so.
LEMMA SpansStart ==
  ASSUME Spans!SpansOK, Spans!Init
  PROVE  Spans!SpansInv
<1> DEFINE total == Table * Tables
           whole == Spans!Span(0, total)
           table == Spans!Span(0, Table)
           tables == Spans!Span(Table, (Tables - 1) * Table)
           unused == Spans!Span(Image, Table - Image)
<1>1. /\ Table \in Nat \ {0} /\ Tables \in Nat \ {0, 1} /\ Spans0 \in Nat \ {0, 1}
      /\ L1Spans0 \in Nat \ {0} /\ Image \in Nat \ {0} /\ Image < Table /\ MaxFaults \in Nat
  BY DEF Spans!SpansOK
<1>2. /\ total \in Nat /\ Table < total /\ (Tables - 1) * Table = total - Table
  <2>1. 1 \in Nat /\ 1 <= Tables /\ 2 \in Nat /\ 2 <= Tables
    BY <1>1
  <2>2. 2 * Table <= Tables * Table /\ (Tables - 1) * Table = (Tables * Table) - (1 * Table)
    BY <1>1, <2>1, TimesKeeps
  <2>3. Tables * Table = total /\ total \in Nat
    BY <1>1
  <2> QED
    BY <1>1, <2>2, <2>3
<1> HIDE DEF total
<1>3. /\ whole \in Spans!SpanType /\ whole.va = 0 /\ whole.len = total
      /\ table \in Spans!SpanType /\ table.va = 0 /\ table.len = Table
      /\ tables.len = (Tables - 1) * Table
  BY <1>1, <1>2 DEF Spans!SpanType, Spans!Span
<1>4. /\ table = Spans!Span(whole.va, Table) /\ tables = Spans!TailOf(whole, Table)
      /\ Spans!image = Spans!Span(table.va, Image) /\ unused = Spans!TailOf(table, Image)
  <2>1. 0 + Table = Table /\ 0 + Image = Image
    BY <1>1
  <2> QED
    BY <1>2, <1>3, <2>1 DEF Spans!TailOf, Spans!image
<1>5. Spans!PagesOf(whole) = Spans!AllPages
  <2>1. Spans!PagesOf(whole) = 0 .. ((0 + total) - 1)
    BY <1>3, SpanIs
  <2>2. 0 + total = total
    BY <1>2
  <2> QED
    BY <2>1, <2>2 DEF Spans!AllPages, total
<1> HIDE DEF whole, table, tables, unused
<1>6. /\ tables \in Spans!SpanType
      /\ Spans!PagesOf(table) \cup Spans!PagesOf(tables) = Spans!AllPages
      /\ Spans!PagesOf(table) \cap Spans!PagesOf(tables) = {}
  BY <1>1, <1>2, <1>3, <1>4, <1>5, SplitPages
<1>7. /\ Spans!image \in Spans!SpanType /\ unused \in Spans!SpanType
      /\ Spans!PagesOf(Spans!image) \cup Spans!PagesOf(unused) = Spans!PagesOf(table)
      /\ Spans!PagesOf(Spans!image) \cap Spans!PagesOf(unused) = {}
  BY <1>1, <1>3, <1>4, SplitPages
<1>8. /\ as = [l1_mapped |-> {table}, l1_free |-> {tables}, free |-> {unused},
              mapped |-> {Spans!image}, spans |-> Spans0, l1_spans |-> L1Spans0]
      /\ live = {} /\ own = {} /\ leaked = {} /\ short = FALSE /\ faults = 0
  BY DEF Spans!Init, Spans!Start, table, tables, unused
<1>9. Spans!PagesOf(table) # {} /\ Spans!PagesOf(unused) # {}
  BY <1>3, <1>7, SpanIs
<1>10. table # tables /\ unused # Spans!image
  BY <1>6, <1>7, <1>9
<1>11. Spans!Covers({table} \cup {tables}, Spans!AllPages)
  BY <1>6 DEF Spans!Covers, Spans!Disjoint
<1>12. Spans!Covers({unused} \cup {Spans!image}, UNION {Spans!PagesOf(l) : l \in {table}})
  BY <1>7 DEF Spans!Covers, Spans!Disjoint
<1>13. Spans!Divides(as)
  BY <1>8, <1>10, <1>11, <1>12 DEF Spans!Divides
<1>14. as \in Spans!AsType
  BY <1>1, <1>3, <1>6, <1>7, <1>8 DEF Spans!AsType
<1>15. Spans!WholeTables(as)
  <2>1. Tables - 1 \in 0..Tables
    BY <1>1
  <2> QED
    BY <1>3, <1>8, <2>1 DEF Spans!WholeTables
<1>16. Spans!PoolsSuffice(as)
  <2>1. as.free # {} /\ as.spans = Spans0 /\ as.l1_spans = L1Spans0
    BY <1>8
  <2>2. L1Spans0 >= 1 /\ (Spans0 >= 3 \/ Spans0 = 2) /\ Spans0 >= 2
    BY <1>1
  <2> QED
    BY <2>1, <2>2 DEF Spans!PoolsSuffice
<1>17. Spans!MappedKnown /\ Spans!LiveApart /\ faults \in 0..MaxFaults
  BY <1>1, <1>8 DEF Spans!MappedKnown, Spans!LiveApart
<1> QED
  BY <1>8, <1>13, <1>14, <1>15, <1>16, <1>17 DEF Spans!SpansInv, Spans!Divided

\* Every step of the runtime keeps the lists.
LEMMA SpansStep ==
  ASSUME Spans!SpansOK, Spans!SpansInv, [Next]_vars
  PROVE  /\ Spans!SpansInv'
         /\ \/ live' = live
            \/ \E len \in FrameLens : NewMapping(len)
            \/ \E s \in live : live' = live \ {s}
<1>1. CASE Spans!Next
  <2>1. CASE Spans!MapAnywhere
    <3>1. PICK len \in FrameLens, fail \in Spans!Failures : Spans!frame_map_anywhere(len, fail)
      BY <2>1 DEF Spans!MapAnywhere
    <3> QED
      BY <3>1, MapInv
  <2>2. CASE Spans!Unmap
    <3>1. PICK s \in live : Spans!unmap_addr(s)
      BY <2>2 DEF Spans!Unmap
    <3>2. live' = live \ {s}
      BY <3>1 DEF Spans!unmap_addr
    <3> QED
      BY <3>1, <3>2, UnmapInv
  <2> QED
    BY <1>1, <2>1, <2>2 DEF Spans!Next
<1>2. CASE UNCHANGED spans
  BY <1>2 DEF spans, Spans!SpansInv, Spans!Divided, Spans!MappedKnown, Spans!LiveApart,
     Spans!image
<1>3. Spans!Next \/ UNCHANGED spans
  BY DEF Next, vars
<1> QED
  BY <1>1, <1>2, <1>3

\* What the inductive invariant says of what the program sees.
LEMMA SpansInvExact ==
  ASSUME Spans!SpansInv
  PROVE  Spans!SpansExact
<1>1. Spans!TypeOK
  BY DEF Spans!SpansInv, Spans!AsType, Spans!SpanType, Spans!TypeOK, Spans!SpanIn
<1> QED
  BY <1>1 DEF Spans!SpansInv, Spans!SpansExact, Spans!NeverShort

\* addr.c, for every size of the address space and of its image, every length
\* of a frame and every failure: no address is lost or given twice, every
\* mapped span is known, and no pool runs out, not even inside the mapping
\* that grows it.
THEOREM SpansStayExact == Spec => []SpansExact
<1>1. Spans!SpansOK
  BY ConstantsOK
<1>2. Init => Spans!SpansInv
  BY <1>1, SpansStart DEF Init
<1>3. Spans!SpansInv /\ [Next]_vars => Spans!SpansInv'
  BY <1>1, SpansStep
<1>4. Spans!SpansInv => SpansExact
  BY SpansInvExact DEF SpansExact
<1> QED
  BY <1>2, <1>3, <1>4, PTL DEF Spec

\* What a new mapping is to the program: a range of its address space that
\* is apart from all of its mappings.
LEMMA MappingApart ==
  ASSUME Spans!SpansOK, Spans!SpansInv, Spans!SpansInv', NEW len \in FrameLens, NewMapping(len)
  PROVE  Spans!Va!Map
<1>1. PICK m \in Spans!SpanType : m.len = len /\ m \notin as.mapped /\ live' = live \cup {m}
  BY DEF NewMapping
<1>2. live \subseteq as.mapped /\ live' \subseteq as'.mapped /\ live \subseteq Spans!SpanType
  BY DEF Spans!SpansInv, Spans!MappedKnown
<1> DEFINE b == as'
           region == UNION {Spans!PagesOf(l) : l \in b.l1_mapped}
<1>3. /\ Spans!Covers(b.free \cup b.mapped, region)
      /\ Spans!Covers(b.l1_mapped \cup b.l1_free, Spans!AllPages)
  BY DEF Spans!SpansInv, Spans!Divided, Spans!Divides, Spans!AllPages
<1>4. m \in b.mapped /\ \A s \in live : s \in b.mapped /\ s # m
  BY <1>1, <1>2
<1> HIDE DEF b
<1>5. region \subseteq Spans!AllPages
  BY <1>3 DEF Spans!Covers
<1>6. Spans!PagesOf(m) \subseteq Spans!AllPages
  BY <1>3, <1>4, <1>5 DEF Spans!Covers
<1>7. \A s \in live : Spans!PagesOf(s) \cap Spans!PagesOf(m) = {}
  BY <1>3, <1>4 DEF Spans!Covers, Spans!Disjoint
<1>8. m.va \in Spans!AllPages /\ m = [va |-> m.va, len |-> len]
  BY <1>1, <1>6, SpanIs DEF Spans!Span
<1>9. \A s \in Spans!SpanType : Spans!Va!PagesOf(s) = Spans!PagesOf(s)
  <2> TAKE s \in Spans!SpanType
  <2>1. s.va \in Nat /\ s.len \in Nat
    BY SpanIs
  <2>2. s.va + (s.len - 1) = (s.va + s.len) - 1
    BY <2>1
  <2> QED
    BY <2>2 DEF Spans!Va!PagesOf, Spans!PagesOf, Spans!End
<1>10. /\ Spans!Va!PagesOf(m) \subseteq Spans!AllPages
       /\ \A s \in live : Spans!Va!PagesOf(s) \cap Spans!Va!PagesOf(m) = {}
  BY <1>2, <1>6, <1>7, <1>9
<1> QED
  BY <1>1, <1>8, <1>10 DEF Spans!Va!Map

\* addr.c: tables, splits and the pools' own pages are invisible to the program,
\* to which the address space is a plain map (VaSpec).
THEOREM MapsAreKept == Spec => ImplementsVa
<1>1. Spans!SpansOK
  BY ConstantsOK
<1>2. Init => Spans!SpansInv /\ Spans!Va!Init
  BY <1>1, SpansStart DEF Init, Spans!Init, Spans!Va!Init
<1>3. Spans!SpansInv /\ [Next]_vars => Spans!SpansInv'
  BY <1>1, SpansStep
<1>4. Spans!SpansInv /\ Spans!SpansInv' /\ [Next]_vars => [Spans!Va!Map \/ Spans!Va!Unmap]_live
  <2> SUFFICES ASSUME Spans!SpansInv, Spans!SpansInv', [Next]_vars
               PROVE  Spans!Va!Map \/ Spans!Va!Unmap \/ live' = live
    OBVIOUS
  <2>1. CASE \E len \in FrameLens : NewMapping(len)
    BY <1>1, <2>1, MappingApart
  <2>2. CASE \E s \in live : live' = live \ {s}
    BY <2>2 DEF Spans!Va!Unmap
  <2> QED
    BY <1>1, <2>1, <2>2, SpansStep
<1> QED
  BY <1>2, <1>3, <1>4, PTL DEF Spec, ImplementsVa, Spans!ImplementsVa, Spans!Va!Spec
=============================================================================
