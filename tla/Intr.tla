------------------------------- MODULE Intr -------------------------------
(***************************************************************************)
(* Device interrupts: from the interrupt controller through the kernel to  *)
(* the driver that serves them and back (arm/kern/sys.c,                   *)
(* arm/vexpress-a9/cortex_a9_gic_systick.c, and the loops of the drivers). *)
(*                                                                         *)
(* The kernel reads the number of a device interrupt from the controller,  *)
(* masks it and signals an endpoint; it is the driver's intr_ack that ends *)
(* the interrupt.  All interrupts have one priority, so until then the     *)
(* controller delivers no other, the system tick included.                 *)
(*                                                                         *)
(* Interrupts are taken while a process runs, and what schedule() does is  *)
(* part of the matter: a driver gets its signal whatever it is doing, but  *)
(* it is given the cpu only if it sleeps in recv.  The process that has    *)
(* the cpu is a driver or one of the others, which may keep it for ever.   *)
(*                                                                         *)
(* A driver's endpoint is reduced to the signals that wait there (Ipc has  *)
(* the rest).  An interrupt object and its driver are one here: root makes *)
(* one object for each device and hands it to its driver.                  *)
(***************************************************************************)
EXTENDS Integers

CONSTANTS Irqs,     \* the numbers of the devices' interrupts
          Drivers,  \* the drivers
          other,    \* any process that is no driver
          none

ASSUME IntrOK ==
  /\ Irqs \subseteq Nat /\ 0 \notin Irqs
  /\ {none, other} \cap Drivers = {} /\ none # other

VARIABLES line,     \* line[i]: the device asserts interrupt i
          tick,     \* the timer asserts the system tick
          enabled,  \* the interrupts the controller lets through
          active,   \* the interrupt that was delivered and has not ended
          given,    \* user_handler_given
          handler,  \* user_handler_e
          irqn,     \* irqn[d]: the interrupt of the driver's object, 0 if none
          signal,   \* a signal waits for the driver
          at,       \* at[d]: where the driver is in its loop
          up        \* the process that runs; none while schedule() looks for one

hardware == <<line, tick>>
tables == <<given, handler, irqn>>
intr_vars == <<line, tick, enabled, active, given, handler, irqn, signal, at, up>>

Procs == Drivers \cup {other}

IntrTypeOK ==
  /\ line \in [Irqs -> BOOLEAN]
  /\ tick \in BOOLEAN
  /\ enabled \subseteq Irqs
  /\ active \in Irqs \cup {none}
  /\ given \subseteq Irqs
  /\ handler \in [Irqs -> Drivers \cup {none}]
  /\ irqn \in [Drivers -> Irqs \cup {0}]
  /\ signal \in [Drivers -> BOOLEAN]
  /\ at \in [Drivers -> {"start", "recv", "asleep", "mesg", "clear", "ack"}]
  /\ up \in Procs \cup {none}

IntrStart ==
  /\ line = [i \in Irqs |-> FALSE]
  /\ tick = FALSE
  /\ enabled = {}
  /\ active = none
  /\ given = {}
  /\ handler = [i \in Irqs |-> none]
  /\ irqn = [d \in Drivers |-> 0]
  /\ signal = [d \in Drivers |-> FALSE]
  /\ at = [d \in Drivers |-> "start"]
  /\ up = other

-----------------------------------------------------------------------------
\* The devices and the timer, which is set when a process is switched to.
Assert(i) ==
  /\ ~line[i]
  /\ line' = [line EXCEPT ![i] = TRUE]
  /\ UNCHANGED <<tick, enabled, active, tables, signal, at, up>>

TickPasses ==
  /\ ~tick
  /\ up # none
  /\ tick' = TRUE
  /\ UNCHANGED <<line, enabled, active, tables, signal, at, up>>

-----------------------------------------------------------------------------
\* The scheduler.  A driver is ready unless it sleeps in recv or waits for the
\* answer of another process; among the others there is always one (idle).
Ready(p) == p \in Drivers => at[p] \notin {"asleep", "mesg"}

\* next_proc (SchedSpec has the order in which it picks them).
Pick(p) ==
  /\ up = none
  /\ Ready(p)
  /\ up' = p
  /\ UNCHANGED <<hardware, enabled, active, tables, signal, at>>

\* A process yields, or makes a call that ends in schedule(): one of the
\* others, or a driver that starts or serves its clients.
Yield(p) ==
  /\ up = p
  /\ p \in Drivers => at[p] \in {"start", "recv"}
  /\ up' = none
  /\ UNCHANGED <<hardware, enabled, active, tables, signal, at>>

\* A driver asks a server (to log, or for memory), which answers when it runs.
DriverCalls(d) ==
  /\ up = d
  /\ at[d] = "recv"
  /\ at' = [at EXCEPT ![d] = "mesg"]
  /\ up' = none
  /\ UNCHANGED <<hardware, enabled, active, tables, signal>>

ServerAnswers(d) ==
  /\ up = other
  /\ at[d] = "mesg"
  /\ at' = [at EXCEPT ![d] = "recv"]
  /\ UNCHANGED <<hardware, enabled, active, tables, signal, up>>

-----------------------------------------------------------------------------
\* Mutant: the interrupt is enabled when it is claimed.
IntrInitEnables(d, i) ==
  /\ up = other
  /\ irqn[d] = 0
  /\ i \notin given
  /\ given' = given \cup {i}
  /\ irqn' = [irqn EXCEPT ![d] = i]
  /\ enabled' = enabled \cup {i}
  /\ UNCHANGED <<hardware, active, handler, signal, at, up>>

\* sys_intr_init, as root calls it: for a new object.
IntrInit(d, i) ==
  /\ up = other
  /\ irqn[d] = 0
  /\ i \notin given
  /\ given' = given \cup {i}
  /\ irqn' = [irqn EXCEPT ![d] = i]
  /\ UNCHANGED <<hardware, enabled, active, handler, signal, at, up>>

\* The driver connects its interrupt to its endpoint and begins its loop.
IntrConnect(d) ==
  /\ up = d
  /\ at[d] = "start"
  /\ irqn[d] # 0
  /\ handler' = [handler EXCEPT ![irqn[d]] = d]
  /\ enabled' = enabled \cup {irqn[d]}
  /\ at' = [at EXCEPT ![d] = "recv"]
  /\ UNCHANGED <<hardware, active, given, irqn, signal, up>>

\* What the controller hands out next: the lowest number, once the last one
\* has ended.  The tick (29) is below every device.
Delivers(i) ==
  /\ up # none
  /\ active = none
  /\ i \in enabled /\ line[i]
  /\ ~tick
  /\ \A j \in enabled : line[j] => i <= j


\* signal(): a driver that sleeps in recv is readied and switched to, or, if
\* too little of its time slice is left, whatever next_proc picks.
Signalled(d) ==
  /\ signal' = [signal EXCEPT ![d] = TRUE]
  /\ IF at[d] = "asleep"
     THEN at' = [at EXCEPT ![d] = "recv"] /\ up' \in {d, none}
     ELSE UNCHANGED <<at, up>>

\* An interrupt without a handler is masked and never ended.
IrqHandler(i) ==
  /\ Delivers(i)
  /\ active' = i
  /\ enabled' = enabled \ {i}
  /\ IF handler[i] = none THEN UNCHANGED <<signal, at, up>> ELSE Signalled(handler[i])
  /\ UNCHANGED <<hardware, tables>>

\* The system tick is ended by its handler, which calls schedule().
Systick ==
  /\ up # none
  /\ tick
  /\ active = none
  /\ tick' = FALSE
  /\ up' = none
  /\ UNCHANGED <<line, enabled, active, tables, signal, at>>

-----------------------------------------------------------------------------
\* The loop of a driver: it receives the signal, quiets the device, and
\* acknowledges the interrupt.
DriverRecv(d) ==
  /\ up = d
  /\ at[d] = "recv"
  /\ signal[d]
  /\ signal' = [signal EXCEPT ![d] = FALSE]
  /\ at' = [at EXCEPT ![d] = "clear"]
  /\ UNCHANGED <<hardware, enabled, active, tables, up>>

\* Nothing waits for it.
DriverSleeps(d) ==
  /\ up = d
  /\ at[d] = "recv"
  /\ ~signal[d]
  /\ at' = [at EXCEPT ![d] = "asleep"]
  /\ up' = none
  /\ UNCHANGED <<hardware, enabled, active, tables, signal>>

DriverClear(d) ==
  /\ up = d
  /\ at[d] = "clear"
  /\ line' = [line EXCEPT ![irqn[d]] = FALSE]
  /\ at' = [at EXCEPT ![d] = "ack"]
  /\ UNCHANGED <<tick, enabled, active, tables, signal, up>>

\* irq_ack: the end of interrupt i (without effect on another).
Ended(i) == IF active = i THEN none ELSE active


\* Mutant: the next interrupt is enabled.
UnmaskedNext(i) == enabled \cup {i + 1}

\* irq_enable
Unmasked(i) == enabled \cup {i}

IntrAck(d) ==
  /\ up = d
  /\ at[d] = "ack"
  /\ active' = Ended(irqn[d])
  /\ enabled' = Unmasked(irqn[d])
  /\ at' = [at EXCEPT ![d] = "recv"]
  /\ UNCHANGED <<hardware, tables, signal, up>>

Driver(d) == DriverRecv(d) \/ DriverClear(d) \/ IntrAck(d)

IntrNext ==
  \/ \E i \in Irqs : Assert(i) \/ IrqHandler(i)
  \/ TickPasses \/ Systick
  \/ \E p \in Procs : Pick(p) \/ Yield(p)
  \/ \E d \in Drivers :
       \/ DriverCalls(d) \/ ServerAnswers(d)
       \/ IntrConnect(d) \/ DriverSleeps(d) \/ Driver(d)
  \/ \E d \in Drivers, i \in Irqs : IntrInit(d, i)

\* Every ready process gets its turn, if schedule() is called again and again
\* (Sched; the drivers and the servers have one priority).  Nothing makes the
\* running process call it while no tick can arrive.
Turns == []<>(up = none) => \A p \in Procs : []<>(up = p \/ ~Ready(p))

\* A server that runs again and again answers.
Answers == []<>(up = other) => \A d \in Drivers : []<>(at[d] # "mesg")

\* The processor takes interrupts: the tick and, as the next tick is a whole
\* time slice away and cannot always be there first, those of the devices.
\* schedule() finds a process, and a driver that has the cpu again and again
\* goes on serving its interrupt.  No process is assumed to give up the cpu.
IntrSpec ==
  /\ IntrStart /\ [][IntrNext]_intr_vars
  /\ SF_intr_vars(\E i \in Irqs : IrqHandler(i))
  /\ SF_intr_vars(Systick)
  /\ WF_intr_vars(TickPasses)
  /\ WF_intr_vars(\E p \in Procs : Pick(p))
  /\ \A d \in Drivers : SF_intr_vars(Driver(d))
  /\ Turns /\ Answers

-----------------------------------------------------------------------------
\* While an interrupt keeps all others out, its driver has the signal or is on
\* the way to intr_ack, and does not sleep: nothing else would ever end it.
AckOwed ==
  active # none =>
    \E d \in Drivers : /\ irqn[d] = active
                       /\ signal[d] \/ at[d] \in {"clear", "ack"}
                       /\ at[d] # "asleep"

\* Why that is so: only connected interrupts are ever enabled, they stay
\* connected to the driver whose object names them, and no driver sleeps over
\* a signal.
Connected ==
  /\ \A i \in Irqs : handler[i] # none => irqn[handler[i]] = i
  /\ \A i \in enabled : handler[i] # none
  /\ \A d \in Drivers : at[d] # "start" => irqn[d] # 0 /\ handler[irqn[d]] # none
  /\ \A d \in Drivers : at[d] = "asleep" => ~signal[d]

IntrInv == IntrTypeOK /\ Connected /\ AckOwed

\* One process has the cpu from now on.  The tick would take it away, so this
\* is so only while an interrupt is not acknowledged.
KeepsCpu == \E p \in Procs : [](up = p)


=============================================================================
