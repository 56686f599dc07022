----------------------------- MODULE MCProgress -----------------------------
(***************************************************************************)
(* What must happen some time: instances of the components that wait, each *)
(* with the fairness that its module states.  As in MCStorage a run takes  *)
(* the steps of one component, and fairness is asked of that one only.     *)
(***************************************************************************)
EXTENDS Integers, Sequences

CONSTANTS nil, End, p0, p1, p2, A, B, x, c1, c2

VARIABLES
  which,                                                \* the component that runs
  state, up, sc, call, free, bit,                       \* SchedLive
  con, arp, net, blocked, stray, written, taken,        \* Tcp
  bindings, n_binding_id, arp_entries, arp_requests,    \* Net
  waiting, faults, lost, bytes, queued, read,
  rx, tx, rx_buf, tx_buf, vpc, e, interrupt_status, masked, vsignal,  \* VirtioNet
  arrived, got, sent, out, missed,
  alive, timers, last_set, cur, on, irq, slots, asked, signals,  \* Timer
  services, ring, pc, slot, from, reply, queue, setup, waits,    \* Log
  logged, printed

sched == <<state, up, sc, call, free, bit>>
tcp == <<con, arp, net, blocked, stray, written, taken>>
server == <<bindings, n_binding_id, arp_entries, arp_requests, waiting, faults, lost,
            bytes, queued, read>>
driver == <<rx, tx, rx_buf, tx_buf, vpc, e, interrupt_status, masked, vsignal, arrived,
            got, sent, out, missed>>
timer == <<alive, timers, last_set, cur, on, irq, slots, asked, signals>>
log == <<services, ring, pc, slot, from, reply, queue, setup, waits, logged, printed>>
vars == <<which, sched, tcp, server, driver, timer, log>>

-----------------------------------------------------------------------------
Sched == INSTANCE SchedLive WITH
  Procs <- {p0, p1, p2}, Root <- p0, PRIORITY_MAX <- 2, SYSTICK <- 2,
  MIN_TIME_SLICE <- 1, MaxTs <- 7, MinUsed <- 0, MayWake <- {}

\* The two hosts connect and disconnect.
Handshake == INSTANCE Tcp WITH
  Active <- A, Passive <- B, Duplicates <- FALSE, WriteLens <- {1}, ReadLens <- {1},
  MaxBytes <- [h \in {A, B} |-> 0], MaxQueue <- 6,
  waiting <- blocked, sent <- written, got <- taken

\* One of them sends a byte.
Stream == INSTANCE Tcp WITH
  Active <- A, Passive <- B, Duplicates <- FALSE, WriteLens <- {1}, ReadLens <- {1},
  MaxBytes <- [h \in {A, B} |-> IF h = A THEN 1 ELSE 0], MaxQueue <- 4,
  waiting <- blocked, sent <- written, got <- taken

Net == INSTANCE Net WITH
  Procs <- {p1, p2}, Addrs <- {x}, Ports <- {1, 2}, Lens <- {1}, MaxIds <- 2,
  MaxBytes <- 0, MaxFaults <- 0, arrived <- queued

Virtio == INSTANCE VirtioNet WITH
  Word16 <- 8, Size <- 4, MaxPkts <- 3, pc <- vpc, signal <- vsignal

Timer == INSTANCE Timer WITH
  Clients <- {c1, c2}, Ms <- 2, Times <- {0, 1, 2}, Caps <- 5, MaxTimers <- 2,
  caps <- slots

Log == INSTANCE Log WITH
  Clients <- {c1, c2}, Size <- 7, Piece <- 2, MAX_SERVICES <- 1, RegisterLen <- 2,
  FailLen <- 2, SlotLen <- 2, LogLens <- {3}

ASSUME ConstantsOK ==
  /\ Handshake!TcpOK /\ Stream!TcpOK /\ Net!NetOK /\ Virtio!VirtioOK
  /\ Timer!TimerOK /\ Log!LogOK

-----------------------------------------------------------------------------
Init ==
  /\ which \in {"sched", "handshake", "stream", "net", "virtio", "timer", "log"}
  /\ Sched!LiveInit
  /\ sc.priority = [p \in {p0, p1, p2} |-> 1]
  /\ Handshake!Init
  /\ Net!Init
  /\ Virtio!Init
  /\ Timer!Init
  /\ Log!Init

Next ==
  /\ \/ which = "sched" /\ Sched!LiveNext /\ UNCHANGED <<tcp, server, driver, timer, log>>
     \/ /\ which = "handshake" /\ Handshake!Next
        /\ UNCHANGED <<sched, server, driver, timer, log>>
     \/ which = "stream" /\ Stream!Next /\ UNCHANGED <<sched, server, driver, timer, log>>
     \/ which = "net" /\ Net!Next /\ UNCHANGED <<sched, tcp, driver, timer, log>>
     \/ which = "virtio" /\ Virtio!Next /\ UNCHANGED <<sched, tcp, server, timer, log>>
     \/ which = "timer" /\ Timer!Next /\ UNCHANGED <<sched, tcp, server, driver, log>>
     \/ which = "log" /\ Log!Next /\ UNCHANGED <<sched, tcp, server, driver, timer>>
  /\ UNCHANGED which

\* What each module asks for in Ticks, FairSpec or FairReads.
Fairness ==
  /\ []<>(which = "sched" => up = nil \/ bit = 0)
  /\ []<>(which = "sched" => up = nil \/ bit = 1)
  /\ WF_tcp(which \in {"handshake", "stream"} /\ Handshake!connect_tcp_arp(A))
  /\ \A h \in {A, B} : WF_tcp(which = "handshake" /\ Handshake!Deliver(h))
  /\ \A h \in {A, B} : WF_tcp(which = "handshake" /\ Handshake!Closing(h))
  /\ \A h \in {A, B} : WF_tcp(which = "stream" /\ Stream!Deliver(h))
  /\ WF_tcp(which = "stream" /\ Stream!Read(B))
  /\ WF_server(which = "net" /\ Net!handle_arp(x))
  /\ \A p \in {p1, p2} : WF_server(which = "net" /\ Net!ConnectDone(p))
  /\ WF_driver(which = "virtio" /\ Virtio!DeviceTransmits)
  /\ WF_driver(which = "virtio" /\ Virtio!Interrupt)
  /\ WF_driver(which = "virtio" /\ Virtio!Handling)
  /\ WF_timer(which = "timer" /\ Timer!Tick)
  /\ WF_timer(which = "timer" /\ Timer!HandleInterrupt)
  /\ WF_timer(which = "timer" /\ Timer!Returns)
  /\ WF_log(which = "log" /\ Log!ServerNext)

Spec == Init /\ [][Next]_vars /\ Fairness

-----------------------------------------------------------------------------
\* proc.c: a process that stays ready, with nobody above it, runs again and
\* again, however requests and replies hand slices to and fro, unless others
\* give up the cpu within a tick for ever.
TurnComes == which = "sched" => Sched!TurnComes

\* tcp.c: a connect and a disconnect that reached the other side are answered,
\* and data that is on its way is read.
TcpProgress ==
  /\ which = "handshake" => Handshake!Connects /\ Handshake!Closes
  /\ which = "stream" => Stream!Delivered

\* net.c and procs/log: no client that waits for a reply waits for ever.
Answered ==
  /\ which = "net" => Net!Answered
  /\ which = "log" => Log!Answered

\* virtio/net/net.c: whatever the device has used is handled, although one
\* signal may stand for many interrupts; a packet whose interrupt was dropped is
\* handled with the next.
AllHandled == which = "virtio" => Virtio!AllHandled

\* timer-sp804: a timer that is set is signalled, although every request starts
\* the counter again.
Fires == which = "timer" => Timer!Fires
=============================================================================
