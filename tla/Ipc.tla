-------------------------------- MODULE Ipc --------------------------------
(***************************************************************************)
(* Endpoints and blocking message passing: recv, reply, mesg, signal and   *)
(* the system calls around them (sys/sys.c), with the process states they  *)
(* move (sys/proc.c).                                                      *)
(*                                                                         *)
(* The kernel runs with interrupts off, so whatever a process does in it   *)
(* between entering and the call of schedule() is one step.  Which process *)
(* schedule() picks is left open here (Dispatch: any ready one); module    *)
(* Kernel puts the real scheduler in its place.                            *)
(*                                                                         *)
(* A capability that can travel in a message is abstracted to the one kind *)
(* on which IPC itself depends: the read capability of an endpoint, which  *)
(* is what lets its holder receive and reply.                              *)
(***************************************************************************)
EXTENDS Processes, Lists

CONSTANTS Endpoints,  \* the endpoint objects
          Caplists,   \* the caplist objects
          Bits,       \* the bits of a signal word
          cap_root,   \* cap_root[p]: the caplist p uses
          Holder0,    \* Holder0[e]: the caplist that first holds e's read cap
          CanSend,    \* <<p, e>>: p holds a write capability of e
          Irqs        \* the endpoints that device interrupts are connected to

ASSUME ConstantsOK ==
  /\ Root \in Procs
  /\ cap_root \in [Procs -> Caplists]
  /\ Holder0 \in [Endpoints -> Caplists]
  /\ CanSend \subseteq Procs \X Endpoints
  /\ Irqs \subseteq Endpoints
  /\ nil \notin Procs \cup Endpoints

VARIABLES
  state,         \* p->state
  pc,            \* where p continues: in user mode, or inside recv or mesg
  ep,            \* the endpoint of the recv or mesg that p is inside
  m,             \* p->m: holds p's request or the reply to it
  slot,          \* whether that call named a cap slot (o, p->give # nil)
  offer,         \* the capability lying in the slot of p's mesg, or nil
  bound_signal,  \* p->bound_signal
  waiting,       \* e->waiting, in list order
  rwait,         \* e->rwait
  bound,         \* e->bound
  signal,        \* e->signal
  caps,          \* the endpoints whose read capability a caplist holds
  up,            \* the process on the cpu, nil once the kernel has stopped
  panic          \* why the kernel stopped

ipcVars == <<state, pc, ep, m, slot, offer, bound_signal,
             waiting, rwait, bound, signal, caps>>
vars == <<ipcVars, up, panic>>

Ref(S) == S \cup {nil}

IpcTypeOK ==
  /\ state \in [Procs -> {"fault", "ready", "block_recv",
                          "block_send", "block_reply"}]
  /\ pc \in [Procs -> {"user", "recv", "mesg"}]
  /\ ep \in [Procs -> Ref(Endpoints)]
  /\ m \in [Procs -> {"request", "reply"}]
  /\ slot \in [Procs -> BOOLEAN]
  /\ offer \in [Procs -> Ref(Endpoints)]
  /\ bound_signal \in [Procs -> SUBSET Bits]
  /\ waiting \in [Endpoints -> Seq(Procs)]
  /\ rwait \in [Endpoints -> Ref(Procs)]
  /\ bound \in [Endpoints -> Ref(Procs)]
  /\ signal \in [Endpoints -> SUBSET Bits]
  /\ caps \in [Caplists -> SUBSET Endpoints]

TypeOK ==
  /\ IpcTypeOK
  /\ up \in Ref(Procs)
  /\ panic \in {"no", "give", "rwait", "idle"}

-----------------------------------------------------------------------------
(* The kernel has created every object; only the root process is started.  *)
Init ==
  /\ state = [p \in Procs |-> IF p = Root THEN "ready" ELSE "fault"]
  /\ pc = [p \in Procs |-> "user"]
  /\ ep = [p \in Procs |-> nil]
  /\ m = [p \in Procs |-> "reply"]
  /\ slot = [p \in Procs |-> FALSE]
  /\ offer = [p \in Procs |-> nil]
  /\ bound_signal = [p \in Procs |-> {}]
  /\ waiting = [e \in Endpoints |-> <<>>]
  /\ rwait = [e \in Endpoints |-> nil]
  /\ bound = [e \in Endpoints |-> nil]
  /\ signal = [e \in Endpoints |-> {}]
  /\ caps = [l \in Caplists |-> {e \in Endpoints : Holder0[e] = l}]
  /\ up = Root
  /\ panic = "no"

Running(p) == up = p /\ pc[p] = "user"

CanRead(p, e) == e \in caps[cap_root[p]]

\* Mutant: proc_ready is forgotten.
MovedAsleep(p, s, n) == [state EXCEPT ![p] = s]

\* The result of proc_ready(n) after p's own state has become s; n may be nil.
Moved(p, s, n) ==
  [q \in Procs |-> IF q = n THEN "ready" ELSE IF q = p THEN s ELSE state[q]]

\* Mutant: the sender's slot is not cleared.
TransferCopies(c, l, k, old) == [caps EXCEPT ![k] = (@ \ {old}) \cup {c}]

\* The capability c leaves caplist l for caplist k, which loses what was in
\* the slot before (old, or nil).
Transfer(c, l, k, old) ==
  [x \in Caplists |-> IF x = k THEN (caps[x] \ {old}) \cup {c}
                      ELSE IF x = l THEN caps[x] \ {c} ELSE caps[x]]

\* Mutant: the link to the next waiting process is lost.
DropAtCuts(s, i) == SubSeq(s, 1, i - 1)

\* The list s without its i-th process.
DropAt(s, i) ==
  [j \in 1..(Len(s) - 1) |-> s[IF j < i THEN j ELSE j + 1]]

-----------------------------------------------------------------------------
(* recv.  rw stands for e->rwait on entry to the loop.                     *)

\* Mutant: the list is searched from its tail.
FirstSenderLast(e, i) ==
  /\ i \in 1..Len(waiting[e])
  /\ state[waiting[e][i]] = "block_send"
  /\ \A j \in (i + 1)..Len(waiting[e]) : state[waiting[e][j]] # "block_send"

\* i is the place in e->waiting of the first process that is blocked sending.
FirstSender(e, i) ==
  /\ i \in 1..Len(waiting[e])
  /\ state[waiting[e][i]] = "block_send"
  /\ \A j \in 1..(i - 1) : state[waiting[e][j]] # "block_send"

NothingPending(p, e) ==
  /\ bound_signal[p] = {}
  /\ signal[e] = {}
  /\ \A i \in 1..Len(waiting[e]) : state[waiting[e][i]] # "block_send"

\* Mutant: the slot is cleared as a pointer.
ReturnsNil(p) ==
  /\ pc' = [pc EXCEPT ![p] = "user"]
  /\ ep' = [ep EXCEPT ![p] = nil]
  /\ slot' = [slot EXCEPT ![p] = nil]

\* The call returns to user mode; its locals are gone.
Returns(p) ==
  /\ pc' = [pc EXCEPT ![p] = "user"]
  /\ ep' = [ep EXCEPT ![p] = nil]
  /\ slot' = [slot EXCEPT ![p] = FALSE]

RecvBoundSignal(p, e, rw) ==
  /\ bound_signal[p] # {}
  /\ bound_signal' = [bound_signal EXCEPT ![p] = {}]
  /\ rwait' = [rwait EXCEPT ![e] = rw]
  /\ Returns(p)
  /\ UNCHANGED <<state, m, offer, waiting, bound, signal, caps>>

RecvSignal(p, e) ==
  /\ bound_signal[p] = {}
  /\ signal[e] # {}
  /\ signal' = [signal EXCEPT ![e] = {}]
  /\ rwait' = [rwait EXCEPT ![e] = nil]
  /\ Returns(p)
  /\ UNCHANGED <<state, m, offer, bound_signal, waiting, bound, caps>>

RecvRequest(p, e, acc) ==
  /\ bound_signal[p] = {}
  /\ signal[e] = {}
  /\ \E i \in 1..Len(waiting[e]) :
       LET s == waiting[e][i] IN
       /\ FirstSender(e, i)
       /\ offer[s] # nil => acc
       /\ state' = [state EXCEPT ![s] = "block_reply"]
       /\ caps' = IF offer[s] = nil THEN caps
                  ELSE Transfer(offer[s], cap_root[s], cap_root[p], nil)
       /\ offer' = [offer EXCEPT ![s] = nil]
  /\ rwait' = [rwait EXCEPT ![e] = nil]
  /\ Returns(p)
  /\ UNCHANGED <<m, bound_signal, waiting, bound, signal>>

RecvBlock(p, e, acc, rw) ==
  /\ NothingPending(p, e)
  /\ rw = nil
  /\ rwait' = [rwait EXCEPT ![e] = p]
  /\ state' = [state EXCEPT ![p] = "block_recv"]
  /\ pc' = [pc EXCEPT ![p] = "recv"]
  /\ ep' = [ep EXCEPT ![p] = e]
  /\ slot' = [slot EXCEPT ![p] = acc]
  /\ UNCHANGED <<m, offer, bound_signal, waiting, bound, signal, caps>>

RecvReturn(p, e, acc, rw) ==
  \/ RecvBoundSignal(p, e, rw)
  \/ RecvSignal(p, e)
  \/ RecvRequest(p, e, acc)

\* A request carries a capability and the receiver named no slot for it.
NotAccepting(p, e, acc) ==
  /\ bound_signal[p] = {}
  /\ signal[e] = {}
  /\ \E i \in 1..Len(waiting[e]) :
       FirstSender(e, i) /\ offer[waiting[e][i]] # nil /\ ~acc

\* Nothing to receive, and e->rwait is taken: there is room for one receiver.
RwaitTaken(p, e, rw) == NothingPending(p, e) /\ rw # nil

\* Mutant: e->rwait is not cleared when schedule(nil) returns.
InRecvStale(p, e, acc, rw) ==
  \/ Running(p) /\ CanRead(p, e) /\ bound[e] \in {nil, p} /\ rw = rwait[e]
  \/ up = p /\ pc[p] = "recv" /\ ep[p] = e /\ slot[p] = acc /\ rw = rwait[e]

\* recv is entered: by sys_recv, or again after its schedule(nil) returned.
InRecv(p, e, acc, rw) ==
  \/ /\ Running(p)
     /\ CanRead(p, e)
     /\ bound[e] \in {nil, p}
     /\ rw = rwait[e]
  \/ /\ up = p
     /\ pc[p] = "recv" /\ ep[p] = e /\ slot[p] = acc
     /\ rw = nil

-----------------------------------------------------------------------------
(* mesg, reply and signal                                                  *)

\* sys_mesg and sys_reply find the endpoint and the capability to pass.
MaySend(p, e, hasSlot, c) ==
  <<p, e>> \in CanSend /\ (c # nil => hasSlot /\ CanRead(p, c))

MayReply(p, e, c) == CanRead(p, e) /\ (c # nil => CanRead(p, c))

\* hasSlot: the caller named a slot, which holds the capability c or nothing.
Mesg(p, e, hasSlot, c, n) ==
  /\ Running(p)
  /\ MaySend(p, e, hasSlot, c)
  /\ n = rwait[e]
  /\ state' = Moved(p, "block_send", n)
  /\ pc' = [pc EXCEPT ![p] = "mesg"]
  /\ ep' = [ep EXCEPT ![p] = e]
  /\ m' = [m EXCEPT ![p] = "request"]
  /\ slot' = [slot EXCEPT ![p] = hasSlot]
  /\ offer' = [offer EXCEPT ![p] = c]
  /\ waiting' = [waiting EXCEPT ![e] = Append(@, p)]
  /\ UNCHANGED <<bound_signal, rwait, bound, signal, caps>>

\* schedule() came back to p inside mesg: copy p->m out and return.
MesgReturn(p) ==
  /\ up = p
  /\ pc[p] = "mesg"
  /\ Returns(p)
  /\ UNCHANGED <<state, m, offer, bound_signal,
                 waiting, rwait, bound, signal, caps>>

Reply(p, e, c, n) ==
  /\ Running(p)
  /\ MayReply(p, e, c)
  /\ \E i \in 1..Len(waiting[e]) :
       /\ waiting[e][i] = n
       /\ state[n] = "block_reply"
       /\ \A j \in 1..(i - 1) :
            ~(waiting[e][j] = n /\ state[n] = "block_reply")
       /\ waiting' = [waiting EXCEPT ![e] = DropAt(@, i)]
  /\ m' = [m EXCEPT ![n] = "reply"]
  /\ caps' = IF c = nil \/ ~slot[n] THEN caps
             ELSE Transfer(c, cap_root[p], cap_root[n], offer[n])
  /\ state' = Moved(p, state[p], n)
  /\ UNCHANGED <<pc, ep, slot, offer, bound_signal, rwait, bound, signal>>

\* signal(e) is called for p, or by an interrupt that arrives while p runs.
MaySignal(p, e) == <<p, e>> \in CanSend \/ e \in Irqs

\* Mutant: the bound process is readied whatever it waits for.
WokenAlways(e) == bound[e]

\* A signal readies the process bound to e only if it sleeps in recv.
Woken(e) == IF state[bound[e]] = "block_recv" THEN bound[e] ELSE nil

\* The endpoint is bound: the bits go to the process, wherever it receives.
SignalBound(p, e, s, n) ==
  /\ Running(p)
  /\ MaySignal(p, e)
  /\ bound[e] # nil
  /\ bound_signal' = [bound_signal EXCEPT ![bound[e]] = @ \cup s]
  /\ n = Woken(e)
  /\ state' = Moved(p, state[p], n)
  /\ UNCHANGED <<pc, ep, m, slot, offer, waiting, rwait, bound, signal, caps>>

Signal(p, e, s, n) ==
  /\ Running(p)
  /\ MaySignal(p, e)
  /\ bound[e] = nil
  /\ signal' = [signal EXCEPT ![e] = @ \cup s]
  /\ n = rwait[e]
  /\ state' = Moved(p, state[p], n)
  /\ UNCHANGED <<pc, ep, m, slot, offer, bound_signal,
                 waiting, rwait, bound, caps>>

EndpointBind(p, e) ==
  /\ Running(p)
  /\ CanRead(p, e) \/ <<p, e>> \in CanSend
  /\ bound[e] = nil
  /\ bound' = [bound EXCEPT ![e] = p]
  /\ UNCHANGED <<state, pc, ep, m, slot, offer, bound_signal,
                 waiting, rwait, signal, caps>>

EndpointUnbind(p, e) ==
  /\ Running(p)
  /\ CanRead(p, e) \/ <<p, e>> \in CanSend
  /\ bound[e] = p
  /\ bound' = [bound EXCEPT ![e] = nil]
  /\ UNCHANGED <<state, pc, ep, m, slot, offer, bound_signal,
                 waiting, rwait, signal, caps>>

-----------------------------------------------------------------------------
(* Processes                                                               *)

\* The root process starts a process that is not running (the only use of
\* proc_start in the repository); its label is reset to the entry point.
ProcStart(p, q) ==
  /\ Running(p)
  /\ p = Root
  /\ state[q] = "fault"
  /\ state' = [state EXCEPT ![q] = "ready"]
  /\ pc' = [pc EXCEPT ![q] = "user"]
  /\ UNCHANGED <<ep, m, slot, offer, bound_signal,
                 waiting, rwait, bound, signal, caps>>

\* sys_exit, or a trap in user mode.
Stop(p) ==
  /\ Running(p)
  /\ state' = [state EXCEPT ![p] = "fault"]
  /\ UNCHANGED <<pc, ep, m, slot, offer, bound_signal,
                 waiting, rwait, bound, signal, caps>>

\* sys_yield, or the system tick.
Yield(p) == Running(p) /\ UNCHANGED ipcVars

-----------------------------------------------------------------------------
(* What p does in the kernel ends by returning to p, by schedule(n) or     *)
(* schedule(nil), or in a panic.                                           *)

Stays(p) ==
  \/ \E e \in Endpoints, acc \in BOOLEAN, rw \in Ref(Procs) :
       InRecv(p, e, acc, rw) /\ RecvReturn(p, e, acc, rw)
  \/ MesgReturn(p)
  \/ \E e \in Endpoints, s \in SUBSET Bits :
       Signal(p, e, s, nil) \/ SignalBound(p, e, s, nil)
  \/ \E e \in Endpoints : EndpointBind(p, e) \/ EndpointUnbind(p, e)

Wakes(p, n) ==
  \/ \E e \in Endpoints, b \in BOOLEAN, c \in Ref(Endpoints) :
       Mesg(p, e, b, c, n)
  \/ \E e \in Endpoints, c \in Ref(Endpoints) : Reply(p, e, c, n)
  \/ \E e \in Endpoints, s \in SUBSET Bits :
       Signal(p, e, s, n) \/ SignalBound(p, e, s, n)

Blocks(p) ==
  \/ \E e \in Endpoints, acc \in BOOLEAN, rw \in Ref(Procs) :
       InRecv(p, e, acc, rw) /\ RecvBlock(p, e, acc, rw)
  \/ \E e \in Endpoints, b \in BOOLEAN, c \in Ref(Endpoints) :
       Mesg(p, e, b, c, nil)
  \/ Yield(p)

Panics(p) ==
  \E e \in Endpoints, acc \in BOOLEAN, rw \in Ref(Procs) :
    /\ InRecv(p, e, acc, rw)
    /\ \/ NotAccepting(p, e, acc) /\ panic' = "give"
       \/ RwaitTaken(p, e, rw) /\ panic' = "rwait"

\* schedule(): some ready process gets the cpu, or the kernel stops.
Dispatch ==
  \/ \E q \in Procs : state'[q] = "ready" /\ up' = q /\ UNCHANGED panic
  \/ /\ \A q \in Procs : state'[q] # "ready"
     /\ up' = nil /\ panic' = "idle"

Halted == up = nil /\ UNCHANGED vars

Next ==
  \/ \E p \in Procs :
       \/ Stays(p) /\ UNCHANGED <<up, panic>>
       \/ \E q \in Procs : ProcStart(p, q) /\ UNCHANGED <<up, panic>>
       \/ \E n \in Procs : Wakes(p, n) /\ Dispatch
       \/ Blocks(p) /\ Dispatch
       \/ Stop(p) /\ Dispatch
       \/ Panics(p) /\ up' = nil /\ UNCHANGED ipcVars
  \/ Halted

Spec == Init /\ [][Next]_vars

-----------------------------------------------------------------------------
(* Invariants                                                              *)

\* No two processes use one caplist (what arm/root/proc.c sets up).
Unshared == \A p, q \in Procs : cap_root[p] = cap_root[q] => p = q

\* e->waiting holds exactly the processes blocked in mesg on e, each once:
\* the unlinking in reply and the linking in mesg never lose or repeat one.
WaitingExact ==
  /\ \A e \in Endpoints : \A i \in 1..Len(waiting[e]) :
       /\ state[waiting[e][i]] \in {"block_send", "block_reply"}
       /\ ep[waiting[e][i]] = e
       /\ \A j \in 1..Len(waiting[e]) : waiting[e][i] = waiting[e][j] => i = j
  /\ \A p \in Procs : state[p] \in {"block_send", "block_reply"} =>
       /\ pc[p] = "mesg"
       /\ \E i \in 1..Len(waiting[ep[p]]) : waiting[ep[p]][i] = p

\* A process asleep in recv is registered as the endpoint's receiver and has
\* nothing to receive: no signal, bound signal or request slipped past it.
NoLostWakeup ==
  \A p \in Procs : state[p] = "block_recv" =>
    rwait[ep[p]] = p /\ NothingPending(p, ep[p])

\* mesg returns only with the reply to its request: nothing else (a signal,
\* a message to an endpoint it once received on) readies a blocked sender.
MesgReturnsReply ==
  \A p \in Procs : state[p] = "ready" /\ pc[p] = "mesg" => m[p] = "reply"

\* Passing capabilities in requests and replies never copies or loses one: an
\* endpoint has one receiver, because its read capability is in one caplist.
OneHolder ==
  \A e \in Endpoints :
    /\ \E l \in Caplists : e \in caps[l]
    /\ \A k, l \in Caplists : e \in caps[k] /\ e \in caps[l] => k = l

\* The panic of recv that wants e->rwait to be a list is unreachable.
RwaitNeverTaken == panic # "rwait"

-----------------------------------------------------------------------------
(* The inductive invariant: the properties above, tied together by where   *)
(* each process is in the kernel.                                          *)

\* A process inside recv holds the capability it receives with and owns
\* e->rwait until it comes back; conversely e->rwait is always such a process.
Receivers ==
  /\ \A p \in Procs : state[p] = "block_recv" => pc[p] = "recv"
  /\ \A p \in Procs : pc[p] = "recv" =>
       /\ state[p] \in {"block_recv", "ready"}
       /\ ep[p] \in Endpoints
       /\ CanRead(p, ep[p])
       /\ rwait[ep[p]] = p
  /\ \A e \in Endpoints : rwait[e] # nil =>
       pc[rwait[e]] = "recv" /\ ep[rwait[e]] = e

Asleep ==
  \A p \in Procs : state[p] = "block_recv" => NothingPending(p, ep[p])

\* A process inside mesg is on its endpoint's list until it is answered, and
\* what it offers is its own until the request is received.
Callers ==
  \A p \in Procs :
    /\ pc[p] = "mesg" =>
         /\ state[p] \in {"block_send", "block_reply", "ready"}
         /\ ep[p] \in Endpoints
    /\ offer[p] # nil => state[p] = "block_send" /\ CanRead(p, offer[p])

IpcInv ==
  /\ IpcTypeOK
  /\ Receivers
  /\ Asleep
  /\ Callers
  /\ WaitingExact
  /\ MesgReturnsReply
  /\ OneHolder

IInv ==
  /\ IpcInv
  /\ TypeOK
  /\ up # nil => state[up] = "ready"
  /\ RwaitNeverTaken

\* The calls as module Rpc sees them: who waits to be received, in order, who
\* to be answered, and whose mesg is about to return.
Sending == {p \in Procs : state[p] = "block_send"}
Queue == [e \in Endpoints |-> Kept(waiting[e], Sending)]
Taken == {w \in Procs \X Endpoints : state[w[1]] = "block_reply" /\ ep[w[1]] = w[2]}
Answered == {p \in Procs : state[p] = "ready" /\ pc[p] = "mesg"}
Promise == INSTANCE Rpc WITH queue <- Queue, taken <- Taken, answered <- Answered

\* Message passing keeps that promise: requests are taken in the order they
\* were sent, once each, and every mesg returns after exactly one reply to it.
RefinesRpc == Promise!Spec
=============================================================================
