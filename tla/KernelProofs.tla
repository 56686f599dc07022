---------------------------- MODULE KernelProofs ----------------------------
(***************************************************************************)
(* The invariants of message passing hold for any number of processes,     *)
(* endpoints and signal bits, as long as no two processes share a caplist; *)
(* and message passing on top of the scheduler implements message passing  *)
(* with any choice of the next process, so it has them too.                *)
(***************************************************************************)
EXTENDS Kernel, SchedTheorems

-----------------------------------------------------------------------------
(* Message passing.                                                        *)

\* Unlinking the i-th process of a list (reply) keeps the others in order.
LEMMA DropAtProps ==
  ASSUME NEW S, NEW s \in Seq(S), NEW i \in 1..Len(s)
  PROVE  /\ DropAt(s, i) \in Seq(S)
         /\ Len(DropAt(s, i)) = Len(s) - 1
         /\ \A j \in 1..(Len(s) - 1) :
              DropAt(s, i)[j] = s[IF j < i THEN j ELSE j + 1]
<1>1. Len(s) \in Nat /\ Len(s) - 1 \in Nat
  OBVIOUS
<1>2. \A j \in 1..(Len(s) - 1) : s[IF j < i THEN j ELSE j + 1] \in S
  BY <1>1
<1>3. DropAt(s, i) \in [1..(Len(s) - 1) -> S]
  BY <1>2 DEF DropAt
<1> QED
  BY <1>1, <1>3 DEF DropAt

\* The boot state satisfies the invariant.
LEMMA InitInv == Init => IInv
<1> SUFFICES ASSUME Init PROVE IInv
  OBVIOUS
<1> USE ConstantsOK DEF Init, Ref
<1>1. IpcTypeOK /\ TypeOK
  BY DEF IpcTypeOK, TypeOK
<1>2. Receivers /\ Asleep /\ Callers
  BY DEF Receivers, Asleep, Callers
<1>3. WaitingExact /\ MesgReturnsReply
  BY DEF WaitingExact, MesgReturnsReply
<1>4. OneHolder
  BY DEF OneHolder
<1> QED
  BY <1>1, <1>2, <1>3, <1>4 DEF IInv, IpcInv, RwaitNeverTaken

\* A member of a waiting list is a process.
LEMMA WaitingTyped ==
  ASSUME IpcTypeOK, NEW e \in Endpoints, NEW i \in 1..Len(waiting[e])
  PROVE  waiting[e][i] \in Procs
  BY DEF IpcTypeOK

\* The waiting lists stay exact if neither they nor the set of processes
\* blocked in mesg, or what these wait for, changes.
LEMMA WaitingKept ==
  ASSUME IpcTypeOK, WaitingExact, UNCHANGED waiting,
         \A q \in Procs :
           IF state[q] \in {"block_send", "block_reply"}
           THEN /\ state'[q] \in {"block_send", "block_reply"}
                /\ pc'[q] = pc[q] /\ ep'[q] = ep[q]
           ELSE state'[q] \notin {"block_send", "block_reply"}
  PROVE  WaitingExact'
<1>1. ASSUME NEW e \in Endpoints, NEW i \in 1..Len(waiting[e])
      PROVE  /\ state'[waiting[e][i]] \in {"block_send", "block_reply"}
             /\ ep'[waiting[e][i]] = e
             /\ \A j \in 1..Len(waiting[e]) : waiting[e][i] = waiting[e][j] => i = j
  BY <1>1, WaitingTyped DEF WaitingExact
<1>2. ASSUME NEW q \in Procs, state'[q] \in {"block_send", "block_reply"}
      PROVE  /\ pc'[q] = "mesg"
             /\ \E i \in 1..Len(waiting[ep'[q]]) : waiting[ep'[q]][i] = q
  BY <1>2 DEF WaitingExact
<1> QED
  BY <1>1, <1>2 DEF WaitingExact

\* recv returning a bound signal.
LEMMA RecvBoundSignalInv ==
  ASSUME IInv, Unshared, NEW p \in Procs, NEW e \in Endpoints,
         NEW acc \in BOOLEAN, NEW rw \in Ref(Procs),
         InRecv(p, e, acc, rw), RecvBoundSignal(p, e, rw)
  PROVE  IpcInv' /\ state'[p] = "ready"
<1> USE ConstantsOK DEF Ref
<1>1. IpcTypeOK'
  BY DEF IInv, IpcInv, IpcTypeOK, RecvBoundSignal, Returns
<1>2. Receivers'
  BY DEF IInv, IpcInv, IpcTypeOK, Receivers, RecvBoundSignal, Returns, InRecv, CanRead, Running, Unshared
<1>3. Asleep'
  BY DEF IInv, IpcInv, IpcTypeOK, Receivers, Asleep, NothingPending, RecvBoundSignal, Returns, InRecv, Running
<1>4. Callers'
  BY DEF IInv, IpcInv, IpcTypeOK, Callers, RecvBoundSignal, Returns, InRecv, CanRead, Running
<1>5. WaitingExact'
  BY WaitingKept DEF IInv, IpcInv, IpcTypeOK, RecvBoundSignal, Returns, InRecv, Running
<1>6. MesgReturnsReply' /\ OneHolder' /\ state'[p] = "ready"
  BY DEF IInv, IpcInv, IpcTypeOK, MesgReturnsReply, OneHolder, RecvBoundSignal, Returns, InRecv, Running
<1> QED
  BY <1>1, <1>2, <1>3, <1>4, <1>5, <1>6 DEF IpcInv

\* recv returning the endpoint's signal.
LEMMA RecvSignalInv ==
  ASSUME IInv, Unshared, NEW p \in Procs, NEW e \in Endpoints,
         NEW acc \in BOOLEAN, NEW rw \in Ref(Procs),
         InRecv(p, e, acc, rw), RecvSignal(p, e)
  PROVE  IpcInv' /\ state'[p] = "ready"
<1> USE ConstantsOK DEF Ref
<1>1. IpcTypeOK'
  BY DEF IInv, IpcInv, IpcTypeOK, RecvSignal, Returns
<1>2. rwait[e] \in {nil, p}
  BY DEF IInv, IpcInv, IpcTypeOK, Receivers, OneHolder, InRecv, CanRead, Running, Unshared
<1>3. Receivers'
  BY <1>2 DEF IInv, IpcInv, IpcTypeOK, Receivers, RecvSignal, Returns, InRecv, CanRead, Running
<1>4. Asleep'
  BY DEF IInv, IpcInv, IpcTypeOK, Receivers, Asleep, NothingPending, RecvSignal, Returns, InRecv, Running
<1>5. Callers'
  BY DEF IInv, IpcInv, IpcTypeOK, Callers, RecvSignal, Returns, InRecv, CanRead, Running
<1>6. WaitingExact'
  BY WaitingKept DEF IInv, IpcInv, IpcTypeOK, RecvSignal, Returns, InRecv, Running
<1>7. MesgReturnsReply' /\ OneHolder' /\ state'[p] = "ready"
  BY DEF IInv, IpcInv, IpcTypeOK, MesgReturnsReply, OneHolder, RecvSignal, Returns, InRecv, Running
<1> QED
  BY <1>1, <1>3, <1>4, <1>5, <1>6, <1>7 DEF IpcInv

\* Moving a capability between two caplists leaves it in exactly one.
LEMMA TransferProps ==
  ASSUME IpcTypeOK, OneHolder, NEW c \in Endpoints,
         NEW l \in Caplists, NEW k \in Caplists, l # k, c \in caps[l],
         nil \notin Endpoints
  PROVE  /\ Transfer(c, l, k, nil) \in [Caplists -> SUBSET Endpoints]
         /\ \A x \in Caplists, y \in Endpoints :
              y \in Transfer(c, l, k, nil)[x] <=>
                IF y = c THEN x = k ELSE y \in caps[x]
<1>1. \A x \in Caplists : x # l => c \notin caps[x]
  BY DEF OneHolder
<1>2. \A x \in Caplists : caps[x] \subseteq Endpoints
  BY DEF IpcTypeOK
<1> QED
  BY <1>1, <1>2 DEF Transfer

\* recv taking the first request, with the capability it carries.
LEMMA RecvRequestInv ==
  ASSUME IInv, Unshared, NEW p \in Procs, NEW e \in Endpoints,
         NEW acc \in BOOLEAN, NEW rw \in Ref(Procs),
         InRecv(p, e, acc, rw), RecvRequest(p, e, acc)
  PROVE  IpcInv' /\ state'[p] = "ready"
<1> USE ConstantsOK DEF Ref
<1>1. PICK i \in 1..Len(waiting[e]) :
        LET s == waiting[e][i] IN
        /\ FirstSender(e, i)
        /\ offer[s] # nil => acc
        /\ state' = [state EXCEPT ![s] = "block_reply"]
        /\ caps' = IF offer[s] = nil THEN caps
                   ELSE Transfer(offer[s], cap_root[s], cap_root[p], nil)
        /\ offer' = [offer EXCEPT ![s] = nil]
  BY DEF RecvRequest
<1> DEFINE s == waiting[e][i]
<1>2. s \in Procs /\ state[s] = "block_send" /\ pc[s] = "mesg" /\ ep[s] = e
  BY <1>1, WaitingTyped DEF IInv, IpcInv, IpcTypeOK, FirstSender, WaitingExact
<1>3. state[p] = "ready" /\ s # p
  BY <1>2 DEF IInv, IpcInv, IpcTypeOK, InRecv, Running
<1>4. /\ state' = [state EXCEPT ![s] = "block_reply"]
      /\ offer' = [offer EXCEPT ![s] = nil]
      /\ UNCHANGED <<m, bound_signal, waiting, bound, signal>>
      /\ rwait' = [rwait EXCEPT ![e] = nil]
      /\ pc' = [pc EXCEPT ![p] = "user"]
      /\ ep' = [ep EXCEPT ![p] = nil]
      /\ slot' = [slot EXCEPT ![p] = FALSE]
  BY <1>1 DEF RecvRequest, Returns
<1>5. /\ caps' \in [Caplists -> SUBSET Endpoints]
      /\ OneHolder'
      /\ \A q \in Procs : caps[cap_root[q]] \ {offer[s]} \subseteq caps'[cap_root[q]]
      /\ \A q \in Procs \ {s} : caps[cap_root[q]] \subseteq caps'[cap_root[q]]
  <2>1. CASE offer[s] = nil
    BY <1>1, <1>2, <2>1 DEF IInv, IpcInv, IpcTypeOK, OneHolder
  <2>2. CASE offer[s] # nil
    <3>1. /\ offer[s] \in Endpoints /\ offer[s] \in caps[cap_root[s]]
          /\ cap_root[s] \in Caplists /\ cap_root[p] \in Caplists
          /\ cap_root[s] # cap_root[p]
      BY <1>2, <1>3, <2>2 DEF IInv, IpcInv, IpcTypeOK, Callers, CanRead, Unshared
    <3>2. /\ caps' \in [Caplists -> SUBSET Endpoints]
          /\ \A x \in Caplists, y \in Endpoints :
               y \in caps'[x] <=> IF y = offer[s] THEN x = cap_root[p]
                                  ELSE y \in caps[x]
      BY <1>1, <2>2, <3>1, TransferProps DEF IInv, IpcInv
    <3>3. OneHolder'
      BY <3>1, <3>2 DEF IInv, IpcInv, OneHolder
    <3>4. \A q \in Procs : caps[cap_root[q]] \ {offer[s]} \subseteq caps'[cap_root[q]]
      BY <3>2 DEF IInv, IpcInv, IpcTypeOK
    <3>5. \A q \in Procs \ {s} : offer[s] \notin caps[cap_root[q]]
      BY <3>1, <1>2 DEF IInv, IpcInv, OneHolder, Unshared
    <3> QED
      BY <3>2, <3>3, <3>4, <3>5
  <2> QED
    BY <2>1, <2>2
<1>6. IpcTypeOK'
  BY <1>2, <1>4, <1>5 DEF IInv, IpcInv, IpcTypeOK
<1>7. rwait[e] \in {nil, p}
  BY DEF IInv, IpcInv, IpcTypeOK, Receivers, OneHolder, InRecv, CanRead, Running, Unshared
<1>8. Receivers'
  <2>1. ASSUME NEW q \in Procs, pc'[q] = "recv"
        PROVE  /\ pc[q] = "recv" /\ q # p /\ q # s
               /\ ep[q] \in Endpoints /\ ep[q] # e /\ ep'[q] = ep[q]
               /\ state'[q] = state[q]
               /\ rwait'[ep[q]] = q
    BY <2>1, <1>2, <1>3, <1>4, <1>7 DEF IInv, IpcInv, IpcTypeOK, Receivers
  <2>2. \A q \in Procs : pc'[q] = "recv" => ep[q] \in caps'[cap_root[q]]
    BY <2>1, <1>5 DEF IInv, IpcInv, Receivers, CanRead
  <2>3. \A q \in Procs : state'[q] = "block_recv" => pc'[q] = "recv"
    BY <1>2, <1>3, <1>4 DEF IInv, IpcInv, IpcTypeOK, Receivers
  <2>4. \A f \in Endpoints : rwait'[f] # nil =>
          pc'[rwait'[f]] = "recv" /\ ep'[rwait'[f]] = f
    BY <1>2, <1>3, <1>4, <1>7 DEF IInv, IpcInv, IpcTypeOK, Receivers, InRecv, Running
  <2> QED
    BY <2>1, <2>2, <2>3, <2>4 DEF IInv, IpcInv, Receivers, CanRead
<1>9. Asleep'
  BY <1>2, <1>3, <1>4 DEF IInv, IpcInv, IpcTypeOK, Asleep, Receivers, NothingPending
<1>10. Callers'
  BY <1>2, <1>3, <1>4, <1>5 DEF IInv, IpcInv, IpcTypeOK, Callers, CanRead
<1>11. WaitingExact'
  BY <1>2, <1>3, <1>4, WaitingKept DEF IInv, IpcInv, IpcTypeOK
<1>12. MesgReturnsReply' /\ state'[p] = "ready"
  BY <1>2, <1>3, <1>4 DEF IInv, IpcInv, IpcTypeOK, MesgReturnsReply
<1> QED
  BY <1>5, <1>6, <1>8, <1>9, <1>10, <1>11, <1>12 DEF IpcInv

\* recv going to sleep: e->rwait is free, because only its holder receives.
LEMMA RecvBlockInv ==
  ASSUME IInv, Unshared, NEW p \in Procs, NEW e \in Endpoints,
         NEW acc \in BOOLEAN, NEW rw \in Ref(Procs),
         InRecv(p, e, acc, rw), RecvBlock(p, e, acc, rw)
  PROVE  IpcInv'
<1> USE ConstantsOK DEF Ref
<1>1. state[p] = "ready" /\ pc[p] \in {"user", "recv"} /\ e \in caps[cap_root[p]]
  BY DEF IInv, IpcInv, IpcTypeOK, InRecv, Running, CanRead, Receivers
<1>2. rwait[e] \in {nil, p}
  BY DEF IInv, IpcInv, IpcTypeOK, Receivers, OneHolder, InRecv, CanRead, Running, Unshared
<1>3. pc[p] = "recv" => ep[p] = e
  BY DEF InRecv, Running
<1>4. IpcTypeOK'
  BY DEF IInv, IpcInv, IpcTypeOK, RecvBlock
<1>5. Receivers'
  <2>1. ASSUME NEW q \in Procs, q # p, pc[q] = "recv"
        PROVE  ep[q] \in Endpoints /\ ep[q] # e /\ rwait[ep[q]] = q
    BY <1>2, <2>1 DEF IInv, IpcInv, IpcTypeOK, Receivers
  <2>2. \A f \in Endpoints : rwait[f] = p => f = e
    BY <1>1, <1>3 DEF IInv, IpcInv, IpcTypeOK, Receivers
  <2> QED
    BY <1>1, <2>1, <2>2 DEF IInv, IpcInv, IpcTypeOK, Receivers, RecvBlock, CanRead
<1>6. Asleep'
  <2>1. ASSUME NEW q \in Procs, NEW f \in Endpoints, NothingPending(q, f)
        PROVE  NothingPending(q, f)'
    BY <1>1, <2>1, WaitingTyped DEF IInv, IpcInv, IpcTypeOK, RecvBlock, NothingPending
  <2>2. ASSUME NEW q \in Procs, state'[q] = "block_recv"
        PROVE  NothingPending(q, ep[q])'
    <3>1. CASE q = p
      <4>1. ep'[q] = e /\ NothingPending(q, e)
        BY <3>1 DEF IInv, IpcInv, IpcTypeOK, RecvBlock
      <4> QED
        BY <2>1, <4>1 DEF NothingPending
    <3>2. CASE q # p
      <4>1. ep'[q] = ep[q] /\ ep[q] \in Endpoints /\ NothingPending(q, ep[q])
        BY <2>2, <3>2 DEF IInv, IpcInv, IpcTypeOK, RecvBlock, Asleep, Receivers
      <4> QED
        BY <2>1, <4>1 DEF NothingPending
    <3> QED
      BY <3>1, <3>2
  <2> QED
    BY <2>2 DEF Asleep
<1>7. Callers'
  BY <1>1 DEF IInv, IpcInv, IpcTypeOK, Callers, RecvBlock, CanRead
<1>8. WaitingExact'
  BY <1>1, WaitingKept DEF IInv, IpcInv, IpcTypeOK, RecvBlock
<1>9. MesgReturnsReply' /\ OneHolder'
  BY <1>1 DEF IInv, IpcInv, IpcTypeOK, MesgReturnsReply, OneHolder, RecvBlock
<1> QED
  BY <1>4, <1>5, <1>6, <1>7, <1>8, <1>9 DEF IpcInv

\* mesg returning, which leaves the list untouched: reply has unlinked p.
LEMMA MesgReturnInv ==
  ASSUME IInv, NEW p \in Procs, MesgReturn(p)
  PROVE  IpcInv' /\ state'[p] = "ready"
<1> USE ConstantsOK DEF Ref
<1>1. IpcTypeOK'
  BY DEF IInv, IpcInv, IpcTypeOK, MesgReturn, Returns
<1>2. Receivers'
  BY DEF IInv, IpcInv, IpcTypeOK, Receivers, MesgReturn, Returns, CanRead
<1>3. Asleep'
  BY DEF IInv, IpcInv, IpcTypeOK, Receivers, Asleep, NothingPending, MesgReturn, Returns
<1>4. Callers'
  BY DEF IInv, IpcInv, IpcTypeOK, Callers, MesgReturn, Returns, CanRead
<1>5. WaitingExact'
  BY WaitingKept DEF IInv, IpcInv, IpcTypeOK, MesgReturn, Returns
<1>6. MesgReturnsReply' /\ OneHolder' /\ state'[p] = "ready"
  BY DEF IInv, IpcInv, IpcTypeOK, MesgReturnsReply, OneHolder, MesgReturn, Returns
<1> QED
  BY <1>1, <1>2, <1>3, <1>4, <1>5, <1>6 DEF IpcInv

\* mesg: the caller joins the list and wakes the endpoint's receiver.
LEMMA MesgInv ==
  ASSUME IInv, NEW p \in Procs, NEW e \in Endpoints, NEW b \in BOOLEAN,
         NEW c \in Ref(Endpoints), NEW n \in Ref(Procs), Mesg(p, e, b, c, n)
  PROVE  IpcInv'
<1> USE ConstantsOK DEF Ref, MaySend
<1>1. state[p] = "ready" /\ pc[p] = "user" /\ n = rwait[e]
  BY DEF IInv, IpcInv, IpcTypeOK, Mesg, Running
<1>2. n # nil => n # p /\ pc[n] = "recv" /\ ep[n] = e /\ state[n] \in {"ready", "block_recv"}
  BY <1>1 DEF IInv, IpcInv, IpcTypeOK, Receivers
<1>3. \A q \in Procs : state'[q] = IF q = n THEN "ready"
                                  ELSE IF q = p THEN "block_send" ELSE state[q]
  BY DEF Mesg, Moved
<1>4. /\ pc' = [pc EXCEPT ![p] = "mesg"]
      /\ ep' = [ep EXCEPT ![p] = e]
      /\ m' = [m EXCEPT ![p] = "request"]
      /\ slot' = [slot EXCEPT ![p] = b]
      /\ offer' = [offer EXCEPT ![p] = c]
      /\ waiting' = [waiting EXCEPT ![e] = Append(waiting[e], p)]
      /\ UNCHANGED <<bound_signal, rwait, bound, signal, caps>>
  BY DEF Mesg
<1>5. IpcTypeOK'
  <2>1. state' \in [Procs -> {"fault", "ready", "block_recv", "block_send", "block_reply"}]
    BY DEF IInv, IpcInv, IpcTypeOK, Mesg, Moved
  <2>2. waiting' \in [Endpoints -> Seq(Procs)]
    BY <1>4 DEF IInv, IpcInv, IpcTypeOK
  <2>3. slot' \in [Procs -> BOOLEAN]
    BY <1>4, Zenon DEF IInv, IpcInv, IpcTypeOK
  <2> QED
    BY <1>4, <2>1, <2>2, <2>3 DEF IInv, IpcInv, IpcTypeOK
<1>6. Receivers'
  BY <1>1, <1>2, <1>3, <1>4 DEF IInv, IpcInv, IpcTypeOK, Receivers, CanRead
<1>7. Asleep'
  <2>1. ASSUME NEW q \in Procs, state'[q] = "block_recv"
        PROVE  NothingPending(q, ep[q])'
    <3>0. q # n /\ q # p
      BY <1>2, <1>3, <2>1
    <3>1. state[q] = "block_recv" /\ q # p /\ ep'[q] = ep[q] /\ ep[q] \in Endpoints
      BY <1>3, <1>4, <2>1, <3>0 DEF IInv, IpcInv, IpcTypeOK, Receivers
    <3>2. ep[q] # e
      BY <1>1, <1>3, <2>1, <3>1 DEF IInv, IpcInv, IpcTypeOK, Receivers
    <3>3. waiting'[ep[q]] = waiting[ep[q]]
      BY <1>4, <3>1, <3>2 DEF IInv, IpcInv, IpcTypeOK
    <3>4. NothingPending(q, ep[q])
      BY <3>1 DEF IInv, IpcInv, Asleep
    <3>5. \A i \in 1..Len(waiting[ep[q]]) : state'[waiting[ep[q]][i]] # "block_send"
      <4> SUFFICES ASSUME NEW i \in 1..Len(waiting[ep[q]])
                   PROVE  state'[waiting[ep[q]][i]] # "block_send"
        OBVIOUS
      <4>1. waiting[ep[q]][i] \in Procs /\ waiting[ep[q]][i] # p
        BY <1>1, <3>1, WaitingTyped DEF IInv, IpcInv, IpcTypeOK, WaitingExact
      <4> QED
        BY <1>3, <3>1, <3>4, <4>1 DEF NothingPending
    <3> QED
      BY <1>4, <3>1, <3>3, <3>4, <3>5 DEF NothingPending
  <2> QED
    BY <2>1 DEF Asleep
<1>8. Callers'
  BY <1>1, <1>2, <1>3, <1>4 DEF IInv, IpcInv, IpcTypeOK, Callers, CanRead, Mesg
<1>9. WaitingExact'
  <2>1. /\ Len(waiting'[e]) = Len(waiting[e]) + 1
        /\ waiting'[e][Len(waiting[e]) + 1] = p
        /\ \A i \in 1..Len(waiting[e]) : waiting'[e][i] = waiting[e][i]
        /\ Len(waiting[e]) \in Nat
    BY <1>4 DEF IInv, IpcInv, IpcTypeOK
  <2>2. \A f \in Endpoints \ {e} : waiting'[f] = waiting[f]
    BY <1>4 DEF IInv, IpcInv, IpcTypeOK
  <2>3. \A f \in Endpoints : \A i \in 1..Len(waiting[f]) :
          /\ waiting[f][i] # p
          /\ state'[waiting[f][i]] = state[waiting[f][i]]
          /\ ep'[waiting[f][i]] = ep[waiting[f][i]]
    <3> SUFFICES ASSUME NEW f \in Endpoints, NEW i \in 1..Len(waiting[f])
                 PROVE  /\ waiting[f][i] # p
                        /\ state'[waiting[f][i]] = state[waiting[f][i]]
                        /\ ep'[waiting[f][i]] = ep[waiting[f][i]]
      OBVIOUS
    <3>1. /\ waiting[f][i] \in Procs
          /\ state[waiting[f][i]] \in {"block_send", "block_reply"}
      BY WaitingTyped DEF IInv, IpcInv, WaitingExact
    <3>2. waiting[f][i] # p /\ waiting[f][i] # n
      BY <1>1, <1>2, <3>1
    <3> QED
      BY <1>3, <1>4, <3>1, <3>2 DEF IInv, IpcInv, IpcTypeOK
  <2>4. state'[p] = "block_send" /\ ep'[p] = e /\ pc'[p] = "mesg"
    BY <1>1, <1>2, <1>3, <1>4 DEF IInv, IpcInv, IpcTypeOK
  <2>5. ASSUME NEW f \in Endpoints, NEW i \in 1..Len(waiting'[f])
        PROVE  /\ state'[waiting'[f][i]] \in {"block_send", "block_reply"}
               /\ ep'[waiting'[f][i]] = f
               /\ \A j \in 1..Len(waiting'[f]) : waiting'[f][i] = waiting'[f][j] => i = j
    <3>1. CASE f # e
      <4>1. waiting'[f] = waiting[f] /\ i \in 1..Len(waiting[f])
        BY <2>2, <3>1
      <4> QED
        BY <2>3, <4>1 DEF IInv, IpcInv, WaitingExact
    <3>2. CASE f = e
      <4> DEFINE k == Len(waiting[e])
      <4>1. i \in 1..(k + 1) /\ k \in Nat
        BY <2>1, <3>2
      <4>2. CASE i = k + 1
        <5>1. waiting'[e][i] = p
          BY <2>1, <4>2
        <5>2. ASSUME NEW j \in 1..(k + 1), waiting'[e][j] = p
              PROVE  j = i
          BY <2>1, <2>3, <4>1, <4>2, <5>2
        <5> QED
          BY <2>1, <2>4, <3>2, <5>1, <5>2
      <4>3. CASE i \in 1..k
        <5>1. /\ state'[waiting'[e][i]] \in {"block_send", "block_reply"}
              /\ ep'[waiting'[e][i]] = e
          BY <2>1, <2>3, <4>3 DEF IInv, IpcInv, WaitingExact
        <5>2. ASSUME NEW j \in 1..(k + 1), waiting'[e][i] = waiting'[e][j]
              PROVE  i = j
          <6>1. j \in 1..k
            BY <2>1, <2>3, <4>1, <4>3, <5>2
          <6> QED
            BY <2>1, <4>3, <5>2, <6>1 DEF IInv, IpcInv, WaitingExact
        <5> QED
          BY <2>1, <3>2, <5>1, <5>2
      <4> QED
        BY <4>1, <4>2, <4>3
    <3> QED
      BY <3>1, <3>2
  <2>6. ASSUME NEW q \in Procs, state'[q] \in {"block_send", "block_reply"}
        PROVE  /\ pc'[q] = "mesg"
               /\ \E i \in 1..Len(waiting'[ep'[q]]) : waiting'[ep'[q]][i] = q
    <3>1. CASE q = p
      <4> DEFINE k == Len(waiting[e]) + 1
      <4>1. k \in 1..Len(waiting'[e]) /\ waiting'[e][k] = p
        BY <2>1
      <4>2. pc'[q] = "mesg" /\ ep'[q] = e
        BY <2>4, <3>1
      <4> HIDE DEF k
      <4> QED
        BY <3>1, <4>1, <4>2
    <3>2. CASE q # p
      <4>1. state[q] \in {"block_send", "block_reply"} /\ pc'[q] = pc[q] /\ ep'[q] = ep[q]
        BY <1>3, <1>4, <2>6, <3>2 DEF IInv, IpcInv, IpcTypeOK
      <4>2. pc[q] = "mesg" /\ ep[q] \in Endpoints
        BY <4>1 DEF IInv, IpcInv, IpcTypeOK, WaitingExact, Callers
      <4>3. PICK i \in 1..Len(waiting[ep[q]]) : waiting[ep[q]][i] = q
        BY <4>1 DEF IInv, IpcInv, WaitingExact
      <4>4. i \in 1..Len(waiting'[ep[q]]) /\ waiting'[ep[q]][i] = q
        BY <2>1, <2>2, <4>2, <4>3
      <4> QED
        BY <4>1, <4>2, <4>4
    <3> QED
      BY <3>1, <3>2
  <2> QED
    BY <2>5, <2>6 DEF WaitingExact
<1>10. MesgReturnsReply' /\ OneHolder'
  BY <1>1, <1>2, <1>3, <1>4 DEF IInv, IpcInv, IpcTypeOK, MesgReturnsReply, OneHolder
<1> QED
  BY <1>5, <1>6, <1>7, <1>8, <1>9, <1>10 DEF IpcInv

\* reply: the answered process leaves the list; its slot gets the capability.
LEMMA ReplyInv ==
  ASSUME IInv, Unshared, NEW p \in Procs, NEW e \in Endpoints,
         NEW c \in Ref(Endpoints), NEW n \in Procs, Reply(p, e, c, n)
  PROVE  IpcInv' /\ state'[p] = "ready"
<1> USE ConstantsOK DEF Ref, MayReply
<1>1. state[p] = "ready" /\ pc[p] = "user" /\ (c # nil => c \in caps[cap_root[p]])
  BY DEF IInv, IpcInv, IpcTypeOK, Reply, Running, CanRead
<1>2. PICK i \in 1..Len(waiting[e]) :
        /\ waiting[e][i] = n
        /\ state[n] = "block_reply"
        /\ waiting' = [waiting EXCEPT ![e] = DropAt(waiting[e], i)]
  BY DEF Reply
<1>3. n # p /\ pc[n] = "mesg" /\ ep[n] = e /\ offer[n] = nil
  BY <1>1, <1>2 DEF IInv, IpcInv, IpcTypeOK, WaitingExact, Callers
<1>4. \A q \in Procs : state'[q] = IF q = n THEN "ready" ELSE state[q]
  BY DEF Reply, Moved
<1>5. /\ m' = [m EXCEPT ![n] = "reply"]
      /\ UNCHANGED <<pc, ep, slot, offer, bound_signal, rwait, bound, signal>>
  BY DEF Reply
<1>6. /\ caps' \in [Caplists -> SUBSET Endpoints]
      /\ OneHolder'
      /\ \A q \in Procs \ {p} : caps[cap_root[q]] \subseteq caps'[cap_root[q]]
  <2>1. CASE c = nil \/ ~slot[n]
    <3>1. caps' = caps
      BY <2>1 DEF Reply
    <3> QED
      BY <3>1 DEF IInv, IpcInv, IpcTypeOK, OneHolder
  <2>2. CASE c # nil /\ slot[n]
    <3>1. caps' = Transfer(c, cap_root[p], cap_root[n], nil)
      BY <1>3, <2>2 DEF Reply
    <3>2. /\ c \in Endpoints /\ c \in caps[cap_root[p]]
          /\ cap_root[p] \in Caplists /\ cap_root[n] \in Caplists
          /\ cap_root[p] # cap_root[n]
      BY <1>1, <1>3, <2>2 DEF Unshared
    <3>3. /\ caps' \in [Caplists -> SUBSET Endpoints]
          /\ \A x \in Caplists, y \in Endpoints :
               y \in caps'[x] <=> IF y = c THEN x = cap_root[n] ELSE y \in caps[x]
      BY <3>1, <3>2, TransferProps DEF IInv, IpcInv
    <3>4. OneHolder'
      BY <3>2, <3>3 DEF IInv, IpcInv, OneHolder
    <3>5. \A q \in Procs \ {p} : c \notin caps[cap_root[q]]
      BY <3>2 DEF IInv, IpcInv, OneHolder, Unshared
    <3> QED
      BY <3>3, <3>4, <3>5 DEF IInv, IpcInv, IpcTypeOK
  <2> QED
    BY <2>1, <2>2
<1>7. /\ waiting' \in [Endpoints -> Seq(Procs)]
      /\ \A f \in Endpoints \ {e} : waiting'[f] = waiting[f]
      /\ Len(waiting[e]) \in Nat
      /\ Len(waiting'[e]) = Len(waiting[e]) - 1
      /\ \A j \in 1..(Len(waiting[e]) - 1) :
           waiting'[e][j] = waiting[e][IF j < i THEN j ELSE j + 1]
  <2> DEFINE s == waiting[e]
             d == DropAt(waiting[e], i)
  <2>1. waiting \in [Endpoints -> Seq(Procs)] /\ s \in Seq(Procs) /\ Len(s) \in Nat
    BY DEF IInv, IpcInv, IpcTypeOK
  <2>2. /\ d \in Seq(Procs)
        /\ Len(d) = Len(s) - 1
        /\ \A j \in 1..(Len(s) - 1) : d[j] = s[IF j < i THEN j ELSE j + 1]
    BY <2>1, DropAtProps
  <2>3. waiting' = [waiting EXCEPT ![e] = d]
    BY <1>2
  <2>4. waiting'[e] = d
    BY <2>1, <2>3
  <2> HIDE DEF d
  <2>5. /\ waiting' \in [Endpoints -> Seq(Procs)]
        /\ \A f \in Endpoints \ {e} : waiting'[f] = waiting[f]
    BY <2>1, <2>2, <2>3
  <2> QED
    BY <2>1, <2>2, <2>4, <2>5
<1>8. IpcTypeOK'
  <2>1. state' \in [Procs -> {"fault", "ready", "block_recv", "block_send", "block_reply"}]
    BY DEF IInv, IpcInv, IpcTypeOK, Reply, Moved
  <2> QED
    BY <1>5, <1>6, <1>7, <2>1 DEF IInv, IpcInv, IpcTypeOK
<1>9. Receivers'
  <2>1. ASSUME NEW q \in Procs, pc[q] = "recv"
        PROVE  q # p /\ q # n /\ ep[q] \in Endpoints /\ ep[q] \in caps'[cap_root[q]]
    BY <1>1, <1>3, <1>6, <2>1 DEF IInv, IpcInv, Receivers, CanRead
  <2> QED
    BY <1>3, <1>4, <1>5, <2>1 DEF IInv, IpcInv, IpcTypeOK, Receivers, CanRead
<1>10. \A f \in Endpoints : \A j \in 1..Len(waiting'[f]) :
        \E k \in 1..Len(waiting[f]) :
          /\ waiting'[f][j] = waiting[f][k]
          /\ f = e => k = (IF j < i THEN j ELSE j + 1)
          /\ f # e => k = j
  <2> SUFFICES ASSUME NEW f \in Endpoints, NEW j \in 1..Len(waiting'[f])
               PROVE  \E k \in 1..Len(waiting[f]) :
                        /\ waiting'[f][j] = waiting[f][k]
                        /\ f = e => k = (IF j < i THEN j ELSE j + 1)
                        /\ f # e => k = j
    OBVIOUS
  <2>1. CASE f = e
    <3>1. (IF j < i THEN j ELSE j + 1) \in 1..Len(waiting[e])
      BY <1>7, <2>1
    <3> QED
      BY <1>7, <2>1, <3>1
  <2>2. CASE f # e
    BY <1>7, <2>2
  <2> QED
    BY <2>1, <2>2
<1>11. Asleep'
  <2>1. ASSUME NEW q \in Procs, state'[q] = "block_recv"
        PROVE  NothingPending(q, ep[q])'
    <3>1. state[q] = "block_recv" /\ ep[q] \in Endpoints /\ NothingPending(q, ep[q])
      BY <1>4, <2>1 DEF IInv, IpcInv, IpcTypeOK, Asleep, Receivers
    <3>2. ASSUME NEW j \in 1..Len(waiting'[ep[q]])
          PROVE  state'[waiting'[ep[q]][j]] # "block_send"
      <4>1. PICK k \in 1..Len(waiting[ep[q]]) : waiting'[ep[q]][j] = waiting[ep[q]][k]
        BY <1>10, <3>1
      <4> QED
        BY <1>4, <3>1, <4>1, WaitingTyped DEF IInv, IpcInv, NothingPending
    <3> QED
      BY <1>5, <3>1, <3>2 DEF NothingPending
  <2> QED
    BY <2>1 DEF Asleep
<1>12. Callers'
  BY <1>1, <1>3, <1>4, <1>5, <1>6 DEF IInv, IpcInv, IpcTypeOK, Callers, CanRead
<1>13. WaitingExact'
  <2>1. ASSUME NEW f \in Endpoints, NEW j \in 1..Len(waiting'[f])
        PROVE  /\ state'[waiting'[f][j]] \in {"block_send", "block_reply"}
               /\ ep'[waiting'[f][j]] = f
               /\ \A h \in 1..Len(waiting'[f]) : waiting'[f][j] = waiting'[f][h] => j = h
    <3>1. PICK k \in 1..Len(waiting[f]) :
            /\ waiting'[f][j] = waiting[f][k]
            /\ f = e => k = (IF j < i THEN j ELSE j + 1)
            /\ f # e => k = j
      BY <1>10
    <3>2. waiting[f][k] \in Procs /\ waiting[f][k] # n
      BY <1>2, <1>3, <3>1, WaitingTyped DEF IInv, IpcInv, WaitingExact
    <3>3. ASSUME NEW h \in 1..Len(waiting'[f]), waiting'[f][j] = waiting'[f][h]
          PROVE  j = h
      <4>1. PICK l \in 1..Len(waiting[f]) :
              /\ waiting'[f][h] = waiting[f][l]
              /\ f = e => l = (IF h < i THEN h ELSE h + 1)
              /\ f # e => l = h
        BY <1>10
      <4>2. waiting[f][k] = waiting[f][l]
        BY <3>1, <3>3, <4>1
      <4>3. k = l
        BY <4>2 DEF IInv, IpcInv, WaitingExact
      <4> QED
        BY <1>7, <3>1, <4>1, <4>3
    <3> QED
      BY <1>4, <1>5, <3>1, <3>2, <3>3 DEF IInv, IpcInv, WaitingExact
  <2>2. ASSUME NEW q \in Procs, state'[q] \in {"block_send", "block_reply"}
        PROVE  /\ pc'[q] = "mesg"
               /\ \E j \in 1..Len(waiting'[ep'[q]]) : waiting'[ep'[q]][j] = q
    <3>1. q # n /\ state[q] \in {"block_send", "block_reply"}
      BY <1>4, <2>2
    <3>2. pc[q] = "mesg" /\ ep[q] \in Endpoints
      BY <3>1 DEF IInv, IpcInv, WaitingExact, Callers
    <3>3. PICK k \in 1..Len(waiting[ep[q]]) : waiting[ep[q]][k] = q
      BY <3>1 DEF IInv, IpcInv, WaitingExact
    <3>4. CASE ep[q] # e
      BY <1>5, <1>7, <3>2, <3>3, <3>4
    <3>5. CASE ep[q] = e
      <4> DEFINE j == IF k < i THEN k ELSE k - 1
      <4>1. k # i /\ k \in 1..Len(waiting[e])
        BY <1>2, <3>1, <3>3, <3>5
      <4>2. j \in 1..(Len(waiting[e]) - 1) /\ (IF j < i THEN j ELSE j + 1) = k
        BY <1>7, <4>1
      <4>3. waiting'[e][j] = q /\ j \in 1..Len(waiting'[e])
        BY <1>7, <3>3, <3>5, <4>2
      <4> HIDE DEF j
      <4> QED
        BY <1>5, <3>2, <3>5, <4>3
    <3> QED
      BY <3>4, <3>5
  <2> QED
    BY <2>1, <2>2 DEF WaitingExact
<1>14. MesgReturnsReply' /\ state'[p] = "ready"
  BY <1>1, <1>3, <1>4, <1>5 DEF IInv, IpcInv, IpcTypeOK, MesgReturnsReply
<1> QED
  BY <1>6, <1>8, <1>9, <1>11, <1>12, <1>13, <1>14 DEF IpcInv

\* A signal to an endpoint that is bound to a process.
LEMMA SignalBoundInv ==
  ASSUME IInv, NEW p \in Procs, NEW e \in Endpoints, NEW s \in SUBSET Bits,
         NEW n \in Ref(Procs), SignalBound(p, e, s, n)
  PROVE  IpcInv' /\ state'[p] = "ready"
<1> USE ConstantsOK DEF Ref
<1> DEFINE b == bound[e]
<1>1. state[p] = "ready" /\ b \in Procs
  BY DEF IInv, IpcInv, IpcTypeOK, SignalBound, Woken, Running
<1>2. n = IF state[b] = "block_recv" THEN b ELSE nil
  BY DEF SignalBound, Woken
<1>3. \A q \in Procs : state'[q] = IF q = n THEN "ready" ELSE state[q]
  BY DEF SignalBound, Woken, Moved
<1>4. /\ bound_signal' = [bound_signal EXCEPT ![b] = bound_signal[b] \cup s]
      /\ UNCHANGED <<pc, ep, m, slot, offer, waiting, rwait, bound, signal, caps>>
  BY DEF SignalBound, Woken
<1> HIDE DEF b
<1>5. IpcTypeOK'
  <2>1. state' \in [Procs -> {"fault", "ready", "block_recv", "block_send", "block_reply"}]
    BY DEF IInv, IpcInv, IpcTypeOK, SignalBound, Woken, Moved
  <2> QED
    BY <1>1, <1>4, <2>1 DEF IInv, IpcInv, IpcTypeOK
<1>6. Receivers'
  BY <1>1, <1>2, <1>3, <1>4 DEF IInv, IpcInv, IpcTypeOK, Receivers, CanRead
<1>7. Asleep'
  <2>1. ASSUME NEW q \in Procs, state'[q] = "block_recv"
        PROVE  NothingPending(q, ep[q])'
    <3>1. /\ state[q] = "block_recv" /\ q # b
          /\ ep[q] \in Endpoints /\ NothingPending(q, ep[q])
      BY <1>2, <1>3, <2>1 DEF IInv, IpcInv, IpcTypeOK, Asleep, Receivers
    <3>2. \A i \in 1..Len(waiting[ep[q]]) : state'[waiting[ep[q]][i]] # "block_send"
      BY <1>3, <3>1, WaitingTyped DEF IInv, IpcInv, NothingPending
    <3> QED
      BY <1>4, <3>1, <3>2 DEF IInv, IpcInv, IpcTypeOK, NothingPending
  <2> QED
    BY <2>1 DEF Asleep
<1>8. Callers'
  BY <1>1, <1>2, <1>3, <1>4 DEF IInv, IpcInv, IpcTypeOK, Callers, CanRead
<1>9. WaitingExact'
  BY <1>1, <1>2, <1>3, <1>4, WaitingKept DEF IInv, IpcInv, IpcTypeOK
<1>10. MesgReturnsReply' /\ OneHolder' /\ state'[p] = "ready"
  BY <1>1, <1>2, <1>3, <1>4 DEF IInv, IpcInv, IpcTypeOK, MesgReturnsReply, OneHolder, Receivers
<1> QED
  BY <1>5, <1>6, <1>7, <1>8, <1>9, <1>10 DEF IpcInv

\* A signal to an endpoint that is not bound.
LEMMA SignalInv ==
  ASSUME IInv, NEW p \in Procs, NEW e \in Endpoints, NEW s \in SUBSET Bits,
         NEW n \in Ref(Procs), Signal(p, e, s, n)
  PROVE  IpcInv' /\ state'[p] = "ready"
<1> USE ConstantsOK DEF Ref
<1>1. state[p] = "ready" /\ n = rwait[e]
  BY DEF IInv, IpcInv, IpcTypeOK, Signal, Running
<1>2. n # nil => pc[n] = "recv" /\ ep[n] = e /\ state[n] \in {"ready", "block_recv"}
  BY <1>1 DEF IInv, IpcInv, IpcTypeOK, Receivers
<1>3. \A q \in Procs : state'[q] = IF q = n THEN "ready" ELSE state[q]
  BY DEF Signal, Moved
<1>4. /\ signal' = [signal EXCEPT ![e] = signal[e] \cup s]
      /\ UNCHANGED <<pc, ep, m, slot, offer, bound_signal, waiting, rwait, bound, caps>>
  BY DEF Signal
<1>5. IpcTypeOK'
  <2>1. state' \in [Procs -> {"fault", "ready", "block_recv", "block_send", "block_reply"}]
    BY DEF IInv, IpcInv, IpcTypeOK, Signal, Moved
  <2> QED
    BY <1>4, <2>1 DEF IInv, IpcInv, IpcTypeOK
<1>6. Receivers'
  BY <1>2, <1>3, <1>4 DEF IInv, IpcInv, IpcTypeOK, Receivers, CanRead
<1>7. Asleep'
  <2>1. ASSUME NEW q \in Procs, state'[q] = "block_recv"
        PROVE  NothingPending(q, ep[q])'
    <3>1. /\ state[q] = "block_recv" /\ q # n
          /\ ep[q] \in Endpoints /\ NothingPending(q, ep[q])
      BY <1>3, <2>1 DEF IInv, IpcInv, IpcTypeOK, Asleep, Receivers
    <3>2. ep[q] # e
      BY <1>1, <3>1 DEF IInv, IpcInv, IpcTypeOK, Receivers
    <3>3. \A i \in 1..Len(waiting[ep[q]]) : state'[waiting[ep[q]][i]] # "block_send"
      BY <1>3, <3>1, WaitingTyped DEF IInv, IpcInv, NothingPending
    <3> QED
      BY <1>4, <3>1, <3>2, <3>3 DEF IInv, IpcInv, IpcTypeOK, NothingPending
  <2> QED
    BY <2>1 DEF Asleep
<1>8. Callers'
  BY <1>2, <1>3, <1>4 DEF IInv, IpcInv, IpcTypeOK, Callers, CanRead
<1>9. WaitingExact'
  BY <1>2, <1>3, <1>4, WaitingKept DEF IInv, IpcInv, IpcTypeOK
<1>10. MesgReturnsReply' /\ OneHolder' /\ state'[p] = "ready"
  BY <1>1, <1>2, <1>3, <1>4 DEF IInv, IpcInv, IpcTypeOK, MesgReturnsReply, OneHolder
<1> QED
  BY <1>5, <1>6, <1>7, <1>8, <1>9, <1>10 DEF IpcInv

\* Binding and unbinding touch e->bound only.
LEMMA BindInv ==
  ASSUME IInv, NEW p \in Procs, NEW e \in Endpoints,
         EndpointBind(p, e) \/ EndpointUnbind(p, e)
  PROVE  IpcInv' /\ state'[p] = "ready"
<1> USE ConstantsOK DEF Ref
<1>1. /\ bound' \in [Endpoints -> Ref(Procs)]
      /\ UNCHANGED <<state, pc, ep, m, slot, offer, bound_signal, waiting, rwait, signal, caps>>
      /\ state[p] = "ready"
  <2>1. CASE EndpointBind(p, e)
    BY <2>1 DEF IInv, IpcInv, IpcTypeOK, EndpointBind, Running
  <2>2. CASE EndpointUnbind(p, e)
    BY <2>2 DEF IInv, IpcInv, IpcTypeOK, EndpointUnbind, Running
  <2> QED
    BY <2>1, <2>2
<1> QED
  BY <1>1 DEF IInv, IpcInv, IpcTypeOK, Receivers, Asleep, NothingPending, Callers, CanRead,
              WaitingExact, MesgReturnsReply, OneHolder

\* proc_start of a process that has stopped, and the stopping of the running one.
LEMMA StartStopInv ==
  ASSUME IInv, NEW p \in Procs, NEW q \in Procs, NEW s \in {"ready", "fault"},
         IF s = "ready" THEN ProcStart(p, q) ELSE Stop(p) /\ q = p
  PROVE  IpcInv' /\ state' = [state EXCEPT ![q] = s] /\ state[p] = "ready"
<1> USE ConstantsOK DEF Ref
<1>1. /\ state' = [state EXCEPT ![q] = s] /\ state[p] = "ready"
      /\ pc[q] = "user" /\ UNCHANGED pc
      /\ state[q] \in {"fault", "ready"}
      /\ UNCHANGED <<ep, m, slot, offer, bound_signal, waiting, rwait, bound, signal, caps>>
  <2>1. CASE s = "ready"
    BY <2>1 DEF IInv, IpcInv, IpcTypeOK, ProcStart, Running, Receivers, Callers
  <2>2. CASE s = "fault"
    BY <2>2 DEF IInv, IpcInv, IpcTypeOK, Stop, Running
  <2> QED
    BY <2>1, <2>2
<1>2. IpcTypeOK' /\ Receivers' /\ Callers'
  BY <1>1 DEF IInv, IpcInv, IpcTypeOK, Receivers, Callers, CanRead
<1>3. Asleep'
  <2>1. ASSUME NEW r \in Procs, state'[r] = "block_recv"
        PROVE  NothingPending(r, ep[r])'
    <3>1. ep[r] \in Endpoints /\ NothingPending(r, ep[r])
      BY <1>1, <2>1 DEF IInv, IpcInv, IpcTypeOK, Asleep, Receivers
    <3>2. \A i \in 1..Len(waiting[ep[r]]) : state'[waiting[ep[r]][i]] # "block_send"
      BY <1>1, <3>1, WaitingTyped DEF IInv, IpcInv, IpcTypeOK, NothingPending
    <3> QED
      BY <1>1, <3>1, <3>2 DEF NothingPending
  <2> QED
    BY <2>1 DEF Asleep
<1>4. WaitingExact'
  BY <1>1, WaitingKept DEF IInv, IpcInv, IpcTypeOK
<1>5. MesgReturnsReply' /\ OneHolder'
  BY <1>1 DEF IInv, IpcInv, IpcTypeOK, MesgReturnsReply, OneHolder
<1> QED
  BY <1>1, <1>2, <1>3, <1>4, <1>5 DEF IpcInv

\* A step that returns to the running process keeps everything.
LEMMA StaysInv ==
  ASSUME IInv, Unshared, NEW p \in Procs, Stays(p)
  PROVE  IpcInv' /\ state'[p] = "ready" /\ up = p
<1> USE DEF Ref
<1>1. CASE \E e \in Endpoints, acc \in BOOLEAN, rw \in Ref(Procs) :
             InRecv(p, e, acc, rw) /\ RecvReturn(p, e, acc, rw)
  <2>1. PICK e \in Endpoints, acc \in BOOLEAN, rw \in Ref(Procs) :
          InRecv(p, e, acc, rw) /\ RecvReturn(p, e, acc, rw)
    BY <1>1
  <2>2. up = p
    BY <2>1 DEF InRecv, Running
  <2> QED
    BY <2>1, <2>2, RecvBoundSignalInv, RecvSignalInv, RecvRequestInv DEF RecvReturn
<1>2. CASE MesgReturn(p)
  BY <1>2, MesgReturnInv DEF MesgReturn
<1>3. CASE \E e \in Endpoints, s \in SUBSET Bits :
             Signal(p, e, s, nil) \/ SignalBound(p, e, s, nil)
  BY <1>3, SignalInv, SignalBoundInv DEF Signal, SignalBound, Running
<1>4. CASE \E e \in Endpoints : EndpointBind(p, e) \/ EndpointUnbind(p, e)
  BY <1>4, BindInv DEF EndpointBind, EndpointUnbind, Running
<1> QED
  BY <1>1, <1>2, <1>3, <1>4 DEF Stays

\* A step that ends in schedule() leaves message passing consistent, whatever
\* process comes next.
LEMMA SwitchInv ==
  ASSUME IInv, Unshared, NEW p \in Procs,
         (\E n \in Procs : Wakes(p, n)) \/ Blocks(p) \/ Stop(p)
  PROVE  IpcInv'
<1> USE DEF Ref
<1>1. ASSUME NEW n \in Procs, Wakes(p, n) PROVE IpcInv'
  BY <1>1, MesgInv, ReplyInv, SignalInv, SignalBoundInv DEF Wakes
<1>2. CASE Blocks(p)
  <2>1. CASE Yield(p)
    BY <2>1 DEF Yield, ipcVars, IInv, IpcInv, IpcTypeOK, Receivers, Asleep, NothingPending,
                Callers, CanRead, WaitingExact, MesgReturnsReply, OneHolder
  <2> QED
    BY <1>2, <2>1, RecvBlockInv, MesgInv DEF Blocks
<1>3. CASE Stop(p)
  BY <1>3, StartStopInv
<1> QED
  BY <1>1, <1>2, <1>3

\* The panic for a second receiver cannot happen: e->rwait is the process's own.
LEMMA NoRwaitPanic ==
  ASSUME IInv, Unshared, NEW p \in Procs, NEW e \in Endpoints,
         NEW acc \in BOOLEAN, NEW rw \in Ref(Procs), InRecv(p, e, acc, rw)
  PROVE  ~RwaitTaken(p, e, rw)
<1> USE ConstantsOK DEF Ref
<1>1. CASE Running(p) /\ CanRead(p, e) /\ rw = rwait[e]
  <2>1. ASSUME rwait[e] # nil PROVE FALSE
    <3>1. /\ rwait[e] \in Procs /\ pc[rwait[e]] = "recv"
          /\ e \in caps[cap_root[rwait[e]]]
      BY <2>1 DEF IInv, IpcInv, IpcTypeOK, Receivers, CanRead
    <3>2. rwait[e] = p
      BY <1>1, <3>1 DEF IInv, IpcInv, OneHolder, CanRead, Unshared
    <3> QED
      BY <1>1, <3>1, <3>2 DEF Running
  <2> QED
    BY <1>1, <2>1 DEF RwaitTaken
<1>2. CASE rw = nil
  BY <1>2 DEF RwaitTaken
<1> QED
  BY <1>1, <1>2 DEF InRecv

\* Every step of the kernel preserves the invariant.
LEMMA NextInv ==
  ASSUME IInv, Unshared, [Next]_vars
  PROVE  IInv'
<1> USE ConstantsOK DEF Ref
<1>1. ASSUME NEW p \in Procs, Stays(p), UNCHANGED <<up, panic>>
      PROVE  IInv'
  BY <1>1, StaysInv DEF IInv, IpcInv, TypeOK, RwaitNeverTaken
<1>2. ASSUME NEW p \in Procs, NEW q \in Procs, ProcStart(p, q), UNCHANGED <<up, panic>>
      PROVE  IInv'
  <2>1. IpcInv' /\ state' = [state EXCEPT ![q] = "ready"]
    BY <1>2, StartStopInv
  <2> QED
    BY <1>2, <2>1 DEF IInv, IpcInv, IpcTypeOK, TypeOK, RwaitNeverTaken
<1>3. ASSUME IpcInv', Dispatch
      PROVE  IInv'
  BY <1>3 DEF Dispatch, IInv, IpcInv, TypeOK, RwaitNeverTaken
<1>4. ASSUME NEW p \in Procs, Panics(p), up' = nil, UNCHANGED ipcVars
      PROVE  IInv'
  <2>1. panic' = "give"
    BY <1>4, NoRwaitPanic DEF Panics
  <2>2. IpcInv'
    BY <1>4 DEF ipcVars, IInv, IpcInv, IpcTypeOK, Receivers, Asleep, NothingPending,
                Callers, CanRead, WaitingExact, MesgReturnsReply, OneHolder
  <2> QED
    BY <1>4, <2>1, <2>2 DEF IInv, IpcInv, TypeOK, RwaitNeverTaken
<1>5. CASE UNCHANGED vars
  <2>1. UNCHANGED ipcVars /\ UNCHANGED up /\ UNCHANGED panic
    BY <1>5 DEF vars
  <2>2. IpcInv'
    BY <2>1 DEF ipcVars, IInv, IpcInv, IpcTypeOK, Receivers, Asleep, NothingPending,
                Callers, CanRead, WaitingExact, MesgReturnsReply, OneHolder
  <2>3. UNCHANGED state
    BY <2>1 DEF ipcVars
  <2> QED
    BY <2>1, <2>2, <2>3 DEF IInv, IpcInv, TypeOK, RwaitNeverTaken
<1>6. ASSUME NEW p \in Procs, Dispatch,
             (\E n \in Procs : Wakes(p, n)) \/ Blocks(p) \/ Stop(p)
      PROVE  IInv'
  <2>1. IpcInv'
    BY <1>6, SwitchInv
  <2> QED
    BY <1>6, <2>1, <1>3
<1>7. ASSUME Next PROVE IInv'
  <2>1. CASE Halted
    BY <2>1, <1>5 DEF Halted
  <2>2. ASSUME NEW p \in Procs,
               \/ Stays(p) /\ UNCHANGED <<up, panic>>
               \/ \E q \in Procs : ProcStart(p, q) /\ UNCHANGED <<up, panic>>
               \/ \E n \in Procs : Wakes(p, n) /\ Dispatch
               \/ Blocks(p) /\ Dispatch
               \/ Stop(p) /\ Dispatch
               \/ Panics(p) /\ up' = nil /\ UNCHANGED ipcVars
        PROVE  IInv'
    BY ONLY <2>2, <1>1, <1>2, <1>4, <1>6
  <2> QED
    BY <1>7, <2>1, <2>2 DEF Next
<1> QED
  BY <1>5, <1>7

\* The inductive invariant holds in every reachable state.
LEMMA Invariance == Unshared => (Spec => []IInv)
<1> SUFFICES ASSUME Unshared PROVE Spec => []IInv
  OBVIOUS
<1>1. IInv /\ [Next]_vars => IInv'
  BY NextInv
<1> QED
  BY InitInv, <1>1, PTL DEF Spec

-----------------------------------------------------------------------------
\* Every variable of the kernel keeps its type.
THEOREM TypeCorrect == Unshared => (Spec => []TypeOK)
<1>1. IInv => TypeOK
  BY DEF IInv
<1> QED
  BY <1>1, Invariance, PTL

\* The waiting lists hold exactly the processes blocked in mesg, each once.
THEOREM WaitingListsExact == Unshared => (Spec => []WaitingExact)
<1>1. IInv => WaitingExact
  BY DEF IInv, IpcInv
<1> QED
  BY <1>1, Invariance, PTL

\* No wakeup is lost: a process asleep in recv has nothing to receive, and
\* the next message or signal will find it in e->rwait.
THEOREM WakeupsNotLost == Unshared => (Spec => []NoLostWakeup)
<1>1. IInv => NoLostWakeup
  BY DEF IInv, IpcInv, NoLostWakeup, Asleep, Receivers
<1> QED
  BY <1>1, Invariance, PTL

\* mesg returns with a reply, never because something else woke the caller.
THEOREM RepliesOnly == Unshared => (Spec => []MesgReturnsReply)
<1>1. IInv => MesgReturnsReply
  BY DEF IInv, IpcInv
<1> QED
  BY <1>1, Invariance, PTL

\* The read capability of an endpoint is in exactly one caplist.
THEOREM CapabilitiesConserved == Unshared => (Spec => []OneHolder)
<1>1. IInv => OneHolder
  BY DEF IInv, IpcInv
<1> QED
  BY <1>1, Invariance, PTL

\* Hence one process at most receives on an endpoint, and the panic of recv
\* that asks for e->rwait to become a list is never reached.
THEOREM SingleReceiver == Unshared => (Spec => []RwaitNeverTaken)
<1>1. IInv => RwaitNeverTaken
  BY DEF IInv
<1> QED
  BY <1>1, Invariance, PTL

-----------------------------------------------------------------------------
(* The calls that Rpc promises.                                            *)

\* A step that moves no caller is not seen by Rpc.
LEMMA Unseen ==
  ASSUME IpcTypeOK, waiting' = waiting,
         \A q \in Procs :
           /\ state'[q] = "block_send" <=> state[q] = "block_send"
           /\ state'[q] = "block_reply" <=> state[q] = "block_reply"
           /\ state[q] = "block_reply" => ep'[q] = ep[q]
           /\ state'[q] = "ready" /\ pc'[q] = "mesg" <=> state[q] = "ready" /\ pc[q] = "mesg"
  PROVE  UNCHANGED Promise!rpcVars
<1>1. Sending' = Sending
  BY DEF Sending
<1>2. Queue' = Queue
  BY <1>1 DEF Queue
<1>3. Taken' = Taken
  BY DEF Taken
<1>4. Answered' = Answered
  BY DEF Answered
<1> QED
  BY <1>2, <1>3, <1>4 DEF Promise!rpcVars

\* The running process is ready, and is on no list.
LEMMA RunnerFree ==
  ASSUME IInv, NEW p \in Procs, up = p
  PROVE  /\ state[p] = "ready"
         /\ \A e \in Endpoints : waiting[e] \in Seq(Procs) /\ OneEach(waiting[e])
         /\ \A e \in Endpoints : \A i \in 1..Len(waiting[e]) :
              waiting[e][i] \in Procs /\ waiting[e][i] # p
<1>1. state[p] = "ready"
  BY ConstantsOK DEF IInv
<1>2. ASSUME NEW e \in Endpoints
      PROVE  waiting[e] \in Seq(Procs) /\ DOMAIN waiting[e] = 1..Len(waiting[e])
  <2>1. waiting[e] \in Seq(Procs)
    BY DEF IInv, IpcInv, IpcTypeOK
  <2> QED
    BY <2>1
<1>3. \A e \in Endpoints : OneEach(waiting[e])
  BY <1>2 DEF IInv, IpcInv, WaitingExact, OneEach
<1>4. ASSUME NEW e \in Endpoints, NEW i \in 1..Len(waiting[e])
      PROVE  waiting[e][i] \in Procs /\ waiting[e][i] # p
  <2>1. waiting[e][i] \in Procs
    BY <1>2
  <2>2. state[waiting[e][i]] \in {"block_send", "block_reply"}
    BY DEF IInv, IpcInv, WaitingExact
  <2> QED
    BY <1>1, <2>1, <2>2
<1> QED
  BY <1>1, <1>2, <1>3, <1>4

\* A request is received: it was the first at its endpoint.
LEMMA RecvTakes ==
  ASSUME IInv, NEW p \in Procs, NEW e \in Endpoints, NEW acc \in BOOLEAN, up = p,
         pc[p] # "mesg", RecvRequest(p, e, acc)
  PROVE  Promise!Take(e)
<1> USE DEF IInv, IpcInv
<1>1. PICK i \in 1..Len(waiting[e]) :
        /\ FirstSender(e, i)
        /\ state' = [state EXCEPT ![waiting[e][i]] = "block_reply"]
  BY DEF RecvRequest
<1> DEFINE s == waiting[e][i]
<1>2. /\ state[p] = "ready" /\ s \in Procs /\ s # p
      /\ \A f \in Endpoints : waiting[f] \in Seq(Procs) /\ OneEach(waiting[f])
      /\ \A f \in Endpoints : \A j \in 1..Len(waiting[f]) : waiting[f][j] \in Procs
  BY RunnerFree
<1>3. state[s] = "block_send" /\ ep[s] = e
  BY <1>1 DEF FirstSender, WaitingExact
<1>4. /\ waiting' = waiting
      /\ pc' = [pc EXCEPT ![p] = "user"]
      /\ ep' = [ep EXCEPT ![p] = nil]
  BY DEF RecvRequest, Returns
<1> HIDE DEF s
<1>5. \A q \in Procs : state'[q] = IF q = s THEN "block_reply" ELSE state[q]
  BY <1>1 DEF IpcTypeOK, s
<1>6. Sending' = Sending \ {s}
  BY <1>2, <1>5 DEF Sending
<1>7. /\ Queue[e] # <<>> /\ Head(Queue[e]) = s
      /\ Tail(Queue[e]) = Kept(waiting[e], Sending')
  <2>1. s \in Sending /\ \A j \in 1..(i - 1) : waiting[e][j] \notin Sending
    BY <1>1, <1>2, <1>3 DEF FirstSender, Sending
  <2>2. /\ Kept(waiting[e], Sending) # <<>>
        /\ Head(Kept(waiting[e], Sending)) = waiting[e][i]
        /\ Tail(Kept(waiting[e], Sending)) = Kept(waiting[e], Sending \ {waiting[e][i]})
    BY <1>2, <2>1, KeptFirst DEF s
  <2> QED
    BY <1>6, <2>2 DEF Queue, s
<1>8. ASSUME NEW f \in Endpoints, f # e PROVE Kept(waiting[f], Sending') = Queue[f]
  <2>1. ASSUME NEW j \in 1..Len(waiting[f])
        PROVE  waiting[f][j] \in Sending' <=> waiting[f][j] \in Sending
    <3>1. ep[waiting[f][j]] = f
      BY DEF WaitingExact
    <3> QED
      BY <1>3, <1>6, <1>8, <3>1
  <2>2. Kept(waiting[f], Sending') = Kept(waiting[f], Sending)
    BY <1>2, <2>1, KeptSame
  <2> QED
    BY <2>2 DEF Queue
<1>9. Queue' = [Queue EXCEPT ![e] = Tail(@)]
  <2>1. Queue' = [f \in Endpoints |-> Kept(waiting[f], Sending')]
    BY <1>4 DEF Queue
  <2>2. Queue = [f \in Endpoints |-> Queue[f]]
    BY DEF Queue
  <2> QED
    BY <1>7, <1>8, <2>1, <2>2
<1>10. Taken' = Taken \cup {<<s, e>>}
  <2>1. \A q \in Procs : q # p => ep'[q] = ep[q]
    BY <1>4 DEF IpcTypeOK
  <2> QED
    BY <1>2, <1>3, <1>5, <2>1 DEF Taken
<1>11. Answered' = Answered
  <2>1. \A q \in Procs : q # p => pc'[q] = pc[q]
    BY <1>4 DEF IpcTypeOK
  <2>2. pc'[p] = "user"
    BY <1>4 DEF IpcTypeOK
  <2> QED
    BY <1>3, <1>5, <2>1, <2>2 DEF Answered
<1> QED
  BY <1>7, <1>9, <1>10, <1>11 DEF Promise!Take

\* mesg begins a call by a process that has none.
LEMMA MesgCalls ==
  ASSUME IInv, NEW p \in Procs, NEW e \in Endpoints, NEW b, NEW c,
         NEW n \in Ref(Procs), Mesg(p, e, b, c, n)
  PROVE  Promise!Call(p, e)
<1> USE DEF IInv, IpcInv
<1>1. up = p /\ pc[p] = "user" /\ n = rwait[e]
  BY DEF Mesg, Running
<1>2. /\ state[p] = "ready"
      /\ \A f \in Endpoints : waiting[f] \in Seq(Procs) /\ OneEach(waiting[f])
      /\ \A f \in Endpoints : \A j \in 1..Len(waiting[f]) :
           waiting[f][j] \in Procs /\ waiting[f][j] # p
  BY <1>1, RunnerFree
<1>3. n # nil => n \in Procs /\ pc[n] = "recv" /\ state[n] \in {"block_recv", "ready"} /\ n # p
  BY <1>1 DEF Receivers, Ref
<1>4. \A q \in Procs : state'[q] = IF q = n THEN "ready" ELSE IF q = p THEN "block_send" ELSE state[q]
  BY DEF Mesg, Moved
<1>5. /\ waiting' = [waiting EXCEPT ![e] = Append(@, p)]
      /\ \A q \in Procs : q # p => pc'[q] = pc[q] /\ ep'[q] = ep[q]
  BY DEF Mesg, IpcTypeOK
<1>6. n # p /\ nil \notin Procs
  BY <1>3, ConstantsOK
<1>7. Sending' = Sending \cup {p} /\ p \notin Sending
  BY <1>2, <1>3, <1>4, <1>6 DEF Sending
<1>8. ASSUME NEW f \in Endpoints PROVE Kept(waiting[f], Sending') = Queue[f]
  <2>1. \A j \in 1..Len(waiting[f]) : waiting[f][j] \in Sending' <=> waiting[f][j] \in Sending
    BY <1>2, <1>7
  <2>2. Kept(waiting[f], Sending') = Kept(waiting[f], Sending)
    BY <1>2, <2>1, KeptSame
  <2> QED
    BY <2>2 DEF Queue
<1>9. Kept(Append(waiting[e], p), Sending') = Append(Queue[e], p)
  <2>1. p \in Sending'
    BY <1>7
  <2>2. Kept(Append(waiting[e], p), Sending') = Append(Kept(waiting[e], Sending'), p)
    BY <1>2, <2>1, KeptAppend
  <2> QED
    BY <1>8, <2>2
<1>10. Queue' = [Queue EXCEPT ![e] = Append(@, p)]
  <2>1. Queue' = [f \in Endpoints |-> Kept(waiting'[f], Sending')]
    BY DEF Queue
  <2>2. Queue = [f \in Endpoints |-> Queue[f]]
    BY DEF Queue
  <2>3. \A f \in Endpoints : waiting'[f] = IF f = e THEN Append(waiting[e], p) ELSE waiting[f]
    BY <1>5 DEF IpcTypeOK
  <2> QED
    BY <1>8, <1>9, <2>1, <2>2, <2>3
<1>11. Taken' = Taken
  BY <1>2, <1>3, <1>4, <1>5, <1>6 DEF Taken
<1>12. Answered' = Answered
  <2>1. ASSUME NEW q \in Procs PROVE q \in Answered' <=> q \in Answered
    <3>1. CASE q = p
      BY <1>1, <1>4, <1>6, <3>1 DEF Answered
    <3>2. CASE q # p /\ q = n
      BY <1>3, <1>5, <1>6, <3>2 DEF Answered
    <3>3. CASE q # p /\ q # n
      BY <1>4, <1>5, <3>3 DEF Answered
    <3> QED
      BY <3>1, <3>2, <3>3
  <2> QED
    BY <2>1 DEF Answered
<1>13. Promise!Idle(p)
  <2>1. ASSUME NEW f \in Endpoints, NEW j \in DOMAIN Queue[f] PROVE Queue[f][j] # p
    <3>1. Queue[f] = Kept(waiting[f], Sending) /\ ListOf(Queue[f]) = ListOf(waiting[f]) \cap Sending
      BY <1>2, KeptProps DEF Queue
    <3>2. Queue[f][j] \in ListOf(Queue[f])
      BY DEF ListOf
    <3> QED
      BY <1>7, <3>1, <3>2
  <2>2. \A f \in Endpoints : <<p, f>> \notin Taken
    BY <1>2 DEF Taken
  <2>3. p \notin Answered
    BY <1>1 DEF Answered
  <2> QED
    BY <2>1, <2>2, <2>3 DEF Promise!Idle
<1> QED
  BY <1>10, <1>11, <1>12, <1>13 DEF Promise!Call

\* reply answers a request that was taken.
LEMMA ReplyAnswers ==
  ASSUME IInv, NEW p \in Procs, NEW e \in Endpoints, NEW c, NEW n \in Procs,
         Reply(p, e, c, n)
  PROVE  Promise!Answer(n, e)
<1> USE DEF IInv, IpcInv
<1>1. up = p /\ pc[p] = "user" /\ state[n] = "block_reply"
  BY DEF Reply, Running
<1>2. PICK i \in 1..Len(waiting[e]) :
        waiting[e][i] = n /\ waiting' = [waiting EXCEPT ![e] = DropAt(@, i)]
  BY DEF Reply
<1>3. /\ state[p] = "ready"
      /\ \A f \in Endpoints : waiting[f] \in Seq(Procs) /\ OneEach(waiting[f])
      /\ \A f \in Endpoints : \A j \in 1..Len(waiting[f]) : waiting[f][j] \in Procs
  BY <1>1, RunnerFree
<1>4. ep[n] = e /\ pc[n] = "mesg"
  BY <1>1, <1>2 DEF WaitingExact
<1>5. \A q \in Procs : state'[q] = IF q = n THEN "ready" ELSE state[q]
  BY DEF Reply, Moved
<1>6. pc' = pc /\ ep' = ep
  BY DEF Reply
<1>7. Sending' = Sending /\ n \notin Sending
  BY <1>1, <1>5 DEF Sending
<1>8. Queue' = Queue
  <2> DEFINE t == DropAt(waiting[e], i)
  <2>1. /\ t \in Seq(Procs) /\ Len(t) = Len(waiting[e]) - 1
        /\ \A j \in 1..(Len(waiting[e]) - 1) : t[j] = waiting[e][IF j < i THEN j ELSE j + 1]
    BY <1>3, DropAtProps
  <2> HIDE DEF t
  <2>2. waiting[e] \in Seq(Procs) /\ waiting[e][i] \notin Sending
    BY <1>2, <1>3, <1>7
  <2>3. Kept(t, Sending) = Kept(waiting[e], Sending)
    <3> DEFINE s == waiting[e]
    <3>1. /\ s \in Seq(Procs) /\ i \in 1..Len(s) /\ s[i] \notin Sending /\ t \in Seq(Procs)
          /\ Len(t) = Len(s) - 1
          /\ \A j \in 1..(Len(s) - 1) : t[j] = s[IF j < i THEN j ELSE j + 1]
      BY <2>1, <2>2
    <3> HIDE DEF s
    <3>2. Kept(t, Sending) = Kept(s, Sending)
      BY <3>1, KeptWithout, SMTT(20)
    <3> QED
      BY <3>2 DEF s
  <2>4. \A f \in Endpoints : waiting'[f] = IF f = e THEN t ELSE waiting[f]
    BY <1>2 DEF IpcTypeOK, t
  <2> QED
    BY <1>7, <2>3, <2>4 DEF Queue
<1>9. <<n, e>> \in Taken /\ Taken' = Taken \ {<<n, e>>}
  BY <1>1, <1>4, <1>5, <1>6 DEF Taken
<1>10. Answered' = Answered \cup {n}
  BY <1>4, <1>5, <1>6 DEF Answered
<1> QED
  BY <1>8, <1>9, <1>10 DEF Promise!Answer

\* The other steps: mesg returns, or no caller is moved.
LEMMA StepSeen ==
  ASSUME IInv, [Next]_vars
  PROVE  [Promise!Next]_(Promise!rpcVars)
<1> USE ConstantsOK DEF IInv, IpcInv
<1>1. ASSUME NEW p \in Procs, NEW e \in Endpoints, NEW acc \in BOOLEAN, NEW rw \in Ref(Procs),
             InRecv(p, e, acc, rw), RecvReturn(p, e, acc, rw)
      PROVE  Promise!Next \/ UNCHANGED Promise!rpcVars
  <2>1. up = p /\ pc[p] # "mesg" /\ state[p] = "ready"
    BY <1>1 DEF InRecv, Running
  <2>2. CASE RecvRequest(p, e, acc)
    BY <2>1, <2>2, RecvTakes DEF Promise!Next
  <2>3. CASE RecvBoundSignal(p, e, rw) \/ RecvSignal(p, e)
    <3>1. /\ state' = state /\ waiting' = waiting
          /\ pc' = [pc EXCEPT ![p] = "user"] /\ ep' = [ep EXCEPT ![p] = nil]
      BY <2>3 DEF RecvBoundSignal, RecvSignal, Returns
    <3>2. \A q \in Procs : pc'[q] = IF q = p THEN "user" ELSE pc[q]
      BY <3>1 DEF IpcTypeOK
    <3>3. \A q \in Procs : q # p => ep'[q] = ep[q]
      BY <3>1 DEF IpcTypeOK
    <3> QED
      BY <2>1, <3>1, <3>2, <3>3, Unseen
  <2> QED
    BY <1>1, <2>2, <2>3 DEF RecvReturn
<1>2. ASSUME NEW p \in Procs, MesgReturn(p)
      PROVE  Promise!Next
  <2>1. /\ state[p] = "ready" /\ pc[p] = "mesg" /\ state' = state /\ waiting' = waiting
        /\ pc' = [pc EXCEPT ![p] = "user"] /\ ep' = [ep EXCEPT ![p] = nil]
    BY <1>2 DEF MesgReturn, Returns
  <2>2. \A q \in Procs : pc'[q] = IF q = p THEN "user" ELSE pc[q]
    BY <2>1 DEF IpcTypeOK
  <2>3. \A q \in Procs : q # p => ep'[q] = ep[q]
    BY <2>1 DEF IpcTypeOK
  <2>4. Queue' = Queue
    BY <2>1 DEF Queue, Sending
  <2>5. Taken' = Taken
    BY <2>1, <2>3 DEF Taken
  <2>6. p \in Answered /\ Answered' = Answered \ {p}
    BY <2>1, <2>2 DEF Answered
  <2> QED
    BY <2>4, <2>5, <2>6 DEF Promise!Next, Promise!Return
<1>3. ASSUME NEW p \in Procs, NEW e \in Endpoints, NEW s \in SUBSET Bits, NEW n \in Ref(Procs),
             Signal(p, e, s, n) \/ SignalBound(p, e, s, n)
      PROVE  UNCHANGED Promise!rpcVars
  <2>1. /\ waiting' = waiting /\ pc' = pc /\ ep' = ep
        /\ \A q \in Procs : state'[q] = IF q = n THEN "ready" ELSE state[q]
    BY <1>3 DEF Signal, SignalBound, Moved
  <2>2. n # nil => n \in Procs /\ pc[n] = "recv" /\ state[n] \in {"block_recv", "ready"}
    <3>1. CASE Signal(p, e, s, n)
      BY <3>1 DEF Signal, Receivers, Ref
    <3>2. CASE SignalBound(p, e, s, n)
      <4>1. n # nil => state[n] = "block_recv" /\ n \in Procs
        BY <3>2 DEF SignalBound, Woken, Ref
      <4> QED
        BY <4>1 DEF Receivers
    <3> QED
      BY <1>3, <3>1, <3>2
  <2> QED
    BY <2>1, <2>2, Unseen
<1>4. ASSUME NEW p \in Procs, NEW e \in Endpoints, EndpointBind(p, e) \/ EndpointUnbind(p, e)
      PROVE  UNCHANGED Promise!rpcVars
  <2>1. waiting' = waiting /\ pc' = pc /\ ep' = ep /\ state' = state
    BY <1>4 DEF EndpointBind, EndpointUnbind
  <2> QED
    BY <2>1, Unseen
<1>5. ASSUME NEW p \in Procs, NEW q \in Procs, ProcStart(p, q)
      PROVE  UNCHANGED Promise!rpcVars
  <2>1. waiting' = waiting /\ ep' = ep /\ state[q] = "fault"
    BY <1>5 DEF ProcStart
  <2>2. \A x \in Procs : state'[x] = IF x = q THEN "ready" ELSE state[x]
    BY <1>5 DEF ProcStart, IpcTypeOK
  <2>3. \A x \in Procs : pc'[x] = IF x = q THEN "user" ELSE pc[x]
    BY <1>5 DEF ProcStart, IpcTypeOK
  <2> QED
    BY <2>1, <2>2, <2>3, Unseen
<1>6. ASSUME NEW p \in Procs, Stop(p)
      PROVE  UNCHANGED Promise!rpcVars
  <2>1. waiting' = waiting /\ ep' = ep /\ pc' = pc /\ state[p] = "ready" /\ pc[p] = "user"
    BY <1>6 DEF Stop, Running
  <2>2. \A x \in Procs : state'[x] = IF x = p THEN "fault" ELSE state[x]
    BY <1>6 DEF Stop, IpcTypeOK
  <2> QED
    BY <2>1, <2>2, Unseen
<1>7. ASSUME NEW p \in Procs, NEW e \in Endpoints, NEW acc \in BOOLEAN, NEW rw \in Ref(Procs),
             InRecv(p, e, acc, rw), RecvBlock(p, e, acc, rw)
      PROVE  UNCHANGED Promise!rpcVars
  <2>1. pc[p] # "mesg" /\ state[p] = "ready" /\ waiting' = waiting
    BY <1>7 DEF InRecv, Running, RecvBlock
  <2>2. \A x \in Procs : state'[x] = IF x = p THEN "block_recv" ELSE state[x]
    BY <1>7 DEF RecvBlock, IpcTypeOK
  <2>3. \A x \in Procs : pc'[x] = IF x = p THEN "recv" ELSE pc[x]
    BY <1>7 DEF RecvBlock, IpcTypeOK
  <2>4. \A x \in Procs : x # p => ep'[x] = ep[x]
    BY <1>7 DEF RecvBlock, IpcTypeOK
  <2> QED
    BY <2>1, <2>2, <2>3, <2>4, Unseen
<1>8. ASSUME UNCHANGED ipcVars
      PROVE  UNCHANGED Promise!rpcVars
  <2>1. waiting' = waiting /\ pc' = pc /\ ep' = ep /\ state' = state
    BY <1>8 DEF ipcVars
  <2> QED
    BY <2>1, Unseen
<1>9. ASSUME NEW p \in Procs, NEW e \in Endpoints, NEW b \in BOOLEAN, NEW c \in Ref(Endpoints),
             NEW n \in Ref(Procs), Mesg(p, e, b, c, n)
      PROVE  Promise!Next
  BY <1>9, MesgCalls DEF Promise!Next
<1>10. ASSUME NEW p \in Procs, NEW e \in Endpoints, NEW c \in Ref(Endpoints), NEW n \in Procs,
             Reply(p, e, c, n)
      PROVE  Promise!Next
  BY <1>10, ReplyAnswers DEF Promise!Next
<1> DEFINE Seen == Promise!Next \/ UNCHANGED Promise!rpcVars
<1> HIDE DEF Seen
<1>11. ASSUME NEW p \in Procs, Stays(p) PROVE Seen
  BY <1>1, <1>2, <1>3, <1>4, <1>11 DEF Stays, Seen, Ref
<1>12. ASSUME NEW p \in Procs, NEW n \in Procs, Wakes(p, n) PROVE Seen
  BY <1>3, <1>9, <1>10, <1>12 DEF Wakes, Seen, Ref
<1>13. ASSUME NEW p \in Procs, Blocks(p) PROVE Seen
  BY <1>7, <1>8, <1>9, <1>13 DEF Blocks, Seen, Ref, Yield
<1>14. CASE UNCHANGED vars
  BY <1>8, <1>14 DEF vars
<1>15. CASE Next
  <2>1. CASE Halted
    BY <1>14, <2>1 DEF Halted
  <2>2. ASSUME NEW p \in Procs,
               \/ Stays(p) \/ Blocks(p) \/ Stop(p) \/ UNCHANGED ipcVars
               \/ \E q \in Procs : ProcStart(p, q) \/ Wakes(p, q)
        PROVE  Seen
    BY <1>5, <1>6, <1>8, <1>11, <1>12, <1>13, <2>2 DEF Seen
  <2>3. CASE ~Halted
    <3>1. PICK p \in Procs :
            \/ Stays(p) \/ Blocks(p) \/ Stop(p) \/ UNCHANGED ipcVars
            \/ \E q \in Procs : ProcStart(p, q) \/ Wakes(p, q)
      BY <1>15, <2>3 DEF Next
    <3> QED
      BY <2>2, <3>1 DEF Seen
  <2> QED
    BY <2>1, <2>3
<1> QED
  BY <1>14, <1>15

\* Message passing keeps the promise of remote procedure calls: requests are
\* taken in the order of their sending, each once, and every mesg returns
\* after exactly one reply to it.
THEOREM CallsAreKept == Unshared => (Spec => RefinesRpc)
<1> SUFFICES ASSUME Unshared PROVE Spec => RefinesRpc
  OBVIOUS
<1>1. Init => Promise!Init
  <2> SUFFICES ASSUME Init PROVE Promise!Init
    OBVIOUS
  <2>1. Kept(<<>>, Sending) = <<>>
    <3>1. <<>> \in Seq({}) /\ Len(<<>>) = 0
      OBVIOUS
    <3> QED
      BY <3>1, KeptStep
  <2>2. Queue = [e \in Endpoints |-> <<>>]
    BY <2>1 DEF Queue, Init
  <2>3. Taken = {} /\ Answered = {}
    BY DEF Taken, Answered, Init
  <2> QED
    BY <2>2, <2>3 DEF Promise!Init
<1>2. IInv /\ [Next]_vars => [Promise!Next]_(Promise!rpcVars)
  BY StepSeen
<1> QED
  BY <1>1, <1>2, Invariance, PTL DEF Spec, RefinesRpc, Promise!Spec

-----------------------------------------------------------------------------
(* The scheduler in the place of Dispatch.                                 *)

\* What the lemmas of the scheduler need: its memory is sound, and no process
\* that message passing made ready is missing from the queues.
KernelInv ==
  /\ state \in [Procs -> {"fault", "ready", "block_recv", "block_send", "block_reply"}]
  /\ up \in Procs \cup {nil}
  /\ Sound(sc)
  /\ \A q \in Procs : state[q] = "ready" => OnList(sc, q)

\* Message passing makes no process ready but the one it hands to proc_ready.
LEMMA OnlyWokenReady ==
  ASSUME KernelInv, NEW p \in Procs, NEW n \in Procs \cup {nil},
         \/ Stays(p) \/ Blocks(p) \/ Stop(p)
         \/ n \in Procs /\ (Wakes(p, n) \/ ProcStart(p, n))
  PROVE  /\ up = p
         /\ state' \in [Procs -> {"fault", "ready", "block_recv", "block_send", "block_reply"}]
         /\ \A q \in Procs : state'[q] = "ready" => state[q] = "ready" \/ q = n
<1> USE ConstantsOK DEF KernelInv
<1>1. CASE Stays(p)
  <2>1. CASE \E e \in Endpoints, acc \in BOOLEAN, rw \in Ref(Procs) :
               InRecv(p, e, acc, rw) /\ RecvReturn(p, e, acc, rw)
    BY <2>1 DEF InRecv, Running, RecvReturn, RecvBoundSignal, RecvSignal, RecvRequest
  <2>2. CASE MesgReturn(p)
    BY <2>2 DEF MesgReturn
  <2>3. CASE \E e \in Endpoints, s \in SUBSET Bits :
               Signal(p, e, s, nil) \/ SignalBound(p, e, s, nil)
    BY <2>3 DEF Signal, SignalBound, Running, Moved
  <2>4. CASE \E e \in Endpoints : EndpointBind(p, e) \/ EndpointUnbind(p, e)
    BY <2>4 DEF EndpointBind, EndpointUnbind, Running
  <2> QED
    BY <1>1, <2>1, <2>2, <2>3, <2>4 DEF Stays
<1>2. CASE Blocks(p)
  <2>1. CASE \E e \in Endpoints, acc \in BOOLEAN, rw \in Ref(Procs) :
               InRecv(p, e, acc, rw) /\ RecvBlock(p, e, acc, rw)
    BY <2>1 DEF InRecv, Running, RecvBlock
  <2>2. CASE \E e \in Endpoints, b \in BOOLEAN, c \in Ref(Endpoints) : Mesg(p, e, b, c, nil)
    BY <2>2 DEF Mesg, Running, Moved
  <2>3. CASE Yield(p)
    BY <2>3 DEF Yield, Running, ipcVars
  <2> QED
    BY <1>2, <2>1, <2>2, <2>3 DEF Blocks
<1>3. CASE Stop(p)
  BY <1>3 DEF Stop, Running
<1>4. CASE n \in Procs /\ Wakes(p, n)
  BY <1>4 DEF Wakes, Mesg, Reply, Signal, SignalBound, Running, Moved
<1>5. CASE n \in Procs /\ ProcStart(p, n)
  BY <1>5 DEF ProcStart, Running
<1> QED
  BY <1>1, <1>2, <1>3, <1>4, <1>5

\* schedule() from sound memory, in which every process that is ready now is
\* on a queue, keeps the invariant and is a step of Dispatch.
LEMMA SwitchDispatches ==
  ASSUME state' \in [Procs -> {"fault", "ready", "block_recv", "block_send", "block_reply"}],
         up \in Procs, NEW s, Sound(s), NEW n \in Procs \cup {nil}, Switch(s, n),
         \A q \in Procs : state'[q] = "ready" => q = up \/ OnList(s, q)
  PROVE  KernelInv' /\ Dispatch
<1> USE SchedConstantsOK
<1>1. PICK left \in Left(s, up, 0) :
        /\ n # nil => s.ts[n] + left <= MaxTs
        /\ up' = schedule(s, state', up, left, n).up
        /\ sc' = schedule(s, state', up, left, n).sc
        /\ panic' = IF schedule(s, state', up, left, n).up = nil THEN "idle" ELSE panic
  BY DEF Switch
<1>2. left \in 0..s.ts[up]
  <2>1. s.ts[up] \in 0..MaxTs
    BY SchedTyped DEF Sound
  <2> QED
    BY <2>1 DEF Left
<1>3. ReadyIn(state') = {q \in Procs : state'[q] = "ready"}
  BY DEF ReadyIn, IsReady
<1>4. /\ Sound(sc')
      /\ \A q \in ReadyIn(state') : OnList(sc', q)
      /\ IF up' = nil THEN ReadyIn(state') = {} ELSE up' \in ReadyIn(state')
  BY <1>1, <1>2, <1>3, ScheduleProps
<1>5. panic' = IF up' = nil THEN "idle" ELSE panic
  BY <1>1
<1>6. KernelInv'
  BY <1>3, <1>4 DEF KernelInv
<1>7. Dispatch
  BY <1>3, <1>4, <1>5 DEF Dispatch
<1> QED
  BY <1>6, <1>7

\* The kernel boots as message passing does, with the root process queued.
LEMMA KernelStarts == KInit => Init /\ KernelInv
<1> SUFFICES ASSUME KInit PROVE KernelInv
  BY DEF KInit
<1>1. Sound(sc) /\ OnList(sc, Root)
  BY PrioritiesOK, BootSound DEF KInit
<1> QED
  BY <1>1, ConstantsOK DEF KInit, Init, KernelInv

\* Every step of the kernel is one of message passing, and keeps the invariant.
LEMMA KernelSteps ==
  ASSUME KernelInv, [KNext]_kvars
  PROVE  KernelInv' /\ [Next]_vars
<1> USE ConstantsOK
<1>0. nil \notin Procs
  OBVIOUS
<1>1. CASE UNCHANGED kvars
  BY <1>1 DEF kvars, vars, ipcVars, KernelInv
<1>2. ASSUME NEW p \in Procs, Stays(p), UNCHANGED <<up, panic, sc>>
      PROVE  KernelInv' /\ Next
  BY <1>0, <1>2, OnlyWokenReady DEF KernelInv, Next
<1>3. ASSUME NEW p \in Procs, NEW q \in Procs, ProcStart(p, q), sc' = proc_ready(sc, q),
             UNCHANGED <<up, panic>>
      PROVE  KernelInv' /\ Next
  <2>1. /\ up = p
        /\ state' \in [Procs -> {"fault", "ready", "block_recv", "block_send", "block_reply"}]
        /\ \A x \in Procs : state'[x] = "ready" => state[x] = "ready" \/ x = q
    BY <1>3, OnlyWokenReady
  <2>2. Sound(sc') /\ \A x : OnList(sc', x) <=> OnList(sc, x) \/ x = q
    BY <1>3, ReadySound DEF KernelInv
  <2>3. KernelInv'
    BY <1>3, <2>1, <2>2 DEF KernelInv
  <2> QED
    BY <1>3, <2>3 DEF Next
<1>4. ASSUME NEW p \in Procs, NEW n \in Procs, Wakes(p, n), Switch(proc_ready(sc, n), n)
      PROVE  KernelInv' /\ Next
  <2>1. /\ up = p
        /\ state' \in [Procs -> {"fault", "ready", "block_recv", "block_send", "block_reply"}]
        /\ \A x \in Procs : state'[x] = "ready" => state[x] = "ready" \/ x = n
    BY <1>4, OnlyWokenReady
  <2> DEFINE s == proc_ready(sc, n)
  <2>2. Sound(s) /\ \A x : OnList(s, x) <=> OnList(sc, x) \/ x = n
    BY <1>4, ReadySound DEF KernelInv
  <2>3. Switch(s, n)
    BY <1>4
  <2> HIDE DEF s
  <2>4. \A q \in Procs : state'[q] = "ready" => q = up \/ OnList(s, q)
    BY <2>1, <2>2 DEF KernelInv
  <2>5. KernelInv' /\ Dispatch
    BY <2>1, <2>2, <2>3, <2>4, SwitchDispatches
  <2> QED
    BY <1>4, <2>5 DEF Next
<1>5. ASSUME NEW p \in Procs, Blocks(p), Switch(sc, nil)
      PROVE  KernelInv' /\ Next
  <2>1. /\ up = p
        /\ state' \in [Procs -> {"fault", "ready", "block_recv", "block_send", "block_reply"}]
        /\ \A x \in Procs : state'[x] = "ready" => state[x] = "ready"
    BY <1>0, <1>5, OnlyWokenReady
  <2>2. KernelInv' /\ Dispatch
    BY <1>5, <2>1, SwitchDispatches DEF KernelInv
  <2> QED
    BY <1>5, <2>2 DEF Next
<1>6. ASSUME NEW p \in Procs, Stop(p), Switch(proc_fault(sc, p), nil)
      PROVE  KernelInv' /\ Next
  <2>1. /\ up = p
        /\ state' \in [Procs -> {"fault", "ready", "block_recv", "block_send", "block_reply"}]
        /\ \A x \in Procs : state'[x] = "ready" => state[x] = "ready"
    BY <1>0, <1>6, OnlyWokenReady
  <2> DEFINE s == proc_fault(sc, p)
  <2>2. Sound(s) /\ \A x \in Procs : x # p /\ OnList(sc, x) => OnList(s, x)
    <3>1. CASE OnList(sc, p)
      <4>1. /\ sc \in SchedType
            /\ \A r \in Priorities, k \in {0, 1} :
                 /\ OneEach(sc.queue[r][k])
                 /\ \A x \in ListOf(sc.queue[r][k]) : x # p => sc.priority[x] = r
            /\ \A r \in Priorities : ListOf(sc.queue[r][0]) \cap ListOf(sc.queue[r][1]) = {}
        BY DEF KernelInv, Sound
      <4>2. /\ Sound(remove_from_list(sc, p))
            /\ \A x \in Procs : OnList(remove_from_list(sc, p), x) <=> OnList(sc, x) /\ x # p
        BY <4>1, RemoveSound
      <4> QED
        BY <3>1, <4>2 DEF proc_fault
    <3>2. CASE ~OnList(sc, p)
      BY <3>2 DEF KernelInv, proc_fault
    <3> QED
      BY <3>1, <3>2
  <2>3. Switch(s, nil)
    BY <1>6
  <2> HIDE DEF s
  <2>4. \A q \in Procs : state'[q] = "ready" => q = up \/ OnList(s, q)
    BY <2>1, <2>2 DEF KernelInv
  <2>5. KernelInv' /\ Dispatch
    BY <2>1, <2>2, <2>3, <2>4, SwitchDispatches
  <2> QED
    BY <1>6, <2>5 DEF Next
<1>7. ASSUME NEW p \in Procs, Panics(p), up' = nil, UNCHANGED <<ipcVars, sc>>
      PROVE  KernelInv' /\ Next
  <2>1. UNCHANGED ipcVars /\ UNCHANGED state /\ UNCHANGED sc
    BY <1>7 DEF ipcVars
  <2>2. KernelInv'
    BY <1>7, <2>1 DEF KernelInv
  <2> QED
    BY <1>7, <2>1, <2>2 DEF Next
<1>8. CASE Halted /\ UNCHANGED sc
  <2>1. UNCHANGED kvars
    BY <1>8 DEF Halted, kvars
  <2> QED
    BY <1>1, <2>1
<1> QED
  BY <1>1, <1>2, <1>3, <1>4, <1>5, <1>6, <1>7, <1>8 DEF KNext

\* Message passing over the scheduler is message passing: although blocked
\* processes linger on the queues, schedule() resumes only ready processes,
\* misses none, and panics for want of one only when there is none.  What is
\* proved of Spec above therefore holds of the kernel as it schedules.
THEOREM SchedulerDispatches == KSpec => RefinesIpc
<1>1. KernelInv /\ [KNext]_kvars => KernelInv' /\ [Next]_vars
  BY KernelSteps
<1> QED
  BY KernelStarts, <1>1, PTL DEF KSpec, RefinesIpc, Spec

\* The kernel as a whole, from the queues of its scheduler up, keeps the promise
\* of remote procedure calls.
THEOREM KernelKeepsCalls == Unshared => (KSpec => RefinesRpc)
  BY SchedulerDispatches, CallsAreKept DEF RefinesIpc
=============================================================================
