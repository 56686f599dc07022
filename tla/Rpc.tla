-------------------------------- MODULE Rpc --------------------------------
(***************************************************************************)
(* What message passing promises its users: a call is a request that waits *)
(* in first-in first-out order at its endpoint, is taken once, answered    *)
(* once after that, and only then returns to the caller.                   *)
(***************************************************************************)
EXTENDS Sequences

CONSTANTS Procs, Endpoints

VARIABLES queue,     \* queue[e]: the callers whose request nobody has taken
          taken,     \* <<p, e>>: p's request to e is being served
          answered   \* the callers whose call is about to return

rpcVars == <<queue, taken, answered>>

Init ==
  /\ queue = [e \in Endpoints |-> <<>>]
  /\ taken = {}
  /\ answered = {}

Idle(p) ==
  /\ \A e \in Endpoints : \A i \in DOMAIN queue[e] : queue[e][i] # p
  /\ \A e \in Endpoints : <<p, e>> \notin taken
  /\ p \notin answered

Call(p, e) ==
  /\ Idle(p)
  /\ queue' = [queue EXCEPT ![e] = Append(@, p)]
  /\ UNCHANGED <<taken, answered>>

Take(e) ==
  /\ queue[e] # <<>>
  /\ queue' = [queue EXCEPT ![e] = Tail(@)]
  /\ taken' = taken \cup {<<Head(queue[e]), e>>}
  /\ UNCHANGED answered

Answer(p, e) ==
  /\ <<p, e>> \in taken
  /\ taken' = taken \ {<<p, e>>}
  /\ answered' = answered \cup {p}
  /\ UNCHANGED queue

Return(p) ==
  /\ p \in answered
  /\ answered' = answered \ {p}
  /\ UNCHANGED <<queue, taken>>

Next ==
  \/ \E p \in Procs, e \in Endpoints : Call(p, e) \/ Answer(p, e)
  \/ \E e \in Endpoints : Take(e)
  \/ \E p \in Procs : Return(p)

Spec == Init /\ [][Next]_rpcVars
=============================================================================
