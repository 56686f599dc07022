------------------------------- MODULE MCIpc -------------------------------
(***************************************************************************)
(* Every process has its own caplist.  The configurations choose how many  *)
(* processes and endpoints there are and who may send where.               *)
(***************************************************************************)
EXTENDS Ipc

CONSTANTS root, srv, cli, e1, e2

Own == [p \in Procs |-> p]

\* Two clients, one of them the root process, and one endpoint, the server's.
Holder1 == [e \in Endpoints |-> srv]
Send1 == {<<cli, e1>>, <<root, e1>>}

\* Two processes that serve one endpoint each and call each other.
Holder2 == [e \in Endpoints |-> IF e = e1 THEN srv ELSE root]
Send2 == {<<root, e1>>, <<srv, e2>>}
=============================================================================
