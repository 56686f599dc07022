------------------------------ MODULE MCKernel ------------------------------
(* A root process that calls a server, and a third process below them.     *)
EXTENDS Kernel

CONSTANTS root, srv, idle, e1, e2

Own == [p \in Procs |-> p]
OfServer == [e \in Endpoints |-> IF e = e1 THEN srv ELSE root]
FromRoot == {<<root, e1>>}
Priorities0 == [p \in Procs |-> IF p = srv THEN 1 ELSE 0]
=============================================================================
