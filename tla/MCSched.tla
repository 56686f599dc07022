------------------------------ MODULE MCSched ------------------------------
(* A root process and two others, which are interchangeable.               *)
EXTENDS SchedSpec, TLC

CONSTANTS p0, p1, p2

\* Anyone may wake anyone.
All == {w \in Procs \X Procs : w[1] # w[2]}

Interchangeable == Permutations({p1, p2})
=============================================================================
