----------------------------- MODULE MCObjects -----------------------------
(* Two neighbouring blocks of memory, and types of one and of two units.   *)
EXTENDS Objects, TLC

Lengths == [b \in Blocks |-> IF b = 0 THEN 4 ELSE 2]
Sizes == [t \in Types |-> IF t = "caplist" THEN 2 ELSE 1]
AnySlot == Permutations(Slots)
=============================================================================
