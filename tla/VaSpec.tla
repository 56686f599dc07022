------------------------------- MODULE VaSpec -------------------------------
(***************************************************************************)
(* What frame_map_anywhere and unmap_addr promise the program that calls   *)
(* them: a frame is mapped where nothing else is, and stays there until it *)
(* is unmapped.                                                            *)
(***************************************************************************)
EXTENDS Integers

CONSTANTS Pages, Lens

VARIABLE live  \* the mappings, as [va, len] in pages

PagesOf(s) == s.va .. s.va + s.len - 1

Init == live = {}

Map == \E va \in Pages, len \in Lens :
  /\ PagesOf([va |-> va, len |-> len]) \subseteq Pages
  /\ \A s \in live : PagesOf(s) \cap PagesOf([va |-> va, len |-> len]) = {}
  /\ live' = live \cup {[va |-> va, len |-> len]}

Unmap == \E s \in live : live' = live \ {s}

Spec == Init /\ [][Map \/ Unmap]_live
=============================================================================
