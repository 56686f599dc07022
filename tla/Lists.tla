------------------------------- MODULE Lists -------------------------------
(***************************************************************************)
(* Linked lists as sequences.  Kept is the loop that walks a list and      *)
(* unlinks some of its elements; it is written as a recursive function,    *)
(* about which ListTheorems can prove.                                     *)
(***************************************************************************)
EXTENDS Integers, Sequences

ListOf(s) == {s[i] : i \in DOMAIN s}

\* No element is on the list twice.
OneEach(s) == \A i, j \in DOMAIN s : s[i] = s[j] => i = j

\* t begins with s.
Begins(s, t) == Len(s) <= Len(t) /\ \A i \in 1..Len(s) : s[i] = t[i]

\* The elements of s that are in K, in their order.
Kept(s, K) ==
  LET F[i \in 0..Len(s)] ==
        IF i = 0 THEN <<>>
        ELSE IF s[i] \in K THEN Append(F[i - 1], s[i]) ELSE F[i - 1]
  IN F[Len(s)]
=============================================================================
