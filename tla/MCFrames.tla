----------------------------- MODULE MCFrames -----------------------------
EXTENDS Frames, TLC

\* One page each for two tables or small frames, and two frames of two pages:
\* enough for one that is still mapped to be given back after a table of it
\* was replaced.
SomeRanges == {[pa |-> 4, len |-> 1], [pa |-> 5, len |-> 1],
               [pa |-> 6, len |-> 2], [pa |-> 8, len |-> 2]}

AnyFrame == Permutations(Frames \ {Root})
=============================================================================
