SPECIFICATION Spec
SYMMETRY AnySlot
CONSTANTS
  nil = nil
  Slots = {s1, s2, s3, s4}
  Size = 6
  Blocks = {0, 4}
  BlockLen <- Lengths
  Types = {"endpoint", "caplist", "frame"}
  SizeOf <- Sizes
  MinLen = 1
INVARIANTS
  TypeOK
  Disjoint
  Unaliased
CHECK_DEADLOCK FALSE
