SPECIFICATION Spec
CONSTANTS
  p1 = p1
  p2 = p2
  Packets = {p1, p2}
  N = 3
  MaxFrags = 4
INVARIANT HandedOnWhole
CHECK_DEADLOCK FALSE
