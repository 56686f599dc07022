SPECIFICATION Spec
CONSTANTS
  nil = nil
  End = End
  f1 = f1
  f2 = f2
  f3 = f3
  d1 = d1
  d2 = d2
  d3 = d3
  zero = zero
  Bad = Bad
  Err = Err
  Unknown = Unknown
  c1 = c1
  c2 = c2
  v1 = v1
INVARIANTS
  FilesKept
  LogKept
  FilesServed
  BlocksServed
SYMMETRY AnyName
CHECK_DEADLOCK FALSE
