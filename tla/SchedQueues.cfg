SPECIFICATION Spec
SYMMETRY Interchangeable
CONSTANTS
  nil = nil
  p0 = p0
  p1 = p1
  p2 = p2
  Procs = {p0, p1, p2}
  Root = p0
  PRIORITY_MAX = 2
  SYSTICK = 2
  MIN_TIME_SLICE = 1
  MaxTs = 3
  MinUsed = 0
  MayWake <- All
INVARIANTS
  QueuesExact
  NoReadyLost
  HighestPriorityNext
