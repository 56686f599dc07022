SPECIFICATION Spec
CONSTANTS
  Frames = {r, a, b, c, d}
  Root = r
  RootPa = 1
  BootTable = 2
  BootPage = 3
  NPages = 9
  Ranges <- SomeRanges
  NVa = 4
  PerTable = 2
  L1Len = 1
  nil = nil
SYMMETRY AnyFrame
INVARIANTS PagesExclusive TablesMatchList
PROPERTY UnmapNeverPanics
CHECK_DEADLOCK FALSE
