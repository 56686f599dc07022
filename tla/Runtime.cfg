SPECIFICATION Spec
CONSTANTS
  nil = nil
  drv = drv
  cli = cli
\* Three tables of four pages: mappings span tables, and tables run out.
  Table = 4
  Tables = 3
  Image = 2
  FrameLens = {1, 2, 5}
  Spans0 = 6
  L1Spans0 = 2
  Grow = 64
  MaxFaults = 1
\* Two clients, two timers, a millisecond of two ticks.
  TimerClients = {c1, c2}
  Ms = 2
  Times = {0, 1, 2}
  TimerSlots = 7
  MaxTimers = 2
\* Three clients and two slots: one registration fails and the table is
\* logged, which nearly fills the buffer.
  LogClients = {c1, c2, c3}
  Size = 7
  Piece = 2
  MAX_SERVICES = 2
  RegisterLen = 2
  FailLen = 2
  SlotLen = 2
  LogLens = {5}
INVARIANTS
  SpansExact
  ObjectsExact
  ChunksExact
  RequestsServed
  TimersExact
  LinesKept
PROPERTY
  ImplementsVa
CHECK_DEADLOCK FALSE
