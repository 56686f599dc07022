SPECIFICATION Spec
CONSTANTS
  nil = nil
  End = End
  A = A
  B = B
\* Writes and reads that do not fall together, one byte back.
  Duplicates = TRUE
  WriteLens = {1, 2}
  ReadLens = {1, 2}
  BytesA = 3
  BytesB = 1
  MaxQueue = 3
\* Two clients, two bindings and two addresses.
  Procs = {p1, p2}
  Addrs = {x, y}
  Ports = {1}
  Lens = {1, 2}
  MaxIds = 2
  MaxBytes = 3
  MaxFaults = 1
\* Two chains each way, so that the rings wrap around and are full.
  Word16 = 8
  Size = 4
  MaxPkts = 5
INVARIANTS
  StreamSound
  ClientsServed
  PacketsKept
CHECK_DEADLOCK FALSE
