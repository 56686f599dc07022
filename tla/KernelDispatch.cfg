SPECIFICATION KSpec
CONSTANTS
  nil = nil
  root = root
  srv = srv
  idle = idle
  e1 = e1
  e2 = e2
  Procs = {root, srv, idle}
  Endpoints = {e1, e2}
  Caplists = {root, srv, idle}
  cap_root <- Own
  Holder0 <- OfServer
  CanSend <- FromRoot
  Root = root
  Irqs = {}
  Bits = {}
  PRIORITY_MAX = 2
  SYSTICK = 2
  MIN_TIME_SLICE = 1
  MaxTs = 3
  Priority0 <- Priorities0
PROPERTY RefinesIpc
