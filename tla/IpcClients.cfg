SPECIFICATION Spec
CONSTANTS
  nil = nil
  root = root
  srv = srv
  cli = cli
  e1 = e1
  e2 = e2
  Procs = {root, srv, cli}
  Endpoints = {e1}
  Caplists = {root, srv, cli}
  cap_root <- Own
  Holder0 <- Holder1
  CanSend <- Send1
  Root = root
  Irqs = {}
  Bits = {1}
INVARIANTS
  TypeOK
  WaitingExact
PROPERTY RefinesRpc
