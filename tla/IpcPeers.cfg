SPECIFICATION Spec
CONSTANTS
  nil = nil
  root = root
  srv = srv
  cli = cli
  e1 = e1
  e2 = e2
  Procs = {root, srv}
  Endpoints = {e1, e2}
  Caplists = {root, srv}
  cap_root <- Own
  Holder0 <- Holder2
  CanSend <- Send2
  Root = root
  Irqs = {e2}
  Bits = {1}
INVARIANTS
  NoLostWakeup
  MesgReturnsReply
  OneHolder
  RwaitNeverTaken
