SPECIFICATION Spec
CONSTANTS
  nil = nil
  End = End
  p0 = p0
  p1 = p1
  p2 = p2
  A = A
  B = B
  x = x
  c1 = c1
  c2 = c2
PROPERTIES
  TurnComes
  TcpProgress
  Answered
  AllHandled
  Fires
CHECK_DEADLOCK FALSE
