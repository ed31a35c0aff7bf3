SPECIFICATION Spec
CONSTANTS
  relay = relay
  A = A
  B = B
  C = C
  p1 = p1
  p2 = p2
  p3 = p3
  Garbage = garbage
  Node <- MCNode
  RadiosOf <- MCRadiosOf
  Pid = {p1, p2, p3, garbage}
  QueueMax = 4
  MacMax = 1
  Near <- MCNear
  Flow <- MCFlow
  Route <- MCRoute
  Greeters = {relay}
  HelloIds = {garbage}
  MaxHellos = 1
  MaxMissed = 1
  ReliableMac = TRUE
INVARIANTS
  NetworkNoAbort
  FramesDecodable
  Custody
PROPERTIES
  SpreadsTruth
CHECK_DEADLOCK FALSE
