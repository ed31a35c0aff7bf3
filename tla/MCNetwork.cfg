SPECIFICATION FairSpec
CONSTANTS
  relay = relay
  A = A
  B = B
  p1 = p1
  p2 = p2
  Garbage = garbage
  Node <- MCNode
  RadiosOf <- MCRadiosOf
  Pid = {p1, p2, garbage}
  QueueMax = 4
  MacMax = 1
  Near <- MCNear
  Flow <- MCFlow
  Route <- MCRoute
  Greeters = {relay}
  HelloIds = {garbage, p1}
  MaxHellos = 2
  MaxMissed = 3
  ReliableMac = FALSE
INVARIANTS
  NetworkNoAbort
  GivenAtMostTwice
  AtMostOnceMore
PROPERTIES
  ComesToRest
CHECK_DEADLOCK FALSE
