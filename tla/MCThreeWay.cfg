SPECIFICATION Spec
CONSTANTS
  relay = relay
  A = A
  B = B
  C = C
  p1 = p1
  p2 = p2
  p3 = p3
  Garbage = garbage
  Node <- MCNode
  RadiosOf <- MCRadiosOf
  Pid = {p1, p2, p3, garbage}
  QueueMax = 3
  MacMax = 1
  Me = relay
  IPSends <- MCIPSends
  Answers <- MCAnswers
  Heard <- MCHeard
  HelloIds = {}
  MaxRecps = 3
  MaxAcks = 1
PROPERTIES
  CodedFramesCarryNatives
CHECK_DEADLOCK FALSE
