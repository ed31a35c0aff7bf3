SPECIFICATION Spec
CONSTANTS
  relay = relay
  A = A
  B = B
  C = C
  p1 = p1
  p2 = p2
  p3 = p3
  p4 = p4
  Garbage = garbage
  Node <- MCNode
  RadiosOf <- MCRadiosOf
  Pid = {p1, p2, p3, p4, garbage}
  QueueMax = 2
  MacMax = 1
  Me = B
  IPSends <- MCIPSends
  Answers <- MCAnswers
  Heard <- MCHeard
  HelloIds = {garbage}
  MaxRecps = 3
  MaxAcks = 2
INVARIANTS
  NoAbort
  ReportsAreHeld
PROPERTIES
  NothingSentTwiceInVain
  ReportsAndAcksTravel
  WhatIsHeardIsReported
CHECK_DEADLOCK FALSE
