SPECIFICATION FairSpec
CONSTANTS
  relay = relay
  A = A
  B = B
  p1 = p1
  p2 = p2
  Garbage = garbage
  Node <- MCNode
  RadiosOf <- MCRadiosOf
  Pid = {p1, p2, garbage}
  QueueMax = 2
  MacMax = 1
  Me = relay
  IPSends <- MCIPSends
  Answers <- MCAnswers
  Heard <- MCHeard
  HelloIds = {garbage}
  MaxRecps = 1
  MaxAcks = 1
PROPERTIES
  RetransmitProgress
  QuietNodeRunsEmpty
CHECK_DEADLOCK FALSE
