SPECIFICATION Spec
CONSTANTS
  relay = relay
  A = A
  B = B
  p1 = p1
  p2 = p2
  p3 = p3
  p4 = p4
  Garbage = garbage
  Node <- MCNode
  RadiosOf <- MCRadiosOf
  Pid = {p1, p2, p3, p4, garbage}
  QueueMax = 2
  MacMax = 1
  Me = relay
  IPSends <- MCIPSends
  Answers <- MCAnswers
  Heard <- MCHeard
  HelloIds = {}
  MaxRecps = 1
  MaxAcks = 1
INVARIANTS
  NoAbort
  VirtualQueuesMirrorQueue
  DirectoryDisjoint
PROPERTIES
  CodedFramesDecodable
  CodedFramesReachAll
  CodedAwaitsAck
  NoSilentDrop
CHECK_DEADLOCK FALSE
