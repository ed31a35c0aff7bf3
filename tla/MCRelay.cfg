SPECIFICATION Spec
CONSTANTS
  relay = relay
  A = A
  B = B
  p1 = p1
  p2 = p2
  Garbage = garbage
  Node <- MCNode
  RadiosOf <- MCRadiosOf
  Pid = {p1, p2, garbage}
  QueueMax = 2
  MacMax = 1
  Me = relay
  IPSends <- MCIPSends
  Answers <- MCAnswers
  Heard <- MCHeard
  HelloIds = {p1, garbage}
  MaxRecps = 1
  MaxAcks = 1
INVARIANTS
  TypeOK
  NoAbort
  VirtualQueuesMirrorQueue
  QueuesHaveNoDuplicates
  RetransmitArmed
  ReportsAreHeld
PROPERTIES
  CodedFramesDecodable
  NothingSentTwiceInVain
  OnlyAcksEndTheWait
  RetransmissionKeepsPacket
  CodedAwaitsAck
CHECK_DEADLOCK FALSE
