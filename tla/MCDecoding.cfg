SPECIFICATION Spec
CONSTANTS
  Byte <- MCByte
  ByteXor <- MCXor
  Word = 2
  FreshTtl = 3
  Packet <- MCPacket
  Mac = {5, 7, 9}
  MaxNatives = 3
  PoolTtl = {1, 2}
  Waiting <- MCWaiting
  Radios <- MCRadios
INVARIANTS
  HeadersSurvive
  DecodeCounts
  TwoNativesDecode
  TwoNativesStayInBounds
CHECK_DEADLOCK FALSE
