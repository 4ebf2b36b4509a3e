SPECIFICATION FairSpec
CONSTANTS
  A = A
  B = B
  C = C
  Node = {A, B, C}
  NoRoute = NoRoute
  Addr = {a1, a2, a3}
  NULL = NULL
  Free = Free
  MAX_ELEMENTS = 15
  Data <- Packet
  DEFAULT_TTL_MIP = 2
  AppTtl = {0, 1, 3}
  Answers <- MixedAnswers
  PingApplication = {A, C}
  NoRoutingDaemon = {}
  MayStop = {A, B}
  MaxPackets = 2
INVARIANTS TypeOK PopFindsDatagram
PROPERTIES QueuesBreakAtTwo StaysInStep EveryPacketLeaves EveryPacketArrives
CHECK_DEADLOCK FALSE
