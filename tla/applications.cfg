SPECIFICATION FairSpec
CONSTANTS
  clientA = clientA
  clientB = clientB
  server = server
  routerA = routerA
  routerB = routerB
  elsewhere = elsewhere
  Nobody = Nobody
  Client = {clientA, clientB}
  Server = {server}
  Router = {routerA, routerB}
  RemoteClient = {elsewhere}
  ToSelf = {clientB}
  MayDie = {server, routerA, routerB}
  MaxStarted = 3
INVARIANTS TypeOK DescriptorsOfTheirKind NoStaleEvent NoDescriptorLost AnswerIsToTheQuestion
PROPERTIES CrashesOnlyAfterReset HandshakeReturns RemoteIsAnswered Settles
CHECK_DEADLOCK FALSE
