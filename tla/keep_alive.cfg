SPECIFICATION FairSpec
CONSTANTS
  A = A
  B = B
  Node = {A, B}
  Link <- Wire
  Dist <- OneHop
  Infinity = 3
  NoEntry = NoEntry
  MayCrash = {A, B}
  MayRestart = {A, B}
  MaxChan = 4
  Period = 10
  Timeout = 30
  MaxSlack = 1
  MaxDelay = 1
  MaxMissed = 1
INVARIANTS TypeOK DismissedInTime
PROPERTIES OnlyTheDeadAreDismissed KeepsUntimed Reunited
