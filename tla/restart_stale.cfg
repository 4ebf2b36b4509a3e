SPECIFICATION FairEstablishedSpec
CONSTANTS
  A = A
  B = B
  C = C
  D = D
  Node = {A, B, C}
  Link <- Line
  Dist <- Hops
  Infinity = 4
  NoEntry = NoEntry
  MayCrash = {B, C}
  MayRestart = {B}
  MaxWireFaults = 0
  MaxChan = 6
PROPERTY DeadIsForgotten
