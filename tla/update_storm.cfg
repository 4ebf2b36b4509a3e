SPECIFICATION FairEstablishedSpec
CONSTANTS
  A = A
  B = B
  C = C
  D = D
  Node = {A, B, C, D}
  Link <- Line4
  Dist <- Hops
  Infinity = 4
  NoEntry = NoEntry
  MayCrash = {C, D}
  MayRestart = {}
  MaxWireFaults = 0
  MaxChan = 6
PROPERTY SettledIsQuiet
