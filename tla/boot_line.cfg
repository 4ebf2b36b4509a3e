SPECIFICATION FairSpec
CONSTANTS
  A = A
  B = B
  C = C
  D = D
  Node = {A, B, C}
  Link <- Line
  Dist <- Hops
  Infinity = 4
  NoEntry = NoEntry
  MayCrash = {C}
  MayRestart = {C}
  MaxWireFaults = 0
  MaxChan = 6
PROPERTIES Converges EventuallyQuiet DeadIsForgotten
