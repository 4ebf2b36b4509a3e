SPECIFICATION JoinSpec
CONSTANTS
  A = A
  B = B
  C = C
  D = D
  Node = {A, B, C, D}
  Link <- Kite
  Dist <- Hops
  Infinity = 6
  NoEntry = NoEntry
  MayCrash = {D}
  MayRestart = {}
  MaxWireFaults = 0
  MaxChan = 6
INVARIANT LoopFreeWhenQuiet
