SPECIFICATION FairEstablishedSpec
CONSTANTS
  A = A
  B = B
  C = C
  D = D
  Node = {A, B, C}
  Link <- Triangle
  Dist <- Hops
  Infinity = 4
  NoEntry = NoEntry
  MayCrash = {B}
  MayRestart = {B}
  MaxWireFaults = 0
  MaxChan = 6
PROPERTY Converges
