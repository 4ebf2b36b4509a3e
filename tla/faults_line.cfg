SPECIFICATION Spec
CONSTANTS
  A = A
  B = B
  C = C
  D = D
  Node = {A, B, C}
  Link <- Line
  Dist <- Hops
  Infinity = 4
  NoEntry = NoEntry
  MayCrash = {C}
  MayRestart = {C}
  MaxWireFaults = 1
  MaxChan = 6
INVARIANTS TypeOK NeighbourListMatchesTable RoutesUseNeighbours NoUnderestimate RouteSupported
CHECK_DEADLOCK FALSE
