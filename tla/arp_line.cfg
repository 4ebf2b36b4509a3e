SPECIFICATION FairSpec
CONSTANTS
  A = A
  B = B
  C = C
  Node = {A, B, C}
  Link <- Line
  Traffic <- Line
  Addr = {a1, a2}
  NULL = NULL
  Free = Free
  MayMove = {B}
  MaxData = 2
  MaxLosses = 1
INVARIANTS TypeOK WaitingIsAnswered
PROPERTIES ListBreaksOutOfOrder EveryDatagramArrives
CHECK_DEADLOCK FALSE
