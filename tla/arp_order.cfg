SPECIFICATION Spec
CONSTANTS
  A = A
  B = B
  C = C
  Node = {A, B, C}
  Link <- Line
  Traffic <- TwoDestinations
  Addr = {a1, a2, a3}
  NULL = NULL
  Free = Free
  MayMove = {}
  MaxData = 2
  MaxLosses = 0
INVARIANT ListCanBeWalked
CHECK_DEADLOCK FALSE
