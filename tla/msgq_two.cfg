SPECIFICATION Spec
CONSTANTS
  Addr = {a1, a2, a3}
  NULL = NULL
  Free = Free
  Data = {d1, d2}
  MAX_ELEMENTS = 15
PROPERTY ImplementsFifo
CHECK_DEADLOCK FALSE
