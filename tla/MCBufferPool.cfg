SPECIFICATION PoolSpec
CONSTANTS
  Buffer = {b1, b2, b3, b4}
  Task = {t1, t2}
  Threshold = 1
SYMMETRY Symmetry
INVARIANTS
  PoolIInv
PROPERTIES
  HandlerLeavesReserve
  ImplementsOwnership
