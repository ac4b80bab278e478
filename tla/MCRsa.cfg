SPECIFICATION Spec
CONSTANTS
  HalfBits = 2
  N = 2
  Instance <- MCInstance
INVARIANTS
  ReturnsPower
  KeyIsRestored
  ReductionInv
