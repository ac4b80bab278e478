SPECIFICATION FairSpec
CONSTANTS
  Buffer = {b1, b2}
  None = None
  Threshold = 0
  ReservedEvents = 5
  NumRx = 3
  NumTx = 2
  ArpRequests = 1
INVARIANTS
  PathInv
PROPERTIES
  StallsOnlyWhenStarved
  ImplementsCustody
  IpTaskReturns
