SPECIFICATION Spec
CONSTANTS
  Buffer = {b1, b2}
  None = None
  Threshold = 0
  ReservedEvents = 5
  NumRx = 2
  NumTx = 2
  ArpRequests = 1
INVARIANT FreedAfterSent
