SPECIFICATION Spec
CONSTANTS
  LENGTH = 5
  SeqSpace = 32
  FirstSeq = 30
  StreamLength = 6
  Packets <- OneCut
  SegCount = 2
  BufferLength = 2
  LittleSpace = 1
  EnoughSpace = 3
INVARIANTS StreamIntact ReceiveInv FinAfterData
PROPERTIES ImplementsByteStream Completes
CHECK_DEADLOCK FALSE
