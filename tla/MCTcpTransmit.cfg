SPECIFICATION Spec
CONSTANTS
  LENGTH = 3
  SeqSpace = 32
  FirstSeq = 30
  StreamLength = 3
  SendSize = 2
  MSS = 2
  SegCount = 2
  Borrowers = 1
  TxWindow = 2
  Windows = {0, 2}
  SEND_REPEATED_COUNT = 1
  DUPLICATE_ACKS_BEFORE_FAST_RETRANSMIT = 2
  MAX_TRANSMIT_COUNT_USING_LARGE_WINDOW = 1
  MaxKeepAlives = 0
  MaxWire = 2
  SelectiveAcks = TRUE
INVARIANTS TransmitInv SentAsWritten
PROPERTIES ImplementsTransfer AllAcknowledged
CHECK_DEADLOCK FALSE
