CONSTANTS
  Count = 4
  Word = 8
  MaxCall = 5
  MaxTx = 9
  MaxRx = 9
  MaxEarly = 1
SPECIFICATION Spec
INVARIANTS TypeOK ShortSendMeansFull CopiesInArray NoByteStranded
PROPERTIES SendsInOrder ReceivesInOrder
CHECK_DEADLOCK FALSE
