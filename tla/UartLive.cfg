CONSTANTS
  Count = 2
  Word = 4
  MaxCall = 3
  MaxTx = 6
  MaxRx = 4
  MaxEarly = 4
SPECIFICATION FairSpec
PROPERTY AllIsSent
CHECK_DEADLOCK FALSE
