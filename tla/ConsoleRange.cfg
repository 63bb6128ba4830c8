CONSTANTS
  Keys <- SomeKeys
  Neighbours = {0}
  MAX_BUFFER = 4
  ANTISHOCK = 5
  UINT8 = 256
  DELAY_MS = 2
  MaxDel = 0
  MaxBig = 280
SPECIFICATION Spec
INVARIANT ValueInRange
