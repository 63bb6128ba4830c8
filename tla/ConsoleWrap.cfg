CONSTANTS
  Keys = {}
  Neighbours = {0}
  MAX_BUFFER = 4
  ANTISHOCK = 5
  UINT8 = 256
  DELAY_MS = 1
  MaxDel = 0
  MaxBig = 280
SPECIFICATION Spec
PROPERTY Button2Sets255
