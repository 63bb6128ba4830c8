CONSTANTS
  Keys <- SomeKeys
  Neighbours = {70}
  MAX_BUFFER = 4
  ANTISHOCK = 2
  UINT8 = 4
  DELAY_MS = 1
  MaxDel = 1
  MaxBig = 256
SPECIFICATION FairSpec
INVARIANTS TypeOK ResultFollowsInput CursorNearBuffer LineEndsAtHalf
PROPERTIES TakenIsTyped RangeLeftByLongLine BouncesIgnored ReturnsToKeyboard TwoKeysEndLine
