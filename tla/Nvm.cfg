CONSTANTS
  Radix = 6
  Word = 8
  Chunk = 3
  PageSize <- MCPageSize
  Bytes <- MCBytes
  Requests <- MCRequests
  Size <- MCSize
  Calls <- MCCalls
  MaxCalls = 2
  MaxFaults = 1
  Faults = {"nak", "38", "00", "slow"}
SPECIFICATION NvmSpec
INVARIANTS NvmTypeOK OldOrNew WriteLands WriteIsExact ReadIsExact OnlyItsPages
PROPERTY CallsReturn
CHECK_DEADLOCK FALSE
