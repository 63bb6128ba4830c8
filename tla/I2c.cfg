CONSTANTS
  Bytes <- MCBytes
  Requests <- MCRequests
  MaxTx = 2
  MaxRx = 3
SPECIFICATION FairSpec
INVARIANTS TypeOK OnlyLastByteNacked BusReleased NeverStuck
PROPERTIES IsTransfer TransferEnds
