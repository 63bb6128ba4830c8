CONSTANTS
  Clients = {c1, c2}
  Peer = Peer
  MAX_CLIENTS = 3
  NFDS = 8
  MaxFd = 8
  MaxSay = 1
  MaxNotices = 4
  SendBuf = 3
  NoticeBuf = 4
  Faults = {"listen", "thread", "socket", "connect", "accept"}
  EarlyClients = TRUE
  SleepSuffices = TRUE
SYMMETRY AnyClient
SPECIFICATION Spec
INVARIANTS TypeOK NoStaleSlot OneSlotEach RecvNeverBlocks
CHECK_DEADLOCK FALSE
