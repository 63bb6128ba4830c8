CONSTANTS
  Clients = {c1, c2, c3}
  Peer = Peer
  MAX_CLIENTS = 3
  NFDS = 9
  MaxFd = 7
  MaxSay = 1
  MaxNotices = 4
  SendBuf = 3
  NoticeBuf = 4
  Faults = {}
  EarlyClients = FALSE
  SleepSuffices = TRUE
SYMMETRY AnyClient
SPECIFICATION Spec
INVARIANTS NoLostWakeup NoMutualWait EveryoneHears
PROPERTY IsChatRoom
CHECK_DEADLOCK FALSE
