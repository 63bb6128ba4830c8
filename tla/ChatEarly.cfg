CONSTANTS
  Clients = {c1, c2, c3}
  Peer = Peer
  MAX_CLIENTS = 4
  NFDS = 9
  MaxFd = 8
  MaxSay = 1
  MaxNotices = 4
  SendBuf = 3
  NoticeBuf = 4
  Faults = {}
  EarlyClients = TRUE
  SleepSuffices = TRUE
SPECIFICATION Spec
INVARIANT EveryoneHears
CHECK_DEADLOCK FALSE
