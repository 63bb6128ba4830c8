CONSTANTS
  Clients = {c1, c2}
  Peer = Peer
  MAX_CLIENTS = 3
  NFDS = 7
  MaxFd = 8
  MaxSay = 1
  MaxNotices = 4
  SendBuf = 2
  NoticeBuf = 4
  Faults = {}
  EarlyClients = FALSE
  SleepSuffices = TRUE
SPECIFICATION FairSpec
PROPERTY EveryTerminalIsHeard
CHECK_DEADLOCK FALSE
