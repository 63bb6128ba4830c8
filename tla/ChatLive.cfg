CONSTANTS
  Clients = {c1, c2}
  Peer = Peer
  MAX_CLIENTS = 3
  NFDS = 8
  MaxFd = 8
  MaxSay = 1
  MaxNotices = 4
  SendBuf = 1
  NoticeBuf = 1
  Faults = {}
  EarlyClients = FALSE
  SleepSuffices = TRUE
SPECIFICATION EndlessSpec
PROPERTIES LinesAreTaken SlotsComeBack NoticesGoOut
CHECK_DEADLOCK FALSE
