\* Two slots of each kind, enough commands to use them again.
CONSTANTS
  NumSessions = 2
  MaxCount = 1
  MaxPcbs = 3
  MaxTasks = 2
  MaxSessions = 2
  MboxSize = 1
  MaxIperfs = 3
  MaxEntries = 2
  MaxSockets = 3
  MaxStarts = 2
  NumServers = 2
  KodMax = 1
  MsgQLen = 5
SPECIFICATION MCSpec
CHECK_DEADLOCK FALSE
INVARIANTS
  PingSafe
  IperfSafe
  SocketsOwned
  SntpObjectsAlive
PROPERTIES
  DeletesFinished
  ToldToStopEnds
