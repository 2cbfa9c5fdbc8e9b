SPECIFICATION FairSpec
CHECK_DEADLOCK FALSE
CONSTANTS
  r1 = r1
  r2 = r2
  p1 = p1
  NoPassword = NoPassword
  BasePort = 3000
  MaxRequestId = 1
  Requesters = {r1}
  Zones <- MCTwoZones
  SoftCap <- MCCapTwo
  Passwords = {p1}
  MaxInstances = 4
  MaxWorldCrashes = 0
  MaxConnectionLosses = 0
  MaxMasterRestarts = 0
  MaxTimeouts = 1
  MaxIdleWorlds = 1
  ReusedMemory = FALSE
  SignalsMaster = TRUE
  MaxCommands = 1
INVARIANT NoNullInstance
PROPERTY EveryTransferAnswered
PROPERTY ShutdownReachesWorlds
PROPERTY NoNewWorkWhenShuttingDown
