SPECIFICATION Spec
CHECK_DEADLOCK FALSE
CONSTANTS
  r1 = r1
  r2 = r2
  p1 = p1
  NoPassword = NoPassword
  BasePort = 3000
  MaxRequestId = 1
  Requesters = {r1}
  Zones <- MCOneZone
  SoftCap <- MCCapOne
  Passwords = {}
  MaxInstances = 3
  MaxWorldCrashes = 0
  MaxConnectionLosses = 0
  MaxMasterRestarts = 1
  MaxTimeouts = 0
  MaxIdleWorlds = 0
  ReusedMemory = FALSE
  SignalsMaster = FALSE
  MaxCommands = 1
INVARIANT ReadyWorldsAreReady
