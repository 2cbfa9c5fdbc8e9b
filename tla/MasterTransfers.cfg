SPECIFICATION Spec
CHECK_DEADLOCK FALSE
CONSTANTS
  r1 = r1
  r2 = r2
  p1 = p1
  NoPassword = NoPassword
  BasePort = 3000
  MaxRequestId = 1
  Requesters = {r1, r2}
  Zones <- MCTwoZones
  SoftCap <- MCCapOne
  Passwords = {}
  MaxInstances = 4
  MaxWorldCrashes = 0
  MaxConnectionLosses = 0
  MaxMasterRestarts = 0
  MaxTimeouts = 1
  MaxIdleWorlds = 1
  ReusedMemory = FALSE
  SignalsMaster = FALSE
  MaxCommands = 1
SYMMETRY MCSymmetry
INVARIANT TypeOK
INVARIANT InstanceKeysUnique
INVARIANT ClientsCounted
INVARIANT AffirmationsUnderWay
INVARIANT NoRequestLost
PROPERTY TransfersKeepPromise
