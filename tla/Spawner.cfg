SPECIFICATION FairSpec
CHECK_DEADLOCK FALSE
CONSTANTS
  NodeMax <- MCNodeMax
  RespawnTime = 2
  Amounts = {1, 3}
  Limits <- MCLimits
  MaxDeaths = 3
  MaxCommands = 2
INVARIANTS
  TypeOK
  NodesAgree
  MissingAreAwaited
PROPERTIES
  Replenished
