SPECIFICATION FairSpec
CHECK_DEADLOCK FALSE
CONSTANTS
  x = x
  y = y
  z = z
  nobody = nobody
  Players = {x, y, z}
  Nobody = nobody
  Objects = {1, 2, 3}
  MinTeamSize = 2
  MaxTeamSize = 2
  MinTeams = 1
  MaxTeams = 1
  WaitTime = 2
  StartDelay = 1
  Cost = 1
  InitialHeld <- MCHeld
  MaxLeaves = 1
  MaxDepartures = 1
  MaxReloads = 1
INVARIANTS
  TypeOK
PROPERTIES
  StartsAsPromised
  LobbiesStart
