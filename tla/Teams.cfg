SPECIFICATION Spec
CHECK_DEADLOCK FALSE
SYMMETRY MCSymmetry
CONSTANTS
  a = a
  b = b
  c = c
  w = w
  Players = {a, b, c}
  Worlds = {w}
  Zones <- MCZones
  PartyZones <- MCPartyZones
  HomeZone <- MCHomeZone
  MaxMembers = 3
  DefaultLoot = 1
  MaxTeams = 2
  MaxMoves = 1
  MaxStrays = 1
  MaxInvites = 1
  MaxParty = 2
  CountRange <- MCCountRange
  MaxBacklog = 1
INVARIANTS
  TypeOK
  CopiesFollow
  LootOwnerExists
  NobodyUncounted
PROPERTIES
  LeadershipPassesOn
  SecondTeamByInviteOnly
