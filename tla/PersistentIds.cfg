SPECIFICATION FairSpec
CHECK_DEADLOCK FALSE
CONSTANTS
  Worlds = {v, w}
  Names = {n, o}
  NoName = NoName
  MaxRequests = 2
  MaxFaults = 2
INVARIANTS
  TypeOK
  IdsUsedOnce
  TrackerCoversIds
  NamesUnique
PROPERTIES
  ImplementsUniqueIds
  RequestsAnswered
