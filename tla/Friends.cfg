SPECIFICATION Spec
SYMMETRY MCSymmetry
CHECK_DEADLOCK FALSE
CONSTANTS
  a = a
  b = b
  c = c
  Players = {a, b, c}
  InitialFriends <- MCNoFriends
  MaxFriends = 2
  MaxBestFriends = 1
  AsksOffline = FALSE
  MaxRequests = 2
  MaxLogins = 3
INVARIANTS
  TypeOK
  OneRowPerFriendship
  ListsCoverTable
  BestFriendsByConsent
PROPERTIES
  FriendsByConsent
