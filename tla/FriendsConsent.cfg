SPECIFICATION Spec
CHECK_DEADLOCK FALSE
CONSTANTS
  a = a
  b = b
  c = c
  Players = {a, b, c}
  InitialFriends <- MCFriends
  MaxFriends = 2
  MaxBestFriends = 1
  AsksOffline = TRUE
  MaxRequests = 1
  MaxLogins = 3
INVARIANTS
  BestFriendsByConsent
