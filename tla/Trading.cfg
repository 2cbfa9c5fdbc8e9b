SPECIFICATION Spec
CHECK_DEADLOCK FALSE
CONSTANTS
  ann = ann
  bob = bob
  cat = cat
  gem = gem
  pie = pie
  junk = junk
  Players = {ann, bob, cat}
  Lots = {gem, pie}
  NoLot = junk
  StackSize <- MCStackSize
  CountRange = 4
  Slots = 1
  InitialCoins <- MCCoins
  InitialItems <- MCItems
  FirstNewItem = 3
  Offers <- MCOffers
  MaxTrades = 2
  MaxItems = 5
  MaxLosses = 1
  MaxAbsences = 1
INVARIANTS
  TypeOK
  WealthConserved
PROPERTIES
  AcceptedTradesAreSettled
  WealthMovesInTradesOnly
