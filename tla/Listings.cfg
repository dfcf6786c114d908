SPECIFICATION Spec
CONSTANTS
  one = one
  cb1 = cb1
  cb2 = cb2
  pricing = pricing
  declared = declared
  remote = remote
  Margin = 10
  Commission = 20
  Fee = 1
  ProviderFloor = 8
  Gap = 20
  MinDelta = 1
  Strategy = "match_lowest"
  StrategyValue = 0
  Listings = {one}
  Callbacks = {cb1, cb2}
  Runs <- OneEach
  PhaseOf <- Phase
  Supplies <- FewSupplies
  Rivals <- FewRivals
  Starts <- FewStarts
  FirstPrice = 15
  MaxShown = 1
  MaxMoves = 2
  MaxAtOnce = 2
  PauseAt = 2
  OosPauseAt = 2
INVARIANTS
  ListingTypeOK
  BooksMatchShop
  BreakersHold
PROPERTIES
  NeverPricedBelowFloor
  NeverDeclaredAtALoss
  DryListingsHide
CHECK_DEADLOCK FALSE
