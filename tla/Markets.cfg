SPECIFICATION MarketplaceSpec
CONSTANTS
  k1 = k1
  k2 = k2
  k3 = k3
  kin = kin
  gtwo = gtwo
  digi = digi
  w1 = w1
  w2 = w2
  cron = cron
  NoRow = NoRow
  NoOrder = NoOrder
  Keys = {k1, k2}
  Stocked = {k1, k2}
  PoolCount = 1
  PoolOf <- OnePool
  Orders = {}
  Reservations = {kin, gtwo, digi}
  Workers = {w1}
  Cron = cron
  MarketOf <- OneOfEach
  Quantity <- TwoForKinguin
  Overlap = TRUE
  Faults = {"market", "decrypt"}
  Tasks = {w1, cron}
INVARIANTS
  MarketplaceTypeOK
  DeliveredWasUploaded
  GivenWithinQuantity
  GivenIsFinal
  KinguinBooksFollowKeys
  NoPhantomProvision
  SharedStockIsFree
PROPERTIES
  NeverReopened
