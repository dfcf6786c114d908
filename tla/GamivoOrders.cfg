SPECIFICATION FairSpec
CONSTANTS
  k1 = k1
  k2 = k2
  k3 = k3
  r1 = r1
  r2 = r2
  w1 = w1
  w2 = w2
  cron = cron
  NoRow = NoRow
  NoOrder = NoOrder
  Keys = {k1, k2, k3}
  Stocked = {k1, k2, k3}
  PoolCount = 1
  PoolOf <- OwnPoolOnly
  Orders = {}
  Reservations = {r1, r2}
  Workers = {w1}
  Cron = cron
  Quantity <- TwoKeysEach
  RefundCounts <- OneOfR2
  Overlap = FALSE
  Faults = {}
  Tasks = {w1, cron}
INVARIANTS
  StockIsFree
  SettledRowsAgree
  LedgerFollowsKeys
  RefundedAsAnnounced
PROPERTIES
  ReservationsSettle
