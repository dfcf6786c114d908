SPECIFICATION FairReconcile
CONSTANTS
  k1 = k1
  k2 = k2
  o1 = o1
  w1 = w1
  cron = cron
  NoRow = NoRow
  NoOrder = NoOrder
  Keys = {k1, k2}
  Stocked = {k1}
  PoolCount = 1
  PoolOf <- OwnPoolOnly
  Orders = {o1}
  Reservations <- MCRows
  Workers = {w1}
  Cron = cron
  Original <- Unrelated
  Quantity <- TwoKeysEach
  Overlap = TRUE
  MaxWriteOffs = 0
  Faults = {"market"}
  Tasks = {w1, cron}
  Hashed = {k1, k2}
  MaxOrderBatch = 1
PROPERTIES
  BuyersKeysStay
  ReservationsSettle
