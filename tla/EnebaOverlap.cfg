SPECIFICATION Spec
CONSTANTS
  k1 = k1
  k2 = k2
  k3 = k3
  o1 = o1
  o2 = o2
  w1 = w1
  w2 = w2
  cron = cron
  NoRow = NoRow
  NoOrder = NoOrder
  Keys = {k1}
  Stocked = {}
  PoolCount = 1
  PoolOf <- OwnPoolOnly
  Orders = {o1, o2}
  Reservations <- MCRows
  Workers = {w1, w2}
  Cron = cron
  Original <- Substituted
  Quantity <- OneKeyEach
  Overlap = TRUE
  MaxWriteOffs = 0
  Faults = {"rpc", "decrypt"}
  Tasks = {w1, w2, cron}
INVARIANTS
  SaleRecordedOnce
PROPERTIES
  NeverReopened
