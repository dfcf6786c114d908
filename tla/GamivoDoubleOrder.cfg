SPECIFICATION Spec
CONSTANTS
  k1 = k1
  k2 = k2
  k3 = k3
  r1 = r1
  r2 = r2
  w1 = w1
  w2 = w2
  cron = cron
  NoRow = NoRow
  NoOrder = NoOrder
  Keys = {k1}
  Stocked = {k1}
  PoolCount = 1
  PoolOf <- OwnPoolOnly
  Orders = {}
  Reservations = {r1}
  Workers = {w1, w2}
  Cron = cron
  Quantity <- OneKeyEach
  RefundCounts <- AnyCount
  Overlap = TRUE
  Faults = {}
  Tasks = {w1, w2, cron}
INVARIANTS
  DeliveredIsReplayable
