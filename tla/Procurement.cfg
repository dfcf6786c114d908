SPECIFICATION Spec
CONSTANTS
  jit = jit
  man = man
  first = first
  second = second
  Buys = {jit, man}
  Suppliers = {first, second}
  NoSupplier = NoSupplier
  c1 = c1
  c2 = c2
  Codes = {c1, c2}
  Manual = {man}
  Quantity = 2
  Offers <- FewOffers
  SalePrice = 4
  MinMargin = 1
  Fees = 1
  Faults = {"supplier", "database", "rates"}
SYMMETRY CodeSymmetry
INVARIANTS
  ProcurementTypeOK
  OrdersAreRecorded
  NoReceivedCodeIsLost
  CheapestFirst
PROPERTIES
  StopsOnceSupplied
  ContractKept
CHECK_DEADLOCK FALSE
