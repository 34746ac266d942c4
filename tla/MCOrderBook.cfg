SPECIFICATION HSpec
CONSTANTS
  Agents = {a1, a2}
  Resters = {o1, o2, o3}
  Taker = t
  Ids <- OrderIds
  NoAgent = NoAgent
  NoId = NoId
  MinPx = 0
  MaxPx = 2
  MaxQty = 2
  NewOrders <- SmallOrders
SYMMETRY Interchangeable
INVARIANTS StructureOK NoLeaks
PROPERTY ImplementsLimitBook
