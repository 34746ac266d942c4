SPECIFICATION Spec
CONSTANTS
  N = 2
  Qtys = {1, 2}
  Agents <- MCAgents
  Ids <- OrderIds
  NewOrders <- SmallOrders
  MinPx = 1
  MaxPx = 3
  CollarLo = 1
  CollarHi = 1
  MakerFee <- Rebate
  TakerFee = 3
  EventUsable = 6
  BatchMax = 2
  MaxCommands = 3
INVARIANT TopAgrees
CHECK_DEADLOCK FALSE
