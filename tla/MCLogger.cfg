SPECIFICATION FairLogger
CONSTANTS
  LogUsable = 2
  OldViews = TRUE
  MaxCommands = 3
  MaxTrades = 2
INVARIANTS TradesHaveCommands
PROPERTIES StopReturns
