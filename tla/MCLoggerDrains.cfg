SPECIFICATION FairLogger
CONSTANTS
  LogUsable = 2
  OldViews = FALSE
  MaxCommands = 2
  MaxTrades = 1
INVARIANT DrainedByStop
