SPECIFICATION Spec
CONSTANTS
  N = 2
  Usable = 1
  OldViews = FALSE
  BatchMax = 1
  MaxSubmit = 1
INVARIANT ArrivalOrder
