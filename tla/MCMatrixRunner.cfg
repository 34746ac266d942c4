SPECIFICATION RunnerSpec
CONSTANTS
  None = None
  c1 = c1
  c2 = c2
  c3 = c3
  Sentinel = Sentinel
  Cells <- MCCells
  Rounds = 2
  MaxBad = 2
INVARIANTS
  Balanced
  PairedWithinRound
  AnalysisFindsItsCells
  ValidMeansDelivered
