SPECIFICATION Spec
CONSTANTS
  NoFile = NoFile
  Seeds = 3
  Regimes = 2
  MaxGens = 2
  MaxStops = 2
  MaxInvalid = 1
  MaxChanges = 1
INVARIANTS
  HeldoutAfterSelection
  Counterbalanced
  MeasuredAsFrozen
PROPERTY
  FrozenBySelection
CHECK_DEADLOCK FALSE
