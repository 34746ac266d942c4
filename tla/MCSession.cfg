SPECIFICATION FairSpec
CONSTANTS
  N = 2
  Usable = 1
  OldViews = TRUE
  BatchMax = 2
  MaxSubmit = 2
INVARIANTS OncePerCommandInOrder StopsDrained
PROPERTIES Terminates
