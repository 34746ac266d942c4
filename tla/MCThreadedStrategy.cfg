SPECIFICATION FairSpec
CONSTANTS
  Steps = 2
  Usable = 1
  RingUsable = 1
  CmdUsable = 1
  HkUsable = 1
  Modes <- MCModes
INVARIANTS
  NoLostWakeup
  InStep
  NothingLeftBehind
PROPERTY Returns
