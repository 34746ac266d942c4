SPECIFICATION Spec
CONSTANTS
  Steps = 2
  Usable = 2
  RingUsable = 2
  CmdUsable = 2
  HkUsable = 1
  Modes <- FutexOnly
INVARIANT CountsLostWakeups
