SPECIFICATION FairMulticast
CONSTANTS
  CAP = 2
  WORDS = 2
  MaxPub = 5
INVARIANTS NoTear Accounting
PROPERTIES GivesUpOnlyLapped CatchesUp
