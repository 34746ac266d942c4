SPECIFICATION RingFairSpec
CONSTANTS
  CAP = 4
  MaxPush = 9
INVARIANTS NoRace InOrder
PROPERTIES ImplementsFifo AllDelivered
