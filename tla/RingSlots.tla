---- MODULE RingSlots ----
\* How SPSCQueue (include/spsc_queue.h) and MulticastRing
\* (include/multicast_ring.h) find the place of a value: both hold CAP places
\* and mask a number that only grows with CAP - 1.  Their static_asserts make
\* CAP a power of two, for which the mask is the remainder; what is said about
\* the rings needs only the other half of the assertion, that there are two.
EXTENDS Integers

\* template parameter of both classes
CONSTANT CAP

ASSUME CapAssumption == CAP \in Nat /\ CAP >= 2

\* n & (CAP - 1)
Slot(n) == n % CAP

\* the indices of buf_ and slots_
Slots == 0 .. (CAP - 1)
====
