------------------------- MODULE MCThreadedStrategy -------------------------
EXTENDS ThreadedStrategy

Mode(q, t, h) == [queue |-> q, topology |-> t, hk |-> h]

\* every queue with every topology that uses it, and each place of housekeeping
MCModes ==
  {Mode(q, "forward", "thread") : q \in {"spsc", "mutex_cv", "futex"}}
    \cup {Mode(q, "split", "inline") : q \in {"spsc", "mutex_cv", "futex"}}
    \cup {Mode("spsc", "single", "thread"), Mode("spsc", "single", "none")}

FutexOnly == {Mode("futex", "split", "none")}
=============================================================================
