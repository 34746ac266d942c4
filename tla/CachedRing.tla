----------------------------- MODULE CachedRing -----------------------------
(***************************************************************************)
(* ExperimentalRing (experiments/architecture/queues.h).  With CACHE each  *)
(* side keeps the other's index as it last read it, and reads it again     *)
(* only when the ring looks full, or empty, on the copy; without, it is    *)
(* the SPSC queue.  seenTail and seenHead are head.cached and tail.cached. *)
(***************************************************************************)
EXTENDS SpscQueue

VARIABLE CACHE   \* the template's parameter, which never changes

RingInit == Init /\ CACHE \in BOOLEAN

\* the cached tail leaves room: no load at all
PushOnCache ==
  /\ CACHE
  /\ ppc = "idle"
  /\ pushed < MaxPush
  /\ ~Full(seenTail)
  /\ ppc' = "write"
  /\ UNCHANGED <<pushed, popped, seenTail, seenHead, buf, cpc, out, got>>

\* mutant: with CACHE, a push that looks full is refused before tail is loaded
PushLoadRefused(k) == ~CACHE /\ PushStart(k)

PushLoad(k) == (CACHE => Full(seenTail)) /\ PushStart(k)

\* mutant: the copy is compared with the slot after the next
PopOnCacheAhead ==
  /\ CACHE
  /\ cpc = "idle"
  /\ Slot(popped + 1) # Slot(seenHead)
  /\ cpc' = "read"
  /\ UNCHANGED <<pushed, popped, seenTail, seenHead, buf, ppc, out, got>>

PopOnCache ==
  /\ CACHE
  /\ cpc = "idle"
  /\ ~Empty(seenHead)
  /\ cpc' = "read"
  /\ UNCHANGED <<pushed, popped, seenTail, seenHead, buf, ppc, out, got>>

PopLoad(k) == (CACHE => Empty(seenHead)) /\ PopStart(k)

RingNext ==
  /\ \/ PushOnCache \/ PushWrite \/ PushPublish
     \/ \E k \in seenTail .. popped : PushLoad(k)
     \/ PopOnCache \/ PopRead \/ PopRetire
     \/ \E k \in seenHead .. pushed : PopLoad(k)
  /\ UNCHANGED CACHE

RingSpec == RingInit /\ [][RingNext]_<<vars, CACHE>>

(* Both sides poll for ever, and a load that is repeated returns the       *)
(* newest store in the end.                                                *)
RingFairness ==
  /\ WF_vars(PushOnCache) /\ WF_vars(PushLoad(popped))
  /\ WF_vars(PushWrite) /\ WF_vars(PushPublish)
  /\ WF_vars(PopOnCache) /\ WF_vars(PopLoad(pushed))
  /\ WF_vars(PopRead) /\ WF_vars(PopRetire)

RingFairSpec == RingSpec /\ RingFairness
=============================================================================
