---------------------------- MODULE MulticastRing ---------------------------
(***************************************************************************)
(* MulticastRing (include/multicast_ring.h) under the C++ memory model:    *)
(* one writer that never waits, and a reader that copies a slot word by    *)
(* word and detects that the writer came around meanwhile.  Readers share  *)
(* nothing they write, so one reader stands for each of them.              *)
(*                                                                         *)
(* There is a single writer, so all its stores are totally ordered.  A     *)
(* store is named by the pair <<n, k>>: step k of publish n, where step 0  *)
(* marks the slot as being written and is followed by the release fence,   *)
(* step j \in 1..WORDS stores word j, DONE stores the publish number in    *)
(* the slot and HEAD stores it in head_.  Publish 0 is the initialisation, *)
(* complete in every slot.                                                 *)
(*                                                                         *)
(* The reader may load any store of a location except those hidden by a    *)
(* newer one that happens before the load (hb), or that it has already     *)
(* read past (coherence).  Words are loaded relaxed: what the release      *)
(* fence before them ordered is gained only at the next acquire fence      *)
(* (pend).                                                                 *)
(***************************************************************************)
EXTENDS RingSlots, Sequences

CONSTANTS
  WORDS,   \* words of a payload
  MaxPub   \* bound on the number of publishes

ASSUME WordsAssumption == WORDS \in Nat /\ WORDS >= 1
ASSUME PubAssumption == MaxPub \in Nat

VARIABLES
  now,      \* the writer's last store
  hb,       \* every store up to this one happens before the reader's next load
  pend,     \* what the loads since then will add to hb at an acquire fence
  cohSeq,   \* per slot, the newest store of its sequence number the reader read
  pc,       \* where the reader stands in try_read
  attempt,  \* its loop counter
  next,     \* Reader::next
  dropped,  \* Reader::dropped
  copy,     \* the words copied so far, each named by the publish it came from
  seen,     \* history: how often try_read returned true
  payload,      \* the payload of the last such call ...
  outFor    \* ... and the publish number the reader took it for

readerVars == <<hb, pend, cohSeq, pc, attempt, next, dropped, copy, seen, payload, outFor>>
ringVars == <<now, readerVars>>

Words == 1 .. WORDS
DONE  == WORDS + 1
HEAD  == WORDS + 2

Before(a, b) == a[1] < b[1] \/ (a[1] = b[1] /\ a[2] < b[2])
Latest(a, b) == IF Before(a, b) THEN b ELSE a

Start == <<0, HEAD>>

----------------------------------------------------------------------------
(* The writer: publish(). *)

Mark == /\ now[2] = HEAD
        /\ now[1] < MaxPub
        /\ now' = <<now[1] + 1, 0>>
        /\ UNCHANGED readerVars

StoreWord == /\ now[2] < WORDS
             /\ now' = <<now[1], now[2] + 1>>
             /\ UNCHANGED readerVars

StoreSeq == /\ now[2] = WORDS
            /\ now' = <<now[1], DONE>>
            /\ UNCHANGED readerVars

StoreHead == /\ now[2] = DONE
             /\ now' = <<now[1], HEAD>>
             /\ UNCHANGED readerVars

Writer == Mark \/ StoreWord \/ StoreSeq \/ StoreHead

----------------------------------------------------------------------------
(* What a load may return. *)

\* publishes that write slot s
InSlot(s) == {n \in 0 .. now[1] : n = 0 \/ Slot(n) = s}

SeqStores(s)     == {t \in InSlot(s) \X {0, DONE} : t # <<0, 0>> /\ ~Before(now, t)}
WordStores(s, j) == {t \in InSlot(s) \X {j} : ~Before(now, t)}
HeadStores       == {t \in (0 .. now[1]) \X {HEAD} : ~Before(now, t)}

\* the stores of one location that are not hidden by a newer one within view
Loadable(stores, view) ==
  {t \in stores : \A u \in stores : Before(t, u) => Before(view, u)}

SeqLoads(s) == {t \in Loadable(SeqStores(s), hb) : ~Before(t, cohSeq[s])}

Marked(t) == t[2] = 0   \* the WRITING bit of a sequence number

\* what an acquire operation that reads store t is ordered after: the store
\* itself if it is a release store, else the last release fence before it
Released(t) ==
  CASE t[2] \in {DONE, HEAD} -> t
    [] t[2] \in Words        -> <<t[1], 0>>
    [] OTHER                 -> IF t[1] > 1 THEN <<t[1] - 1, 0>> ELSE Start

----------------------------------------------------------------------------
(* The reader: try_read(). *)

MulticastInit ==
  /\ now = Start /\ hb = Start /\ pend = Start
  /\ cohSeq = [s \in Slots |-> <<0, DONE>>]
  /\ pc = "idle" /\ attempt = 0
  /\ next = 1 /\ dropped = 0
  /\ copy = <<>>
  /\ seen = 0 /\ payload = [j \in Words |-> 0] /\ outFor = 0

Call == /\ pc = "idle"
        /\ pc' = "seq"
        /\ attempt' = 0
        /\ UNCHANGED <<now, hb, pend, cohSeq, next, dropped, copy, seen, payload, outFor>>

\* mutant: any other publish number in the slot means "not published yet"
ReadSeqNeverLapped(t) ==
  /\ pc = "seq"
  /\ t \in SeqLoads(Slot(next))
  /\ hb' = Latest(hb, Released(t))
  /\ cohSeq' = [cohSeq EXCEPT ![Slot(next)] = t]
  /\ pc' = IF t[1] = next /\ ~Marked(t) THEN "copy" ELSE "idle"
  /\ copy' = <<>>
  /\ UNCHANGED <<now, pend, attempt, next, dropped, seen, payload, outFor>>

\* s1 = seq.load(acquire) reads store t
ReadSeq(t) ==
  /\ pc = "seq"
  /\ t \in SeqLoads(Slot(next))
  /\ hb' = Latest(hb, Released(t))
  /\ cohSeq' = [cohSeq EXCEPT ![Slot(next)] = t]
  /\ pc' = IF t[1] = next /\ ~Marked(t) THEN "copy"
           ELSE IF t[1] < next \/ (t[1] = next /\ Marked(t)) THEN "idle"
           ELSE "lapped"
  /\ copy' = <<>>
  /\ UNCHANGED <<now, pend, attempt, next, dropped, seen, payload, outFor>>

\* one relaxed load of a payload word
CopyWord ==
  /\ pc = "copy"
  /\ Len(copy) < WORDS
  /\ \E t \in Loadable(WordStores(Slot(next), Len(copy) + 1), hb) :
       /\ copy' = Append(copy, t[1])
       /\ pend' = Latest(pend, Released(t))
  /\ UNCHANGED <<now, hb, cohSeq, pc, attempt, next, dropped, seen, payload, outFor>>

\* mutant: no acquire fence between the copy and the second check
NoFence ==
  /\ pc = "copy"
  /\ Len(copy) = WORDS
  /\ pc' = "recheck"
  /\ UNCHANGED <<now, hb, pend, cohSeq, attempt, next, dropped, copy, seen, payload, outFor>>

AcquireFence ==
  /\ pc = "copy"
  /\ Len(copy) = WORDS
  /\ hb' = Latest(hb, pend)
  /\ pc' = "recheck"
  /\ UNCHANGED <<now, pend, cohSeq, attempt, next, dropped, copy, seen, payload, outFor>>

\* seq.load(relaxed) == n: still the publish the copy was started for?
Recheck(t) ==
  /\ pc = "recheck"
  /\ t \in SeqLoads(Slot(next))
  /\ pend' = Latest(pend, Released(t))
  /\ cohSeq' = [cohSeq EXCEPT ![Slot(next)] = t]
  /\ IF t[1] = next /\ ~Marked(t)
     THEN /\ payload' = copy
          /\ outFor' = next
          /\ seen' = seen + 1
          /\ next' = next + 1
          /\ pc' = "idle"
     ELSE /\ pc' = "lapped"
          /\ UNCHANGED <<payload, outFor, seen, next>>
  /\ copy' = <<>>
  /\ UNCHANGED <<now, hb, attempt, dropped>>

\* mutant: the reader jumps past the value the writer may be about to overwrite
OldestTooNew(h) == IF h + 3 > CAP THEN h + 3 - CAP ELSE 1

\* mutant: the ring's size is left out of the jump
OldestUnshifted(h) == IF h + 2 > CAP THEN h + 2 ELSE 1

Oldest(h) == IF h + 2 > CAP THEN h + 2 - CAP ELSE 1

\* the end of a lapped attempt: the next one, or after four return false
NextAttempt == /\ attempt' = IF attempt = 3 THEN 0 ELSE attempt + 1
               /\ pc' = IF attempt = 3 THEN "idle" ELSE "seq"

\* h = head_.load(acquire); jump to the oldest publish that is still intact
Jump(t) ==
  /\ pc = "lapped"
  /\ t \in Loadable(HeadStores, hb)
  /\ Oldest(t[1]) > next
  /\ hb' = Latest(hb, Released(t))
  /\ dropped' = dropped + (Oldest(t[1]) - next)
  /\ next' = Oldest(t[1])
  /\ NextAttempt
  /\ UNCHANGED <<now, pend, cohSeq, copy, seen, payload, outFor>>

\* mutant: the value given up is not counted
SkipUncounted(t) ==
  /\ pc = "lapped"
  /\ t \in Loadable(HeadStores, hb)
  /\ Oldest(t[1]) <= next
  /\ hb' = Latest(hb, Released(t))
  /\ next' = next + 1
  /\ NextAttempt
  /\ UNCHANGED <<now, pend, cohSeq, dropped, copy, seen, payload, outFor>>

\* the loaded head is older than the store that showed the lap: give up one value
Skip(t) ==
  /\ pc = "lapped"
  /\ t \in Loadable(HeadStores, hb)
  /\ Oldest(t[1]) <= next
  /\ hb' = Latest(hb, Released(t))
  /\ dropped' = dropped + 1
  /\ next' = next + 1
  /\ NextAttempt
  /\ UNCHANGED <<now, pend, cohSeq, copy, seen, payload, outFor>>

Reader ==
  \/ Call
  \/ \E t \in SeqStores(Slot(next)) : ReadSeq(t) \/ Recheck(t)
  \/ CopyWord \/ AcquireFence
  \/ \E t \in HeadStores : Jump(t) \/ Skip(t)

MulticastNext == Writer \/ Reader

MulticastSpec == MulticastInit /\ [][MulticastNext]_ringVars

\* the newest store of a set
Newest(stores) == CHOOSE t \in stores : \A u \in stores : ~Before(t, u)

(* The reader keeps polling, and of infinitely many loads of a location    *)
(* some return its newest store: a store becomes visible in finite time.   *)
MulticastFairness ==
  /\ WF_ringVars(Writer)
  /\ WF_ringVars(Call) /\ WF_ringVars(CopyWord) /\ WF_ringVars(AcquireFence)
  /\ SF_ringVars(ReadSeq(Newest(SeqStores(Slot(next)))))
  /\ SF_ringVars(Recheck(Newest(SeqStores(Slot(next)))))
  /\ WF_ringVars(\E t \in HeadStores : Jump(t) \/ Skip(t))

FairMulticast == MulticastSpec /\ MulticastFairness

----------------------------------------------------------------------------
Time == (0 .. MaxPub) \X (0 .. HEAD)

MulticastTypeOK ==
  /\ now \in Time /\ hb \in Time /\ pend \in Time
  /\ cohSeq \in [Slots -> Time]
  /\ pc \in {"idle", "seq", "copy", "recheck", "lapped"}
  /\ attempt \in 0 .. 3
  /\ next \in 1 .. (now[1] + 1)
  /\ dropped \in Nat /\ seen \in Nat
  /\ copy \in Seq(0 .. MaxPub) /\ Len(copy) <= WORDS
  /\ payload \in Seq(0 .. MaxPub) /\ Len(payload) = WORDS
  /\ outFor \in 0 .. MaxPub

(* No torn read: when try_read returns true, every word it returns comes   *)
(* from the publish the reader asked for, however far the writer came      *)
(* around during the copy and however stale the loads were.                *)
NoTear == \A j \in Words : payload[j] = outFor

(* Every publish number the reader has moved past was either returned to   *)
(* it or counted in `dropped`, never both and never neither, and it never  *)
(* moves past what has been published (MulticastTypeOK).                   *)
Accounting ==
  /\ MulticastTypeOK
  /\ next - 1 = seen + dropped

(* A value is given up only when the writer has begun to overwrite it, or  *)
(* will overwrite it with its very next publish: lapping is never          *)
(* reported early, not even on a stale head.                               *)
GivesUpOnlyLapped ==
  [][dropped' # dropped => next' - 1 + CAP <= now[1] + 1]_ringVars

(* Once the writer pauses, a polling reader consumes everything that is    *)
(* left: the four-attempt limit and stale loads only delay it.             *)
CatchesUp == <>(next = MaxPub + 1)
=============================================================================
