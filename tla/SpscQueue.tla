------------------------------ MODULE SpscQueue -----------------------------
(***************************************************************************)
(* SPSCQueue (include/spsc_queue.h) under the C++ memory model.            *)
(*                                                                         *)
(* Each index is an atomic with one writer, so its modification order is   *)
(* the sequence of its stores: store k of head_ follows push k and writes  *)
(* the value k % CAP.  A load by the other thread may return any store not *)
(* older than the newest one that thread has seen, and an acquire load of  *)
(* a release store makes everything before that store happen before what   *)
(* follows the load.  pushed and popped count the stores, seenHead and     *)
(* seenTail are the newest stores the other side has acquired.             *)
(*                                                                         *)
(* The buffer is not atomic.  A read of a slot that is not ordered after   *)
(* the write it should return, or that a write may overlap, is a data race *)
(* and returns any value.                                                  *)
(*                                                                         *)
(* The k-th value pushed is the number k.                                  *)
(***************************************************************************)
EXTENDS RingSlots, Sequences

CONSTANT MaxPush   \* bound on the number of pushes

ASSUME BoundAssumption == MaxPush \in Nat

VARIABLES
  pushed,    \* stores to head_ so far
  popped,    \* stores to tail_ so far
  seenTail,  \* newest store of tail_ the producer has acquired
  seenHead,  \* newest store of head_ the consumer has acquired
  buf,       \* the slots
  ppc,       \* where the producer stands in try_push
  cpc,       \* where the consumer stands in try_pop
  out,       \* the value copied out of the slot
  got        \* the value of the last try_pop that returned true

vars == <<pushed, popped, seenTail, seenHead, buf, ppc, cpc, out, got>>

Value == 0 .. MaxPush

Init ==
  /\ pushed = 0 /\ popped = 0
  /\ seenTail = 0 /\ seenHead = 0
  /\ buf = [s \in Slots |-> 0]
  /\ ppc = "idle" /\ cpc = "idle"
  /\ out = 0 /\ got = 0

\* mutant: a relaxed load reads store k and synchronises with nothing
RelaxedLoad(view, k) == view

\* an acquire load that returns store k of the other side's index
AcquireLoad(view, k) == k

\* mutant: all CAP slots are used, so a full ring looks like an empty one
FullOneTooLate(k) == pushed - k = CAP

\* n == tail_.load(acquire): one more push would make the indices equal
Full(k) == Slot(pushed + 1) = Slot(k)

PushStart(k) ==
  /\ ppc = "idle"
  /\ pushed < MaxPush
  /\ k \in seenTail .. popped
  /\ seenTail' = AcquireLoad(seenTail, k)
  /\ ppc' = IF Full(k) THEN "idle" ELSE "write"
  /\ UNCHANGED <<pushed, popped, seenHead, buf, cpc, out, got>>

PushWrite ==
  /\ ppc = "write"
  /\ buf' = [buf EXCEPT ![Slot(pushed)] = pushed + 1]
  /\ ppc' = "publish"
  /\ UNCHANGED <<pushed, popped, seenTail, seenHead, cpc, out, got>>

PushPublish ==
  /\ ppc = "publish"
  /\ pushed' = pushed + 1
  /\ ppc' = "idle"
  /\ UNCHANGED <<popped, seenTail, seenHead, buf, cpc, out, got>>

Empty(k) == Slot(popped) = Slot(k)

PopStart(k) ==
  /\ cpc = "idle"
  /\ k \in seenHead .. pushed
  /\ seenHead' = AcquireLoad(seenHead, k)
  /\ cpc' = IF Empty(k) THEN "idle" ELSE "read"
  /\ UNCHANGED <<pushed, popped, seenTail, buf, ppc, out, got>>

\* the copy is ordered after the write of its value, and no write can overlap it
ReadOrdered == /\ popped < seenHead
               /\ ~(ppc = "write" /\ Slot(pushed) = Slot(popped))

PopRead ==
  /\ cpc = "read"
  /\ out' \in IF ReadOrdered THEN {buf[Slot(popped)]} ELSE Value
  /\ cpc' = "retire"
  /\ UNCHANGED <<pushed, popped, seenTail, seenHead, buf, ppc, got>>

PopRetire ==
  /\ cpc = "retire"
  /\ popped' = popped + 1
  /\ got' = out
  /\ cpc' = "idle"
  /\ UNCHANGED <<pushed, seenTail, seenHead, buf, ppc, out>>

Next ==
  \/ \E k \in seenTail .. popped : PushStart(k)
  \/ PushWrite \/ PushPublish
  \/ \E k \in seenHead .. pushed : PopStart(k)
  \/ PopRead \/ PopRetire

Spec == Init /\ [][Next]_vars

----------------------------------------------------------------------------
TypeOK ==
  /\ pushed \in 0 .. MaxPush /\ popped \in 0 .. pushed
  /\ seenTail \in 0 .. popped /\ seenHead \in 0 .. pushed
  /\ buf \in [Slots -> Value]
  /\ ppc \in {"idle", "write", "publish"}
  /\ cpc \in {"idle", "read", "retire"}
  /\ out \in Value /\ got \in Value

(* The slots are accessed without a data race: the producer writes a slot  *)
(* only after it has acquired the pop of the value that was there, and the *)
(* consumer copies one only after it has acquired the push of the value it *)
(* wants (try_push's acquire of tail_, try_pop's acquire of head_).        *)
NoRace ==
  /\ ppc = "write" => pushed - CAP < seenTail
  /\ cpc = "read" => ReadOrdered

(* The values come out in order, none lost, doubled or torn, although each *)
(* side only sees stale copies of the other's index: a value copied out is *)
(* the next one in push order, until tail_ is advanced and after.          *)
InOrder ==
  /\ cpc = "retire" => out = popped + 1
  /\ got = popped

Fifo == INSTANCE BoundedFifo
  WITH Usable <- CAP - 1,
       chan <- [i \in 1 .. (pushed - popped) |-> buf[Slot(popped + i - 1)]],
       sent <- pushed

(* The ring behaves as a FIFO channel that holds at most CAP - 1 values:    *)
(* never one too many, whatever the two sides have seen of each other.     *)
ImplementsFifo == Fifo!Spec

(* Every value a polling producer wants to push gets through to a polling  *)
(* consumer: no side is refused for ever.                                  *)
AllDelivered == <>(popped = MaxPush)
=============================================================================
