---------------------------- MODULE Queues_proofs ---------------------------
(***************************************************************************)
(* Proofs about the two rings and the logger's queues, for every capacity. *)
(*                                                                         *)
(* SpscQueue: the slots are accessed without a race and the values come    *)
(* out in order, as from a bounded channel; and the same of CachedRing,    *)
(* which refines it.  The argument is about positions, the numbers of the  *)
(* stores to head_ and tail_.  What each side has acquired of the other    *)
(* brackets the occupied positions: seenTail <= popped <= seenHead <=      *)
(* pushed, and pushed never gets a whole ring ahead of seenTail.  Two      *)
(* occupied positions therefore never share a slot.                        *)
(*                                                                         *)
(* MulticastRing: no read is torn, every loss is counted, and a value is   *)
(* given up only when the writer is about to overwrite it.  The argument   *)
(* follows one attempt of try_read.  The load that starts the copy makes   *)
(* all words of the publish visible, so a word copied later is of that     *)
(* publish or of a later one in the same slot.  A word of a later one      *)
(* brings the mark stored before it along, by the release fence and the    *)
(* acquire fence, and then the second check cannot miss that mark.         *)
(*                                                                         *)
(* Logger: a trade in the file has its command in the file, or that        *)
(* command was refused by a full queue.  Every command is in the file, in  *)
(* the queue or counted as lost.  When the logger leaves the command       *)
(* queue, all that it may have missed there is newer than the newest       *)
(* command it knows of; and it knows of the command of every trade it has  *)
(* written.                                                                *)
(***************************************************************************)
EXTENDS CachedRing, MulticastRing, Logger, FiniteSets, FiniteSetTheorems, SequenceTheorems, TLAPS

----------------------------------------------------------------------------
(* Remainders: position k stands in slot k % CAP of either ring.           *)

LEMMA DivMod ==
  ASSUME NEW n \in Nat, n >= 2, NEW a \in Nat
  PROVE  a = n * (a \div n) + (a % n) /\ a \div n \in Int /\ a % n \in 0 .. (n - 1)
  BY SMTT(20)

LEMMA RemainderUnique ==
  ASSUME NEW n \in Nat, n >= 2, NEW a \in Nat, NEW q \in Int, NEW r \in 0 .. (n - 1),
         a = n * q + r
  PROVE  a % n = r
  BY SMTT(20)

LEMMA NoMultipleBetween ==
  ASSUME NEW n \in Nat, n >= 2, NEW q \in Int
  PROVE  ~(0 < n * q /\ n * q < n)
<1>1. CASE q >= 1
  <2>1. n * q >= n
    BY <1>1, SMTT(20)
  <2> QED BY <2>1
<1>2. CASE q <= 0
  <2>1. n * q <= 0
    BY <1>2, SMTT(20)
  <2> QED BY <2>1
<1> QED BY <1>1, <1>2

(* Two positions less than a whole ring apart have different slots. *)
LEMMA ModDistinct ==
  ASSUME NEW n \in Nat, n >= 2, NEW a \in Nat, NEW b \in Nat, a < b, b - a < n
  PROVE  a % n # b % n
<1> SUFFICES ASSUME a % n = b % n PROVE FALSE
  OBVIOUS
<1> DEFINE p == b \div n
           q == a \div n
<1>1. /\ a = n * q + (a % n) /\ q \in Int
      /\ b = n * p + (b % n) /\ p \in Int
      /\ a % n \in Int
  BY DivMod
<1>2. n * p \in Int /\ n * q \in Int /\ n * (p - q) \in Int
  BY <1>1
<1> HIDE DEF p, q
<1>3. n * p - n * q = n * (p - q)
  BY <1>1, SMTT(20)
<1>4. 0 < n * (p - q) /\ n * (p - q) < n
  BY <1>1, <1>2, <1>3
<1> QED BY <1>1, <1>4, NoMultipleBetween

(* Positions a whole ring apart have the same slot. *)
LEMMA ModShift ==
  ASSUME NEW n \in Nat, n >= 2, NEW a \in Nat
  PROVE  (a + n) % n = a % n
<1> DEFINE q == a \div n
           r == a % n
<1>1. a = n * q + r /\ q \in Int /\ r \in 0 .. (n - 1)
  BY DivMod
<1>2. n * q \in Int /\ n * (q + 1) \in Int
  BY <1>1
<1> HIDE DEF q, r
<1>3. n * (q + 1) = n * q + n
  BY <1>1, SMTT(20)
<1>4. a + n = n * (q + 1) + r
  BY <1>1, <1>2, <1>3
<1>5. (a + n) % n = r
  BY <1>1, <1>4, RemainderUnique
<1> QED BY <1>5 DEF r

(* A later position in the same slot is at least a round later. *)
LEMMA SamePlaceLater ==
  ASSUME NEW n \in Nat, n >= 2, NEW a \in Nat, NEW b \in Nat, a < b, a % n = b % n
  PROVE  a + n <= b
<1> DEFINE p == a \div n
           q == b \div n
<1>1. /\ a = n * p + (a % n) /\ p \in Int /\ a % n \in Int
      /\ b = n * q + (b % n) /\ q \in Int
  BY DivMod
<1>2. n * p \in Int /\ n * q \in Int /\ n * (q - p) \in Int
  BY <1>1
<1> HIDE DEF p, q
<1>3. n * q - n * p = n * (q - p)
  BY <1>1, SMTT(20)
<1>4. n * (q - p) = b - a
  BY <1>1, <1>2, <1>3
<1>5. q - p >= 1
  <2>1. ASSUME q - p <= 0 PROVE n * (q - p) <= 0
    BY <1>1, <2>1, SMTT(20)
  <2> QED BY <1>1, <1>2, <1>4, <2>1
<1>6. n * (q - p) >= n
  BY <1>1, <1>5, SMTT(20)
<1> QED BY <1>2, <1>4, <1>6

LEMMA SlotRange ==
  ASSUME NEW k \in Nat
  PROVE  Slot(k) \in Slots
BY DivMod, CapAssumption DEF Slot, Slots

----------------------------------------------------------------------------
(* SpscQueue: the inductive invariant.                                     *)

\* the consumer never gets ahead of what it has acquired
Bracketed == /\ popped <= seenHead
             /\ cpc # "idle" => popped < seenHead

\* the producer's positions stay within a ring of the pops it has acquired,
\* with one slot to spare
WithinRing == /\ pushed - seenTail <= CAP - 1
              /\ ppc # "idle" => pushed - seenTail <= CAP - 2 /\ pushed < MaxPush

\* an occupied position holds its value, the one being pushed included
Stored == /\ \A i \in Nat : popped <= i /\ i < pushed => buf[Slot(i)] = i + 1
          /\ ppc = "publish" => buf[Slot(pushed)] = pushed + 1

QueueInv == TypeOK /\ Bracketed /\ WithinRing /\ Stored /\ InOrder

(* The tail_ value that lets a push go on leaves a slot to spare. *)
LEMMA NotFull ==
  ASSUME QueueInv, NEW k \in seenTail .. popped, ~Full(k)
  PROVE  pushed - k <= CAP - 2
<1>1. k \in Nat /\ pushed \in Nat /\ CAP \in Nat /\ CAP >= 2 /\ pushed - k <= CAP - 1
  BY CapAssumption DEF QueueInv, TypeOK, WithinRing
<1>2. pushed + 1 # k + CAP
  BY <1>1, ModShift DEF Full, Slot
<1> QED BY <1>1, <1>2

(* A read slot is not being written and its value has been acquired. *)
LEMMA ReadIsOrdered ==
  ASSUME QueueInv, cpc = "read"
  PROVE  ReadOrdered
<1>1. popped \in Nat /\ pushed \in Nat /\ CAP \in Nat /\ CAP >= 2 /\ popped < pushed
      /\ popped < seenHead
  BY CapAssumption DEF QueueInv, TypeOK, Bracketed
<1>2. ASSUME ppc = "write" PROVE pushed - popped < CAP
  BY <1>1, <1>2 DEF QueueInv, TypeOK, WithinRing
<1>3. ASSUME ppc = "write" PROVE Slot(pushed) # Slot(popped)
  BY <1>1, <1>2, <1>3, ModDistinct DEF Slot
<1> QED BY <1>1, <1>3 DEF ReadOrdered

LEMMA InitQueueInv == Init => QueueInv
<1> SUFFICES ASSUME Init PROVE QueueInv
  OBVIOUS
<1>1. TypeOK
  BY CapAssumption, BoundAssumption DEF Init, TypeOK, Value, Slots
<1>2. Bracketed /\ WithinRing /\ Stored /\ InOrder
  BY CapAssumption DEF Init, Bracketed, WithinRing, Stored, InOrder
<1> QED BY <1>1, <1>2 DEF QueueInv

LEMMA StepQueueInv == QueueInv /\ [Next]_vars => QueueInv'
<1> SUFFICES ASSUME QueueInv, [Next]_vars PROVE QueueInv'
  OBVIOUS
<1> USE CapAssumption, BoundAssumption
<1>1. ASSUME NEW k \in seenTail .. popped, PushStart(k) PROVE QueueInv'
  <2>1. TypeOK'
    BY <1>1 DEF QueueInv, TypeOK, PushStart, AcquireLoad
  <2>2. Bracketed' /\ Stored' /\ InOrder'
    BY <1>1 DEF QueueInv, TypeOK, Bracketed, Stored, InOrder, PushStart, Slot
  <2>3. WithinRing'
    BY <1>1, NotFull DEF QueueInv, TypeOK, WithinRing, PushStart, AcquireLoad
  <2> QED BY <2>1, <2>2, <2>3 DEF QueueInv
<1>2. CASE PushWrite
  <2> DEFINE w == Slot(pushed)
  <2>1. /\ buf' = [buf EXCEPT ![w] = pushed + 1] /\ ppc = "write" /\ ppc' = "publish"
        /\ UNCHANGED <<pushed, popped, seenTail, seenHead, cpc, out, got>>
    BY <1>2 DEF PushWrite
  <2>2. w \in Slots /\ buf \in [Slots -> Value] /\ pushed + 1 \in Value
        /\ pushed \in Nat /\ popped \in Nat /\ seenTail \in Nat
    BY <2>1, SlotRange DEF QueueInv, TypeOK, WithinRing, Value
  <2>3. buf' \in [Slots -> Value] /\ buf'[w] = pushed + 1
        /\ \A s \in Slots : s # w => buf'[s] = buf[s]
    BY <2>1, <2>2
  <2> HIDE DEF w
  <2>4. TypeOK'
    BY <2>1, <2>3 DEF QueueInv, TypeOK
  <2>5. Bracketed' /\ WithinRing' /\ InOrder'
    BY <2>1 DEF QueueInv, Bracketed, WithinRing, InOrder
  <2>6. ASSUME NEW i \in Nat, popped <= i, i < pushed PROVE buf'[Slot(i)] = i + 1
    <3>1. pushed - i < CAP
      BY <2>1, <2>2, <2>6 DEF QueueInv, TypeOK, WithinRing
    <3>2. Slot(i) # w
      BY <2>2, <2>6, <3>1, ModDistinct DEF Slot, w
    <3>3. Slot(i) \in Slots /\ buf[Slot(i)] = i + 1
      BY <2>6, SlotRange DEF QueueInv, Stored
    <3> QED BY <2>3, <3>2, <3>3
  <2>7. Stored'
    <3>1. \A i \in Nat : popped' <= i /\ i < pushed' => buf'[Slot(i)] = i + 1
      BY <2>1, <2>6
    <3>2. buf'[Slot(pushed')] = pushed' + 1
      BY <2>1, <2>3 DEF w
    <3> QED BY <3>1, <3>2 DEF Stored, Slot
  <2> QED BY <2>4, <2>5, <2>7 DEF QueueInv
<1>3. CASE PushPublish
  <2>1. TypeOK'
    BY <1>3 DEF QueueInv, TypeOK, WithinRing, PushPublish, Value
  <2>2. Bracketed' /\ InOrder'
    BY <1>3 DEF QueueInv, TypeOK, Bracketed, InOrder, PushPublish
  <2>3. WithinRing'
    BY <1>3 DEF QueueInv, TypeOK, WithinRing, PushPublish
  <2>4. Stored'
    <3> SUFFICES ASSUME NEW i \in Nat, popped <= i, i < pushed + 1
                 PROVE  buf[Slot(i)] = i + 1
      BY <1>3 DEF Stored, PushPublish, Slot
    <3>1. CASE i < pushed
      BY <3>1 DEF QueueInv, Stored
    <3>2. CASE i = pushed
      BY <3>2, <1>3 DEF QueueInv, Stored, PushPublish
    <3>3. pushed \in Nat
      BY DEF QueueInv, TypeOK
    <3> QED BY <3>1, <3>2, <3>3
  <2> QED BY <2>1, <2>2, <2>3, <2>4 DEF QueueInv
<1>4. ASSUME NEW k \in seenHead .. pushed, PopStart(k) PROVE QueueInv'
  <2>1. TypeOK'
    BY <1>4 DEF QueueInv, TypeOK, PopStart, AcquireLoad
  <2>2. WithinRing' /\ Stored' /\ InOrder'
    BY <1>4 DEF QueueInv, TypeOK, WithinRing, Stored, InOrder, PopStart, Slot
  <2>3. Bracketed'
    BY <1>4 DEF QueueInv, TypeOK, Bracketed, PopStart, AcquireLoad, Empty
  <2> QED BY <2>1, <2>2, <2>3 DEF QueueInv
<1>5. CASE PopRead
  <2>1. out' = buf[Slot(popped)] /\ cpc = "read" /\ cpc' = "retire"
        /\ UNCHANGED <<pushed, popped, seenTail, seenHead, buf, ppc, got>>
    BY <1>5, ReadIsOrdered DEF PopRead
  <2>2. popped \in Nat /\ pushed \in Nat /\ popped < pushed
    BY <2>1 DEF QueueInv, TypeOK, Bracketed
  <2>3. out' = popped + 1
    BY <2>1, <2>2 DEF QueueInv, Stored
  <2>4. TypeOK'
    BY <2>1, <2>2, SlotRange DEF QueueInv, TypeOK
  <2>5. Bracketed' /\ WithinRing' /\ InOrder'
    BY <2>1, <2>3 DEF QueueInv, Bracketed, WithinRing, InOrder
  <2>6. Stored'
    BY <2>1 DEF QueueInv, Stored, Slot
  <2> QED BY <2>4, <2>5, <2>6 DEF QueueInv
<1>6. CASE PopRetire
  <2>1. TypeOK'
    BY <1>6 DEF QueueInv, TypeOK, Bracketed, PopRetire, Value
  <2>2. Bracketed' /\ InOrder'
    BY <1>6 DEF QueueInv, TypeOK, Bracketed, InOrder, PopRetire
  <2>3. WithinRing'
    BY <1>6 DEF QueueInv, TypeOK, WithinRing, PopRetire
  <2>4. Stored'
    <3>1. popped' = popped + 1 /\ UNCHANGED <<pushed, buf, ppc>> /\ popped \in Nat
      BY <1>6 DEF QueueInv, TypeOK, PopRetire
    <3> QED BY <3>1 DEF QueueInv, Stored, Slot
  <2> QED BY <2>1, <2>2, <2>3, <2>4 DEF QueueInv
<1>7. CASE UNCHANGED vars
  BY <1>7 DEF vars, QueueInv, TypeOK, Bracketed, WithinRing, Stored, InOrder, Slot
<1> QED BY <1>1, <1>2, <1>3, <1>4, <1>5, <1>6, <1>7 DEF Next

LEMMA QueueInvNoRace == QueueInv => NoRace
<1> SUFFICES ASSUME QueueInv PROVE NoRace
  OBVIOUS
<1>1. ppc = "write" => pushed - CAP < seenTail
  BY CapAssumption DEF QueueInv, TypeOK, WithinRing
<1> QED BY <1>1, ReadIsOrdered DEF NoRace

THEOREM QueueInvariant == Spec => []QueueInv
BY InitQueueInv, StepQueueInv, PTL DEF Spec

(* try_push and try_pop keep every index and slot within its range, for    *)
(* every capacity of two or more.                                          *)
THEOREM TypeCorrect == Spec => []TypeOK
<1>1. QueueInv => TypeOK
  BY DEF QueueInv
<1> QED BY <1>1, QueueInvariant, PTL

(* The slots of the buffer are accessed without a data race: the acquire   *)
(* loads of tail_ and head_ order every write of a slot after the copy of  *)
(* its previous value, and every copy after the write of its value.        *)
THEOREM RaceFree == Spec => []NoRace
BY QueueInvariant, QueueInvNoRace, PTL

(* What try_pop returns is the next value in push order, however stale the *)
(* copies are that the two sides have of each other's index.               *)
THEOREM DeliversInOrder == Spec => []InOrder
<1>1. QueueInv => InOrder
  BY DEF QueueInv
<1> QED BY <1>1, QueueInvariant, PTL

----------------------------------------------------------------------------
(* The refinement: the occupied positions are the channel. *)

Inside == [i \in 1 .. (pushed - popped) |-> buf[Slot(popped + i - 1)]]

Consecutive == Inside = [i \in 1 .. (pushed - popped) |-> popped + i]

LEMMA InsideIs == QueueInv => Consecutive
<1> SUFFICES ASSUME QueueInv PROVE Consecutive
  OBVIOUS
<1>1. pushed \in Nat /\ popped \in Nat /\ popped <= pushed
  BY DEF QueueInv, TypeOK
<1>2. ASSUME NEW i \in 1 .. (pushed - popped)
      PROVE  buf[Slot(popped + i - 1)] = popped + i
  <2>1. popped + i - 1 \in Nat /\ popped <= popped + i - 1 /\ popped + i - 1 < pushed
    BY <1>1
  <2>2. buf[Slot(popped + i - 1)] = (popped + i - 1) + 1
    BY <2>1 DEF QueueInv, Stored
  <2> QED BY <1>1, <2>2
<1> QED BY <1>2 DEF Inside, Consecutive

(* The publication of a push sends its value, and there was room for it. *)
LEMMA PublishSends ==
  ASSUME QueueInv, QueueInv', PushPublish
  PROVE  Fifo!Send
<1> DEFINE n == pushed - popped
<1>1. /\ pushed \in Nat /\ popped \in Nat /\ popped <= pushed
      /\ pushed' = pushed + 1 /\ popped' = popped /\ got' = got
  BY DEF QueueInv, TypeOK, PushPublish
<1>2. n \in Nat /\ n < CAP - 1
  BY CapAssumption, <1>1 DEF QueueInv, TypeOK, WithinRing, PushPublish
<1>3. Inside = [i \in 1 .. n |-> popped + i]
  BY InsideIs DEF Consecutive
<1>4. Consecutive'
  BY InsideIs, PTL
<1>5. Len(Inside) = n /\ Inside \in Seq(Nat)
  <2>1. Inside \in [1 .. n -> Nat]
    BY <1>1, <1>2, <1>3
  <2> QED BY <1>2, <2>1
<1>6. Inside' = Append(Inside, pushed + 1)
  <2>1. Inside' = [i \in 1 .. (n + 1) |-> popped + i]
    BY <1>1, <1>4 DEF Consecutive
  <2>2. popped + (n + 1) = pushed + 1
    BY <1>1
  <2> DEFINE a == Append(Inside, pushed + 1)
  <2>3. /\ a \in Seq(Nat) /\ Len(a) = n + 1 /\ a[n + 1] = pushed + 1
        /\ \A i \in 1 .. n : a[i] = Inside[i]
    BY <1>1, <1>5, AppendProperties
  <2>4. \A i \in 1 .. (n + 1) : a[i] = popped + i
    BY <1>2, <1>3, <2>2, <2>3
  <2>5. a = [i \in 1 .. (n + 1) |-> a[i]]
    BY <2>3
  <2> QED BY <2>1, <2>4, <2>5
<1> QED BY <1>1, <1>2, <1>5, <1>6 DEF Fifo!Send, Inside

(* The retirement of a slot receives the oldest value. *)
LEMMA RetireReceives ==
  ASSUME QueueInv, QueueInv', PopRetire
  PROVE  Fifo!Receive
<1> DEFINE n == pushed - popped
<1>1. /\ pushed \in Nat /\ popped \in Nat /\ popped < pushed
      /\ pushed' = pushed /\ popped' = popped + 1 /\ got' = popped + 1
  BY DEF QueueInv, TypeOK, Bracketed, InOrder, PopRetire
<1>2. n \in Nat /\ n >= 1
  BY <1>1
<1>3. Inside = [i \in 1 .. n |-> popped + i]
  BY InsideIs DEF Consecutive
<1>4. Consecutive'
  BY InsideIs, PTL
<1>5. Inside' = [i \in 1 .. (n - 1) |-> popped + 1 + i]
  BY <1>1, <1>4 DEF Consecutive
<1>6. Inside \in Seq(Nat) /\ Len(Inside) = n
  <2>1. Inside \in [1 .. n -> Nat]
    BY <1>1, <1>2, <1>3
  <2> QED BY <1>2, <2>1
<1>7. Inside # <<>> /\ Head(Inside) = got'
  BY <1>1, <1>2, <1>3, <1>6
<1>8. Inside' = Tail(Inside)
  <2> DEFINE t == Tail(Inside)
  <2>1. /\ t \in Seq(Nat) /\ Len(t) = n - 1
        /\ \A i \in 1 .. (n - 1) : t[i] = Inside[i + 1]
    BY <1>2, <1>6, <1>7, HeadTailProperties
  <2>2. \A i \in 1 .. (n - 1) : t[i] = popped + 1 + i
    BY <1>1, <1>2, <1>3, <2>1
  <2> HIDE DEF t
  <2>3. t = [i \in 1 .. (n - 1) |-> t[i]]
    BY <2>1
  <2>4. t = [i \in 1 .. (n - 1) |-> popped + 1 + i]
    BY <2>2, <2>3
  <2> QED BY <1>5, <2>4 DEF t
<1> QED BY <1>1, <1>7, <1>8 DEF Fifo!Receive, Inside

(* Every other step leaves the occupied positions as they are. *)
LEMMA OthersStutter ==
  ASSUME QueueInv, QueueInv', UNCHANGED <<pushed, popped, got>>
  PROVE  UNCHANGED Fifo!fifoVars
<1>1. Consecutive /\ Consecutive'
  BY InsideIs, PTL
<1>2. Inside' = Inside
  BY <1>1 DEF Consecutive
<1> QED BY <1>2 DEF Fifo!fifoVars, Inside

(* The ring implements a FIFO channel of CAP - 1 values, for every capacity *)
(* and however late each side sees the other's index: a push takes effect  *)
(* with the release store of head_, a pop with that of tail_.              *)
THEOREM ImplementsBoundedFifo == Spec => ImplementsFifo
<1>1. Init => Fifo!Init
  <2> SUFFICES ASSUME Init PROVE Fifo!Init
    OBVIOUS
  <2>1. Inside = <<>>
    BY DEF Init, Inside
  <2> QED BY <2>1 DEF Init, Inside, Fifo!Init
<1>2. QueueInv /\ QueueInv' /\ [Next]_vars => [Fifo!Next]_(Fifo!fifoVars)
  <2> SUFFICES ASSUME QueueInv, QueueInv', [Next]_vars
               PROVE  Fifo!Next \/ UNCHANGED Fifo!fifoVars
    OBVIOUS
  <2>1. CASE PushPublish
    BY <2>1, PublishSends DEF Fifo!Next
  <2>2. CASE PopRetire
    BY <2>2, RetireReceives DEF Fifo!Next
  <2>3. CASE ~PushPublish /\ ~PopRetire
    <3>1. UNCHANGED <<pushed, popped, got>>
      BY <2>3 DEF Next, vars, PushStart, PushWrite, PopStart, PopRead
    <3> QED BY <3>1, OthersStutter
  <2> QED BY <2>1, <2>2, <2>3
<1> QED BY <1>1, <1>2, QueueInvariant, PTL DEF Spec, ImplementsFifo, Fifo!Spec

----------------------------------------------------------------------------
(* The ring with cached indices behaves as the ring without: a call that   *)
(* decides on its copy does what a load would have allowed that returned   *)
(* the same store again.  All that is proved of SpscQueue carries over.    *)

LEMMA CachedStep == QueueInv /\ [RingNext]_<<vars, CACHE>> => [Next]_vars
<1> SUFFICES ASSUME QueueInv, [RingNext]_<<vars, CACHE>> PROVE [Next]_vars
  OBVIOUS
<1>1. seenTail \in seenTail .. popped /\ seenHead \in seenHead .. pushed
  BY DEF QueueInv, TypeOK
<1>2. CASE PushOnCache
  <2>1. PushStart(seenTail)
    BY <1>1, <1>2 DEF PushOnCache, PushStart, AcquireLoad
  <2> QED BY <1>1, <2>1 DEF Next
<1>3. CASE PopOnCache
  <2>1. PopStart(seenHead)
    BY <1>1, <1>3 DEF PopOnCache, PopStart, AcquireLoad
  <2> QED BY <1>1, <2>1 DEF Next
<1>4. CASE \/ \E k \in seenTail .. popped : PushLoad(k)
           \/ \E k \in seenHead .. pushed : PopLoad(k)
  BY <1>4 DEF PushLoad, PopLoad, Next
<1>5. CASE PushWrite \/ PushPublish \/ PopRead \/ PopRetire
  BY <1>5 DEF Next
<1>6. CASE UNCHANGED <<vars, CACHE>>
  BY <1>6
<1> QED BY <1>2, <1>3, <1>4, <1>5, <1>6 DEF RingNext

(* ExperimentalRing's push and pop, with stale copies or without, take no  *)
(* step that try_push and try_pop could not take, for every capacity.      *)
THEOREM CachedRefines == RingSpec => Spec
<1>1. RingInit => Init
  BY DEF RingInit
<1>2. RingSpec => []QueueInv
  <2>1. QueueInv /\ [RingNext]_<<vars, CACHE>> => QueueInv'
    BY CachedStep, StepQueueInv
  <2> QED BY <1>1, <2>1, InitQueueInv, PTL DEF RingSpec
<1> QED BY <1>1, <1>2, CachedStep, PTL DEF RingSpec, Spec

(* The cached copies do not break what the slots rely on: no data race,    *)
(* values in order, and never more than CAP - 1 of them inside.            *)
THEOREM CachedKeeps == RingSpec => []NoRace /\ []InOrder /\ ImplementsFifo
BY CachedRefines, RaceFree, DeliversInOrder, ImplementsBoundedFifo

----------------------------------------------------------------------------
(* MulticastRing: the inductive invariant.                                 *)

Times == Nat \X Nat

\* b is no later than a
Reaches(a, b) == ~Before(a, b)

Types ==
  /\ now \in Times /\ hb \in Times /\ pend \in Times
  /\ now[2] <= HEAD
  /\ cohSeq \in [Slots -> Times]
  /\ pc \in {"idle", "seq", "copy", "recheck", "lapped"}
  /\ next \in Nat \ {0}
  /\ copy \in Seq(Nat) /\ Len(copy) <= WORDS

Copying == pc \in {"copy", "recheck"}

\* the publish being copied is complete, and the reader knows
CopyStarted ==
  Copying => /\ Reaches(now, <<next, DONE>>)
             /\ Reaches(hb, <<next, DONE>>)
             /\ Reaches(cohSeq[Slot(next)], <<next, DONE>>)

\* a word copied is of that publish or of a later one in its slot, whose mark
\* the reader knows once it has passed the fence
WordCopied(v, j) ==
  /\ v \in InSlot(Slot(next)) /\ v >= next
  /\ Reaches(now, <<v, j>>)
  /\ Reaches(IF pc = "copy" THEN pend ELSE hb, <<v, 0>>)

WordsCopied == Copying => \A j \in 1 .. Len(copy) : WordCopied(copy[j], j)

CopyComplete == pc = "recheck" => Len(copy) = WORDS

\* the slot a reader finds lapped has been marked for a publish a round later
Lapped == pc = "lapped" => next + CAP <= now[1]

\* every number passed was returned or counted
Counted == /\ next \in 1 .. (now[1] + 1)
           /\ dropped \in Nat /\ seen \in Nat
           /\ next - 1 = seen + dropped

RingInv ==
  /\ Types /\ CopyStarted /\ WordsCopied /\ CopyComplete /\ Lapped /\ Counted /\ NoTear

LEMMA Constants ==
  /\ WORDS \in Nat /\ WORDS >= 1 /\ CAP \in Nat /\ CAP >= 2 /\ MaxPub \in Nat
  /\ DONE = WORDS + 1 /\ HEAD = WORDS + 2 /\ Words = 1 .. WORDS
  BY CapAssumption, WordsAssumption, PubAssumption DEF DONE, HEAD, Words

\* The order of stores is total, and Latest takes the later.
LEMMA LatestReaches ==
  ASSUME NEW a \in Times, NEW b \in Times
  PROVE  /\ Latest(a, b) \in Times
         /\ Reaches(Latest(a, b), a) /\ Reaches(Latest(a, b), b)
  BY DEF Times, Latest, Reaches, Before

LEMMA ReachesTransitive ==
  ASSUME NEW a \in Times, NEW b \in Times, NEW c \in Times, Reaches(a, b), Reaches(b, c)
  PROVE  Reaches(a, c)
  BY DEF Times, Reaches, Before

LEMMA ReleasedType ==
  ASSUME NEW t \in Times
  PROVE  Released(t) \in Times
  BY Constants DEF Released, Times, Start

\* What the loads may return.
LEMMA SeqStoreType ==
  ASSUME Types, NEW s, NEW t \in SeqStores(s)
  PROVE  /\ t \in Times /\ t[1] \in InSlot(s) /\ t[2] \in {0, DONE} /\ Reaches(now, t)
         /\ t[1] <= now[1]
  BY Constants DEF SeqStores, InSlot, Reaches, Types, Times

LEMMA WordStoreType ==
  ASSUME Types, NEW s, NEW j \in Words, NEW t \in WordStores(s, j)
  PROVE  /\ t \in Times /\ t[1] \in InSlot(s) /\ t[2] = j /\ Reaches(now, t)
  BY Constants DEF WordStores, InSlot, Reaches, Types, Times

LEMMA HeadStoreType ==
  ASSUME Types, NEW t \in HeadStores
  PROVE  t \in Times /\ t[1] <= now[1]
  BY Constants DEF HeadStores, Types, Times

\* The writer only adds stores.
LEMMA WriterAdvances ==
  ASSUME Types, Writer
  PROVE  /\ now' \in Times /\ now'[2] <= HEAD
         /\ Reaches(now', now) /\ now[1] <= now'[1]
         /\ UNCHANGED readerVars
<1>1. CASE Mark
  BY <1>1, Constants DEF Types, Times, Mark, Reaches, Before
<1>2. CASE StoreWord
  BY <1>2, Constants DEF Types, Times, StoreWord, Reaches, Before
<1>3. CASE StoreSeq
  BY <1>3, Constants DEF Types, Times, StoreSeq, Reaches, Before
<1>4. CASE StoreHead
  BY <1>4, Constants DEF Types, Times, StoreHead, Reaches, Before
<1> QED BY <1>1, <1>2, <1>3, <1>4 DEF Writer

\* A later store of a location does not hide what the reader may load.
LEMMA KnownNotSkipped ==
  ASSUME NEW stores, NEW view \in Times, NEW t \in Loadable(stores, view),
         NEW u \in stores, Reaches(view, u)
  PROVE  Reaches(t, u)
  BY DEF Loadable, Reaches

LEMMA InitRingInv == MulticastInit => RingInv
<1> SUFFICES ASSUME MulticastInit PROVE RingInv
  OBVIOUS
<1>1. Types
  BY Constants DEF MulticastInit, Types, Times, Start
<1>2. Counted /\ ~Copying /\ pc = "idle"
  BY <1>1 DEF MulticastInit, Counted, Start, Copying
<1>3. NoTear
  BY DEF MulticastInit, NoTear
<1> QED
  BY <1>1, <1>2, <1>3 DEF RingInv, CopyStarted, WordsCopied, CopyComplete, Lapped, Copying

(* The writer takes nothing away from what the reader relies on. *)
LEMMA WriterStep == RingInv /\ Writer => RingInv'
<1> SUFFICES ASSUME RingInv, Writer PROVE RingInv'
  OBVIOUS
<1>1. /\ now \in Times /\ now' \in Times /\ now'[2] <= HEAD
      /\ Reaches(now', now) /\ now[1] <= now'[1] /\ UNCHANGED readerVars
  BY WriterAdvances DEF RingInv, Types
<1>2. Types'
  BY <1>1 DEF RingInv, Types, readerVars
<1>3. ASSUME NEW t \in Times, Reaches(now, t) PROVE Reaches(now, t)'
  BY <1>1, <1>3, ReachesTransitive DEF Reaches
<1>4. \A v : v \in InSlot(Slot(next)) => v \in InSlot(Slot(next))'
  BY <1>1 DEF InSlot, readerVars, Times
<1>5. CopyStarted'
  <2>1. <<next, DONE>> \in Times
    BY Constants DEF RingInv, Types, Times
  <2> QED BY <1>1, <1>3, <2>1 DEF RingInv, CopyStarted, Copying, readerVars, Reaches
<1>6. WordsCopied'
  <2> SUFFICES ASSUME Copying, NEW j \in 1 .. Len(copy) PROVE WordCopied(copy[j], j)'
    BY <1>1 DEF WordsCopied, Copying, readerVars
  <2>1. WordCopied(copy[j], j) /\ <<copy[j], j>> \in Times
    BY DEF RingInv, WordsCopied, Types, Times
  <2> QED BY <1>1, <1>3, <1>4, <2>1 DEF WordCopied, readerVars, Reaches
<1>7. CopyComplete' /\ NoTear'
  BY <1>1 DEF RingInv, CopyComplete, NoTear, readerVars
<1>8. Lapped' /\ Counted'
  <2>1. now[1] \in Nat /\ now'[1] \in Nat /\ now[1] <= now'[1]
    BY <1>1 DEF Times
  <2>2. Lapped'
    BY <1>1, <2>1, Constants DEF RingInv, Types, Lapped, readerVars
  <2>3. Counted'
    BY <1>1, <2>1, Constants DEF RingInv, Types, Counted, readerVars
  <2> QED BY <2>2, <2>3
<1> QED BY <1>2, <1>5, <1>6, <1>7, <1>8 DEF RingInv

\* A sequence number in a slot other than the one expected there, and not
\* older than it, is of a publish a round later or more.
LEMMA LaterInSlot ==
  ASSUME Types, NEW t \in SeqStores(Slot(next)), t[1] > next
  PROVE  next + CAP <= now[1]
<1>1. t[1] \in Nat /\ t[1] \in InSlot(Slot(next)) /\ t[1] <= now[1] /\ next \in Nat
  BY SeqStoreType DEF Times, Types
<1>2. t[1] % CAP = next % CAP
  BY <1>1 DEF InSlot, Slot
<1>3. next + CAP <= t[1]
  BY <1>1, <1>2, Constants, SamePlaceLater
<1> QED BY <1>1, <1>3, Constants DEF Types, Times

LEMMA ReadSeqStep ==
  ASSUME RingInv, NEW t, ReadSeq(t)
  PROVE  RingInv'
<1>1. t \in SeqStores(Slot(next)) /\ t \in Times /\ t[2] \in {0, DONE}
      /\ Reaches(now, t) /\ t[1] <= now[1] /\ Slot(next) \in Slots
  BY SeqStoreType, SlotRange DEF ReadSeq, SeqLoads, Loadable, RingInv, Types
<1>2. hb' \in Times /\ Reaches(hb', Released(t)) /\ UNCHANGED <<now, pend, next, dropped, seen, payload, outFor>>
  BY <1>1, LatestReaches, ReleasedType DEF ReadSeq, RingInv, Types
<1>3. Types'
  <2>1. cohSeq' \in [Slots -> Times] /\ next' \in Nat \ {0}
    BY <1>1, <1>2 DEF ReadSeq, RingInv, Types
  <2>2. pc' \in {"copy", "idle", "lapped"} /\ copy' \in Seq(Nat) /\ Len(copy') <= WORDS
    BY Constants DEF ReadSeq
  <2> QED BY <1>2, <2>1, <2>2 DEF RingInv, Types
<1>4. copy' = <<>> /\ pc' # "recheck"
  BY DEF ReadSeq
<1>5. CASE pc' = "copy"
  <2>1. t = <<next, DONE>>
    BY <1>1, <1>5, Constants DEF ReadSeq, Marked, Times
  <2>2. Released(t) = t
    BY <2>1, Constants DEF Released
  <2>3. cohSeq'[Slot(next)] = t
    BY <1>1 DEF ReadSeq, RingInv, Types
  <2>4. Reaches(t, t)
    BY <1>1 DEF Reaches, Before, Times
  <2>5. CopyStarted'
    BY <1>1, <1>2, <2>1, <2>2, <2>3, <2>4 DEF CopyStarted, Reaches
  <2> QED
    BY <1>2, <1>3, <1>4, <1>5, <2>5
       DEF RingInv, WordsCopied, CopyComplete, Lapped, Counted, NoTear
<1>6. CASE pc' = "lapped"
  <2>1. t[1] > next
    BY <1>1, <1>6, Constants DEF ReadSeq, Marked, Times, RingInv, Types
  <2>2. Lapped'
    BY <1>1, <1>2, <2>1, LaterInSlot DEF RingInv, Lapped
  <2> QED
    BY <1>2, <1>3, <1>4, <1>6, <2>2
       DEF RingInv, CopyStarted, WordsCopied, CopyComplete, Copying, Counted, NoTear
<1>7. CASE pc' = "idle"
  BY <1>2, <1>3, <1>4, <1>7
     DEF RingInv, CopyStarted, WordsCopied, CopyComplete, Copying, Lapped, Counted, NoTear
<1> QED BY <1>5, <1>6, <1>7 DEF ReadSeq

(* A copied word is of the publish the copy is of, or of a later one.      *)
LEMMA CopyWordStep ==
  ASSUME RingInv, CopyWord
  PROVE  RingInv'
<1> DEFINE j == Len(copy) + 1
<1>1. j \in Words /\ pc = "copy" /\ Copying /\ next \in Nat \ {0}
  BY Constants DEF CopyWord, RingInv, Types, Copying
<1>2. PICK t \in Loadable(WordStores(Slot(next), j), hb) :
        copy' = Append(copy, t[1]) /\ pend' = Latest(pend, Released(t))
  BY DEF CopyWord
<1>3. t \in Times /\ t[1] \in InSlot(Slot(next)) /\ t[2] = j /\ Reaches(now, t) /\ t = <<t[1], j>>
  BY <1>1, <1>2, WordStoreType DEF Loadable, RingInv, Times
<1>4. Released(t) = <<t[1], 0>> /\ <<t[1], 0>> \in Times
  BY <1>1, <1>3, Constants DEF Released, Times
<1>5. pend' \in Times /\ Reaches(pend', pend) /\ Reaches(pend', <<t[1], 0>>)
  BY <1>2, <1>4, LatestReaches DEF RingInv, Types
<1>6. UNCHANGED <<now, hb, cohSeq, pc, next, dropped, seen, payload, outFor>>
  BY DEF CopyWord
<1>7. Types'
  BY <1>1, <1>2, <1>3, <1>5, <1>6, Constants DEF RingInv, Types, Times, CopyWord
<1>8. t[1] >= next
  <2>1. /\ <<next, DONE>> \in Times /\ <<next, j>> \in Times
        /\ Reaches(now, <<next, DONE>>) /\ Reaches(hb, <<next, DONE>>)
    BY <1>1, Constants DEF RingInv, CopyStarted, Times
  <2>2. Reaches(<<next, DONE>>, <<next, j>>)
    BY <1>1, Constants DEF Reaches, Before
  <2>3. Reaches(now, <<next, j>>) /\ Reaches(hb, <<next, j>>)
    BY <2>1, <2>2, ReachesTransitive DEF RingInv, Types
  <2>4. next \in InSlot(Slot(next))
    BY <1>1, <2>1, Constants DEF InSlot, Reaches, Before, RingInv, Types, Times
  <2>5. <<next, j>> \in WordStores(Slot(next), j)
    BY <2>3, <2>4 DEF WordStores, Reaches
  <2>6. Reaches(t, <<next, j>>)
    BY <1>2, <2>3, <2>5, KnownNotSkipped DEF RingInv, Types
  <2> QED BY <1>1, <1>3, <2>6 DEF Reaches, Before, Times
<1>9. WordsCopied'
  <2> SUFFICES ASSUME NEW k \in 1 .. Len(copy') PROVE WordCopied(copy[k], k)'
    BY DEF WordsCopied
  <2>1. CASE k = j
    <3>1. copy'[k] = t[1]
      BY <1>2, <2>1 DEF RingInv, Types
    <3> QED
      BY <1>1, <1>3, <1>5, <1>6, <1>8, <2>1, <3>1 DEF WordCopied, InSlot, Reaches
  <2>2. CASE k \in 1 .. Len(copy)
    <3>1. copy'[k] = copy[k] /\ WordCopied(copy[k], k) /\ <<copy[k], 0>> \in Times
      BY <1>1, <1>2, <2>2 DEF RingInv, Types, WordsCopied, Times
    <3>2. Reaches(pend', <<copy[k], 0>>)
      BY <1>1, <1>5, <3>1, ReachesTransitive DEF WordCopied, RingInv, Types
    <3> QED BY <1>1, <1>6, <3>1, <3>2 DEF WordCopied, InSlot, Reaches
  <2> QED BY <1>2, <2>1, <2>2 DEF RingInv, Types
<1> QED
  BY <1>1, <1>6, <1>7, <1>9
     DEF RingInv, CopyStarted, CopyComplete, Copying, Lapped, Counted, NoTear, Reaches

LEMMA AcquireFenceStep ==
  ASSUME RingInv, AcquireFence
  PROVE  RingInv'
<1>1. pc = "copy" /\ pc' = "recheck" /\ Len(copy) = WORDS /\ Copying
      /\ UNCHANGED <<now, pend, cohSeq, next, dropped, copy, seen, payload, outFor>>
  BY DEF AcquireFence, Copying
<1>2. hb' \in Times /\ Reaches(hb', hb) /\ Reaches(hb', pend)
  BY LatestReaches DEF AcquireFence, RingInv, Types
<1>3. Types'
  BY <1>1, <1>2 DEF RingInv, Types
<1>4. CopyStarted'
  <2>1. <<next, DONE>> \in Times
    BY Constants DEF RingInv, Types, Times
  <2> QED BY <1>1, <1>2, <2>1, ReachesTransitive DEF RingInv, Types, CopyStarted, Reaches
<1>5. WordsCopied'
  <2> SUFFICES ASSUME NEW k \in 1 .. Len(copy) PROVE WordCopied(copy[k], k)'
    BY <1>1 DEF WordsCopied
  <2>1. WordCopied(copy[k], k) /\ <<copy[k], 0>> \in Times
    BY <1>1 DEF RingInv, Types, WordsCopied, Times
  <2>2. Reaches(hb', <<copy[k], 0>>)
    BY <1>1, <1>2, <2>1, ReachesTransitive DEF WordCopied, RingInv, Types
  <2> QED BY <1>1, <2>1, <2>2 DEF WordCopied, InSlot, Reaches
<1> QED
  BY <1>1, <1>3, <1>4, <1>5 DEF RingInv, CopyComplete, Lapped, Counted, NoTear

(* The second check fails if any word copied is of a later publish.        *)
LEMMA CopyIsWhole ==
  ASSUME RingInv, pc = "recheck", <<next, DONE>> \in SeqLoads(Slot(next)), NEW j \in Words
  PROVE  copy[j] = next
<1>1. WordCopied(copy[j], j) /\ copy[j] \in Nat /\ next \in Nat
  <2>1. j \in 1 .. Len(copy)
    BY Constants DEF RingInv, CopyComplete
  <2>2. copy \in Seq(Nat) /\ next \in Nat
    BY DEF RingInv, Types
  <2>3. copy[j] \in Nat
    BY <2>1, <2>2
  <2>4. WordCopied(copy[j], j)
    BY <2>1 DEF RingInv, WordsCopied, Copying
  <2> QED BY <2>2, <2>3, <2>4
<1> SUFFICES ASSUME copy[j] > next PROVE FALSE
  BY <1>1 DEF WordCopied
<1> DEFINE u == <<copy[j], 0>>
<1>2. u \in Times /\ Reaches(now, u) /\ Reaches(hb, u)
  <2>0. j \in Nat /\ j >= 1 /\ now \in Times
    BY Constants DEF RingInv, Types
  <2>1. u \in Times /\ <<copy[j], j>> \in Times
    BY <1>1, <2>0 DEF Times
  <2>2. Reaches(<<copy[j], j>>, u)
    BY <1>1, <2>0 DEF Reaches, Before
  <2>3. Reaches(now, <<copy[j], j>>) /\ Reaches(hb, u)
    BY <1>1 DEF WordCopied
  <2> QED BY <2>0, <2>1, <2>2, <2>3, ReachesTransitive
<1>3. u \in SeqStores(Slot(next))
  BY <1>1, <1>2 DEF SeqStores, WordCopied, Reaches
<1>4. Reaches(<<next, DONE>>, u)
  BY <1>2, <1>3, KnownNotSkipped DEF SeqLoads, RingInv, Types
<1> QED BY <1>1, <1>4 DEF Reaches, Before

LEMMA RecheckStep ==
  ASSUME RingInv, NEW t, Recheck(t)
  PROVE  RingInv'
<1>1. t \in SeqStores(Slot(next)) /\ t \in Times /\ t[2] \in {0, DONE}
      /\ Reaches(now, t) /\ t[1] <= now[1] /\ Slot(next) \in Slots
  BY SeqStoreType, SlotRange DEF Recheck, SeqLoads, Loadable, RingInv, Types
<1>2. pend' \in Times /\ UNCHANGED <<now, hb, dropped>>
  BY <1>1, LatestReaches, ReleasedType DEF Recheck, RingInv, Types
<1>3. cohSeq' \in [Slots -> Times] /\ copy' \in Seq(Nat) /\ Len(copy') <= WORDS
  BY <1>1, Constants DEF Recheck, RingInv, Types
<1>4. next \in Nat \ {0} /\ pc = "recheck" /\ Copying /\ Reaches(now, <<next, DONE>>)
      /\ Reaches(cohSeq[Slot(next)], <<next, DONE>>)
  BY DEF Recheck, RingInv, Types, Copying, CopyStarted
<1>5. CASE t[1] = next /\ ~Marked(t)
  <2>1. t = <<next, DONE>>
    BY <1>1, <1>5, Constants DEF Marked, Times
  <2>2. \A j \in Words : copy[j] = next
    BY <1>4, <2>1, CopyIsWhole DEF Recheck
  <2>3. pc' = "idle" /\ next' = next + 1 /\ seen' = seen + 1 /\ payload' = copy /\ outFor' = next
    BY <1>5 DEF Recheck
  <2>4. NoTear'
    BY <2>2, <2>3 DEF NoTear
  <2>5. Types'
    BY <1>2, <1>3, <1>4, <2>3 DEF RingInv, Types
  <2>6. now[1] \in Nat /\ next <= now[1]
    BY <1>1, <1>5 DEF RingInv, Types, Times
  <2>7. Counted'
    BY <1>2, <1>4, <2>3, <2>6 DEF RingInv, Counted
  <2> QED
    BY <2>3, <2>4, <2>5, <2>7
       DEF RingInv, CopyStarted, WordsCopied, CopyComplete, Copying, Lapped
<1>6. CASE ~(t[1] = next /\ ~Marked(t))
  <2>1. pc' = "lapped" /\ UNCHANGED <<next, seen, payload, outFor>>
    BY <1>6 DEF Recheck
  <2>2. Reaches(t, cohSeq[Slot(next)]) /\ cohSeq[Slot(next)] \in Times /\ <<next, DONE>> \in Times
    <3>1. Reaches(t, cohSeq[Slot(next)])
      BY DEF Recheck, SeqLoads, Reaches
    <3>2. cohSeq[Slot(next)] \in Times
      BY <1>1 DEF RingInv, Types
    <3> QED BY <1>4, <3>1, <3>2, Constants DEF Times
  <2>3. Reaches(t, <<next, DONE>>)
    BY <1>1, <1>4, <2>2, ReachesTransitive
  <2>4. t[1] > next
    BY <1>1, <1>6, <2>3, Constants DEF Reaches, Before, Marked, Times, RingInv, Types
  <2>5. next + CAP <= now[1]
    BY <1>1, <2>4, LaterInSlot DEF RingInv
  <2>6. Types' /\ Counted' /\ Lapped' /\ NoTear'
    BY <1>2, <1>3, <2>1, <2>5 DEF RingInv, Types, Counted, Lapped, NoTear
  <2> QED BY <2>1, <2>6 DEF RingInv, CopyStarted, WordsCopied, CopyComplete, Copying
<1> QED BY <1>5, <1>6

\* Where a jump goes is no later than the loaded head, nor further than one
\* value past what the writer is about to overwrite.
LEMMA OldestBound ==
  ASSUME NEW h \in Nat
  PROVE  /\ Oldest(h) \in Nat \ {0} /\ Oldest(h) <= h + 1
         /\ Oldest(h) # 1 => Oldest(h) - 1 + CAP = h + 1
  BY Constants DEF Oldest

LEMMA JumpStep ==
  ASSUME RingInv, NEW t, Jump(t)
  PROVE  RingInv' /\ next' - 1 + CAP <= now[1] + 1
<1>1. t \in Times /\ t[1] \in Nat /\ t[1] <= now[1] /\ now \in Times /\ next \in Nat \ {0}
  BY HeadStoreType DEF Jump, Loadable, RingInv, Types, Times
<1>2. hb' \in Times /\ UNCHANGED <<now, pend, cohSeq, copy, seen, payload, outFor>>
  BY <1>1, LatestReaches, ReleasedType DEF Jump, RingInv, Types
<1>3. next' = Oldest(t[1]) /\ next' > next /\ dropped' = dropped + (next' - next)
      /\ pc' \in {"idle", "seq"}
  BY DEF Jump, NextAttempt
<1>4. Types'
  BY <1>1, <1>2, <1>3, OldestBound DEF RingInv, Types
<1>5. next' - 1 + CAP = t[1] + 1 /\ now[1] \in Nat /\ next' \in Nat
  <2>1. /\ Oldest(t[1]) \in Nat \ {0}
        /\ Oldest(t[1]) # 1 => Oldest(t[1]) - 1 + CAP = t[1] + 1
    BY <1>1, OldestBound
  <2> QED BY <1>1, <1>3, <2>1 DEF Times
<1>6. next' - 1 + CAP <= now[1] + 1
  BY <1>1, <1>5, Constants
<1>7. next' \in 1 .. (now[1] + 1)
  BY <1>1, <1>3, <1>5, <1>6, Constants
<1>8. Counted'
  BY <1>1, <1>2, <1>3, <1>5, <1>7 DEF RingInv, Counted
<1> QED
  BY <1>2, <1>3, <1>4, <1>6, <1>8
     DEF RingInv, CopyStarted, WordsCopied, CopyComplete, Copying, Lapped, NoTear

LEMMA SkipStep ==
  ASSUME RingInv, NEW t, Skip(t)
  PROVE  RingInv' /\ next' - 1 + CAP <= now[1] + 1
<1>1. t \in Times /\ now \in Times /\ next \in Nat \ {0} /\ next + CAP <= now[1]
  BY HeadStoreType DEF Skip, Loadable, RingInv, Types, Lapped
<1>2. hb' \in Times /\ UNCHANGED <<now, pend, cohSeq, copy, seen, payload, outFor>>
  BY <1>1, LatestReaches, ReleasedType DEF Skip, RingInv, Types
<1>3. next' = next + 1 /\ dropped' = dropped + 1 /\ pc' \in {"idle", "seq"}
  BY DEF Skip, NextAttempt
<1>4. Types'
  BY <1>1, <1>2, <1>3 DEF RingInv, Types
<1>5. Counted' /\ next' - 1 + CAP <= now[1] + 1
  BY <1>1, <1>2, <1>3, Constants DEF RingInv, Counted, Times
<1> QED
  BY <1>2, <1>3, <1>4, <1>5
     DEF RingInv, CopyStarted, WordsCopied, CopyComplete, Copying, Lapped, NoTear

LEMMA RingStep == RingInv /\ [MulticastNext]_ringVars => RingInv'
<1> SUFFICES ASSUME RingInv, [MulticastNext]_ringVars PROVE RingInv'
  OBVIOUS
<1>1. CASE Writer BY <1>1, WriterStep
<1>2. CASE Call
  <2>1. pc' = "seq" /\ UNCHANGED <<now, hb, pend, cohSeq, next, dropped, copy, seen, payload, outFor>>
    BY <1>2 DEF Call
  <2> QED
    BY <2>1 DEF RingInv, Types, CopyStarted, WordsCopied, CopyComplete, Copying, Lapped, Counted, NoTear
<1>3. CASE \E t \in SeqStores(Slot(next)) : ReadSeq(t) \/ Recheck(t)
  BY <1>3, ReadSeqStep, RecheckStep
<1>4. CASE CopyWord BY <1>4, CopyWordStep
<1>5. CASE AcquireFence BY <1>5, AcquireFenceStep
<1>6. CASE \E t \in HeadStores : Jump(t) \/ Skip(t)
  BY <1>6, JumpStep, SkipStep
<1>7. CASE UNCHANGED ringVars
  BY <1>7 DEF ringVars, readerVars, RingInv, Types, CopyStarted, WordsCopied, WordCopied, CopyComplete,
              Copying, Lapped, Counted, NoTear, Reaches, InSlot
<1> QED BY <1>1, <1>2, <1>3, <1>4, <1>5, <1>6, <1>7 DEF MulticastNext, Reader

LEMMA RingInvariant == MulticastSpec => []RingInv
  BY InitRingInv, RingStep, PTL DEF MulticastSpec

(* No torn read: all words try_read returns are of the publish it was      *)
(* asked for, for every size of the ring and of the payload.               *)
THEOREM ReadsWhole == MulticastSpec => []NoTear
<1>1. RingInv => NoTear
  BY DEF RingInv
<1> QED BY <1>1, RingInvariant, PTL

(* A value is given up only if the writer has begun to overwrite it or     *)
(* will with its next publish.                                             *)
THEOREM LosesOnlyLapped == MulticastSpec => GivesUpOnlyLapped
<1>1. ASSUME RingInv, [MulticastNext]_ringVars
      PROVE  [dropped' # dropped => next' - 1 + CAP <= now[1] + 1]_ringVars
  <2> SUFFICES ASSUME dropped' # dropped PROVE next' - 1 + CAP <= now[1] + 1
    OBVIOUS
  <2>1. \E t \in HeadStores : Jump(t) \/ Skip(t)
    BY <1>1 DEF MulticastNext, Reader, Writer, Mark, StoreWord, StoreSeq, StoreHead, Call, ReadSeq, Recheck,
                CopyWord, AcquireFence, ringVars, readerVars
  <2> QED BY <1>1, <2>1, JumpStep, SkipStep
<1> QED BY <1>1, RingInvariant, PTL DEF MulticastSpec, GivesUpOnlyLapped

----------------------------------------------------------------------------
(* The types of MulticastTypeOK are tighter than those of RingInv: nothing is of a  *)
(* publish beyond the bound.  They are kept by every step from RingInv.    *)

LEMMA TimeIsTimes ==
  /\ Time \subseteq Times
  /\ \A t \in Time : t[1] \in 0 .. MaxPub /\ t[2] \in 0 .. HEAD
  /\ \A n \in 0 .. MaxPub, k \in 0 .. HEAD : <<n, k>> \in Time
  /\ \A t \in Times : t[1] <= MaxPub /\ t[2] <= HEAD => t \in Time
  BY Constants DEF Time, Times

LEMMA LatestTime ==
  ASSUME NEW a \in Time, NEW b \in Time
  PROVE  Latest(a, b) \in Time
  BY DEF Latest

LEMMA ReleasedTime ==
  ASSUME NEW t \in Time
  PROVE  Released(t) \in Time
<1>1. t[1] \in 0 .. MaxPub /\ t[2] \in 0 .. HEAD
  BY TimeIsTimes
<1>2. CASE t[2] \in {DONE, HEAD}
  <2>1. t[2] \notin Words
    BY <1>2, Constants
  <2> QED BY <1>2, <2>1 DEF Released
<1>3. CASE t[2] \in Words
  <2>1. Released(t) = <<t[1], 0>>
    BY <1>3, Constants DEF Released
  <2> QED BY <1>1, <2>1, TimeIsTimes, Constants
<1>4. CASE t[2] \notin {DONE, HEAD} /\ t[2] \notin Words
  <2>1. Released(t) = IF t[1] > 1 THEN <<t[1] - 1, 0>> ELSE Start
    BY <1>4 DEF Released
  <2>2. t[1] > 1 => t[1] - 1 \in 0 .. MaxPub
    BY <1>1, Constants
  <2>3. 0 \in 0 .. MaxPub /\ 0 \in 0 .. HEAD /\ HEAD \in 0 .. HEAD
    BY Constants
  <2> QED BY <2>1, <2>2, <2>3, TimeIsTimes DEF Start
<1> QED BY <1>2, <1>3, <1>4

\* Every store the reader can load is within the bound.
LEMMA StoreTime ==
  ASSUME MulticastTypeOK, NEW t
  PROVE  /\ \A s : t \in SeqStores(s) => t \in Time
         /\ \A s, j : j \in Words /\ t \in WordStores(s, j) => t \in Time /\ t[1] \in 0 .. MaxPub
         /\ t \in HeadStores => t \in Time
<1>1. now[1] \in 0 .. MaxPub
  BY TimeIsTimes DEF MulticastTypeOK
<1>2. 0 .. now[1] \subseteq 0 .. MaxPub /\ \A s : InSlot(s) \subseteq 0 .. MaxPub
  <2>1. 0 .. now[1] \subseteq 0 .. MaxPub
    BY <1>1, Constants
  <2> QED BY <2>1 DEF InSlot
<1>3. 0 \in 0 .. HEAD /\ DONE \in 0 .. HEAD /\ HEAD \in 0 .. HEAD /\ Words \subseteq 0 .. HEAD
  BY Constants
<1>4. ASSUME NEW s, t \in SeqStores(s) PROVE t \in Time
  BY <1>2, <1>3, <1>4 DEF SeqStores, Time
<1>5. ASSUME NEW s, NEW j \in Words, t \in WordStores(s, j) PROVE t \in Time /\ t[1] \in 0 .. MaxPub
  BY <1>2, <1>3, <1>5 DEF WordStores, Time
<1>6. ASSUME t \in HeadStores PROVE t \in Time
  BY <1>2, <1>3, <1>6 DEF HeadStores, Time
<1> QED BY <1>4, <1>5, <1>6

LEMMA InitBounded == MulticastInit => MulticastTypeOK
<1> SUFFICES ASSUME MulticastInit PROVE MulticastTypeOK
  OBVIOUS
<1>1. Start \in Time /\ <<0, DONE>> \in Time
  BY TimeIsTimes, Constants DEF Start
<1>2. payload \in [1 .. WORDS -> 0 .. MaxPub]
  BY Constants DEF MulticastInit
<1>3. payload \in Seq(0 .. MaxPub) /\ Len(payload) = WORDS
  BY <1>2, Constants
<1>4. next \in 1 .. (now[1] + 1) /\ copy = <<>>
  BY DEF MulticastInit, Start
<1> QED BY <1>1, <1>3, <1>4, Constants DEF MulticastInit, MulticastTypeOK

LEMMA BoundedStep ==
  ASSUME RingInv, RingInv', MulticastTypeOK, [MulticastNext]_ringVars
  PROVE  MulticastTypeOK'
<1>0. /\ next' \in 1 .. (now'[1] + 1) /\ dropped' \in Nat /\ seen' \in Nat
      /\ pc' \in {"idle", "seq", "copy", "recheck", "lapped"} /\ Len(copy') <= WORDS
  BY DEF RingInv, Counted, Types
<1> DEFINE Others == /\ hb \in Time /\ pend \in Time /\ cohSeq \in [Slots -> Time]
                     /\ attempt \in 0 .. 3 /\ copy \in Seq(0 .. MaxPub)
                     /\ payload \in Seq(0 .. MaxPub) /\ Len(payload) = WORDS /\ outFor \in 0 .. MaxPub
<1>1. Others
  BY DEF MulticastTypeOK
<1> SUFFICES now' \in Time /\ Others'
  BY <1>0 DEF MulticastTypeOK
<1>2. CASE Writer
  <2>1. now \in Time /\ now[1] \in 0 .. MaxPub /\ now[2] \in 0 .. HEAD
    BY TimeIsTimes DEF MulticastTypeOK
  <2>2. now'[1] \in 0 .. MaxPub /\ now'[2] \in 0 .. HEAD /\ now' = <<now'[1], now'[2]>>
    <3>1. CASE Mark BY <2>1, <3>1, Constants DEF Mark
    <3>2. CASE StoreWord BY <2>1, <3>2, Constants DEF StoreWord
    <3>3. CASE StoreSeq BY <2>1, <3>3, Constants DEF StoreSeq
    <3>4. CASE StoreHead BY <2>1, <3>4, Constants DEF StoreHead
    <3> QED BY <1>2, <3>1, <3>2, <3>3, <3>4 DEF Writer
  <2>3. UNCHANGED readerVars
    BY <1>2 DEF Writer, Mark, StoreWord, StoreSeq, StoreHead
  <2> QED BY <1>1, <2>2, <2>3, TimeIsTimes DEF readerVars
<1>3. CASE Call
  BY <1>1, <1>3 DEF Call, MulticastTypeOK
<1>4. ASSUME NEW t, ReadSeq(t) PROVE now' \in Time /\ Others'
  <2>1. t \in Time
    BY <1>4, StoreTime DEF ReadSeq, SeqLoads, Loadable
  <2>2. hb' \in Time
    BY <1>1, <1>4, <2>1, LatestTime, ReleasedTime DEF ReadSeq
  <2>3. cohSeq' \in [Slots -> Time] /\ copy' = <<>>
    BY <1>1, <1>4, <2>1 DEF ReadSeq
  <2> QED BY <1>1, <1>4, <2>2, <2>3 DEF ReadSeq, MulticastTypeOK
<1>5. ASSUME NEW t, Recheck(t) PROVE now' \in Time /\ Others'
  <2>1. t \in Time /\ t \in SeqStores(Slot(next))
    BY <1>5, StoreTime DEF Recheck, SeqLoads, Loadable
  <2>2. pend' \in Time
    BY <1>1, <1>5, <2>1, LatestTime, ReleasedTime DEF Recheck
  <2>3. cohSeq' \in [Slots -> Time] /\ copy' = <<>>
    BY <1>1, <1>5, <2>1 DEF Recheck
  <2>4. Len(copy) = WORDS
    BY <1>5 DEF Recheck, RingInv, CopyComplete
  <2>5. t[1] \in 0 .. MaxPub
    BY <2>1, TimeIsTimes
  <2>6. /\ payload' \in {payload, copy} /\ outFor' \in {outFor, t[1]}
        /\ UNCHANGED <<now, hb, attempt>>
    BY <1>5 DEF Recheck
  <2> QED BY <1>1, <2>2, <2>3, <2>4, <2>5, <2>6 DEF MulticastTypeOK
<1>6. CASE CopyWord
  <2>1. PICK t \in WordStores(Slot(next), Len(copy) + 1) :
          copy' = Append(copy, t[1]) /\ pend' = Latest(pend, Released(t))
    BY <1>6 DEF CopyWord, Loadable
  <2>2. Len(copy) + 1 \in Words
    BY <1>1, <1>6, Constants DEF CopyWord
  <2>3. t \in Time /\ t[1] \in 0 .. MaxPub
    BY <2>2, StoreTime
  <2>4. copy' \in Seq(0 .. MaxPub)
    BY <1>1, <2>1, <2>3
  <2>5. pend' \in Time
    BY <1>1, <2>1, <2>3, LatestTime, ReleasedTime
  <2> QED BY <1>1, <1>6, <2>4, <2>5 DEF CopyWord, MulticastTypeOK
<1>7. CASE AcquireFence
  <2>1. hb' \in Time
    BY <1>1, <1>7, LatestTime DEF AcquireFence
  <2> QED BY <1>1, <1>7, <2>1 DEF AcquireFence, MulticastTypeOK
<1>8. ASSUME NEW t, Jump(t) \/ Skip(t) PROVE now' \in Time /\ Others'
  <2>1. t \in Time
    BY <1>8, StoreTime DEF Jump, Skip, Loadable
  <2>2. hb' \in Time
    BY <1>1, <1>8, <2>1, LatestTime, ReleasedTime DEF Jump, Skip
  <2>3. attempt' \in 0 .. 3
    BY <1>1, <1>8 DEF Jump, Skip, NextAttempt
  <2> QED BY <1>1, <1>8, <2>2, <2>3 DEF Jump, Skip, MulticastTypeOK
<1>9. CASE UNCHANGED ringVars
  BY <1>1, <1>9 DEF ringVars, readerVars, MulticastTypeOK
<1> QED
  BY <1>2, <1>3, <1>4, <1>5, <1>6, <1>7, <1>8, <1>9 DEF MulticastNext, Reader

(* Every value is returned or counted as lost, never both and never        *)
(* neither, and the reader never moves past what has been published:       *)
(* try_read's `dropped`, whatever it loads and however often it is lapped. *)
THEOREM CountsEveryValue == MulticastSpec => []Accounting
<1>1. RingInv /\ MulticastTypeOK => Accounting
  BY DEF RingInv, Counted, Accounting
<1>2. MulticastSpec => []MulticastTypeOK
  BY InitBounded, BoundedStep, RingInvariant, PTL DEF MulticastSpec
<1> QED BY <1>1, <1>2, RingInvariant, PTL

----------------------------------------------------------------------------
(* The logger. *)

Records == 1 .. command

LoggerTypes ==
  /\ engine \in {"processing", "joined"}
  /\ caller \in {"running", "stopping", "returned"}
  /\ stopping \in BOOLEAN /\ any \in BOOLEAN
  /\ logger \in {"trades", "cmds", "check", "exited"}

Counts == /\ command \in Nat /\ command <= MaxCommands
          /\ made \in 0 .. MaxTrades
          /\ noticed \in Nat /\ noticed <= command

Data ==
  /\ queue \in [Files -> Seq(Records)] /\ file \in [Files -> Seq(Records)]
  /\ lost \in [Files -> SUBSET Records]

Bounded == \A f \in Files : Len(queue[f]) <= LogUsable

Written == Len(file["cmds"])
Waiting == Len(queue["cmds"])
Refused == Cardinality(lost["cmds"])

\* every command is in the file, in the queue or lost, and in one of them only
Tally == /\ IsFiniteSet(lost["cmds"])
         /\ Written + Waiting + Refused = command

Placed(r) == \/ \E k \in 1 .. Len(file["cmds"]) : file["cmds"][k] = r
             \/ \E k \in 1 .. Len(queue["cmds"]) : queue["cmds"][k] = r
             \/ r \in lost["cmds"]

AllPlaced == \A r \in Records : Placed(r)

\* the logger knows of the command of every trade it has written
TradesSeen == \A k \in 1 .. Len(file["trades"]) : file["trades"][k] <= noticed

\* what it left in the command queue is newer
OnlyNewerLeft ==
  logger \in {"check", "exited"} =>
    \A k \in 1 .. Len(queue["cmds"]) : queue["cmds"][k] > noticed

LoggerInv == LoggerTypes /\ Counts /\ Data /\ Bounded /\ Tally /\ AllPlaced /\ TradesSeen /\ OnlyNewerLeft

LEMMA Parameters == /\ LogUsable \in Nat /\ LogUsable >= 1 /\ MaxCommands \in Nat
                    /\ MaxTrades \in Nat
<1>1. LogUsable \in Nat \ {0} /\ MaxCommands \in Nat /\ MaxTrades \in Nat
  BY LoggerAssumption, Zenon
<1> QED BY <1>1

LEMMA InitLoggerInv == LoggerInit => LoggerInv
<1> SUFFICES ASSUME LoggerInit PROVE LoggerInv
  OBVIOUS
<1>1. LoggerTypes
  BY DEF LoggerInit, LoggerTypes, Order
<1>2. Counts
  BY Parameters DEF LoggerInit, Counts
<1>3. Data
  BY DEF LoggerInit, Data
<1>4. Tally
  <2>1. Len(file["cmds"]) = 0 /\ Len(queue["cmds"]) = 0 /\ lost["cmds"] = {} /\ command = 0
    BY DEF LoggerInit, Files
  <2> QED BY <2>1, FS_EmptySet DEF Tally, Written, Waiting, Refused
<1>5. Bounded
  BY Parameters DEF LoggerInit, Bounded
<1>6. AllPlaced /\ TradesSeen /\ OnlyNewerLeft
  BY DEF LoggerInit, AllPlaced, Records, TradesSeen, OnlyNewerLeft, Files, Order
<1> QED BY <1>1, <1>2, <1>3, <1>4, <1>5, <1>6 DEF LoggerInv

----------------------------------------------------------------------------
\* What LogRecord does to its queue and to the count of its losses.
LEMMA LogRecordEffect ==
  ASSUME NEW R, queue \in [Files -> Seq(R)], lost \in [Files -> SUBSET R],
         NEW f \in Files, NEW r \in R, LogRecord(f, r)
  PROVE  /\ queue' \in [Files -> Seq(R)] /\ lost' \in [Files -> SUBSET R]
         /\ \A g \in Files : g # f => queue'[g] = queue[g] /\ lost'[g] = lost[g]
         /\ \/ /\ queue'[f] = Append(queue[f], r) /\ Len(queue[f]) < LogUsable
               /\ lost'[f] = lost[f]
            \/ queue'[f] = queue[f] /\ lost'[f] = lost[f] \cup {r}
<1>1. queue[f] \in Seq(R) /\ lost[f] \subseteq R
  OBVIOUS
<1>2. Append(queue[f], r) \in Seq(R) /\ lost[f] \cup {r} \subseteq R
  BY <1>1
<1>3. CASE /\ Len(queue[f]) < LogUsable
           /\ queue' = [queue EXCEPT ![f] = Append(@, r)]
           /\ UNCHANGED lost
  BY <1>1, <1>2, <1>3
<1>4. CASE /\ lost' = [lost EXCEPT ![f] = @ \cup {r}]
           /\ UNCHANGED queue
  BY <1>1, <1>2, <1>4
<1> QED BY <1>3, <1>4 DEF LogRecord

LEMMA BoundKept ==
  ASSUME NEW R, queue \in [Files -> Seq(R)], lost \in [Files -> SUBSET R], Bounded,
         NEW f \in Files, NEW r \in R, LogRecord(f, r)
  PROVE  Bounded'
<1> SUFFICES ASSUME NEW g \in Files PROVE Len(queue'[g]) <= LogUsable
  BY DEF Bounded
<1>1. queue[g] \in Seq(R) /\ Len(queue[g]) \in Nat /\ Len(queue[g]) <= LogUsable
  BY DEF Bounded
<1>2. CASE queue'[g] = queue[g]
  BY <1>1, <1>2
<1>3. CASE queue'[g] = Append(queue[g], r) /\ Len(queue[g]) < LogUsable
  BY <1>1, <1>3, Parameters
<1> QED BY <1>2, <1>3, LogRecordEffect

(* A new command is placed, and what was placed stays so.                  *)
LEMMA LogCommandStep ==
  ASSUME LoggerInv, LogCommand
  PROVE  LoggerInv'
<1> DEFINE r == command + 1
<1>1. /\ command \in Nat /\ command' = r /\ command < MaxCommands /\ made' = 0
      /\ LogRecord("cmds", r) /\ UNCHANGED <<engine, caller, stopping, file, logger, any, noticed>>
  BY DEF LogCommand, loggerVars, LoggerInv, Counts
<1>2. LoggerTypes' /\ Counts'
  BY <1>1, Parameters DEF LoggerInv, LoggerTypes, Counts
<1>3. Records \subseteq Records' /\ r \in Records' /\ Records' = Records \cup {r} /\ r \notin Records
  BY <1>1 DEF Records
<1>4. /\ queue \in [Files -> Seq(Records')] /\ file \in [Files -> Seq(Records')]
      /\ lost \in [Files -> SUBSET Records']
  <2>1. \A f \in Files : queue[f] \in Seq(Records') /\ file[f] \in Seq(Records')
    BY <1>3, SeqMonotonic DEF LoggerInv, Data
  <2> QED BY <1>3, <2>1 DEF LoggerInv, Data
<1>5. /\ queue' \in [Files -> Seq(Records')] /\ lost' \in [Files -> SUBSET Records']
      /\ queue'["trades"] = queue["trades"]
      /\ \/ queue'["cmds"] = Append(queue["cmds"], r) /\ lost'["cmds"] = lost["cmds"]
         \/ queue'["cmds"] = queue["cmds"] /\ lost'["cmds"] = lost["cmds"] \cup {r}
  <2>1. "cmds" \in Files /\ "trades" \in Files
    BY DEF Files
  <2>2. /\ queue' \in [Files -> Seq(Records')] /\ lost' \in [Files -> SUBSET Records']
        /\ queue'["trades"] = queue["trades"]
        /\ \/ queue'["cmds"] = Append(queue["cmds"], r) /\ lost'["cmds"] = lost["cmds"]
           \/ queue'["cmds"] = queue["cmds"] /\ lost'["cmds"] = lost["cmds"] \cup {r}
    <3>1. queue' \in [Files -> Seq(Records')] /\ lost' \in [Files -> SUBSET Records']
      BY <1>1, <1>3, <1>4, <2>1, LogRecordEffect
    <3>2. queue'["trades"] = queue["trades"]
      BY <1>1, <1>4, <2>1 DEF LogRecord
    <3>3. \/ queue'["cmds"] = Append(queue["cmds"], r) /\ lost'["cmds"] = lost["cmds"]
          \/ queue'["cmds"] = queue["cmds"] /\ lost'["cmds"] = lost["cmds"] \cup {r}
      BY <1>1, <1>4, <2>1 DEF LogRecord
    <3> QED BY <3>1, <3>2, <3>3
  <2> QED BY <2>1, <2>2
<1>6. Data'
  BY <1>1, <1>4, <1>5 DEF Data
<1>7. Bounded'
  BY <1>1, <1>3, <1>4, BoundKept DEF LoggerInv, Files
<1>8. /\ queue["cmds"] \in Seq(Records) /\ file["cmds"] \in Seq(Records)
      /\ lost["cmds"] \subseteq Records
      /\ Len(queue["cmds"]) \in Nat /\ Len(file["cmds"]) \in Nat /\ r \notin lost["cmds"]
  BY <1>3 DEF LoggerInv, Data, Files
<1>9. Tally'
  <2>1. /\ command \in Nat /\ command' = command + 1
        /\ Written \in Nat /\ Written' = Written /\ Waiting \in Nat
    BY <1>1, <1>8 DEF Written, Waiting
  <2>2. IsFiniteSet(lost["cmds"]) /\ Refused \in Nat /\ Written + Waiting + Refused = command
    BY FS_CardinalityType DEF LoggerInv, Tally, Refused
  <2>3. CASE queue'["cmds"] = Append(queue["cmds"], r) /\ lost'["cmds"] = lost["cmds"]
    <3>1. Waiting' = Waiting + 1
      BY <1>8, <2>3 DEF Waiting
    <3>2. IsFiniteSet(lost'["cmds"]) /\ Refused' = Refused
      BY <2>2, <2>3 DEF Refused
    <3> QED BY <2>1, <2>2, <3>1, <3>2 DEF Tally
  <2>4. CASE queue'["cmds"] = queue["cmds"] /\ lost'["cmds"] = lost["cmds"] \cup {r}
    <3>1. IsFiniteSet(lost["cmds"] \cup {r}) /\ Cardinality(lost["cmds"] \cup {r}) = Refused + 1
      BY <1>8, <2>2, FS_AddElement, Zenon DEF Refused
    <3>2. IsFiniteSet(lost'["cmds"]) /\ Refused' = Refused + 1 /\ Waiting' = Waiting
      BY <2>4, <3>1 DEF Refused, Waiting
    <3> QED BY <2>1, <2>2, <3>2 DEF Tally
  <2> QED BY <1>5, <2>3, <2>4
<1>10. AllPlaced'
  <2> SUFFICES ASSUME NEW q \in Records' PROVE Placed(q)'
    BY DEF AllPlaced
  <2>1. CASE queue'["cmds"] = Append(queue["cmds"], r) /\ lost'["cmds"] = lost["cmds"]
    <3>1. /\ Len(queue'["cmds"]) = Len(queue["cmds"]) + 1
          /\ queue'["cmds"][Len(queue["cmds"]) + 1] = r
          /\ \A k \in 1 .. Len(queue["cmds"]) : queue'["cmds"][k] = queue["cmds"][k]
      BY <1>8, <2>1
    <3>2. CASE q = r
      BY <1>8, <3>1, <3>2 DEF Placed
    <3>3. CASE q \in Records
      <4>1. Placed(q)
        BY <3>3 DEF LoggerInv, AllPlaced
      <4> QED BY <1>1, <1>8, <2>1, <3>1, <4>1 DEF Placed
    <3> QED BY <1>3, <3>2, <3>3
  <2>2. CASE queue'["cmds"] = queue["cmds"] /\ lost'["cmds"] = lost["cmds"] \cup {r}
    BY <1>1, <1>3, <2>2 DEF LoggerInv, AllPlaced, Placed
  <2> QED BY <1>5, <2>1, <2>2
<1>11. TradesSeen'
  BY <1>1 DEF LoggerInv, TradesSeen
<1>12. OnlyNewerLeft'
  <2>1. CASE queue'["cmds"] = Append(queue["cmds"], r)
    <3>1. r > noticed
      BY <1>1 DEF LoggerInv, Counts
    <3>2. \A k \in 1 .. Len(queue'["cmds"]) :
            \/ k \in 1 .. Len(queue["cmds"]) /\ queue'["cmds"][k] = queue["cmds"][k]
            \/ queue'["cmds"][k] = r
      BY <1>8, <2>1
    <3> QED BY <1>1, <3>1, <3>2 DEF LoggerInv, OnlyNewerLeft
  <2>2. CASE queue'["cmds"] = queue["cmds"]
    BY <1>1, <2>2 DEF LoggerInv, OnlyNewerLeft
  <2> QED BY <1>5, <2>1, <2>2
<1> QED BY <1>2, <1>6, <1>7, <1>9, <1>10, <1>11, <1>12 DEF LoggerInv

LEMMA LogTradeStep ==
  ASSUME LoggerInv, LogTrade
  PROVE  LoggerInv'
<1>1. /\ command \in Nat /\ command > 0 /\ LogRecord("trades", command) /\ made < MaxTrades
      /\ made' = made + 1 /\ UNCHANGED <<engine, command, caller, stopping, file, logger, any, noticed>>
  BY DEF LogTrade, loggerVars, LoggerInv, Counts
<1>2. LoggerTypes' /\ Counts'
  BY <1>1, Parameters DEF LoggerInv, LoggerTypes, Counts
<1>3. command \in Records /\ Records' = Records
  BY <1>1 DEF Records
<1>4. /\ queue' \in [Files -> Seq(Records)] /\ lost' \in [Files -> SUBSET Records]
      /\ queue'["cmds"] = queue["cmds"] /\ lost'["cmds"] = lost["cmds"]
  BY <1>1, <1>3, LogRecordEffect DEF LoggerInv, Data, Files
<1>5. Data' /\ Tally'
  BY <1>1, <1>3, <1>4 DEF LoggerInv, Data, Tally, Written, Waiting, Refused
<1>6. Bounded'
  BY <1>1, <1>3, BoundKept DEF LoggerInv, Data, Files
<1>7. AllPlaced' /\ TradesSeen' /\ OnlyNewerLeft'
  BY <1>1, <1>3, <1>4 DEF LoggerInv, AllPlaced, Placed, TradesSeen, OnlyNewerLeft
<1> QED BY <1>2, <1>5, <1>6, <1>7 DEF LoggerInv

----------------------------------------------------------------------------
(* A record goes from the head of its queue to the end of its file.        *)
LEMMA WriteRecordStep ==
  ASSUME LoggerInv, NEW f \in Files, WriteRecord(f)
  PROVE  LoggerInv'
<1> DEFINE r == Head(queue[f])
<1>1. /\ logger = f /\ queue[f] # <<>> /\ any' = TRUE
      /\ file' = [file EXCEPT ![f] = Append(@, r)] /\ queue' = [queue EXCEPT ![f] = Tail(queue[f])]
      /\ noticed' = IF noticed < r THEN r ELSE noticed
      /\ UNCHANGED <<engine, command, made, lost, caller, stopping, logger>>
  BY DEF WriteRecord, Rest, engineVars
<1>2. /\ queue \in [Files -> Seq(Records)] /\ file \in [Files -> Seq(Records)]
      /\ queue[f] \in Seq(Records) /\ file[f] \in Seq(Records)
      /\ Len(queue[f]) \in Nat /\ Len(file[f]) \in Nat
  BY DEF LoggerInv, Data
<1>3. /\ r \in Records /\ r = queue[f][1] /\ Tail(queue[f]) \in Seq(Records)
      /\ Len(queue[f]) >= 1 /\ Len(Tail(queue[f])) = Len(queue[f]) - 1
      /\ \A k \in 1 .. Len(Tail(queue[f])) : Tail(queue[f])[k] = queue[f][k + 1]
  BY <1>1, <1>2
<1>4. /\ Append(file[f], r) \in Seq(Records) /\ Len(Append(file[f], r)) = Len(file[f]) + 1
      /\ Append(file[f], r)[Len(file[f]) + 1] = r
      /\ \A k \in 1 .. Len(file[f]) : Append(file[f], r)[k] = file[f][k]
  BY <1>2, <1>3
<1>5. /\ queue'[f] = Tail(queue[f]) /\ file'[f] = Append(file[f], r)
      /\ \A g \in Files : g # f => queue'[g] = queue[g] /\ file'[g] = file[g]
      /\ Records' = Records
  BY <1>1, <1>2 DEF Records
<1>6. Data'
  BY <1>1, <1>2, <1>3, <1>4, <1>5 DEF LoggerInv, Data
<1>7. LoggerTypes' /\ Counts'
  <2>1. r \in Nat /\ r <= command /\ command \in Nat /\ noticed \in Nat /\ noticed <= command
    BY <1>3 DEF Records, LoggerInv, Counts
  <2> QED BY <1>1, <2>1 DEF LoggerInv, LoggerTypes, Counts
<1>8. Bounded'
  <2> SUFFICES ASSUME NEW g \in Files PROVE Len(queue'[g]) <= LogUsable
    BY DEF Bounded
  <2>1. Len(queue[g]) <= LogUsable
    BY DEF LoggerInv, Bounded
  <2>2. CASE g = f
    BY <1>2, <1>3, <1>5, <2>1, <2>2, Parameters
  <2>3. CASE g # f
    BY <1>5, <2>1, <2>3
  <2> QED BY <2>2, <2>3
<1>9. Tally'
  <2>1. CASE f = "cmds"
    <3>1. IsFiniteSet(lost["cmds"]) /\ Refused \in Nat /\ Written + Waiting + Refused = command
      BY FS_CardinalityType DEF LoggerInv, Tally, Refused
    <3>2. Written' = Written + 1 /\ Waiting' = Waiting - 1 /\ Written \in Nat /\ Waiting \in Nat
      BY <1>2, <1>3, <1>4, <1>5, <2>1 DEF Written, Waiting
    <3>3. IsFiniteSet(lost'["cmds"]) /\ Refused' = Refused /\ command' = command
      BY <1>1, <3>1 DEF Refused
    <3> QED BY <3>1, <3>2, <3>3 DEF LoggerInv, Counts, Tally
  <2>2. CASE f # "cmds"
    <3>1. file'["cmds"] = file["cmds"] /\ queue'["cmds"] = queue["cmds"]
      BY <1>5, <2>2 DEF Files
    <3> QED BY <1>1, <3>1 DEF LoggerInv, Tally, Written, Waiting, Refused
  <2> QED BY <2>1, <2>2
<1>10. AllPlaced'
  <2> SUFFICES ASSUME NEW q \in Records PROVE Placed(q)'
    BY <1>5 DEF AllPlaced
  <2>1. Placed(q)
    BY DEF LoggerInv, AllPlaced
  <2>2. CASE f # "cmds"
    <3>1. file'["cmds"] = file["cmds"] /\ queue'["cmds"] = queue["cmds"]
      BY <1>5, <2>2 DEF Files
    <3> QED BY <1>1, <2>1, <3>1 DEF Placed
  <2>3. CASE f = "cmds"
    <3>1. CASE \E k \in 1 .. Len(file["cmds"]) : file["cmds"][k] = q
      <4>1. \E k \in 1 .. Len(file'["cmds"]) : file'["cmds"][k] = q
        <5>1. PICK k \in 1 .. Len(file["cmds"]) : file["cmds"][k] = q
          BY <3>1
        <5>2. k \in 1 .. Len(file'["cmds"])
          BY <1>2, <1>4, <1>5, <2>3
        <5>3. file'["cmds"][k] = q
          BY <1>4, <1>5, <2>3, <5>1
        <5> QED BY <5>2, <5>3
      <4> QED BY <4>1 DEF Placed
    <3>2. CASE \E k \in 1 .. Len(queue["cmds"]) : queue["cmds"][k] = q
      <4>1. PICK k \in 1 .. Len(queue["cmds"]) : queue["cmds"][k] = q
        BY <3>2
      <4>2. CASE k = 1
        <5>1. file'["cmds"][Len(file["cmds"]) + 1] = q /\ Len(file["cmds"]) + 1 \in 1 .. Len(file'["cmds"])
          BY <1>2, <1>3, <1>4, <1>5, <2>3, <4>1, <4>2
        <5> QED BY <5>1 DEF Placed
      <4>3. CASE k # 1
        <5>1. queue'["cmds"][k - 1] = q /\ k - 1 \in 1 .. Len(queue'["cmds"])
          <6>1. k - 1 \in 1 .. Len(queue'["cmds"]) /\ (k - 1) + 1 = k
            BY <1>2, <1>3, <1>5, <2>3, <4>1, <4>3
          <6>2. queue'["cmds"][k - 1] = queue["cmds"][(k - 1) + 1]
            BY <1>3, <1>5, <2>3, <6>1
          <6> QED BY <4>1, <6>1, <6>2
        <5> QED BY <5>1 DEF Placed
      <4> QED BY <4>2, <4>3
    <3>3. CASE q \in lost["cmds"]
      BY <1>1, <3>3 DEF Placed
    <3> QED BY <2>1, <3>1, <3>2, <3>3 DEF Placed
  <2> QED BY <2>2, <2>3
<1>11. TradesSeen'
  <2>1. noticed \in Nat /\ r \in Nat /\ noticed <= noticed' /\ r <= noticed' /\ noticed' \in Nat
    BY <1>1, <1>3 DEF Records, LoggerInv, Counts
  <2> SUFFICES ASSUME NEW k \in 1 .. Len(file'["trades"]) PROVE file'["trades"][k] <= noticed'
    BY DEF TradesSeen
  <2>2. CASE f = "trades"
    <3>1. CASE k \in 1 .. Len(file["trades"])
      <4>1. file["trades"][k] \in Nat /\ file["trades"][k] <= noticed
        <5>1. file["trades"][k] \in Records
          BY <1>2, <2>2, <3>1, ElementOfSeq
        <5>2. \A n \in Records : n \in Nat
          BY DEF Records
        <5> QED BY <3>1, <5>1, <5>2 DEF LoggerInv, TradesSeen
      <4>2. file'["trades"][k] = file["trades"][k]
        BY <1>4, <1>5, <2>2, <3>1
      <4>3. file["trades"][k] <= noticed'
        BY <2>1, <4>1
      <4> QED BY <4>2, <4>3
    <3>2. CASE k = Len(file["trades"]) + 1
      BY <1>4, <1>5, <2>1, <2>2, <3>2
    <3> QED BY <1>2, <1>4, <1>5, <2>2, <3>1, <3>2
  <2>3. CASE f # "trades"
    <3>1. file'["trades"] = file["trades"] /\ file["trades"] \in Seq(Records)
      BY <1>2, <1>5, <2>3 DEF Files
    <3>2. file["trades"][k] \in Nat /\ file["trades"][k] <= noticed
      <4>1. k \in 1 .. Len(file["trades"]) /\ file["trades"][k] \in Records
        BY <3>1, ElementOfSeq
      <4>2. \A n \in Records : n \in Nat
        BY DEF Records
      <4> QED BY <4>1, <4>2 DEF LoggerInv, TradesSeen
    <3> QED BY <2>1, <3>1, <3>2
  <2> QED BY <2>2, <2>3
<1>12. OnlyNewerLeft'
  BY <1>1 DEF OnlyNewerLeft, Files
<1> QED BY <1>6, <1>7, <1>8, <1>9, <1>10, <1>11, <1>12 DEF LoggerInv

(* When the command queue is left, whatever is still in it could be missed *)
(* only because it is newer than all that the logger knows of.             *)
LEMMA SeeEmptyStep ==
  ASSUME LoggerInv, NEW f \in Files, SeeEmpty(f)
  PROVE  LoggerInv'
<1>1. /\ logger = f /\ \A k \in DOMAIN queue[f] : queue[f][k] \in MayMiss(f)
      /\ logger' = (IF f = "trades" THEN "cmds" ELSE "check")
      /\ UNCHANGED <<engineVars, queue, caller, stopping, file, any, noticed>>
  BY DEF SeeEmpty, Order
<1>2. OnlyNewerLeft'
  <2> SUFFICES ASSUME f = "cmds", NEW k \in 1 .. Len(queue["cmds"]) PROVE queue["cmds"][k] > noticed
    BY <1>1 DEF OnlyNewerLeft, Files
  <2>1. queue["cmds"] \in Seq(Records)
    BY DEF LoggerInv, Data
  <2>2. queue["cmds"][k] \in MayMiss("cmds")
    BY <1>1, <2>1
  <2>3. MayMiss("cmds") \subseteq (noticed + 1) .. MaxCommands
    BY DEF MayMiss
  <2> QED BY <2>2, <2>3, Parameters DEF LoggerInv, Counts
<1> QED
  BY <1>1, <1>2 DEF engineVars, LoggerInv, LoggerTypes, Counts, Data, Records, Bounded, Tally, Written, Waiting, Refused, AllPlaced, Placed,
                    TradesSeen

LEMMA LoggerStep == LoggerInv /\ [LoggerNext]_logVars => LoggerInv'
<1> SUFFICES ASSUME LoggerInv, [LoggerNext]_logVars PROVE LoggerInv'
  OBVIOUS
<1>1. CASE EngineJoined
  BY <1>1 DEF EngineJoined, loggerVars, LoggerInv, LoggerTypes, Counts, Data, Records, Bounded, Tally, Written, Waiting, Refused, AllPlaced,
              Placed, TradesSeen, OnlyNewerLeft
<1>2. CASE Stop \/ StopReturn
  BY <1>2 DEF Stop, StopReturn, engineVars, loggerVars, LoggerInv, LoggerTypes, Counts, Data, Records, Bounded,
              Tally, Written, Waiting, Refused, AllPlaced, Placed, TradesSeen, OnlyNewerLeft
<1>3. CASE TurnAgain \/ Exit
  BY <1>3 DEF TurnAgain, Exit, Order, engineVars, LoggerInv, LoggerTypes, Counts, Data, Records, Bounded,
              Tally, Written, Waiting, Refused, AllPlaced, Placed, TradesSeen, OnlyNewerLeft
<1>4. CASE UNCHANGED logVars
  BY <1>4 DEF logVars, engineVars, loggerVars, LoggerInv, LoggerTypes, Counts, Data, Records, Bounded, Tally, Written, Waiting, Refused,
              AllPlaced, Placed, TradesSeen, OnlyNewerLeft
<1> QED
  BY <1>1, <1>2, <1>3, <1>4, LogCommandStep, LogTradeStep, WriteRecordStep, SeeEmptyStep
     DEF LoggerNext, LoggerThread, Over

----------------------------------------------------------------------------
LEMMA InvImpliesTypeOK == LoggerInv => LoggerTypeOK
<1> SUFFICES ASSUME LoggerInv PROVE LoggerTypeOK
  OBVIOUS
<1>1. command \in 0 .. MaxCommands /\ made \in 0 .. MaxTrades /\ noticed \in 0 .. command
  BY Parameters DEF LoggerInv, Counts
<1>2. /\ queue \in [Files -> Seq(1 .. command)] /\ file \in [Files -> Seq(1 .. command)]
      /\ \A f \in Files : lost[f] \subseteq 1 .. command
  BY DEF LoggerInv, Data, Records
<1>3. Len(Accepted("cmds")) + Cardinality(lost["cmds"]) = command
  <2>1. file["cmds"] \in Seq(Records) /\ queue["cmds"] \in Seq(Records)
    BY DEF LoggerInv, Data, Files
  <2>2. Len(Accepted("cmds")) = Len(file["cmds"]) + Len(queue["cmds"])
    BY <2>1, ConcatProperties DEF Accepted
  <2> QED BY <2>2 DEF LoggerInv, Tally, Written, Waiting, Refused
<1> QED BY <1>1, <1>2, <1>3 DEF LoggerInv, LoggerTypes, Bounded, LoggerTypeOK

(* A replay of the command file can account for every trade written: for   *)
(* every capacity of the queues, and however late the logger sees what the *)
(* engine has pushed.                                                      *)
THEOREM TradesAccountedFor == LoggerSpec => []TradesHaveCommands
<1>1. LoggerInv => TradesHaveCommands
  <2> SUFFICES ASSUME LoggerInv PROVE TradesHaveCommands
    OBVIOUS
  <2>1. ASSUME logger \in {"check", "exited"}, NEW k \in DOMAIN file["trades"]
        PROVE  Contains(file["cmds"], file["trades"][k]) \/ file["trades"][k] \in lost["cmds"]
    <3>1. file["trades"] \in Seq(Records) /\ queue["cmds"] \in Seq(Records)
      BY DEF LoggerInv, Data, Files
    <3>2. k \in 1 .. Len(file["trades"]) /\ file["trades"][k] \in Records
      BY <2>1, <3>1
    <3>3. file["trades"][k] \in Nat /\ file["trades"][k] <= noticed /\ noticed \in Nat
      BY <3>2 DEF LoggerInv, TradesSeen, Records, Counts
    <3>4. \A i \in 1 .. Len(queue["cmds"]) : queue["cmds"][i] # file["trades"][k]
      BY <2>1, <3>3 DEF LoggerInv, OnlyNewerLeft
    <3>5. Placed(file["trades"][k])
      BY <3>2 DEF LoggerInv, AllPlaced
    <3> QED BY <3>4, <3>5 DEF Placed, Contains
  <2> QED BY <2>1, InvImpliesTypeOK DEF TradesHaveCommands
<1> QED BY <1>1, InitLoggerInv, LoggerStep, PTL DEF LoggerSpec
=============================================================================
