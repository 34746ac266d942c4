----------------------- MODULE ThreadedStrategy_proofs ----------------------
(***************************************************************************)
(* Proofs about ThreadedStrategy, for every size of the queues, every      *)
(* length of the session and every configuration: a worker that is parked  *)
(* while an event is in the queue is about to be woken; the probe decides  *)
(* as the single-threaded reference does; nothing is left behind.          *)
(*                                                                         *)
(* For FutexQueue both threads store, empty their buffer and then load.    *)
(* The reader comes out of its fence with every event visible, so a worker *)
(* that rechecks after its own fence and sees nothing has announced itself *)
(* to a reader that has not looked yet (Announced); and while it is parked *)
(* only a reader that goes on to wake it takes the announcement back       *)
(* (StillAnnounced).  For MutexCvQueue the test and the park are one step. *)
(*                                                                         *)
(* For the other two, events are in three places: with the worker, in the  *)
(* queue and with the reader.  Flow walks along them with two numbers, the *)
(* trades and the newest order acknowledged so far: each event leads from  *)
(* a pair of them to the next, the first pair is where the probe stands,   *)
(* the last where the reader does (InFlight).  RunInv adds what has been   *)
(* decided and summarised so far, and in which order threads leave.        *)
(***************************************************************************)
EXTENDS ThreadedStrategy, SequenceTheorems, FiniteSetTheorems, TLAPS

Stores == {"item", "done", "clear", "slot", "park"}

IsSequence(s) == \E S : s \in Seq(S)

Holds(buffer, store) == \E i \in 1 .. Len(buffer) : buffer[i] = store

Waking  == {"fence", "check", "exchange"}
Leaving == {"wake closed", "join worker", "join keeper", "returned"}

Shapes ==
  /\ IsSequence(items)
  /\ readerStores \in Seq(Stores) /\ workerStores \in Seq(Stores)
  /\ sleeping \in BOOLEAN
  /\ mode.queue \in {"spsc", "mutex_cv", "futex"}

\* which places a thread can be at with which queue
Places ==
  /\ reader \in Waking => Futex
  /\ worker \in {"announce", "fence", "recheck", "wait", "last"} => Futex
  /\ worker = "parked" => Futex \/ Locked

\* an event is invisible only until the reader's fence
PushedVisible == (Futex \/ Locked) /\ Holds(readerStores, "item") => reader = "fence"

\* the reader withdraws the announcement unasked only when it has left
ClearsLast == Holds(readerStores, "clear") => reader \in Leaving

\* after its fence the worker has no store on the way
Settled == worker \in {"recheck", "wait"} \/ (Futex /\ worker = "parked") => workerStores = <<>>

Announced == worker = "wait" /\ items # <<>> /\ sleeping => reader \in Waking

StillAnnounced == Futex /\ worker = "parked" => sleeping \/ reader = "wake" \/ reader \in Leaving

WakeInv ==
  /\ Shapes /\ Places /\ PushedVisible /\ ClearsLast /\ Settled /\ Announced /\ StillAnnounced
  /\ NoLostWakeup

wakeVars == <<mode, items, reader, readerStores, worker, workerStores, sleeping>>

----------------------------------------------------------------------------
LEMMA AppendHolds ==
  ASSUME NEW b \in Seq(Stores), NEW x \in Stores
  PROVE  /\ Append(b, x) \in Seq(Stores)
         /\ \A s : Holds(Append(b, x), s) => Holds(b, s) \/ x = s
<1>1. /\ Append(b, x) \in Seq(Stores) /\ Len(Append(b, x)) = Len(b) + 1 /\ Len(b) \in Nat
      /\ \A i \in 1 .. Len(b) : Append(b, x)[i] = b[i]
      /\ Append(b, x)[Len(b) + 1] = x
  OBVIOUS
<1>2. ASSUME NEW s, NEW i \in 1 .. Len(Append(b, x)), Append(b, x)[i] = s
      PROVE  Holds(b, s) \/ x = s
  <2>1. i \in 1 .. Len(b) \/ i = Len(b) + 1
    BY <1>1
  <2> QED BY <1>1, <1>2, <2>1 DEF Holds
<1> QED BY <1>1, <1>2 DEF Holds

LEMMA TailHolds ==
  ASSUME NEW b \in Seq(Stores), b # <<>>
  PROVE  /\ Tail(b) \in Seq(Stores) /\ Head(b) \in Stores /\ Holds(b, Head(b))
         /\ \A s : Holds(Tail(b), s) => Holds(b, s)
<1>1. /\ Tail(b) \in Seq(Stores) /\ Head(b) \in Stores /\ Head(b) = b[1]
      /\ Len(b) \in Nat /\ Len(b) >= 1 /\ Len(Tail(b)) = Len(b) - 1
      /\ \A i \in 1 .. Len(Tail(b)) : Tail(b)[i] = b[i + 1]
  OBVIOUS
<1>2. ASSUME NEW s, NEW i \in 1 .. Len(Tail(b)), Tail(b)[i] = s
      PROVE  Holds(b, s)
  <2>1. i + 1 \in 1 .. Len(b)
    BY <1>1
  <2> QED BY <1>1, <1>2, <2>1 DEF Holds
<1> QED BY <1>1, <1>2 DEF Holds

LEMMA EmptyHolds == \A s : ~Holds(<<>>, s)
  BY DEF Holds

LEMMA CountType ==
  ASSUME NEW b \in Seq(Stores), NEW s
  PROVE  Count(b, s) \in Nat
<1>1. IsFiniteSet(DOMAIN b)
  <2>1. DOMAIN b = 1 .. Len(b) /\ Len(b) \in Nat
    OBVIOUS
  <2> QED BY <2>1, FS_Interval
<1>2. IsFiniteSet({i \in DOMAIN b : b[i] = s})
  BY <1>1, FS_Subset
<1> QED BY <1>2, FS_CardinalityType DEF Count

\* What try_pop does not see at once is in the reader's buffer.
LEMMA NothingThere ==
  ASSUME Shapes, ~Holds(readerStores, "item"), Visible = 0
  PROVE  items = <<>>
<1>1. {i \in DOMAIN readerStores : readerStores[i] = "item"} = {}
  BY DEF Shapes, Holds
<1>2. Count(readerStores, "item") = 0
  BY <1>1, FS_EmptySet DEF Count
<1>3. PICK S : items \in Seq(S)
  BY DEF Shapes, IsSequence
<1>4. Len(items) \in Nat /\ (items # <<>> => Len(items) # 0)
  BY <1>3, EmptySeq, LenProperties
<1> QED BY <1>2, <1>4 DEF Visible

\* Taking an event leaves a worker that handles it.
LEMMA Taken ==
  ASSUME Shapes, NEW stored \in Seq(Stores), Take(stored)
  PROVE  worker' = "handle" /\ IsSequence(items') /\ workerStores' \in Seq(Stores)
<1>1. worker' = "handle"
  BY DEF Take
<1>2. workerStores' \in Seq(Stores)
  BY ConcatProperties DEF Take, Shapes
<1>3. PICK S : items \in Seq(S)
  BY DEF Shapes, IsSequence
<1>4. CASE items # <<>>
  <2>1. items' \in Seq(S)
    BY <1>3, <1>4, HeadTailProperties DEF Take
  <2> QED BY <1>1, <1>2, <2>1 DEF IsSequence
<1>5. CASE items = <<>>
  <2>1. Count(readerStores, "item") \in Nat
    BY CountType DEF Shapes
  <2>2. Len(items) = 0
    BY <1>5
  <2> QED BY <2>1, <2>2 DEF Take, Visible
<1> QED BY <1>4, <1>5

----------------------------------------------------------------------------
LEMMA InitWakeInv == Init => WakeInv
<1> SUFFICES ASSUME Init PROVE WakeInv
  OBVIOUS
<1>1. /\ items = <<>> /\ readerStores = <<>> /\ workerStores = <<>> /\ reader = "poll"
      /\ worker \in {"none", "pop"} /\ sleeping = FALSE /\ mode \in Modes
  BY DEF Init
<1>2. Shapes
  <2>1. mode.queue \in {"spsc", "mutex_cv", "futex"}
    BY <1>1, StrategyAssumption
  <2>2. IsSequence(items)
    BY <1>1 DEF IsSequence
  <2>3. readerStores \in Seq(Stores) /\ workerStores \in Seq(Stores)
    BY <1>1, EmptySeq
  <2>4. sleeping \in BOOLEAN
    BY <1>1
  <2> QED BY <2>1, <2>2, <2>3, <2>4 DEF Shapes
<1> QED
  BY <1>1, <1>2, EmptyHolds
     DEF WakeInv, Places, PushedVisible, ClearsLast, Settled, Announced, StillAnnounced,
         NoLostWakeup, Waking

LEMMA NothingMoves == WakeInv /\ UNCHANGED wakeVars => WakeInv'
  BY DEF wakeVars, WakeInv, Shapes, Places, PushedVisible, ClearsLast, Settled, Announced,
         StillAnnounced, NoLostWakeup, Futex, Locked, Visible, Waking

\* A worker that neither waits nor is about to: nothing to show of it.
LEMMA WorkerMoves ==
  ASSUME WakeInv, UNCHANGED <<mode, reader, readerStores, sleeping>>,
         IsSequence(items'), workerStores' \in Seq(Stores),
         worker' \notin {"recheck", "wait", "parked"},
         worker' \in {"announce", "fence", "last"} => Futex
  PROVE  WakeInv'
  BY DEF WakeInv, Shapes, Places, PushedVisible, ClearsLast, Settled, Announced,
         StillAnnounced, NoLostWakeup, Futex, Locked, Waking

\* A reader that is not in the push of a sleeping worker's event.
LEMMA ReaderMoves ==
  ASSUME WakeInv, UNCHANGED <<mode, items, worker, workerStores, sleeping>>,
         reader \notin Waking, reader # "wake", reader' \notin Waking,
         reader \in Leaving => reader' \in Leaving,
         readerStores' \in Seq(Stores),
         Holds(readerStores', "item") => Holds(readerStores, "item"),
         Holds(readerStores', "clear") => Holds(readerStores, "clear") \/ reader' \in Leaving
  PROVE  WakeInv'
<1>1. reader # "fence" /\ reader \notin {"fence", "check", "exchange", "wake"}
  BY DEF Waking
<1>2. Shapes' /\ Places'
  BY DEF WakeInv, Shapes, Places, Futex, Locked, IsSequence
<1>3. PushedVisible'
  BY <1>1 DEF WakeInv, PushedVisible, Futex, Locked
<1>4. ClearsLast'
  BY DEF WakeInv, ClearsLast
<1>5. Settled' /\ Announced' /\ StillAnnounced' /\ NoLostWakeup'
  BY <1>1 DEF WakeInv, Settled, Announced, StillAnnounced, NoLostWakeup, Futex
<1> QED BY <1>2, <1>3, <1>4, <1>5 DEF WakeInv

----------------------------------------------------------------------------
(* The reader's push: store, fence, load, exchange, wake.                  *)
LEMMA PushStep == WakeInv /\ Push => WakeInv'
<1> SUFFICES ASSUME WakeInv, Push PROVE WakeInv'
  OBVIOUS
<1>1. /\ reader = "push" /\ items' = Append(items, msg)
      /\ readerStores' = IF Locked THEN readerStores ELSE Append(readerStores, "item")
      /\ reader' = CASE Futex -> "fence" [] Locked -> "wake" [] OTHER -> "poll"
      /\ UNCHANGED <<mode, worker, workerStores, sleeping>>
  BY DEF Push, flags, workerAt
<1>2. IsSequence(items')
  <2>1. PICK S : items \in Seq(S)
    BY DEF WakeInv, Shapes, IsSequence
  <2>2. items \in Seq(S \cup {msg})
    BY <2>1, SeqMonotonic
  <2>3. items' \in Seq(S \cup {msg})
    BY <1>1, <2>2
  <2> QED BY <2>3 DEF IsSequence
<1>3. /\ readerStores' \in Seq(Stores)
      /\ Holds(readerStores', "clear") => Holds(readerStores, "clear")
      /\ Locked => readerStores' = readerStores
  BY <1>1, AppendHolds DEF WakeInv, Shapes, Stores
<1>4. ~(Futex /\ Locked) /\ (Futex => reader' = "fence") /\ (Locked => reader' = "wake")
      /\ (~Futex => reader' \notin Waking)
  BY <1>1 DEF Futex, Locked, Waking
<1>5. Shapes' /\ Places'
  BY <1>1, <1>2, <1>3, <1>4 DEF WakeInv, Shapes, Places, Futex, Locked
<1>6. PushedVisible' /\ ClearsLast'
  BY <1>1, <1>3, <1>4 DEF WakeInv, PushedVisible, ClearsLast, Futex, Locked, Leaving
<1>7. worker \in {"wait", "parked"} => Futex \/ Locked
  BY DEF WakeInv, Places
<1>8. Settled' /\ Announced' /\ StillAnnounced' /\ NoLostWakeup'
  <2>1. worker = "wait" => Futex
    BY DEF WakeInv, Places
  <2>2. Settled' /\ StillAnnounced'
    BY <1>1 DEF WakeInv, Settled, StillAnnounced, Futex, Leaving
  <2>3. Announced'
    BY <1>1, <1>4, <2>1 DEF Announced, Waking
  <2>4. NoLostWakeup'
    BY <1>1, <1>4, <1>7 DEF NoLostWakeup
  <2> QED BY <2>2, <2>3, <2>4
<1> QED BY <1>5, <1>6, <1>8 DEF WakeInv

LEMMA PushFenceStep == WakeInv /\ PushFence => WakeInv'
<1> SUFFICES ASSUME WakeInv, PushFence PROVE WakeInv'
  OBVIOUS
<1>1. /\ reader = "fence" /\ reader' = "check" /\ readerStores = <<>>
      /\ UNCHANGED <<mode, items, readerStores, worker, workerStores, sleeping>>
  BY DEF PushFence, Fenced, flags, workerAt, stores
<1>2. Shapes' /\ Places'
  BY <1>1 DEF WakeInv, Shapes, Places, Futex, Locked, Waking, IsSequence
<1>3. PushedVisible' /\ ClearsLast'
  BY <1>1, EmptyHolds DEF PushedVisible, ClearsLast
<1>4. Settled' /\ Announced' /\ StillAnnounced' /\ NoLostWakeup'
  BY <1>1 DEF WakeInv, Settled, Announced, StillAnnounced, NoLostWakeup, Futex, Waking, Leaving
<1> QED BY <1>2, <1>3, <1>4 DEF WakeInv

(* A worker parked after this push's fence is still announced.             *)
LEMMA CheckSleepingStep == WakeInv /\ CheckSleeping => WakeInv'
<1> SUFFICES ASSUME WakeInv, CheckSleeping PROVE WakeInv'
  OBVIOUS
<1>1. /\ reader = "check" /\ reader' = IF sleeping THEN "exchange" ELSE "poll"
      /\ UNCHANGED <<mode, items, readerStores, worker, workerStores, sleeping>>
  BY DEF CheckSleeping, flags, workerAt, stores
<1>2. Futex
  BY <1>1 DEF WakeInv, Places, Waking
<1>3. Shapes' /\ Places'
  BY <1>1, <1>2 DEF WakeInv, Shapes, Places, Futex, Locked, IsSequence
<1>4. PushedVisible' /\ ClearsLast'
  BY <1>1 DEF WakeInv, PushedVisible, ClearsLast, Futex, Locked, Leaving
<1>5. worker = "parked" => sleeping
  BY <1>1, <1>2 DEF WakeInv, StillAnnounced, Leaving
<1>6. Settled' /\ Announced' /\ StillAnnounced' /\ NoLostWakeup'
  BY <1>1, <1>5 DEF WakeInv, Settled, Announced, StillAnnounced, NoLostWakeup, Futex, Waking, Leaving
<1> QED BY <1>3, <1>4, <1>6 DEF WakeInv

LEMMA ExchangeSleepingStep == WakeInv /\ ExchangeSleeping => WakeInv'
<1> SUFFICES ASSUME WakeInv, ExchangeSleeping PROVE WakeInv'
  OBVIOUS
<1>1. /\ reader = "exchange" /\ reader' = IF sleeping THEN "wake" ELSE "poll"
      /\ sleeping' = FALSE
      /\ UNCHANGED <<mode, items, readerStores, worker, workerStores>>
  BY DEF ExchangeSleeping, workerAt, stores
<1>2. Futex
  BY <1>1 DEF WakeInv, Places, Waking
<1>3. Shapes' /\ Places'
  BY <1>1, <1>2 DEF WakeInv, Shapes, Places, Futex, Locked, Waking, IsSequence
<1>4. PushedVisible' /\ ClearsLast'
  BY <1>1 DEF WakeInv, PushedVisible, ClearsLast, Futex, Locked, Leaving
<1>5. worker = "parked" => sleeping
  BY <1>1, <1>2 DEF WakeInv, StillAnnounced, Leaving
<1>6. Settled' /\ Announced' /\ StillAnnounced' /\ NoLostWakeup'
  BY <1>1, <1>5 DEF WakeInv, Settled, Announced, StillAnnounced, NoLostWakeup, Futex
<1> QED BY <1>3, <1>4, <1>6 DEF WakeInv

LEMMA WakeStep == WakeInv /\ Wake => WakeInv'
<1> SUFFICES ASSUME WakeInv, Wake PROVE WakeInv'
  OBVIOUS
<1>1. /\ reader \in {"wake", "wake closed"}
      /\ worker' = IF worker = "parked" THEN "woken" ELSE worker
      /\ reader' = IF reader = "wake" THEN "poll" ELSE "join worker"
      /\ UNCHANGED <<mode, items, readerStores, workerStores, sleeping>>
  BY DEF Wake, flags, stores
<1>2. Shapes' /\ Places'
  BY <1>1 DEF WakeInv, Shapes, Places, Futex, Locked, Waking, IsSequence
<1>3. PushedVisible' /\ ClearsLast'
  BY <1>1 DEF WakeInv, PushedVisible, ClearsLast, Futex, Locked, Leaving
<1>4. worker' # "parked" /\ (worker' \in {"recheck", "wait"} => worker' = worker)
  BY <1>1
<1>5. Settled' /\ Announced' /\ StillAnnounced' /\ NoLostWakeup'
  BY <1>1, <1>4 DEF WakeInv, Settled, Announced, StillAnnounced, NoLostWakeup, Waking
<1> QED BY <1>2, <1>3, <1>5 DEF WakeInv

----------------------------------------------------------------------------
(* A store of the reader becomes visible: only one that has left withdraws *)
(* the announcement.                                                       *)
LEMMA FlushReaderStep == WakeInv /\ FlushReader => WakeInv'
<1> SUFFICES ASSUME WakeInv, FlushReader PROVE WakeInv'
  OBVIOUS
<1>1. /\ readerStores # <<>> /\ readerStores' = Tail(readerStores)
      /\ sleeping' = (sleeping /\ Head(readerStores) # "clear")
      /\ UNCHANGED <<mode, items, reader, worker, workerStores>>
  BY DEF FlushReader, readerAt, workerAt
<1>2. /\ readerStores' \in Seq(Stores) /\ Holds(readerStores, Head(readerStores))
      /\ \A x : Holds(readerStores', x) => Holds(readerStores, x)
  BY <1>1, TailHolds DEF WakeInv, Shapes
<1>3. Shapes' /\ Places'
  BY <1>1, <1>2 DEF WakeInv, Shapes, Places, Futex, Locked, IsSequence
<1>4. PushedVisible' /\ ClearsLast'
  BY <1>1, <1>2 DEF WakeInv, PushedVisible, ClearsLast, Futex, Locked
<1>5. StillAnnounced'
  <2>1. CASE Head(readerStores) = "clear"
    <3>1. reader \in Leaving
      BY <1>2, <2>1 DEF WakeInv, ClearsLast
    <3> QED BY <1>1, <3>1 DEF StillAnnounced
  <2>2. CASE Head(readerStores) # "clear"
    BY <1>1, <2>2 DEF WakeInv, StillAnnounced, Futex
  <2> QED BY <2>1, <2>2
<1>6. Settled' /\ Announced' /\ NoLostWakeup'
  BY <1>1 DEF WakeInv, Settled, Announced, NoLostWakeup, Futex
<1> QED BY <1>3, <1>4, <1>5, <1>6 DEF WakeInv

(* A store of the worker becomes visible: it does not wait meanwhile.      *)
LEMMA FlushWorkerStep == WakeInv /\ FlushWorker => WakeInv'
<1> SUFFICES ASSUME WakeInv, FlushWorker PROVE WakeInv'
  OBVIOUS
<1>1. /\ workerStores # <<>> /\ workerStores' = Tail(workerStores)
      /\ sleeping' = CASE Head(workerStores) = "park" -> TRUE
                       [] Head(workerStores) = "clear" -> FALSE
                       [] OTHER -> sleeping
      /\ UNCHANGED <<mode, items, reader, readerStores, worker>>
  BY DEF FlushWorker, readerAt, workerAt
<1>2. workerStores' \in Seq(Stores) /\ sleeping' \in BOOLEAN
  BY <1>1, TailHolds DEF WakeInv, Shapes
<1>3. worker \notin {"recheck", "wait"} /\ ~(Futex /\ worker = "parked")
  BY <1>1 DEF WakeInv, Settled
<1>4. Shapes' /\ Places'
  BY <1>1, <1>2 DEF WakeInv, Shapes, Places, Futex, Locked, IsSequence
<1>5. PushedVisible' /\ ClearsLast' /\ NoLostWakeup'
  BY <1>1 DEF WakeInv, PushedVisible, ClearsLast, NoLostWakeup, Futex, Locked
<1>6. Settled' /\ Announced' /\ StillAnnounced'
  BY <1>1, <1>3 DEF Settled, Announced, StillAnnounced, Futex
<1> QED BY <1>4, <1>5, <1>6 DEF WakeInv

----------------------------------------------------------------------------
(* The worker's way into a park.                                           *)

\* Under the lock it parks on an empty queue only.
LEMMA LockedPark ==
  ASSUME WakeInv, Locked, Visible = 0, worker' = "parked",
         UNCHANGED <<mode, items, reader, readerStores, workerStores, sleeping>>
  PROVE  WakeInv'
<1>1. reader # "fence" /\ ~Futex
  BY DEF WakeInv, Places, Waking, Futex, Locked
<1>2. items = <<>>
  BY <1>1, NothingThere DEF WakeInv, PushedVisible
<1> QED
  BY <1>1, <1>2
     DEF WakeInv, Shapes, Places, PushedVisible, ClearsLast, Settled, Announced, StillAnnounced,
         NoLostWakeup, Futex, Locked, IsSequence

LEMMA WaitFenceStep == WakeInv /\ WaitFence => WakeInv'
<1> SUFFICES ASSUME WakeInv, WaitFence PROVE WakeInv'
  OBVIOUS
<1>1. /\ worker = "fence" /\ worker' = "recheck" /\ workerStores = <<>>
      /\ UNCHANGED <<mode, items, reader, readerStores, workerStores, sleeping>>
  BY DEF WaitFence, Fenced, readerAt, stores, flags
<1> QED
  BY <1>1
     DEF WakeInv, Shapes, Places, PushedVisible, ClearsLast, Settled, Announced, StillAnnounced,
         NoLostWakeup, Futex, Locked, IsSequence

\* Nothing visible: an event that is there is one whose push has its fence to come.
LEMMA RecheckStep == WakeInv /\ Recheck => WakeInv'
<1> SUFFICES ASSUME WakeInv, Recheck PROVE WakeInv'
  OBVIOUS
<1>1. worker = "recheck" /\ Futex /\ workerStores = <<>>
      /\ UNCHANGED <<mode, reader, readerStores, sleeping>>
  BY DEF Recheck, readerAt, flags, WakeInv, Settled, Places
<1>2. CASE Take(<<"slot", "clear">>)
  <2>1. <<"slot", "clear">> \in Seq(Stores)
    BY DEF Stores
  <2> QED BY <1>1, <1>2, <2>1, Taken, WorkerMoves DEF WakeInv
<1>3. CASE Visible = 0 /\ worker' = "wait" /\ UNCHANGED <<taken, items, workerStores>>
  <2>1. items = <<>> \/ reader = "fence"
    BY <1>1, <1>3, NothingThere DEF WakeInv, PushedVisible
  <2>2. Shapes' /\ Places' /\ PushedVisible' /\ ClearsLast'
    BY <1>1, <1>3 DEF WakeInv, Shapes, Places, PushedVisible, ClearsLast, Futex, Locked, IsSequence
  <2>3. Settled' /\ Announced' /\ StillAnnounced' /\ NoLostWakeup'
    BY <1>1, <1>3, <2>1 DEF Settled, Announced, StillAnnounced, NoLostWakeup, Waking
  <2> QED BY <2>2, <2>3 DEF WakeInv
<1> QED BY <1>2, <1>3 DEF Recheck

LEMMA WaitStep == WakeInv /\ Wait => WakeInv'
<1> SUFFICES ASSUME WakeInv, Wait PROVE WakeInv'
  OBVIOUS
<1>1. /\ worker = "wait" /\ workerStores = <<>> /\ Futex
      /\ worker' = IF sleeping THEN "parked" ELSE "woken"
      /\ UNCHANGED <<mode, items, reader, readerStores, workerStores, sleeping>>
  BY DEF Wait, readerAt, stores, flags, WakeInv, Places
<1>2. Shapes' /\ Places' /\ PushedVisible' /\ ClearsLast'
  BY <1>1 DEF WakeInv, Shapes, Places, PushedVisible, ClearsLast, Futex, Locked, IsSequence
<1>3. Settled' /\ Announced' /\ StillAnnounced' /\ NoLostWakeup'
  BY <1>1 DEF WakeInv, Settled, Announced, StillAnnounced, NoLostWakeup, Waking
<1> QED BY <1>2, <1>3 DEF WakeInv

\* The other steps of wait_pop and of worker_loop.
LEMMA TakeStep ==
  ASSUME WakeInv, NEW stored \in Seq(Stores), Take(stored),
         UNCHANGED <<mode, reader, readerStores, sleeping>>
  PROVE  WakeInv'
  BY Taken, WorkerMoves DEF WakeInv

LEMMA WorkerStep == WakeInv /\ Worker => WakeInv'
<1> SUFFICES ASSUME WakeInv, Worker PROVE WakeInv'
  OBVIOUS
<1>0. /\ IsSequence(items) /\ workerStores \in Seq(Stores)
      /\ <<"slot">> \in Seq(Stores) /\ <<>> \in Seq(Stores)
  BY DEF WakeInv, Shapes, Stores
<1>1. CASE Pop
  BY <1>0, <1>1, TakeStep DEF Pop, readerAt, flags
<1>2. CASE PopEmpty
  <2>1. /\ Visible = 0 /\ UNCHANGED <<mode, items, reader, readerStores, workerStores, sleeping>>
        /\ worker' = CASE Futex -> "announce" [] Locked /\ ~closed -> "parked" [] OTHER -> "check done"
    BY <1>2 DEF PopEmpty, readerAt, stores, flags
  <2>2. CASE worker' = "parked"
    BY <2>1, <2>2, LockedPark
  <2>3. CASE worker' # "parked"
    BY <1>0, <2>1, <2>3, WorkerMoves DEF IsSequence
  <2> QED BY <2>2, <2>3
<1>3. CASE Announce
  <2>1. workerStores' \in Seq(Stores)
    BY <1>0, <1>3, AppendHolds DEF Announce, Stores
  <2>2. Futex
    BY <1>3 DEF Announce, WakeInv, Places
  <2> QED BY <1>0, <1>3, <2>1, <2>2, WorkerMoves DEF Announce, readerAt, flags, IsSequence
<1>4. CASE WaitFence BY <1>4, WaitFenceStep
<1>5. CASE Recheck BY <1>5, RecheckStep
<1>6. CASE Wait BY <1>6, WaitStep
<1>7. CASE ClearSleeping
  <2>1. workerStores' \in Seq(Stores)
    BY <1>0, <1>7, AppendHolds DEF ClearSleeping, Stores
  <2> QED BY <1>0, <1>7, <2>1, WorkerMoves DEF ClearSleeping, readerAt, flags, IsSequence
<1>8. CASE LastTry
  <2>1. UNCHANGED <<mode, reader, readerStores, sleeping>>
    BY <1>8 DEF LastTry, readerAt, flags
  <2>2. CASE Take(<<"slot">>)
    BY <1>0, <2>1, <2>2, TakeStep
  <2>3. CASE worker' = "check done" /\ UNCHANGED <<items, workerStores>>
    BY <1>0, <2>1, <2>3, WorkerMoves DEF IsSequence
  <2> QED BY <1>8, <2>2, <2>3 DEF LastTry
<1>9. CASE Rewait
  <2>1. UNCHANGED <<mode, reader, readerStores, sleeping>> /\ Locked
    BY <1>9 DEF Rewait, readerAt, flags
  <2>2. CASE Take(<<>>)
    BY <1>0, <2>1, <2>2, TakeStep
  <2>3. CASE /\ Visible = 0 /\ UNCHANGED <<items, workerStores>>
             /\ worker' = IF closed \/ timedOut THEN "check done" ELSE "parked"
    <3>1. CASE worker' = "parked"
      BY <2>1, <2>3, <3>1, LockedPark
    <3>2. CASE worker' = "check done"
      BY <1>0, <2>1, <2>3, <3>2, WorkerMoves DEF IsSequence
    <3> QED BY <2>3, <3>1, <3>2
  <2> QED BY <1>9, <2>2, <2>3 DEF Rewait
<1>10. CASE CheckDone \/ Drained
  BY <1>0, <1>10, WorkerMoves DEF CheckDone, Drained, readerAt, stores, flags, IsSequence
<1>11. CASE HandleMismatch \/ HandleRefused \/ HandleTrade \/ Record \/ HandleAck
  BY <1>0, <1>11, WorkerMoves
     DEF HandleMismatch, HandleRefused, HandleTrade, Record, HandleAck, Resumed, readerAt, stores,
         flags, IsSequence
<1> QED
  BY <1>1, <1>2, <1>3, <1>4, <1>5, <1>6, <1>7, <1>8, <1>9, <1>10, <1>11 DEF Worker

----------------------------------------------------------------------------
LEMMA ReaderStep == WakeInv /\ Reader => WakeInv'
<1> SUFFICES ASSUME WakeInv, Reader PROVE WakeInv'
  OBVIOUS
<1>0. IsSequence(items) /\ workerStores \in Seq(Stores) /\ readerStores \in Seq(Stores)
  BY DEF WakeInv, Shapes
<1>1. CASE PollAck \/ PollTrade
  <2>1. /\ UNCHANGED <<mode, items, readerStores, workerStores, sleeping>> /\ reader = "poll"
        /\ \/ worker' = "handle" /\ reader' = reader
           \/ reader' = "push" /\ worker' = worker
    BY <1>1 DEF PollAck, PollTrade, MayPoll, Give, stores, flags, readerAt, workerAt
  <2>2. CASE worker' = "handle" /\ reader' = reader
    BY <1>0, <2>1, <2>2, WorkerMoves DEF IsSequence
  <2>3. CASE reader' = "push" /\ worker' = worker
    BY <1>0, <2>1, <2>3, ReaderMoves DEF Waking, Leaving
  <2> QED BY <2>1, <2>2, <2>3
<1>2. CASE Push BY <1>2, PushStep
<1>3. CASE PushFence BY <1>3, PushFenceStep
<1>4. CASE CheckSleeping BY <1>4, CheckSleepingStep
<1>5. CASE ExchangeSleeping BY <1>5, ExchangeSleepingStep
<1>6. CASE Wake BY <1>6, WakeStep
<1>7. CASE Leave
  <2>1. /\ UNCHANGED <<mode, items, worker, workerStores, sleeping>> /\ reader = "poll"
        /\ reader' \in {"join worker", "close"}
        /\ readerStores' = readerStores \/ readerStores' = Append(readerStores, "done")
    BY <1>7 DEF Leave, MayPoll, flags, workerAt
  <2>2. /\ readerStores' \in Seq(Stores)
        /\ Holds(readerStores', "item") => Holds(readerStores, "item")
        /\ Holds(readerStores', "clear") => Holds(readerStores, "clear")
    BY <1>0, <2>1, AppendHolds DEF Stores
  <2> QED BY <2>1, <2>2, ReaderMoves DEF Waking, Leaving
<1>8. CASE Close
  <2>1. /\ UNCHANGED <<mode, items, worker, workerStores, sleeping>> /\ reader = "close"
        /\ reader' \in {"join worker", "wake closed"}
        /\ readerStores' = readerStores \/ readerStores' = Append(readerStores, "clear")
    BY <1>8 DEF Close, workerAt
  <2>2. /\ readerStores' \in Seq(Stores)
        /\ Holds(readerStores', "item") => Holds(readerStores, "item")
    BY <1>0, <2>1, AppendHolds DEF Stores
  <2> QED BY <2>1, <2>2, ReaderMoves DEF Waking, Leaving
<1>9. CASE JoinWorker \/ JoinKeeper
  <2>1. /\ UNCHANGED <<mode, items, readerStores, worker, workerStores, sleeping>>
        /\ reader \in {"join worker", "join keeper"} /\ reader' \in {"join keeper", "returned"}
    BY <1>9 DEF JoinWorker, JoinKeeper, stores, flags, workerAt
  <2> QED BY <1>0, <2>1, ReaderMoves DEF Waking, Leaving
<1> QED
  BY <1>1, <1>2, <1>3, <1>4, <1>5, <1>6, <1>7, <1>8, <1>9 DEF Reader

LEMMA WakeStepAll == WakeInv /\ [Next]_vars => WakeInv'
<1> SUFFICES ASSUME WakeInv, [Next]_vars PROVE WakeInv'
  OBVIOUS
<1>1. CASE Market
  BY <1>1, NothingMoves
     DEF Market, PublishTrade, EngineAck, EndSession, readerAt, stores, flags, workerAt, wakeVars
<1>2. CASE Keeper
  BY <1>2, NothingMoves
     DEF Keeper, Summarize, NothingToDo, CheckStop, KeeperGone, readerAt, stores, flags, workerAt,
         wakeVars
<1>3. CASE Timeout
  <2>1. IsSequence(items') /\ workerStores' \in Seq(Stores)
    BY <1>3 DEF Timeout, stores, WakeInv, Shapes, IsSequence
  <2> QED BY <1>3, <2>1, WorkerMoves DEF Timeout, readerAt, stores, flags
<1>4. CASE UNCHANGED vars
  BY <1>4, NothingMoves DEF vars, readerAt, stores, flags, workerAt, wakeVars
<1> QED
  BY <1>1, <1>2, <1>3, <1>4, FlushReaderStep, FlushWorkerStep, ReaderStep, WorkerStep DEF Next, Over

(* No lost wake-up, for every queue, topology, capacity and length of the  *)
(* session: FutexQueue's two fences and MutexCvQueue's lock are enough.    *)
THEOREM NeverSleepsOnAnEvent == Spec => []NoLostWakeup
<1>1. WakeInv => NoLostWakeup
  BY DEF WakeInv
<1> QED BY <1>1, InitWakeInv, WakeStepAll, PTL DEF Spec

----------------------------------------------------------------------------
(* Types, and the numbers of trades.                                       *)

Pairs == Nat \X Nat     \* features: StageA of two numbers

ReaderStore == {"item", "done", "clear"}
WorkerStore == {"slot", "park", "clear"}

ReaderPlaces == {"poll", "push", "fence", "check", "exchange", "wake", "close",
                 "wake closed", "join worker", "join keeper", "returned"}

WorkerPlaces == {"none", "pop", "announce", "fence", "recheck", "wait", "parked", "woken",
                 "last", "check done", "drain", "handle", "record", "gone"}

Counters ==
  /\ mode \in Modes
  /\ published \in 0 .. Steps /\ cursor \in 0 .. published /\ missed \in 0 .. cursor
  /\ k = IF Split THEN cursor - missed ELSE 0

Contents ==
  /\ commands \in Seq(Nat) /\ acked \in Seq(Nat)
  /\ hkq \in Seq(Pairs) /\ summarized \in Seq(Pairs)
  /\ Len(items) <= Usable /\ Len(hkq) <= HkUsable /\ Len(commands) <= CmdUsable

Controls ==
  /\ running \in BOOLEAN /\ closed \in BOOLEAN /\ readerDone \in BOOLEAN
  /\ draining \in BOOLEAN /\ timedOut \in BOOLEAN /\ lost \in BOOLEAN /\ sleptOn \in BOOLEAN
  /\ hkStop \in BOOLEAN
  /\ readerStores \in Seq(ReaderStore) /\ workerStores \in Seq(WorkerStore)
  /\ reader \in ReaderPlaces /\ worker \in WorkerPlaces
  /\ keeper \in {"loop", "check stop", "drain", "gone"}

Probes == [trades : Nat, decisions : Seq(Pairs), issued : Nat, unacked : SUBSET Nat,
           acks : Nat, errors : Nat, refused : Nat]

\* what handle() keeps fits together; an order is one of the trades decided on
ProbeOK ==
  /\ probe \in Probes
  /\ probe.unacked \subseteq 1 .. probe.issued
  /\ IsFiniteSet(probe.unacked)
  /\ probe.issued <= probe.trades
  /\ probe.acks + Cardinality(probe.unacked) <= probe.issued
  /\ worker = "record" => probe.decisions # <<>>

----------------------------------------------------------------------------
(* Events in flight.  A point <<t, o>> of the stream of events says that t *)
(* trades came before it, and that o is the newest order acknowledged      *)
(* before it.  The event the worker handles, the ones in the queue and the *)
(* one the reader pushes lead from the point where the probe stands to the *)
(* one where the reader stands; the orders still to be acknowledged are    *)
(* newer than that, wherever their Acks are.                               *)

Point == Nat \X Nat

\* m is missed, s whether the features come from the reader, u what awaits its Ack
Leads(e, x, y, m, s, u) ==
  \/ /\ e.kind = "Trade" /\ e.n \in Nat
     /\ y = <<x[1] + 1, x[2]>>
     /\ m = 0 => e.n = x[1]
     /\ s => e.feature = StageA(x[1], e.n)
  \/ /\ e.kind = "Ack" /\ e.n \in u
     /\ x[2] < e.n
     /\ y = <<x[1], e.n>>

\* at are the points between the events of the queue q
Queued(q, at, m, s, u) ==
  /\ at \in [1 .. Len(q) + 1 -> Point]
  /\ \A i \in 1 .. Len(q) : Leads(q[i], at[i], at[i + 1], m, s, u)
  /\ \A i, j \in 1 .. Len(q) + 1 : i <= j => at[i][1] <= at[j][1] /\ at[i][2] <= at[j][2]

Handling(first, x) == IF worker = "handle" THEN Leads(taken, first, x, missed, Split, probe.unacked)
                                           ELSE x = first
Pushing(x, last)   == IF reader = "push" THEN Leads(msg, x, last, missed, Split, probe.unacked)
                                         ELSE x = last

\* the orders of b are newer than those of a, and b is in order
Newer(a, b) ==
  /\ \A i \in 1 .. Len(a), j \in 1 .. Len(b) : a[i] < b[j]
  /\ \A i, j \in 1 .. Len(b) : i < j => b[i] < b[j]

Awaited(newest) ==
  /\ newest <= probe.issued
  /\ \A i \in 1 .. Len(acked) : acked[i] \in probe.unacked
  /\ \A i \in 1 .. Len(commands) : commands[i] \in probe.unacked
  /\ Newer(<<newest>>, acked) /\ Newer(<<newest>>, commands) /\ Newer(acked, commands)

Flow(first, at, last) ==
  /\ first \in Point /\ last \in Point
  /\ probe.trades = first[1] /\ cursor = missed + last[1]
  /\ Queued(items, at, missed, Split, probe.unacked)
  /\ Handling(first, at[1])
  /\ Pushing(at[Len(items) + 1], last)
  /\ Awaited(last[2])

InFlight == \E first, at, last : Flow(first, at, last)

\* the second half of InStep
AsReference ==
  missed = 0 /\ probe.refused = 0 =>
    /\ probe.errors = 0
    /\ probe.decisions = [i \in 1 .. probe.trades |-> StageA(i - 1, i - 1)]

----------------------------------------------------------------------------
(* How the run ends.  reader_done is seen after every event is visible, so *)
(* the worker that sees it and then nothing in the queue has handled all;  *)
(* the housekeeper is stopped after the worker has been joined.            *)

Left == {"close"} \cup Leaving
Joined == {"join keeper", "returned"}

Ends ==
  /\ readerDone \/ Holds(readerStores, "done") => reader \in Left
  /\ readerDone => ~Holds(readerStores, "item")
  /\ \A i, j \in 1 .. Len(readerStores) :
       i < j /\ readerStores[i] = "done" => readerStores[j] # "item"
  /\ draining \/ worker \in {"drain", "gone"} => readerDone
  /\ worker = "gone" => items = <<>>
  /\ Single => items = <<>> /\ worker \in {"none", "handle", "record"}
               /\ reader \in {"poll", "join worker", "join keeper", "returned"}
  /\ ~Single => worker # "none"
  /\ reader \in Joined => worker \in {"none", "gone"}

KeeperEnds ==
  /\ hkStop => reader \in Joined
  /\ mode.hk = "thread" /\ keeper \in {"drain", "gone"} => hkStop
  /\ mode.hk = "thread" /\ keeper = "gone" => hkq = <<>>
  /\ mode.hk # "thread" => hkq = <<>> /\ worker # "record"
  /\ reader = "returned" => keeper = "gone"

\* what the housekeeper has had, has before it, and is about to be given
Summaries ==
  probe.refused = 0 /\ mode.hk # "none" =>
    /\ Len(probe.decisions) =
         Len(summarized) + Len(hkq) + IF worker = "record" THEN 1 ELSE 0
    /\ \A i \in 1 .. Len(summarized) : probe.decisions[i] = summarized[i]
    /\ \A i \in 1 .. Len(hkq) : probe.decisions[Len(summarized) + i] = hkq[i]

RunInv ==
  /\ WakeInv /\ Counters /\ Contents /\ Controls /\ ProbeOK
  /\ InFlight /\ AsReference /\ Ends /\ KeeperEnds /\ Summaries

----------------------------------------------------------------------------
(* The stream of events.                                                   *)

LEMMA LeadsOn ==
  ASSUME NEW e, NEW x \in Point, NEW y, NEW m, NEW s, NEW u \in SUBSET Nat,
         Leads(e, x, y, m, s, u)
  PROVE  /\ y \in Point /\ x[1] <= y[1] /\ x[2] <= y[2]
         /\ e.kind \in {"Trade", "Ack"}
         /\ e.kind = "Trade" => y[1] = x[1] + 1 /\ y[2] = x[2]
         /\ e.kind = "Ack" => y[1] = x[1] /\ y[2] = e.n /\ e.n \in u
<1>1. x[1] \in Nat /\ x[2] \in Nat
  BY DEF Point
<1>2. CASE e.kind = "Trade"
  <2>1. y = <<x[1] + 1, x[2]>>
    BY <1>2 DEF Leads
  <2> QED BY <1>1, <1>2, <2>1 DEF Point
<1>3. CASE e.kind = "Ack"
  <2>1. y = <<x[1], e.n>> /\ e.n \in u /\ x[2] < e.n
    BY <1>3 DEF Leads
  <2>2. e.n \in Nat
    BY <2>1
  <2> QED BY <1>1, <1>3, <2>1, <2>2 DEF Point
<1> QED BY <1>2, <1>3 DEF Leads

\* more may have been missed, and more may await their Acks
LEMMA LeadsStill ==
  ASSUME NEW e, NEW x, NEW y, NEW m, NEW s, NEW u, NEW m2, NEW u2,
         Leads(e, x, y, m, s, u), m2 = 0 => m = 0, e.kind = "Ack" => e.n \in u2
  PROVE  Leads(e, x, y, m2, s, u2)
  BY DEF Leads

LEMMA QueuedStill ==
  ASSUME NEW q, NEW at, NEW m, NEW s, NEW u, NEW m2, NEW u2,
         Queued(q, at, m, s, u), m2 = 0 => m = 0, u \subseteq u2
  PROVE  Queued(q, at, m2, s, u2)
<1>1. ASSUME NEW i \in 1 .. Len(q) PROVE Leads(q[i], at[i], at[i + 1], m2, s, u2)
  <2>1. Leads(q[i], at[i], at[i + 1], m, s, u)
    BY DEF Queued
  <2> QED BY <2>1 DEF Leads
<1> QED BY <1>1 DEF Queued

\* an order that is older than every point of the queue is acknowledged
LEMMA QueuedWithout ==
  ASSUME NEW q, IsSequence(q), NEW at, NEW m, NEW s, NEW u \in SUBSET Nat,
         Queued(q, at, m, s, u)
  PROVE  Queued(q, at, m, s, u \ {at[1][2]})
<1>0. Len(q) \in Nat
  BY DEF IsSequence
<1>1. ASSUME NEW i \in 1 .. Len(q)
      PROVE  Leads(q[i], at[i], at[i + 1], m, s, u \ {at[1][2]})
  <2>1. Leads(q[i], at[i], at[i + 1], m, s, u)
    BY DEF Queued
  <2>2. at[1] \in Point /\ at[i] \in Point /\ at[1][2] <= at[i][2]
    BY <1>0 DEF Queued
  <2>3. q[i].kind = "Ack" => q[i].n \in u /\ at[i][2] < q[i].n
    BY <2>1 DEF Leads
  <2>4. q[i].kind = "Ack" => q[i].n # at[1][2]
    BY <2>2, <2>3 DEF Point
  <2> QED BY <2>1, <2>3, <2>4, LeadsStill
<1> QED BY <1>1 DEF Queued

LEMMA QueuedOne ==
  ASSUME NEW m, NEW s, NEW u, NEW x \in Point
  PROVE  Queued(<<>>, [i \in 1 .. 1 |-> x], m, s, u)
  BY DEF Queued, Point

(* An event goes into the queue, *)
LEMMA QueuedAppend ==
  ASSUME NEW q, IsSequence(q), NEW at, NEW m, NEW s, NEW u \in SUBSET Nat,
         Queued(q, at, m, s, u), NEW e, NEW last, Leads(e, at[Len(q) + 1], last, m, s, u)
  PROVE  \E to : /\ Queued(Append(q, e), to, m, s, u)
                 /\ to[1] = at[1] /\ to[Len(q) + 2] = last
<1> DEFINE n == Len(q)
           to == [i \in 1 .. n + 2 |-> IF i = n + 2 THEN last ELSE at[i]]
           r == Append(q, e)
<1>1. n \in Nat /\ Len(r) = n + 1 /\ r[n + 1] = e /\ \A i \in 1 .. n : r[i] = q[i]
  BY DEF IsSequence
<1>2. at[n + 1] \in Point /\ \A i \in 1 .. n + 1 : at[i] \in Point
  BY <1>1 DEF Queued
<1>3. last \in Point /\ at[n + 1][1] <= last[1] /\ at[n + 1][2] <= last[2]
  BY <1>2, LeadsOn
<1>4. to \in [1 .. Len(r) + 1 -> Point]
  <2> HIDE DEF n
  <2>1. \A i \in 1 .. n + 2 : i # n + 2 => i \in 1 .. n + 1
    BY <1>1
  <2> QED BY <1>1, <1>2, <1>3, <2>1
<1> HIDE DEF n, r
<1>5. /\ to[n + 2] = last /\ \A i \in 1 .. n + 1 : to[i] = at[i]
      /\ \A i \in 1 .. n + 2 : i \in 1 .. n + 1 \/ i = n + 2
  BY <1>1
<1> HIDE DEF to
<1>6. ASSUME NEW i \in 1 .. Len(r) PROVE Leads(r[i], to[i], to[i + 1], m, s, u)
  <2>1. CASE i = n + 1
    <3>1. to[i] = at[n + 1] /\ to[i + 1] = last /\ r[i] = e
      BY <1>1, <1>5, <2>1
    <3> QED BY <3>1 DEF n
  <2>2. CASE i # n + 1
    <3>1. i \in 1 .. n /\ i \in 1 .. n + 1 /\ i + 1 \in 1 .. n + 1
      BY <1>1, <2>2
    <3>2. to[i] = at[i] /\ to[i + 1] = at[i + 1] /\ r[i] = q[i]
      BY <1>1, <1>5, <3>1
    <3> QED BY <3>1, <3>2 DEF Queued, n
  <2> QED BY <2>1, <2>2
<1>7. ASSUME NEW i \in 1 .. Len(r) + 1, NEW j \in 1 .. Len(r) + 1, i <= j
      PROVE  to[i][1] <= to[j][1] /\ to[i][2] <= to[j][2]
  <2>1. \A h \in 1 .. n + 1 : at[h][1] <= at[n + 1][1] /\ at[h][2] <= at[n + 1][2]
    BY <1>1 DEF Queued, n
  <2>2. \A h, g \in 1 .. n + 1 : h <= g => at[h][1] <= at[g][1] /\ at[h][2] <= at[g][2]
    BY DEF Queued, n
  <2>3. \A h \in 1 .. n + 1 : at[h][1] \in Nat /\ at[h][2] \in Nat
    BY <1>2 DEF Point
  <2>4. last[1] \in Nat /\ last[2] \in Nat
    BY <1>3 DEF Point
  <2>5. CASE j = n + 2
    <3>1. CASE i = n + 2
      BY <1>5, <2>4, <2>5, <3>1
    <3>2. CASE i # n + 2
      <4>1. i \in 1 .. n + 1 /\ n + 1 \in 1 .. n + 1
        BY <1>1, <3>2
      <4>2. to[i] = at[i] /\ to[j] = last
        BY <1>5, <2>5, <4>1
      <4>3. at[i][1] <= last[1] /\ at[i][2] <= last[2]
        <5>1. at[i][1] <= at[n + 1][1] /\ at[i][2] <= at[n + 1][2]
          BY <2>1, <4>1
        <5>2. /\ at[i][1] \in Nat /\ at[i][2] \in Nat
              /\ at[n + 1][1] \in Nat /\ at[n + 1][2] \in Nat
          BY <2>3, <4>1
        <5> QED BY <1>3, <2>4, <5>1, <5>2
      <4> QED BY <4>2, <4>3
    <3> QED BY <3>1, <3>2
  <2>6. CASE j # n + 2
    <3>1. i \in 1 .. n + 1 /\ j \in 1 .. n + 1
      BY <1>1, <1>7, <2>6
    <3> QED BY <1>5, <1>7, <2>2, <3>1
  <2> QED BY <2>5, <2>6
<1>8. Queued(r, to, m, s, u)
  BY <1>4, <1>6, <1>7 DEF Queued
<1>9. to[1] = at[1]
  BY <1>1, <1>5
<1> QED BY <1>5, <1>8, <1>9 DEF r, n

(* and the oldest event comes out of it. *)
LEMMA QueuedTail ==
  ASSUME NEW q, IsSequence(q), q # <<>>, NEW at, NEW m, NEW s, NEW u \in SUBSET Nat,
         Queued(q, at, m, s, u)
  PROVE  \E to : /\ Queued(Tail(q), to, m, s, u)
                 /\ Leads(Head(q), at[1], to[1], m, s, u)
                 /\ to[Len(Tail(q)) + 1] = at[Len(q) + 1]
<1> DEFINE n == Len(q)
           r == Tail(q)
           to == [i \in 1 .. n |-> at[i + 1]]
<1>1. PICK S : q \in Seq(S)
  BY DEF IsSequence
<1>2. /\ n \in Nat /\ n >= 1 /\ Len(r) = n - 1 /\ Head(q) = q[1]
      /\ \A i \in 1 .. n - 1 : r[i] = q[i + 1]
  BY <1>1
<1> HIDE DEF n, r
<1>3. /\ \A i \in 1 .. n : i + 1 \in 1 .. n + 1 /\ to[i] = at[i + 1]
      /\ Len(r) + 1 = n /\ 1 \in 1 .. n /\ n \in 1 .. n
  BY <1>2
<1>4. to \in [1 .. Len(r) + 1 -> Point]
  BY <1>3 DEF Queued, n
<1> HIDE DEF to
<1>5. ASSUME NEW i \in 1 .. Len(r) PROVE Leads(r[i], to[i], to[i + 1], m, s, u)
  <2>1. i \in 1 .. n /\ i + 1 \in 1 .. n /\ r[i] = q[i + 1]
    BY <1>2
  <2>2. to[i] = at[i + 1] /\ to[i + 1] = at[(i + 1) + 1]
    BY <1>3, <2>1
  <2> QED BY <2>1, <2>2 DEF Queued, n
<1>6. ASSUME NEW i \in 1 .. Len(r) + 1, NEW j \in 1 .. Len(r) + 1, i <= j
      PROVE  to[i][1] <= to[j][1] /\ to[i][2] <= to[j][2]
  <2>1. i + 1 \in 1 .. n + 1 /\ j + 1 \in 1 .. n + 1 /\ i + 1 <= j + 1
    BY <1>2, <1>6
  <2>2. to[i] = at[i + 1] /\ to[j] = at[j + 1]
    BY <1>3
  <2> QED BY <2>1, <2>2 DEF Queued, n
<1>7. Leads(Head(q), at[1], to[1], m, s, u)
  BY <1>2, <1>3 DEF Queued, n
<1>8. to[Len(r) + 1] = at[n + 1]
  BY <1>3
<1> QED BY <1>4, <1>5, <1>6, <1>7, <1>8 DEF Queued, r, n

----------------------------------------------------------------------------
LEMMA RunInit == Init => RunInv
<1> SUFFICES ASSUME Init PROVE RunInv
  OBVIOUS
<1>0. Steps \in Nat /\ {Usable, CmdUsable, HkUsable} \subseteq Nat \ {0}
  BY StrategyAssumption
<1>1. WakeInv
  BY InitWakeInv
<1>2. Counters
  BY <1>0 DEF Init, Counters
<1>3. Contents
  <2>1. commands = <<>> /\ acked = <<>> /\ hkq = <<>> /\ summarized = <<>> /\ items = <<>>
    BY DEF Init
  <2> QED BY <1>0, <2>1, EmptySeq DEF Contents
<1>4. Controls
  <2>1. readerStores \in Seq(ReaderStore) /\ workerStores \in Seq(WorkerStore)
    BY EmptySeq DEF Init
  <2> QED BY <2>1 DEF Init, Controls, ReaderPlaces, WorkerPlaces
<1>5. ProbeOK
  <2>1. probe = [trades |-> 0, decisions |-> <<>>, issued |-> 0, unacked |-> {},
                 acks |-> 0, errors |-> 0, refused |-> 0]
    BY DEF Init
  <2>2. <<>> \in Seq(Pairs) /\ IsFiniteSet({}) /\ Cardinality({}) = 0
    BY EmptySeq, FS_EmptySet
  <2>3. worker # "record"
    BY DEF Init
  <2> QED BY <2>1, <2>2, <2>3 DEF ProbeOK, Probes
<1>6. InFlight
  <2> DEFINE here == <<0, 0>>
             at == [i \in 1 .. 1 |-> here]
  <2>1. here \in Point /\ here[1] = 0 /\ here[2] = 0
    BY DEF Point
  <2>2. /\ items = <<>> /\ acked = <<>> /\ commands = <<>> /\ reader = "poll"
        /\ worker # "handle" /\ cursor = 0 /\ missed = 0 /\ probe.trades = 0 /\ probe.issued = 0
    BY DEF Init
  <2>3. Queued(items, at, missed, Split, probe.unacked)
    BY <2>1, <2>2, QueuedOne
  <2>4. at[1] = here /\ at[Len(items) + 1] = here
    BY <2>2
  <2> HIDE DEF here, at
  <2>5. Handling(here, at[1]) /\ Pushing(at[Len(items) + 1], here)
    BY <2>2, <2>4 DEF Handling, Pushing
  <2>6. Awaited(here[2])
    BY <2>1, <2>2 DEF Awaited, Newer
  <2>7. Flow(here, at, here)
    BY <2>1, <2>2, <2>3, <2>5, <2>6 DEF Flow
  <2> QED BY <2>7 DEF InFlight
<1>7. AsReference
  <2>1. probe.trades = 0 /\ probe.decisions = <<>> /\ probe.errors = 0
    BY DEF Init
  <2> QED BY <2>1 DEF AsReference
<1>8. Ends
  <2>1. /\ readerStores = <<>> /\ items = <<>> /\ reader = "poll" /\ readerDone = FALSE
        /\ draining = FALSE /\ worker = IF Single THEN "none" ELSE "pop"
    BY DEF Init
  <2> QED BY <2>1, EmptyHolds DEF Ends, Left, Joined
<1>9. KeeperEnds
  BY DEF Init, KeeperEnds, Joined
<1>10. Summaries
  BY DEF Init, Summaries
<1> QED
  BY <1>1, <1>2, <1>3, <1>4, <1>5, <1>6, <1>7, <1>8, <1>9, <1>10 DEF RunInv

----------------------------------------------------------------------------
(* What each step leaves alone.                                            *)

Polls   == PollAck \/ PollTrade
Takes   == Pop \/ Recheck \/ LastTry \/ Rewait
Handles == HandleMismatch \/ HandleRefused \/ HandleTrade \/ HandleAck

FlowFrame ==
  /\ UNCHANGED <<cursor, missed, probe, items, acked, commands, taken, msg>>
  /\ worker' = "handle" <=> worker = "handle"
  /\ reader' = "push" <=> reader = "push"

Frame ==
  /\ UNCHANGED mode
  /\ PublishTrade \/ UNCHANGED published
  /\ PollTrade \/ UNCHANGED <<cursor, missed, k>>
  /\ EngineAck \/ PollAck \/ HandleTrade \/ UNCHANGED <<commands, acked>>
  /\ Push \/ Takes \/ UNCHANGED items
  /\ Handles \/ UNCHANGED probe
  /\ HandleTrade \/ Record \/ Summarize \/ UNCHANGED <<hkq, summarized>>
  /\ HandleTrade \/ Record \/ (worker' = "record" <=> worker = "record")
  /\ FlushReader \/ Push \/ Leave \/ Close \/ UNCHANGED readerStores
  /\ FlushWorker \/ Takes \/ Announce \/ ClearSleeping \/ UNCHANGED workerStores
  /\ EngineAck \/ Polls \/ Push \/ Takes \/ Handles \/ FlowFrame

At ==
  /\ reader \in ReaderPlaces /\ worker \in WorkerPlaces
  /\ keeper \in {"loop", "check stop", "drain", "gone"}

SwitchFrame ==
  /\ EndSession \/ UNCHANGED running
  /\ Close \/ UNCHANGED closed
  /\ FlushReader \/ UNCHANGED readerDone
  /\ CheckDone \/ UNCHANGED draining
  /\ PopEmpty \/ Timeout \/ UNCHANGED timedOut
  /\ LastTry \/ UNCHANGED lost
  /\ Timeout \/ UNCHANGED sleptOn
  /\ JoinWorker \/ UNCHANGED hkStop

\* in which order the threads end
Order ==
  /\ reader \in Left => reader' \in Left
  /\ reader \in Joined => reader' \in Joined
  /\ reader' \in Joined => reader \in Joined \/ (worker \in {"none", "gone"} /\ UNCHANGED worker)
  /\ reader' = "returned" => reader = "returned" \/ (keeper = "gone" /\ UNCHANGED keeper)
  /\ reader # "poll" /\ worker \in {"none", "gone"} => UNCHANGED worker
  /\ worker' = "gone" => worker = "gone" \/ Drained
  /\ worker' = "drain" => worker = "drain" \/ draining'
  /\ worker' = "none" => worker = "none" \/ Single
  /\ worker' = "record" => worker = "record" \/ mode.hk = "thread"
  /\ Single /\ worker \in {"none", "handle", "record"}
            /\ reader \in {"poll", "join worker", "join keeper", "returned"} =>
       /\ worker' \in {"none", "handle", "record"}
       /\ reader' \in {"poll", "join worker", "join keeper", "returned"}
  /\ keeper = "gone" => UNCHANGED keeper
  /\ keeper' = "gone" => keeper = "gone" \/ (keeper = "drain" /\ hkq = <<>> /\ UNCHANGED hkq)
  /\ keeper' = "drain" => keeper = "drain" \/ hkStop

Framed == Frame /\ SwitchFrame /\ Order /\ At'

LEMMA ReaderFrame == At /\ Reader => Framed
<1> USE DEF At, ReaderPlaces, WorkerPlaces, Framed, Frame, FlowFrame, SwitchFrame, Order,
         Left, Leaving, Joined, Polls, Takes, Handles, Single,
         channels, input, market, readerAt, stores, flags, workerAt, park, housekeeping
<1>1. CASE PollAck
  BY <1>1 DEF PollAck, Give, MayPoll
<1>2. CASE PollTrade
  BY <1>2 DEF PollTrade, Give, MayPoll
<1>3. CASE Push
  BY <1>3 DEF Push
<1>4. CASE PushFence
  BY <1>4 DEF PushFence
<1>5. CASE CheckSleeping
  BY <1>5 DEF CheckSleeping
<1>6. CASE ExchangeSleeping
  BY <1>6 DEF ExchangeSleeping
<1>7. CASE Wake
  BY <1>7 DEF Wake
<1>8. CASE Leave
  BY <1>8 DEF Leave, MayPoll
<1>9. CASE Close
  BY <1>9 DEF Close
<1>10. CASE JoinWorker
  BY <1>10 DEF JoinWorker
<1>11. CASE JoinKeeper
  BY <1>11 DEF JoinKeeper
<1> QED BY <1>1, <1>2, <1>3, <1>4, <1>5, <1>6, <1>7, <1>8, <1>9, <1>10, <1>11 DEF Reader

LEMMA ResumedIs ==
  /\ Resumed \in {"none", "drain", "pop"}
  /\ Resumed = "none" => Single
  /\ Single => Resumed = "none"
  /\ Resumed = "drain" => draining
  BY DEF Resumed, Single

LEMMA Handled ==
  ASSUME At, Handles \/ Record
  PROVE  Framed
<1>1. /\ worker \in {"handle", "record"}
      /\ worker' = Resumed \/ (HandleTrade /\ worker' = "record" /\ mode.hk = "thread")
      /\ UNCHANGED <<mode, market, acked, input, readerAt, items, stores, flags, draining,
                     taken, park, hkStop, keeper>>
      /\ HandleTrade \/ UNCHANGED commands
      /\ HandleTrade \/ Record \/ UNCHANGED <<hkq, summarized>>
      /\ Handles \/ UNCHANGED probe
      /\ (worker = "handle" /\ Handles) \/ (worker = "record" /\ Record /\ UNCHANGED commands)
  BY DEF Handles, HandleMismatch, HandleRefused, HandleTrade, HandleAck, Record, TradeTaken,
         housekeeping, channels
<1>2. worker' \in WorkerPlaces /\ worker' \notin {"handle", "gone"}
  BY <1>1, ResumedIs DEF WorkerPlaces
<1>3. Frame
  BY <1>1, <1>2, ResumedIs
     DEF Frame, FlowFrame, channels, input, market, readerAt, stores, flags, park
<1>4. SwitchFrame
  BY <1>1 DEF SwitchFrame, market, flags, park
<1>5. Order
  BY <1>1, <1>2, ResumedIs DEF Order, readerAt, Left, Leaving, Joined, Single
<1>6. At'
  BY <1>1, <1>2 DEF At, readerAt
<1> QED BY <1>3, <1>4, <1>5, <1>6 DEF Framed

LEMMA PopFrame == At /\ Pop => Framed
<1> SUFFICES ASSUME At, Pop PROVE Framed
  OBVIOUS
<1>1. /\ worker \in {"pop", "drain"} /\ worker' = "handle"
      /\ UNCHANGED <<mode, market, channels, input, readerAt, readerStores, flags, draining,
                     park, probe, housekeeping>>
  BY DEF Pop, Take
<1>2. Frame
  BY <1>1 DEF Frame, FlowFrame, Takes, channels, input, market, housekeeping
<1>3. SwitchFrame
  BY <1>1 DEF SwitchFrame, market, flags, park, housekeeping
<1>4. Order /\ At'
  BY <1>1 DEF Order, At, WorkerPlaces, readerAt, housekeeping
<1> QED BY <1>2, <1>3, <1>4 DEF Framed

LEMMA WorkerFrame == At /\ Worker => Framed
<1> USE DEF At, ReaderPlaces, WorkerPlaces, Framed, Frame, FlowFrame, SwitchFrame, Order,
         Left, Leaving, Joined, Polls, Takes, Handles, Single,
         channels, input, market, readerAt, stores, flags, workerAt, park, housekeeping
<1>1. CASE Pop
  BY <1>1, PopFrame
<1>2. CASE PopEmpty
  BY <1>2 DEF PopEmpty
<1>3. CASE Announce
  BY <1>3 DEF Announce
<1>4. CASE WaitFence
  BY <1>4 DEF WaitFence
<1>5. CASE Recheck
  BY <1>5 DEF Recheck, Take
<1>6. CASE Wait
  BY <1>6 DEF Wait
<1>7. CASE ClearSleeping
  BY <1>7 DEF ClearSleeping
<1>8. CASE LastTry
  BY <1>8 DEF LastTry, Take
<1>9. CASE Rewait
  BY <1>9 DEF Rewait, Take
<1>10. CASE CheckDone
  BY <1>10 DEF CheckDone
<1>11. CASE Drained
  BY <1>11 DEF Drained
<1>12. CASE Handles \/ Record
  BY <1>12, Handled
<1> QED
  BY <1>1, <1>2, <1>3, <1>4, <1>5, <1>6, <1>7, <1>8, <1>9, <1>10, <1>11, <1>12 DEF Worker

LEMMA KeeperFrame == At /\ Keeper => Framed
<1> SUFFICES ASSUME At, Keeper PROVE Framed
  OBVIOUS
<1>1. /\ UNCHANGED <<mode, market, channels, input, readerAt, items, stores, flags, workerAt,
                     park, probe, hkStop>>
      /\ Summarize \/ UNCHANGED <<hkq, summarized>>
  BY DEF Keeper, Summarize, NothingToDo, CheckStop, KeeperGone
<1>2. /\ keeper \notin {"gone"} /\ keeper' \in {"loop", "check stop", "drain", "gone"}
      /\ keeper' = "gone" => keeper = "drain" /\ hkq = <<>> /\ UNCHANGED hkq
      /\ keeper' = "drain" => keeper = "drain" \/ hkStop
  BY DEF At, Keeper, Summarize, NothingToDo, CheckStop, KeeperGone
<1>3. Frame
  BY <1>1 DEF Frame, FlowFrame, channels, input, market, readerAt, stores, workerAt
<1>4. SwitchFrame
  BY <1>1 DEF SwitchFrame, market, flags, workerAt, park
<1>5. Order /\ At'
  BY <1>1, <1>2 DEF Order, At, readerAt, workerAt
<1> QED BY <1>3, <1>4, <1>5 DEF Framed

LEMMA MarketFrame == At /\ Market => Framed
<1> SUFFICES ASSUME At, Market PROVE Framed
  OBVIOUS
<1>1. /\ UNCHANGED <<mode, input, readerAt, items, stores, flags, workerAt, park, probe,
                     housekeeping>>
      /\ PublishTrade \/ UNCHANGED published
      /\ EndSession \/ UNCHANGED running
      /\ EngineAck \/ UNCHANGED channels
  BY DEF Market, PublishTrade, EngineAck, EndSession, market
<1>2. Frame
  BY <1>1 DEF Frame, FlowFrame, channels, input, readerAt, stores, workerAt, housekeeping
<1>3. SwitchFrame
  BY <1>1 DEF SwitchFrame, flags, workerAt, park, housekeeping
<1>4. Order /\ At'
  BY <1>1 DEF Order, At, readerAt, workerAt, housekeeping
<1> QED BY <1>2, <1>3, <1>4 DEF Framed

LEMMA Frames == RunInv /\ [Next]_vars => Framed
<1>0. RunInv => At
  BY DEF RunInv, Controls, At
<1> USE DEF At, ReaderPlaces, WorkerPlaces, Framed, Frame, FlowFrame, SwitchFrame, Order,
         Left, Leaving, Joined, Polls, Takes, Handles, Single,
         channels, input, market, readerAt, stores, flags, workerAt, park, housekeeping
<1>1. CASE FlushReader
  BY <1>0, <1>1 DEF FlushReader
<1>2. CASE FlushWorker
  BY <1>0, <1>2 DEF FlushWorker
<1>3. CASE Timeout
  BY <1>0, <1>3 DEF Timeout
<1>4. CASE UNCHANGED vars
  BY <1>0, <1>4 DEF vars
<1> QED
  BY <1>0, <1>1, <1>2, <1>3, <1>4, ReaderFrame, WorkerFrame, KeeperFrame, MarketFrame DEF Next, Over

----------------------------------------------------------------------------
\* a reader that polls a broadcast, and what it has missed
LEMMA Polled ==
  ASSUME Counters, PollTrade
  PROVE  \E n \in Nat : /\ cursor <= n /\ n < published
                       /\ missed' = missed + (n - cursor) /\ cursor' = n + 1
                       /\ Give(Event("Trade", n, IF Split THEN StageA(k, n) ELSE Unset))
<1>1. Steps \in Nat /\ RingUsable \in Nat /\ RingUsable > 0
  BY StrategyAssumption
<1>2. published \in Nat /\ cursor \in Nat /\ cursor < published
  BY <1>1 DEF Counters, PollTrade
<1>3. PICK n \in {IF published - cursor > RingUsable THEN published - RingUsable ELSE cursor} :
        /\ missed' = missed + (n - cursor)
        /\ cursor' = n + 1
        /\ Give(Event("Trade", n, IF Split THEN StageA(k, n) ELSE Unset))
  BY DEF PollTrade
<1>4. n \in Nat /\ cursor <= n /\ n < published
  BY <1>1, <1>2, <1>3
<1> QED BY <1>3, <1>4

LEMMA CountersNext == RunInv /\ [Next]_vars => Counters'
<1> SUFFICES ASSUME RunInv, [Next]_vars PROVE Counters'
  OBVIOUS
<1>0. Frame /\ Counters /\ Steps \in Nat
  BY Frames, StrategyAssumption DEF RunInv, Framed
<1>1. CASE PublishTrade
  <2>1. UNCHANGED <<mode, cursor, missed, k>> /\ published < Steps /\ published' = published + 1
    BY <1>1 DEF PublishTrade, input
  <2> QED BY <1>0, <2>1 DEF Counters, Split
<1>2. CASE PollTrade
  <2>1. PICK n \in Nat : cursor <= n /\ n < published
                       /\ missed' = missed + (n - cursor) /\ cursor' = n + 1
    BY <1>0, <1>2, Polled
  <2>2. UNCHANGED <<mode, published>> /\ k' = IF Split THEN k + 1 ELSE k
    BY <1>2 DEF PollTrade, market
  <2> QED BY <1>0, <2>1, <2>2 DEF Counters, Split
<1>3. CASE UNCHANGED <<published, cursor, missed, k>>
  BY <1>0, <1>3 DEF Counters, Split, Frame
<1> QED
  <2>1. PollTrade => UNCHANGED published
    BY DEF PollTrade, market
  <2>2. PublishTrade => UNCHANGED <<cursor, missed, k>>
    BY DEF PublishTrade, input
  <2> QED BY <1>0, <1>1, <1>2, <1>3, <2>1, <2>2 DEF Frame

LEMMA ProbeFields ==
  ASSUME NEW p \in Probes
  PROVE  /\ {p.trades, p.issued, p.acks, p.errors, p.refused} \subseteq Nat
         /\ p.trades + 1 \in Nat /\ p.issued + 1 \in Nat /\ p.acks + 1 \in Nat
         /\ p.errors + 1 \in Nat /\ p.refused + 1 \in Nat
         /\ p.decisions \in Seq(Pairs) /\ p.unacked \in SUBSET Nat
<1>1. /\ p.trades \in Nat /\ p.issued \in Nat /\ p.acks \in Nat /\ p.errors \in Nat
      /\ p.refused \in Nat /\ p.decisions \in Seq(Pairs) /\ p.unacked \in SUBSET Nat
  BY DEF Probes
<1> QED BY <1>1

LEMMA ProbeWith ==
  ASSUME NEW p \in Probes, NEW t \in Nat, NEW d \in Seq(Pairs), NEW i \in Nat,
         NEW u \in SUBSET Nat, NEW a \in Nat, NEW e \in Nat
  PROVE  /\ [p EXCEPT !.trades = t, !.errors = e] \in Probes
         /\ [p EXCEPT !.trades = t, !.decisions = d, !.issued = i] \in Probes
         /\ [p EXCEPT !.unacked = u] \in Probes
         /\ [p EXCEPT !.unacked = u, !.acks = a] \in Probes
  BY DEF Probes

\* the feature a decision is made on
LEMMA FeatureIs ==
  ASSUME RunInv, TradeTaken
  PROVE  /\ taken.n \in Nat /\ probe.trades \in Nat
         /\ Feature = StageA(probe.trades, taken.n)
         /\ missed = 0 => taken.n = probe.trades
<1>1. PICK first, at, last : Flow(first, at, last)
  BY DEF RunInv, InFlight
<1>2. worker = "handle" /\ taken.kind = "Trade" /\ probe.trades = first[1]
  BY <1>1 DEF TradeTaken, Flow
<1>3. Leads(taken, first, at[1], missed, Split, probe.unacked)
  BY <1>1, <1>2 DEF Flow, Handling
<1>4. /\ taken.n \in Nat /\ (missed = 0 => taken.n = first[1])
      /\ Split => taken.feature = StageA(first[1], taken.n)
  BY <1>2, <1>3 DEF Leads
<1>5. probe.trades \in Nat
  BY ProbeFields DEF RunInv, ProbeOK
<1> QED BY <1>2, <1>4, <1>5 DEF Feature

\* an order that is acknowledged was awaited
LEMMA AckIs ==
  ASSUME RunInv, worker = "handle", taken.kind = "Ack"
  PROVE  taken.n \in probe.unacked
<1>1. PICK first, at, last : Flow(first, at, last)
  BY DEF RunInv, InFlight
<1>2. Leads(taken, first, at[1], missed, Split, probe.unacked)
  BY <1>1 DEF Flow, Handling
<1> QED BY <1>2 DEF Leads

LEMMA DecidedIs ==
  ASSUME RunInv, TradeTaken
  PROVE  /\ probe.decisions \in Seq(Pairs) /\ Feature \in Pairs
         /\ Decided = [probe EXCEPT !.trades = probe.trades + 1,
                                    !.decisions = Append(probe.decisions, Feature),
                                    !.issued = probe.issued + 1]
         /\ Append(probe.decisions, Feature) \in Seq(Pairs)
         /\ Append(probe.decisions, Feature) # <<>>
<1>1. probe.decisions \in Seq(Pairs) /\ Feature \in Pairs
  BY FeatureIs, ProbeFields DEF RunInv, ProbeOK, Pairs, StageA
<1>2. Append(probe.decisions, Feature) \in Seq(Pairs)
      /\ Append(probe.decisions, Feature) # <<>>
  BY <1>1
<1> QED BY <1>1, <1>2 DEF Decided

\* What handle() does to what it keeps.
LEMMA MismatchEffect ==
  ASSUME RunInv, HandleMismatch
  PROVE  /\ probe' \in Probes /\ missed # 0 /\ worker' \notin {"handle", "record"}
         /\ probe'.trades = probe.trades + 1 /\ probe'.decisions = probe.decisions
         /\ probe'.issued = probe.issued /\ probe'.unacked = probe.unacked
         /\ probe'.acks = probe.acks /\ probe'.refused = probe.refused
<1>0. probe \in Probes
  BY DEF RunInv, ProbeOK
<1>1. probe' = [probe EXCEPT !.trades = probe.trades + 1, !.errors = probe.errors + 1]
  BY DEF HandleMismatch
<1>2. probe' \in Probes
  BY <1>0, <1>1, ProbeFields, ProbeWith
<1>3. missed # 0 /\ worker' \notin {"handle", "record"}
  BY FeatureIs DEF HandleMismatch, Resumed
<1>4. /\ probe'.trades = probe.trades + 1 /\ probe'.decisions = probe.decisions
      /\ probe'.issued = probe.issued /\ probe'.unacked = probe.unacked
      /\ probe'.acks = probe.acks /\ probe'.refused = probe.refused
  BY <1>0, <1>1 DEF Probes
<1> QED BY <1>2, <1>3, <1>4

LEMMA RefusedEffect ==
  ASSUME RunInv, HandleRefused
  PROVE  /\ probe' \in Probes /\ worker' \notin {"handle", "record"}
         /\ probe'.trades = probe.trades + 1
         /\ probe'.issued = probe.issued + 1 /\ probe'.unacked = probe.unacked
         /\ probe'.acks = probe.acks /\ probe'.refused # 0
<1>0. probe \in Probes /\ TradeTaken
  BY DEF RunInv, ProbeOK, HandleRefused
<1> DEFINE d == Append(probe.decisions, Feature)
           p == [probe EXCEPT !.trades = probe.trades + 1, !.decisions = d,
                              !.issued = probe.issued + 1]
<1>1. d \in Seq(Pairs) /\ Decided = p
  BY <1>0, DecidedIs
<1> HIDE DEF d
<1>2. p \in Probes
  BY <1>0, <1>1, ProbeFields, ProbeWith
<1>3. /\ p.trades = probe.trades + 1 /\ p.issued = probe.issued + 1
      /\ p.unacked = probe.unacked /\ p.acks = probe.acks
  BY <1>0 DEF Probes
<1>4. probe' = [p EXCEPT !.errors = p.errors + 1, !.refused = p.refused + 1]
  BY <1>1 DEF HandleRefused
<1> HIDE DEF p
<1>5. probe' \in Probes
  <2> DEFINE e == p.errors + 1
             r == p.refused + 1
  <2>1. e \in Nat /\ r \in Nat /\ probe' = [p EXCEPT !.errors = e, !.refused = r]
    BY <1>2, <1>4, ProbeFields
  <2> HIDE DEF e, r
  <2> QED BY <1>2, <2>1 DEF Probes
<1>6. /\ probe'.trades = p.trades /\ probe'.issued = p.issued /\ probe'.unacked = p.unacked
      /\ probe'.acks = p.acks /\ probe'.refused = p.refused + 1
  BY <1>2, <1>4 DEF Probes
<1>7. probe'.refused # 0
  BY <1>2, <1>6, ProbeFields
<1>8. worker' \notin {"handle", "record"}
  BY DEF HandleRefused, Resumed
<1> QED BY <1>3, <1>5, <1>6, <1>7, <1>8

LEMMA TradeEffect ==
  ASSUME RunInv, HandleTrade
  PROVE  /\ probe' \in Probes /\ worker' # "handle"
         /\ probe'.trades = probe.trades + 1
         /\ probe'.decisions = Append(probe.decisions, StageA(probe.trades, probe.trades))
         /\ Feature = StageA(probe.trades, probe.trades) /\ Feature \in Pairs
         /\ probe'.issued = probe.issued + 1
         /\ probe'.unacked = probe.unacked \cup {probe.issued + 1}
         /\ probe'.acks = probe.acks /\ probe'.errors = probe.errors
         /\ probe'.refused = probe.refused
<1>0. probe \in Probes /\ TradeTaken /\ taken.n = probe.trades
  BY DEF RunInv, ProbeOK, HandleTrade
<1> DEFINE d == Append(probe.decisions, Feature)
           p == [probe EXCEPT !.trades = probe.trades + 1, !.decisions = d,
                              !.issued = probe.issued + 1]
           u == probe.unacked \cup {probe.issued + 1}
<1>1. d \in Seq(Pairs) /\ Decided = p
  BY <1>0, DecidedIs
<1>9. Feature = StageA(probe.trades, probe.trades) /\ Feature \in Pairs
  BY <1>0, FeatureIs, DecidedIs
<1>a. d = Append(probe.decisions, StageA(probe.trades, probe.trades))
  BY <1>9
<1> HIDE DEF d
<1>2. p \in Probes
  BY <1>0, <1>1, ProbeFields, ProbeWith
<1>3. /\ p.trades = probe.trades + 1 /\ p.issued = probe.issued + 1 /\ p.decisions = d
      /\ p.unacked = probe.unacked /\ p.acks = probe.acks /\ p.errors = probe.errors
      /\ p.refused = probe.refused
  BY <1>0 DEF Probes
<1>4. probe' = [p EXCEPT !.unacked = p.unacked \cup {probe.issued + 1}]
  BY <1>1 DEF HandleTrade
<1> HIDE DEF p
<1>5. u \in SUBSET Nat
  BY <1>0, ProbeFields
<1>6. probe' = [p EXCEPT !.unacked = u]
  BY <1>3, <1>4
<1> HIDE DEF u
<1>7. probe' \in Probes
  <2>1. p.trades \in Nat /\ p.decisions \in Seq(Pairs)
    BY <1>2, ProbeFields
  <2> QED BY <1>2, <1>5, <1>6, <2>1, ProbeWith
<1>8. /\ probe'.trades = p.trades /\ probe'.issued = p.issued /\ probe'.unacked = u
      /\ probe'.acks = p.acks /\ probe'.errors = p.errors /\ probe'.decisions = p.decisions
      /\ probe'.refused = p.refused
  BY <1>2, <1>6 DEF Probes
<1>b. worker' # "handle"
  BY DEF HandleTrade, Resumed
<1> QED BY <1>3, <1>7, <1>8, <1>9, <1>a, <1>b DEF u

LEMMA AckEffect ==
  ASSUME RunInv, HandleAck
  PROVE  /\ probe' \in Probes /\ worker' \notin {"handle", "record"}
         /\ taken.n \in probe.unacked
         /\ probe'.unacked = probe.unacked \ {taken.n} /\ probe'.acks = probe.acks + 1
         /\ probe'.trades = probe.trades /\ probe'.decisions = probe.decisions
         /\ probe'.issued = probe.issued /\ probe'.errors = probe.errors
         /\ probe'.refused = probe.refused
<1>0. probe \in Probes /\ taken.n \in probe.unacked
  BY AckIs DEF RunInv, ProbeOK, HandleAck
<1>1. probe' = [probe EXCEPT !.unacked = probe.unacked \ {taken.n}, !.acks = probe.acks + 1]
  BY <1>0 DEF HandleAck
<1>2. probe' \in Probes
  <2>1. probe.unacked \ {taken.n} \in SUBSET Nat /\ probe.acks + 1 \in Nat
    BY <1>0, ProbeFields
  <2>2. probe.trades \in Nat /\ probe.decisions \in Seq(Pairs)
    BY <1>0, ProbeFields
  <2> QED BY <1>0, <1>1, <2>1, <2>2, ProbeWith
<1>3. /\ probe'.unacked = probe.unacked \ {taken.n} /\ probe'.acks = probe.acks + 1
      /\ probe'.trades = probe.trades /\ probe'.decisions = probe.decisions
      /\ probe'.issued = probe.issued /\ probe'.errors = probe.errors
      /\ probe'.refused = probe.refused
  BY <1>0, <1>1 DEF Probes
<1>4. worker' \notin {"handle", "record"}
  BY DEF HandleAck, Resumed
<1> QED BY <1>0, <1>2, <1>3, <1>4

LEMMA ProbeNext == RunInv /\ [Next]_vars => ProbeOK'
<1> SUFFICES ASSUME RunInv, [Next]_vars PROVE ProbeOK'
  OBVIOUS
<1>0. /\ Frame /\ ProbeOK /\ Cardinality(probe.unacked) \in Nat
      /\ probe.trades \in Nat /\ probe.issued \in Nat /\ probe.acks \in Nat
      /\ probe.decisions \in Seq(Pairs)
  BY Frames, FS_CardinalityType, ProbeFields DEF RunInv, Framed, ProbeOK
<1>2. CASE HandleMismatch
  BY <1>0, <1>2, MismatchEffect DEF ProbeOK
<1>3. CASE HandleRefused
  BY <1>0, <1>3, RefusedEffect DEF ProbeOK
<1>4. CASE HandleTrade
  <2> DEFINE o == probe.issued + 1
             u == probe.unacked \cup {o}
  <2>1. o \notin probe.unacked /\ u \subseteq 1 .. o
    BY <1>0 DEF ProbeOK
  <2>2. IsFiniteSet(u) /\ Cardinality(u) = Cardinality(probe.unacked) + 1
    BY <1>0, <2>1, FS_AddElement DEF ProbeOK
  <2>3. probe'.decisions # <<>>
    <3>1. StageA(probe.trades, probe.trades) \in Pairs
      BY <1>4, TradeEffect
    <3> QED BY <1>0, <1>4, <3>1, TradeEffect
  <2>4. probe'.unacked = u /\ probe'.issued = o
    BY <1>4, TradeEffect
  <2> HIDE DEF u
  <2>5. probe.acks + Cardinality(u) <= o /\ o <= probe.trades + 1
    BY <1>0, <2>2 DEF ProbeOK
  <2> HIDE DEF o
  <2>6. /\ probe' \in Probes /\ probe'.trades = probe.trades + 1 /\ probe'.acks = probe.acks
    BY <1>4, TradeEffect
  <2> QED BY <2>1, <2>2, <2>3, <2>4, <2>5, <2>6 DEF ProbeOK
<1>5. CASE HandleAck
  <2> DEFINE u == probe.unacked \ {taken.n}
  <2>1. taken.n \in probe.unacked
    BY <1>5, AckEffect
  <2>2. IsFiniteSet(u) /\ Cardinality(u) = Cardinality(probe.unacked) - 1
    BY <1>0, <2>1, FS_RemoveElement DEF ProbeOK
  <2>3. u \subseteq 1 .. probe.issued
    BY <1>0 DEF ProbeOK
  <2>4. probe'.unacked = u
    BY <1>5, AckEffect
  <2> HIDE DEF u
  <2> QED BY <1>0, <1>5, <2>2, <2>3, <2>4, AckEffect DEF ProbeOK
<1>6. CASE UNCHANGED probe
  <2>1. worker' = "record" => worker = "record"
    <3>1. ~HandleTrade
      BY <1>0, <1>6, TradeEffect
    <3>2. Record => worker' # "record"
      BY DEF Record, Resumed
    <3> QED BY <1>0, <3>1, <3>2 DEF Frame
  <2> QED BY <1>0, <1>6, <2>1 DEF ProbeOK
<1> QED BY <1>0, <1>2, <1>3, <1>4, <1>5, <1>6 DEF Frame, Handles

LEMMA AsReferenceNext == RunInv /\ [Next]_vars => AsReference'
<1> SUFFICES ASSUME RunInv, [Next]_vars PROVE AsReference'
  OBVIOUS
<1>0. /\ Frame /\ AsReference /\ probe.trades \in Nat /\ probe.decisions \in Seq(Pairs)
      /\ missed \in Nat /\ cursor \in Int
  <2>1. Steps \in Nat
    BY StrategyAssumption
  <2> QED BY <2>1, Frames, ProbeFields DEF RunInv, Framed, ProbeOK, Counters
<1>1. missed' = 0 => missed = 0
  <2>1. CASE PollTrade
    <3>1. PICK n \in Nat : cursor <= n /\ missed' = missed + (n - cursor)
      BY <2>1, Polled DEF RunInv
    <3> QED BY <1>0, <3>1
  <2> QED BY <1>0, <2>1 DEF Frame
<1>2. CASE HandleMismatch
  <2>1. missed # 0
    BY <1>2, MismatchEffect
  <2> QED BY <1>1, <2>1 DEF AsReference
<1>3. CASE HandleRefused
  BY <1>3, RefusedEffect DEF AsReference
<1>4. CASE HandleTrade
  <2> SUFFICES ASSUME missed' = 0, probe'.refused = 0
               PROVE  /\ probe'.errors = 0
                      /\ probe'.decisions = [i \in 1 .. probe'.trades |-> StageA(i - 1, i - 1)]
    BY DEF AsReference
  <2> DEFINE n == probe.trades
             d == probe.decisions
             e == Append(d, StageA(n, n))
             want == [i \in 1 .. n + 1 |-> StageA(i - 1, i - 1)]
  <2>1. probe.errors = 0 /\ d = [i \in 1 .. n |-> StageA(i - 1, i - 1)]
    BY <1>0, <1>1, <1>4, TradeEffect DEF AsReference
  <2>2. e \in Seq(Pairs)
    BY <1>0 DEF StageA, Pairs
  <2>3. Len(d) = n
    BY <1>0, <2>1
  <2>4. /\ Len(e) = n + 1 /\ DOMAIN e = 1 .. n + 1
        /\ e[n + 1] = StageA(n, n) /\ \A i \in 1 .. n : e[i] = d[i]
    BY <1>0, <2>2, <2>3
  <2>5. \A i \in 1 .. n + 1 : e[i] = want[i]
    <3> SUFFICES ASSUME NEW i \in 1 .. n + 1 PROVE e[i] = StageA(i - 1, i - 1)
      OBVIOUS
    <3>1. CASE i = n + 1
      <4>1. i - 1 = n
        BY <1>0, <3>1
      <4> QED BY <2>4, <3>1, <4>1
    <3>2. CASE i \in 1 .. n
      BY <2>1, <2>4, <3>2
    <3>3. i \in 1 .. n \/ i = n + 1
      BY <1>0
    <3> QED BY <3>1, <3>2, <3>3
  <2>6. e = want
    <3>1. e = [i \in 1 .. n + 1 |-> e[i]]
      BY <2>2, <2>4
    <3> QED BY <2>5, <3>1
  <2> QED BY <1>4, <2>1, <2>6, TradeEffect
<1>5. CASE HandleAck
  BY <1>0, <1>1, <1>5, AckEffect DEF AsReference
<1>6. CASE UNCHANGED probe
  BY <1>0, <1>1, <1>6 DEF AsReference
<1> QED BY <1>0, <1>2, <1>3, <1>4, <1>5, <1>6 DEF Frame, Handles

----------------------------------------------------------------------------
\* Taking an event takes the oldest.
LEMMA TakesOldest ==
  ASSUME RunInv, NEW stored \in Seq(WorkerStore), Take(stored)
  PROVE  /\ items # <<>> /\ taken' = Head(items) /\ items' = Tail(items)
         /\ worker' = "handle" /\ workerStores' \in Seq(WorkerStore)
         /\ Len(items') <= Usable
<1>1. Shapes /\ Len(items) <= Usable /\ Usable \in Nat /\ workerStores \in Seq(WorkerStore)
  BY StrategyAssumption DEF RunInv, WakeInv, Contents, Controls
<1>2. PICK S : items \in Seq(S)
  BY <1>1 DEF Shapes, IsSequence
<1>3. Count(readerStores, "item") \in Nat
  BY <1>1, CountType DEF Shapes
<1>4. items # <<>>
  <2>1. items = <<>> => Len(items) = 0
    OBVIOUS
  <2> QED BY <1>3, <2>1 DEF Take, Visible
<1>5. Len(Tail(items)) <= Usable
  BY <1>1, <1>2, <1>4
<1>6. workerStores' \in Seq(WorkerStore)
  BY <1>1, ConcatProperties DEF Take
<1> QED BY <1>4, <1>5, <1>6 DEF Take

LEMMA Taking ==
  ASSUME RunInv, Takes
  PROVE  \/ /\ items # <<>> /\ taken' = Head(items) /\ items' = Tail(items)
            /\ worker \notin {"handle", "none", "gone", "record"} /\ worker' = "handle"
            /\ workerStores' \in Seq(WorkerStore) /\ Len(items') <= Usable
         \/ /\ UNCHANGED <<items, workerStores, taken>>
            /\ worker \notin {"handle", "none", "gone", "record"}
            /\ worker' \in {"wait", "check done", "parked"}
<1> DEFINE one == <<"slot">>
           two == <<"slot", "clear">>
           none == <<>>
<1>0. /\ one \in Seq(WorkerStore) /\ two \in Seq(WorkerStore) /\ none \in Seq(WorkerStore)
  BY EmptySeq DEF WorkerStore
<1>1. CASE Pop
  <2>1. Take(one) /\ worker \notin {"handle", "none", "gone", "record"}
    BY <1>1 DEF Pop
  <2> QED BY <1>0, <2>1, TakesOldest
<1>2. CASE Recheck
  <2>1. worker = "recheck" /\ (Take(two) \/ (worker' = "wait"
                                            /\ UNCHANGED <<taken, items, workerStores>>))
    BY <1>2 DEF Recheck
  <2> QED BY <1>0, <2>1, TakesOldest
<1>3. CASE LastTry
  <2>1. worker = "last" /\ (Take(one) \/ (worker' = "check done"
                                         /\ UNCHANGED <<taken, items, workerStores>>))
    BY <1>3 DEF LastTry
  <2> QED BY <1>0, <2>1, TakesOldest
<1>4. CASE Rewait
  <2>1. worker = "woken" /\ (Take(none) \/ (worker' \in {"check done", "parked"}
                                           /\ UNCHANGED <<taken, items, workerStores>>))
    BY <1>4 DEF Rewait
  <2> QED BY <1>0, <2>1, TakesOldest
<1> QED BY <1>1, <1>2, <1>3, <1>4 DEF Takes

LEMMA ContentsNext == RunInv /\ [Next]_vars => Contents'
<1> SUFFICES ASSUME RunInv, [Next]_vars PROVE Contents'
  OBVIOUS
<1>0. Frame /\ Contents /\ {Usable, CmdUsable, HkUsable} \subseteq Nat
  BY Frames, StrategyAssumption DEF RunInv, Framed
<1>1. /\ commands \in Seq(Nat) /\ acked \in Seq(Nat) /\ Len(commands) <= CmdUsable
      /\ hkq \in Seq(Pairs) /\ summarized \in Seq(Pairs)
      /\ Len(items) <= Usable /\ Len(hkq) <= HkUsable
  BY <1>0 DEF Contents
<1>2. commands' \in Seq(Nat) /\ acked' \in Seq(Nat) /\ Len(commands') <= CmdUsable
  <2>1. CASE EngineAck
    <3>1. commands # <<>> /\ commands' = Tail(commands) /\ acked' = Append(acked, Head(commands))
      BY <2>1 DEF EngineAck
    <3> QED BY <1>0, <1>1, <3>1
  <2>2. CASE PollAck
    <3>1. acked # <<>> /\ acked' = Tail(acked) /\ commands' = commands
      BY <2>2 DEF PollAck
    <3> QED BY <1>1, <3>1
  <2>3. CASE HandleTrade
    <3>1. /\ Len(commands) < CmdUsable /\ commands' = Append(commands, probe.issued + 1)
          /\ acked' = acked
      BY <2>3 DEF HandleTrade
    <3>2. probe.issued + 1 \in Nat
      BY ProbeFields DEF RunInv, ProbeOK
    <3> QED BY <1>0, <1>1, <3>1, <3>2
  <2> QED BY <1>0, <1>1, <2>1, <2>2, <2>3 DEF Frame
<1>3. Len(items') <= Usable
  <2>1. CASE Push
    <3>1. Len(items) + Count(workerStores, "slot") < Usable /\ items' = Append(items, msg)
      BY <2>1 DEF Push, HasRoom, Occupied
    <3>2. Count(workerStores, "slot") \in Nat
      BY CountType DEF RunInv, WakeInv, Shapes
    <3>3. PICK S : items \in Seq(S)
      BY DEF RunInv, WakeInv, Shapes, IsSequence
    <3>4. Len(items) \in Nat /\ Len(Append(items, msg)) = Len(items) + 1
      BY <3>3
    <3> QED BY <1>0, <3>1, <3>2, <3>4
  <2>2. CASE Takes
    BY <1>1, <2>2, Taking
  <2> QED BY <1>0, <1>1, <2>1, <2>2 DEF Frame
<1>4. hkq' \in Seq(Pairs) /\ summarized' \in Seq(Pairs) /\ Len(hkq') <= HkUsable
  <2>1. CASE HandleTrade
    <3>1. hkq' = hkq /\ (summarized' = summarized \/ summarized' = Append(summarized, Feature))
      BY <2>1 DEF HandleTrade
    <3>2. Feature \in Pairs
      BY <2>1, TradeEffect
    <3>3. Append(summarized, Feature) \in Seq(Pairs)
      BY <1>1, <3>2
    <3> QED BY <1>1, <3>1, <3>3
  <2>2. CASE Record
    <3> DEFINE d == probe.decisions
    <3>1. Len(hkq) < HkUsable /\ hkq' = Append(hkq, d[Len(d)]) /\ summarized' = summarized
          /\ worker = "record"
      BY <2>2 DEF Record
    <3>2. d \in Seq(Pairs) /\ d # <<>>
      BY <3>1, ProbeFields DEF RunInv, ProbeOK
    <3>3. d[Len(d)] \in Pairs
      BY <3>2
    <3> QED BY <1>0, <1>1, <3>1, <3>3
  <2>3. CASE Summarize
    <3>1. hkq # <<>> /\ hkq' = Tail(hkq) /\ summarized' = Append(summarized, Head(hkq))
      BY <2>3 DEF Summarize
    <3> QED BY <1>0, <1>1, <3>1
  <2> QED BY <1>0, <1>1, <2>1, <2>2, <2>3 DEF Frame
<1> QED BY <1>2, <1>3, <1>4 DEF Contents

----------------------------------------------------------------------------
LEMMA ControlsNext == RunInv /\ [Next]_vars => Controls'
<1> SUFFICES ASSUME RunInv, [Next]_vars PROVE Controls'
  OBVIOUS
<1>0. Frame /\ Controls /\ At' /\ SwitchFrame
  BY Frames DEF RunInv, Framed
<1>1. /\ running' \in BOOLEAN /\ closed' \in BOOLEAN /\ readerDone' \in BOOLEAN
      /\ draining' \in BOOLEAN /\ hkStop' \in BOOLEAN
  <2>1. EndSession => running' \in BOOLEAN
    BY DEF EndSession
  <2>2. Close => closed' \in BOOLEAN
    BY DEF Close, Locked
  <2>3. FlushReader => readerDone' \in BOOLEAN
    BY DEF FlushReader
  <2>4. CheckDone => draining' \in BOOLEAN
    BY <1>0 DEF CheckDone, Controls
  <2>5. JoinWorker => hkStop' \in BOOLEAN
    BY DEF JoinWorker
  <2> QED BY <1>0, <2>1, <2>2, <2>3, <2>4, <2>5 DEF SwitchFrame, Controls
<1>4. timedOut' \in BOOLEAN /\ lost' \in BOOLEAN /\ sleptOn' \in BOOLEAN
  <2>1. (PopEmpty \/ Timeout) => timedOut' \in BOOLEAN
    BY DEF PopEmpty, Timeout
  <2>2. LastTry => lost' \in BOOLEAN
    <3>1. LastTry => lost' = (lost \/ timedOut) \/ lost' = lost
      BY DEF LastTry
    <3> QED BY <1>0, <3>1 DEF Controls
  <2>3. Timeout => sleptOn' \in BOOLEAN
    BY DEF Timeout
  <2> QED BY <1>0, <2>1, <2>2, <2>3 DEF SwitchFrame, Controls
<1>2. readerStores' \in Seq(ReaderStore)
  <2>0. readerStores \in Seq(ReaderStore)
    BY <1>0 DEF Controls
  <2>1. CASE FlushReader
    BY <2>0, <2>1 DEF FlushReader
  <2>2. CASE Push \/ Leave \/ Close
    <3>1. readerStores' \in {readerStores, Append(readerStores, "item"),
                           Append(readerStores, "done"), Append(readerStores, "clear")}
      BY <2>2 DEF Push, Leave, Close
    <3> QED BY <2>0, <3>1 DEF ReaderStore
  <2> QED BY <1>0, <2>0, <2>1, <2>2 DEF Frame
<1>3. workerStores' \in Seq(WorkerStore)
  <2>0. workerStores \in Seq(WorkerStore)
    BY <1>0 DEF Controls
  <2>1. CASE FlushWorker
    BY <2>0, <2>1 DEF FlushWorker
  <2>2. CASE Announce \/ ClearSleeping
    <3>1. workerStores' \in {Append(workerStores, "park"), Append(workerStores, "clear")}
      BY <2>2 DEF Announce, ClearSleeping
    <3> QED BY <2>0, <3>1 DEF WorkerStore
  <2>3. CASE Takes
    BY <2>0, <2>3, Taking
  <2> QED BY <1>0, <2>0, <2>1, <2>2, <2>3 DEF Frame
<1> QED BY <1>0, <1>1, <1>2, <1>3, <1>4, Zenon DEF Controls, At

----------------------------------------------------------------------------
LEMMA KeeperEndsNext == RunInv /\ [Next]_vars => KeeperEnds'
<1> SUFFICES ASSUME RunInv, [Next]_vars PROVE KeeperEnds'
  OBVIOUS
<1>0. Frame /\ SwitchFrame /\ Order /\ KeeperEnds /\ Ends /\ mode' = mode
  BY Frames DEF RunInv, Framed, Frame
<1>1. hkStop' => reader' \in Joined
  <2>1. JoinWorker => reader' \in Joined
    BY DEF JoinWorker, Joined
  <2> QED BY <1>0, <2>1 DEF SwitchFrame, Order, KeeperEnds
<1>2. mode.hk = "thread" /\ hkStop => hkStop'
  <2>1. JoinWorker => hkStop' = (mode.hk = "thread")
    BY DEF JoinWorker
  <2> QED BY <1>0, <2>1 DEF SwitchFrame
<1>3. mode'.hk = "thread" /\ keeper' \in {"drain", "gone"} => hkStop'
  BY <1>0, <1>2 DEF Order, KeeperEnds
<1>4. mode'.hk = "thread" /\ keeper' = "gone" => hkq' = <<>>
  <2> SUFFICES ASSUME mode.hk = "thread", keeper' = "gone" PROVE hkq' = <<>>
    BY <1>0
  <2>1. CASE keeper = "gone"
    <3>1. hkq = <<>> /\ worker \in {"none", "gone"}
      BY <1>0, <2>1 DEF KeeperEnds, Ends
    <3>2. HandleTrade \/ Record \/ Summarize => hkq' = hkq
      BY <2>1, <3>1 DEF HandleTrade, TradeTaken, Record, Summarize
    <3> QED BY <1>0, <3>1, <3>2 DEF Frame
  <2>2. CASE keeper # "gone"
    BY <1>0, <2>2 DEF Order
  <2> QED BY <2>1, <2>2
<1>5. mode'.hk # "thread" => hkq' = <<>> /\ worker' # "record"
  <2> SUFFICES ASSUME mode.hk # "thread" PROVE hkq' = <<>> /\ worker' # "record"
    BY <1>0
  <2>1. hkq = <<>> /\ worker # "record"
    BY <1>0 DEF KeeperEnds
  <2>2. HandleTrade \/ Record \/ Summarize => hkq' = hkq
    BY <2>1 DEF HandleTrade, Record, Summarize
  <2> QED BY <1>0, <2>1, <2>2 DEF Frame, Order
<1>6. reader' = "returned" => keeper' = "gone"
  BY <1>0 DEF Order, KeeperEnds
<1> QED BY <1>1, <1>3, <1>4, <1>5, <1>6 DEF KeeperEnds

(* The stores of the reader: events, then "done", then "clear".            *)
LEMMA StoresNext ==
  ASSUME RunInv, [Next]_vars
  PROVE  /\ readerDone' \/ Holds(readerStores, "done")' => reader' \in Left
         /\ readerDone' => ~Holds(readerStores, "item")'
         /\ \A i, j \in 1 .. Len(readerStores') :
              i < j /\ readerStores'[i] = "done" => readerStores'[j] # "item"
         /\ readerDone => readerDone'
<1> DEFINE b == readerStores
<1>0. /\ Frame /\ SwitchFrame /\ Order /\ b \in Seq(Stores) /\ readerDone \in BOOLEAN
      /\ readerDone \/ Holds(b, "done") => reader \in Left
      /\ readerDone => ~Holds(b, "item")
      /\ \A i, j \in 1 .. Len(b) : i < j /\ b[i] = "done" => b[j] # "item"
  BY Frames DEF RunInv, Framed, Ends, WakeInv, Shapes, Controls
<1>1. CASE FlushReader
  <2>1. /\ b # <<>> /\ b' = Tail(b)
        /\ readerDone' = (readerDone \/ Head(b) = "done")
    BY <1>1 DEF FlushReader
  <2>2. /\ Head(b) = b[1] /\ Len(b) \in Nat /\ Len(Tail(b)) = Len(b) - 1
        /\ \A i \in 1 .. Len(Tail(b)) : i + 1 \in 1 .. Len(b) /\ Tail(b)[i] = b[i + 1]
        /\ 1 \in 1 .. Len(b)
    BY <1>0, <2>1
  <2>3. Holds(b, Head(b)) /\ \A s : Holds(Tail(b), s) => Holds(b, s)
    BY <1>0, <2>1, TailHolds
  <2>4. Head(b) = "done" => ~Holds(Tail(b), "item")
    <3> SUFFICES ASSUME Head(b) = "done", NEW i \in 1 .. Len(Tail(b))
                 PROVE  Tail(b)[i] # "item"
      BY DEF Holds
    <3>1. i + 1 \in 1 .. Len(b) /\ 1 < i + 1 /\ b[1] = "done"
      BY <2>2
    <3> QED BY <1>0, <2>2, <3>1
  <2>5. ASSUME NEW i \in 1 .. Len(Tail(b)), NEW j \in 1 .. Len(Tail(b)), i < j,
               Tail(b)[i] = "done"
        PROVE  Tail(b)[j] # "item"
    <3>1. i + 1 < j + 1
      BY <2>2, <2>5
    <3> QED BY <1>0, <2>2, <2>5, <3>1
  <2>6. reader' = reader
    BY <1>1 DEF FlushReader, readerAt
  <2>7. (readerDone' \/ Holds(b, "done")' => reader' \in Left)
    <3>1. Holds(b, "done")' => Holds(b, "done")
      BY <2>1, <2>3
    <3>2. readerDone' => readerDone \/ Holds(b, "done")
      BY <2>1, <2>3
    <3> QED BY <1>0, <2>6, <3>1, <3>2
  <2>8. readerDone' => ~Holds(b, "item")'
    <3>1. readerDone' => readerDone \/ Head(b) = "done"
      BY <2>1
    <3> QED BY <1>0, <2>1, <2>3, <2>4, <3>1
  <2>9. readerDone => readerDone'
    BY <2>1
  <2> QED BY <2>1, <2>5, <2>7, <2>8, <2>9
<1>2. ASSUME ~FlushReader, NEW x \in {"item", "done", "clear"}, b' = Append(b, x),
             x = "item" => reader = "push",
             x # "item" => reader' \in Left
      PROVE  /\ readerDone' \/ Holds(b, "done")' => reader' \in Left
             /\ readerDone' => ~Holds(b, "item")'
             /\ \A i, j \in 1 .. Len(b') : i < j /\ b'[i] = "done" => b'[j] # "item"
             /\ readerDone => readerDone'
  <2>1. readerDone' = readerDone
    BY <1>0, <1>2 DEF SwitchFrame
  <2>2. \A s : Holds(b, s)' => Holds(b, s) \/ x = s
    BY <1>0, <1>2, AppendHolds DEF Stores
  <2>3. /\ Len(b') = Len(b) + 1 /\ Len(b) \in Nat /\ b'[Len(b) + 1] = x
        /\ \A i \in 1 .. Len(b) : b'[i] = b[i]
    BY <1>0, <1>2 DEF Stores
  <2>4. x = "item" => ~readerDone /\ ~Holds(b, "done")
    BY <1>0, <1>2 DEF Left, Leaving
  <2>5. ASSUME NEW i \in 1 .. Len(b'), NEW j \in 1 .. Len(b'), i < j, b'[i] = "done"
        PROVE  b'[j] # "item"
    <3>1. i \in 1 .. Len(b) /\ (j \in 1 .. Len(b) \/ j = Len(b) + 1)
      BY <2>3, <2>5
    <3>2. b[i] = "done" /\ Holds(b, "done")
      BY <2>3, <2>5, <3>1 DEF Holds
    <3>3. x # "item"
      BY <2>4, <3>2
    <3> QED BY <1>0, <2>3, <2>5, <3>1, <3>2, <3>3
  <2>6. readerDone' \/ Holds(b, "done")' => reader' \in Left
    BY <1>0, <1>2, <2>1, <2>2 DEF Order
  <2>7. readerDone' => ~Holds(b, "item")'
    BY <1>0, <2>1, <2>2, <2>4
  <2> QED BY <2>1, <2>5, <2>6, <2>7
<1>3. CASE ~FlushReader /\ UNCHANGED b
  <2>1. readerDone' = readerDone
    BY <1>0, <1>3 DEF SwitchFrame
  <2>2. \A s : Holds(b, s)' <=> Holds(b, s)
    BY <1>3 DEF Holds
  <2> QED BY <1>0, <1>3, <2>1, <2>2 DEF Order
<1>4. CASE ~FlushReader /\ ~UNCHANGED b
  <2>1. Push \/ Leave \/ Close
    BY <1>0, <1>4 DEF Frame
  <2>2. CASE Push
    <3>1. b' = Append(b, "item") /\ reader = "push"
      BY <1>4, <2>2 DEF Push
    <3> QED BY <1>2, <1>4, <3>1
  <2>3. CASE Leave
    <3>1. b' = Append(b, "done") /\ reader' \in Left
      BY <1>4, <2>3 DEF Leave, Left, Leaving
    <3> QED BY <1>2, <1>4, <3>1
  <2>4. CASE Close
    <3>1. b' = Append(b, "clear") /\ reader' \in Left
      BY <1>4, <2>4 DEF Close, Left, Leaving
    <3> QED BY <1>2, <1>4, <3>1
  <2> QED BY <2>1, <2>2, <2>3, <2>4
<1> QED BY <1>1, <1>3, <1>4

LEMMA EndsNext == RunInv /\ [Next]_vars => Ends'
<1> SUFFICES ASSUME RunInv, [Next]_vars PROVE Ends'
  OBVIOUS
<1>0. Frame /\ SwitchFrame /\ Order /\ Ends /\ mode' = mode /\ Shapes
  BY Frames DEF RunInv, Framed, Frame, WakeInv
<1>1. draining' \/ worker' \in {"drain", "gone"} => readerDone'
  <2>1. CheckDone => draining' = readerDone
    BY DEF CheckDone
  <2>2. Drained => worker = "drain"
    BY DEF Drained
  <2>3. draining' => readerDone
    BY <1>0, <2>1 DEF SwitchFrame, Ends
  <2>4. readerDone => readerDone'
    BY StoresNext
  <2> QED BY <1>0, <2>2, <2>3, <2>4 DEF Order, Ends
<1>2. worker = "gone" \/ Single => UNCHANGED items
  <2>1. Takes => worker \notin {"none", "gone", "handle", "record"}
    BY Taking
  <2>2. Push => reader = "push"
    BY DEF Push
  <2>3. worker = "gone" => reader # "push"
    BY <1>0 DEF Ends, Left, Leaving
  <2> QED BY <1>0, <2>1, <2>2, <2>3 DEF Frame, Ends
<1>3. worker' = "gone" => items' = <<>>
  <2>1. CASE worker = "gone"
    BY <1>0, <1>2, <2>1 DEF Ends
  <2>2. CASE Drained
    <3>1. worker = "drain" /\ Visible = 0 /\ items' = items
      BY <2>2 DEF Drained
    <3>2. ~Holds(readerStores, "item")
      BY <1>0, <3>1 DEF Ends
    <3> QED BY <1>0, <3>1, <3>2, NothingThere
  <2> QED BY <1>0, <2>1, <2>2 DEF Order
<1>4. Single' => items' = <<>> /\ worker' \in {"none", "handle", "record"}
                /\ reader' \in {"poll", "join worker", "join keeper", "returned"}
  <2>1. Single' <=> Single
    BY <1>0 DEF Single
  <2> QED BY <1>0, <1>2, <2>1 DEF Order, Ends
<1>5. ~Single' => worker' # "none"
  <2>1. Single' <=> Single
    BY <1>0 DEF Single
  <2> QED BY <1>0, <2>1 DEF Order, Ends
<1>6. reader' \in Joined => worker' \in {"none", "gone"}
  BY <1>0 DEF Order, Ends, Joined
<1> QED BY <1>1, <1>3, <1>4, <1>5, <1>6, StoresNext DEF Ends

----------------------------------------------------------------------------
\* d is what went into the housekeeper's queue, one more when r is 1
Delivered(d, done, q, r) ==
  /\ Len(d) = Len(done) + Len(q) + r
  /\ \A i \in 1 .. Len(done) : d[i] = done[i]
  /\ \A i \in 1 .. Len(q) : d[Len(done) + i] = q[i]

LEMMA DeliveredSteps ==
  ASSUME NEW d \in Seq(Pairs), NEW done \in Seq(Pairs), NEW q \in Seq(Pairs)
  PROVE  /\ \A x \in Pairs : Delivered(d, done, q, 0) => Delivered(Append(d, x), done, q, 1)
         /\ \A x \in Pairs : Delivered(d, done, <<>>, 0) =>
                            Delivered(Append(d, x), Append(done, x), <<>>, 0)
         /\ Delivered(d, done, q, 1) => Delivered(d, done, Append(q, d[Len(d)]), 0)
         /\ \A r \in Nat : q # <<>> /\ Delivered(d, done, q, r) =>
                          Delivered(d, Append(done, Head(q)), Tail(q), r)
<1>0. Len(d) \in Nat /\ Len(done) \in Nat /\ Len(q) \in Nat
  OBVIOUS
<1>1. ASSUME NEW x \in Pairs, Delivered(d, done, q, 0)
      PROVE  Delivered(Append(d, x), done, q, 1)
  <2>1. Len(Append(d, x)) = Len(d) + 1 /\ \A i \in 1 .. Len(d) : Append(d, x)[i] = d[i]
    BY <1>1
  <2>2. /\ \A i \in 1 .. Len(done) : i \in 1 .. Len(d)
        /\ \A i \in 1 .. Len(q) : Len(done) + i \in 1 .. Len(d)
    BY <1>0, <1>1 DEF Delivered
  <2> QED BY <1>0, <1>1, <2>1, <2>2 DEF Delivered
<1>2. ASSUME NEW x \in Pairs, Delivered(d, done, <<>>, 0)
      PROVE  Delivered(Append(d, x), Append(done, x), <<>>, 0)
  <2>1. /\ Len(Append(d, x)) = Len(d) + 1 /\ Append(d, x)[Len(d) + 1] = x
        /\ \A i \in 1 .. Len(d) : Append(d, x)[i] = d[i]
        /\ Len(Append(done, x)) = Len(done) + 1 /\ Append(done, x)[Len(done) + 1] = x
        /\ \A i \in 1 .. Len(done) : Append(done, x)[i] = done[i]
    BY <1>2
  <2>2. Len(d) = Len(done) /\ \A i \in 1 .. Len(d) : d[i] = done[i]
    BY <1>0, <1>2 DEF Delivered
  <2>3. ASSUME NEW i \in 1 .. Len(Append(done, x)) PROVE Append(d, x)[i] = Append(done, x)[i]
    <3>1. i \in 1 .. Len(d) \/ i = Len(d) + 1
      BY <1>0, <2>1, <2>2
    <3> QED BY <2>1, <2>2, <3>1
  <2> QED BY <1>0, <2>1, <2>2, <2>3 DEF Delivered
<1>3. ASSUME Delivered(d, done, q, 1)
      PROVE  Delivered(d, done, Append(q, d[Len(d)]), 0)
  <2> DEFINE y == d[Len(d)]
  <2>1. Len(d) = Len(done) + Len(q) + 1 /\ Len(d) \in 1 .. Len(d)
    BY <1>0, <1>3 DEF Delivered
  <2>2. y \in Pairs
    BY <1>0, <2>1
  <2> HIDE DEF y
  <2>3. /\ Len(Append(q, y)) = Len(q) + 1 /\ Append(q, y)[Len(q) + 1] = y
        /\ \A i \in 1 .. Len(q) : Append(q, y)[i] = q[i]
    BY <2>2
  <2>4. ASSUME NEW i \in 1 .. Len(Append(q, y)) PROVE d[Len(done) + i] = Append(q, y)[i]
    <3>1. CASE i = Len(q) + 1
      <4>1. Len(done) + i = Len(d)
        BY <1>0, <2>1, <3>1
      <4> QED BY <2>3, <3>1, <4>1 DEF y
    <3>2. CASE i \in 1 .. Len(q)
      BY <1>3, <2>3, <3>2 DEF Delivered
    <3>3. i \in 1 .. Len(q) \/ i = Len(q) + 1
      BY <1>0, <2>3
    <3> QED BY <3>1, <3>2, <3>3
  <2>5. Len(d) = Len(done) + Len(Append(q, y)) + 0
    BY <1>0, <2>1, <2>3
  <2> QED BY <1>3, <2>4, <2>5 DEF Delivered, y
<1>4. ASSUME NEW r \in Nat, q # <<>>, Delivered(d, done, q, r)
      PROVE  Delivered(d, Append(done, Head(q)), Tail(q), r)
  <2> DEFINE y == Head(q)
             more == Append(done, y)
             rest == Tail(q)
  <2>1. /\ y \in Pairs /\ y = q[1] /\ Len(q) >= 1 /\ Len(rest) = Len(q) - 1
        /\ \A i \in 1 .. Len(rest) : i + 1 \in 1 .. Len(q) /\ rest[i] = q[i + 1]
        /\ 1 \in 1 .. Len(q)
    BY <1>0, <1>4
  <2> HIDE DEF y, rest
  <2>2. /\ Len(more) = Len(done) + 1 /\ more[Len(done) + 1] = y
        /\ \A i \in 1 .. Len(done) : more[i] = done[i]
    BY <2>1
  <2> HIDE DEF more
  <2>3. Len(d) = Len(more) + Len(rest) + r
    BY <1>0, <1>4, <2>1, <2>2 DEF Delivered
  <2>4. ASSUME NEW i \in 1 .. Len(more) PROVE d[i] = more[i]
    <3>1. CASE i = Len(done) + 1
      BY <1>4, <2>1, <2>2, <3>1 DEF Delivered
    <3>2. CASE i \in 1 .. Len(done)
      BY <1>4, <2>2, <3>2 DEF Delivered
    <3>3. i \in 1 .. Len(done) \/ i = Len(done) + 1
      BY <1>0, <2>2
    <3> QED BY <3>1, <3>2, <3>3
  <2>5. ASSUME NEW i \in 1 .. Len(rest) PROVE d[Len(more) + i] = rest[i]
    <3>1. Len(more) + i = Len(done) + (i + 1)
      BY <1>0, <2>2
    <3> QED BY <1>4, <2>1, <3>1 DEF Delivered
  <2> QED BY <2>3, <2>4, <2>5 DEF Delivered, y, more, rest
<1> QED BY <1>1, <1>2, <1>3, <1>4

LEMMA SummariesNext == RunInv /\ [Next]_vars => Summaries'
<1> DEFINE d == probe.decisions
           r == IF worker = "record" THEN 1 ELSE 0
<1> SUFFICES ASSUME RunInv, [Next]_vars, probe'.refused = 0, mode.hk # "none"
             PROVE  Delivered(d', summarized', hkq', r')
  <2>1. RunInv /\ [Next]_vars => mode' = mode
    BY Frames DEF Framed, Frame
  <2> QED BY <2>1 DEF Summaries, Delivered
<1>0. /\ Frame /\ Order /\ mode.hk \in {"none", "inline", "thread"}
      /\ d \in Seq(Pairs) /\ summarized \in Seq(Pairs) /\ hkq \in Seq(Pairs) /\ r \in Nat
      /\ KeeperEnds
  BY Frames, ProbeFields, StrategyAssumption DEF RunInv, Framed, ProbeOK, Contents, Counters
<1>1. ~HandleRefused
  BY RefusedEffect
<1>2. probe.refused = 0
  BY <1>0, <1>1, MismatchEffect, TradeEffect, AckEffect DEF Frame, Handles
<1>3. Delivered(d, summarized, hkq, r)
  BY <1>2 DEF RunInv, Summaries, Delivered
<1>4. CASE HandleTrade
  <2>1. /\ Feature \in Pairs /\ d' = Append(d, Feature)
        /\ worker = "handle" /\ UNCHANGED hkq
        /\ summarized' = IF mode.hk = "inline" THEN Append(summarized, Feature) ELSE summarized
        /\ worker' = IF mode.hk = "thread" THEN "record" ELSE Resumed
    <3>1. d' = Append(d, Feature) /\ Feature \in Pairs
      BY <1>4, TradeEffect
    <3> QED BY <1>4, <3>1 DEF HandleTrade, TradeTaken
  <2>2. r = 0
    BY <2>1
  <2>3. CASE mode.hk = "thread"
    <3>1. r' = 1 /\ summarized' = summarized
      BY <2>1, <2>3
    <3>2. Delivered(Append(d, Feature), summarized, hkq, 1)
      BY <1>0, <1>3, <2>1, <2>2, DeliveredSteps
    <3> QED BY <2>1, <3>1, <3>2
  <2>4. CASE mode.hk = "inline"
    <3>1. r' = 0 /\ summarized' = Append(summarized, Feature)
      BY <2>1, <2>4, ResumedIs
    <3>2. hkq = <<>>
      BY <1>0, <2>4 DEF KeeperEnds
    <3>3. Delivered(Append(d, Feature), Append(summarized, Feature), <<>>, 0)
      BY <1>0, <1>3, <2>1, <2>2, <3>2, DeliveredSteps
    <3> QED BY <2>1, <3>1, <3>2, <3>3
  <2> QED BY <1>0, <2>3, <2>4
<1>5. CASE Record
  <2>1. /\ worker = "record" /\ worker' # "record" /\ summarized' = summarized
        /\ hkq' = Append(hkq, d[Len(d)]) /\ d' = d
    BY <1>5, ResumedIs DEF Record
  <2>2. r = 1 /\ r' = 0
    BY <2>1
  <2> QED BY <1>0, <1>3, <2>1, <2>2, DeliveredSteps
<1>6. CASE Summarize
  <2>1. /\ hkq # <<>> /\ hkq' = Tail(hkq) /\ summarized' = Append(summarized, Head(hkq))
        /\ UNCHANGED <<probe, worker>>
    BY <1>6 DEF Summarize, workerAt
  <2>2. d' = d /\ r' = r
    BY <2>1
  <2> QED BY <1>0, <1>3, <2>1, <2>2, DeliveredSteps
<1>7. CASE ~(HandleTrade \/ Record \/ Summarize)
  <2>1. d' = d
    BY <1>0, <1>1, <1>7, MismatchEffect, AckEffect DEF Frame, Handles
  <2>2. hkq' = hkq /\ summarized' = summarized /\ (worker' = "record" <=> worker = "record")
    BY <1>0, <1>7 DEF Frame
  <2>3. r' = r
    BY <2>2
  <2> QED BY <1>3, <2>1, <2>2, <2>3
<1> QED BY <1>4, <1>5, <1>6, <1>7

----------------------------------------------------------------------------
(* Orders in the order they were sent.  The engine acknowledges the oldest,*)
LEMMA NewerAcked ==
  ASSUME NEW o \in Nat, NEW a \in Seq(Nat), NEW c \in Seq(Nat), c # <<>>,
         Newer(<<o>>, a), Newer(<<o>>, c), Newer(a, c)
  PROVE  /\ Newer(<<o>>, Append(a, Head(c))) /\ Newer(<<o>>, Tail(c))
         /\ Newer(Append(a, Head(c)), Tail(c))
<1> DEFINE h == Head(c)
           b == Append(a, h)
           t == Tail(c)
<1>1. /\ h = c[1] /\ h \in Nat /\ Len(c) \in Nat /\ 1 \in 1 .. Len(c) /\ Len(t) = Len(c) - 1
      /\ \A i \in 1 .. Len(t) : i + 1 \in 1 .. Len(c) /\ t[i] = c[i + 1] /\ 1 < i + 1
      /\ Len(a) \in Nat
  OBVIOUS
<1> HIDE DEF h, t
<1>2. /\ Len(b) = Len(a) + 1 /\ b[Len(a) + 1] = h /\ \A i \in 1 .. Len(a) : b[i] = a[i]
      /\ \A i \in 1 .. Len(b) : i \in 1 .. Len(a) \/ i = Len(a) + 1
  BY <1>1
<1> HIDE DEF b
<1>3. Len(<<o>>) = 1 /\ <<o>>[1] = o
  OBVIOUS
<1>4. /\ \A i \in 1 .. Len(a) : o < a[i]
      /\ \A i \in 1 .. Len(c) : o < c[i]
      /\ \A i \in 1 .. Len(a), j \in 1 .. Len(c) : a[i] < c[j]
      /\ \A i, j \in 1 .. Len(a) : i < j => a[i] < a[j]
      /\ \A i, j \in 1 .. Len(c) : i < j => c[i] < c[j]
  BY <1>3 DEF Newer
<1>5. \A i \in 1 .. Len(b) : o < b[i]
  BY <1>1, <1>2, <1>4
<1>6. \A i, j \in 1 .. Len(b) : i < j => b[i] < b[j]
  <2> SUFFICES ASSUME NEW i \in 1 .. Len(b), NEW j \in 1 .. Len(b), i < j PROVE b[i] < b[j]
    OBVIOUS
  <2>1. i \in 1 .. Len(a)
    BY <1>1, <1>2
  <2>2. CASE j \in 1 .. Len(a)
    BY <1>2, <1>4, <2>1, <2>2
  <2>3. CASE j = Len(a) + 1
    BY <1>1, <1>2, <1>4, <2>1, <2>3
  <2> QED BY <1>2, <2>2, <2>3
<1>7. \A i \in 1 .. Len(t) : o < t[i] /\ h < t[i]
  BY <1>1, <1>4
<1>8. \A i, j \in 1 .. Len(t) : i < j => t[i] < t[j]
  <2> SUFFICES ASSUME NEW i \in 1 .. Len(t), NEW j \in 1 .. Len(t), i < j PROVE t[i] < t[j]
    OBVIOUS
  <2>1. i + 1 < j + 1
    BY <1>1
  <2> QED BY <1>1, <1>4, <2>1
<1>9. \A i \in 1 .. Len(b), j \in 1 .. Len(t) : b[i] < t[j]
  BY <1>1, <1>2, <1>4, <1>7
<1>10. Newer(<<o>>, b) /\ Newer(<<o>>, t) /\ Newer(b, t)
  BY <1>3, <1>5, <1>6, <1>7, <1>8, <1>9 DEF Newer
<1> QED BY <1>10 DEF b, h, t

(* the reader reads the oldest Ack,                                        *)
LEMMA NewerRead ==
  ASSUME NEW a \in Seq(Nat), NEW c \in Seq(Nat), a # <<>>, NEW o \in Nat,
         Newer(<<o>>, a), Newer(a, c)
  PROVE  /\ Newer(<<Head(a)>>, Tail(a)) /\ Newer(<<Head(a)>>, c) /\ Newer(Tail(a), c)
         /\ o < Head(a)
<1> DEFINE h == Head(a)
           t == Tail(a)
<1>1. /\ h = a[1] /\ Len(a) \in Nat /\ 1 \in 1 .. Len(a) /\ Len(t) = Len(a) - 1
      /\ \A i \in 1 .. Len(t) : i + 1 \in 1 .. Len(a) /\ t[i] = a[i + 1] /\ 1 < i + 1
  OBVIOUS
<1> HIDE DEF h, t
<1>2. Len(<<h>>) = 1 /\ <<h>>[1] = h /\ Len(<<o>>) = 1 /\ <<o>>[1] = o
  OBVIOUS
<1>3. /\ \A i \in 1 .. Len(a), j \in 1 .. Len(c) : a[i] < c[j]
      /\ \A i, j \in 1 .. Len(a) : i < j => a[i] < a[j]
      /\ \A i, j \in 1 .. Len(c) : i < j => c[i] < c[j]
      /\ \A i \in 1 .. Len(a) : o < a[i]
  BY <1>2 DEF Newer
<1>4. \A i \in 1 .. Len(t) : h < t[i]
  BY <1>1, <1>3
<1>5. \A i, j \in 1 .. Len(t) : i < j => t[i] < t[j]
  <2> SUFFICES ASSUME NEW i \in 1 .. Len(t), NEW j \in 1 .. Len(t), i < j PROVE t[i] < t[j]
    OBVIOUS
  <2>1. i + 1 < j + 1
    BY <1>1
  <2> QED BY <1>1, <1>3, <2>1
<1>6. \A j \in 1 .. Len(c) : h < c[j] /\ \A i \in 1 .. Len(t) : t[i] < c[j]
  BY <1>1, <1>3
<1> QED BY <1>1, <1>2, <1>3, <1>4, <1>5, <1>6 DEF Newer, h, t

(* and the worker sends a newer one.                                       *)
LEMMA NewerSent ==
  ASSUME NEW a \in Seq(Nat), NEW c \in Seq(Nat), NEW x \in Nat, Newer(a, c),
         \A i \in 1 .. Len(a) : a[i] < x, \A i \in 1 .. Len(c) : c[i] < x
  PROVE  Newer(a, Append(c, x))
<1> DEFINE d == Append(c, x)
<1>1. /\ Len(c) \in Nat /\ d[Len(c) + 1] = x /\ \A i \in 1 .. Len(c) : d[i] = c[i]
      /\ \A i \in 1 .. Len(d) : i \in 1 .. Len(c) \/ i = Len(c) + 1
  OBVIOUS
<1> HIDE DEF d
<1>2. /\ \A i \in 1 .. Len(a), j \in 1 .. Len(c) : a[i] < c[j]
      /\ \A i, j \in 1 .. Len(c) : i < j => c[i] < c[j]
  BY DEF Newer
<1>3. \A i \in 1 .. Len(a), j \in 1 .. Len(d) : a[i] < d[j]
  BY <1>1, <1>2
<1>4. ASSUME NEW i \in 1 .. Len(d), NEW j \in 1 .. Len(d), i < j PROVE d[i] < d[j]
  <2>1. CASE j \in 1 .. Len(c)
    <3>1. i \in 1 .. Len(c)
      BY <1>1, <1>4, <2>1
    <3> QED BY <1>1, <1>2, <1>4, <2>1, <3>1
  <2>2. CASE j = Len(c) + 1
    <3>1. i \in 1 .. Len(c)
      BY <1>1, <1>4, <2>2
    <3> QED BY <1>1, <2>2, <3>1
  <2> QED BY <1>1, <2>1, <2>2
<1> QED BY <1>3, <1>4 DEF Newer, d

----------------------------------------------------------------------------
\* the points are in order
LEMMA FlowOrder ==
  ASSUME RunInv, NEW first, NEW at, NEW last, Flow(first, at, last)
  PROVE  /\ Len(items) \in Nat /\ IsSequence(items) /\ probe.unacked \in SUBSET Nat
         /\ first \in Point /\ at[1] \in Point /\ at[Len(items) + 1] \in Point /\ last \in Point
         /\ at[1][2] <= at[Len(items) + 1][2] /\ at[Len(items) + 1][2] <= last[2]
         /\ \A p \in Point : p[1] \in Nat /\ p[2] \in Nat
<1>1. IsSequence(items) /\ Len(items) \in Nat
  BY DEF RunInv, WakeInv, Shapes, IsSequence
<1>2. probe.unacked \in SUBSET Nat
  BY ProbeFields DEF RunInv, ProbeOK
<1>3. Queued(items, at, missed, Split, probe.unacked)
      /\ Pushing(at[Len(items) + 1], last) /\ first \in Point /\ last \in Point
  BY DEF Flow
<1>4. at[1] \in Point /\ at[Len(items) + 1] \in Point /\ at[1][2] <= at[Len(items) + 1][2]
  <2>1. 1 \in 1 .. Len(items) + 1 /\ Len(items) + 1 \in 1 .. Len(items) + 1
    BY <1>1
  <2> QED BY <1>1, <1>3, <2>1 DEF Queued
<1>5. \A p \in Point : p[1] \in Nat /\ p[2] \in Nat
  BY DEF Point
<1>6. at[Len(items) + 1][2] <= last[2]
  <2>1. CASE reader = "push"
    BY <1>2, <1>3, <1>4, <2>1, LeadsOn DEF Pushing
  <2>2. CASE reader # "push"
    BY <1>3, <1>5, <2>2 DEF Pushing
  <2> QED BY <2>1, <2>2
<1> QED BY <1>1, <1>2, <1>3, <1>4, <1>5, <1>6

LEMMA FlowSame ==
  ASSUME NEW first, NEW at, NEW last, Flow(first, at, last), FlowFrame, mode' = mode
  PROVE  InFlight'
<1>1. Flow(first, at, last)'
  BY DEF Flow, FlowFrame, Handling, Pushing, Awaited, Split
<1> QED BY <1>1 DEF InFlight

LEMMA FlowEngineAck ==
  ASSUME RunInv, NEW first, NEW at, NEW last, Flow(first, at, last), EngineAck
  PROVE  InFlight'
<1>1. /\ commands # <<>> /\ commands' = Tail(commands) /\ acked' = Append(acked, Head(commands))
      /\ UNCHANGED <<mode, cursor, missed, probe, items, worker, taken, reader, msg>>
  BY DEF EngineAck, input, readerAt, workerAt
<1>2. commands \in Seq(Nat) /\ acked \in Seq(Nat) /\ last[2] \in Nat
  BY FlowOrder DEF RunInv, Contents
<1>3. Awaited(last[2])
  BY DEF Flow
<1>4. Awaited(last[2])'
  <2>1. /\ Newer(<<last[2]>>, acked)' /\ Newer(<<last[2]>>, commands)' /\ Newer(acked, commands)'
    BY <1>1, <1>2, <1>3, NewerAcked DEF Awaited
  <2>2. ASSUME NEW i \in 1 .. Len(acked') PROVE acked'[i] \in probe.unacked
    <3>1. CASE i \in 1 .. Len(acked)
      BY <1>1, <1>2, <1>3, <3>1 DEF Awaited
    <3>2. CASE i = Len(acked) + 1
      <4>1. acked'[i] = commands[1] /\ 1 \in 1 .. Len(commands)
        BY <1>1, <1>2, <3>2
      <4> QED BY <1>3, <4>1 DEF Awaited
    <3> QED BY <1>1, <1>2, <3>1, <3>2
  <2>3. ASSUME NEW i \in 1 .. Len(commands') PROVE commands'[i] \in probe.unacked
    <3>1. commands'[i] = commands[i + 1] /\ i + 1 \in 1 .. Len(commands)
      BY <1>1, <1>2
    <3> QED BY <1>3, <3>1 DEF Awaited
  <2> QED BY <1>1, <1>3, <2>1, <2>2, <2>3 DEF Awaited
<1>5. Flow(first, at, last)'
  BY <1>1, <1>4 DEF Flow, Handling, Pushing, Split
<1> QED BY <1>5 DEF InFlight

(* The reader takes an event that leads on from where it stands.           *)
LEMMA FlowGiven ==
  ASSUME RunInv, NEW first, NEW at, NEW last, Flow(first, at, last),
         MayPoll, NEW e, Give(e), NEW next \in Point,
         Leads(e, last, next, missed', Split, probe.unacked), missed' = 0 => missed = 0,
         UNCHANGED <<mode, items, probe>>, cursor' = missed' + next[1], Awaited(next[2])'
  PROVE  InFlight'
<1> DEFINE n == Len(items) + 1
<1>1. reader = "poll" /\ at[n] = last /\ n \in Nat
  BY FlowOrder DEF MayPoll, Flow, Pushing
<1>2. Queued(items, at, missed', Split, probe.unacked)
  <2>1. Queued(items, at, missed, Split, probe.unacked)
    BY DEF Flow
  <2> QED BY <2>1, QueuedStill
<1>3. CASE ~Single
  <2>1. /\ reader' = "push" /\ msg' = e /\ worker' = worker /\ taken' = taken
    BY <1>3 DEF Give, workerAt
  <2>2. Handling(first, at[1])'
    <3>1. Handling(first, at[1])
      BY DEF Flow
    <3>2. CASE worker = "handle"
      <4>1. Leads(taken, first, at[1], missed', Split, probe.unacked)
        BY <3>1, <3>2 DEF Handling, Leads
      <4> QED BY <2>1, <3>2, <4>1 DEF Handling, Split
    <3>3. CASE worker # "handle"
      BY <2>1, <3>1, <3>3 DEF Handling
    <3> QED BY <3>2, <3>3
  <2>3. Pushing(at[n], next)'
    BY <1>1, <2>1 DEF Pushing, Split
  <2>4. Flow(first, at, next)'
    BY <1>2, <2>2, <2>3 DEF Flow, Split
  <2> QED BY <2>4 DEF InFlight
<1>4. CASE Single
  <2> DEFINE to == [i \in 1 .. 1 |-> next]
  <2>1. /\ worker' = "handle" /\ taken' = e /\ reader' = "poll" /\ worker = "none"
        /\ items = <<>>
    BY <1>1, <1>4 DEF Give, readerAt, MayPoll, RunInv, Ends
  <2>2. at[1] = first /\ n = 1
    BY <2>1 DEF Flow, Handling
  <2>3. Queued(items, to, missed', Split, probe.unacked)
    BY <2>1, QueuedOne
  <2>4. to[1] = next
    OBVIOUS
  <2> HIDE DEF to
  <2>5. Handling(first, to[1])' /\ Pushing(to[n], next)'
    BY <1>1, <2>1, <2>2, <2>4 DEF Handling, Pushing, Split
  <2>6. Flow(first, to, next)'
    BY <2>3, <2>5 DEF Flow, Split
  <2> QED BY <2>6 DEF InFlight
<1> QED BY <1>3, <1>4

LEMMA FlowPollAck ==
  ASSUME RunInv, NEW first, NEW at, NEW last, Flow(first, at, last), PollAck,
         NEW o, o = Head(acked)
  PROVE  InFlight'
<1> DEFINE next == <<last[1], o>>
           e == Event("Ack", o, Unset)
<1>1. /\ MayPoll /\ acked # <<>> /\ acked' = Tail(acked) /\ Give(e)
      /\ UNCHANGED <<mode, commands, cursor, missed, items, probe>>
  BY DEF PollAck, input
<1>2. /\ commands \in Seq(Nat) /\ acked \in Seq(Nat) /\ last[2] \in Nat /\ last[1] \in Nat
      /\ probe.unacked \subseteq 1 .. probe.issued
  BY FlowOrder DEF RunInv, Contents, ProbeOK
<1>3. Awaited(last[2])
  BY DEF Flow
<1>4. o = acked[1] /\ 1 \in 1 .. Len(acked) /\ o \in Nat
  BY <1>1, <1>2
<1>5. o \in probe.unacked /\ o <= probe.issued
  BY <1>2, <1>3, <1>4 DEF Awaited
<1>6. last[2] < o /\ Newer(<<o>>, acked') /\ Newer(<<o>>, commands) /\ Newer(acked', commands)
  BY <1>1, <1>2, <1>3, NewerRead DEF Awaited
<1>7. next \in Point /\ next[1] = last[1] /\ next[2] = o
  BY <1>2, <1>4 DEF Point
<1>8. Leads(e, last, next, missed', Split, probe.unacked)
  BY <1>5, <1>6 DEF Leads, Event
<1>9. Awaited(o)'
  <2>1. ASSUME NEW i \in 1 .. Len(acked') PROVE acked'[i] \in probe.unacked
    <3>1. acked'[i] = acked[i + 1] /\ i + 1 \in 1 .. Len(acked)
      BY <1>1, <1>2
    <3> QED BY <1>3, <3>1 DEF Awaited
  <2>2. \A i \in 1 .. Len(commands) : commands[i] \in probe.unacked
    BY <1>3 DEF Awaited
  <2>3. commands' = commands /\ probe' = probe
    BY <1>1
  <2> HIDE DEF next, e
  <2> QED BY <1>5, <1>6, <2>1, <2>2, <2>3 DEF Awaited
<1>10. cursor' = missed' + next[1] /\ (missed' = 0 => missed = 0) /\ UNCHANGED <<mode, items, probe>>
  BY <1>1, <1>7 DEF Flow
<1>11. Awaited(next[2])'
  BY <1>7, <1>9
<1>12. MayPoll /\ Give(e)
  BY <1>1
<1> HIDE DEF next, e
<1> QED BY <1>7, <1>8, <1>10, <1>11, <1>12, FlowGiven

LEMMA FlowPollTrade ==
  ASSUME RunInv, NEW first, NEW at, NEW last, Flow(first, at, last), PollTrade
  PROVE  InFlight'
<1>1. PICK n \in Nat : /\ cursor <= n /\ missed' = missed + (n - cursor) /\ cursor' = n + 1
                     /\ Give(Event("Trade", n, IF Split THEN StageA(k, n) ELSE Unset))
  BY Polled DEF RunInv
<1> DEFINE e == Event("Trade", n, IF Split THEN StageA(k, n) ELSE Unset)
           next == <<last[1] + 1, last[2]>>
<1>2. MayPoll /\ UNCHANGED <<mode, items, probe, commands, acked>>
  BY DEF PollTrade, channels
<1>3. last[1] \in Nat /\ last[2] \in Nat /\ cursor = missed + last[1]
  BY FlowOrder DEF Flow
<1>4. missed \in Nat /\ (Split => k = cursor - missed)
  <2>1. Steps \in Nat
    BY StrategyAssumption
  <2> QED BY <2>1 DEF RunInv, Counters
<1>5. /\ missed' = 0 => missed = 0 /\ n = last[1]
      /\ cursor' = missed' + (last[1] + 1)
      /\ Split => k = last[1]
  BY <1>1, <1>3, <1>4
<1>6. next \in Point /\ next[1] = last[1] + 1 /\ next[2] = last[2]
  BY <1>3 DEF Point
<1>7. Leads(e, last, next, missed', Split, probe.unacked)
  BY <1>5 DEF Leads, Event
<1>8. Awaited(next[2])'
  BY <1>2, <1>6 DEF Flow, Awaited
<1> HIDE DEF next
<1> QED BY <1>1, <1>2, <1>5, <1>6, <1>7, <1>8, FlowGiven

FlowEnds(first, last) ==
  /\ first \in Point /\ last \in Point
  /\ probe.trades = first[1] /\ cursor = missed + last[1]
  /\ Awaited(last[2])

LEMMA FlowFrom ==
  ASSUME NEW first, NEW to, NEW last, FlowEnds(first, last)',
         Queued(items, to, missed, Split, probe.unacked)', Handling(first, to[1])',
         Pushing(to[Len(items) + 1], last)'
  PROVE  InFlight'
<1>1. Flow(first, to, last)'
  BY DEF Flow, FlowEnds
<1> QED BY <1>1 DEF InFlight

(* An event goes into the queue, and comes out of it.                      *)
LEMMA FlowPush ==
  ASSUME RunInv, NEW first, NEW at, NEW last, Flow(first, at, last), Push
  PROVE  InFlight'
<1>1. /\ reader = "push" /\ reader' # "push" /\ items' = Append(items, msg)
      /\ UNCHANGED <<mode, commands, acked, cursor, missed, probe, worker, taken>>
  BY DEF Push, channels, input, workerAt
<1>2. /\ IsSequence(items) /\ Len(items) \in Nat /\ probe.unacked \in SUBSET Nat
      /\ Queued(items, at, missed, Split, probe.unacked)
      /\ Leads(msg, at[Len(items) + 1], last, missed, Split, probe.unacked)
  BY <1>1, FlowOrder DEF Flow, Pushing
<1>3. PICK to : /\ Queued(Append(items, msg), to, missed, Split, probe.unacked)
                /\ to[1] = at[1] /\ to[Len(items) + 2] = last
  BY <1>2, QueuedAppend
<1>4. Len(items') + 1 = Len(items) + 2
  <2>1. PICK S : items \in Seq(S)
    BY <1>2 DEF IsSequence
  <2> QED BY <1>1, <2>1
<1>5. Queued(items, to, missed, Split, probe.unacked)'
  BY <1>1, <1>3 DEF Split
<1>6. Handling(first, to[1])'
  <2>1. Handling(first, to[1])
    BY <1>3 DEF Flow
  <2> QED BY <1>1, <2>1 DEF Handling, Split
<1>7. Pushing(to[Len(items) + 1], last)'
  BY <1>1, <1>3, <1>4 DEF Pushing
<1>8. FlowEnds(first, last)'
  BY <1>1 DEF Flow, FlowEnds, Awaited
<1> QED BY <1>5, <1>6, <1>7, <1>8, FlowFrom

LEMMA FlowTake ==
  ASSUME RunInv, NEW first, NEW at, NEW last, Flow(first, at, last), Takes
  PROVE  InFlight'
<1>1. UNCHANGED <<mode, commands, acked, cursor, missed, probe, reader, msg>>
  BY DEF Takes, Pop, Recheck, LastTry, Rewait, channels, input, readerAt
<1>2. CASE /\ items # <<>> /\ taken' = Head(items) /\ items' = Tail(items)
           /\ worker # "handle" /\ worker' = "handle"
  <2>1. /\ IsSequence(items) /\ probe.unacked \in SUBSET Nat
        /\ Queued(items, at, missed, Split, probe.unacked) /\ at[1] = first
    BY <1>2, FlowOrder DEF Flow, Handling
  <2>2. PICK to : /\ Queued(Tail(items), to, missed, Split, probe.unacked)
                  /\ Leads(Head(items), at[1], to[1], missed, Split, probe.unacked)
                  /\ to[Len(Tail(items)) + 1] = at[Len(items) + 1]
    BY <1>2, <2>1, QueuedTail
  <2>3. Queued(items, to, missed, Split, probe.unacked)'
    BY <1>1, <1>2, <2>2 DEF Split
  <2>4. Handling(first, to[1])'
    BY <1>1, <1>2, <2>1, <2>2 DEF Handling, Split
  <2>5. Pushing(to[Len(items) + 1], last)'
    <3>1. Pushing(at[Len(items) + 1], last)
      BY DEF Flow
    <3>2. to[Len(items') + 1] = at[Len(items) + 1]
      BY <1>2, <2>2
    <3> QED BY <1>1, <3>1, <3>2 DEF Pushing, Split
  <2>6. FlowEnds(first, last)'
    BY <1>1 DEF Flow, FlowEnds, Awaited
  <2> QED BY <2>3, <2>4, <2>5, <2>6, FlowFrom
<1>3. CASE /\ UNCHANGED <<items, taken>> /\ worker # "handle" /\ worker' # "handle"
  <2>1. FlowFrame
    BY <1>1, <1>3 DEF FlowFrame
  <2> QED BY <1>1, <2>1, FlowSame
<1> QED BY <1>2, <1>3, Taking

(* The worker has handled an event: the probe stands where the next begins.*)
LEMMA FlowHandled ==
  ASSUME RunInv, NEW first, NEW at, NEW last, Flow(first, at, last),
         worker' # "handle", UNCHANGED <<mode, items, cursor, missed, reader, msg>>,
         probe'.trades = at[1][1], Queued(items, at, missed, Split, probe'.unacked),
         reader = "push" /\ msg.kind = "Ack" => msg.n \in probe'.unacked,
         Awaited(last[2])'
  PROVE  InFlight'
<1>1. at[1] \in Point /\ last \in Point
  BY FlowOrder
<1>2. Queued(items, at, missed, Split, probe.unacked)'
  BY DEF Split
<1>3. Handling(at[1], at[1])'
  BY DEF Handling
<1>4. Pushing(at[Len(items) + 1], last)'
  <2>1. Pushing(at[Len(items) + 1], last)
    BY DEF Flow
  <2>2. CASE reader = "push"
    <3>1. Leads(msg, at[Len(items) + 1], last, missed, Split, probe'.unacked)
      BY <2>1, <2>2, LeadsStill DEF Pushing
    <3> QED BY <2>2, <3>1 DEF Pushing, Split
  <2>3. CASE reader # "push"
    BY <2>1, <2>3 DEF Pushing
  <2> QED BY <2>2, <2>3
<1>5. FlowEnds(at[1], last)'
  BY <1>1 DEF Flow, FlowEnds
<1> QED BY <1>2, <1>3, <1>4, <1>5, FlowFrom

LEMMA FlowHandle ==
  ASSUME RunInv, NEW first, NEW at, NEW last, Flow(first, at, last), Handles
  PROVE  InFlight'
<1> DEFINE u == probe.unacked
<1>1. /\ worker = "handle" /\ worker' # "handle"
      /\ UNCHANGED <<mode, items, cursor, missed, reader, msg, acked>>
      /\ HandleTrade \/ UNCHANGED commands
      /\ taken.kind = IF HandleAck THEN "Ack" ELSE "Trade"
  <2>1. /\ worker = "handle"
        /\ UNCHANGED <<mode, items, cursor, missed, reader, msg, acked>>
        /\ HandleTrade \/ UNCHANGED commands
    BY DEF Handles, HandleMismatch, HandleRefused, HandleTrade, HandleAck, TradeTaken,
           channels, input, readerAt
  <2>2. worker' # "handle"
    BY MismatchEffect, RefusedEffect, TradeEffect, AckEffect DEF Handles
  <2>3. HandleAck => taken.kind = "Ack"
    BY DEF HandleAck
  <2>4. HandleMismatch \/ HandleRefused \/ HandleTrade => taken.kind = "Trade"
    BY DEF HandleMismatch, HandleRefused, HandleTrade, TradeTaken
  <2> QED BY <2>1, <2>2, <2>3, <2>4 DEF Handles
<1>2. /\ Leads(taken, first, at[1], missed, Split, u) /\ Awaited(last[2])
      /\ Queued(items, at, missed, Split, u) /\ Pushing(at[Len(items) + 1], last)
      /\ probe.trades = first[1]
  BY <1>1 DEF Flow, Handling
<1>3. /\ IsSequence(items) /\ u \in SUBSET Nat /\ u \subseteq 1 .. probe.issued
      /\ first \in Point /\ at[1] \in Point /\ at[Len(items) + 1] \in Point /\ last \in Point
      /\ at[1][2] <= at[Len(items) + 1][2] /\ at[Len(items) + 1][2] <= last[2]
      /\ at[1][2] \in Nat /\ at[Len(items) + 1][2] \in Nat /\ last[2] \in Nat
      /\ probe.issued \in Nat
  BY FlowOrder, ProbeFields DEF RunInv, ProbeOK
<1>4. \A i \in 1 .. Len(acked) : acked[i] \in u
  BY <1>2 DEF Awaited
<1>5. \A i \in 1 .. Len(commands) : commands[i] \in u
  BY <1>2 DEF Awaited
<1>6. /\ last[2] <= probe.issued /\ Newer(<<last[2]>>, acked) /\ Newer(<<last[2]>>, commands)
      /\ Newer(acked, commands)
  BY <1>2 DEF Awaited
<1>7. reader = "push" /\ msg.kind = "Ack" => msg.n \in u /\ at[Len(items) + 1][2] < msg.n
  BY <1>2 DEF Pushing, Leads
<1>8. CASE HandleMismatch
  <2>1. ~HandleAck /\ ~HandleTrade
    BY <1>8 DEF HandleMismatch, HandleAck, HandleTrade, TradeTaken
  <2>2. probe'.trades = at[1][1]
    BY <1>1, <1>2, <1>3, <1>8, <2>1, LeadsOn, MismatchEffect
  <2>3. probe'.unacked = u /\ probe'.issued = probe.issued
    BY <1>8, MismatchEffect
  <2>4. Awaited(last[2])'
    BY <1>1, <1>4, <1>5, <1>6, <2>1, <2>3 DEF Awaited
  <2> QED BY <1>1, <1>2, <1>7, <2>2, <2>3, <2>4, FlowHandled
<1>9. CASE HandleRefused
  <2>1. ~HandleAck /\ ~HandleTrade
    <3>1. ~HandleAck
      BY <1>9 DEF HandleRefused, HandleAck, TradeTaken
    <3>2. ~HandleTrade
      BY <1>9, StrategyAssumption DEF HandleRefused, HandleTrade
    <3> QED BY <3>1, <3>2
  <2>2. probe'.trades = at[1][1]
    BY <1>1, <1>2, <1>3, <1>9, <2>1, LeadsOn, RefusedEffect
  <2>3. probe'.unacked = u /\ probe'.issued = probe.issued + 1
    BY <1>9, RefusedEffect
  <2>4. Awaited(last[2])'
    BY <1>1, <1>3, <1>4, <1>5, <1>6, <2>1, <2>3 DEF Awaited
  <2> QED BY <1>1, <1>2, <1>7, <2>2, <2>3, <2>4, FlowHandled
<1>10. CASE HandleTrade
  <2> DEFINE x == probe.issued + 1
             v == u \cup {x}
  <2>1. ~HandleAck
    BY <1>10, AckEffect, TradeEffect, ProbeFields DEF RunInv, ProbeOK
  <2>2. probe'.trades = at[1][1]
    BY <1>1, <1>2, <1>3, <1>10, <2>1, LeadsOn, TradeEffect
  <2>3. probe'.unacked = v /\ probe'.issued = x
    BY <1>10, TradeEffect
  <2>4. commands' = Append(commands, x) /\ commands \in Seq(Nat) /\ acked \in Seq(Nat)
    BY <1>10 DEF HandleTrade, RunInv, Contents
  <2>5. /\ x \in Nat /\ last[2] < x /\ \A i \in 1 .. Len(acked) : acked[i] < x
        /\ \A i \in 1 .. Len(commands) : commands[i] < x
    <3>1. \A o \in u : o < x
      BY <1>3
    <3> QED BY <1>3, <1>4, <1>5, <1>6, <3>1
  <2>6. Newer(<<last[2]>>, commands') /\ Newer(acked, commands')
    <3>1. Newer(acked, commands')
      BY <1>6, <2>4, <2>5, NewerSent
    <3>2. /\ <<last[2]>> \in Seq(Nat) /\ Len(<<last[2]>>) = 1 /\ <<last[2]>>[1] = last[2]
      BY <1>3
    <3>3. \A i \in 1 .. Len(<<last[2]>>) : <<last[2]>>[i] < x
      BY <2>5, <3>2
    <3>4. Newer(<<last[2]>>, Append(commands, x))
      BY <1>6, <2>4, <2>5, <3>2, <3>3, NewerSent
    <3> QED BY <2>4, <3>1, <3>4
  <2>7. \A i \in 1 .. Len(commands') : commands'[i] \in v
    <3> SUFFICES ASSUME NEW i \in 1 .. Len(commands') PROVE commands'[i] \in v
      OBVIOUS
    <3>1. i \in 1 .. Len(commands) \/ i = Len(commands) + 1
      BY <2>4, <2>5
    <3>2. CASE i \in 1 .. Len(commands)
      BY <1>5, <2>4, <2>5, <3>2
    <3>3. CASE i = Len(commands) + 1
      BY <2>4, <2>5, <3>3
    <3> QED BY <3>1, <3>2, <3>3
  <2>8. Queued(items, at, missed, Split, v)
    BY <1>2, QueuedStill
  <2>9. u \subseteq v
    OBVIOUS
  <2> HIDE DEF v
  <2>10. last[2] <= x
    BY <1>3, <2>5
  <2> HIDE DEF x
  <2>11. Awaited(last[2])'
    BY <1>1, <1>4, <1>6, <2>3, <2>6, <2>7, <2>9, <2>10 DEF Awaited
  <2> QED BY <1>1, <1>7, <2>2, <2>3, <2>8, <2>9, <2>11, FlowHandled
<1>11. CASE HandleAck
  <2>1. taken.kind = "Ack" /\ taken.n = at[1][2] /\ at[1][1] = first[1]
    BY <1>1, <1>2, <1>3, <1>11, LeadsOn
  <2> DEFINE o == at[1][2]
             v == u \ {o}
  <2>2. probe'.trades = at[1][1] /\ probe'.unacked = v /\ probe'.issued = probe.issued
    BY <1>2, <1>11, <2>1, AckEffect
  <2>3. ~HandleTrade
    BY <1>11, AckEffect, TradeEffect, ProbeFields DEF RunInv, ProbeOK
  <2>4. Queued(items, at, missed, Split, v)
    BY <1>2, <1>3, QueuedWithout
  <2>5. acked \in Seq(Nat) /\ commands \in Seq(Nat)
    BY DEF RunInv, Contents
  <2>6. /\ \A i \in 1 .. Len(acked) : last[2] < acked[i]
        /\ \A i \in 1 .. Len(commands) : last[2] < commands[i]
    <3>1. Len(<<last[2]>>) = 1 /\ <<last[2]>>[1] = last[2]
      OBVIOUS
    <3> QED BY <1>6, <3>1 DEF Newer
  <2>7. o \in Nat /\ last[2] \in Nat /\ o <= last[2]
    <3>1. /\ at[Len(items) + 1][2] \in Nat /\ o <= at[Len(items) + 1][2]
          /\ at[Len(items) + 1][2] <= last[2] /\ o \in Nat /\ last[2] \in Nat
      BY <1>3
    <3> HIDE DEF o
    <3> QED BY <3>1
  <2>8. \A i \in 1 .. Len(acked) : acked[i] \in v
    <3> SUFFICES ASSUME NEW i \in 1 .. Len(acked) PROVE acked[i] # o
      BY <1>4
    <3>1. last[2] < acked[i] /\ acked[i] \in Nat
      BY <2>5, <2>6
    <3> QED BY <2>7, <3>1
  <2>9. \A i \in 1 .. Len(commands) : commands[i] \in v
    <3> SUFFICES ASSUME NEW i \in 1 .. Len(commands) PROVE commands[i] # o
      BY <1>5
    <3>1. last[2] < commands[i] /\ commands[i] \in Nat
      BY <2>5, <2>6
    <3> QED BY <2>7, <3>1
  <2>10. reader = "push" /\ msg.kind = "Ack" => msg.n \in v
    <3> SUFFICES ASSUME reader = "push", msg.kind = "Ack" PROVE msg.n \in u /\ msg.n # o
      OBVIOUS
    <3>1. msg.n \in u /\ msg.n \in Nat
      BY <1>3, <1>7
    <3> QED BY <1>3, <1>7, <3>1
  <2> HIDE DEF v
  <2>11. Awaited(last[2])'
    BY <1>1, <1>6, <2>2, <2>3, <2>8, <2>9 DEF Awaited
  <2> QED BY <1>1, <2>2, <2>4, <2>10, <2>11, FlowHandled
<1> QED BY <1>8, <1>9, <1>10, <1>11 DEF Handles

LEMMA InFlightNext == RunInv /\ [Next]_vars => InFlight'
<1> SUFFICES ASSUME RunInv, [Next]_vars PROVE InFlight'
  OBVIOUS
<1>1. PICK first, at, last : Flow(first, at, last)
  BY DEF RunInv, InFlight
<1>2. EngineAck \/ Polls \/ Push \/ Takes \/ Handles \/ (FlowFrame /\ mode' = mode)
  BY Frames DEF Framed, Frame
<1> QED
  BY <1>1, <1>2, FlowEngineAck, FlowPollAck, FlowPollTrade, FlowPush, FlowTake, FlowHandle, FlowSame
     DEF Polls

----------------------------------------------------------------------------
LEMMA RunNext == RunInv /\ [Next]_vars => RunInv'
<1>1. RunInv /\ [Next]_vars => WakeInv'
  BY WakeStepAll DEF RunInv
<1> QED
  BY <1>1, CountersNext, ContentsNext, ControlsNext, ProbeNext, InFlightNext, AsReferenceNext,
     EndsNext, KeeperEndsNext, SummariesNext DEF RunInv

\* a trade the probe has counted is one the reader took
LEMMA Bounds ==
  ASSUME RunInv
  PROVE  /\ probe.trades \in 0 .. Steps /\ probe.acks \in 0 .. Steps /\ k \in 0 .. cursor
<1>1. PICK first, at, last : Flow(first, at, last)
  BY DEF RunInv, InFlight
<1>2. /\ Steps \in Nat /\ published \in 0 .. Steps /\ cursor \in 0 .. published
      /\ missed \in 0 .. cursor /\ k = IF Split THEN cursor - missed ELSE 0
  BY StrategyAssumption DEF RunInv, Counters
<1>3. first[1] <= last[1] /\ first[1] \in Nat /\ last[1] \in Nat
  <2>1. /\ first \in Point /\ at[1] \in Point /\ at[Len(items) + 1] \in Point /\ last \in Point
        /\ probe.unacked \in SUBSET Nat /\ Len(items) \in Nat
        /\ \A p \in Point : p[1] \in Nat /\ p[2] \in Nat
    BY <1>1, FlowOrder
  <2>2. first[1] <= at[1][1]
    <3>1. Handling(first, at[1])
      BY <1>1 DEF Flow
    <3>2. CASE worker = "handle"
      BY <2>1, <3>1, <3>2, LeadsOn DEF Handling
    <3>3. CASE worker # "handle"
      BY <2>1, <3>1, <3>3 DEF Handling
    <3> QED BY <3>2, <3>3
  <2>3. at[1][1] <= at[Len(items) + 1][1]
    <3>1. 1 \in 1 .. Len(items) + 1 /\ Len(items) + 1 \in 1 .. Len(items) + 1
          /\ 1 <= Len(items) + 1
      BY <2>1
    <3> QED BY <1>1, <3>1 DEF Flow, Queued
  <2>4. at[Len(items) + 1][1] <= last[1]
    <3>1. Pushing(at[Len(items) + 1], last)
      BY <1>1 DEF Flow
    <3>2. CASE reader = "push"
      BY <2>1, <3>1, <3>2, LeadsOn DEF Pushing
    <3>3. CASE reader # "push"
      BY <2>1, <3>1, <3>3 DEF Pushing
    <3> QED BY <3>2, <3>3
  <2> DEFINE x == at[1][1]
             y == at[Len(items) + 1][1]
  <2>5. x \in Nat /\ y \in Nat /\ first[1] \in Nat /\ last[1] \in Nat
    BY <2>1
  <2>6. first[1] <= x /\ x <= y /\ y <= last[1]
    BY <2>2, <2>3, <2>4
  <2> HIDE DEF x, y
  <2> QED BY <2>5, <2>6
<1>4. probe.trades = first[1] /\ cursor = missed + last[1]
  BY <1>1 DEF Flow
<1>5. probe.trades \in 0 .. Steps /\ k \in 0 .. cursor
  BY <1>2, <1>3, <1>4
<1>6. /\ probe.acks \in Nat /\ probe.issued \in Nat /\ Cardinality(probe.unacked) \in Nat
      /\ probe.issued <= probe.trades
      /\ probe.acks + Cardinality(probe.unacked) <= probe.issued
  BY FS_CardinalityType, ProbeFields DEF RunInv, ProbeOK
<1> QED BY <1>2, <1>5, <1>6

LEMMA RunType == RunInv => TypeOK
<1> SUFFICES ASSUME RunInv PROVE TypeOK
  OBVIOUS
<1>1. /\ mode \in Modes
      /\ published \in 0 .. Steps /\ cursor \in 0 .. published /\ missed \in 0 .. cursor
      /\ k \in 0 .. cursor
      /\ Len(items) <= Usable /\ Len(hkq) <= HkUsable /\ Len(commands) <= CmdUsable
      /\ probe.trades \in 0 .. Steps /\ probe.acks \in 0 .. Steps
  BY Bounds DEF RunInv, Counters, Contents
<1>2. {running, sleeping, closed, readerDone, draining, timedOut, lost, sleptOn, hkStop}
        \subseteq BOOLEAN
  BY Zenon DEF RunInv, Controls, WakeInv, Shapes
<1>3. /\ \A i \in DOMAIN readerStores : readerStores[i] \in {"item", "done", "clear"}
      /\ \A i \in DOMAIN workerStores : workerStores[i] \in {"slot", "park", "clear"}
  <2>1. readerStores \in Seq(ReaderStore) /\ workerStores \in Seq(WorkerStore)
    BY DEF RunInv, Controls
  <2> QED BY <2>1 DEF ReaderStore, WorkerStore
<1>4. /\ reader \in {"poll", "push", "fence", "check", "exchange", "wake", "close",
                      "wake closed", "join worker", "join keeper", "returned"}
      /\ worker \in {"none", "pop", "announce", "fence", "recheck", "wait", "parked", "woken",
                      "last", "check done", "drain", "handle", "record", "gone"}
      /\ keeper \in {"loop", "check stop", "drain", "gone"}
  BY DEF RunInv, Controls, ReaderPlaces, WorkerPlaces
<1> QED BY <1>1, <1>2, <1>3, <1>4, Zenon DEF TypeOK

(* Every decision is made on the feature of the single-threaded reference, *)
(* in its order, when nothing was missed and no order refused: whatever    *)
(* the queue and the topology, and however Acks and trades interleave.     *)
THEOREM StaysInStep == Spec => []InStep
<1>1. RunInv => InStep
  BY RunType DEF RunInv, InStep, AsReference
<1> QED BY <1>1, RunInit, RunNext, PTL DEF Spec

(* run() returns only after every event the reader took has been handled   *)
(* and every decision has been summarised.                                 *)
THEOREM LeavesNothingBehind == Spec => []NothingLeftBehind
<1>1. RunInv => HandledAll
  <2> SUFFICES ASSUME RunInv, reader = "returned"
               PROVE  items = <<>> /\ probe.trades + missed = cursor
    BY DEF HandledAll
  <2>1. PICK first, at, last : Flow(first, at, last)
    BY DEF RunInv, InFlight
  <2>2. worker \in {"none", "gone"}
    BY DEF RunInv, Ends, Joined
  <2>3. items = <<>>
    <3>1. worker = "none" => Single
      BY DEF RunInv, Ends
    <3> QED BY <2>2, <3>1 DEF RunInv, Ends
  <2>4. first = at[1] /\ last = at[Len(items) + 1] /\ Len(items) = 0
    BY <2>1, <2>2, <2>3 DEF Flow, Handling, Pushing
  <2>5. first = last
    BY <2>4
  <2>6. probe.trades = first[1] /\ cursor = missed + last[1] /\ first[1] \in Nat
    BY <2>1, FlowOrder DEF Flow
  <2>7. missed \in Nat
    BY StrategyAssumption DEF RunInv, Counters
  <2> QED BY <2>3, <2>5, <2>6, <2>7
<1>2. RunInv => SummarizedAll
  <2> SUFFICES ASSUME RunInv, reader = "returned", probe.refused = 0, mode.hk # "none"
               PROVE  summarized = probe.decisions
    BY DEF SummarizedAll
  <2>1. hkq = <<>>
    BY DEF RunInv, KeeperEnds
  <2>2. worker # "record"
    BY DEF RunInv, Ends, Joined
  <2>3. summarized \in Seq(Pairs) /\ probe.decisions \in Seq(Pairs)
    BY ProbeFields DEF RunInv, Contents, ProbeOK
  <2>4. /\ Len(probe.decisions) = Len(summarized)
        /\ \A i \in 1 .. Len(summarized) : probe.decisions[i] = summarized[i]
    BY <2>1, <2>2, <2>3 DEF RunInv, Summaries
  <2> QED BY <2>3, <2>4, SeqEqual
<1>3. RunInv => NothingLeftBehind
  BY <1>1, <1>2 DEF NothingLeftBehind
<1> QED BY <1>3, RunInit, RunNext, PTL DEF Spec
=============================================================================
