-------------------------- MODULE ThreadedStrategy --------------------------
(***************************************************************************)
(* Probe, the strategy of experiments/strategy_threads/bench.cpp: a reader *)
(* takes events off the agent's channels, a worker owns the calculation    *)
(* and the orders, a housekeeper summarises.  Reader and worker meet in    *)
(* one of three queues: SpinQueue polls, MutexCvQueue waits on a condition *)
(* variable, FutexQueue announces that it is about to sleep.               *)
(*                                                                         *)
(* The handshake of FutexQueue is about stores that are not visible yet,   *)
(* so each of the two threads has a store buffer that is emptied in order, *)
(* some time later: readerStores and workerStores.  A fence waits until it *)
(* is empty.  An item, or a slot given back, that the other thread cannot  *)
(* see yet is one whose index store is still in the buffer.                *)
(*                                                                         *)
(* Market data is abstract: trade n of the ladder is the number n, and the *)
(* feature that stage_a computes from it as the k-th trade is <<k, n>>.    *)
(* The checksums of decisions and housekeeping are the sequences folded.   *)
(***************************************************************************)
EXTENDS Integers, Sequences, FiniteSets

CONSTANTS
  Steps,       \* trades of the session
  Usable,      \* events the queue between reader and worker can hold
  RingUsable,  \* broadcasts a reader may be behind before it loses some
  CmdUsable,   \* orders the command queue can hold
  HkUsable,    \* features the housekeeper's queue can hold
  Modes        \* the configurations [queue, topology, hk] to check

ASSUME StrategyAssumption ==
  /\ Steps \in Nat
  /\ {Usable, RingUsable, CmdUsable, HkUsable} \subseteq Nat \ {0}
  /\ Modes \subseteq [queue : {"spsc", "mutex_cv", "futex"},
                      topology : {"single", "forward", "split"},
                      hk : {"none", "inline", "thread"}]

VARIABLES
  mode,         \* cfg_: the topology, the queue and where housekeeping runs
  running,      \* the engine's flag
  published,    \* trades the engine has broadcast
  commands,     \* the probe's command queue: order numbers
  acked,        \* its private event channel: Acks by order number
  cursor,       \* the next trade the reader takes off the ring
  missed,       \* broadcasts the ring overwrote before they were read
  reader,       \* where the reader stands
  k,            \* trades it has run stage A on
  msg,          \* the message it is pushing
  items,        \* the queue to the worker, oldest first
  readerStores, \* the reader's stores not yet visible to the worker
  workerStores, \* the worker's stores not yet visible to the reader
  sleeping,     \* sleeping_ of FutexQueue
  closed,       \* closed_ of MutexCvQueue
  readerDone,   \* reader_done
  worker,       \* where the thread that owns the context stands
  draining,     \* it is in the loop that follows reader_done
  taken,        \* the message it handles
  timedOut,     \* its last park ended by timeout
  lost,         \* lost_wakeups # 0
  sleptOn,      \* history: a park lasted to its timeout with an event to take
  probe,        \* what handle() keeps: trades, decisions, orders, errors
  hkq,          \* the queue to the housekeeper
  hkStop,       \* hk_stop_
  keeper,       \* where the housekeeper stands
  summarized    \* features given to Housekeeper::add, in order

market     == <<running, published>>
channels   == <<commands, acked>>
input      == <<cursor, missed, k>>
readerAt   == <<reader, msg>>
stores     == <<readerStores, workerStores>>
flags      == <<sleeping, closed, readerDone>>
workerAt   == <<worker, draining, taken>>
park       == <<timedOut, lost, sleptOn>>
housekeeping == <<hkq, hkStop, keeper, summarized>>
vars == <<mode, market, channels, input, readerAt, items, stores, flags,
          workerAt, park, probe, housekeeping>>

Single == mode.topology = "single"
Split  == mode.topology = "split"
Futex  == mode.queue = "futex"
Locked == mode.queue = "mutex_cv"

StageA(i, n) == <<i, n>>
Unset == <<>>

Event(kind, n, feature) == [kind |-> kind, n |-> n, feature |-> feature]
NoEvent == Event("none", 0, Unset)

Init ==
  /\ mode \in Modes
  /\ running = TRUE /\ published = 0 /\ commands = <<>> /\ acked = <<>>
  /\ cursor = 0 /\ missed = 0 /\ k = 0
  /\ reader = "poll" /\ msg = NoEvent
  /\ items = <<>> /\ readerStores = <<>> /\ workerStores = <<>>
  /\ sleeping = FALSE /\ closed = FALSE /\ readerDone = FALSE
  /\ worker = IF Single THEN "none" ELSE "pop"
  /\ draining = FALSE /\ taken = NoEvent
  /\ timedOut = FALSE /\ lost = FALSE /\ sleptOn = FALSE
  /\ probe = [trades |-> 0, decisions |-> <<>>, issued |-> 0, unacked |-> {},
              acks |-> 0, errors |-> 0, refused |-> 0]
  /\ hkq = <<>> /\ hkStop = FALSE /\ summarized = <<>>
  /\ keeper = IF mode.hk = "thread" THEN "loop" ELSE "gone"

----------------------------------------------------------------------------
(* The session around the probe. *)

\* the taker lifts the next order of the ladder
PublishTrade ==
  /\ published < Steps
  /\ published' = published + 1
  /\ UNCHANGED <<mode, running, channels, input, readerAt, items, stores, flags,
                 workerAt, park, probe, housekeeping>>

EngineAck ==
  /\ commands # <<>>
  /\ commands' = Tail(commands)
  /\ acked' = Append(acked, Head(commands))
  /\ UNCHANGED <<mode, market, input, readerAt, items, stores, flags,
                 workerAt, park, probe, housekeeping>>

\* the deadline, or request_stop() by the probe
EndSession ==
  /\ running
  /\ running' = FALSE
  /\ UNCHANGED <<mode, published, channels, input, readerAt, items, stores, flags,
                 workerAt, park, probe, housekeeping>>

Market == PublishTrade \/ EngineAck \/ EndSession

----------------------------------------------------------------------------
(* The store buffers. *)

Count(buffer, store) == Cardinality({i \in DOMAIN buffer : buffer[i] = store})

\* mutant: a release fence, which orders a store before a later load on no machine
FencedByName(buffer) == TRUE

Fenced(buffer) == buffer = <<>>

\* what try_pop can see of the queue, and what try_push sees it full of
Visible == Len(items) - Count(readerStores, "item")
Occupied == Len(items) + Count(workerStores, "slot")

FlushReader ==
  /\ readerStores # <<>>
  /\ readerStores' = Tail(readerStores)
  /\ readerDone' = (readerDone \/ Head(readerStores) = "done")
  /\ sleeping' = (sleeping /\ Head(readerStores) # "clear")
  /\ UNCHANGED <<mode, market, channels, input, readerAt, items, workerStores, closed,
                 workerAt, park, probe, housekeeping>>

FlushWorker ==
  /\ workerStores # <<>>
  /\ workerStores' = Tail(workerStores)
  /\ sleeping' = CASE Head(workerStores) = "park" -> TRUE
                   [] Head(workerStores) = "clear" -> FALSE
                   [] OTHER -> sleeping
  /\ UNCHANGED <<mode, market, channels, input, readerAt, items, readerStores, closed,
                 readerDone, workerAt, park, probe, housekeeping>>

----------------------------------------------------------------------------
(* The reader: run_pipeline, or run_single, where it owns the context too. *)

MayPoll == reader = "poll" /\ (Single => worker = "none")

\* hand an event to whoever owns the context
Give(event) ==
  IF Single
    THEN worker' = "handle" /\ taken' = event /\ UNCHANGED <<readerAt, draining>>
    ELSE reader' = "push" /\ msg' = event /\ UNCHANGED workerAt

\* mutant: stage A counts every event that is read
PollAckCounted ==
  /\ MayPoll
  /\ acked # <<>>
  /\ acked' = Tail(acked)
  /\ k' = k + 1
  /\ Give(Event("Ack", Head(acked), Unset))
  /\ UNCHANGED <<mode, market, commands, cursor, missed, items, stores, flags, park,
                 probe, housekeeping>>

PollAck ==
  /\ MayPoll
  /\ acked # <<>>
  /\ acked' = Tail(acked)
  /\ Give(Event("Ack", Head(acked), Unset))
  /\ UNCHANGED <<mode, market, commands, input, items, stores, flags, park,
                 probe, housekeeping>>

\* a broadcast, after the private events that are visible; a reader that is too
\* far behind goes on with the oldest the ring still has
PollTrade ==
  /\ MayPoll
  /\ cursor < published
  /\ \E n \in {IF published - cursor > RingUsable THEN published - RingUsable ELSE cursor} :
       /\ missed' = missed + (n - cursor)
       /\ cursor' = n + 1
       /\ Give(Event("Trade", n, IF Split THEN StageA(k, n) ELSE Unset))
  /\ k' = IF Split THEN k + 1 ELSE k
  /\ UNCHANGED <<mode, market, channels, items, stores, flags, park, probe,
                 housekeeping>>

\* mutant: a full queue takes one more
HasRoomAlways == Occupied <= Usable

HasRoom == Occupied < Usable

\* q.push: refused while the queue looks full, and tried again
Push ==
  /\ reader = "push"
  /\ HasRoom
  /\ items' = Append(items, msg)
  /\ readerStores' = IF Locked THEN readerStores ELSE Append(readerStores, "item")
  /\ reader' = CASE Futex -> "fence" [] Locked -> "wake" [] OTHER -> "poll"
  /\ UNCHANGED <<mode, market, channels, input, msg, workerStores, flags, workerAt,
                 park, probe, housekeeping>>

\* FutexQueue::push looks whether the worker has announced that it sleeps
PushFence ==
  /\ reader = "fence"
  /\ Fenced(readerStores)
  /\ reader' = "check"
  /\ UNCHANGED <<mode, market, channels, input, msg, items, stores, flags, workerAt,
                 park, probe, housekeeping>>

CheckSleeping ==
  /\ reader = "check"
  /\ reader' = IF sleeping THEN "exchange" ELSE "poll"
  /\ UNCHANGED <<mode, market, channels, input, msg, items, stores, flags, workerAt,
                 park, probe, housekeeping>>

ExchangeSleeping ==
  /\ reader = "exchange"
  /\ readerStores = <<>>
  /\ sleeping' = FALSE
  /\ reader' = IF sleeping THEN "wake" ELSE "poll"
  /\ UNCHANGED <<mode, market, channels, input, msg, items, stores, closed, readerDone,
                 workerAt, park, probe, housekeeping>>

\* os_sync_wake_by_address_any, notify_one; and notify_all when the queue is closed
Wake ==
  /\ reader \in {"wake", "wake closed"}
  /\ worker' = IF worker = "parked" THEN "woken" ELSE worker
  /\ reader' = IF reader = "wake" THEN "poll" ELSE "join worker"
  /\ UNCHANGED <<mode, market, channels, input, msg, items, stores, flags, draining,
                 taken, park, probe, housekeeping>>

\* mutant: the worker is not told that there is no more input
LeaveUntold ==
  /\ MayPoll
  /\ ~running
  /\ reader' = IF Single THEN "join worker" ELSE "close"
  /\ UNCHANGED <<mode, market, channels, input, msg, items, stores,
                 flags, workerAt, park, probe, housekeeping>>

Leave ==
  /\ MayPoll
  /\ ~running
  /\ reader' = IF Single THEN "join worker" ELSE "close"
  /\ readerStores' = IF Single THEN readerStores ELSE Append(readerStores, "done")
  /\ UNCHANGED <<mode, market, channels, input, msg, items, workerStores,
                 flags, workerAt, park, probe, housekeeping>>

Close ==
  /\ reader = "close"
  /\ Locked => Fenced(readerStores)
  /\ closed' = Locked
  /\ readerStores' = IF Futex THEN Append(readerStores, "clear") ELSE readerStores
  /\ reader' = IF Futex \/ Locked THEN "wake closed" ELSE "join worker"
  /\ UNCHANGED <<mode, market, channels, input, msg, items, workerStores, sleeping,
                 readerDone, workerAt, park, probe, housekeeping>>

JoinWorker ==
  /\ reader = "join worker"
  /\ worker \in {"none", "gone"}
  /\ hkStop' = (mode.hk = "thread")
  /\ reader' = "join keeper"
  /\ UNCHANGED <<mode, market, channels, input, msg, items, stores, flags, workerAt,
                 park, probe, hkq, keeper, summarized>>

JoinKeeper ==
  /\ reader = "join keeper"
  /\ keeper = "gone"
  /\ reader' = "returned"
  /\ UNCHANGED <<mode, market, channels, input, msg, items, stores, flags, workerAt,
                 park, probe, housekeeping>>

Reader ==
  \/ PollAck \/ PollTrade
  \/ Push \/ PushFence \/ CheckSleeping \/ ExchangeSleeping \/ Wake
  \/ Leave \/ Close \/ JoinWorker \/ JoinKeeper

----------------------------------------------------------------------------
(* The worker: worker_loop and the three versions of wait_pop. *)

\* take the oldest event; the stores that follow are on their way
Take(storesMade) ==
  /\ Visible > 0
  /\ taken' = Head(items)
  /\ items' = Tail(items)
  /\ worker' = "handle"
  /\ workerStores' = IF Locked THEN workerStores ELSE workerStores \o storesMade

Pop ==
  /\ worker \in {"pop", "drain"}
  /\ Take(<<"slot">>)
  /\ UNCHANGED <<mode, market, channels, input, readerAt, readerStores, flags, draining,
                 park, probe, housekeeping>>

\* nothing there: a mutex_cv worker gives up the lock and sleeps in one step
PopEmpty ==
  /\ worker = "pop"
  /\ Visible = 0
  /\ worker' = CASE Futex -> "announce"
                 [] Locked /\ ~closed -> "parked"
                 [] OTHER -> "check done"
  /\ timedOut' = FALSE
  /\ UNCHANGED <<mode, market, channels, input, readerAt, items, stores, flags, draining,
                 taken, lost, sleptOn, probe, housekeeping>>

Announce ==
  /\ worker = "announce"
  /\ workerStores' = Append(workerStores, "park")
  /\ worker' = "fence"
  /\ UNCHANGED <<mode, market, channels, input, readerAt, items, readerStores, flags,
                 draining, taken, park, probe, housekeeping>>

WaitFence ==
  /\ worker = "fence"
  /\ Fenced(workerStores)
  /\ worker' = "recheck"
  /\ UNCHANGED <<mode, market, channels, input, readerAt, items, stores, flags,
                 draining, taken, park, probe, housekeeping>>

Recheck ==
  /\ worker = "recheck"
  /\ \/ Take(<<"slot", "clear">>)
     \/ /\ Visible = 0
        /\ worker' = "wait"
        /\ UNCHANGED <<taken, items, workerStores>>
  /\ UNCHANGED <<mode, market, channels, input, readerAt, readerStores, flags,
                 draining, park, probe, housekeeping>>

\* os_sync_wait_on_address: sleeps only if sleeping_ is still 1
Wait ==
  /\ worker = "wait"
  /\ workerStores = <<>>
  /\ worker' = IF sleeping THEN "parked" ELSE "woken"
  /\ UNCHANGED <<mode, market, channels, input, readerAt, items, stores, flags,
                 draining, taken, park, probe, housekeeping>>

\* the backstop, or a wake-up nobody asked for
Timeout ==
  /\ worker = "parked"
  /\ worker' = "woken"
  /\ timedOut' \in BOOLEAN
  /\ sleptOn' = (sleptOn \/ (timedOut' /\ Visible > 0))
  /\ UNCHANGED <<mode, market, channels, input, readerAt, items, stores, flags,
                 draining, taken, lost, probe, housekeeping>>

\* FutexQueue::wait_pop after the wait
ClearSleeping ==
  /\ worker = "woken" /\ Futex
  /\ workerStores' = Append(workerStores, "clear")
  /\ worker' = "last"
  /\ UNCHANGED <<mode, market, channels, input, readerAt, items, readerStores, flags,
                 draining, taken, park, probe, housekeeping>>

LastTry ==
  /\ worker = "last"
  /\ \/ /\ Take(<<"slot">>)
        /\ lost' = (lost \/ timedOut)
     \/ /\ Visible = 0
        /\ worker' = "check done"
        /\ UNCHANGED <<taken, items, workerStores, lost>>
  /\ UNCHANGED <<mode, market, channels, input, readerAt, readerStores, flags,
                 draining, timedOut, sleptOn, probe, housekeeping>>

\* MutexCvQueue::wait_pop with the lock again: the predicate decides
Rewait ==
  /\ worker = "woken" /\ Locked
  /\ \/ Take(<<>>)
     \/ /\ Visible = 0
        /\ worker' = IF closed \/ timedOut THEN "check done" ELSE "parked"
        /\ UNCHANGED <<taken, items, workerStores>>
  /\ UNCHANGED <<mode, market, channels, input, readerAt, readerStores, flags,
                 draining, park, probe, housekeeping>>

\* mutant: the queue was empty and the reader is done, so nothing can be left
CheckDoneAndGo ==
  /\ worker = "check done"
  /\ draining' = readerDone
  /\ worker' = IF readerDone THEN "gone" ELSE "pop"
  /\ UNCHANGED <<mode, market, channels, input, readerAt, items, stores, flags,
                 taken, park, probe, housekeeping>>

CheckDone ==
  /\ worker = "check done"
  /\ draining' = readerDone
  /\ worker' = IF readerDone THEN "drain" ELSE "pop"
  /\ UNCHANGED <<mode, market, channels, input, readerAt, items, stores, flags,
                 taken, park, probe, housekeeping>>

Drained ==
  /\ worker = "drain"
  /\ Visible = 0
  /\ worker' = "gone"
  /\ UNCHANGED <<mode, market, channels, input, readerAt, items, stores, flags, draining,
                 taken, park, probe, housekeeping>>

----------------------------------------------------------------------------
(* handle(), on the thread that owns the context. *)

Resumed == IF Single THEN "none" ELSE IF draining THEN "drain" ELSE "pop"

Feature == IF Split THEN taken.feature ELSE StageA(probe.trades, taken.n)

\* the decision is folded in before the order is sent
Decided == [probe EXCEPT !.trades = @ + 1,
                         !.decisions = Append(@, Feature),
                         !.issued = @ + 1]

TradeTaken == worker = "handle" /\ taken.kind = "Trade"

\* the price or the quantity is not that of this step of the ladder
HandleMismatch ==
  /\ TradeTaken
  /\ taken.n # probe.trades
  /\ probe' = [probe EXCEPT !.trades = @ + 1, !.errors = @ + 1]
  /\ worker' = Resumed
  /\ UNCHANGED <<mode, market, channels, input, readerAt, items, stores, flags, draining,
                 taken, park, housekeeping>>

HandleRefused ==
  /\ TradeTaken
  /\ taken.n = probe.trades
  /\ Len(commands) = CmdUsable
  /\ probe' = [Decided EXCEPT !.errors = @ + 1, !.refused = @ + 1]
  /\ worker' = Resumed
  /\ UNCHANGED <<mode, market, channels, input, readerAt, items, stores, flags, draining,
                 taken, park, housekeeping>>

HandleTrade ==
  /\ TradeTaken
  /\ taken.n = probe.trades
  /\ Len(commands) < CmdUsable
  /\ commands' = Append(commands, probe.issued + 1)
  /\ probe' = [Decided EXCEPT !.unacked = @ \cup {probe.issued + 1}]
  /\ summarized' = IF mode.hk = "inline" THEN Append(summarized, Feature) ELSE summarized
  /\ worker' = IF mode.hk = "thread" THEN "record" ELSE Resumed
  /\ UNCHANGED <<mode, market, acked, input, readerAt, items, stores, flags, draining,
                 taken, park, hkq, hkStop, keeper>>

\* record_housekeeping: spins while the housekeeper's queue is full
Record ==
  /\ worker = "record"
  /\ Len(hkq) < HkUsable
  /\ hkq' = Append(hkq, probe.decisions[Len(probe.decisions)])
  /\ worker' = Resumed
  /\ UNCHANGED <<mode, market, channels, input, readerAt, items, stores, flags, draining,
                 taken, park, probe, hkStop, keeper, summarized>>

HandleAck ==
  /\ worker = "handle" /\ taken.kind = "Ack"
  /\ probe' = IF taken.n \in probe.unacked
                THEN [probe EXCEPT !.unacked = @ \ {taken.n}, !.acks = @ + 1]
                ELSE [probe EXCEPT !.errors = @ + 1]
  /\ worker' = Resumed
  /\ UNCHANGED <<mode, market, channels, input, readerAt, items, stores, flags, draining,
                 taken, park, housekeeping>>

Worker ==
  \/ Pop \/ PopEmpty
  \/ Announce \/ WaitFence \/ Recheck \/ Wait \/ ClearSleeping \/ LastTry \/ Rewait
  \/ CheckDone \/ Drained
  \/ HandleMismatch \/ HandleRefused \/ HandleTrade \/ Record \/ HandleAck

----------------------------------------------------------------------------
(* The housekeeper: housekeeping_loop. *)

Summarize ==
  /\ keeper \in {"loop", "drain"}
  /\ hkq # <<>>
  /\ summarized' = Append(summarized, Head(hkq))
  /\ hkq' = Tail(hkq)
  /\ UNCHANGED <<mode, market, channels, input, readerAt, items, stores, flags, workerAt,
                 park, probe, hkStop, keeper>>

\* the queue looks empty, perhaps because the last push is not visible yet
NothingToDo ==
  /\ keeper = "loop"
  /\ keeper' = "check stop"
  /\ UNCHANGED <<mode, market, channels, input, readerAt, items, stores, flags, workerAt,
                 park, probe, hkq, hkStop, summarized>>

\* mutant: the last features are not waited for
CheckStopAndGo ==
  /\ keeper = "check stop"
  /\ keeper' = IF hkStop THEN "gone" ELSE "loop"
  /\ UNCHANGED <<mode, market, channels, input, readerAt, items, stores, flags, workerAt,
                 park, probe, hkq, hkStop, summarized>>

CheckStop ==
  /\ keeper = "check stop"
  /\ keeper' = IF hkStop THEN "drain" ELSE "loop"
  /\ UNCHANGED <<mode, market, channels, input, readerAt, items, stores, flags, workerAt,
                 park, probe, hkq, hkStop, summarized>>

KeeperGone ==
  /\ keeper = "drain"
  /\ hkq = <<>>
  /\ keeper' = "gone"
  /\ UNCHANGED <<mode, market, channels, input, readerAt, items, stores, flags, workerAt,
                 park, probe, hkq, hkStop, summarized>>

Keeper == Summarize \/ NothingToDo \/ CheckStop \/ KeeperGone

Over == reader = "returned" /\ UNCHANGED vars

Next == Market \/ FlushReader \/ FlushWorker \/ Reader \/ Worker \/ Timeout \/ Keeper \/ Over

Spec == Init /\ [][Next]_vars

(* Threads are scheduled, stores become visible, the session has a         *)
(* deadline and a park has a timeout.  What is pushed to the housekeeper   *)
(* becomes visible to it although it polls in between.                     *)
Fairness ==
  /\ WF_vars(EndSession) /\ WF_vars(FlushReader) /\ WF_vars(FlushWorker)
  /\ WF_vars(Reader) /\ WF_vars(Worker) /\ WF_vars(Timeout)
  /\ WF_vars(Keeper) /\ SF_vars(Summarize)

FairSpec == Spec /\ Fairness

----------------------------------------------------------------------------
TypeOK ==
  /\ mode \in Modes
  /\ published \in 0 .. Steps /\ cursor \in 0 .. published /\ missed \in 0 .. cursor
  /\ k \in 0 .. cursor
  /\ Len(items) <= Usable /\ Len(hkq) <= HkUsable /\ Len(commands) <= CmdUsable
  /\ {running, sleeping, closed, readerDone, draining, timedOut, lost, sleptOn, hkStop}
       \subseteq BOOLEAN
  /\ \A i \in DOMAIN readerStores : readerStores[i] \in {"item", "done", "clear"}
  /\ \A i \in DOMAIN workerStores : workerStores[i] \in {"slot", "park", "clear"}
  /\ reader \in {"poll", "push", "fence", "check", "exchange", "wake", "close",
                 "wake closed", "join worker", "join keeper", "returned"}
  /\ worker \in {"none", "pop", "announce", "fence", "recheck", "wait", "parked", "woken",
                 "last", "check done", "drain", "handle", "record", "gone"}
  /\ keeper \in {"loop", "check stop", "drain", "gone"}
  /\ probe.trades \in 0 .. Steps /\ probe.acks \in 0 .. Steps

(* A worker never sleeps on an event: whenever one is in the queue while   *)
(* the worker is parked, the reader is still inside the push that will     *)
(* wake it.  FutexQueue gets this from both sides storing before they      *)
(* load, MutexCvQueue from testing the predicate under the lock.           *)
NoLostWakeup ==
  worker = "parked" /\ items # <<>> => reader \in {"fence", "check", "exchange", "wake"}

(* The worker's running state stays in step with the reader's, whatever    *)
(* the queue between them and however Acks and Trades interleave: when the *)
(* ring lost nothing and no order was refused, every decision is made on   *)
(* the feature the single-threaded reference computes, in its order, and   *)
(* no event is taken for an error.                                         *)
InStep ==
  /\ TypeOK
  /\ missed = 0 /\ probe.refused = 0 =>
       /\ probe.errors = 0
       /\ probe.decisions = [i \in 1 .. probe.trades |-> StageA(i - 1, i - 1)]

\* the worker drains the queue after it has seen reader_done
HandledAll ==
  reader = "returned" => items = <<>> /\ probe.trades + missed = cursor

\* the housekeeper has summarised exactly the features of the decisions, in
\* their order, wherever it runs
SummarizedAll ==
  reader = "returned" /\ probe.refused = 0 /\ mode.hk # "none"
    => summarized = probe.decisions

(* Nothing the reader read is left behind when run() returns: every event  *)
(* was handled by the worker and every decision summarised by the          *)
(* housekeeper, whichever thread noticed the end first.                    *)
NothingLeftBehind == HandledAll /\ SummarizedAll

(* run() returns: neither a park that begins after close(), nor a full     *)
(* queue, nor a housekeeper that is behind can hold it up for ever.        *)
Returns == <>(reader = "returned")

(* lost_wakeups counts events the worker slept on: when one is counted,    *)
(* some park lasted to its timeout with an event there to take.            *)
CountsLostWakeups == lost => sleptOn
=============================================================================
