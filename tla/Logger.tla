------------------------------- MODULE Logger -------------------------------
(***************************************************************************)
(* The logger (include/logger.h, src/logger.cpp): two SPSC queues filled   *)
(* by the engine thread, one per file, and a thread that writes what it    *)
(* pops.  Both files have a path; without one no thread is started.        *)
(*                                                                         *)
(* The engine logs a command before it matches it, and then each trade the *)
(* command makes.  A record is the number of its command.  When the engine *)
(* thread has been joined, the main thread calls stop().                   *)
(*                                                                         *)
(* A pop may miss records that the logger thread has no reason to see yet  *)
(* (module SpscQueue).  What it pops from one queue orders it after        *)
(* everything the engine did before that record, in the other queue too.   *)
(***************************************************************************)
EXTENDS Integers, Sequences, SequencesExt

CONSTANTS
  LogUsable,   \* records a queue can hold
  OldViews,    \* TRUE: loads may return old values; FALSE: only the latest
  MaxCommands, \* bound on the commands processed
  MaxTrades    \* bound on the trades of a command

ASSUME LoggerAssumption == /\ LogUsable \in Nat \ {0}
                           /\ OldViews \in BOOLEAN
                           /\ MaxCommands \in Nat /\ MaxTrades \in Nat

VARIABLES
  engine,   \* "processing", or "joined" when the engine thread has ended
  command,  \* the number of the command being processed
  made,     \* the trades it has made so far
  queue,    \* per file, the records in its queue
  file,     \* per file, the records written
  lost,     \* per file, the records refused by its queue
  caller,   \* the thread that calls stop(): "running", "stopping", "returned"
  stopping, \* the flag stop() sets
  logger,   \* where the logger thread stands
  any,      \* its local: a record was popped in this turn of the loop
  noticed   \* the newest command of whose logging the logger has acquired a store

engineVars == <<engine, command, made, lost>>
loggerVars == <<file, logger, any, noticed>>
logVars == <<engineVars, queue, caller, stopping, loggerVars>>

Files == {"trades", "cmds"}

\* mutant: the command queue is drained before the trade queue
OrderSwapped == <<"cmds", "trades">>

\* the order of the two loops in run()
Order == <<"trades", "cmds">>

\* start() has run: it comes before the engine's thread is created
LoggerInit ==
  /\ engine = "processing" /\ command = 0 /\ made = 0
  /\ queue = [f \in Files |-> <<>>]
  /\ file = [f \in Files |-> <<>>]
  /\ lost = [f \in Files |-> {}]
  /\ caller = "running" /\ stopping = FALSE
  /\ logger = Order[1] /\ any = FALSE
  /\ noticed = 0

----------------------------------------------------------------------------
(* The engine thread: log_cmd at the start of process, log_trade per fill. *)

Accepted(f) == file[f] \o queue[f]

\* try_push: a queue that is full, or that the engine last saw full, refuses
LogRecord(f, r) ==
  \/ /\ Len(queue[f]) < LogUsable
     /\ queue' = [queue EXCEPT ![f] = Append(@, r)]
     /\ UNCHANGED lost
  \/ /\ Len(queue[f]) = LogUsable \/ (OldViews /\ Len(Accepted(f)) >= LogUsable)
     /\ lost' = [lost EXCEPT ![f] = @ \cup {r}]
     /\ UNCHANGED queue

LogCommand ==
  /\ engine = "processing"
  /\ command < MaxCommands
  /\ command' = command + 1
  /\ made' = 0
  /\ LogRecord("cmds", command + 1)
  /\ UNCHANGED <<engine, caller, stopping, loggerVars>>

LogTrade ==
  /\ engine = "processing"
  /\ command > 0
  /\ made < MaxTrades
  /\ made' = made + 1
  /\ LogRecord("trades", command)
  /\ UNCHANGED <<engine, command, caller, stopping, loggerVars>>

EngineJoined ==
  /\ engine = "processing"
  /\ engine' = "joined"
  /\ UNCHANGED <<command, made, lost, queue, caller, stopping, loggerVars>>

----------------------------------------------------------------------------
(* stop(). *)

\* mutant: the thread is joined without being told to stop
StopUntold ==
  /\ caller = "running"
  /\ engine = "joined"
  /\ caller' = "stopping"
  /\ UNCHANGED <<stopping, engineVars, queue, loggerVars>>

Stop ==
  /\ caller = "running"
  /\ engine = "joined"
  /\ caller' = "stopping"
  /\ stopping' = TRUE
  /\ UNCHANGED <<engineVars, queue, loggerVars>>

StopReturn ==
  /\ caller = "stopping"
  /\ logger = "exited"
  /\ caller' = "returned"
  /\ UNCHANGED <<engineVars, queue, stopping, loggerVars>>

----------------------------------------------------------------------------
(* The logger thread: run(). *)

\* mutant: a record stays in the queue when it is written
RestKept(f) == queue[f]

Rest(f) == Tail(queue[f])

\* while (try_pop(r)) write r
WriteRecord(f) ==
  /\ logger = f
  /\ queue[f] # <<>>
  /\ file' = [file EXCEPT ![f] = Append(@, Head(queue[f]))]
  /\ queue' = [queue EXCEPT ![f] = Rest(f)]
  /\ any' = TRUE
  /\ noticed' = IF noticed < Head(queue[f]) THEN Head(queue[f]) ELSE noticed
  /\ UNCHANGED <<engineVars, caller, stopping, logger>>


\* the records of queue f that a load of its head_ may miss: the commands after
\* the one seen, and its own trades and later ones
MayMiss(f) == IF ~OldViews THEN {}
              ELSE IF f = "cmds" THEN (noticed + 1) .. MaxCommands
              ELSE noticed .. MaxCommands

\* try_pop returns false
SeeEmpty(f) ==
  /\ logger = f
  /\ \A k \in DOMAIN queue[f] : queue[f][k] \in MayMiss(f)
  /\ logger' = IF f = Order[1] THEN Order[2] ELSE "check"
  /\ UNCHANGED <<engineVars, queue, caller, stopping, file, any, noticed>>

\* the end of a turn that wrote something, or that does not see stopping_
TurnAgain ==
  /\ logger = "check"
  /\ logger' = Order[1]
  /\ any' = FALSE
  /\ UNCHANGED <<engineVars, queue, caller, stopping, file, noticed>>

\* if (!any) { if (stopping_) break; ... }
Exit ==
  /\ logger = "check"
  /\ ~any
  /\ stopping
  /\ logger' = "exited"
  /\ UNCHANGED <<engineVars, queue, caller, stopping, file, any, noticed>>

LoggerThread == \/ \E f \in Files : WriteRecord(f) \/ SeeEmpty(f)
                \/ TurnAgain \/ Exit

----------------------------------------------------------------------------
Over == caller = "returned" /\ UNCHANGED logVars

LoggerNext ==
  \/ LogCommand \/ LogTrade \/ EngineJoined
  \/ Stop \/ StopReturn
  \/ LoggerThread
  \/ Over

LoggerSpec == LoggerInit /\ [][LoggerNext]_logVars

(* The session ends, the logger thread is scheduled again and again, and   *)
(* of infinitely many loads of a location some return its latest store.    *)
LoggerFairness ==
  /\ WF_logVars(EngineJoined) /\ WF_logVars(Stop) /\ WF_logVars(StopReturn)
  /\ WF_logVars(LoggerThread)
  /\ \A f \in Files : SF_logVars(WriteRecord(f))
  /\ SF_logVars(Exit)

FairLogger == LoggerSpec /\ LoggerFairness
----------------------------------------------------------------------------
LoggerTypeOK ==
  /\ engine \in {"processing", "joined"}
  /\ command \in 0 .. MaxCommands /\ made \in 0 .. MaxTrades
  /\ queue \in [Files -> Seq(1 .. command)]
  /\ \A f \in Files : Len(queue[f]) <= LogUsable
  /\ file \in [Files -> Seq(1 .. command)]
  /\ \A f \in Files : lost[f] \subseteq 1 .. command
  /\ Len(Accepted("cmds")) + Cardinality(lost["cmds"]) = command
  /\ caller \in {"running", "stopping", "returned"}
  /\ stopping \in BOOLEAN /\ any \in BOOLEAN
  /\ logger \in {"trades", "cmds", "check", "exited"}
  /\ noticed \in 0 .. command

(* Whenever a turn of the logger's loop is over, for good or not, every    *)
(* trade in the trade file has its command in the command file, unless     *)
(* that was refused by a full queue: a replay of the command file can      *)
(* account for every trade written (engine logs the command first, run()   *)
(* drains the trade queue first); every command is accepted or counted as  *)
(* lost, and a queue holds at most what it can (LoggerTypeOK).             *)
TradesHaveCommands ==
  /\ LoggerTypeOK
  /\ logger \in {"check", "exited"} =>
       \A k \in DOMAIN file["trades"] :
         \/ Contains(file["cmds"], file["trades"][k])
         \/ file["trades"][k] \in lost["cmds"]

(* stop() returns: the logger's thread cannot miss the request for ever.   *)
StopReturns == engine = "joined" ~> caller = "returned"

(* What include/logger.h says of stop(), "drains, flushes, joins": when it *)
(* has returned, no accepted record is left in a queue.                    *)
DrainedByStop ==
  caller = "returned" => \A f \in Files : queue[f] = <<>>
=============================================================================
