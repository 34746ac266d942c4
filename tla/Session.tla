------------------------------- MODULE Session ------------------------------
(***************************************************************************)
(* The threads of one session and how they stop: Engine::run on the main   *)
(* thread, one loop per agent, and engine_loop (src/engine.cpp,            *)
(* include/strategy.h).  The logger's thread is in module Logger.          *)
(*                                                                         *)
(* Commands are opaque here; module Exchange has what the engine does with *)
(* one.  A command is named by its agent, its number among the agent's     *)
(* commands and its t_submit.  A command queue is the bounded FIFO that    *)
(* SpscQueue implements: whether it refuses is decided on a possibly old   *)
(* copy of the other side's index.                                         *)
(*                                                                         *)
(* running_ is polled with relaxed loads and producers_done_ with acquire  *)
(* loads: a reader may still see the value before the last store.          *)
(***************************************************************************)
EXTENDS Integers, Sequences, FiniteSets

CONSTANTS
  N,         \* agents, numbered from 0 as in slots_
  Usable,    \* commands a queue can hold
  OldViews,  \* TRUE: loads may return old values; FALSE: only the latest
  BatchMax,  \* pops from one queue per pass (256 in the code)
  MaxSubmit  \* bound on the commands an agent issues

ASSUME SessionAssumption == /\ N \in Nat \ {0}
                            /\ Usable \in Nat \ {0}
                            /\ BatchMax \in Nat \ {0}
                            /\ MaxSubmit \in Nat
                            /\ OldViews \in BOOLEAN

VARIABLES
  main,      \* where run() stands on the main thread
  running,   \* running_
  producersDone, \* producers_done_
  clock,     \* the latest time read from steady_clock
  agent,     \* where each agent's thread stands
  issued,    \* how many commands each agent has built
  stamp,     \* t_submit of the command it is about to push
  accepted,  \* history: the commands each agent's queue took, in order
  queue,     \* the command queues
  engine,    \* where engine_loop stands
  done,      \* its local of that name
  rr,        \* the queue a pass starts with
  visited,   \* queues this pass has finished with
  pops,      \* commands popped from the current one
  batch,     \* commands popped and not yet processed
  processed  \* history: the commands processed, in order

mainVars   == <<main, running, producersDone>>
agentVars  == <<clock, agent, issued, stamp, accepted>>
engineVars == <<engine, done, rr, visited, pops, batch, processed>>
vars == <<mainVars, agentVars, queue, engineVars>>

Agents == 0 .. (N - 1)

Init ==
  /\ main = "new" /\ running = FALSE /\ producersDone = FALSE
  /\ clock = 0
  /\ agent = [a \in Agents |-> "off"]
  /\ issued = [a \in Agents |-> 0]
  /\ stamp = [a \in Agents |-> 0]
  /\ accepted = [a \in Agents |-> <<>>]
  /\ queue = [a \in Agents |-> <<>>]
  /\ engine = "off" /\ done = FALSE /\ rr = 0 /\ visited = 0 /\ pops = 0
  /\ batch = <<>> /\ processed = <<>>

----------------------------------------------------------------------------
(* Engine::run. *)

Start ==
  /\ main = "new"
  /\ main' = "session"
  /\ running' = TRUE
  /\ producersDone' = FALSE
  /\ engine' = "load"
  /\ agent' = [a \in Agents |-> "loop"]
  /\ UNCHANGED <<clock, issued, stamp, accepted, queue,
                 done, rr, visited, pops, batch, processed>>

\* the deadline, or a request_stop that came after the flag was cleared
EndSession ==
  /\ main = "session"
  /\ main' = "joining agents"
  /\ running' = FALSE
  /\ UNCHANGED <<producersDone, agentVars, queue, engineVars>>

\* mutant: the engine is joined before it is told that no more input comes
JoinAgentsLate ==
  /\ main = "joining agents"
  /\ \A a \in Agents : agent[a] = "returned"
  /\ engine = "stopped"
  /\ main' = "joining engine"
  /\ producersDone' = TRUE
  /\ UNCHANGED <<running, agentVars, queue, engineVars>>

JoinAgents ==
  /\ main = "joining agents"
  /\ \A a \in Agents : agent[a] = "returned"
  /\ main' = "joining engine"
  /\ producersDone' = TRUE
  /\ UNCHANGED <<running, agentVars, queue, engineVars>>

\* eng.join(); what follows, the logger's stop and the report, is sequential
JoinEngine ==
  /\ main = "joining engine"
  /\ engine = "stopped"
  /\ main' = "returned"
  /\ UNCHANGED <<running, producersDone, agentVars, queue, engineVars>>

Main == Start \/ EndSession \/ JoinAgents \/ JoinEngine

----------------------------------------------------------------------------
(* An agent thread: Strategy::run and AgentContext::submit and cancel.     *)

\* build a command: the timestamp is read before the push
Stamp(a) ==
  /\ agent[a] = "loop"
  /\ issued[a] < MaxSubmit
  /\ \E t \in {clock, clock + 1} :
       /\ clock' = t
       /\ stamp' = [stamp EXCEPT ![a] = t]
  /\ issued' = [issued EXCEPT ![a] = @ + 1]
  /\ agent' = [agent EXCEPT ![a] = "push"]
  /\ UNCHANGED <<mainVars, accepted, queue, engineVars>>

NewCommand(a) == [agent |-> a, seq |-> issued[a], t |-> stamp[a]]

\* mutant: a full queue takes one more
HasRoomAlways(a) == Len(queue[a]) <= Usable

HasRoom(a) == Len(queue[a]) < Usable

Push(a) ==
  /\ agent[a] = "push"
  /\ HasRoom(a)
  /\ queue' = [queue EXCEPT ![a] = Append(@, NewCommand(a))]
  /\ accepted' = [accepted EXCEPT ![a] = Append(@, NewCommand(a))]
  /\ agent' = [agent EXCEPT ![a] = "loop"]
  /\ UNCHANGED <<mainVars, clock, issued, stamp, engineVars>>

\* queue_full: the queue is full, or was when the agent last saw tail_
PushRefused(a) ==
  /\ agent[a] = "push"
  /\ Len(queue[a]) = Usable \/ (OldViews /\ Len(accepted[a]) >= Usable)
  /\ agent' = [agent EXCEPT ![a] = "loop"]
  /\ UNCHANGED <<mainVars, clock, issued, stamp, accepted, queue, engineVars>>

\* the loop head reads running_ as false
Return(a) ==
  /\ agent[a] = "loop"
  /\ ~running
  /\ agent' = [agent EXCEPT ![a] = "returned"]
  /\ UNCHANGED <<mainVars, clock, issued, stamp, accepted, queue, engineVars>>

AgentThread(a) == Stamp(a) \/ Push(a) \/ PushRefused(a) \/ Return(a)

----------------------------------------------------------------------------
(* engine_loop. *)

\* done = producers_done_.load(acquire), before anything is drained
LoadDone(value) ==
  /\ engine = "load"
  /\ value = producersDone \/ (OldViews /\ value = done)
  /\ done' = value
  /\ engine' = "drain"
  /\ batch' = <<>> /\ visited' = 0 /\ pops' = 0
  /\ UNCHANGED <<mainVars, agentVars, queue, rr, processed>>

Current == (rr + visited) % N

Pop ==
  /\ engine = "drain"
  /\ visited < N
  /\ pops < BatchMax
  /\ queue[Current] # <<>>
  /\ batch' = Append(batch, Head(queue[Current]))
  /\ queue' = [queue EXCEPT ![Current] = Tail(@)]
  /\ pops' = pops + 1
  /\ UNCHANGED <<mainVars, agentVars, engine, done, rr, visited, processed>>

(* On to the next queue: enough popped, or the queue is seen empty.  Once  *)
(* done has been acquired every push of every agent is visible.            *)
LeaveQueue ==
  /\ engine = "drain"
  /\ visited < N
  /\ \/ pops = BatchMax
     \/ queue[Current] = <<>>
     \/ OldViews /\ ~done
  /\ visited' = visited + 1
  /\ pops' = 0
  /\ UNCHANGED <<mainVars, agentVars, queue, engine, done, rr, batch, processed>>

Drained == engine = "drain" /\ visited = N

Rotate == rr' = (rr + 1) % N

\* mutant: an unstable sort, equal timestamps come out newest first
InSubmitTimeUnstable(cs) ==
  LET Before(i, j) == cs[i].t < cs[j].t \/ (cs[i].t = cs[j].t /\ i > j)
      Rank(i) == 1 + Cardinality({j \in DOMAIN cs : Before(j, i)})
  IN [k \in DOMAIN cs |-> cs[CHOOSE i \in DOMAIN cs : Rank(i) = k]]

\* std::stable_sort by t_submit: a command comes after those it ranks behind
Earlier(cs, i) == {j \in DOMAIN cs : cs[j].t < cs[i].t \/ (cs[j].t = cs[i].t /\ j < i)}

InSubmitTime(cs) ==
  [k \in DOMAIN cs |-> cs[CHOOSE i \in DOMAIN cs : Cardinality(Earlier(cs, i)) = k - 1]]

SortBatch ==
  /\ Drained
  /\ batch # <<>>
  /\ batch' = InSubmitTime(batch)
  /\ engine' = "process"
  /\ Rotate
  /\ UNCHANGED <<mainVars, agentVars, queue, done, visited, pops, processed>>

IdlePass ==
  /\ Drained
  /\ batch = <<>>
  /\ ~done
  /\ engine' = "load"
  /\ Rotate
  /\ UNCHANGED <<mainVars, agentVars, queue, done, visited, pops, batch, processed>>

\* mutant: the flag is tested after the pass, not as it was before it
StopOnNewFlag ==
  /\ Drained
  /\ batch = <<>>
  /\ producersDone
  /\ engine' = "stopped"
  /\ Rotate
  /\ UNCHANGED <<mainVars, agentVars, queue, done, visited, pops, batch, processed>>

StopEngine ==
  /\ Drained
  /\ batch = <<>>
  /\ done
  /\ engine' = "stopped"
  /\ Rotate
  /\ UNCHANGED <<mainVars, agentVars, queue, done, visited, pops, batch, processed>>

\* process, for the next command of the batch
Process ==
  /\ engine = "process"
  /\ batch # <<>>
  /\ processed' = Append(processed, Head(batch))
  /\ batch' = Tail(batch)
  /\ UNCHANGED <<mainVars, agentVars, queue, engine, done, rr, visited, pops>>

EndBatch ==
  /\ engine = "process"
  /\ batch = <<>>
  /\ engine' = "load"
  /\ UNCHANGED <<mainVars, agentVars, queue, done, rr, visited, pops, batch, processed>>

EngineThread == \/ \E value \in BOOLEAN : LoadDone(value)
                \/ Pop \/ LeaveQueue
                \/ SortBatch \/ IdlePass \/ StopEngine
                \/ Process \/ EndBatch

----------------------------------------------------------------------------
\* run() has returned and every thread is joined
Over == main = "returned" /\ UNCHANGED vars

Next == \/ Main
        \/ \E a \in Agents : AgentThread(a)
        \/ EngineThread
        \/ Over

Spec == Init /\ [][Next]_vars

(* Every thread is scheduled again and again, the deadline passes, and of  *)
(* infinitely many loads of a location some return its latest store.       *)
Fairness ==
  /\ WF_vars(Main)
  /\ \A a \in Agents : /\ WF_vars(Push(a) \/ PushRefused(a))
                       /\ SF_vars(Return(a))
  /\ WF_vars(EngineThread)
  /\ SF_vars(LoadDone(TRUE))

FairSpec == Spec /\ Fairness

----------------------------------------------------------------------------
Command == [agent : Agents, seq : 1 .. MaxSubmit, t : Nat]

TypeOK ==
  /\ main \in {"new", "session", "joining agents", "joining engine", "returned"}
  /\ running \in BOOLEAN /\ producersDone \in BOOLEAN
  /\ clock \in Nat
  /\ agent \in [Agents -> {"off", "loop", "push", "returned"}]
  /\ issued \in [Agents -> 0 .. MaxSubmit]
  /\ stamp \in [Agents -> Nat]
  /\ accepted \in [Agents -> Seq(Command)]
  /\ queue \in [Agents -> Seq(Command)]
  /\ \A a \in Agents : Len(queue[a]) <= Usable
  /\ engine \in {"off", "load", "drain", "process", "stopped"}
  /\ done \in BOOLEAN
  /\ rr \in Agents /\ visited \in 0 .. N /\ pops \in 0 .. BatchMax
  /\ batch \in Seq(Command)
  /\ processed \in Seq(Command)

\* what the engine has taken from the queues, processed or in the batch
Taken == processed \o batch
TakenFrom(a) == {i \in DOMAIN Taken : Taken[i].agent = a}

(* Every command a queue accepted is in exactly one place: the oldest of   *)
(* an agent have been taken, the others are in its queue.  An agent's      *)
(* commands are processed in the order it issued them, whatever passes,    *)
(* batch limits and sorting do to them (engine_loop's stable_sort); queues *)
(* hold at most what they can (TypeOK).                                    *)
OncePerCommandInOrder ==
  /\ TypeOK
  /\ \A a \in Agents : \E n \in {Len(accepted[a]) - Len(queue[a])} :
       /\ n >= 0 /\ queue[a] = SubSeq(accepted[a], n + 1, Len(accepted[a]))
       /\ {Taken[i] : i \in TakenFrom(a)} = {accepted[a][k] : k \in 1 .. n}
       /\ \A i, j \in TakenFrom(a) : i < j => Taken[i].seq < Taken[j].seq

(* When the engine stops, no agent can submit any more and nothing that a  *)
(* queue accepted is left in it: shutdown drains (engine_loop reads        *)
(* producers_done_ before it drains; DESIGN.md, shutdown lifecycle).       *)
StopsDrained ==
  engine = "stopped" =>
    \A a \in Agents : agent[a] = "returned" /\ queue[a] = <<>>

(* run() returns: no order of deadlines, joins and stale flags leaves a    *)
(* thread waiting for another for ever.                                    *)
Terminates == <>(main = "returned")

(* What docs/DESIGN.md says of the batches: commands are processed in the  *)
(* order of their submit timestamps (lines 20-22).                         *)
ArrivalOrder ==
  \A i, j \in DOMAIN processed : i < j => processed[i].t <= processed[j].t
=============================================================================
