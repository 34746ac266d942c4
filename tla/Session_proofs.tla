--------------------------- MODULE Session_proofs ---------------------------
(***************************************************************************)
(* Proofs about Session, for every number of agents, queue capacity, batch *)
(* limit and number of commands: when the engine stops, nothing is left,   *)
(* and every command is taken once, in its agent's order.                  *)
(*                                                                         *)
(* The engine reads the flag before a pass.  Once it has read it set, no   *)
(* agent pushes any more, and a pass that has popped nothing has found     *)
(* every queue it has left empty (SilentPass).  Passes begin at different  *)
(* queues, so that the pass has been to all is arithmetic modulo N.        *)
(*                                                                         *)
(* The commands an agent's queue accepted are in the order of issue and    *)
(* none is older than the one before (Submitted); the first of them have   *)
(* been taken and the rest are in the queue (Placed).  The sort moves what *)
(* is in the batch by a permutation (Sorted) under which nothing passes a  *)
(* command that is not later, so none passes another of its agent.         *)
(***************************************************************************)
EXTENDS Session, FiniteSetTheorems, SequenceTheorems, TLAPS

LEMMA RemainderUnique ==
  ASSUME NEW n \in Nat, n >= 2, NEW a \in Nat, NEW q \in Int, NEW r \in 0 .. (n - 1),
         a = n * q + r
  PROVE  a % n = r
  BY SMTT(20)

(* Every place is reached from every start in less than a round. *)
LEMMA ModReaches ==
  ASSUME NEW n \in Nat, n >= 1, NEW start \in 0 .. (n - 1), NEW place \in 0 .. (n - 1)
  PROVE  \E i \in 0 .. (n - 1) : (start + i) % n = place
<1>0. place % n = place
  BY SMTT(20)
<1>1. CASE start <= place
  <2>1. place - start \in 0 .. (n - 1) /\ start + (place - start) = place
    BY <1>1
  <2> QED BY <1>0, <2>1
<1>2. CASE place < start
  <2>1. place - start + n \in 0 .. (n - 1) /\ start + (place - start + n) = place + n
    BY <1>2
  <2>2. (place + n) % n = place
    <3>1. n >= 2 /\ place + n = n * 1 + place /\ place + n \in Nat
      BY <1>2
    <3> QED BY <3>1, RemainderUnique
  <2> QED BY <2>1, <2>2
<1> QED BY <1>1, <1>2

Request == [agent : Agents, seq : Nat, t : Nat]

PassTypes == rr \in Agents /\ visited \in 0 .. N

QueueTypes ==
  /\ queue \in [Agents -> Seq(Request)]
  /\ engine = "drain" => batch \in Seq(Request)

Types ==
  /\ main \in {"new", "session", "joining agents", "joining engine", "returned"}
  /\ clock \in Nat
  /\ agent \in [Agents -> {"off", "loop", "push", "returned"}]
  /\ issued \in [Agents -> Nat] /\ stamp \in [Agents -> Nat]
  /\ QueueTypes /\ PassTypes

\* before run() starts the threads
NotStarted == main = "new" => engine = "off" /\ ~done

\* the flag is set once the agents are joined, and the engine never reads it
\* set before it is
FlagTrue ==
  /\ producersDone => main # "session" /\ \A a \in Agents : agent[a] = "returned"
  /\ done => producersDone

\* the queues a pass that has popped nothing has left behind
SilentPass ==
  engine = "drain" /\ done /\ batch = <<>> =>
    /\ pops = 0
    /\ \A i \in 0 .. (N - 1) : i < visited => queue[(rr + i) % N] = <<>>

SessionInv == Types /\ NotStarted /\ FlagTrue /\ SilentPass
              /\ (engine = "stopped" => producersDone) /\ StopsDrained

LEMMA Sizes == N \in Nat /\ N >= 1 /\ BatchMax \in Nat /\ BatchMax >= 1
<1>1. N \in Nat \ {0} /\ BatchMax \in Nat \ {0}
  BY SessionAssumption, Zenon
<1> QED BY <1>1

LEMMA Positions ==
  ASSUME Types
  PROVE  rr \in Nat /\ rr \in 0 .. (N - 1) /\ visited \in Nat /\ visited <= N
<1>1. rr \in 0 .. (N - 1) /\ visited \in 0 .. N
  BY Zenon DEF Types, PassTypes, Agents
<1> QED BY <1>1, Sizes

LEMMA InitSessionInv == Init => SessionInv
<1> SUFFICES ASSUME Init PROVE SessionInv
  OBVIOUS
<1>1. Types
  BY Sizes DEF Init, Types, QueueTypes, PassTypes, Agents
<1> QED
  BY <1>1 DEF Init, SessionInv, NotStarted, FlagTrue, SilentPass, StopsDrained

(* The main thread: what it does to the flag follows from the joins.       *)
LEMMA MainStep == SessionInv /\ Main => SessionInv'
<1> SUFFICES ASSUME SessionInv, Main PROVE SessionInv'
  OBVIOUS
<1>1. CASE Start
  <2>1. Types'
    BY <1>1 DEF Start, SessionInv, Types, QueueTypes, PassTypes
  <2>2. engine' = "load" /\ main' = "session" /\ producersDone' = FALSE /\ done' = FALSE
    BY <1>1 DEF Start, SessionInv, NotStarted
  <2> QED BY <2>1, <2>2 DEF SessionInv, NotStarted, FlagTrue, SilentPass, StopsDrained
<1>2. CASE EndSession
  BY <1>2 DEF EndSession, agentVars, engineVars, SessionInv, Types, QueueTypes, PassTypes, NotStarted, FlagTrue,
              SilentPass, StopsDrained
<1>3. CASE JoinAgents
  BY <1>3 DEF JoinAgents, agentVars, engineVars, SessionInv, Types, QueueTypes, PassTypes, NotStarted, FlagTrue,
              SilentPass, StopsDrained
<1>4. CASE JoinEngine
  BY <1>4 DEF JoinEngine, agentVars, engineVars, SessionInv, Types, QueueTypes, PassTypes, NotStarted, FlagTrue,
              SilentPass, StopsDrained
<1> QED BY <1>1, <1>2, <1>3, <1>4 DEF Main

(* An agent that has not returned: the flag is not set, so neither is what *)
(* the engine has read of it, and the engine has not stopped.              *)
LEMMA AgentStep ==
  ASSUME SessionInv, NEW a \in Agents, AgentThread(a)
  PROVE  SessionInv'
<1>1. agent[a] # "returned" /\ UNCHANGED <<mainVars, engineVars>>
  BY DEF AgentThread, Stamp, Push, PushRefused, Return
<1>2. ~producersDone /\ ~done /\ engine # "stopped"
  BY <1>1 DEF SessionInv, FlagTrue
<1>3. Types'
  <2>1. CASE Stamp(a)
    <3>1. PICK t \in {clock, clock + 1} : clock' = t /\ stamp' = [stamp EXCEPT ![a] = t]
      BY <2>1 DEF Stamp
    <3>2. clock \in Nat /\ stamp \in [Agents -> Nat] /\ issued \in [Agents -> Nat]
          /\ agent \in [Agents -> {"off", "loop", "push", "returned"}]
      BY DEF SessionInv, Types
    <3>3. t \in Nat
      BY <3>1, <3>2
    <3>4. stamp' \in [Agents -> Nat]
      BY <3>1, <3>2, <3>3
    <3>5. issued' \in [Agents -> Nat]
      <4>1. issued' = [issued EXCEPT ![a] = @ + 1]
        BY <2>1 DEF Stamp
      <4> QED BY <3>2, <4>1
    <3>6. agent' \in [Agents -> {"off", "loop", "push", "returned"}]
      <4>1. agent' = [agent EXCEPT ![a] = "push"]
        BY <2>1 DEF Stamp
      <4> QED BY <3>2, <4>1
    <3>7. QueueTypes' /\ PassTypes'
      BY <1>1, <2>1 DEF Stamp, engineVars, SessionInv, Types, QueueTypes, PassTypes
    <3> QED BY <1>1, <3>1, <3>3, <3>4, <3>5, <3>6, <3>7 DEF mainVars, SessionInv, Types
  <2>2. CASE Push(a)
    <3>1. NewCommand(a) \in Request
      BY DEF NewCommand, Request, SessionInv, Types
    <3>2. queue' \in [Agents -> Seq(Request)]
      <4>1. queue \in [Agents -> Seq(Request)] /\ queue' = [queue EXCEPT ![a] = Append(@, NewCommand(a))]
        BY <2>2 DEF Push, SessionInv, Types, QueueTypes
      <4> QED BY <3>1, <4>1
    <3> QED BY <1>1, <2>2, <3>2 DEF Push, mainVars, engineVars, SessionInv, Types, QueueTypes, PassTypes
  <2>3. CASE PushRefused(a)
    BY <1>1, <2>3 DEF PushRefused, mainVars, engineVars, SessionInv, Types, QueueTypes, PassTypes
  <2>4. CASE Return(a)
    BY <1>1, <2>4 DEF Return, mainVars, engineVars, SessionInv, Types, QueueTypes, PassTypes
  <2> QED BY <2>1, <2>2, <2>3, <2>4 DEF AgentThread
<1> QED
  BY <1>1, <1>2, <1>3
     DEF mainVars, engineVars, SessionInv, NotStarted, FlagTrue, SilentPass, StopsDrained

LEMMA CurrentType == ASSUME Types, visited < N PROVE Current \in Agents
<1>1. N \in Nat /\ N >= 1 /\ rr + visited \in Nat
  BY Sizes, Positions
<1> QED BY <1>1, SMTT(20) DEF Current, Agents

LEMMA RotateType == ASSUME Types, Rotate PROVE rr' \in Agents
<1>1. N \in Nat /\ N >= 1 /\ rr + 1 \in Nat
  BY Sizes, Positions
<1> QED BY <1>1, SMTT(20) DEF Rotate, Agents

LEMMA PopStep ==
  ASSUME SessionInv, Pop
  PROVE  SessionInv'
<1>1. /\ engine = "drain" /\ visited < N /\ Current \in Agents /\ queue[Current] # <<>>
      /\ batch' = Append(batch, Head(queue[Current]))
      /\ queue' = [queue EXCEPT ![Current] = Tail(@)]
      /\ UNCHANGED <<mainVars, agentVars, engine, done, rr, visited, processed>>
  BY CurrentType DEF Pop, SessionInv, Types
<1>2. queue[Current] \in Seq(Request) /\ Head(queue[Current]) \in Request
      /\ Tail(queue[Current]) \in Seq(Request) /\ batch \in Seq(Request)
  <2>1. queue \in [Agents -> Seq(Request)] /\ batch \in Seq(Request)
    BY <1>1 DEF SessionInv, Types, QueueTypes
  <2>2. queue[Current] \in Seq(Request)
    BY <1>1, <2>1
  <2> QED BY <1>1, <2>1, <2>2
<1>3. batch' \in Seq(Request) /\ batch' # <<>>
  BY <1>1, <1>2
<1>4. Types'
  BY <1>1, <1>2, <1>3 DEF mainVars, agentVars, SessionInv, Types, QueueTypes, PassTypes
<1> QED
  BY <1>1, <1>3, <1>4 DEF mainVars, agentVars, SessionInv, NotStarted, FlagTrue, SilentPass,
                          StopsDrained

\* With the flag read as set and nothing popped, a queue is left only when empty.
LEMMA LeaveQueueStep ==
  ASSUME SessionInv, LeaveQueue
  PROVE  SessionInv'
<1>1. /\ engine = "drain" /\ visited < N /\ visited' = visited + 1 /\ pops' = 0
      /\ UNCHANGED <<mainVars, agentVars, queue, engine, done, rr, batch, processed>>
  BY DEF LeaveQueue
<1>2. Types'
  <2>1. QueueTypes'
    BY <1>1 DEF agentVars, SessionInv, Types, QueueTypes
  <2>2. PassTypes'
    <3>1. rr' \in Agents /\ visited' \in 0 .. N
      BY <1>1, Sizes, Positions DEF SessionInv, Agents
    <3> QED BY <3>1 DEF PassTypes
  <2> QED BY <1>1, <2>1, <2>2 DEF mainVars, agentVars, SessionInv, Types
<1>3. SilentPass'
  <2> SUFFICES ASSUME done, batch = <<>>, NEW i \in 0 .. (N - 1), i < visited + 1
               PROVE  queue[(rr + i) % N] = <<>>
    BY <1>1 DEF SilentPass
  <2>1. pops = 0 /\ (i < visited => queue[(rr + i) % N] = <<>>)
    BY <1>1 DEF SessionInv, SilentPass
  <2>2. queue[Current] = <<>>
    BY <2>1, Sizes DEF LeaveQueue
  <2>3. i < visited \/ i = visited
    BY Positions, Sizes DEF SessionInv
  <2> QED BY <2>1, <2>2, <2>3 DEF Current
<1> QED
  BY <1>1, <1>2, <1>3 DEF mainVars, agentVars, SessionInv, NotStarted, FlagTrue, StopsDrained

\* A whole pass has been to every queue, wherever it began.
LEMMA PassIsComplete ==
  ASSUME SessionInv, StopEngine, NEW a \in Agents
  PROVE  queue[a] = <<>>
<1>1. \E i \in 0 .. (N - 1) : (rr + i) % N = a
  BY Sizes, Positions, ModReaches DEF SessionInv, Agents
<1>2. PICK i \in 0 .. (N - 1) : (rr + i) % N = a
  BY <1>1
<1>3. i < visited
  BY Sizes DEF StopEngine, Drained
<1> QED BY <1>2, <1>3 DEF StopEngine, Drained, SessionInv, SilentPass

LEMMA EngineStep == SessionInv /\ EngineThread => SessionInv'
<1> SUFFICES ASSUME SessionInv, EngineThread PROVE SessionInv'
  OBVIOUS
<1>1. ASSUME NEW value \in BOOLEAN, LoadDone(value) PROVE SessionInv'
  <2>1. /\ engine' = "drain" /\ batch' = <<>> /\ visited' = 0 /\ pops' = 0 /\ done' = value
        /\ value = producersDone \/ value = done
        /\ UNCHANGED <<mainVars, agentVars, queue, rr, processed>> /\ engine = "load"
    BY <1>1 DEF LoadDone
  <2>2. Types'
    <3>1. QueueTypes'
      <4>1. queue' = queue /\ batch' = <<>>
        BY <2>1
      <4>2. queue \in [Agents -> Seq(Request)]
        BY DEF SessionInv, Types, QueueTypes
      <4> QED BY <4>1, <4>2 DEF QueueTypes
    <3>2. PassTypes'
      <4>1. rr' = rr /\ visited' = 0
        BY <2>1
      <4>2. 0 \in 0 .. N
        BY Sizes
      <4>3. rr \in Agents
        BY DEF SessionInv, Types, PassTypes
      <4> QED BY <4>1, <4>2, <4>3, Zenon DEF PassTypes
    <3> QED BY <2>1, <3>1, <3>2 DEF mainVars, agentVars, SessionInv, Types
  <2>3. SilentPass'
    BY <2>1 DEF SilentPass
  <2> QED
    BY <2>1, <2>2, <2>3 DEF mainVars, agentVars, SessionInv, NotStarted, FlagTrue, StopsDrained
<1>2. CASE Pop BY <1>2, PopStep
<1>3. CASE LeaveQueue BY <1>3, LeaveQueueStep
<1>4. CASE SortBatch
  <2>1. engine = "drain" /\ engine' = "process" /\ rr' \in Agents
        /\ UNCHANGED <<mainVars, agentVars, queue, done, visited>>
    BY <1>4, RotateType DEF SortBatch, Drained, SessionInv
  <2>2. Types'
    BY <2>1 DEF mainVars, agentVars, SessionInv, Types, QueueTypes, PassTypes
  <2> QED
    BY <2>1, <2>2 DEF mainVars, agentVars, SessionInv, NotStarted, FlagTrue, SilentPass, StopsDrained
<1>5. CASE IdlePass
  <2>1. engine = "drain" /\ engine' = "load" /\ rr' \in Agents
        /\ UNCHANGED <<mainVars, agentVars, queue, done, visited>>
    BY <1>5, RotateType DEF IdlePass, Drained, SessionInv
  <2>2. Types'
    BY <2>1 DEF mainVars, agentVars, SessionInv, Types, QueueTypes, PassTypes
  <2> QED
    BY <2>1, <2>2 DEF mainVars, agentVars, SessionInv, NotStarted, FlagTrue, SilentPass, StopsDrained
<1>6. CASE StopEngine
  <2>1. engine = "drain" /\ engine' = "stopped" /\ rr' \in Agents /\ done
        /\ UNCHANGED <<mainVars, agentVars, queue, done, visited>>
    BY <1>6, RotateType DEF StopEngine, Drained, SessionInv
  <2>2. Types'
    BY <2>1 DEF mainVars, agentVars, SessionInv, Types, QueueTypes, PassTypes
  <2>3. producersDone /\ \A a \in Agents : agent[a] = "returned"
    BY <2>1 DEF SessionInv, FlagTrue
  <2>4. \A a \in Agents : queue[a] = <<>>
    BY <1>6, PassIsComplete
  <2> QED
    BY <2>1, <2>2, <2>3, <2>4
       DEF mainVars, agentVars, SessionInv, NotStarted, FlagTrue, SilentPass, StopsDrained
<1>7. CASE Process
  BY <1>7 DEF Process, mainVars, agentVars, SessionInv, Types, QueueTypes, PassTypes, NotStarted, FlagTrue, SilentPass,
              StopsDrained
<1>8. CASE EndBatch
  BY <1>8 DEF EndBatch, mainVars, agentVars, SessionInv, Types, QueueTypes, PassTypes, NotStarted, FlagTrue, SilentPass,
              StopsDrained
<1> QED BY <1>1, <1>2, <1>3, <1>4, <1>5, <1>6, <1>7, <1>8 DEF EngineThread

LEMMA SessionStep == SessionInv /\ [Next]_vars => SessionInv'
<1> SUFFICES ASSUME SessionInv, [Next]_vars PROVE SessionInv'
  OBVIOUS
<1>1. CASE UNCHANGED vars
  BY <1>1 DEF vars, mainVars, agentVars, engineVars, SessionInv, Types, QueueTypes, PassTypes, NotStarted, FlagTrue,
              SilentPass, StopsDrained
<1> QED BY <1>1, MainStep, AgentStep, EngineStep DEF Next, Over

(* Shutdown drains: an engine that has stopped leaves no accepted command  *)
(* in a queue, and no agent is left to submit one.                         *)
THEOREM DrainsBeforeStopping == Spec => []StopsDrained
<1>1. SessionInv => StopsDrained
  BY DEF SessionInv
<1> QED BY <1>1, InitSessionInv, SessionStep, PTL DEF Spec

----------------------------------------------------------------------------
(* The stable sort.  A command's place is the number of those before it,   *)
(* in a strict total order, so that it is a permutation.                   *)

Before(cs, i, j) == cs[i].t < cs[j].t \/ (cs[i].t = cs[j].t /\ i < j)

LEMMA BeforeOrder ==
  ASSUME NEW cs \in Seq(Command)
  PROVE  /\ \A i, j \in 1 .. Len(cs) : i # j => Before(cs, i, j) \/ Before(cs, j, i)
         /\ \A i \in 1 .. Len(cs) : ~Before(cs, i, i)
         /\ \A i, j, k \in 1 .. Len(cs) :
              Before(cs, i, j) /\ Before(cs, j, k) => Before(cs, i, k)
         /\ \A i \in 1 .. Len(cs) : Earlier(cs, i) = {j \in 1 .. Len(cs) : Before(cs, j, i)}
<1>1. Len(cs) \in Nat /\ \A i \in 1 .. Len(cs) : cs[i].t \in Nat
  <2>1. Len(cs) \in Nat /\ \A i \in 1 .. Len(cs) : cs[i] \in Command
    OBVIOUS
  <2>2. \A c \in Command : c.t \in Nat
    BY DEF Command
  <2> QED BY <2>1, <2>2
<1>2. \A i \in 1 .. Len(cs) : Earlier(cs, i) = {j \in 1 .. Len(cs) : Before(cs, j, i)}
  BY DEF Earlier, Before
<1> QED BY <1>1, <1>2 DEF Before

LEMMA MoreBefore ==
  ASSUME NEW cs \in Seq(Command), NEW i \in 1 .. Len(cs), NEW j \in 1 .. Len(cs)
  PROVE  /\ Cardinality(Earlier(cs, i)) \in 0 .. Len(cs) - 1
         /\ Before(cs, i, j) => Cardinality(Earlier(cs, i)) < Cardinality(Earlier(cs, j))
<1>1. Len(cs) \in Nat /\ IsFiniteSet(1 .. Len(cs)) /\ Cardinality(1 .. Len(cs)) = Len(cs)
  <2>1. Len(cs) \in Nat /\ Len(cs) \in Int /\ 1 \in Int
    OBVIOUS
  <2>2. IsFiniteSet(1 .. Len(cs))
        /\ Cardinality(1 .. Len(cs)) = IF 1 > Len(cs) THEN 0 ELSE Len(cs) - 1 + 1
    BY <2>1, FS_Interval
  <2> QED BY <2>1, <2>2
<1>2. \A k \in 1 .. Len(cs) :
        /\ Earlier(cs, k) \subseteq 1 .. Len(cs) /\ k \notin Earlier(cs, k)
        /\ IsFiniteSet(Earlier(cs, k)) /\ Cardinality(Earlier(cs, k)) \in Nat
        /\ Cardinality(Earlier(cs, k)) < Len(cs)
  <2> TAKE k \in 1 .. Len(cs)
  <2>1. Earlier(cs, k) \subseteq 1 .. Len(cs) /\ k \notin Earlier(cs, k)
    BY BeforeOrder
  <2>2. Earlier(cs, k) # 1 .. Len(cs)
    BY <2>1
  <2>3. IsFiniteSet(Earlier(cs, k))
    BY <1>1, <2>1, FS_Subset
  <2>4. Cardinality(Earlier(cs, k)) \in Nat
    BY <2>3, FS_CardinalityType
  <2>5. Cardinality(Earlier(cs, k)) < Cardinality(1 .. Len(cs))
    BY <1>1, <2>1, <2>2, <2>4, FS_Subset
  <2> QED BY <1>1, <2>1, <2>3, <2>4, <2>5
<1>3. ASSUME Before(cs, i, j) PROVE Cardinality(Earlier(cs, i)) < Cardinality(Earlier(cs, j))
  <2>1. Earlier(cs, i) \subseteq Earlier(cs, j) /\ i \in Earlier(cs, j)
    BY <1>3, BeforeOrder
  <2>2. Earlier(cs, i) # Earlier(cs, j)
    BY <1>2, <2>1
  <2> QED BY <1>2, <2>1, <2>2, FS_Subset
<1> QED BY <1>1, <1>2, <1>3

\* What the sort makes of a batch: the same commands, each before those that
\* are later or, at the same time, stood behind it.
SortedBy(p, D, cs, sorted) ==
  /\ p \in [D -> D]
  /\ sorted = [k \in D |-> cs[p[k]]]
  /\ \A i \in D : \E k \in D : p[k] = i
  /\ \A k, l \in D : k < l => Before(cs, p[k], p[l])

LEMMA Sorted ==
  ASSUME NEW cs \in Seq(Command), NEW sorted, sorted = InSubmitTime(cs)
  PROVE  \E p : SortedBy(p, 1 .. Len(cs), cs, sorted)
<1>1. Len(cs) \in Nat
  OBVIOUS
<1> DEFINE n == Len(cs)
           D == 1 .. n
           P == 0 .. n - 1
           place == [i \in D |-> Cardinality(Earlier(cs, i))]
<1>2. place \in [D -> P]
  BY MoreBefore
<1>3. \A i, j \in D : place[i] = place[j] => i = j
  <2> SUFFICES ASSUME NEW i \in D, NEW j \in D, i # j PROVE place[i] # place[j]
    OBVIOUS
  <2>1. place[i] \in Nat /\ place[j] \in Nat
    BY <1>2
  <2>2. Before(cs, i, j) \/ Before(cs, j, i)
    BY BeforeOrder
  <2>3. place[i] < place[j] \/ place[j] < place[i]
    BY <2>2, MoreBefore
  <2> QED BY <2>1, <2>3
<1>4. IsFiniteSet(D) /\ IsFiniteSet(P) /\ Cardinality(D) = Cardinality(P)
  <2>1. n \in Int /\ 1 \in Int /\ 0 \in Int /\ n - 1 \in Int
    BY <1>1
  <2>2. /\ IsFiniteSet(D) /\ Cardinality(D) = IF 1 > n THEN 0 ELSE n - 1 + 1
        /\ IsFiniteSet(P) /\ Cardinality(P) = IF 0 > n - 1 THEN 0 ELSE n - 1 - 0 + 1
    BY <2>1, FS_Interval
  <2> QED BY <1>1, <2>2
<1> HIDE DEF place, D, P
<1>5. place \in Injection(D, P)
  BY <1>2, <1>3 DEF Injection, IsInjective
<1>6. place \in Surjection(D, P)
  BY <1>4, <1>5, FS_Injection
<1>7. \A k \in D : \E i \in D : place[i] = k - 1
  <2>1. \A k \in D : k - 1 \in P
    BY <1>1 DEF D, P
  <2> QED BY <1>6, <2>1 DEF Surjection
<1>0. DOMAIN cs = D
  BY DEF D
<1> DEFINE at(k) == CHOOSE i \in DOMAIN cs : Cardinality(Earlier(cs, i)) = k - 1
           p == [k \in D |-> at(k)]
<1>8. \A k \in D : p[k] \in D /\ place[p[k]] = k - 1
  <2> SUFFICES ASSUME NEW k \in D PROVE at(k) \in D /\ place[at(k)] = k - 1
    OBVIOUS
  <2>1. \E i \in DOMAIN cs : Cardinality(Earlier(cs, i)) = k - 1
    BY <1>0, <1>7 DEF place
  <2>2. at(k) \in DOMAIN cs /\ Cardinality(Earlier(cs, at(k))) = k - 1
    BY <2>1
  <2> HIDE DEF at
  <2> QED BY <1>0, <2>2 DEF place
<1>9. p \in [D -> D]
  BY <1>8
<1>10. sorted = [k \in D |-> cs[p[k]]]
  <2>1. sorted = [k \in DOMAIN cs |-> cs[at(k)]]
    BY DEF InSubmitTime
  <2>2. \A k \in D : p[k] = at(k)
    OBVIOUS
  <2> HIDE DEF at, p
  <2> QED BY <1>0, <2>1, <2>2
<1> HIDE DEF p
<1>11. \A i \in D : \E k \in D : p[k] = i
  <2> SUFFICES ASSUME NEW i \in D PROVE p[place[i] + 1] = i /\ place[i] + 1 \in D
    OBVIOUS
  <2>1. place[i] \in Nat /\ place[i] + 1 \in D
    BY <1>1, <1>2 DEF D, P
  <2>2. p[place[i] + 1] \in D /\ place[p[place[i] + 1]] = place[i]
    BY <1>8, <2>1
  <2> QED BY <1>3, <2>1, <2>2
<1>12. ASSUME NEW k \in D, NEW l \in D, k < l PROVE Before(cs, p[k], p[l])
  <2>1. /\ p[k] \in 1 .. Len(cs) /\ p[l] \in 1 .. Len(cs)
        /\ place[p[k]] = k - 1 /\ place[p[l]] = l - 1 /\ k \in Nat /\ l \in Nat
    BY <1>8 DEF D
  <2>2. p[k] # p[l]
    BY <1>12, <2>1
  <2>3. Before(cs, p[l], p[k]) => place[p[l]] < place[p[k]]
    BY <2>1, MoreBefore DEF place, D
  <2>4. ~Before(cs, p[l], p[k])
    BY <1>12, <2>1, <2>3
  <2> QED BY <2>1, <2>2, <2>4, BeforeOrder
<1>13. SortedBy(p, D, cs, sorted)
  BY <1>9, <1>10, <1>11, <1>12, Zenon DEF SortedBy
<1> QED BY <1>13 DEF D

LEMMA SortedType ==
  ASSUME NEW cs \in Seq(Command), NEW n, Len(cs) = n, NEW p, NEW sorted,
         SortedBy(p, 1 .. n, cs, sorted)
  PROVE  sorted \in Seq(Command) /\ Len(sorted) = n
<1>1. n \in Nat /\ \A i \in 1 .. n : cs[i] \in Command
  BY ElementOfSeq, LenProperties
<1>2. sorted \in [1 .. n -> Command]
  BY <1>1 DEF SortedBy
<1> QED BY <1>1, <1>2

----------------------------------------------------------------------------
(* Where an agent's commands are: acc are those its queue accepted, q the  *)
(* queue, taken what the engine has taken from all queues.                 *)

\* in the order of issue, and no timestamp goes back
Issued(acc, a) ==
  /\ \A k \in 1 .. Len(acc) : acc[k].agent = a
  /\ \A k, l \in 1 .. Len(acc) : k < l => acc[k].seq < acc[l].seq /\ acc[k].t <= acc[l].t

\* the queue is the end of what it accepted, and the rest has been taken
InPlace(taken, acc, q, a) ==
  /\ Len(q) <= Len(acc)
  /\ \A k \in 1 .. Len(q) : q[k] = acc[Len(acc) - Len(q) + k]
  /\ \A i \in 1 .. Len(taken) :
       taken[i].agent = a => \E k \in 1 .. Len(acc) - Len(q) : taken[i] = acc[k]
  /\ \A k \in 1 .. Len(acc) - Len(q) : \E i \in 1 .. Len(taken) : taken[i] = acc[k]

Ascending(taken) ==
  \A i, j \in 1 .. Len(taken) :
    i < j /\ taken[i].agent = taken[j].agent => taken[i].seq < taken[j].seq

LEMMA CommandFields == \A c \in Command : c.agent \in Agents /\ c.seq \in Nat /\ c.t \in Nat
  BY DEF Command

LEMMA PlacePush ==
  ASSUME NEW taken \in Seq(Command), NEW acc \in Seq(Command), NEW q \in Seq(Command), NEW a,
         InPlace(taken, acc, q, a), NEW c \in Command
  PROVE  InPlace(taken, Append(acc, c), Append(q, c), a)
<1> DEFINE bcc == Append(acc, c)
           r == Append(q, c)
<1>1. /\ Len(acc) \in Nat /\ Len(q) \in Nat /\ Len(q) <= Len(acc)
      /\ Len(bcc) = Len(acc) + 1 /\ Len(r) = Len(q) + 1
      /\ bcc[Len(acc) + 1] = c /\ r[Len(q) + 1] = c
      /\ \A k \in 1 .. Len(acc) : bcc[k] = acc[k]
      /\ \A k \in 1 .. Len(q) : r[k] = q[k]
  BY DEF InPlace
<1> HIDE DEF bcc, r
<1>2. ASSUME NEW k \in 1 .. Len(r) PROVE r[k] = bcc[Len(bcc) - Len(r) + k]
  <2>1. CASE k = Len(q) + 1
    BY <1>1, <2>1
  <2>2. CASE k # Len(q) + 1
    <3>1. /\ k \in 1 .. Len(q) /\ Len(acc) - Len(q) + k \in 1 .. Len(acc)
          /\ Len(bcc) - Len(r) + k = Len(acc) - Len(q) + k
      BY <1>1, <2>2
    <3>2. q[k] = acc[Len(acc) - Len(q) + k]
      BY <3>1 DEF InPlace
    <3> QED BY <1>1, <3>1, <3>2
  <2> QED BY <2>1, <2>2
<1>3. 1 .. Len(bcc) - Len(r) = 1 .. Len(acc) - Len(q)
      /\ \A k \in 1 .. Len(acc) - Len(q) : bcc[k] = acc[k]
  BY <1>1
<1>4. Len(r) <= Len(bcc)
  BY <1>1
<1>5. \A i \in 1 .. Len(taken) :
        taken[i].agent = a => \E k \in 1 .. Len(bcc) - Len(r) : taken[i] = bcc[k]
  <2> SUFFICES ASSUME NEW i \in 1 .. Len(taken), taken[i].agent = a
               PROVE  \E k \in 1 .. Len(bcc) - Len(r) : taken[i] = bcc[k]
    OBVIOUS
  <2>1. PICK k \in 1 .. Len(acc) - Len(q) : taken[i] = acc[k]
    BY DEF InPlace
  <2> QED BY <1>3, <2>1, Zenon
<1>6. \A k \in 1 .. Len(bcc) - Len(r) : \E i \in 1 .. Len(taken) : taken[i] = bcc[k]
  <2> SUFFICES ASSUME NEW k \in 1 .. Len(acc) - Len(q)
               PROVE  \E i \in 1 .. Len(taken) : taken[i] = bcc[k]
    BY <1>3, Zenon
  <2> QED BY <1>3 DEF InPlace
<1>7. InPlace(taken, bcc, r, a)
  BY <1>2, <1>4, <1>5, <1>6, Zenon DEF InPlace
<1> QED BY <1>7 DEF bcc, r

LEMMA IssuedPush ==
  ASSUME NEW acc \in Seq(Command), NEW a, Issued(acc, a), NEW c \in Command, c.agent = a,
         \A k \in 1 .. Len(acc) : acc[k].seq < c.seq /\ acc[k].t <= c.t
  PROVE  Issued(Append(acc, c), a)
<1> DEFINE bcc == Append(acc, c)
<1>1. /\ Len(acc) \in Nat /\ Len(bcc) = Len(acc) + 1 /\ bcc[Len(acc) + 1] = c
      /\ \A k \in 1 .. Len(acc) : bcc[k] = acc[k]
  OBVIOUS
<1> HIDE DEF bcc
<1>2. \A k \in 1 .. Len(bcc) : k \in 1 .. Len(acc) \/ k = Len(acc) + 1
  BY <1>1
<1>3. \A k \in 1 .. Len(bcc) : bcc[k].agent = a
  BY <1>1, <1>2 DEF Issued
<1>4. ASSUME NEW k \in 1 .. Len(bcc), NEW l \in 1 .. Len(bcc), k < l
      PROVE  bcc[k].seq < bcc[l].seq /\ bcc[k].t <= bcc[l].t
  <2>1. k \in 1 .. Len(acc)
    BY <1>1, <1>2, <1>4
  <2>2. CASE l \in 1 .. Len(acc)
    BY <1>1, <1>4, <2>1, <2>2 DEF Issued
  <2>3. CASE l = Len(acc) + 1
    BY <1>1, <2>1, <2>3
  <2> QED BY <1>2, <2>2, <2>3
<1>5. Issued(bcc, a)
  BY <1>3, <1>4 DEF Issued
<1> QED BY <1>5 DEF bcc

\* The engine takes the oldest command of a queue.
LEMMA PlacePop ==
  ASSUME NEW taken \in Seq(Command), NEW acc \in Seq(Command), NEW q \in Seq(Command), NEW a,
         Issued(acc, a), InPlace(taken, acc, q, a), Ascending(taken), q # <<>>
  PROVE  /\ Head(q).agent = a
         /\ InPlace(Append(taken, Head(q)), acc, Tail(q), a)
         /\ Ascending(Append(taken, Head(q)))
<1> DEFINE n == Len(acc) - Len(q)
           c == Head(q)
           r == Tail(q)
           new == Append(taken, c)
<1>1. /\ Len(acc) \in Nat /\ Len(q) \in Nat /\ Len(q) > 0 /\ Len(q) <= Len(acc)
      /\ Len(r) = Len(q) - 1 /\ \A k \in 1 .. Len(r) : r[k] = q[k + 1]
      /\ c = q[1] /\ c \in Command
  BY DEF InPlace
<1>2. /\ Len(taken) \in Nat /\ Len(new) = Len(taken) + 1 /\ new[Len(taken) + 1] = c
      /\ \A i \in 1 .. Len(taken) : new[i] = taken[i]
  BY <1>1
<1> HIDE DEF c, r, new
<1>3. n \in Nat /\ n + 1 \in 1 .. Len(acc) /\ Len(acc) - Len(r) = n + 1
  BY <1>1
<1>4. c = acc[n + 1]
  <2>1. 1 \in 1 .. Len(q)
    BY <1>1
  <2> QED BY <1>1, <2>1 DEF InPlace
<1>5. c.agent = a
  BY <1>3, <1>4 DEF Issued
<1>6. \A i \in 1 .. Len(taken) : taken[i].agent = a => \E k \in 1 .. n : taken[i] = acc[k]
  BY DEF InPlace
<1>7. \A k \in 1 .. n : \E i \in 1 .. Len(taken) : taken[i] = acc[k]
  BY DEF InPlace
<1>8. \A i \in 1 .. Len(new) : i \in 1 .. Len(taken) \/ i = Len(taken) + 1
  BY <1>2
<1>9. \A k \in 1 .. n : k \in 1 .. Len(acc) /\ k \in 1 .. n + 1 /\ k < n + 1
  BY <1>1, <1>3
<1>10. InPlace(new, acc, r, a)
  <2>1. ASSUME NEW k \in 1 .. Len(r) PROVE r[k] = acc[n + 1 + k]
    <3>1. k + 1 \in 1 .. Len(q) /\ n + (k + 1) = n + 1 + k
      BY <1>1, <1>3
    <3>2. q[k + 1] = acc[n + (k + 1)]
      BY <3>1 DEF InPlace
    <3> QED BY <1>1, <3>1, <3>2
  <2>2. ASSUME NEW i \in 1 .. Len(new), new[i].agent = a
        PROVE  \E k \in 1 .. n + 1 : new[i] = acc[k]
    <3>1. CASE i \in 1 .. Len(taken)
      BY <1>2, <1>6, <1>9, <2>2, <3>1
    <3>2. CASE i = Len(taken) + 1
      <4>1. n + 1 \in 1 .. n + 1
        BY <1>3
      <4> QED BY <1>2, <1>4, <3>2, <4>1
    <3> QED BY <1>8, <3>1, <3>2
  <2>3. ASSUME NEW k \in 1 .. n + 1 PROVE \E i \in 1 .. Len(new) : new[i] = acc[k]
    <3>1. CASE k \in 1 .. n
      <4>1. PICK i \in 1 .. Len(taken) : taken[i] = acc[k]
        BY <1>7, <3>1
      <4>2. i \in 1 .. Len(new)
        BY <1>2
      <4> QED BY <1>2, <4>1, <4>2
    <3>2. CASE k = n + 1
      <4>1. Len(taken) + 1 \in 1 .. Len(new)
        BY <1>2
      <4> QED BY <1>2, <1>4, <3>2, <4>1
    <3>3. k \in 1 .. n \/ k = n + 1
      BY <1>3
    <3> QED BY <3>1, <3>2, <3>3
  <2>4. Len(r) <= Len(acc)
    BY <1>1
  <2> HIDE DEF n
  <2> QED BY <1>3, <2>1, <2>2, <2>3, <2>4 DEF InPlace
<1>11. Ascending(new)
  <2> SUFFICES ASSUME NEW i \in 1 .. Len(new), NEW j \in 1 .. Len(new), i < j,
                      new[i].agent = new[j].agent
               PROVE  new[i].seq < new[j].seq
    BY DEF Ascending
  <2>1. i \in 1 .. Len(taken)
    BY <1>2, <1>8
  <2>2. CASE j \in 1 .. Len(taken)
    BY <1>2, <2>1, <2>2 DEF Ascending
  <2>3. CASE j = Len(taken) + 1
    <3>1. taken[i].agent = a
      BY <1>2, <1>5, <2>1, <2>3
    <3>2. PICK k \in 1 .. n : taken[i] = acc[k]
      BY <1>6, <2>1, <3>1
    <3>3. acc[k].seq < acc[n + 1].seq
      BY <1>3, <1>9 DEF Issued
    <3> QED BY <1>2, <1>4, <2>1, <2>3, <3>2, <3>3
  <2> QED BY <1>8, <2>2, <2>3
<1> QED BY <1>5, <1>10, <1>11 DEF c, r, new

LEMMA PlaceOther ==
  ASSUME NEW taken \in Seq(Command), NEW acc \in Seq(Command), NEW q \in Seq(Command), NEW a,
         InPlace(taken, acc, q, a), NEW c \in Command, c.agent # a
  PROVE  InPlace(Append(taken, c), acc, q, a)
<1> DEFINE new == Append(taken, c)
<1>1. /\ Len(taken) \in Nat /\ Len(new) = Len(taken) + 1 /\ new[Len(taken) + 1] = c
      /\ \A i \in 1 .. Len(taken) : new[i] = taken[i]
  OBVIOUS
<1> HIDE DEF new
<1>2. \A i \in 1 .. Len(new) : i \in 1 .. Len(taken) \/ i = Len(taken) + 1
  BY <1>1
<1>3. \A i \in 1 .. Len(taken) : i \in 1 .. Len(new)
  BY <1>1
<1>4. ASSUME NEW i \in 1 .. Len(new), new[i].agent = a
      PROVE  \E k \in 1 .. Len(acc) - Len(q) : new[i] = acc[k]
  <2>1. i \in 1 .. Len(taken) /\ new[i] = taken[i]
    BY <1>1, <1>2, <1>4
  <2> QED BY <1>4, <2>1 DEF InPlace
<1>5. ASSUME NEW k \in 1 .. Len(acc) - Len(q)
      PROVE  \E i \in 1 .. Len(new) : new[i] = acc[k]
  BY <1>1, <1>3 DEF InPlace
<1>6. InPlace(new, acc, q, a)
  BY <1>4, <1>5 DEF InPlace
<1> QED BY <1>6 DEF new

\* A permutation of what stands behind m others.
Behind(move, m, n, p) ==
  /\ \A i \in 1 .. m + n : i <= m => move[i] = i
  /\ \A i \in 1 .. m + n : i > m => /\ i - m \in 1 .. n /\ move[i] > m
                                    /\ move[i] = m + p[i - m] /\ move[i] - m = p[i - m]
  /\ \A j \in 1 .. m + n : \E i \in 1 .. m + n : move[i] = j

LEMMA MoveBehind ==
  ASSUME NEW m \in Nat, NEW n \in Nat, NEW p \in [1 .. n -> 1 .. n],
         \A i \in 1 .. n : \E k \in 1 .. n : p[k] = i
  PROVE  \E move \in [1 .. m + n -> 1 .. m + n] : Behind(move, m, n, p)
<1> DEFINE move == [i \in 1 .. m + n |-> IF i <= m THEN i ELSE m + p[i - m]]
<1>1. \A i \in 1 .. m + n : i <= m => move[i] = i
  OBVIOUS
<1>2. ASSUME NEW i \in 1 .. m + n, i > m
      PROVE  /\ i - m \in 1 .. n /\ move[i] \in 1 .. m + n /\ move[i] > m
             /\ move[i] = m + p[i - m] /\ move[i] - m = p[i - m]
  <2>1. i - m \in 1 .. n
    BY <1>2
  <2>2. move[i] = m + p[i - m]
    BY <1>2
  <2>3. PICK q \in 1 .. n : q = p[i - m]
    BY <2>1
  <2> HIDE DEF move
  <2>4. m + q \in 1 .. m + n /\ m + q > m /\ (m + q) - m = q
    OBVIOUS
  <2> QED BY <2>1, <2>2, <2>3, <2>4
<1>3. \A i \in 1 .. m + n : move[i] \in 1 .. m + n
  BY <1>1, <1>2
<1>4. move \in [1 .. m + n -> 1 .. m + n]
  BY <1>3
<1> HIDE DEF move
<1>5. \A j \in 1 .. m + n : \E i \in 1 .. m + n : move[i] = j
  <2> TAKE j \in 1 .. m + n
  <2>1. CASE j <= m
    BY <1>1, <2>1
  <2>2. CASE j > m
    <3>1. j - m \in 1 .. n
      BY <2>2
    <3>2. PICK k \in 1 .. n : p[k] = j - m
      BY <3>1
    <3>3. PICK i \in 1 .. m + n : i > m /\ i - m = k
      <4>1. m + k \in 1 .. m + n /\ m + k > m /\ (m + k) - m = k
        OBVIOUS
      <4> QED BY <4>1
    <3>4. move[i] = m + p[k]
      BY <1>2, <3>3
    <3>5. m + p[k] = j
      BY <3>2
    <3> QED BY <3>4, <3>5
  <2> QED BY <2>1, <2>2
<1>6. Behind(move, m, n, p)
  BY <1>1, <1>2, <1>5 DEF Behind
<1> QED BY <1>4, <1>6

LEMMA Forward ==
  ASSUME NEW x \in Nat, NEW y \in Nat, NEW s \in Nat, NEW r \in Nat,
         x = y => s = r, y < x => r <= s, x < y \/ s < r
  PROVE  x < y
  OBVIOUS

\* A sort moves commands, and none ahead of one that is not later.
Moved(move, D, taken, new) ==
  /\ move \in [D -> D]
  /\ \A j \in D : \E i \in D : move[i] = j
  /\ \A i \in D : new[i] = taken[move[i]]
  /\ \A i, j \in D : i < j => \/ move[i] < move[j]
                              \/ taken[move[i]].t < taken[move[j]].t

\* an agent's later commands have no earlier timestamps
Timely(taken) ==
  \A i, j \in 1 .. Len(taken) :
    taken[i].agent = taken[j].agent /\ taken[i].seq < taken[j].seq => taken[i].t <= taken[j].t

LEMMA PlaceMoved ==
  ASSUME NEW taken \in Seq(Command), NEW new \in Seq(Command), NEW D \in SUBSET Nat,
         1 .. Len(taken) = D, 1 .. Len(new) = D, NEW move, Moved(move, D, taken, new),
         Ascending(taken), Timely(taken)
  PROVE  /\ Ascending(new)
         /\ \A acc, q, a : InPlace(taken, acc, q, a) => InPlace(new, acc, q, a)
<1>1. ASSUME NEW x \in D PROVE x \in Nat /\ taken[x].seq \in Nat /\ taken[x].t \in Nat
  <2>1. taken[x] \in Command
    OBVIOUS
  <2> QED BY <2>1, CommandFields
<1>2. ASSUME NEW i \in D, NEW j \in D, i < j, new[i].agent = new[j].agent
      PROVE  new[i].seq < new[j].seq
  <2>1. PICK x \in D : x = move[i] /\ new[i] = taken[x]
    BY Zenon DEF Moved
  <2>2. PICK y \in D : y = move[j] /\ new[j] = taken[y]
    BY Zenon DEF Moved
  <2>3. taken[x].agent = taken[y].agent
    BY <1>2, <2>1, <2>2, Zenon
  <2>4. x < y => taken[x].seq < taken[y].seq
    BY <2>3, Zenon DEF Ascending
  <2>5. y < x => taken[y].t <= taken[x].t
    BY <2>3, Zenon DEF Ascending, Timely
  <2>6. x < y \/ taken[x].t < taken[y].t
    BY <1>2, <2>1, <2>2, Zenon DEF Moved
  <2>7. x < y
    <3>1. PICK s, r : s = taken[x].t /\ r = taken[y].t
      OBVIOUS
    <3>2. x \in Nat /\ y \in Nat /\ s \in Nat /\ r \in Nat
      BY <1>1, <3>1, Zenon
    <3>3. (x = y => s = r) /\ (y < x => r <= s) /\ (x < y \/ s < r)
      BY <2>5, <2>6, <3>1, Zenon
    <3> QED BY <3>2, <3>3, Forward
  <2> QED BY <2>1, <2>2, <2>4, <2>7, Zenon
<1>3. ASSUME NEW acc, NEW q, NEW a, InPlace(taken, acc, q, a)
      PROVE  InPlace(new, acc, q, a)
  <2>1. PICK K : K = 1 .. Len(acc) - Len(q)
    OBVIOUS
  <2>2. \A i \in D : taken[i].agent = a => \E k \in K : taken[i] = acc[k]
    BY <1>3, <2>1, Zenon DEF InPlace
  <2>3. \A k \in K : \E i \in D : taken[i] = acc[k]
    BY <1>3, <2>1, Zenon DEF InPlace
  <2>4. \A i \in D : new[i].agent = a => \E k \in K : new[i] = acc[k]
    <3> SUFFICES ASSUME NEW i \in D, new[i].agent = a PROVE \E k \in K : new[i] = acc[k]
      OBVIOUS
    <3>1. PICK x \in D : x = move[i] /\ new[i] = taken[x]
      BY Zenon DEF Moved
    <3> QED BY <2>2, <3>1, Zenon
  <2>5. \A k \in K : \E i \in D : new[i] = acc[k]
    <3> SUFFICES ASSUME NEW k \in K PROVE \E i \in D : new[i] = acc[k]
      OBVIOUS
    <3>1. PICK j \in D : taken[j] = acc[k]
      BY <2>3, Zenon
    <3>2. PICK i \in D : move[i] = j /\ new[i] = taken[j]
      BY Zenon DEF Moved
    <3> QED BY <3>1, <3>2, Zenon
  <2> QED BY <1>3, <2>1, <2>4, <2>5, Zenon DEF InPlace
<1>4. Ascending(new)
  BY <1>2, Zenon DEF Ascending
<1> QED BY <1>3, <1>4, Zenon

\* x is s, of length m, and behind it r, of length n
Join(x, m, n, s, r) ==
  /\ x \in Seq(Command) /\ Len(x) = m + n
  /\ \A i \in 1 .. m + n : x[i] = IF i <= m THEN s[i] ELSE r[i - m]

LEMMA Moves ==
  ASSUME NEW m \in Nat, NEW n \in Nat, NEW p \in [1 .. n -> 1 .. n],
         NEW move \in [1 .. m + n -> 1 .. m + n],
         Behind(move, m, n, p),
         NEW front, NEW cs, NEW sorted, NEW taken, NEW new,
         \A k \in 1 .. n : sorted[k] = cs[p[k]],
         \A k, l \in 1 .. n : k < l => Before(cs, p[k], p[l]),
         Join(taken, m, n, front, cs), Join(new, m, n, front, sorted)
  PROVE  /\ \A i \in 1 .. m + n : new[i] = taken[move[i]]
         /\ \A i, j \in 1 .. m + n : i < j => \/ move[i] < move[j]
                                              \/ taken[move[i]].t < taken[move[j]].t
<1>0. /\ \A i \in 1 .. m + n : i <= m => move[i] = i
      /\ \A i \in 1 .. m + n : i > m => /\ i - m \in 1 .. n /\ move[i] > m
                                        /\ move[i] = m + p[i - m] /\ move[i] - m = p[i - m]
      /\ \A i \in 1 .. m + n : taken[i] = IF i <= m THEN front[i] ELSE cs[i - m]
      /\ \A i \in 1 .. m + n : new[i] = IF i <= m THEN front[i] ELSE sorted[i - m]
  BY Zenon DEF Behind, Join
<1>1. ASSUME NEW i \in 1 .. m + n, i > m
      PROVE  /\ i - m \in 1 .. n /\ new[i] = sorted[i - m] /\ taken[move[i]] = cs[p[i - m]]
             /\ move[i] = m + p[i - m]
  <2>1. i - m \in 1 .. n /\ move[i] > m /\ move[i] = m + p[i - m] /\ move[i] - m = p[i - m]
    BY <1>0, <1>1
  <2>2. new[i] = sorted[i - m]
    BY <1>0, <1>1
  <2>3. PICK x \in 1 .. m + n : x = move[i] /\ x > m /\ x - m = p[i - m]
    BY <2>1
  <2>4. taken[x] = cs[x - m]
    <3>1. taken[x] = IF x <= m THEN front[x] ELSE cs[x - m]
      BY <1>0, Zenon
    <3>2. ~(x <= m)
      BY <2>3
    <3> QED BY <3>1, <3>2, Zenon
  <2> QED BY <2>1, <2>2, <2>3, <2>4
<1>2. ASSUME NEW i \in 1 .. m + n PROVE new[i] = taken[move[i]]
  <2>1. CASE i <= m
    BY <1>0, <2>1
  <2>2. CASE i > m
    BY <1>1, <2>2
  <2> QED BY <2>1, <2>2
<1>3. ASSUME NEW i \in 1 .. m + n, NEW j \in 1 .. m + n, i < j
      PROVE  move[i] < move[j] \/ taken[move[i]].t < taken[move[j]].t
  <2>1. CASE j <= m
    BY <1>0, <1>3, <2>1
  <2>2. CASE i <= m /\ j > m
    BY <1>0, <1>3, <2>2
  <2>3. CASE i > m /\ j > m
    <3>1. PICK k \in 1 .. n : k = i - m /\ move[i] = m + p[k] /\ taken[move[i]] = cs[p[k]]
      BY <1>1, <2>3
    <3>2. PICK l \in 1 .. n : l = j - m /\ move[j] = m + p[l] /\ taken[move[j]] = cs[p[l]]
      BY <1>1, <2>3
    <3>3. k < l
      BY <1>3, <3>1, <3>2
    <3>4. Before(cs, p[k], p[l]) /\ p[k] \in 1 .. n /\ p[l] \in 1 .. n
      BY <3>3
    <3>5. p[k] < p[l] => m + p[k] < m + p[l]
      BY <3>4
    <3>6. cs[p[k]].t < cs[p[l]].t \/ p[k] < p[l]
      BY <3>4 DEF Before
    <3> QED BY <3>1, <3>2, <3>5, <3>6
  <2> QED BY <2>1, <2>2, <2>3
<1> QED BY <1>2, <1>3

LEMMA Joined ==
  ASSUME NEW s \in Seq(Command), NEW r \in Seq(Command), NEW m, Len(s) = m, NEW n, Len(r) = n
  PROVE  Join(s \o r, m, n, s, r)
<1>1. /\ m \in Nat /\ n \in Nat /\ s \o r \in Seq(Command) /\ Len(s \o r) = m + n
      /\ \A i \in 1 .. m + n : (s \o r)[i] = IF i <= m THEN s[i] ELSE r[i - m]
  BY ConcatProperties, LenProperties
<1>2. PICK x : x = s \o r
  OBVIOUS
<1>3. Join(x, m, n, s, r)
  BY <1>1, <1>2, Zenon DEF Join
<1> QED BY <1>2, <1>3, Zenon

LEMMA MovesJoined ==
  ASSUME NEW m \in Nat, NEW n \in Nat, NEW front, NEW cs, NEW sorted, NEW p,
         SortedBy(p, 1 .. n, cs, sorted), NEW taken, Join(taken, m, n, front, cs),
         NEW new, Join(new, m, n, front, sorted)
  PROVE  \E move : Moved(move, 1 .. m + n, taken, new)
<1>1. /\ p \in [1 .. n -> 1 .. n]
      /\ \A i \in 1 .. n : \E k \in 1 .. n : p[k] = i
      /\ \A k, l \in 1 .. n : k < l => Before(cs, p[k], p[l])
  BY Zenon DEF SortedBy
<1>2. \A k \in 1 .. n : sorted[k] = cs[p[k]]
  BY DEF SortedBy
<1>3. PICK move \in [1 .. m + n -> 1 .. m + n] : Behind(move, m, n, p)
  BY <1>1, MoveBehind, Zenon
<1>4. /\ \A i \in 1 .. m + n : new[i] = taken[move[i]]
      /\ \A i, j \in 1 .. m + n : i < j => \/ move[i] < move[j]
                                           \/ taken[move[i]].t < taken[move[j]].t
  BY <1>1, <1>2, <1>3, Moves, Zenon
<1> QED BY <1>3, <1>4, Zenon DEF Behind, Moved

\* Sorting a batch leaves every command the engine has taken in its place
\* among its agent's.
LEMMA PlaceSorted ==
  ASSUME NEW front \in Seq(Command), NEW cs \in Seq(Command),
         Ascending(front \o cs), Timely(front \o cs)
  PROVE  /\ InSubmitTime(cs) \in Seq(Command)
         /\ Ascending(front \o InSubmitTime(cs))
         /\ \A acc, q, a : InPlace(front \o cs, acc, q, a)
                             => InPlace(front \o InSubmitTime(cs), acc, q, a)
<1>1. PICK m \in Nat, n \in Nat : Len(front) = m /\ Len(cs) = n
  BY LenProperties
<1>2. PICK sorted : sorted = InSubmitTime(cs)
  OBVIOUS
<1>3. PICK p : SortedBy(p, 1 .. n, cs, sorted)
  BY <1>1, <1>2, Sorted, Zenon
<1>4. sorted \in Seq(Command) /\ Len(sorted) = n
  BY <1>1, <1>3, SortedType, Zenon
<1>5. Join(front \o cs, m, n, front, cs) /\ Join(front \o sorted, m, n, front, sorted)
  BY <1>1, <1>4, Joined, Zenon
<1>6. PICK move : Moved(move, 1 .. m + n, front \o cs, front \o sorted)
  BY <1>3, <1>5, MovesJoined, Zenon
<1>7. /\ 1 .. Len(front \o cs) = 1 .. m + n /\ 1 .. Len(front \o sorted) = 1 .. m + n
      /\ front \o cs \in Seq(Command) /\ front \o sorted \in Seq(Command)
  BY <1>5, Zenon DEF Join
<1>8. 1 .. m + n \in SUBSET Nat
  OBVIOUS
<1>9. /\ Ascending(front \o sorted)
      /\ \A acc, q, a : InPlace(front \o cs, acc, q, a) => InPlace(front \o sorted, acc, q, a)
  BY <1>6, <1>7, <1>8, PlaceMoved, Zenon
<1> QED BY <1>2, <1>4, <1>9, Zenon
----------------------------------------------------------------------------
(* The invariant: where each agent's commands are, and how far it is.      *)

\* the number of the agent's last command that was offered to its queue
Offered(a) == IF agent[a] = "push" THEN issued[a] - 1 ELSE issued[a]

Within(acc, s, t) == \A k \in 1 .. Len(acc) : acc[k].seq <= s /\ acc[k].t <= t

Submitted(a) ==
  /\ Issued(accepted[a], a) /\ Within(accepted[a], Offered(a), stamp[a])
  /\ stamp[a] <= clock /\ Offered(a) >= 0

Placed(a) == InPlace(Taken, accepted[a], queue[a], a)

OrderInv ==
  /\ TypeOK
  /\ engine \in {"off", "load"} => batch = <<>>
  /\ Ascending(Taken)
  /\ \A a \in Agents : Submitted(a) /\ Placed(a)

LEMMA TakenIsTimely == OrderInv => Timely(Taken)
<1> SUFFICES ASSUME OrderInv, NEW i \in 1 .. Len(Taken), NEW j \in 1 .. Len(Taken),
                    Taken[i].agent = Taken[j].agent, Taken[i].seq < Taken[j].seq
             PROVE  Taken[i].t <= Taken[j].t
  BY Zenon DEF Timely
<1>1. Taken \in Seq(Command)
  BY ConcatProperties DEF OrderInv, TypeOK, Taken
<1>2. PICK a \in Agents : a = Taken[i].agent
  <2>1. Taken[i] \in Command
    BY <1>1, ElementOfSeq
  <2> QED BY <2>1, CommandFields
<1>3. /\ InPlace(Taken, accepted[a], queue[a], a) /\ Issued(accepted[a], a)
      /\ accepted[a] \in Seq(Command) /\ queue[a] \in Seq(Command)
  BY DEF OrderInv, TypeOK, Placed, Submitted
<1>4. PICK n \in Int : n = Len(accepted[a]) - Len(queue[a]) /\ n <= Len(accepted[a])
  <2>1. Len(accepted[a]) \in Nat /\ Len(queue[a]) \in Nat
    BY <1>3, LenProperties
  <2>2. \A x, y \in Nat : \E n \in Int : n = x - y /\ n <= x
    OBVIOUS
  <2> QED BY <2>1, <2>2, Zenon
<1>5. PICK k \in 1 .. n : Taken[i] = accepted[a][k]
  BY <1>2, <1>3, <1>4, Zenon DEF InPlace
<1>6. PICK l \in 1 .. n : Taken[j] = accepted[a][l]
  BY <1>2, <1>3, <1>4, Zenon DEF InPlace
<1>7. k \in 1 .. Len(accepted[a]) /\ l \in 1 .. Len(accepted[a])
  BY <1>3, <1>4
<1>8. /\ k < l => accepted[a][k].t <= accepted[a][l].t
      /\ l < k => accepted[a][l].seq < accepted[a][k].seq
  BY <1>3, <1>7, Zenon DEF Issued
<1>9. PICK s \in Nat, r \in Nat : s = accepted[a][k].seq /\ r = accepted[a][l].seq /\ s < r
  <2>1. accepted[a][k] \in Command /\ accepted[a][l] \in Command
    BY <1>3, <1>7, ElementOfSeq
  <2>2. accepted[a][k].seq \in Nat /\ accepted[a][l].seq \in Nat
    BY <2>1, CommandFields
  <2> QED BY <1>5, <1>6, <2>2, Zenon
<1>10. k < l
  <2>1. k = l => s = r
    BY <1>9
  <2>2. l < k => r < s
    BY <1>8, <1>9, Zenon
  <2> QED BY <2>1, <2>2, <1>9
<1> QED BY <1>5, <1>6, <1>8, <1>10, Zenon

LEMMA InitOrder == Init => OrderInv
<1> SUFFICES ASSUME Init PROVE OrderInv
  OBVIOUS
<1>1. TypeOK
  BY Sizes, SessionAssumption DEF Init, TypeOK, Agents
<1>2. Taken = <<>>
  BY DEF Init, Taken
<1>3. Ascending(<<>>)
  BY DEF Ascending
<1>4. ASSUME NEW a \in Agents PROVE Submitted(a) /\ Placed(a)
  <2>1. accepted[a] = <<>> /\ queue[a] = <<>> /\ issued[a] = 0 /\ stamp[a] = 0 /\ clock = 0
        /\ agent[a] = "off"
    BY DEF Init
  <2>2. Issued(<<>>, a) /\ Within(<<>>, 0, 0) /\ InPlace(<<>>, <<>>, <<>>, a)
    BY DEF Issued, Within, InPlace
  <2> QED BY <1>2, <2>1, <2>2 DEF Submitted, Offered, Placed
<1> QED BY <1>1, <1>2, <1>3, <1>4 DEF OrderInv, Init

\* Where no command moves, each stays in its place.
LEMMA NothingMoves ==
  ASSUME OrderInv, UNCHANGED <<accepted, queue, processed, batch>>
  PROVE  Ascending(Taken)' /\ \A a \in Agents : Placed(a)'
<1>1. Taken' = Taken
  BY DEF Taken
<1> QED BY <1>1 DEF OrderInv, Placed

LEMMA AgentsRest ==
  ASSUME OrderInv, UNCHANGED agentVars
  PROVE  \A a \in Agents : Submitted(a)'
BY DEF OrderInv, Submitted, Offered, agentVars

LEMMA WithinMore ==
  ASSUME NEW acc \in Seq(Command), NEW s \in Int, NEW t \in Int, Within(acc, s, t),
         NEW x \in Int, NEW y \in Int, s <= x, t <= y
  PROVE  Within(acc, x, y)
<1> SUFFICES ASSUME NEW k \in 1 .. Len(acc) PROVE acc[k].seq <= x /\ acc[k].t <= y
  BY Zenon DEF Within
<1>1. acc[k].seq <= s /\ acc[k].t <= t
  BY Zenon DEF Within
<1>2. acc[k] \in Command
  BY ElementOfSeq
<1>3. acc[k].seq \in Nat /\ acc[k].t \in Nat
  BY <1>2, CommandFields
<1> QED BY <1>1, <1>3

LEMMA AgentTypes ==
  ASSUME OrderInv, NEW a \in Agents
  PROVE  /\ accepted[a] \in Seq(Command) /\ queue[a] \in Seq(Command)
         /\ issued[a] \in Nat /\ issued[a] <= MaxSubmit /\ stamp[a] \in Nat /\ clock \in Nat
         /\ Offered(a) \in Int /\ Offered(a) <= issued[a]
<1>1. MaxSubmit \in Nat
  BY SessionAssumption
<1>2. /\ accepted[a] \in Seq(Command) /\ queue[a] \in Seq(Command)
      /\ issued[a] \in 0 .. MaxSubmit /\ stamp[a] \in Nat /\ clock \in Nat
  BY DEF OrderInv, TypeOK
<1> QED BY <1>1, <1>2 DEF Offered

LEMMA MainOrder ==
  ASSUME OrderInv, SessionInv, Main
  PROVE  OrderInv'
<1>1. UNCHANGED <<clock, issued, stamp, accepted, queue, done, rr, visited, pops, batch, processed>>
  BY DEF Main, Start, EndSession, JoinAgents, JoinEngine, agentVars, engineVars
<1>2. CASE Start
  <2>1. engine' = "load" /\ agent' = [a \in Agents |-> "loop"] /\ engine = "off" /\ main' = "session"
        /\ running' = TRUE /\ producersDone' = FALSE
    BY <1>2 DEF Start, SessionInv, NotStarted
  <2>2. TypeOK'
    BY <1>1, <2>1 DEF OrderInv, TypeOK
  <2>3. ASSUME NEW a \in Agents PROVE Submitted(a)'
    <3>1. Offered(a)' = issued[a]
      BY <1>1, <2>1 DEF Offered
    <3>2. Within(accepted[a], issued[a], stamp[a])
      BY AgentTypes, WithinMore DEF OrderInv, Submitted
    <3>3. Issued(accepted[a], a) /\ stamp[a] <= clock /\ issued[a] >= 0
      BY AgentTypes DEF OrderInv, Submitted
    <3> QED BY <1>1, <3>1, <3>2, <3>3 DEF Submitted
  <2> QED BY <1>1, <2>1, <2>2, <2>3, NothingMoves DEF OrderInv
<1>3. CASE UNCHANGED <<agentVars, queue, engineVars>> /\ (EndSession \/ JoinAgents \/ JoinEngine)
  <2>1. TypeOK'
    BY <1>3 DEF OrderInv, TypeOK, agentVars, engineVars, EndSession, JoinAgents, JoinEngine
  <2>2. engine' = engine
    BY <1>3 DEF engineVars
  <2> QED BY <1>1, <1>3, <2>1, <2>2, NothingMoves, AgentsRest DEF OrderInv
<1> QED BY <1>2, <1>3 DEF Main, EndSession, JoinAgents, JoinEngine

\* An agent that pushes has built the latest command, later than all before.
LEMMA PushOrder ==
  ASSUME OrderInv, NEW a \in Agents, Push(a)
  PROVE  OrderInv'
<1> DEFINE c == NewCommand(a)
<1>1. /\ agent[a] = "push" /\ Len(queue[a]) < Usable
      /\ queue' = [queue EXCEPT ![a] = Append(queue[a], c)]
      /\ accepted' = [accepted EXCEPT ![a] = Append(accepted[a], c)]
      /\ agent' = [agent EXCEPT ![a] = "loop"]
      /\ UNCHANGED <<main, running, producersDone, clock, issued, stamp, engine, done, rr,
                     visited, pops, batch, processed>>
  BY DEF Push, HasRoom, mainVars, engineVars
<1>2. Offered(a) = issued[a] - 1 /\ Offered(a) >= 0 /\ issued[a] >= 1
  BY <1>1, AgentTypes DEF OrderInv, Submitted, Offered
<1>3. c \in Command /\ c.agent = a /\ c.seq = issued[a] /\ c.t = stamp[a]
  <2>1. issued[a] \in 1 .. MaxSubmit /\ stamp[a] \in Nat
    BY <1>2, AgentTypes, SessionAssumption
  <2> QED BY <2>1 DEF NewCommand, Command
<1> HIDE DEF c
<1>4. TypeOK'
  <2>1. /\ queue \in [Agents -> Seq(Command)] /\ accepted \in [Agents -> Seq(Command)]
        /\ agent \in [Agents -> {"off", "loop", "push", "returned"}]
        /\ Usable \in Nat /\ \A b \in Agents : Len(queue[b]) <= Usable
    BY SessionAssumption DEF OrderInv, TypeOK
  <2>2. queue' \in [Agents -> Seq(Command)] /\ accepted' \in [Agents -> Seq(Command)]
    BY <1>1, <1>3, <2>1
  <2>3. agent' \in [Agents -> {"off", "loop", "push", "returned"}]
    BY <1>1, <2>1
  <2>4. ASSUME NEW b \in Agents PROVE Len(queue'[b]) <= Usable
    <3>1. CASE b = a
      <4>1. queue[a] \in Seq(Command) /\ queue'[a] = Append(queue[a], c)
        BY <1>1, <2>1
      <4>2. Len(queue[a]) \in Nat /\ Len(queue'[a]) = Len(queue[a]) + 1
        BY <4>1
      <4> QED BY <1>1, <2>1, <3>1, <4>2
    <3>2. CASE b # a
      BY <1>1, <2>1, <3>2
    <3> QED BY <3>1, <3>2
  <2> QED BY <1>1, <2>2, <2>3, <2>4 DEF OrderInv, TypeOK
<1>5. Taken' = Taken /\ Taken \in Seq(Command)
  BY <1>1, ConcatProperties DEF Taken, OrderInv, TypeOK
<1>6. ASSUME NEW b \in Agents PROVE Submitted(b)' /\ Placed(b)'
  <2>1. Submitted(b) /\ Placed(b)
    BY DEF OrderInv
  <2>2. CASE b # a
    <3>1. /\ queue'[b] = queue[b] /\ accepted'[b] = accepted[b] /\ agent'[b] = agent[b]
          /\ UNCHANGED <<clock, issued, stamp>>
      BY <1>1, <2>2 DEF OrderInv, TypeOK
    <3> QED BY <1>5, <2>1, <3>1 DEF Submitted, Offered, Placed
  <2>3. CASE b = a
    <3>1. /\ queue'[a] = Append(queue[a], c) /\ accepted'[a] = Append(accepted[a], c)
          /\ agent'[a] = "loop" /\ UNCHANGED <<clock, issued, stamp>>
      BY <1>1 DEF OrderInv, TypeOK
    <3>2. /\ accepted[a] \in Seq(Command) /\ queue[a] \in Seq(Command)
          /\ issued[a] \in Nat /\ stamp[a] \in Nat /\ clock \in Nat
      BY AgentTypes
    <3>3. \A k \in 1 .. Len(accepted[a]) : accepted[a][k].seq < c.seq /\ accepted[a][k].t <= c.t
      <4> TAKE k \in 1 .. Len(accepted[a])
      <4>1. accepted[a][k].seq <= issued[a] - 1 /\ accepted[a][k].t <= stamp[a]
        BY <1>2, <2>1, <2>3 DEF Submitted, Within
      <4>2. accepted[a][k] \in Command
        BY <3>2, ElementOfSeq
      <4>3. accepted[a][k].seq \in Nat
        BY <4>2, CommandFields
      <4> QED BY <1>3, <3>2, <4>1, <4>3
    <3>4. Issued(Append(accepted[a], c), a)
      BY <1>3, <2>1, <2>3, <3>2, <3>3, IssuedPush DEF Submitted
    <3>5. Within(Append(accepted[a], c), issued[a], stamp[a])
      <4> SUFFICES ASSUME NEW k \in 1 .. Len(Append(accepted[a], c)), NEW d,
                          d = Append(accepted[a], c)[k]
                   PROVE  d.seq <= issued[a] /\ d.t <= stamp[a]
        BY DEF Within
      <4>1. CASE k = Len(accepted[a]) + 1
        <5>1. d = c
          BY <3>2, <4>1
        <5> QED BY <1>3, <3>2, <5>1
      <4>2. CASE k # Len(accepted[a]) + 1
        <5>1. k \in 1 .. Len(accepted[a]) /\ d = accepted[a][k] /\ d \in Command
          BY <3>2, <4>2
        <5>2. d.seq \in Nat /\ d.t \in Nat
          BY <5>1, CommandFields
        <5>3. d.seq < c.seq /\ d.t <= c.t
          BY <3>3, <5>1
        <5> QED BY <1>3, <3>2, <5>2, <5>3
      <4> QED BY <4>1, <4>2
    <3>6. InPlace(Taken, Append(accepted[a], c), Append(queue[a], c), a)
      BY <1>3, <1>5, <2>1, <2>3, <3>2, PlacePush DEF Placed
    <3>7. Offered(a)' = issued[a]
      BY <3>1 DEF Offered
    <3>8. Submitted(a)'
      BY <2>1, <2>3, <3>1, <3>2, <3>4, <3>5, <3>7 DEF Submitted
    <3> QED BY <1>5, <2>3, <3>1, <3>6, <3>8 DEF Placed
  <2> QED BY <2>2, <2>3
<1> QED BY <1>1, <1>4, <1>5, <1>6 DEF OrderInv

\* A new command is later than all that were built before it.
LEMMA StampOrder ==
  ASSUME OrderInv, NEW a \in Agents, Stamp(a)
  PROVE  OrderInv'
<1>1. PICK t \in {clock, clock + 1} : clock' = t /\ stamp' = [stamp EXCEPT ![a] = t]
  BY DEF Stamp
<1>2. /\ agent[a] = "loop" /\ issued[a] < MaxSubmit
      /\ issued' = [issued EXCEPT ![a] = issued[a] + 1]
      /\ agent' = [agent EXCEPT ![a] = "push"]
      /\ UNCHANGED <<main, running, producersDone, accepted, queue, engine, done, rr, visited,
                     pops, batch, processed>>
  BY DEF Stamp, mainVars, engineVars
<1>3. t \in Nat /\ clock \in Nat /\ clock <= t
  BY <1>1, AgentTypes
<1>4. /\ issued \in [Agents -> 0 .. MaxSubmit] /\ stamp \in [Agents -> Nat]
      /\ agent \in [Agents -> {"off", "loop", "push", "returned"}]
  BY DEF OrderInv, TypeOK
<1>5. TypeOK'
  <2>1. issued[a] + 1 \in 0 .. MaxSubmit
    BY <1>2, AgentTypes, SessionAssumption
  <2>2. issued' \in [Agents -> 0 .. MaxSubmit]
    BY <1>2, <1>4, <2>1
  <2>3. stamp' \in [Agents -> Nat] /\ clock' \in Nat
    BY <1>1, <1>3, <1>4
  <2>4. agent' \in [Agents -> {"off", "loop", "push", "returned"}]
    BY <1>2, <1>4
  <2> QED BY <1>2, <2>2, <2>3, <2>4 DEF OrderInv, TypeOK
<1>6. ASSUME NEW b \in Agents PROVE Submitted(b)'
  <2>1. Submitted(b) /\ accepted'[b] = accepted[b]
    BY <1>2 DEF OrderInv
  <2>2. CASE b # a
    <3>1. agent'[b] = agent[b] /\ issued'[b] = issued[b] /\ stamp'[b] = stamp[b]
      BY <1>1, <1>2, <1>4, <2>2
    <3>2. stamp[b] \in Nat /\ stamp[b] <= clock'
      BY <1>1, <1>3, <2>1, AgentTypes DEF Submitted
    <3>3. Offered(b)' = Offered(b)
      BY <3>1 DEF Offered
    <3> QED BY <2>1, <3>1, <3>2, <3>3 DEF Submitted
  <2>3. CASE b = a
    <3>1. agent'[a] = "push" /\ issued'[a] = issued[a] + 1 /\ stamp'[a] = t
      BY <1>1, <1>2, <1>4
    <3>2. issued[a] \in Nat /\ Offered(a) = issued[a] /\ stamp[a] \in Nat /\ stamp[a] <= t
      BY <1>2, <1>3, <2>1, <2>3, AgentTypes DEF Offered, Submitted
    <3>3. Offered(a)' = issued[a]
      BY <3>1, <3>2 DEF Offered
    <3>4. Within(accepted[a], issued[a], t)
      BY <1>3, <2>1, <2>3, <3>2, AgentTypes, WithinMore DEF Submitted
    <3> QED BY <1>1, <1>3, <2>1, <2>3, <3>1, <3>2, <3>3, <3>4 DEF Submitted
  <2> QED BY <2>2, <2>3
<1> QED BY <1>2, <1>5, <1>6, NothingMoves DEF OrderInv

LEMMA AgentOrder ==
  ASSUME OrderInv, NEW a \in Agents, AgentThread(a)
  PROVE  OrderInv'
<1>1. CASE PushRefused(a) \/ Return(a)
  <2>1. /\ agent' = [agent EXCEPT ![a] = "loop"] \/ agent' = [agent EXCEPT ![a] = "returned"]
        /\ UNCHANGED <<main, running, producersDone, clock, issued, stamp, accepted, queue,
                       engine, done, rr, visited, pops, batch, processed>>
    BY <1>1 DEF PushRefused, Return, mainVars, engineVars
  <2>2. agent \in [Agents -> {"off", "loop", "push", "returned"}]
    BY DEF OrderInv, TypeOK
  <2>3. TypeOK'
    <3>1. agent' \in [Agents -> {"off", "loop", "push", "returned"}]
      BY <2>1, <2>2
    <3> QED BY <2>1, <3>1 DEF OrderInv, TypeOK
  <2>4. ASSUME NEW b \in Agents PROVE Submitted(b)'
    <3>1. Submitted(b)
      BY DEF OrderInv
    <3>2. agent'[b] = agent[b] \/ agent'[b] \in {"loop", "returned"}
      BY <2>1, <2>2
    <3>3. Offered(b)' = Offered(b) \/ Offered(b)' = issued[b]
      BY <2>1, <3>2 DEF Offered
    <3>4. Offered(b)' \in Int /\ Offered(b)' >= Offered(b) /\ Offered(b)' >= 0
      BY <3>1, <3>3, AgentTypes DEF Submitted
    <3>5. Within(accepted[b], Offered(b)', stamp[b])
      BY <3>1, <3>4, AgentTypes, WithinMore DEF Submitted
    <3> QED BY <2>1, <3>1, <3>4, <3>5 DEF Submitted
  <2> QED BY <2>1, <2>3, <2>4, NothingMoves DEF OrderInv
<1> QED BY <1>1, StampOrder, PushOrder DEF AgentThread

(* What the engine takes it takes from the front of a queue.               *)
LEMMA PopOrder ==
  ASSUME OrderInv, SessionInv, Pop
  PROVE  OrderInv'
<1> DEFINE e == Current
           c == Head(queue[e])
<1>1. /\ engine = "drain" /\ e \in Agents /\ queue[e] # <<>> /\ pops < BatchMax
      /\ batch' = Append(batch, c) /\ pops' = pops + 1
      /\ queue' = [queue EXCEPT ![e] = Tail(queue[e])]
      /\ UNCHANGED <<mainVars, agentVars, engine, done, rr, visited, processed>>
  BY CurrentType DEF Pop, SessionInv
<1>2. PICK a \in Agents : a = e
  BY <1>1
<1>3. /\ accepted[a] \in Seq(Command) /\ queue[a] \in Seq(Command) /\ queue[a] # <<>>
      /\ batch \in Seq(Command) /\ processed \in Seq(Command) /\ Taken \in Seq(Command)
  <2>1. batch \in Seq(Command) /\ processed \in Seq(Command)
    BY DEF OrderInv, TypeOK
  <2>2. Taken \in Seq(Command)
    BY <2>1, ConcatProperties DEF Taken
  <2> QED BY <1>1, <1>2, <2>1, <2>2, AgentTypes
<1>4. PICK d \in Command : d = Head(queue[a])
  BY <1>3
<1>5. batch' = Append(batch, d) /\ queue' = [queue EXCEPT ![a] = Tail(queue[a])]
  BY <1>1, <1>2, <1>4
<1> HIDE DEF e, c
<1>6. Taken' = Append(Taken, d)
  <2>1. \A x, y \in Seq(Command) : x \o Append(y, d) = Append(x \o y, d)
    OBVIOUS
  <2> QED BY <1>1, <1>3, <1>5, <2>1, Zenon DEF Taken
<1>7. TypeOK'
  <2>1. queue \in [Agents -> Seq(Command)] /\ \A b \in Agents : Len(queue[b]) <= Usable
    BY DEF OrderInv, TypeOK
  <2>2. Tail(queue[a]) \in Seq(Command) /\ Len(Tail(queue[a])) = Len(queue[a]) - 1
    BY <1>3
  <2>3. queue' \in [Agents -> Seq(Command)]
    BY <1>5, <2>1, <2>2
  <2>4. ASSUME NEW b \in Agents PROVE Len(queue'[b]) <= Usable
    <3>1. CASE b = a
      <4>1. Len(queue[a]) \in Nat /\ queue'[a] = Tail(queue[a]) /\ Usable \in Nat
        BY <1>3, <1>5, <2>1, SessionAssumption
      <4> QED BY <2>1, <2>2, <3>1, <4>1
    <3>2. CASE b # a
      BY <1>5, <2>1, <3>2
    <3> QED BY <3>1, <3>2
  <2>5. pops' \in 0 .. BatchMax
    <3>1. pops \in 0 .. BatchMax
      BY DEF OrderInv, TypeOK
    <3> QED BY <1>1, <3>1, Sizes
  <2>6. batch' \in Seq(Command)
    BY <1>3, <1>5
  <2> QED BY <1>1, <2>3, <2>4, <2>5, <2>6 DEF OrderInv, TypeOK, mainVars, agentVars
<1>8. /\ d.agent = a /\ Ascending(Taken')
      /\ InPlace(Taken', accepted[a], Tail(queue[a]), a)
  BY <1>3, <1>4, <1>6, PlacePop DEF OrderInv, Submitted, Placed
<1>9. ASSUME NEW b \in Agents PROVE Placed(b)'
  <2>1. CASE b = a
    <3>1. queue'[a] = Tail(queue[a]) /\ accepted' = accepted
      BY <1>1, <1>5 DEF OrderInv, TypeOK, agentVars
    <3> QED BY <1>8, <2>1, <3>1 DEF Placed
  <2>2. CASE b # a
    <3>1. queue'[b] = queue[b] /\ accepted' = accepted
      BY <1>1, <1>5, <2>2 DEF OrderInv, TypeOK, agentVars
    <3>2. InPlace(Taken', accepted[b], queue[b], b)
      BY <1>3, <1>6, <1>8, <2>2, AgentTypes, PlaceOther DEF OrderInv, Placed
    <3> QED BY <3>1, <3>2 DEF Placed
  <2> QED BY <2>1, <2>2
<1> QED BY <1>1, <1>7, <1>8, <1>9, AgentsRest DEF OrderInv

LEMMA SortOrder ==
  ASSUME OrderInv, SessionInv, SortBatch
  PROVE  OrderInv'
<1>1. /\ engine' = "process" /\ rr' \in Agents /\ batch' = InSubmitTime(batch)
      /\ UNCHANGED <<mainVars, agentVars, queue, done, visited, pops, processed>>
  BY RotateType DEF SortBatch, SessionInv
<1>2. batch \in Seq(Command) /\ processed \in Seq(Command)
  BY DEF OrderInv, TypeOK
<1>3. Ascending(processed \o batch) /\ Timely(processed \o batch)
  BY TakenIsTimely DEF OrderInv, Taken
<1>4. /\ batch' \in Seq(Command) /\ Ascending(processed \o batch')
      /\ \A acc, q, a : InPlace(processed \o batch, acc, q, a)
                          => InPlace(processed \o batch', acc, q, a)
  BY <1>1, <1>2, <1>3, PlaceSorted, Zenon
<1>5. Taken' = processed \o batch'
  BY <1>1 DEF Taken
<1>6. TypeOK'
  BY <1>1, <1>4 DEF OrderInv, TypeOK, mainVars, agentVars
<1>7. ASSUME NEW a \in Agents PROVE Placed(a)'
  <2>1. queue'[a] = queue[a] /\ accepted'[a] = accepted[a]
    BY <1>1 DEF agentVars
  <2>2. InPlace(Taken', accepted[a], queue[a], a)
    BY <1>4, <1>5 DEF OrderInv, Placed, Taken
  <2> QED BY <2>1, <2>2 DEF Placed
<1> QED BY <1>1, <1>4, <1>5, <1>6, <1>7, AgentsRest DEF OrderInv

\* The next command of the batch is the next the engine has processed.
LEMMA ProcessOrder ==
  ASSUME OrderInv, Process
  PROVE  OrderInv'
<1>1. /\ engine = "process" /\ batch # <<>>
      /\ processed' = Append(processed, Head(batch)) /\ batch' = Tail(batch)
      /\ UNCHANGED <<mainVars, agentVars, queue, engine, done, rr, visited, pops>>
  BY DEF Process
<1>2. batch \in Seq(Command) /\ processed \in Seq(Command)
  BY DEF OrderInv, TypeOK
<1>3. PICK b, p : b = batch' /\ p = processed'
  OBVIOUS
<1>4. b \in Seq(Command) /\ p \in Seq(Command) /\ p \o b = processed \o batch
  BY <1>1, <1>2, <1>3
<1>5. Taken' = Taken
  BY <1>3, <1>4 DEF Taken
<1>6. TypeOK'
  BY <1>1, <1>3, <1>4 DEF OrderInv, TypeOK, mainVars, agentVars
<1>7. \A a \in Agents : Placed(a)'
  BY <1>1, <1>5 DEF OrderInv, Placed, agentVars
<1> QED BY <1>1, <1>5, <1>6, <1>7, AgentsRest DEF OrderInv

LEMMA EngineOrder ==
  ASSUME OrderInv, SessionInv, EngineThread
  PROVE  OrderInv'
<1>1. ASSUME NEW value \in BOOLEAN, LoadDone(value) PROVE OrderInv'
  <2>1. /\ engine = "load" /\ engine' = "drain" /\ done' \in BOOLEAN
        /\ batch' = <<>> /\ visited' = 0 /\ pops' = 0
        /\ UNCHANGED <<mainVars, agentVars, queue, rr, processed>>
    BY <1>1 DEF LoadDone
  <2>2. batch' = batch
    BY <2>1 DEF OrderInv
  <2>3. TypeOK'
    <3>1. 0 \in 0 .. N /\ 0 \in 0 .. BatchMax
      BY Sizes
    <3>2. visited' \in 0 .. N /\ pops' \in 0 .. BatchMax
      BY <2>1, <3>1, Zenon
    <3> QED BY <2>1, <2>2, <3>2 DEF OrderInv, TypeOK, mainVars, agentVars
  <2>4. UNCHANGED <<accepted, queue, processed, batch>>
    BY <2>1, <2>2 DEF agentVars
  <2> QED BY <2>1, <2>3, <2>4, NothingMoves, AgentsRest DEF OrderInv
<1>2. CASE LeaveQueue \/ IdlePass \/ StopEngine \/ EndBatch
  <2>1. /\ UNCHANGED <<mainVars, agentVars, queue, done, batch, processed>>
        /\ engine' \in {"drain", "load", "stopped"} /\ (engine' = "load" => batch = <<>>)
    BY <1>2 DEF LeaveQueue, IdlePass, StopEngine, EndBatch
  <2>2. rr' \in Agents /\ visited' \in 0 .. N /\ pops' \in 0 .. BatchMax
    <3>1. CASE LeaveQueue
      <4>1. rr' = rr /\ visited' = visited + 1 /\ visited < N /\ pops' = 0
        BY <3>1 DEF LeaveQueue
      <4>2. visited + 1 \in 0 .. N /\ 0 \in 0 .. BatchMax
        BY <4>1, Sizes, Positions DEF SessionInv
      <4>3. rr \in Agents
        BY DEF OrderInv, TypeOK
      <4> QED BY <4>1, <4>2, <4>3, Zenon
    <3>2. CASE IdlePass \/ StopEngine
      BY <3>2, RotateType DEF IdlePass, StopEngine, SessionInv, OrderInv, TypeOK
    <3>3. CASE EndBatch
      BY <3>3 DEF EndBatch, OrderInv, TypeOK
    <3> QED BY <1>2, <3>1, <3>2, <3>3
  <2>3. TypeOK'
    BY <2>1, <2>2 DEF OrderInv, TypeOK, mainVars, agentVars
  <2>4. UNCHANGED <<accepted, queue, processed, batch>>
    BY <2>1 DEF agentVars
  <2> QED BY <2>1, <2>3, <2>4, NothingMoves, AgentsRest DEF OrderInv
<1> QED BY <1>1, <1>2, PopOrder, SortOrder, ProcessOrder DEF EngineThread

LEMMA OrderStep == OrderInv /\ SessionInv /\ [Next]_vars => OrderInv'
<1> SUFFICES ASSUME OrderInv, SessionInv, [Next]_vars PROVE OrderInv'
  OBVIOUS
<1>1. CASE UNCHANGED vars
  <2>1. TypeOK' /\ UNCHANGED <<agentVars, engine, accepted, queue, processed, batch>>
    BY <1>1 DEF OrderInv, TypeOK, vars, mainVars, agentVars, engineVars
  <2> QED BY <2>1, NothingMoves, AgentsRest DEF OrderInv
<1> QED BY <1>1, MainOrder, AgentOrder, EngineOrder DEF Next, Over

LEMMA OrderHolds == OrderInv => OncePerCommandInOrder
<1> SUFFICES ASSUME OrderInv, NEW a \in Agents
             PROVE  \E n \in {Len(accepted[a]) - Len(queue[a])} :
                      /\ n >= 0 /\ queue[a] = SubSeq(accepted[a], n + 1, Len(accepted[a]))
                      /\ {Taken[i] : i \in TakenFrom(a)} = {accepted[a][k] : k \in 1 .. n}
                      /\ \A i, j \in TakenFrom(a) : i < j => Taken[i].seq < Taken[j].seq
  BY DEF OncePerCommandInOrder, OrderInv
<1>1. /\ InPlace(Taken, accepted[a], queue[a], a) /\ Issued(accepted[a], a)
      /\ accepted[a] \in Seq(Command) /\ queue[a] \in Seq(Command) /\ Ascending(Taken)
  BY AgentTypes DEF OrderInv, Placed, Submitted
<1>2. Taken \in Seq(Command)
  BY ConcatProperties DEF OrderInv, TypeOK, Taken
<1>3. PICK n : n = Len(accepted[a]) - Len(queue[a])
  OBVIOUS
<1>4. /\ n \in Nat /\ Len(accepted[a]) \in Nat /\ Len(queue[a]) \in Nat
      /\ Len(accepted[a]) = n + Len(queue[a])
  <2>1. Len(accepted[a]) \in Nat /\ Len(queue[a]) \in Nat
    BY <1>1, LenProperties
  <2>2. Len(queue[a]) <= Len(accepted[a])
    BY <1>1 DEF InPlace
  <2> QED BY <1>3, <2>1, <2>2
<1>5. queue[a] = SubSeq(accepted[a], n + 1, Len(accepted[a]))
  <2>1. PICK s : s = SubSeq(accepted[a], n + 1, Len(accepted[a]))
    OBVIOUS
  <2>2. /\ s \in Seq(Command) /\ Len(s) = Len(queue[a])
        /\ \A k \in 1 .. Len(queue[a]) : s[k] = accepted[a][n + k]
    BY <1>1, <1>4, <2>1
  <2>3. \A k \in 1 .. Len(queue[a]) : queue[a][k] = accepted[a][n + k]
    BY <1>1, <1>3 DEF InPlace
  <2>4. s = queue[a]
    BY <1>1, <2>2, <2>3, SeqEqual
  <2> QED BY <2>1, <2>4
<1>6. TakenFrom(a) = {i \in 1 .. Len(Taken) : Taken[i].agent = a}
  BY <1>2 DEF TakenFrom
<1>7. ASSUME NEW i \in TakenFrom(a) PROVE \E k \in 1 .. n : Taken[i] = accepted[a][k]
  BY <1>1, <1>3, <1>6, Zenon DEF InPlace
<1>8. ASSUME NEW k \in 1 .. n PROVE \E i \in TakenFrom(a) : accepted[a][k] = Taken[i]
  <2>1. PICK i \in 1 .. Len(Taken) : Taken[i] = accepted[a][k]
    BY <1>1, <1>3, Zenon DEF InPlace
  <2>2. k \in 1 .. Len(accepted[a])
    BY <1>4
  <2>3. Taken[i].agent = a
    BY <1>1, <2>1, <2>2 DEF Issued
  <2> QED BY <1>6, <2>1, <2>3, Zenon
<1>9. {Taken[i] : i \in TakenFrom(a)} = {accepted[a][k] : k \in 1 .. n}
  <2>1. PICK S, T : S = {Taken[i] : i \in TakenFrom(a)} /\ T = {accepted[a][k] : k \in 1 .. n}
    OBVIOUS
  <2>2. \A x : x \in S <=> \E i \in TakenFrom(a) : x = Taken[i]
    BY <2>1, Zenon
  <2>3. \A x : x \in T <=> \E k \in 1 .. n : x = accepted[a][k]
    BY <2>1, Zenon
  <2>4. \A x : x \in S <=> x \in T
    BY <1>7, <1>8, <2>2, <2>3, Zenon
  <2> QED BY <2>1, <2>4, Zenon
<1>10. ASSUME NEW i \in TakenFrom(a), NEW j \in TakenFrom(a), i < j
       PROVE  Taken[i].seq < Taken[j].seq
  BY <1>1, <1>6, <1>10 DEF Ascending
<1>11. n \in {Len(accepted[a]) - Len(queue[a])} /\ n >= 0
  BY <1>3, <1>4
<1> QED BY <1>5, <1>9, <1>10, <1>11, Zenon

(* Every command a queue accepted is in exactly one place, and an agent's  *)
(* are taken in the order it issued them: neither a pass that begins at    *)
(* another queue, nor a batch that is cut at its limit, nor the sort by    *)
(* submit time loses, repeats or overtakes one (engine_loop).              *)
THEOREM EachOnceInOrder == Spec => []OncePerCommandInOrder
<1>1. Init => OrderInv /\ SessionInv
  BY InitOrder, InitSessionInv
<1>2. OrderInv /\ SessionInv /\ [Next]_vars => (OrderInv /\ SessionInv)'
  BY OrderStep, SessionStep
<1>3. OrderInv => OncePerCommandInOrder
  BY OrderHolds
<1> QED BY <1>1, <1>2, <1>3, PTL DEF Spec
=============================================================================
