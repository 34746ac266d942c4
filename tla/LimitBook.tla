------------------------------ MODULE LimitBook -----------------------------
(***************************************************************************)
(* What the order book promises, in one step per call: module Matching     *)
(* says what a call does to the queues and what it reports.  Module        *)
(* OrderBook has the data structures and the loops, and is proved to       *)
(* implement this one.                                                     *)
(***************************************************************************)
EXTENDS Matching

VARIABLES
  queue,   \* queue[s][p]: the orders resting on side s at price p, oldest first
  request, \* a call that has returned and whose reply was not read yet
  reply    \* everything that call returned

bookVars == <<queue, request, reply>>

----------------------------------------------------------------------------
Idle == [kind |-> "none"]

Init == /\ queue = EmptyQueues
        /\ request = Idle
        /\ reply = Idle

AddReply(reason, fills, stp, filled, resting) ==
  [kind |-> "add", reason |-> reason, fills |-> fills, stp |-> stp,
   filled |-> filled, resting |-> resting]

Add(c) ==
  /\ request' = [kind |-> "add", cmd |-> c]
  /\ LET reason == AddVerdict(queue, c)
         m      == Match(queue, c)
     IN IF reason = "None"
        THEN /\ reply' = AddReply("None", m.fills, m.stp, m.filled, m.resting)
             /\ queue' = m.queue
        ELSE /\ reply' = AddReply(reason, <<>>, <<>>, 0, 0)
             /\ UNCHANGED queue

Cancel(id, agent) ==
  /\ request' = [kind |-> "cancel", id |-> id, agent |-> agent]
  /\ LET reason == CancelVerdict(queue, id, agent)
     IN IF reason = "None"
        THEN /\ reply' = [kind |-> "cancel", reason |-> "None",
                          removed |-> (CHOOSE o \in Resting(queue) : o.id = id).remaining]
             /\ queue' = Without(queue, id)
        ELSE /\ reply' = [kind |-> "cancel", reason |-> reason, removed |-> 0]
             /\ UNCHANGED queue

\* the caller has read the reply
Collect == /\ request' = Idle
           /\ reply' = Idle
           /\ UNCHANGED queue

Next == \/ Collect
        \/ \E c \in NewOrders : Add(c)
        \/ \E id \in Ids, agent \in Agents : Cancel(id, agent)

Spec == Init /\ [][Next]_bookVars
=============================================================================
