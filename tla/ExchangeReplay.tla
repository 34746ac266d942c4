--------------------------- MODULE ExchangeReplay ---------------------------
(***************************************************************************)
(* Exchange with the command log of Engine::process and the book that      *)
(* tools/replay.cpp rebuilds from it.  The log is complete here: no record *)
(* is lost by the logger (module Logger).                                  *)
(***************************************************************************)
EXTENDS Exchange

VARIABLE rebuilt   \* the replay's book after the commands logged so far

RInit == Init /\ rebuilt = EmptyQueues

\* replay: every logged command goes straight to the book
ReplayNew(q, c) == IF AddVerdict(q, c) = "None" THEN Match(q, c).queue ELSE q

ReplayCancel(q, id, agent) == IF CancelVerdict(q, id, agent) = "None" THEN Without(q, id) ELSE q

RNext ==
  \/ \E c \in NewOrders : /\ ProcessRefused(c) \/ ProcessNew(c)
                          /\ rebuilt' = ReplayNew(rebuilt, c)
  \/ \E id \in Ids, agent \in Agents : /\ ProcessCancel(id, agent)
                                       /\ rebuilt' = ReplayCancel(rebuilt, id, agent)
  \/ /\ EndBatch \/ Deliver \/ \E a \in Agents : Poll(a)
     /\ UNCHANGED rebuilt

RSpec == RInit /\ [][RNext]_<<vars, rebuilt>>

(* What docs/DESIGN.md says of the command log: replaying it gives the     *)
(* session's book.                                                         *)
ReplayReproduces == rebuilt = book
=============================================================================
