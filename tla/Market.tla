------------------------------- MODULE Market -------------------------------
(***************************************************************************)
(* Vocabulary shared by the modules of the engine (include/types.h): the   *)
(* sides, the lifetimes of an order, the price band of a book, and the     *)
(* commands an agent can put on its queue.                                 *)
(*                                                                         *)
(* Prices are integer ticks.  An order id is a model value: the code only  *)
(* ever hashes and compares ids.                                           *)
(***************************************************************************)
EXTENDS Integers

CONSTANTS
  Agents,   \* agent ids (AgentId)
  Ids,      \* order ids (OrderId)
  MinPx,    \* lowest price of the band
  MaxPx,    \* first price above the band: the book covers MinPx .. MaxPx-1
  NewOrders \* the New commands callers may submit, malformed ones included

(* Engine's constructor throws unless 0 <= min_px < max_px: -1 can then    *)
(* stand for "no best price" in the book.                                  *)
ASSUME BandAssumption == /\ MinPx \in Nat
                         /\ MaxPx \in Nat
                         /\ MinPx < MaxPx

Buy  == "Buy"
Sell == "Sell"
Side == {Buy, Sell}

Opposite(s) == IF s = Buy THEN Sell ELSE Buy

TIF == {"GTC", "IOC"}

Prices  == MinPx .. (MaxPx - 1)
NoPrice == -1
InBand(px) == MinPx <= px /\ px < MaxPx

\* p is a strictly better price than q for a resting order on side s
Better(s, p, q) == IF s = Buy THEN p > q ELSE p < q

\* an order on side s limited to px trades against a resting order at opp
Reaches(s, px, opp) == IF s = Buy THEN px >= opp ELSE px <= opp

\* The fields of a New command that the book looks at; any price and any
\* quantity can be submitted.
OrderFields == [id : Ids, agent : Agents, side : Side, tif : TIF, px : Int, qty : Int]

ASSUME NewOrdersAssumption == NewOrders \subseteq OrderFields

Minimum(a, b) == IF a < b THEN a ELSE b
Maximum(a, b) == IF a < b THEN b ELSE a
=============================================================================
