----------------------------- MODULE MCExchange -----------------------------
(***************************************************************************)
(* Bounded instance of Exchange for TLC: two agents, orders of both sides  *)
(* inside the collar, one price outside it.                                *)
(***************************************************************************)
EXTENDS Exchange

CONSTANTS N, Qtys

MCAgents == 0 .. (N - 1)
Rebate   == -2
OrderIds == MCAgents \X (1 .. MaxCommands)

Good == [id : OrderIds, agent : MCAgents, side : {Buy}, tif : {"GTC"}, px : {MinPx}, qty : Qtys]
        \cup
        [id : OrderIds, agent : MCAgents, side : {Sell}, tif : TIF, px : {MinPx}, qty : {2}]

Collared == [id : OrderIds, agent : {0}, side : {Buy}, tif : {"GTC"}, px : {MaxPx - 1}, qty : {1}]

SmallOrders == {c \in Good \cup Collared : c.id[1] = c.agent}
=============================================================================
