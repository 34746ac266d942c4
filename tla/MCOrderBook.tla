----------------------------- MODULE MCOrderBook ----------------------------
(***************************************************************************)
(* Bounded instance of OrderBook for TLC: orders of both sides at every    *)
(* price of the band with a small quantity, which fill a level three deep, *)
(* sweeps that reach all of the other side, and malformed orders that have *)
(* each defect alone or two at once, so that the order of the checks       *)
(* shows.  Ids are used again once their order is gone, as the class       *)
(* allows.                                                                 *)
(***************************************************************************)
EXTENDS OrderBookRefinement, TLC

CONSTANTS Resters, Taker, MaxQty

OrderIds == Resters \cup {Taker}

WellFormed == [id : Resters, agent : Agents, side : {Sell}, tif : {"GTC"},
               px : Prices, qty : 1 .. MaxQty]
              \cup
              [id : Resters, agent : Agents, side : {Buy}, tif : {"GTC"},
               px : Prices, qty : {1}]

Sweeps == [id : {Taker}, agent : Agents, side : {Buy}, tif : {"IOC"},
           px : {MaxPx - 1}, qty : {MaxQty, MaxQty + 1}]
          \cup
          [id : {Taker}, agent : Agents, side : {Sell}, tif : {"IOC"},
           px : {MinPx}, qty : {MaxQty}]

Malformed == {[id |-> i, agent |-> a, side |-> Buy, tif |-> "GTC",
               px |-> d[1], qty |-> d[2]] :
                i \in Resters, a \in Agents,
                d \in {<<MinPx, 0>>, <<MaxPx, 0>>, <<MaxPx, 1>>, <<MinPx - 1, 1>>}}

SmallOrders == WellFormed \cup Sweeps \cup Malformed

Interchangeable == Permutations(Agents) \cup Permutations(Resters)
=============================================================================
