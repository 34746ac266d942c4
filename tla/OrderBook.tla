------------------------------ MODULE OrderBook -----------------------------
(***************************************************************************)
(* The order book of src/order_book.cpp, at the level of its data          *)
(* structures: one doubly linked list per side and price threaded through  *)
(* a pool of nodes, a free list through the same `next` field, an index    *)
(* from live order id to node, per-level quantity and count, and a cached  *)
(* best price per side.                                                    *)
(*                                                                         *)
(* A call of add() takes several steps, one per iteration of its loops:    *)
(*   StartAdd, then per level EnterLevel, Walk..., LeaveLevel, and at the  *)
(*   end RestRemainder or Finish.                                          *)
(* The book has one caller, so no other call starts in between; the steps  *)
(* are there because the loop walks a list while unlinking from it.        *)
(*                                                                         *)
(* The book itself is one record, so that unlink and rest are functions    *)
(* from book to book that the loop, cancel and the proofs share.           *)
(***************************************************************************)
EXTENDS Market, Sequences, FiniteSets

CONSTANT NoAgent, NoId    \* poison for the fields of a released node

VARIABLES
  book,    \* the containers of class OrderBook
  phase,   \* "idle", or where the call of add in progress stands
  call,    \* the locals and outputs so far of the call in progress
  request, \* the call that just returned, until the caller has read its reply
  reply    \* everything that call returned

vars == <<book, phase, call, request, reply>>

NIL == 0   \* node numbers are 1, 2, ...; the code's NIL is UINT32_MAX

EmptyLevel == [head |-> NIL, tail |-> NIL, qty |-> 0, count |-> 0]

EmptyBook == [levels |-> [s \in Side |-> [p \in Prices |-> EmptyLevel]],
              best   |-> [s \in Side |-> NoPrice],
              pool   |-> <<>>,
              free   |-> NIL,
              index  |-> [i \in {} |-> NIL]]

Live(b) == {b.index[i] : i \in DOMAIN b.index}

----------------------------------------------------------------------------
(* alloc and release.  A released node keeps its old fields in the code;   *)
(* nothing may read them before rest() overwrites the node, so they are    *)
(* poisoned here: a read through a stale node number would give an order   *)
(* that no caller submitted.                                               *)

Released(next) == [id |-> NoId, agent |-> NoAgent, remaining |-> 0, px |-> NoPrice,
                   side |-> Buy, next |-> next, prev |-> NIL]

\* the node alloc returns, and the pool and free list it leaves
Alloc(b) == IF b.free # NIL THEN b.free ELSE Len(b.pool) + 1

Grown(b) == IF b.free # NIL THEN b.pool ELSE Append(b.pool, Released(NIL))

FreeAfterAlloc(b) == IF b.free # NIL THEN b.pool[b.free].next ELSE NIL

\* mutant: the scan runs over the levels better than the one that emptied
NextBestWrongWay(levels, s, px) ==
  LET beyond == {p \in Prices : Better(s, p, px) /\ levels[s][p].count # 0}
  IN IF beyond = {} THEN NoPrice
     ELSE CHOOSE p \in beyond : \A r \in beyond : ~Better(s, r, p)

\* advance_best: the best price of side s among the levels beyond px that still
\* hold orders
NextBest(levels, s, px) ==
  LET beyond == {p \in Prices : Better(s, px, p) /\ levels[s][p].count # 0}
  IN IF beyond = {} THEN NoPrice
     ELSE CHOOSE p \in beyond : \A r \in beyond : ~Better(s, r, p)

\* unlink: take node n off its level and out of the index, release it, and
\* move the best price if its level emptied
UnlinkLinks(b, n) ==
  LET node == b.pool[n]
      lvl  == b.levels[node.side][node.px]
  IN [head  |-> IF node.prev # NIL THEN lvl.head ELSE node.next,
      tail  |-> IF node.next # NIL THEN lvl.tail ELSE node.prev,
      qty   |-> lvl.qty - node.remaining,
      count |-> lvl.count - 1]

UnlinkPool(b, n) ==
  LET node == b.pool[n]
  IN [m \in 1 .. Len(b.pool) |->
        IF m = n THEN Released(b.free)
        ELSE [b.pool[m] EXCEPT !.next = IF m = node.prev THEN node.next ELSE @,
                               !.prev = IF m = node.next THEN node.prev ELSE @]]

\* mutant: the node is taken off its list and never put on the free list
UnlinkWithoutRelease(b, n) ==
  LET s      == b.pool[n].side
      px     == b.pool[n].px
      lvl    == UnlinkLinks(b, n)
      levels == [b.levels EXCEPT ![s][px] = lvl]
  IN [levels |-> levels,
      best   |-> IF lvl.count = 0 /\ px = b.best[s]
                 THEN [b.best EXCEPT ![s] = NextBest(levels, s, px)]
                 ELSE b.best,
      pool   |-> UnlinkPool(b, n),
      free   |-> b.free,
      index  |-> [i \in DOMAIN b.index \ {b.pool[n].id} |-> b.index[i]]]

Unlink(b, n) ==
  LET s      == b.pool[n].side
      px     == b.pool[n].px
      lvl    == UnlinkLinks(b, n)
      levels == [b.levels EXCEPT ![s][px] = lvl]
  IN [levels |-> levels,
      best   |-> IF lvl.count = 0 /\ px = b.best[s]
                 THEN [b.best EXCEPT ![s] = NextBest(levels, s, px)]
                 ELSE b.best,
      pool   |-> UnlinkPool(b, n),
      free   |-> n,
      index  |-> [i \in DOMAIN b.index \ {b.pool[n].id} |-> b.index[i]]]

\* rest: a node for the remainder at the tail of its level
Rest(b, c, remaining) ==
  LET n    == Alloc(b)
      lvl  == b.levels[c.side][c.px]
      node == [id |-> c.id, agent |-> c.agent, remaining |-> remaining, px |-> c.px,
               side |-> c.side, next |-> NIL, prev |-> lvl.tail]
  IN [levels |-> [b.levels EXCEPT ![c.side][c.px] =
                    [head  |-> IF lvl.tail # NIL THEN lvl.head ELSE n,
                     tail  |-> n,
                     qty   |-> lvl.qty + remaining,
                     count |-> lvl.count + 1]],
      best   |-> IF b.best[c.side] = NoPrice \/ Better(c.side, c.px, b.best[c.side])
                 THEN [b.best EXCEPT ![c.side] = c.px]
                 ELSE b.best,
      pool   |-> [m \in 1 .. Len(Grown(b)) |->
                    IF m = n THEN node
                    ELSE IF m = lvl.tail THEN [Grown(b)[m] EXCEPT !.next = n]
                    ELSE Grown(b)[m]],
      free   |-> FreeAfterAlloc(b),
      index  |-> [i \in DOMAIN b.index \cup {c.id} |->
                    IF i = c.id THEN n ELSE b.index[i]]]

\* the three stores of a fill: maker's remaining, level quantity (the taker's
\* remaining is a local of the call)
Reduce(b, n, qty) ==
  LET s == b.pool[n].side
      px == b.pool[n].px
  IN [b EXCEPT !.pool[n].remaining = @ - qty, !.levels[s][px].qty = @ - qty]
----------------------------------------------------------------------------
Idle == [kind |-> "none"]

Init == /\ book = EmptyBook
        /\ phase = "idle"
        /\ call = Idle
        /\ request = Idle
        /\ reply = Idle

\* the early returns of add, in their order
AddReason(b, c) ==
  IF c.qty <= 0 THEN "BadQty"
  ELSE IF ~InBand(c.px) THEN "OutOfBand"
  ELSE IF c.id \in DOMAIN b.index THEN "DuplicateId"
  ELSE "None"

\* between calls: the previous result has been read
Ready == phase = "idle" /\ request = Idle

\* the caller has read the result and clears the output vectors
Collect ==
  /\ request # Idle
  /\ request' = Idle
  /\ reply' = Idle
  /\ UNCHANGED <<book, phase, call>>

AddReply(reason, fills, stp, filled, resting) ==
  [kind |-> "add", reason |-> reason, fills |-> fills, stp |-> stp,
   filled |-> filled, resting |-> resting]

RejectAdd(c) ==
  /\ Ready
  /\ AddReason(book, c) # "None"
  /\ request' = [kind |-> "add", cmd |-> c]
  /\ reply' = AddReply(AddReason(book, c), <<>>, <<>>, 0, 0)
  /\ UNCHANGED <<book, phase, call>>

StartAdd(c) ==
  /\ Ready
  /\ AddReason(book, c) = "None"
  /\ phase' = "match"
  /\ call' = [cmd |-> c, remaining |-> c.qty, px |-> NoPrice, cur |-> NIL,
              fills |-> <<>>, stp |-> <<>>]
  /\ UNCHANGED <<book, request, reply>>

\* mutant: an order at exactly the best opposite price does not trade
CrossesStrictly(b, c) ==
  LET opp == b.best[Opposite(c.side)]
  IN opp # NoPrice /\ Reaches(c.side, c.px, opp) /\ c.px # opp

Crosses(b, c) == LET opp == b.best[Opposite(c.side)]
                 IN opp # NoPrice /\ Reaches(c.side, c.px, opp)

\* mutant: the newest order of the level trades first
EnterLevelNewestFirst ==
  /\ phase = "match"
  /\ call.remaining > 0
  /\ Crosses(book, call.cmd)
  /\ LET opp == Opposite(call.cmd.side)
         px  == book.best[opp]
     IN call' = [call EXCEPT !.px = px, !.cur = book.levels[opp][px].tail]
  /\ phase' = "walk"
  /\ UNCHANGED <<book, request, reply>>

\* while (remaining > 0 && crosses()): pick the best opposite level
EnterLevel ==
  /\ phase = "match"
  /\ call.remaining > 0
  /\ Crosses(book, call.cmd)
  /\ LET opp == Opposite(call.cmd.side)
         px  == book.best[opp]
     IN call' = [call EXCEPT !.px = px, !.cur = book.levels[opp][px].head]
  /\ phase' = "walk"
  /\ UNCHANGED <<book, request, reply>>

Walking == phase = "walk" /\ call.cur # NIL /\ call.remaining > 0

\* mutant: next is read from the node after unlink has released it
CancelOwnReadsReleased ==
  /\ Walking
  /\ LET n    == call.cur
         node == book.pool[n]
     IN /\ node.agent = call.cmd.agent
        /\ book' = Unlink(book, n)
        /\ call' = [call EXCEPT
                      !.cur = Unlink(book, n).pool[n].next,
                      !.stp = Append(@, [id |-> node.id, agent |-> node.agent,
                                         remaining |-> node.remaining])]
  /\ UNCHANGED <<phase, request, reply>>

\* self-trade prevention: the resting order is cancelled, the walk goes on
CancelOwn ==
  /\ Walking
  /\ LET n    == call.cur
         node == book.pool[n]
     IN /\ node.agent = call.cmd.agent
        /\ book' = Unlink(book, n)
        /\ call' = [call EXCEPT
                      !.cur = node.next,
                      !.stp = Append(@, [id |-> node.id, agent |-> node.agent,
                                         remaining |-> node.remaining])]
  /\ UNCHANGED <<phase, request, reply>>

\* mutant: the trade is for all the taker still wants
TradeQtyUnbounded(wanted, resting) == wanted

TradeQty(wanted, resting) == Minimum(wanted, resting)

FillMaker ==
  /\ Walking
  /\ LET n    == call.cur
         node == book.pool[n]
         tq   == TradeQty(call.remaining, node.remaining)
         b    == Reduce(book, n, tq)
     IN /\ node.agent # call.cmd.agent
        /\ book' = IF node.remaining = tq THEN Unlink(b, n) ELSE b
        /\ call' = [call EXCEPT
                      !.cur = node.next,
                      !.remaining = @ - tq,
                      !.fills = Append(@, [maker_id |-> node.id, maker |-> node.agent,
                                           px |-> call.px, qty |-> tq,
                                           maker_remaining |-> node.remaining - tq])]
  /\ UNCHANGED <<phase, request, reply>>

\* the inner loop ends: back to the test of the outer one
LeaveLevel ==
  /\ phase = "walk"
  /\ call.cur = NIL \/ call.remaining = 0
  /\ phase' = "match"
  /\ call' = [call EXCEPT !.px = NoPrice, !.cur = NIL]
  /\ UNCHANGED <<book, request, reply>>

Matched == phase = "match" /\ ~(call.remaining > 0 /\ Crosses(book, call.cmd))

Rests == call.remaining > 0 /\ call.cmd.tif = "GTC"

\* what add returns, and its end
Return(resting) ==
  /\ request' = [kind |-> "add", cmd |-> call.cmd]
  /\ reply' = AddReply("None", call.fills, call.stp, call.cmd.qty - call.remaining, resting)
  /\ phase' = "idle"
  /\ call' = Idle

RestRemainder ==
  /\ Matched
  /\ Rests
  /\ book' = Rest(book, call.cmd, call.remaining)
  /\ Return(call.remaining)

\* fully filled, or an IOC whose remainder is dropped without a report
Finish ==
  /\ Matched
  /\ ~Rests
  /\ Return(0)
  /\ UNCHANGED book

CancelReason(b, id, agent) ==
  IF id \notin DOMAIN b.index THEN "UnknownOrder"
  ELSE IF b.pool[b.index[id]].agent # agent THEN "NotOwner"
  ELSE "None"

Cancel(id, agent) ==
  /\ Ready
  /\ LET reason == CancelReason(book, id, agent)
         ok     == reason = "None"
     IN /\ request' = [kind |-> "cancel", id |-> id, agent |-> agent]
        /\ reply' = [kind |-> "cancel", reason |-> reason,
                     removed |-> IF ok THEN book.pool[book.index[id]].remaining ELSE 0]
        /\ book' = IF ok THEN Unlink(book, book.index[id]) ELSE book
  /\ UNCHANGED <<phase, call>>

Next == \/ \E c \in NewOrders : RejectAdd(c) \/ StartAdd(c)
        \/ EnterLevel \/ CancelOwn \/ FillMaker \/ LeaveLevel
        \/ RestRemainder \/ Finish \/ Collect
        \/ \E id \in Ids, agent \in Agents : Cancel(id, agent)

Spec == Init /\ [][Next]_vars

----------------------------------------------------------------------------
(* Types *)
NodeNumbers == 1 .. Len(book.pool)

NodeType == [id : Ids \cup {NoId}, agent : Agents \cup {NoAgent}, remaining : Nat,
             px : Prices \cup {NoPrice}, side : Side, next : Nat, prev : Nat]

LevelType == [head : Nat, tail : Nat, qty : Int, count : Int]

TypeOK ==
  /\ book.levels \in [Side -> [Prices -> LevelType]]
  /\ book.best \in [Side -> Prices \cup {NoPrice}]
  /\ book.pool \in Seq(NodeType)
  /\ book.free \in NodeNumbers \cup {NIL}
  /\ DOMAIN book.index \subseteq Ids
  /\ \A i \in DOMAIN book.index : book.index[i] \in NodeNumbers
  /\ phase \in {"idle", "match", "walk"}
  /\ phase # "idle" =>
       /\ call.cmd \in NewOrders
       /\ call.remaining \in Nat
       /\ call.px \in Prices \cup {NoPrice}
       /\ call.cur \in NodeNumbers \cup {NIL}
----------------------------------------------------------------------------
(* The structure of the book, as conditions on single nodes and levels.    *)

At(b, s, p) == {n \in Live(b) : b.pool[n].side = s /\ b.pool[n].px = p}

\* the index and the live nodes are in bijection, and a live node holds an order
IndexOK(b) ==
  \A i \in DOMAIN b.index :
     LET node == b.pool[b.index[i]]
     IN node.id = i /\ node.agent \in Agents /\ node.px \in Prices /\ node.remaining > 0

\* a node's neighbours point back at it and stand at its level
LinksOK(b) ==
  \A n \in Live(b) :
     LET node == b.pool[n]
         lvl  == b.levels[node.side][node.px]
     IN /\ IF node.next = NIL THEN lvl.tail = n
           ELSE node.next \in At(b, node.side, node.px) /\ b.pool[node.next].prev = n
        /\ IF node.prev = NIL THEN lvl.head = n
           ELSE node.prev \in At(b, node.side, node.px) /\ b.pool[node.prev].next = n

\* the ends of a level's list are orders of that level
EndsOK(b) ==
  \A s \in Side, p \in Prices :
     LET lvl == b.levels[s][p]
     IN /\ lvl.head # NIL => lvl.head \in At(b, s, p) /\ b.pool[lvl.head].prev = NIL
        /\ lvl.tail # NIL => lvl.tail \in At(b, s, p) /\ b.pool[lvl.tail].next = NIL

CountsOK(b) ==
  \A s \in Side, p \in Prices : b.levels[s][p].count = Cardinality(At(b, s, p))

\* the cached best price is the best price of a level that holds an order
BestOK(b) ==
  \A s \in Side, p \in Prices :
     b.levels[s][p].count # 0 => b.best[s] # NoPrice /\ ~Better(s, p, b.best[s])

BestHeld(b) ==
  \A s \in Side : b.best[s] # NoPrice => b.levels[s][b.best[s]].count # 0

\* no live node can be handed out again by alloc, and no free node twice
FreeOK(b) ==
  LET Free == (1 .. Len(b.pool)) \ Live(b)
  IN /\ b.free # NIL => b.free \in Free
     /\ \A n \in Free : b.pool[n].next # NIL =>
           /\ b.pool[n].next \in Free
           /\ b.pool[n].next # b.free
           /\ \A m \in Free : b.pool[m].next = b.pool[n].next => m = n

Structure(b) == /\ IndexOK(b) /\ LinksOK(b) /\ EndsOK(b) /\ CountsOK(b)
                /\ BestOK(b) /\ BestHeld(b) /\ FreeOK(b)

\* While the inner loop can go on, its cursor is the head of the level being
\* eaten: everything before it has been unlinked.
CursorOK ==
  phase = "walk" =>
    /\ call.px \in Prices
    /\ call.cur # NIL /\ call.remaining > 0 =>
         call.cur = book.levels[Opposite(call.cmd.side)][call.px].head

(* The inner loop only runs off the end of a level it has emptied, so the  *)
(* outer loop of add never meets the same level twice and terminates       *)
(* (order_book.cpp: `next` is saved before unlink releases the node).      *)
LevelEaten ==
  phase = "walk" /\ call.cur = NIL /\ call.remaining > 0 =>
    book.levels[Opposite(call.cmd.side)][call.px].count = 0

(* No bid rests at or above an ask: an incoming order only rests once      *)
(* everything its limit reaches is gone, self-trade cancels included.      *)
Uncrossed ==
  \A p, q \in Prices :
     book.levels[Buy][p].count # 0 /\ book.levels[Sell][q].count # 0 => p < q

(* After every loop iteration of add and after every call, lists, index,   *)
(* counts, best prices and free list have their types and agree with each  *)
(* other, whatever was unlinked under the cursor (order_book.cpp: unlink,  *)
(* advance_best, rest); a level is left empty, and the book uncrossed.     *)
StructureOK ==
  /\ TypeOK
  /\ Structure(book)
  /\ CursorOK
  /\ LevelEaten
  /\ Uncrossed
=============================================================================
