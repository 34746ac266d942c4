------------------------------ MODULE Exchange ------------------------------
(***************************************************************************)
(* What the engine thread does with the commands it has popped, and what   *)
(* the agents learn of it: Engine::process, the events it sends and        *)
(* broadcasts, the end of a batch in engine_loop, and AgentContext::apply  *)
(* (src/engine.cpp, include/strategy.h), with the per-agent fan-out.       *)
(*                                                                         *)
(* Module Session gives the order in which commands come: each agent's in  *)
(* the order it issued them, those of different agents in any order.  Here *)
(* the next command is any command an agent may have issued.               *)
(*                                                                         *)
(* Money is counted in ticks.  Numbers nothing depends on (event sequence, *)
(* times, last price, report counters) are left out.                       *)
(***************************************************************************)
EXTENDS Matching

CONSTANTS
  CollarLo, CollarHi, \* Impl::collar_lo and collar_hi; collar_hi = 0 is no collar
  MakerFee, TakerFee, \* per unit, signed: negative is a rebate
  EventUsable,        \* events a queue can hold
  BatchMax,           \* bound on the commands of a batch
  MaxCommands         \* bound on the commands of a session

\* add_strategy numbers the agents from 0: an agent's id is the index of its slot
ASSUME AgentsAssumption == IsFiniteSet(Agents) /\ Agents = 0 .. (Cardinality(Agents) - 1)

ASSUME FeesAssumption == MakerFee \in Int /\ TakerFee \in Int

ASSUME BoundsAssumption == EventUsable \in Nat /\ BatchMax \in Nat /\ MaxCommands \in Nat

VARIABLES
  book,      \* the queues of the order book (module Matching)
  issued,    \* AgentContext::local_seq_ of the last order processed
  commands,  \* commands processed
  inBatch,   \* how many of them in the current batch
  account,   \* the engine's books: position, cash above the initial, fees
  top,       \* the top of book last broadcast by BookUpdate
  pending,   \* events made by the step in progress and not yet pushed
  channel,   \* the event queues
  sent,      \* events_sent
  dropped,   \* events_dropped
  view       \* what each agent has made of the events it consumed

engineVars == <<book, issued, commands, inBatch, account, top>>
vars == <<engineVars, pending, channel, sent, dropped, view>>

NoOrders == [id \in {} |-> 0]

EmptyTop == [s \in Side |-> [px |-> NoPrice, qty |-> 0]]

\* fill_top: best price of each side and the quantity there
Top(b) ==
  [s \in Side |->
     LET held == {p \in Prices : b[s][p] # <<>>}
         best == CHOOSE p \in held : \A r \in held : ~Better(s, r, p)
         qty  == [k \in DOMAIN b[s][best] |-> b[s][best][k].remaining]
     IN IF held = {} THEN EmptyTop[s]
        ELSE [px |-> best, qty |-> SumFunction(qty)]]

----------------------------------------------------------------------------
(* Events.  An entry of pending is an event and the agent it goes to.      *)

Send(to, ev) == <<[to |-> to, ev |-> ev]>>

\* broadcast: one push per agent, in the order of slots_
Broadcast(ev) == [k \in 1 .. Cardinality(Agents) |-> [to |-> k - 1, ev |-> ev]]

Rejected(id, reason)     == [kind |-> "Rejected", id |-> id, reason |-> reason]
Cancelled(id, remaining) == [kind |-> "Cancelled", id |-> id, remaining |-> remaining]
Ack(id, filled, resting) == [kind |-> "Ack", id |-> id, qty |-> filled, remaining |-> resting]

FillEvent(id, is_maker, side, f, remaining, fee) ==
  [kind |-> "Fill", id |-> id, is_maker |-> is_maker, side |-> side, px |-> f.px,
   qty |-> f.qty, remaining |-> remaining, fee |-> fee]

\* what the taker still wants after the first k fills
TakerRemaining(c, fills, k) ==
  c.qty - SumFunctionOnSet([i \in DOMAIN fills |-> fills[i].qty], 1 .. k)

\* mutant: the maker is told what is left of the taker's order
MakerRemainingOfTaker(c, fills, k) == TakerRemaining(c, fills, k)

MakerRemaining(c, fills, k) == fills[k].maker_remaining

\* the three events of a fill; the top of book is the one after the whole add
FillEvents(c, fills, k, newTop) ==
  LET f == fills[k]
  IN Send(f.maker, FillEvent(f.maker_id, 1, Opposite(c.side), f,
                             MakerRemaining(c, fills, k), MakerFee * f.qty))
     \o Send(c.agent, FillEvent(c.id, 0, c.side, f,
                                TakerRemaining(c, fills, k), TakerFee * f.qty))
     \o Broadcast([kind |-> "Trade", top |-> newTop])

\* mutant: the orders cancelled by self-trade prevention are not reported
StpEventsSilent(stp) == <<>>

StpEvents(stp) ==
  [k \in DOMAIN stp |-> [to |-> stp[k].agent, ev |-> Cancelled(stp[k].id, stp[k].remaining)]]

AddEvents(c, m) ==
  StpEvents(m.stp)
  \o Send(c.agent, Ack(c.id, m.filled, m.resting))
  \o FlattenSeq([k \in DOMAIN m.fills |-> FillEvents(c, m.fills, k, Top(m.queue))])

----------------------------------------------------------------------------
(* The engine's books. *)

\* mutant: an agent's fees are charged but not summed
CreditFeeUncounted(a, qty, cash, fee) ==
  [position |-> a.position + qty, cash |-> a.cash + cash - fee, fees |-> a.fees]

Credit(a, qty, cash, fee) ==
  [position |-> a.position + qty, cash |-> a.cash + cash - fee, fees |-> a.fees + fee]

\* mutant: the taker is the buyer of every trade
TakerSignAlwaysBuy(side) == 1

TakerSign(side) == IF side = Buy THEN 1 ELSE -1

\* one fill: shares and notional change hands, each side pays its fee
Settle(accounts, c, f) ==
  LET sign == TakerSign(c.side)
      paid == [accounts EXCEPT ![c.agent] =
                 Credit(@, sign * f.qty, -sign * f.px * f.qty, TakerFee * f.qty)]
  IN [paid EXCEPT ![f.maker] =
        Credit(@, -sign * f.qty, sign * f.px * f.qty, MakerFee * f.qty)]

SettleAll(accounts, c, fills) ==
  FoldLeft(LAMBDA acc, f : Settle(acc, c, f), accounts, fills)

----------------------------------------------------------------------------
NoView == [position |-> 0, cash |-> 0, fees |-> 0, top |-> EmptyTop,
           open |-> NoOrders, owed |-> 0]

\* engine_loop starts with the SessionStart broadcast
Init ==
  /\ book = EmptyQueues
  /\ issued = [a \in Agents |-> 0]
  /\ commands = 0 /\ inBatch = 0
  /\ account = [a \in Agents |-> [position |-> 0, cash |-> 0, fees |-> 0]]
  /\ top = EmptyTop
  /\ pending = Broadcast([kind |-> "SessionStart"])
  /\ channel = [a \in Agents |-> <<>>]
  /\ sent = [a \in Agents |-> 0]
  /\ dropped = [a \in Agents |-> 0]
  /\ view = [a \in Agents |-> NoView]

\* process() is about to take the next command
Ready == /\ pending = <<>>
         /\ commands < MaxCommands
         /\ inBatch < BatchMax

Count == /\ commands' = commands + 1
         /\ inBatch' = inBatch + 1

OutsideCollar(px) == CollarHi > 0 /\ (px < CollarLo \/ px > CollarHi)

AddRefusal(c) == IF OutsideCollar(c.px) THEN "Collar" ELSE AddVerdict(book, c)

\* order ids carry the agent and its running number
NextOrderOf(c) == c.id = <<c.agent, issued[c.agent] + 1>>

ProcessRefused(c) ==
  /\ Ready
  /\ NextOrderOf(c)
  /\ AddRefusal(c) # "None"
  /\ pending' = Send(c.agent, Rejected(c.id, AddRefusal(c)))
  /\ issued' = [issued EXCEPT ![c.agent] = @ + 1]
  /\ Count
  /\ UNCHANGED <<book, account, top, channel, sent, dropped, view>>

ProcessNew(c) ==
  /\ Ready
  /\ NextOrderOf(c)
  /\ AddRefusal(c) = "None"
  /\ \E m \in {Match(book, c)} :
       /\ book' = m.queue
       /\ account' = SettleAll(account, c, m.fills)
       /\ pending' = AddEvents(c, m)
  /\ issued' = [issued EXCEPT ![c.agent] = @ + 1]
  /\ Count
  /\ UNCHANGED <<top, channel, sent, dropped, view>>

ProcessCancel(id, agent) ==
  /\ Ready
  /\ id[2] <= issued[id[1]]
  /\ LET reason == CancelVerdict(book, id, agent)
     IN IF reason = "None"
        THEN \E o \in {r \in Resting(book) : r.id = id} :
               /\ pending' = Send(agent, Cancelled(id, o.remaining))
               /\ book' = Without(book, id)
        ELSE /\ pending' = Send(agent, Rejected(id, reason))
             /\ UNCHANGED book
  /\ Count
  /\ UNCHANGED <<issued, account, top, channel, sent, dropped, view>>

\* the end of a batch: broadcast the top of book if it is not the last one
EndBatch ==
  /\ pending = <<>>
  /\ inBatch > 0
  /\ inBatch' = 0
  /\ \E t \in {Top(book)} :
       /\ top' = t
       /\ pending' = IF t = top THEN <<>> ELSE Broadcast([kind |-> "BookUpdate", top |-> t])
  /\ UNCHANGED <<book, issued, commands, account, channel, sent, dropped, view>>

\* mutant: a full queue takes one more event
HasRoomAlways(a) == Len(channel[a]) <= EventUsable

HasRoom(a) == Len(channel[a]) < EventUsable

Pushed(a) == sent[a] - dropped[a]

\* the push of the next event; a queue that is full, or was when the engine
\* last saw its tail_, refuses and the event is gone
Deliver ==
  /\ pending # <<>>
  /\ LET to == Head(pending).to
     IN /\ \/ /\ HasRoom(to)
              /\ channel' = [channel EXCEPT ![to] = Append(@, Head(pending).ev)]
              /\ UNCHANGED dropped
           \/ /\ Pushed(to) >= EventUsable
              /\ dropped' = [dropped EXCEPT ![to] = @ + 1]
              /\ UNCHANGED channel
        /\ sent' = [sent EXCEPT ![to] = @ + 1]
  /\ pending' = Tail(pending)
  /\ UNCHANGED <<engineVars, view>>

----------------------------------------------------------------------------
(* The agents: poll and apply.  `open` and `owed` are not kept by          *)
(* AgentContext; they are what a strategy can know of its orders from the  *)
(* events it is given: what rests, and what of the last Ack's filled       *)
(* quantity has not been reported by a Fill yet.                           *)

WithOrder(open, id, qty) ==
  [i \in (IF qty > 0 THEN DOMAIN open \cup {id} ELSE DOMAIN open \ {id}) |->
     IF i = id THEN qty ELSE open[i]]

ApplyFill(v, ev) ==
  LET sign == IF ev.side = Buy THEN 1 ELSE -1
  IN [v EXCEPT
        !.position = @ + sign * ev.qty,
        !.cash = @ - sign * ev.px * ev.qty - ev.fee,
        !.fees = @ + ev.fee,
        !.open = IF ev.is_maker = 1 THEN WithOrder(@, ev.id, ev.remaining) ELSE @,
        !.owed = IF ev.is_maker = 1 THEN @ ELSE @ - ev.qty]

Apply(v, ev) ==
  CASE ev.kind = "Fill"                    -> ApplyFill(v, ev)
    [] ev.kind \in {"Trade", "BookUpdate"} -> [v EXCEPT !.top = ev.top]
    [] ev.kind = "Ack"       -> [v EXCEPT !.open = WithOrder(@, ev.id, ev.remaining),
                                          !.owed = @ + ev.qty]
    [] ev.kind = "Cancelled" -> [v EXCEPT !.open = WithOrder(@, ev.id, 0)]
    [] OTHER                 -> v

Poll(a) ==
  /\ channel[a] # <<>>
  /\ view' = [view EXCEPT ![a] = Apply(@, Head(channel[a]))]
  /\ channel' = [channel EXCEPT ![a] = Tail(@)]
  /\ UNCHANGED <<engineVars, pending, sent, dropped>>

Next == \/ \E c \in NewOrders : ProcessRefused(c) \/ ProcessNew(c)
        \/ \E id \in Ids, agent \in Agents : ProcessCancel(id, agent)
        \/ EndBatch
        \/ Deliver
        \/ \E a \in Agents : Poll(a)

Spec == Init /\ [][Next]_vars

----------------------------------------------------------------------------
Quote == [px : Prices \cup {NoPrice}, qty : Nat]

Reasons == {"Collar", "BadQty", "OutOfBand", "DuplicateId", "UnknownOrder", "NotOwner"}

Event ==
  [kind : {"SessionStart"}]
  \cup [kind : {"Trade", "BookUpdate"}, top : [Side -> Quote]]
  \cup [kind : {"Rejected"}, id : Ids, reason : Reasons]
  \cup [kind : {"Cancelled"}, id : Ids, remaining : Nat \ {0}]
  \cup [kind : {"Ack"}, id : Ids, qty : Nat, remaining : Nat]
  \cup [kind : {"Fill"}, id : Ids, is_maker : {0, 1}, side : Side, px : Prices,
        qty : Nat \ {0}, remaining : Int, fee : Int]

Entry == [to : Agents, ev : Event]

TypeOK ==
  /\ book \in [Side -> [Prices -> Seq(Order)]]
  /\ issued \in [Agents -> Nat]
  /\ commands \in 0 .. MaxCommands /\ inBatch \in 0 .. BatchMax
  /\ account \in [Agents -> [position : Int, cash : Int, fees : Int]]
  /\ top \in [Side -> Quote]
  /\ pending \in Seq(Entry)
  /\ channel \in [Agents -> Seq(Event)]
  /\ sent \in [Agents -> Nat] /\ dropped \in [Agents -> Nat]
  /\ DOMAIN view = Agents
  /\ \A a \in Agents : /\ Len(channel[a]) <= EventUsable
                       /\ dropped[a] <= sent[a]
                       /\ DOMAIN view[a] = DOMAIN NoView
                       /\ DOMAIN view[a].open \subseteq Ids

\* the events on their way to an agent, as entries, and those of the step in
\* progress that are not pushed yet
Coming(a) == [k \in DOMAIN channel[a] |-> [to |-> a, ev |-> channel[a][k]]] \o pending

\* an event is possible to an agent that knows v
AddsUp(v, ev) ==
  CASE ev.kind = "Ack"       -> v.owed = 0 /\ ev.id \notin DOMAIN v.open
    [] ev.kind = "Cancelled" -> ev.id \in DOMAIN v.open /\ ev.remaining = v.open[ev.id]
    [] ev.kind = "Rejected"  -> ev.id \notin DOMAIN v.open \/ ev.reason = "NotOwner"
    [] ev.kind = "Fill"      -> IF ev.is_maker = 1
                                THEN /\ ev.id \in DOMAIN v.open
                                     /\ ev.remaining = v.open[ev.id] - ev.qty
                                ELSE ev.qty <= v.owed
    [] OTHER                 -> TRUE

\* an entry reaches agent a: what it knows then, and how many events did not add up
Learn(a, x, e) ==
  IF e.to = a
  THEN [v |-> Apply(x.v, e.ev), odd |-> IF AddsUp(x.v, e.ev) THEN x.odd ELSE x.odd + 1]
  ELSE x

\* what agent a makes of the entries s
Heard(a, x, s) == FoldLeft(LAMBDA y, e : Learn(a, y, e), x, s)

\* what will have become of agent a when it has heard everything, if no event is refused
Outlook(a) == Heard(a, [v |-> view[a], odd |-> 0], Coming(a))

CaughtUp(a) == Outlook(a).v

HeardAll(a) == dropped[a] = 0

(* An agent that has lost no event keeps the same books as the engine, up  *)
(* to the events on their way to it: position, cash and fees, maker and    *)
(* taker, through partial fills and whatever it does in between (the two   *)
(* books are kept by Engine::process and AgentContext::apply).             *)
AccountsAgree ==
  \A a \in Agents : HeardAll(a) =>
    LET v == CaughtUp(a)
    IN account[a] = [position |-> v.position, cash |-> v.cash, fees |-> v.fees]

OwnOrders(a) == {o \in Resting(book) : o.agent = a}

\* the orders of S are exactly the open ones
Opens(open, S) == /\ DOMAIN open = {o.id : o \in S}
                  /\ \A o \in S : open[o.id] = o.remaining

\* Such an agent also knows its resting orders: what the acks, fills and
\* cancels on their way to it leave open is exactly what rests in the book
\* under its name, and every share acked as filled has had its fill.
OpenAgree ==
  \A a \in Agents : HeardAll(a) =>
    /\ Opens(CaughtUp(a).open, OwnOrders(a))
    /\ CaughtUp(a).owed = 0

\* Its reports about an order follow each other: acked once, taker fills
\* within the acked quantity, each maker fill and the cancel continuing from
\* the quantity last reported, nothing after the end, and a cancel refused
\* only when the end has been reported before.
FollowOn == \A a \in Agents : HeardAll(a) => Outlook(a).odd = 0

(* The reports an agent gets tell the true story of its orders, through    *)
(* partial fills, self-trade cancels and cancels that race a fill: each    *)
(* one continues the one before, and together they leave open exactly what *)
(* rests in the book (Engine::process reports what OrderBook::add and      *)
(* cancel returned; AgentContext::apply).                                  *)
OrdersAgree ==
  /\ TypeOK
  /\ OpenAgree
  /\ FollowOn

(* Shares and cash only change hands: positions sum to zero, and cash      *)
(* together with the fees everyone paid is what the session started with   *)
(* (tests/engine_tests.cpp, conservation_with).                            *)
Conserved ==
  /\ SumFunction([a \in Agents |-> account[a].position]) = 0
  /\ SumFunction([a \in Agents |-> account[a].cash + account[a].fees]) = 0

(* What docs/DESIGN.md says of AgentContext, that it keeps the last top of *)
(* book: when a batch is over, an agent that has consumed every event has  *)
(* the book's top.                                                         *)
TopAgrees ==
  pending = <<>> /\ inBatch = 0 =>
    \A a \in Agents : HeardAll(a) /\ channel[a] = <<>> => view[a].top = Top(book)
=============================================================================
