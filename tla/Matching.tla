------------------------------ MODULE Matching ------------------------------
(***************************************************************************)
(* Price-time priority with self-trade prevention, as functions on queues: *)
(* q[s][p] is the sequence of the orders resting on side s at price p,     *)
(* oldest first.                                                           *)
(*                                                                         *)
(* An incoming order faces the opposite orders its limit reaches.  How     *)
(* much it takes from each is a closed formula: what is left of it after   *)
(* everything that stands ahead and belongs to other agents.  No list,     *)
(* pool, best-price cache or loop appears here.                            *)
(***************************************************************************)
EXTENDS Market, FiniteSets, Functions, SequencesExt

Order == [id : Ids, agent : Agents, side : Side, px : Prices,
          remaining : Nat \ {0}]

EmptyQueues == [s \in Side |-> [p \in Prices |-> <<>>]]

Resting(q) == UNION {ToSet(q[s][p]) : s \in Side, p \in Prices}

LiveIds(q) == {o.id : o \in Resting(q)}

\* o trades before r, an order of the same side: a better price, or older at the same
Ahead(q, o, r) ==
  \/ Better(o.side, o.px, r.px)
  \/ /\ o.px = r.px
     /\ \E i, j \in DOMAIN q[o.side][o.px] :
          i < j /\ q[o.side][o.px][i] = o /\ q[o.side][o.px][j] = r

\* the orders of S that k - 1 others of S are ahead of
Rank(q, S, k) == {o \in S : Cardinality({r \in S : Ahead(q, r, o)}) = k - 1}

\* the orders of S, all of one side, as they trade
Ranked(q, S) == [k \in 1 .. Cardinality(S) |-> CHOOSE o \in Rank(q, S, k) : TRUE]

----------------------------------------------------------------------------
(* What an accepted order c does to the book q.  It takes from the orders  *)
(* it faces until its quantity is gone; an order of its own agent that it  *)
(* gets to before that is cancelled instead; a GTC remainder joins the end *)
(* of its queue.                                                           *)

Facing(q, c) == {o \in Resting(q) : o.side = Opposite(c.side) /\ Reaches(c.side, c.px, o.px)}

\* what other agents' orders offer
Offer(c, o) == IF o.agent = c.agent THEN 0 ELSE o.remaining

Offered(c, S) == SumFunction([o \in S |-> Offer(c, o)])

\* what c still wants when it gets to o
Wants(q, c, o) == Maximum(0, c.qty - Offered(c, {r \in Facing(q, c) : Ahead(q, r, o)}))

Take(q, c, o) == Minimum(Offer(c, o), Wants(q, c, o))

Hit(q, c) == {o \in Facing(q, c) : Take(q, c, o) > 0}
Own(q, c) == {o \in Facing(q, c) : o.agent = c.agent /\ Wants(q, c, o) > 0}

Fills(q, c) ==
  LET hit == Ranked(q, Hit(q, c))
  IN [k \in DOMAIN hit |->
        [maker_id |-> hit[k].id, maker |-> hit[k].agent, px |-> hit[k].px,
         qty |-> Take(q, c, hit[k]),
         maker_remaining |-> hit[k].remaining - Take(q, c, hit[k])]]

SelfTrades(q, c) ==
  LET own == Ranked(q, Own(q, c))
  IN [k \in DOMAIN own |->
        [id |-> own[k].id, agent |-> own[k].agent, remaining |-> own[k].remaining]]

Filled(q, c) == SumFunction([o \in Facing(q, c) |-> Take(q, c, o)])

Remainder(q, c) == IF c.tif = "GTC" THEN c.qty - Filled(q, c) ELSE 0

\* the queues without what c takes or cancels
Kept(q, c) ==
  [s \in Side |-> [p \in Prices |->
     LET gone == Own(q, c) \cup {o \in Hit(q, c) : Take(q, c, o) = o.remaining}
         stay == Ranked(q, ToSet(q[s][p]) \ gone)
     IN [k \in DOMAIN stay |->
           IF stay[k] \in Hit(q, c)
           THEN [stay[k] EXCEPT !.remaining = @ - Take(q, c, stay[k])]
           ELSE stay[k]]]]

Match(q, c) ==
  LET order == [id |-> c.id, agent |-> c.agent, side |-> c.side, px |-> c.px,
                remaining |-> Remainder(q, c)]
  IN [fills   |-> Fills(q, c),
      stp     |-> SelfTrades(q, c),
      filled  |-> Filled(q, c),
      resting |-> Remainder(q, c),
      queue   |-> IF Remainder(q, c) > 0
                  THEN [Kept(q, c) EXCEPT ![c.side][c.px] = Append(@, order)]
                  ELSE Kept(q, c)]

\* the checks OrderBook::add makes, in its order
AddVerdict(q, c) ==
  CASE c.qty <= 0                                      -> "BadQty"
    [] c.qty > 0 /\ ~InBand(c.px)                      -> "OutOfBand"
    [] c.qty > 0 /\ InBand(c.px) /\ c.id \in LiveIds(q) -> "DuplicateId"
    [] OTHER                                           -> "None"

CancelVerdict(q, id, agent) ==
  CASE id \notin LiveIds(q)                            -> "UnknownOrder"
    [] \E o \in Resting(q) : o.id = id /\ o.agent # agent -> "NotOwner"
    [] OTHER                                           -> "None"

Without(q, id) ==
  [s \in Side |-> [p \in Prices |-> Ranked(q, {o \in ToSet(q[s][p]) : o.id # id})]]
=============================================================================
