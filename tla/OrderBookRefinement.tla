------------------------- MODULE OrderBookRefinement ------------------------
(***************************************************************************)
(* OrderBook implements LimitBook.  The abstract queue of a level is the   *)
(* chain of nodes from its head; while a call is in progress the abstract  *)
(* book is still the one the call started from.                            *)
(***************************************************************************)
EXTENDS OrderBook, SequencesExt, Functions

\* the ways to run through the nodes of S from first along next, each once
Chains(b, S, first) ==
  {c \in [1 .. Cardinality(S) -> S] :
     /\ IsInjective(c)
     /\ first = IF S = {} THEN NIL ELSE c[1]
     /\ \A i \in DOMAIN c : b.pool[c[i]].next = IF i = Len(c) THEN NIL ELSE c[i + 1]}

LevelChains(b, s, p) == Chains(b, At(b, s, p), b.levels[s][p].head)

OrderAt(b, n) == [id |-> b.pool[n].id, agent |-> b.pool[n].agent, side |-> b.pool[n].side,
                  px |-> b.pool[n].px, remaining |-> b.pool[n].remaining]

ListOf(b, c) == [i \in DOMAIN c |-> OrderAt(b, c[i])]

QueueAt(b, s, p) == ListOf(b, CHOOSE c \in LevelChains(b, s, p) : TRUE)

Queues(b) == [s \in Side |-> [p \in Prices |-> QueueAt(b, s, p)]]

(* Every level's list holds each of its orders once, its quantity is their *)
(* sum, and the free list holds every other node of the pool once: no node *)
(* is leaked or reachable twice (order_book.cpp: alloc, release, unlink).  *)
NoLeaks ==
  /\ \A s \in Side, p \in Prices :
       /\ LevelChains(book, s, p) # {}
       /\ book.levels[s][p].qty =
            SumFunction([n \in At(book, s, p) |-> book.pool[n].remaining])
  /\ Chains(book, NodeNumbers \ Live(book), book.free) # {}

(* The history variable entry remembers the queues a call of add started   *)
(* from, until it returns.                                                 *)
VARIABLE entry

NoEntry == [s \in Side |-> [p \in Prices |-> <<>>]]

HInit == Init /\ entry = NoEntry

HNext ==
  /\ Next
  /\ entry' = CASE phase' = "idle"                   -> NoEntry
                [] phase' # "idle" /\ phase = "idle" -> Queues(book)
                [] OTHER                             -> entry

HSpec == HInit /\ [][HNext]_<<vars, entry>>

Limit == INSTANCE LimitBook
  WITH queue <- IF phase = "idle" THEN Queues(book) ELSE entry

(* Every call of add and cancel does to the book, and reports, exactly     *)
(* what price-time priority with cancel-resting self-trade prevention      *)
(* prescribes.                                                             *)
ImplementsLimitBook == Limit!Spec
=============================================================================
