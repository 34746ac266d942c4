-------------------------- MODULE OrderBook_proofs --------------------------
(***************************************************************************)
(* Proofs about OrderBook, for every number of agents, prices, ids, nodes  *)
(* and quantities.                                                         *)
(*                                                                         *)
(* First, that the lists, the index, the counts, the cached best prices    *)
(* and the free list agree with each other after every step, and no node   *)
(* of the pool is ever lost or in two places.  Listed and Shape say this   *)
(* of a book between two changes of it.  That a list holds every order of  *)
(* its level once is a chain, a numbering of the orders along next.        *)
(* Unlink, a fill and Rest are first shown to do what a plain description  *)
(* says (Unlinked, Reduced, Rested), where Rest and the search for the     *)
(* next best price are spelled out, and then to keep each part of Shape.   *)
(* BookInv adds what the call in progress knows.  Quantities is about the  *)
(* sums over the orders of a level.                                        *)
(*                                                                         *)
(* Then, that OrderBook implements LimitBook: add and cancel, which walk   *)
(* lists node by node, do what Matching says in one formula.  The chain of *)
(* a level is unique (ChainUnique), so Queues is what the lists hold, and  *)
(* to unlink a node, fill it or rest an order is to leave an order out of  *)
(* a queue, to trim it or to append one (DropQueues, TrimQueues,           *)
(* RestQueues).                                                            *)
(*                                                                         *)
(* About the walk of add: AtBest, the cursor stands at the best opposite   *)
(* price, so its order is the first that is faced.  InProgress, what the   *)
(* call has reported, followed by a match of what it still wants with what *)
(* the book still holds, is the match of the whole order with the queues   *)
(* it started from.  An iteration moves one order from the second to the   *)
(* first, and the abstract book stands still; the return is the step of    *)
(* the abstract book.                                                      *)
(***************************************************************************)
EXTENDS OrderBookRefinement, Matching_proofs

----------------------------------------------------------------------------
(* Lists.  A chain names every node of a set once, along next.             *)

\* c names the k nodes of S once, along next, from first on
IsChain(b, S, first, c, k) ==
  /\ k \in Nat /\ Cardinality(S) = k
  /\ (S = {} => k = 0) /\ (S # {} => k > 0)
  /\ c \in [1 .. k -> S]
  /\ \A i, j \in 1 .. k : c[i] = c[j] => i = j
  /\ first = IF S = {} THEN NIL ELSE c[1]
  /\ \A i \in 1 .. k : b.pool[c[i]].next = IF i = k THEN NIL ELSE c[i + 1]

LEMMA ChainElim ==
  ASSUME NEW b, NEW S, IsFiniteSet(S), NEW first, NEW c \in Chains(b, S, first)
  PROVE  /\ IsChain(b, S, first, c, Cardinality(S))
         /\ \A n \in S : \E i \in 1 .. Cardinality(S) : c[i] = n
<1> DEFINE k == Cardinality(S)
<1>1. k \in Nat /\ (S = {} => k = 0) /\ (S # {} => k > 0)
  BY CardinalityNat
<1>2. c \in [1 .. k -> S] /\ IsInjective(c)
  BY DEF Chains
<1>3. c \in Injection(1 .. k, S)
  BY <1>2 DEF Injection
<1>4. Cardinality(1 .. k) = k
  BY <1>1, FS_Interval
<1>5. c \in Surjection(1 .. k, S)
  BY <1>3, <1>4, FS_Injection
<1>6. Len(c) = k /\ DOMAIN c = 1 .. k
  BY <1>1, <1>2
<1>7. /\ first = IF S = {} THEN NIL ELSE c[1]
      /\ \A i \in 1 .. k : b.pool[c[i]].next = IF i = k THEN NIL ELSE c[i + 1]
  BY <1>6 DEF Chains
<1>8. IsChain(b, S, first, c, k)
  BY <1>1, <1>2, <1>7 DEF IsChain, IsInjective
<1> QED BY <1>5, <1>8 DEF Surjection

LEMMA ChainIntro ==
  ASSUME NEW b, NEW S, NEW first, NEW c, NEW k, IsChain(b, S, first, c, k)
  PROVE  c \in Chains(b, S, first)
<1>1. Len(c) = k /\ DOMAIN c = 1 .. k
  BY DEF IsChain
<1>2. IsInjective(c)
  BY <1>1 DEF IsChain, IsInjective
<1> QED BY <1>1, <1>2 DEF Chains, IsChain

\* A node taken out, with the node before it pointing past it.
Bypassed(b, S, first, c, k, u, new) ==
  /\ k \in 1 .. Cardinality(S)
  /\ \A m \in S \ {c[k]} :
       u.pool[m].next = IF k > 1 /\ m = c[k - 1] THEN b.pool[c[k]].next ELSE b.pool[m].next
  /\ new = IF k = 1 THEN b.pool[c[k]].next ELSE first

\* the first N elements of c without the one at k
Skipping(c, N, k) == [i \in 1 .. N - 1 |-> IF i < k THEN c[i] ELSE c[i + 1]]

LEMMA ChainRemove ==
  ASSUME NEW b, NEW S, IsFiniteSet(S), NEW first, NEW c \in Chains(b, S, first),
         NEW k, NEW u, NEW new, Bypassed(b, S, first, c, k, u, new)
  PROVE  Skipping(c, Cardinality(S), k) \in Chains(u, S \ {c[k]}, new)
<1> DEFINE N == Cardinality(S)
           d == Skipping(c, N, k)
           T == S \ {c[k]}
<1>0. IsChain(b, S, first, c, N) /\ k \in 1 .. N
  BY ChainElim DEF Bypassed
<1>a. /\ \A m \in T :
           u.pool[m].next = IF k > 1 /\ m = c[k - 1] THEN b.pool[c[k]].next ELSE b.pool[m].next
      /\ new = IF k = 1 THEN b.pool[c[k]].next ELSE first
  BY DEF Bypassed
<1> HIDE DEF N
<1>1. /\ N \in Nat /\ c \in [1 .. N -> S] /\ k \in 1 .. N
      /\ \A i, j \in 1 .. N : c[i] = c[j] => i = j
      /\ first = IF S = {} THEN NIL ELSE c[1]
      /\ \A i \in 1 .. N : b.pool[c[i]].next = IF i = N THEN NIL ELSE c[i + 1]
  BY <1>0 DEF IsChain
<1>2. c[k] \in S /\ S # {}
  BY <1>1
<1>3. /\ Cardinality(T) = N - 1 /\ N - 1 \in Nat
      /\ T = {} => N - 1 = 0
      /\ T # {} => N - 1 > 0
  <2>1. IsFiniteSet(T) /\ Cardinality(T) = N - 1
    BY <1>2, FS_RemoveElement DEF N
  <2>2. IsFiniteSet(T)
    BY <2>1
  <2> QED BY <2>1, <2>2, CardinalityNat DEF N
<1>4. \A i \in 1 .. N - 1 :
        /\ d[i] = IF i < k THEN c[i] ELSE c[i + 1]
        /\ d[i] \in T
  BY <1>1 DEF Skipping
<1>5. d \in [1 .. N - 1 -> T]
  BY <1>4 DEF Skipping
<1> HIDE DEF d
<1>6. \A i, j \in 1 .. N - 1 : d[i] = d[j] => i = j
  BY <1>1, <1>4
<1>7. new = IF T = {} THEN NIL ELSE d[1]
  <2>1. CASE k = 1
    BY <1>a, <1>1, <1>3, <1>4, <2>1
  <2>2. CASE k > 1
    BY <1>a, <1>1, <1>2, <1>3, <1>4, <2>2
  <2> QED BY <1>1, <2>1, <2>2
<1>8. ASSUME NEW i \in 1 .. N - 1
      PROVE  u.pool[d[i]].next = IF i = N - 1 THEN NIL ELSE d[i + 1]
  <2>1. d[i] \in T
    BY <1>4
  <2>2. u.pool[d[i]].next = IF k > 1 /\ d[i] = c[k - 1] THEN b.pool[c[k]].next
                                                       ELSE b.pool[d[i]].next
    BY <1>a, <2>1
  <2>3. CASE i < k - 1
    <3>1. d[i] = c[i] /\ d[i + 1] = c[i + 1] /\ c[i] # c[k - 1] /\ i # N - 1
      BY <1>1, <1>4, <2>3
    <3> QED BY <1>1, <2>2, <2>3, <3>1
  <2>4. CASE i = k - 1
    <3>1. d[i] = c[k - 1] /\ k > 1
      BY <1>1, <1>4, <2>4
    <3>2. i # N - 1 => d[i + 1] = c[k + 1]
      BY <1>1, <1>4, <2>4
    <3> QED BY <1>1, <2>2, <2>4, <3>1, <3>2
  <2>5. CASE i >= k
    <3>1. d[i] = c[i + 1] /\ i + 1 \in 1 .. N
      BY <1>1, <1>4, <2>5
    <3>2. k > 1 => c[k - 1] # c[i + 1]
      BY <1>1, <2>5, <3>1
    <3>3. i # N - 1 => d[i + 1] = c[i + 2]
      BY <1>1, <1>4, <2>5
    <3> QED BY <1>1, <2>2, <3>1, <3>2, <3>3
  <2> QED BY <1>1, <2>3, <2>4, <2>5
<1>9. IsChain(u, T, new, d, N - 1)
  BY <1>3, <1>5, <1>6, <1>7, <1>8 DEF IsChain
<1> QED BY <1>9, ChainIntro DEF d, N

\* A node added after the last one.
Appended(b, S, first, n, u, new) ==
  /\ n \notin S
  /\ \A m \in S : u.pool[m].next = IF b.pool[m].next = NIL THEN n ELSE b.pool[m].next
  /\ u.pool[n].next = NIL
  /\ new = IF S = {} THEN n ELSE first

\* the first N elements of c, then n
Extending(c, N, n) == [i \in 1 .. N + 1 |-> IF i <= N THEN c[i] ELSE n]

LEMMA ChainAppend ==
  ASSUME NEW b, NEW S, IsFiniteSet(S), NIL \notin S, NEW first, NEW c \in Chains(b, S, first),
         NEW n, NEW u, NEW new, Appended(b, S, first, n, u, new)
  PROVE  Extending(c, Cardinality(S), n) \in Chains(u, S \cup {n}, new)
<1> DEFINE N == Cardinality(S)
           d == Extending(c, N, n)
           T == S \cup {n}
<1>0. IsChain(b, S, first, c, N)
  BY ChainElim
<1>a. /\ n \notin S
      /\ \A m \in S : u.pool[m].next = IF b.pool[m].next = NIL THEN n ELSE b.pool[m].next
      /\ u.pool[n].next = NIL
      /\ new = IF S = {} THEN n ELSE first
  BY DEF Appended
<1>2. Cardinality(T) = N + 1 /\ T # {}
  BY <1>a, FS_AddElement
<1> HIDE DEF N
<1>1. /\ N \in Nat /\ c \in [1 .. N -> S]
      /\ (S = {} => N = 0) /\ (S # {} => N > 0)
      /\ \A i, j \in 1 .. N : c[i] = c[j] => i = j
      /\ first = IF S = {} THEN NIL ELSE c[1]
      /\ \A i \in 1 .. N : b.pool[c[i]].next = IF i = N THEN NIL ELSE c[i + 1]
  BY <1>0 DEF IsChain
<1>3. \A i \in 1 .. N + 1 : d[i] = (IF i <= N THEN c[i] ELSE n) /\ d[i] \in T
  BY <1>1 DEF Extending
<1>4. d \in [1 .. N + 1 -> T]
  BY <1>3 DEF Extending
<1> HIDE DEF d
<1>5. \A i, j \in 1 .. N + 1 : d[i] = d[j] => i = j
  BY <1>a, <1>1, <1>3
<1>6. new = d[1]
  BY <1>a, <1>1, <1>3
<1>7. ASSUME NEW i \in 1 .. N + 1
      PROVE  u.pool[d[i]].next = IF i = N + 1 THEN NIL ELSE d[i + 1]
  <2>1. CASE i = N + 1
    BY <1>a, <1>1, <1>3, <2>1
  <2>2. CASE i = N
    <3>1. d[i] = c[N] /\ d[i + 1] = n /\ c[N] \in S /\ b.pool[c[N]].next = NIL
      BY <1>a, <1>1, <1>3, <2>2
    <3> QED BY <1>a, <1>1, <2>2, <3>1
  <2>3. CASE i < N
    <3>1. d[i] = c[i] /\ d[i + 1] = c[i + 1] /\ c[i] \in S /\ c[i + 1] \in S
      BY <1>a, <1>1, <1>3, <2>3
    <3>2. b.pool[c[i]].next = c[i + 1] /\ c[i + 1] # NIL
      BY <1>a, <1>1, <2>3, <3>1
    <3> QED BY <1>a, <1>1, <2>3, <3>1, <3>2
  <2> QED BY <1>a, <1>1, <2>1, <2>2, <2>3
<1>8. IsChain(u, T, new, d, N + 1)
  BY <1>1, <1>2, <1>4, <1>5, <1>6, <1>7 DEF IsChain
<1> QED BY <1>8, ChainIntro DEF d, N

\* A node added before the first one.
Prepended(b, S, first, n, u) ==
  /\ n \notin S
  /\ \A m \in S : u.pool[m].next = b.pool[m].next
  /\ u.pool[n].next = first

LEMMA ChainPrepend ==
  ASSUME NEW b, NEW S, IsFiniteSet(S), NEW first, NEW c \in Chains(b, S, first),
         NEW n, NEW u, Prepended(b, S, first, n, u)
  PROVE  Chains(u, S \cup {n}, n) # {}
<1> DEFINE N == Cardinality(S)
           d == [i \in 1 .. N + 1 |-> IF i = 1 THEN n ELSE c[i - 1]]
           T == S \cup {n}
<1>0. IsChain(b, S, first, c, N)
  BY ChainElim
<1>a. /\ n \notin S
      /\ \A m \in S : u.pool[m].next = b.pool[m].next
      /\ u.pool[n].next = first
  BY DEF Prepended
<1>2. Cardinality(T) = N + 1 /\ T # {}
  BY <1>a, FS_AddElement
<1> HIDE DEF N
<1>1. /\ N \in Nat /\ c \in [1 .. N -> S]
      /\ (S = {} => N = 0) /\ (S # {} => N > 0)
      /\ \A i, j \in 1 .. N : c[i] = c[j] => i = j
      /\ first = IF S = {} THEN NIL ELSE c[1]
      /\ \A i \in 1 .. N : b.pool[c[i]].next = IF i = N THEN NIL ELSE c[i + 1]
  BY <1>0 DEF IsChain
<1>3. \A i \in 1 .. N + 1 : d[i] = (IF i = 1 THEN n ELSE c[i - 1]) /\ d[i] \in T
  BY <1>1
<1>4. d \in [1 .. N + 1 -> T]
  BY <1>3
<1> HIDE DEF d
<1>5. \A i, j \in 1 .. N + 1 : d[i] = d[j] => i = j
  BY <1>a, <1>1, <1>3
<1>6. n = d[1]
  BY <1>a, <1>1, <1>3
<1>7. ASSUME NEW i \in 1 .. N + 1
      PROVE  u.pool[d[i]].next = IF i = N + 1 THEN NIL ELSE d[i + 1]
  <2>1. CASE i = 1
    <3>1. d[i] = n /\ (N > 0 => d[i + 1] = c[1])
      BY <1>a, <1>1, <1>3, <2>1
    <3> QED BY <1>a, <1>1, <2>1, <3>1
  <2>2. CASE i > 1
    <3>1. d[i] = c[i - 1] /\ c[i - 1] \in S /\ (i # N + 1 => d[i + 1] = c[i])
      BY <1>a, <1>1, <1>3, <2>2
    <3> QED BY <1>a, <1>1, <2>2, <3>1
  <2> QED BY <1>a, <1>1, <2>1, <2>2
<1>8. IsChain(u, T, n, d, N + 1)
  BY <1>1, <1>2, <1>4, <1>5, <1>6, <1>7 DEF IsChain
<1> QED BY <1>8, ChainIntro

\* A list whose nodes keep their next is still one.
LEMMA ChainSame ==
  ASSUME NEW b, NEW S, IsFiniteSet(S), NEW first, NEW c \in Chains(b, S, first), NEW u,
         \A m \in S : u.pool[m].next = b.pool[m].next
  PROVE  c \in Chains(u, S, first)
<1>2. IsChain(b, S, first, c, Cardinality(S))
  BY ChainElim
<1>3. IsChain(u, S, first, c, Cardinality(S))
  BY <1>2 DEF IsChain
<1> QED BY <1>3, ChainIntro
----------------------------------------------------------------------------
(* What holds of the book between any two steps.                           *)

Nodes(b) == 1 .. Len(b.pool)

BookType(b) ==
  /\ b = [levels |-> b.levels, best |-> b.best, pool |-> b.pool, free |-> b.free,
          index |-> b.index]
  /\ b.levels \in [Side -> [Prices -> LevelType]]
  /\ b.best \in [Side -> Prices \cup {NoPrice}]
  /\ b.pool \in Seq(NodeType)
  /\ b.free \in Nodes(b) \cup {NIL}
  /\ DOMAIN b.index \subseteq Ids
  /\ \A i \in DOMAIN b.index : b.index[i] \in Nodes(b)

\* the part of IndexOK that a fill keeps while the maker has nothing left
Named(b) ==
  \A i \in DOMAIN b.index :
    LET node == b.pool[b.index[i]]
    IN node.id = i /\ node.agent \in Agents /\ node.px \in Prices

Positive(b) == \A n \in Live(b) : b.pool[n].remaining > 0

FreeNodes(b) == Nodes(b) \ Live(b)

\* lists and free list hold what they should, each node once
Listed(b) ==
  /\ \A s \in Side, p \in Prices : LevelChains(b, s, p) # {}
  /\ Chains(b, FreeNodes(b), b.free) # {}

Shape(b) == /\ BookType(b) /\ Named(b)
            /\ LinksOK(b) /\ EndsOK(b) /\ CountsOK(b) /\ BestOK(b) /\ BestHeld(b)
            /\ Listed(b)

LEMMA LiveNode ==
  ASSUME NEW b, BookType(b), Named(b), NEW n \in Live(b)
  PROVE  /\ n \in Nodes(b) /\ n \in Nat /\ n # NIL
         /\ b.pool[n] \in NodeType
         /\ b.pool[n].id \in DOMAIN b.index /\ b.index[b.pool[n].id] = n
         /\ b.pool[n].agent \in Agents /\ b.pool[n].px \in Prices /\ b.pool[n].side \in Side
         /\ n \in At(b, b.pool[n].side, b.pool[n].px)
<1>1. PICK i \in DOMAIN b.index : b.index[i] = n
  BY DEF Live
<1>2. n \in Nodes(b) /\ b.pool[n].id = i /\ b.pool[n].agent \in Agents /\ b.pool[n].px \in Prices
  BY <1>1 DEF BookType, Named
<1>3. b.pool[n] \in NodeType
  BY <1>2 DEF BookType, Nodes
<1>4. n \in Nat /\ n # NIL
  BY <1>2 DEF Nodes, NIL, BookType
<1> QED BY <1>1, <1>2, <1>3, <1>4 DEF NodeType, At

LEMMA FiniteNodes ==
  ASSUME NEW b, BookType(b), Named(b)
  PROVE  /\ IsFiniteSet(Nodes(b)) /\ IsFiniteSet(FreeNodes(b)) /\ IsFiniteSet(Live(b))
         /\ \A s, p : IsFiniteSet(At(b, s, p))
<1>1. Len(b.pool) \in Nat
  BY DEF BookType
<1>2. IsFiniteSet(Nodes(b))
  BY <1>1, FS_Interval DEF Nodes
<1>3. Live(b) \subseteq Nodes(b)
  BY LiveNode
<1>4. IsFiniteSet(FreeNodes(b)) /\ IsFiniteSet(Live(b))
  BY <1>2, <1>3, FS_Subset DEF FreeNodes
<1>5. ASSUME NEW s, NEW p PROVE IsFiniteSet(At(b, s, p))
  BY <1>4, FS_Subset DEF At
<1> QED BY <1>2, <1>4, <1>5

----------------------------------------------------------------------------
(* unlink.                                                                 *)

\* u is the book unlink(n) leaves, container by container; best apart
UnlinkedPool(b, n, u) ==
  LET node == b.pool[n]
  IN \A m \in Nodes(b) \ {n} :
       /\ u.pool[m] \in NodeType
       /\ u.pool[m].id = b.pool[m].id /\ u.pool[m].agent = b.pool[m].agent
       /\ u.pool[m].px = b.pool[m].px /\ u.pool[m].side = b.pool[m].side
       /\ u.pool[m].remaining = b.pool[m].remaining
       /\ u.pool[m].next = IF m = node.prev THEN node.next ELSE b.pool[m].next
       /\ u.pool[m].prev = IF m = node.next THEN node.prev ELSE b.pool[m].prev

UnlinkedLevels(b, n, u) ==
  LET node == b.pool[n]
      old  == b.levels[node.side][node.px]
      new  == u.levels[node.side][node.px]
  IN /\ new = UnlinkLinks(b, n)
     /\ new.head = IF node.prev # NIL THEN old.head ELSE node.next
     /\ new.tail = IF node.next # NIL THEN old.tail ELSE node.prev
     /\ new.count = old.count - 1
     /\ \A s \in Side, p \in Prices :
          ~(s = node.side /\ p = node.px) => u.levels[s][p] = b.levels[s][p]

Unlinked(b, n, u) ==
  /\ Len(u.pool) = Len(b.pool)
  /\ u.pool[n] = Released(b.free)
  /\ UnlinkedPool(b, n, u)
  /\ u.free = n
  /\ DOMAIN u.index = DOMAIN b.index \ {b.pool[n].id}
  /\ \A i \in DOMAIN u.index : u.index[i] = b.index[i]
  /\ UnlinkedLevels(b, n, u)

LEMMA UnlinkIsUnlinked ==
  ASSUME NEW b, BookType(b), Named(b), NEW n \in Live(b)
  PROVE  Unlinked(b, n, Unlink(b, n))
<1> DEFINE node == b.pool[n]
           u == Unlink(b, n)
<1>1. /\ n \in Nodes(b) /\ n \in Nat /\ n # NIL /\ node \in NodeType
      /\ node.px \in Prices /\ node.side \in Side
  BY LiveNode
<1>2. u.pool = UnlinkPool(b, n) /\ u.free = n
      /\ u.index = [i \in DOMAIN b.index \ {node.id} |-> b.index[i]]
      /\ u.levels = [b.levels EXCEPT ![node.side][node.px] = UnlinkLinks(b, n)]
  BY DEF Unlink
<1> HIDE DEF u
<1>3. Len(u.pool) = Len(b.pool)
  <2>1. Len(b.pool) \in Nat
    BY DEF BookType
  <2>2. DOMAIN u.pool = 1 .. Len(b.pool)
    BY <1>2 DEF UnlinkPool
  <2>3. u.pool = [m \in 1 .. Len(b.pool) |-> u.pool[m]]
    BY <1>2 DEF UnlinkPool
  <2> QED BY <2>1, <2>3
<1>4. u.pool[n] = Released(b.free)
  BY <1>1, <1>2 DEF UnlinkPool, Nodes
<1>5. ASSUME NEW m \in Nodes(b) \ {n}
      PROVE  /\ u.pool[m] \in NodeType
             /\ u.pool[m].id = b.pool[m].id /\ u.pool[m].agent = b.pool[m].agent
             /\ u.pool[m].px = b.pool[m].px /\ u.pool[m].side = b.pool[m].side
             /\ u.pool[m].remaining = b.pool[m].remaining
             /\ u.pool[m].next = IF m = node.prev THEN node.next ELSE b.pool[m].next
             /\ u.pool[m].prev = IF m = node.next THEN node.prev ELSE b.pool[m].prev
  <2>1. b.pool[m] \in NodeType
    BY DEF BookType, Nodes
  <2>2. u.pool[m] = [b.pool[m] EXCEPT !.next = IF m = node.prev THEN node.next ELSE @,
                                      !.prev = IF m = node.next THEN node.prev ELSE @]
    BY <1>2 DEF UnlinkPool, Nodes
  <2> QED BY <1>1, <2>1, <2>2 DEF NodeType
<1>6. ASSUME NEW s \in Side, NEW p \in Prices
      PROVE  u.levels[s][p] = IF s = node.side /\ p = node.px THEN UnlinkLinks(b, n)
                                                               ELSE b.levels[s][p]
  BY <1>1, <1>2 DEF BookType
<1>a. UnlinkedLevels(b, n, u)
  <2> DEFINE old == b.levels[node.side][node.px]
             new == u.levels[node.side][node.px]
  <2>1. new = UnlinkLinks(b, n)
    BY <1>1, <1>6
  <2>2. /\ new.head = IF node.prev # NIL THEN old.head ELSE node.next
        /\ new.tail = IF node.next # NIL THEN old.tail ELSE node.prev
        /\ new.count = old.count - 1
    <3> HIDE DEF new
    <3> QED BY <2>1 DEF UnlinkLinks
  <2> QED BY <1>6, <2>1, <2>2 DEF UnlinkedLevels
<1>7. /\ DOMAIN u.index = DOMAIN b.index \ {node.id}
      /\ \A i \in DOMAIN u.index : u.index[i] = b.index[i]
  BY <1>2
<1>8. Unlinked(b, n, u)
  BY <1>2, <1>3, <1>4, <1>5, <1>7, <1>a DEF Unlinked, UnlinkedPool
<1> QED BY <1>8 DEF u

LEMMA UnlinkLive ==
  ASSUME NEW b, BookType(b), Named(b), NEW n \in Live(b), NEW u, Unlinked(b, n, u)
  PROVE  /\ Live(u) = Live(b) \ {n}
         /\ Nodes(u) = Nodes(b)
         /\ FreeNodes(u) = FreeNodes(b) \cup {n}
         /\ \A s, p : At(u, s, p) = At(b, s, p) \ {n}
         /\ Named(u)
<1> DEFINE node == b.pool[n]
<1>1. /\ n \in Nodes(b) /\ node.id \in DOMAIN b.index /\ b.index[node.id] = n
  BY LiveNode
<1>2. /\ Len(u.pool) = Len(b.pool)
      /\ DOMAIN u.index = DOMAIN b.index \ {node.id}
      /\ \A i \in DOMAIN u.index : u.index[i] = b.index[i]
      /\ \A m \in Nodes(b) \ {n} :
              /\ u.pool[m].id = b.pool[m].id /\ u.pool[m].agent = b.pool[m].agent
              /\ u.pool[m].px = b.pool[m].px /\ u.pool[m].side = b.pool[m].side
  BY DEF Unlinked, UnlinkedPool
<1> HIDE DEF node
<1>3. \A i \in DOMAIN b.index : b.index[i] = n => i = node.id
  BY <1>1 DEF Named, node
<1>4. Live(u) = Live(b) \ {n}
  BY <1>1, <1>2, <1>3 DEF Live
<1>5. Nodes(u) = Nodes(b)
  BY <1>2 DEF Nodes
<1>6. Live(b) \subseteq Nodes(b)
  BY LiveNode
<1>7. \A s, p : At(u, s, p) = At(b, s, p) \ {n}
  BY <1>2, <1>4, <1>6 DEF At
<1>8. Named(u)
  <2> SUFFICES ASSUME NEW i \in DOMAIN u.index
               PROVE  /\ u.pool[u.index[i]].id = i
                      /\ u.pool[u.index[i]].agent \in Agents /\ u.pool[u.index[i]].px \in Prices
    BY DEF Named
  <2>1. i \in DOMAIN b.index /\ i # node.id /\ u.index[i] = b.index[i] /\ b.index[i] # n
    BY <1>2, <1>3
  <2>2. b.index[i] \in Nodes(b) \ {n}
    BY <2>1 DEF BookType
  <2> QED BY <1>2, <2>1, <2>2 DEF Named
<1> QED BY <1>1, <1>4, <1>5, <1>6, <1>7, <1>8 DEF FreeNodes

LEMMA UnlinkKeepsLinks ==
  ASSUME NEW b, BookType(b), Named(b), LinksOK(b), NEW n \in Live(b), NEW u, Unlinked(b, n, u)
  PROVE  LinksOK(u)
<1> DEFINE node == b.pool[n]
           Same(m) == b.pool[m].side = node.side /\ b.pool[m].px = node.px
           Level(m) == b.levels[b.pool[m].side][b.pool[m].px]
<1> SUFFICES ASSUME NEW m \in Live(u)
             PROVE  LET k == u.pool[m]
                        l == u.levels[k.side][k.px]
                    IN /\ IF k.next = NIL THEN l.tail = m
                          ELSE k.next \in At(u, k.side, k.px) /\ u.pool[k.next].prev = m
                       /\ IF k.prev = NIL THEN l.head = m
                          ELSE k.prev \in At(u, k.side, k.px) /\ u.pool[k.prev].next = m
  BY DEF LinksOK
<1>1. /\ m \in Live(b) /\ m # n /\ m \in Nodes(b) \ {n} /\ m # NIL /\ n # NIL
      /\ \A s, p : At(u, s, p) = At(b, s, p) \ {n}
      /\ b.pool[m].side \in Side /\ b.pool[m].px \in Prices
  BY UnlinkLive, LiveNode
<1>2. \A s, p : \A z \in At(b, s, p) \ {n} :
         /\ z \in Nodes(b) \ {n} /\ z # NIL /\ b.pool[z].side = s /\ b.pool[z].px = p
  BY LiveNode DEF At
<1>3. \A z \in Nodes(b) \ {n} :
        /\ u.pool[z].px = b.pool[z].px /\ u.pool[z].side = b.pool[z].side
        /\ u.pool[z].next = IF z = node.prev THEN node.next ELSE b.pool[z].next
        /\ u.pool[z].prev = IF z = node.next THEN node.prev ELSE b.pool[z].prev
  BY DEF Unlinked, UnlinkedPool
<1>4. /\ IF b.pool[m].next = NIL THEN Level(m).tail = m
         ELSE /\ b.pool[m].next \in At(b, b.pool[m].side, b.pool[m].px)
              /\ b.pool[b.pool[m].next].prev = m
      /\ IF b.pool[m].prev = NIL THEN Level(m).head = m
         ELSE /\ b.pool[m].prev \in At(b, b.pool[m].side, b.pool[m].px)
              /\ b.pool[b.pool[m].prev].next = m
  BY <1>1 DEF LinksOK
<1>5. /\ IF node.next = NIL THEN Level(n).tail = n
         ELSE node.next \in At(b, node.side, node.px) /\ b.pool[node.next].prev = n
      /\ IF node.prev = NIL THEN Level(n).head = n
         ELSE node.prev \in At(b, node.side, node.px) /\ b.pool[node.prev].next = n
  BY DEF LinksOK
<1> DEFINE new == u.levels[node.side][node.px]
<1>6. u.levels[b.pool[m].side][b.pool[m].px] = IF Same(m) THEN new ELSE Level(m)
  BY <1>1 DEF Unlinked, UnlinkedLevels
<1>7. /\ new.tail = IF node.next # NIL THEN Level(n).tail ELSE node.prev
      /\ new.head = IF node.prev # NIL THEN Level(n).head ELSE node.next
  BY DEF Unlinked, UnlinkedLevels
<1>8. Same(m) => Level(m) = Level(n)
  OBVIOUS
<1> HIDE DEF node, Level, new
<1>9. IF u.pool[m].next = NIL THEN u.levels[b.pool[m].side][b.pool[m].px].tail = m
      ELSE /\ u.pool[m].next \in At(b, b.pool[m].side, b.pool[m].px) \ {n}
           /\ u.pool[u.pool[m].next].prev = m
  <2>1. CASE m = node.prev
    <3>1. Same(m) /\ u.pool[m].next = node.next
      BY <1>1, <1>2, <1>3, <1>5, <2>1
    <3>2. node.next # n
      BY <1>1, <1>5, <2>1, <1>3 DEF node
    <3> QED BY <1>1, <1>2, <1>3, <1>5, <1>6, <1>7, <2>1, <3>1, <3>2
  <2>2. CASE m # node.prev
    <3>1. u.pool[m].next = b.pool[m].next
      BY <1>1, <1>3, <2>2
    <3>2. CASE b.pool[m].next = NIL
      BY <1>1, <1>4, <1>5, <1>6, <1>7, <1>8, <3>1, <3>2
    <3>3. CASE b.pool[m].next # NIL
      <4>1. b.pool[m].next # n
        BY <1>4, <2>2, <3>3 DEF node
      <4> QED BY <1>1, <1>2, <1>3, <1>4, <1>5, <3>1, <3>3, <4>1
    <3> QED BY <3>2, <3>3
  <2> QED BY <2>1, <2>2
<1>10. IF u.pool[m].prev = NIL THEN u.levels[b.pool[m].side][b.pool[m].px].head = m
       ELSE /\ u.pool[m].prev \in At(b, b.pool[m].side, b.pool[m].px) \ {n}
            /\ u.pool[u.pool[m].prev].next = m
  <2>1. CASE m = node.next
    <3>1. Same(m) /\ u.pool[m].prev = node.prev
      BY <1>1, <1>2, <1>3, <1>5, <2>1
    <3>2. node.prev # n
      BY <1>1, <1>5, <2>1, <1>3 DEF node
    <3> QED BY <1>1, <1>2, <1>3, <1>5, <1>6, <1>7, <2>1, <3>1, <3>2
  <2>2. CASE m # node.next
    <3>1. u.pool[m].prev = b.pool[m].prev
      BY <1>1, <1>3, <2>2
    <3>2. CASE b.pool[m].prev = NIL
      BY <1>1, <1>4, <1>5, <1>6, <1>7, <1>8, <3>1, <3>2
    <3>3. CASE b.pool[m].prev # NIL
      <4>1. b.pool[m].prev # n
        BY <1>4, <2>2, <3>3 DEF node
      <4> QED BY <1>1, <1>2, <1>3, <1>4, <1>5, <3>1, <3>3, <4>1
    <3> QED BY <3>2, <3>3
  <2> QED BY <2>1, <2>2
<1>11. u.pool[m].side = b.pool[m].side /\ u.pool[m].px = b.pool[m].px
  BY <1>1, <1>3
<1>12. At(u, b.pool[m].side, b.pool[m].px) = At(b, b.pool[m].side, b.pool[m].px) \ {n}
  BY <1>1
<1> QED BY <1>9, <1>10, <1>11, <1>12

LEMMA UnlinkKeepsEnds ==
  ASSUME NEW b, BookType(b), Named(b), LinksOK(b), EndsOK(b),
         NEW n \in Live(b), NEW u, Unlinked(b, n, u)
  PROVE  EndsOK(u)
<1> DEFINE node == b.pool[n]
<1> SUFFICES ASSUME NEW s \in Side, NEW p \in Prices
             PROVE  LET l == u.levels[s][p]
                    IN /\ l.head # NIL => l.head \in At(u, s, p) /\ u.pool[l.head].prev = NIL
                       /\ l.tail # NIL => l.tail \in At(u, s, p) /\ u.pool[l.tail].next = NIL
  BY DEF EndsOK
<1>1. At(u, s, p) = At(b, s, p) \ {n}
  BY UnlinkLive
<1>2. /\ \A z \in At(b, s, p) \ {n} :
           z \in Nodes(b) \ {n} /\ z # NIL /\ b.pool[z].side = s /\ b.pool[z].px = p
      /\ n # NIL
  BY LiveNode DEF At
<1>3. \A z \in Nodes(b) \ {n} :
        /\ u.pool[z].next = IF z = node.prev THEN node.next ELSE b.pool[z].next
        /\ u.pool[z].prev = IF z = node.next THEN node.prev ELSE b.pool[z].prev
  BY DEF Unlinked, UnlinkedPool
<1>4. /\ b.levels[s][p].head # NIL =>
           b.levels[s][p].head \in At(b, s, p) /\ b.pool[b.levels[s][p].head].prev = NIL
      /\ b.levels[s][p].tail # NIL =>
           b.levels[s][p].tail \in At(b, s, p) /\ b.pool[b.levels[s][p].tail].next = NIL
  BY DEF EndsOK
<1>5. /\ node.next # NIL =>
           /\ node.next \in At(b, node.side, node.px) /\ b.pool[node.next].prev = n
           /\ b.pool[node.next].side = node.side /\ b.pool[node.next].px = node.px
      /\ node.prev # NIL =>
           /\ node.prev \in At(b, node.side, node.px) /\ b.pool[node.prev].next = n
           /\ b.pool[node.prev].side = node.side /\ b.pool[node.prev].px = node.px
  BY DEF LinksOK, At
<1>6. CASE s = node.side /\ p = node.px
  <2>1. /\ u.levels[s][p].tail = IF node.next # NIL THEN b.levels[s][p].tail ELSE node.prev
        /\ u.levels[s][p].head = IF node.prev # NIL THEN b.levels[s][p].head ELSE node.next
    BY <1>6 DEF Unlinked, UnlinkedLevels
  <2>2. node.next # NIL /\ node.prev = NIL => node.next # n
    BY <1>2, <1>5
  <2>3. node.prev # NIL /\ node.next = NIL => node.prev # n
    BY <1>2, <1>5
  <2> HIDE DEF node
  <2>4. CASE node.prev # NIL
    <3>1. u.levels[s][p].head = b.levels[s][p].head
      BY <2>1, <2>4
    <3>2. b.levels[s][p].head # NIL => b.levels[s][p].head # n
      BY <1>4, <2>4 DEF node
    <3>3. b.levels[s][p].head # NIL => b.levels[s][p].head # node.next
      BY <1>2, <1>4, <1>5
    <3>4. u.levels[s][p].head # NIL =>
            u.levels[s][p].head \in At(u, s, p) /\ u.pool[u.levels[s][p].head].prev = NIL
      BY <1>1, <1>2, <1>3, <1>4, <3>1, <3>2, <3>3
    <3>5. CASE node.next = NIL
      BY <1>1, <1>2, <1>3, <1>5, <1>6, <2>1, <2>3, <2>4, <3>4, <3>5
    <3>6. CASE node.next # NIL
      <4>1. u.levels[s][p].tail = b.levels[s][p].tail
        BY <2>1, <3>6
      <4>2. b.levels[s][p].tail # NIL => b.levels[s][p].tail # n
        BY <1>4, <3>6 DEF node
      <4>3. b.levels[s][p].tail # NIL => b.levels[s][p].tail # node.prev
        BY <1>2, <1>4, <1>5
      <4> QED BY <1>1, <1>2, <1>3, <1>4, <4>1, <4>2, <4>3, <3>4
    <3> QED BY <3>5, <3>6
  <2>5. CASE node.prev = NIL
    <3>1. u.levels[s][p].head = node.next
      BY <2>1, <2>5
    <3>2. u.levels[s][p].head # NIL =>
            u.levels[s][p].head \in At(u, s, p) /\ u.pool[u.levels[s][p].head].prev = NIL
      BY <1>1, <1>2, <1>3, <1>5, <1>6, <2>2, <2>5, <3>1
    <3>3. CASE node.next = NIL
      BY <2>1, <2>5, <3>2, <3>3
    <3>4. CASE node.next # NIL
      <4>1. u.levels[s][p].tail = b.levels[s][p].tail
        BY <2>1, <3>4
      <4>2. b.levels[s][p].tail # NIL => b.levels[s][p].tail # n
        BY <1>4, <3>4 DEF node
      <4> QED BY <1>1, <1>2, <1>3, <1>4, <2>5, <4>1, <4>2, <3>2
    <3> QED BY <3>3, <3>4
  <2> QED BY <2>4, <2>5
<1>7. CASE ~(s = node.side /\ p = node.px)
  <2>1. u.levels[s][p] = b.levels[s][p]
    BY <1>7 DEF Unlinked, UnlinkedLevels
  <2>2. n \notin At(b, s, p)
    BY <1>7 DEF At
  <2>3. \A z \in At(b, s, p) : z # node.next /\ z # node.prev
    BY <1>2, <1>5, <1>7, <2>2
  <2> HIDE DEF node
  <2> QED BY <1>1, <1>2, <1>3, <1>4, <2>1, <2>2, <2>3
<1> QED BY <1>6, <1>7

LEMMA UnlinkKeepsCounts ==
  ASSUME NEW b, BookType(b), Named(b), CountsOK(b), NEW n \in Live(b),
         NEW u, Unlinked(b, n, u)
  PROVE  CountsOK(u) /\ b.levels[b.pool[n].side][b.pool[n].px].count >= 1
<1> DEFINE node == b.pool[n]
<1>1. node.side \in Side /\ node.px \in Prices /\ n \in At(b, node.side, node.px)
  BY LiveNode
<1>2. \A s, p : IsFiniteSet(At(b, s, p)) /\ At(u, s, p) = At(b, s, p) \ {n}
  BY UnlinkLive, FiniteNodes
<1>3. ASSUME NEW s \in Side, NEW p \in Prices
      PROVE  u.levels[s][p].count = Cardinality(At(u, s, p))
  <2>1. CASE s = node.side /\ p = node.px
    <3>1. u.levels[s][p].count = Cardinality(At(b, s, p)) - 1
      <4>2. u.levels[s][p].count = b.levels[s][p].count - 1
        BY <2>1 DEF Unlinked, UnlinkedLevels
      <4> QED BY <4>2 DEF CountsOK
    <3> QED BY <1>1, <1>2, <2>1, <3>1, FS_RemoveElement
  <2>2. CASE ~(s = node.side /\ p = node.px)
    <3>1. At(u, s, p) = At(b, s, p)
      BY <1>2, <2>2 DEF At
    <3> QED BY <2>2, <3>1 DEF Unlinked, UnlinkedLevels, CountsOK
  <2> QED BY <2>1, <2>2
<1>4. Cardinality(At(b, node.side, node.px)) >= 1
  <2>1. At(b, node.side, node.px) # {} /\ IsFiniteSet(At(b, node.side, node.px))
    BY <1>1, <1>2
  <2> QED BY <2>1, CardinalityNat
<1> QED BY <1>1, <1>3, <1>4 DEF CountsOK

\* a set of prices has a best one on either side
LEMMA BestExists ==
  ASSUME NEW P \in SUBSET Prices, P # {}, NEW s \in Side
  PROVE  \E p \in P : \A r \in P : ~Better(s, r, p)
<1>1. CASE s = Sell
  <2>1. P \in SUBSET Nat
    BY PricesNat
  <2>2. PICK p \in P : \A r \in P : p <= r
    BY <2>1, Least
  <2>3. \A r \in P : ~(r < p)
    BY <2>1, <2>2
  <2> QED BY <1>1, <2>3 DEF Better, Sell, Buy
<1>2. CASE s = Buy
  <2> DEFINE T == {MaxPx - p : p \in P}
  <2>1. P \subseteq Nat /\ \A p \in P : MaxPx - p \in Nat /\ p < MaxPx
    BY PricesNat, BandAssumption
  <2>2. T \in SUBSET Nat /\ T # {}
    BY <2>1
  <2>3. PICK x \in T : \A y \in T : x <= y
    BY <2>2, Least
  <2>4. PICK p \in P : x = MaxPx - p
    OBVIOUS
  <2>5. ASSUME NEW r \in P PROVE ~(r > p)
    <3>1. MaxPx - p <= MaxPx - r
      BY <2>3, <2>4
    <3> QED BY <2>1, <3>1, BandAssumption
  <2> QED BY <1>2, <2>5 DEF Better
<1> QED BY <1>1, <1>2 DEF Side

Beyond(levels, s, px) == {p \in Prices : Better(s, px, p) /\ levels[s][p].count # 0}

IsNextBest(levels, s, px, next) ==
  \/ next \in Beyond(levels, s, px) /\ \A r \in Beyond(levels, s, px) : ~Better(s, r, next)
  \/ next = NoPrice /\ Beyond(levels, s, px) = {}

LEMMA NextBestIs ==
  ASSUME NEW levels, NEW s \in Side, NEW px
  PROVE  IsNextBest(levels, s, px, NextBest(levels, s, px))
<1> DEFINE beyond == Beyond(levels, s, px)
           next == NextBest(levels, s, px)
<1>1. next = IF beyond = {} THEN NoPrice
             ELSE CHOOSE p \in beyond : \A r \in beyond : ~Better(s, r, p)
  BY DEF NextBest, Beyond
<1>2. beyond \in SUBSET Prices
  BY DEF Beyond
<1> HIDE DEF next
<1>3. beyond # {} => \E p \in beyond : \A r \in beyond : ~Better(s, r, p)
  BY <1>2, BestExists
<1>4. CASE beyond = {}
  BY <1>1, <1>4 DEF IsNextBest, next
<1>5. CASE beyond # {}
  <2>1. next \in beyond /\ \A r \in beyond : ~Better(s, r, next)
    BY <1>1, <1>3, <1>5
  <2> QED BY <2>1 DEF IsNextBest, next
<1> QED BY <1>4, <1>5

\* what unlink does to the best prices
UnlinkedBest(b, n, u) ==
  LET node == b.pool[n]
  IN u.best = IF u.levels[node.side][node.px].count = 0 /\ node.px = b.best[node.side]
              THEN [b.best EXCEPT ![node.side] = NextBest(u.levels, node.side, node.px)]
              ELSE b.best

LEMMA UnlinkKeepsBest ==
  ASSUME NEW b, BookType(b), Named(b), CountsOK(b), BestOK(b), BestHeld(b),
         NEW n \in Live(b), NEW u, Unlinked(b, n, u), UnlinkedBest(b, n, u)
  PROVE  u.best \in [Side -> Prices \cup {NoPrice}] /\ BestOK(u) /\ BestHeld(u)
<1> DEFINE side == b.pool[n].side
           px == b.pool[n].px
           beyond == Beyond(u.levels, side, px)
           next == NextBest(u.levels, side, px)
<1>1. side \in Side /\ px \in Prices /\ b.best \in [Side -> Prices \cup {NoPrice}]
  BY LiveNode DEF BookType
<1>2. \A s \in Side, p \in Prices :
        ~(s = side /\ p = px) => u.levels[s][p] = b.levels[s][p]
  BY DEF Unlinked, UnlinkedLevels
<1>3. b.levels[side][px].count # 0
  BY UnlinkKeepsCounts
<1>4. u.best = IF u.levels[side][px].count = 0 /\ px = b.best[side]
               THEN [b.best EXCEPT ![side] = next] ELSE b.best
  BY DEF UnlinkedBest
<1>5. \/ next \in beyond /\ \A r \in beyond : ~Better(side, r, next)
      \/ next = NoPrice /\ beyond = {}
  BY <1>1, NextBestIs DEF IsNextBest
<1>6. \A s \in Side, p \in Prices :
        b.levels[s][p].count # 0 => b.best[s] # NoPrice /\ ~Better(s, p, b.best[s])
  BY DEF BestOK
<1>7. \A s \in Side : b.best[s] # NoPrice => b.levels[s][b.best[s]].count # 0
  BY DEF BestHeld
<1> HIDE DEF side, px, next
<1>8. CASE u.levels[side][px].count = 0 /\ px = b.best[side]
  <2>1. u.best = [b.best EXCEPT ![side] = next]
    BY <1>4, <1>8
  <2>2. \A p \in Prices : u.levels[side][p].count # 0 => p \in beyond
    <3> SUFFICES ASSUME NEW p \in Prices, u.levels[side][p].count # 0
                 PROVE  Better(side, px, p)
      BY DEF Beyond
    <3>1. p # px /\ ~Better(side, p, px)
      BY <1>1, <1>2, <1>6, <1>8
    <3> QED BY <1>1, <3>1, PricesNat DEF Better
  <2>3. next \in Prices \cup {NoPrice} /\ beyond \subseteq Prices
    BY <1>5 DEF Beyond
  <2>4. ASSUME NEW s \in Side, NEW p \in Prices, u.levels[s][p].count # 0
        PROVE  u.best[s] # NoPrice /\ ~Better(s, p, u.best[s])
    <3>1. CASE s = side
      BY <1>1, <1>5, <2>1, <2>2, <2>3, <2>4, <3>1, PricesNat
    <3>2. CASE s # side
      BY <1>1, <1>2, <1>6, <2>1, <2>4, <3>2
    <3> QED BY <3>1, <3>2
  <2>5. ASSUME NEW s \in Side, u.best[s] # NoPrice
        PROVE  u.levels[s][u.best[s]].count # 0
    <3>1. CASE s = side
      <4>1. u.best[s] = next
        BY <1>1, <2>1, <3>1
      <4>2. next \in beyond
        BY <1>5, <2>5, <4>1
      <4> QED BY <3>1, <4>1, <4>2 DEF Beyond
    <3>2. CASE s # side
      BY <1>1, <1>2, <1>7, <2>1, <2>5, <3>2
    <3> QED BY <3>1, <3>2
  <2>6. u.best \in [Side -> Prices \cup {NoPrice}]
    BY <1>1, <2>1, <2>3
  <2> QED BY <2>4, <2>5, <2>6 DEF BestOK, BestHeld
<1>9. CASE ~(u.levels[side][px].count = 0 /\ px = b.best[side])
  <2>1. u.best = b.best
    BY <1>4, <1>9
  <2>2. ASSUME NEW s \in Side, NEW p \in Prices, u.levels[s][p].count # 0
        PROVE  u.best[s] # NoPrice /\ ~Better(s, p, u.best[s])
    BY <1>2, <1>3, <1>6, <2>1, <2>2
  <2>3. ASSUME NEW s \in Side, u.best[s] # NoPrice
        PROVE  u.levels[s][u.best[s]].count # 0
    <3>1. u.best[s] \in Prices /\ b.levels[s][u.best[s]].count # 0
      BY <1>1, <1>7, <2>1, <2>3
    <3> QED BY <1>2, <1>9, <2>1, <3>1
  <2> QED BY <1>1, <2>1, <2>2, <2>3 DEF BestOK, BestHeld
<1> QED BY <1>8, <1>9

\* a list without one of its nodes: the node before it is the one it points back at
LEMMA UnlinkChains ==
  ASSUME NEW b, BookType(b), Named(b), LinksOK(b), NEW n \in Live(b), NEW u, Unlinked(b, n, u),
         NEW s \in Side, NEW p \in Prices, NEW c \in LevelChains(b, s, p)
  PROVE  /\ s = b.pool[n].side /\ p = b.pool[n].px =>
              \E k \in 1 .. Cardinality(At(b, s, p)) :
                 c[k] = n /\ Skipping(c, Cardinality(At(b, s, p)), k) \in LevelChains(u, s, p)
         /\ ~(s = b.pool[n].side /\ p = b.pool[n].px) => c \in LevelChains(u, s, p)
<1> DEFINE node == b.pool[n]
<1>1. /\ \A t, r : At(u, t, r) = At(b, t, r) \ {n} /\ IsFiniteSet(At(b, t, r))
      /\ FreeNodes(u) = FreeNodes(b) \cup {n} /\ IsFiniteSet(FreeNodes(b))
      /\ n \notin FreeNodes(b) /\ n # NIL /\ n \in Nodes(b)
  BY UnlinkLive, FiniteNodes, LiveNode DEF FreeNodes
<1>2. /\ node.next # NIL => node.next \in At(b, node.side, node.px) /\ b.pool[node.next].prev = n
      /\ IF node.prev = NIL THEN b.levels[node.side][node.px].head = n
         ELSE node.prev \in At(b, node.side, node.px) /\ b.pool[node.prev].next = n
  BY DEF LinksOK
<1>3. /\ \A m \in Nodes(b) \ {n} :
           u.pool[m].next = IF m = node.prev THEN node.next ELSE b.pool[m].next
      /\ u.pool[n].next = b.free
      /\ u.free = n
  BY DEF Unlinked, UnlinkedPool, Released
<1>4. \A t, r : \A m \in At(b, t, r) :
         m \in Nodes(b) /\ m # NIL /\ m \in Live(b) /\ b.pool[m].side = t /\ b.pool[m].px = r
  BY LiveNode DEF At
<1> HIDE DEF node
<1> QED
  <2> DEFINE S == At(b, s, p)
             first == b.levels[s][p].head
  <2>1. c \in Chains(b, S, first)
    BY DEF LevelChains
  <2>2. CASE s = node.side /\ p = node.px
    <3>1. /\ n \in S
          /\ u.levels[s][p].head = IF node.prev # NIL THEN first ELSE node.next
      <4>2. n \in S
        BY <2>2, LiveNode DEF node
      <4>3. u.levels[s][p].head =
              IF node.prev # NIL THEN b.levels[node.side][node.px].head ELSE node.next
        BY <2>2 DEF Unlinked, UnlinkedLevels, node
      <4> QED BY <2>2, <4>2, <4>3
    <3>2. IsChain(b, S, first, c, Cardinality(S)) /\ IsFiniteSet(S)
      BY <1>1, <2>1, ChainElim
    <3>3. PICK k \in 1 .. Cardinality(S) : c[k] = n
      BY <1>1, <2>1, <3>1, ChainElim
    <3>4. IF k = 1 THEN node.prev = NIL ELSE node.prev = c[k - 1]
      <4>1. CASE k = 1
        <5>1. first = n
          BY <3>1, <3>2, <3>3, <4>1 DEF IsChain
        <5>2. node.prev # NIL => \E i \in 1 .. Cardinality(S) : c[i] = node.prev
          BY <1>1, <1>2, <2>1, <2>2, ChainElim
        <5>3. ASSUME NEW i \in 1 .. Cardinality(S), b.pool[c[i]].next = n PROVE FALSE
          BY <1>1, <3>2, <3>3, <4>1, <5>3 DEF IsChain
        <5> QED BY <1>2, <4>1, <5>2, <5>3
      <4>2. CASE k > 1
        <5>1. b.pool[c[k - 1]].next = n /\ c[k - 1] \in S
          BY <3>2, <3>3, <4>2 DEF IsChain
        <5>2. c[k - 1] \in Live(b) /\ b.pool[c[k - 1]].side = s /\ b.pool[c[k - 1]].px = p
          BY <1>4, <5>1
        <5>3. b.pool[n].prev = c[k - 1]
          BY <1>1, <5>1, <5>2 DEF LinksOK
        <5> QED BY <4>2, <5>3 DEF node
      <4>3. Cardinality(S) \in Nat
        BY <3>2 DEF IsChain
      <4> QED BY <4>1, <4>2, <4>3
    <3>5. k \in Nat /\ k >= 1
      BY <3>2 DEF IsChain
    <3>6. \A m \in S \ {c[k]} :
            u.pool[m].next = IF k > 1 /\ m = c[k - 1] THEN b.pool[c[k]].next ELSE b.pool[m].next
      BY <1>3, <1>4, <3>3, <3>4, <3>5 DEF node
    <3>7. u.levels[s][p].head = IF k = 1 THEN b.pool[c[k]].next ELSE first
      <4>1. k > 1 => c[k - 1] # NIL
        BY <1>4, <3>2, <3>5 DEF IsChain
      <4> QED BY <3>1, <3>3, <3>4, <3>5, <4>1 DEF node
    <3> HIDE DEF S, first
    <3>9. Bypassed(b, S, first, c, k, u, u.levels[s][p].head)
      BY <3>6, <3>7 DEF Bypassed
    <3>8. Skipping(c, Cardinality(S), k) \in Chains(u, S \ {c[k]}, u.levels[s][p].head)
      BY <2>1, <3>2, <3>9, ChainRemove
    <3> QED BY <1>1, <2>2, <3>3, <3>8 DEF LevelChains, S, node
  <2>3. CASE ~(s = node.side /\ p = node.px)
    <3>1. u.levels[s][p] = b.levels[s][p]
      BY <2>3 DEF Unlinked, UnlinkedLevels, node
    <3>2. n \notin S
      BY <1>4, <2>3 DEF node
    <3>3. \A m \in S : m # node.prev
      BY <1>2, <1>4, <2>3
    <3>4. \A m \in S : u.pool[m].next = b.pool[m].next
      BY <1>3, <1>4, <3>2, <3>3
    <3>5. c \in Chains(u, S, first)
      BY <1>1, <2>1, <3>4, ChainSame
    <3> QED BY <1>1, <2>3, <3>1, <3>2, <3>5 DEF LevelChains, node
  <2> QED BY <2>2, <2>3 DEF node

LEMMA UnlinkKeepsLists ==
  ASSUME NEW b, BookType(b), Named(b), LinksOK(b), Listed(b),
         NEW n \in Live(b), NEW u, Unlinked(b, n, u)
  PROVE  Listed(u)
<1> DEFINE node == b.pool[n]
<1>1. /\ \A s, p : At(u, s, p) = At(b, s, p) \ {n} /\ IsFiniteSet(At(b, s, p))
      /\ FreeNodes(u) = FreeNodes(b) \cup {n} /\ IsFiniteSet(FreeNodes(b))
      /\ n \notin FreeNodes(b) /\ n # NIL /\ n \in Nodes(b)
  BY UnlinkLive, FiniteNodes, LiveNode DEF FreeNodes
<1>2. /\ node.next # NIL => node.next \in At(b, node.side, node.px) /\ b.pool[node.next].prev = n
      /\ IF node.prev = NIL THEN b.levels[node.side][node.px].head = n
         ELSE node.prev \in At(b, node.side, node.px) /\ b.pool[node.prev].next = n
  BY DEF LinksOK
<1>3. /\ \A m \in Nodes(b) \ {n} :
           u.pool[m].next = IF m = node.prev THEN node.next ELSE b.pool[m].next
      /\ u.pool[n].next = b.free
      /\ u.free = n
  BY DEF Unlinked, UnlinkedPool, Released
<1>4. \A s, p : \A m \in At(b, s, p) :
         m \in Nodes(b) /\ m # NIL /\ m \in Live(b) /\ b.pool[m].side = s /\ b.pool[m].px = p
  BY LiveNode DEF At
<1> HIDE DEF node
<1>5. Chains(u, FreeNodes(u), u.free) # {}
  <2>1. PICK c \in Chains(b, FreeNodes(b), b.free) : TRUE
    BY DEF Listed
  <2>2. \A m \in FreeNodes(b) : u.pool[m].next = b.pool[m].next
    <3> SUFFICES ASSUME NEW m \in FreeNodes(b) PROVE u.pool[m].next = b.pool[m].next
      OBVIOUS
    <3>1. m \in Nodes(b) \ {n} /\ m \notin Live(b) /\ m # NIL
      BY <1>1 DEF FreeNodes, Nodes, NIL, BookType
    <3>2. m # node.prev
      BY <1>2, <1>4, <3>1
    <3> QED BY <1>3, <3>1, <3>2
  <2>3. Prepended(b, FreeNodes(b), b.free, n, u)
    BY <1>1, <1>3, <2>2 DEF Prepended
  <2>4. Chains(u, FreeNodes(b) \cup {n}, n) # {}
    BY <1>1, <2>1, <2>3, ChainPrepend
  <2> QED BY <1>1, <1>3, <2>4
<1>6. ASSUME NEW s \in Side, NEW p \in Prices
      PROVE  LevelChains(u, s, p) # {}
  <2>1. PICK c \in LevelChains(b, s, p) : TRUE
    BY DEF Listed
  <2> QED BY <2>1, UnlinkChains
<1> QED BY <1>5, <1>6 DEF Listed

\* the containers and their types
LEMMA UnlinkKeepsType ==
  ASSUME NEW b, BookType(b), Named(b), NEW n \in Live(b), NEW u, u = Unlink(b, n),
         u.best \in [Side -> Prices \cup {NoPrice}]
  PROVE  BookType(u)
<1> DEFINE node == b.pool[n]
<1>1. /\ node.side \in Side /\ node.px \in Prices /\ node \in NodeType /\ n \in Nodes(b)
      /\ Unlinked(b, n, u) /\ Len(b.pool) \in Nat
  BY LiveNode, UnlinkIsUnlinked DEF BookType
<1>2. /\ u = [levels |-> u.levels, best |-> u.best, pool |-> u.pool, free |-> u.free,
              index |-> u.index]
      /\ u.levels = [b.levels EXCEPT ![node.side][node.px] = UnlinkLinks(b, n)]
      /\ u.pool = UnlinkPool(b, n)
  BY DEF Unlink
<1>3. u.levels \in [Side -> [Prices -> LevelType]]
  <2>1. b.levels[node.side][node.px] \in LevelType
    BY <1>1 DEF BookType
  <2>2. node.remaining \in Nat /\ node.next \in Nat /\ node.prev \in Nat
    BY <1>1 DEF NodeType
  <2> HIDE DEF node
  <2>3. UnlinkLinks(b, n) \in LevelType
    <3> DEFINE new == UnlinkLinks(b, n)
               lvl == b.levels[node.side][node.px]
    <3>1. new = [head |-> new.head, tail |-> new.tail, qty |-> new.qty, count |-> new.count]
      BY DEF UnlinkLinks
    <3>2. /\ new.head = IF node.prev # NIL THEN lvl.head ELSE node.next
          /\ new.tail = IF node.next # NIL THEN lvl.tail ELSE node.prev
          /\ new.qty = lvl.qty - node.remaining /\ new.count = lvl.count - 1
      BY DEF UnlinkLinks, node
    <3> HIDE DEF new, lvl
    <3>3. lvl.head \in Nat /\ lvl.tail \in Nat /\ lvl.qty \in Int /\ lvl.count \in Int
      BY <2>1 DEF LevelType, lvl
    <3>4. new \in LevelType
      BY <2>2, <3>1, <3>2, <3>3 DEF LevelType
    <3> QED BY <3>4 DEF new
  <2> QED BY <1>1, <1>2, <2>3 DEF BookType
<1>4. u.pool \in Seq(NodeType)
  <2>1. u.pool[n] \in NodeType
    <3>1. u.pool[n] = Released(b.free) /\ b.free \in Nat
      BY <1>1 DEF Unlinked, BookType, Nodes, NIL
    <3> QED BY <3>1 DEF Released, NodeType, Side, NIL
  <2>2. \A m \in 1 .. Len(b.pool) : u.pool[m] \in NodeType
    BY <1>1, <2>1 DEF Unlinked, UnlinkedPool, Nodes
  <2>3. u.pool = [m \in 1 .. Len(b.pool) |-> u.pool[m]]
    BY <1>2 DEF UnlinkPool
  <2> QED BY <1>1, <2>2, <2>3
<1>5. u.free \in Nodes(u) \cup {NIL} /\ Nodes(u) = Nodes(b)
  BY <1>1 DEF Unlinked, Nodes
<1>6. DOMAIN u.index \subseteq Ids /\ \A i \in DOMAIN u.index : u.index[i] \in Nodes(u)
  BY <1>1, <1>5 DEF Unlinked, BookType
<1> QED BY <1>2, <1>3, <1>4, <1>5, <1>6 DEF BookType

(* unlink of a live node keeps the shape of the book, and only that node   *)
(* leaves its level                                                        *)
LEMMA UnlinkKeepsShape ==
  ASSUME NEW b, Shape(b), NEW n \in Live(b), NEW u, u = Unlink(b, n)
  PROVE  Shape(u) /\ Unlinked(b, n, u)
<1>1. Unlinked(b, n, u)
  BY UnlinkIsUnlinked DEF Shape
<1>2. UnlinkedBest(b, n, u)
  <2>1. u.levels[b.pool[n].side][b.pool[n].px] = UnlinkLinks(b, n)
    BY <1>1, LiveNode DEF Unlinked, UnlinkedLevels, Shape
  <2>2. u.best = IF UnlinkLinks(b, n).count = 0 /\ b.pool[n].px = b.best[b.pool[n].side]
                 THEN [b.best EXCEPT ![b.pool[n].side] =
                         NextBest(u.levels, b.pool[n].side, b.pool[n].px)]
                 ELSE b.best
    BY DEF Unlink
  <2> QED BY <2>1, <2>2 DEF UnlinkedBest
<1>3. u.best \in [Side -> Prices \cup {NoPrice}] /\ BestOK(u) /\ BestHeld(u)
  BY <1>1, <1>2, UnlinkKeepsBest DEF Shape
<1>4. BookType(u)
  BY <1>3, UnlinkKeepsType DEF Shape
<1>5. Named(u)
  BY <1>1, UnlinkLive DEF Shape
<1>6. LinksOK(u)
  BY <1>1, UnlinkKeepsLinks DEF Shape
<1>7. EndsOK(u)
  BY <1>1, UnlinkKeepsEnds DEF Shape
<1>8. CountsOK(u)
  BY <1>1, UnlinkKeepsCounts DEF Shape
<1>9. Listed(u)
  BY <1>1, UnlinkKeepsLists DEF Shape
<1> QED BY <1>1, <1>3, <1>4, <1>5, <1>6, <1>7, <1>8, <1>9 DEF Shape

----------------------------------------------------------------------------
(* A fill: the maker's remaining and the quantity of its level go down.    *)

\* u is b with less left of node n
Reduced(b, n, u) ==
  /\ u.best = b.best /\ u.free = b.free /\ u.index = b.index
  /\ Len(u.pool) = Len(b.pool)
  /\ \A m \in Nodes(b) :
       /\ u.pool[m].id = b.pool[m].id /\ u.pool[m].agent = b.pool[m].agent
       /\ u.pool[m].px = b.pool[m].px /\ u.pool[m].side = b.pool[m].side
       /\ u.pool[m].next = b.pool[m].next /\ u.pool[m].prev = b.pool[m].prev
       /\ m # n => u.pool[m].remaining = b.pool[m].remaining
  /\ \A s \in Side, p \in Prices :
       /\ u.levels[s][p].head = b.levels[s][p].head
       /\ u.levels[s][p].tail = b.levels[s][p].tail
       /\ u.levels[s][p].count = b.levels[s][p].count

\* and of its level, which alone changes
QtyReduced(b, n, q, u) ==
  LET side == b.pool[n].side
      px   == b.pool[n].px
  IN /\ u.levels[side][px].qty = b.levels[side][px].qty - q
     /\ \A s \in Side, p \in Prices :
          ~(s = side /\ p = px) => u.levels[s][p] = b.levels[s][p]

LEMMA ReduceIsReduced ==
  ASSUME NEW b, BookType(b), Named(b), NEW n \in Live(b),
         NEW q \in Nat, q <= b.pool[n].remaining, NEW u, u = Reduce(b, n, q)
  PROVE  /\ BookType(u) /\ Reduced(b, n, u)
         /\ u.pool[n].remaining = b.pool[n].remaining - q
         /\ QtyReduced(b, n, q, u)
<1> DEFINE node == b.pool[n]
           lvl == b.levels[node.side][node.px]
           new == [node EXCEPT !.remaining = @ - q]
           pool == [b.pool EXCEPT ![n] = new]
           levels == [b.levels EXCEPT ![node.side] =
                        [@ EXCEPT ![node.px] = [lvl EXCEPT !.qty = @ - q]]]
<1>1. /\ node.side \in Side /\ node.px \in Prices /\ node \in NodeType /\ n \in Nodes(b)
      /\ Len(b.pool) \in Nat /\ b.pool \in Seq(NodeType) /\ lvl \in LevelType
      /\ b.levels \in [Side -> [Prices -> LevelType]]
  BY LiveNode DEF BookType
<1>2. /\ u.levels = levels /\ u.pool = pool
      /\ u.best = b.best /\ u.free = b.free /\ u.index = b.index
      /\ u = [levels |-> u.levels, best |-> u.best, pool |-> u.pool, free |-> u.free,
              index |-> u.index]
  BY <1>1 DEF Reduce, BookType
<1>3. /\ new \in NodeType /\ new.remaining = node.remaining - q
      /\ new.id = node.id /\ new.agent = node.agent /\ new.px = node.px /\ new.side = node.side
      /\ new.next = node.next /\ new.prev = node.prev
  <2>1. node.remaining - q \in Nat
    BY <1>1 DEF NodeType
  <2> HIDE DEF node
  <2> QED BY <1>1, <2>1 DEF NodeType
<1>4. [lvl EXCEPT !.qty = @ - q] \in LevelType
  <2>1. lvl.qty - q \in Int
    BY <1>1 DEF LevelType
  <2> HIDE DEF lvl
  <2> QED BY <1>1, <2>1 DEF LevelType
<1> HIDE DEF node, lvl, new
<1>5. u.levels \in [Side -> [Prices -> LevelType]]
  BY <1>1, <1>2, <1>4
<1>6. /\ u.pool \in Seq(NodeType) /\ Len(u.pool) = Len(b.pool)
      /\ \A m \in Nodes(b) : u.pool[m] = IF m = n THEN new ELSE b.pool[m]
  BY <1>1, <1>2, <1>3 DEF Nodes
<1>7. Nodes(u) = Nodes(b)
  BY <1>6 DEF Nodes
<1>8. BookType(u)
  BY <1>2, <1>5, <1>6, <1>7 DEF BookType
<1>9. LET l == u.levels[node.side][node.px]
      IN l.head = lvl.head /\ l.tail = lvl.tail /\ l.count = lvl.count /\ l.qty = lvl.qty - q
  <2>1. u.levels[node.side][node.px] = [lvl EXCEPT !.qty = @ - q]
    BY <1>1, <1>2
  <2> QED BY <1>1, <2>1 DEF LevelType
<1>10. \A s \in Side, p \in Prices :
         ~(s = node.side /\ p = node.px) => u.levels[s][p] = b.levels[s][p]
  BY <1>1, <1>2
<1>11. \A s \in Side, p \in Prices :
         /\ u.levels[s][p].head = b.levels[s][p].head
         /\ u.levels[s][p].tail = b.levels[s][p].tail
         /\ u.levels[s][p].count = b.levels[s][p].count
  BY <1>9, <1>10 DEF lvl
<1>12. Reduced(b, n, u)
  BY <1>2, <1>3, <1>6, <1>11 DEF Reduced, node
<1>13. QtyReduced(b, n, q, u)
  BY <1>9, <1>10 DEF QtyReduced, node, lvl
<1> QED BY <1>1, <1>3, <1>6, <1>8, <1>12, <1>13 DEF node

LEMMA ReduceKeepsShape ==
  ASSUME NEW b, Shape(b), NEW n \in Live(b), NEW u, BookType(u), Reduced(b, n, u)
  PROVE  Shape(u) /\ Live(u) = Live(b) /\ Nodes(u) = Nodes(b)
<1> USE DEF Shape
<1>1. Live(u) = Live(b) /\ Nodes(u) = Nodes(b) /\ FreeNodes(u) = FreeNodes(b)
  BY DEF Reduced, Live, Nodes, FreeNodes
<1>2. Live(b) \subseteq Nodes(b)
  BY LiveNode
<1>3. \A m \in Nodes(b) :
       /\ u.pool[m].id = b.pool[m].id /\ u.pool[m].agent = b.pool[m].agent
       /\ u.pool[m].px = b.pool[m].px /\ u.pool[m].side = b.pool[m].side
       /\ u.pool[m].next = b.pool[m].next /\ u.pool[m].prev = b.pool[m].prev
  BY DEF Reduced
<1>4. \A s \in Side, p \in Prices :
       /\ u.levels[s][p].head = b.levels[s][p].head
       /\ u.levels[s][p].tail = b.levels[s][p].tail
       /\ u.levels[s][p].count = b.levels[s][p].count
  BY DEF Reduced
<1>5. u.best = b.best /\ u.free = b.free /\ u.index = b.index
  BY DEF Reduced
<1>6. \A s, p : At(u, s, p) = At(b, s, p) /\ At(b, s, p) \subseteq Nodes(b)
                /\ IsFiniteSet(At(b, s, p))
  <2>1. \A m \in Live(b) : u.pool[m].px = b.pool[m].px /\ u.pool[m].side = b.pool[m].side
    BY <1>2, <1>3
  <2>2. \A s, p : At(u, s, p) = At(b, s, p) /\ At(b, s, p) \subseteq Nodes(b)
    BY <1>1, <1>2, <2>1 DEF At
  <2> QED BY <2>2, FiniteNodes
<1>7. Named(u)
  BY <1>3, <1>5 DEF Named, BookType
<1>8. LinksOK(u)
  <2> SUFFICES ASSUME NEW m \in Live(u)
             PROVE  LET k == u.pool[m]
                        l == u.levels[k.side][k.px]
                    IN /\ IF k.next = NIL THEN l.tail = m
                          ELSE k.next \in At(u, k.side, k.px) /\ u.pool[k.next].prev = m
                       /\ IF k.prev = NIL THEN l.head = m
                          ELSE k.prev \in At(u, k.side, k.px) /\ u.pool[k.prev].next = m
    BY DEF LinksOK
  <2>1. m \in Live(b) /\ m \in Nodes(b) /\ b.pool[m].side \in Side /\ b.pool[m].px \in Prices
    BY <1>1, LiveNode
  <2>2. LET k == b.pool[m]
            l == b.levels[k.side][k.px]
        IN /\ IF k.next = NIL THEN l.tail = m
              ELSE k.next \in At(b, k.side, k.px) /\ b.pool[k.next].prev = m
           /\ IF k.prev = NIL THEN l.head = m
              ELSE k.prev \in At(b, k.side, k.px) /\ b.pool[k.prev].next = m
    BY <2>1 DEF LinksOK
  <2>3. At(u, b.pool[m].side, b.pool[m].px) = At(b, b.pool[m].side, b.pool[m].px)
    BY <1>6
  <2>4. \A z \in At(b, b.pool[m].side, b.pool[m].px) :
          u.pool[z].next = b.pool[z].next /\ u.pool[z].prev = b.pool[z].prev
    BY <1>3, <1>6
  <2>5. /\ u.levels[b.pool[m].side][b.pool[m].px].tail = b.levels[b.pool[m].side][b.pool[m].px].tail
        /\ u.levels[b.pool[m].side][b.pool[m].px].head = b.levels[b.pool[m].side][b.pool[m].px].head
    BY <1>4, <2>1
  <2>6. /\ u.pool[m].next = b.pool[m].next /\ u.pool[m].prev = b.pool[m].prev
        /\ u.pool[m].side = b.pool[m].side /\ u.pool[m].px = b.pool[m].px
    BY <1>3, <2>1
  <2> QED BY <2>2, <2>3, <2>4, <2>5, <2>6
<1>9. EndsOK(u)
  <2> SUFFICES ASSUME NEW s \in Side, NEW p \in Prices
               PROVE  LET l == u.levels[s][p]
                      IN /\ l.head # NIL => l.head \in At(u, s, p) /\ u.pool[l.head].prev = NIL
                         /\ l.tail # NIL => l.tail \in At(u, s, p) /\ u.pool[l.tail].next = NIL
    BY DEF EndsOK
  <2>1. \A z \in At(b, s, p) :
          u.pool[z].next = b.pool[z].next /\ u.pool[z].prev = b.pool[z].prev
    BY <1>3, <1>6
  <2>2. At(u, s, p) = At(b, s, p)
    BY <1>6
  <2>3. LET l == b.levels[s][p]
        IN /\ l.head # NIL => l.head \in At(b, s, p) /\ b.pool[l.head].prev = NIL
           /\ l.tail # NIL => l.tail \in At(b, s, p) /\ b.pool[l.tail].next = NIL
    BY DEF EndsOK
  <2> QED BY <1>4, <2>1, <2>2, <2>3
<1>10. CountsOK(u)
  BY <1>4, <1>6 DEF CountsOK
<1>11. BestOK(u)
  BY <1>4, <1>5 DEF BestOK
<1>12. BestHeld(u)
  <2>1. \A s \in Side : b.best[s] \in Prices \cup {NoPrice}
    BY DEF BookType
  <2> QED BY <1>4, <1>5, <2>1 DEF BestHeld
<1>13. Listed(u)
  <2>1. IsFiniteSet(FreeNodes(b)) /\ FreeNodes(b) \subseteq Nodes(b)
    BY FiniteNodes DEF FreeNodes
  <2>2. Chains(u, FreeNodes(b), b.free) # {}
    <3>1. PICK c \in Chains(b, FreeNodes(b), b.free) : TRUE
      BY DEF Listed
    <3> QED BY <1>3, <2>1, ChainSame
  <2>3. ASSUME NEW s \in Side, NEW p \in Prices PROVE LevelChains(u, s, p) # {}
    <3>1. PICK c \in Chains(b, At(b, s, p), b.levels[s][p].head) : TRUE
      BY DEF Listed, LevelChains
    <3>2. Chains(u, At(b, s, p), b.levels[s][p].head) # {}
      BY <1>3, <1>6, <3>1, ChainSame
    <3> QED BY <1>4, <1>6, <3>2 DEF LevelChains
  <2> QED BY <1>1, <1>5, <2>2, <2>3 DEF Listed
<1> QED BY <1>1, <1>7, <1>8, <1>9, <1>10, <1>11, <1>12, <1>13

----------------------------------------------------------------------------
(* rest.                                                                   *)

\* the ends of a list that is one: NIL only where there is no node at all
LEMMA ListEnds ==
  ASSUME NEW b, Shape(b), NEW s \in Side, NEW p \in Prices
  PROVE  /\ b.levels[s][p].tail = NIL => At(b, s, p) = {}
         /\ b.levels[s][p].head = NIL => At(b, s, p) = {}
         /\ \A m \in At(b, s, p) : b.pool[m].next = NIL <=> m = b.levels[s][p].tail
<1> DEFINE S == At(b, s, p)
           lvl == b.levels[s][p]
           k == Cardinality(S)
<1>1. PICK c \in Chains(b, S, lvl.head) : TRUE
  BY DEF Shape, Listed, LevelChains
<1>2. IsFiniteSet(S)
  BY FiniteNodes DEF Shape
<1>3. IsChain(b, S, lvl.head, c, k)
  BY <1>1, <1>2, ChainElim
<1>4. \A m \in S : m # NIL /\ m \in Live(b) /\ b.pool[m].side = s /\ b.pool[m].px = p
  BY LiveNode DEF At, Shape
<1>5. \A m \in S : b.pool[m].next = NIL => lvl.tail = m
  BY <1>4 DEF Shape, LinksOK
<1>6. lvl.tail # NIL => b.pool[lvl.tail].next = NIL
  BY DEF Shape, EndsOK
<1> HIDE DEF S, lvl, k
<1>7. S # {} => lvl.head # NIL
  BY <1>3, <1>4 DEF IsChain
<1>8. S # {} => c[k] \in S /\ b.pool[c[k]].next = NIL
  BY <1>3 DEF IsChain
<1>9. S # {} => lvl.tail # NIL
  BY <1>4, <1>5, <1>8
<1> QED BY <1>4, <1>5, <1>6, <1>7, <1>9 DEF S, lvl

LEMMA FreeHead ==
  ASSUME NEW b, Shape(b)
  PROVE  /\ b.free = NIL => FreeNodes(b) = {}
         /\ b.free # NIL => b.free \in FreeNodes(b)
<1>1. PICK c \in Chains(b, FreeNodes(b), b.free) : TRUE
  BY DEF Shape, Listed
<1>2. IsChain(b, FreeNodes(b), b.free, c, Cardinality(FreeNodes(b)))
  BY <1>1, FiniteNodes, ChainElim DEF Shape
<1>3. NIL \notin FreeNodes(b)
  BY DEF FreeNodes, Nodes, NIL
<1> QED BY <1>2, <1>3 DEF IsChain

\* u is the book rest leaves after putting an order for c in node n; best apart
RestedPool(b, c, remaining, n, u) ==
  LET tail == b.levels[c.side][c.px].tail IN
  /\ u.pool[n] = [id |-> c.id, agent |-> c.agent, remaining |-> remaining, px |-> c.px,
                  side |-> c.side, next |-> NIL, prev |-> tail]
  /\ \A m \in Nodes(b) \ {n} :
       /\ u.pool[m] \in NodeType
       /\ u.pool[m].id = b.pool[m].id /\ u.pool[m].agent = b.pool[m].agent
       /\ u.pool[m].px = b.pool[m].px /\ u.pool[m].side = b.pool[m].side
       /\ u.pool[m].remaining = b.pool[m].remaining
       /\ u.pool[m].next = IF m = tail THEN n ELSE b.pool[m].next
       /\ u.pool[m].prev = b.pool[m].prev

RestedLevels(b, c, remaining, n, u) ==
  LET lvl == b.levels[c.side][c.px] IN
  \A s \in Side, p \in Prices :
    u.levels[s][p] = IF s = c.side /\ p = c.px
                     THEN [head  |-> IF lvl.tail # NIL THEN lvl.head ELSE n, tail |-> n,
                           qty   |-> lvl.qty + remaining, count |-> lvl.count + 1]
                     ELSE b.levels[s][p]

Rested(b, c, remaining, n, u) ==
  /\ n = Alloc(b)
  /\ Nodes(u) = Nodes(b) \cup {n}
  /\ RestedPool(b, c, remaining, n, u)
  /\ u.free = FreeAfterAlloc(b)
  /\ DOMAIN u.index = DOMAIN b.index \cup {c.id}
  /\ \A i \in DOMAIN b.index : u.index[i] = b.index[i]
  /\ u.index[c.id] = n
  /\ RestedLevels(b, c, remaining, n, u)

\* what add has established before it calls rest
Restable(b, c, remaining) ==
  /\ c \in NewOrders /\ c.px \in Prices /\ c.id \notin DOMAIN b.index
  /\ remaining \in Nat /\ remaining > 0

LEMMA NewOrderFields ==
  ASSUME NEW c \in NewOrders
  PROVE  c.id \in Ids /\ c.agent \in Agents /\ c.side \in Side /\ c.tif \in TIF
         /\ c.px \in Int /\ c.qty \in Int
  BY NewOrdersAssumption DEF OrderFields

LEMMA AllocIsFree ==
  ASSUME NEW b, Shape(b), NEW n, n = Alloc(b)
  PROVE  /\ n \in Nat /\ n # NIL /\ n \notin Live(b)
         /\ IF b.free = NIL THEN n = Len(b.pool) + 1 /\ FreeNodes(b) = {}
                            ELSE n = b.free /\ n \in FreeNodes(b)
         /\ Len(Grown(b)) \in Nat /\ 1 .. Len(Grown(b)) = Nodes(b) \cup {n}
         /\ \A m \in Nodes(b) \ {n} : Grown(b)[m] = b.pool[m]
<1>1. Len(b.pool) \in Nat /\ b.pool \in Seq(NodeType) /\ Live(b) \subseteq Nodes(b)
  BY LiveNode DEF Shape, BookType
<1>2. CASE b.free = NIL
  <2>1. n = Len(b.pool) + 1 /\ FreeNodes(b) = {}
    BY <1>2, FreeHead DEF Alloc
  <2>2. Grown(b) = Append(b.pool, Released(NIL))
    BY <1>2 DEF Grown
  <2>3. n \in Nat /\ n # NIL /\ n \notin Nodes(b)
    BY <1>1, <2>1 DEF Nodes, NIL
  <2>4. Len(Grown(b)) = Len(b.pool) + 1 /\ \A m \in Nodes(b) : Grown(b)[m] = b.pool[m]
    BY <1>1, <2>2 DEF Nodes
  <2>5. 1 .. Len(Grown(b)) = Nodes(b) \cup {n}
    BY <1>1, <2>1, <2>4 DEF Nodes
  <2> QED BY <1>1, <1>2, <2>1, <2>3, <2>4, <2>5
<1>3. CASE b.free # NIL
  <2>1. n = b.free /\ n \in FreeNodes(b) /\ Grown(b) = b.pool
    BY <1>3, FreeHead DEF Alloc, Grown
  <2>2. n \in Nodes(b) /\ n \notin Live(b)
    BY <2>1 DEF FreeNodes
  <2> QED BY <1>1, <1>3, <2>1, <2>2 DEF Nodes, NIL
<1> QED BY <1>2, <1>3

LEMMA RestIsRested ==
  ASSUME NEW b, Shape(b), NEW c, NEW remaining, Restable(b, c, remaining)
  PROVE  Rested(b, c, remaining, Alloc(b), Rest(b, c, remaining))
<1> DEFINE n == Alloc(b)
           u == Rest(b, c, remaining)
           lvl == b.levels[c.side][c.px]
           node == [id |-> c.id, agent |-> c.agent, remaining |-> remaining, px |-> c.px,
                    side |-> c.side, next |-> NIL, prev |-> lvl.tail]
           level == [head |-> IF lvl.tail # NIL THEN lvl.head ELSE n, tail |-> n,
                     qty  |-> lvl.qty + remaining, count |-> lvl.count + 1]
<1>1. /\ c.side \in Side /\ c.px \in Prices
      /\ b.levels \in [Side -> [Prices -> LevelType]] /\ b.pool \in Seq(NodeType)
  BY NewOrderFields DEF Restable, Shape, BookType
<1>2. /\ n \in Nat /\ Len(Grown(b)) \in Nat /\ 1 .. Len(Grown(b)) = Nodes(b) \cup {n}
      /\ \A m \in Nodes(b) \ {n} : Grown(b)[m] = b.pool[m]
  BY AllocIsFree
<1>3. /\ u.levels = [b.levels EXCEPT ![c.side] = [@ EXCEPT ![c.px] = level]]
      /\ u.free = FreeAfterAlloc(b)
      /\ u.index = [i \in DOMAIN b.index \cup {c.id} |-> IF i = c.id THEN n ELSE b.index[i]]
      /\ u.pool = [m \in 1 .. Len(Grown(b)) |->
                    IF m = n THEN node
                    ELSE IF m = lvl.tail THEN [Grown(b)[m] EXCEPT !.next = n]
                    ELSE Grown(b)[m]]
  BY DEF Rest
<1> HIDE DEF u, n, level, node
<1>4. Len(u.pool) = Len(Grown(b))
  BY <1>2, <1>3
<1>5. Nodes(u) = Nodes(b) \cup {n}
  BY <1>2, <1>4 DEF Nodes
<1>6. u.pool[n] = node
  BY <1>2, <1>3
<1>7. ASSUME NEW m \in Nodes(b) \ {n}
      PROVE  /\ u.pool[m] \in NodeType
             /\ u.pool[m].id = b.pool[m].id /\ u.pool[m].agent = b.pool[m].agent
             /\ u.pool[m].px = b.pool[m].px /\ u.pool[m].side = b.pool[m].side
             /\ u.pool[m].remaining = b.pool[m].remaining
             /\ u.pool[m].next = IF m = lvl.tail THEN n ELSE b.pool[m].next
             /\ u.pool[m].prev = b.pool[m].prev
  <2>1. u.pool[m] = IF m = lvl.tail THEN [b.pool[m] EXCEPT !.next = n] ELSE b.pool[m]
    BY <1>2, <1>3
  <2>2. b.pool[m] \in NodeType
    BY <1>1 DEF Nodes
  <2> QED BY <1>2, <2>1, <2>2 DEF NodeType
<1>8. /\ DOMAIN u.index = DOMAIN b.index \cup {c.id} /\ u.index[c.id] = n
      /\ \A i \in DOMAIN b.index : u.index[i] = b.index[i]
  BY <1>3 DEF Restable
<1>9. \A s \in Side, p \in Prices :
        u.levels[s][p] = IF s = c.side /\ p = c.px THEN level ELSE b.levels[s][p]
  BY <1>1, <1>3
<1>10. Rested(b, c, remaining, n, u)
  BY <1>3, <1>5, <1>6, <1>7, <1>8, <1>9 DEF Rested, RestedPool, RestedLevels, n, node, level
<1> QED BY <1>10 DEF n, u

LEMMA RestLive ==
  ASSUME NEW b, Shape(b), NEW c, NEW remaining, Restable(b, c, remaining),
         NEW n, NEW u, Rested(b, c, remaining, n, u)
  PROVE  /\ n \in Nat /\ n # NIL /\ n \notin Live(b)
         /\ c.side \in Side /\ c.px \in Prices
         /\ Live(u) = Live(b) \cup {n}
         /\ FreeNodes(u) = FreeNodes(b) \ {n}
         /\ \A s, p : At(u, s, p) = IF s = c.side /\ p = c.px THEN At(b, s, p) \cup {n}
                                                              ELSE At(b, s, p)
         /\ Named(u)
<1>1. /\ n \in Nat /\ n # NIL /\ n \notin Live(b)
      /\ IF b.free = NIL THEN n = Len(b.pool) + 1 /\ FreeNodes(b) = {}
                         ELSE n = b.free /\ n \in FreeNodes(b)
  BY AllocIsFree DEF Rested
<1>2. /\ c.side \in Side /\ c.px \in Prices /\ c.agent \in Agents /\ c.id \notin DOMAIN b.index
  BY NewOrderFields DEF Restable
<1>3. /\ DOMAIN u.index = DOMAIN b.index \cup {c.id} /\ u.index[c.id] = n
      /\ \A i \in DOMAIN b.index : u.index[i] = b.index[i]
      /\ Nodes(u) = Nodes(b) \cup {n}
  BY DEF Rested
<1>4. \A m \in Nodes(b) \ {n} :
       /\ u.pool[m].id = b.pool[m].id /\ u.pool[m].agent = b.pool[m].agent
       /\ u.pool[m].px = b.pool[m].px /\ u.pool[m].side = b.pool[m].side
  BY DEF Rested, RestedPool
<1>5. /\ u.pool[n].id = c.id /\ u.pool[n].agent = c.agent
      /\ u.pool[n].px = c.px /\ u.pool[n].side = c.side
  BY DEF Rested, RestedPool
<1>6. Live(u) = Live(b) \cup {n}
  BY <1>2, <1>3 DEF Live
<1>7. Live(b) \subseteq Nodes(b) \ {n}
  BY <1>1, LiveNode DEF Shape
<1>8. FreeNodes(u) = FreeNodes(b) \ {n}
  BY <1>3, <1>6 DEF FreeNodes
<1>9. \A s, p : At(u, s, p) = IF s = c.side /\ p = c.px THEN At(b, s, p) \cup {n}
                                                        ELSE At(b, s, p)
  BY <1>4, <1>5, <1>6, <1>7 DEF At
<1>10. Named(u)
  <2> SUFFICES ASSUME NEW i \in DOMAIN u.index
               PROVE  /\ u.pool[u.index[i]].id = i
                      /\ u.pool[u.index[i]].agent \in Agents /\ u.pool[u.index[i]].px \in Prices
    BY DEF Named
  <2>1. CASE i = c.id
    BY <1>2, <1>3, <1>5, <2>1
  <2>2. CASE i \in DOMAIN b.index
    <3>1. b.index[i] \in Live(b) /\ u.index[i] = b.index[i]
      BY <1>3, <2>2 DEF Live
    <3>2. b.index[i] \in Nodes(b) \ {n}
      BY <1>7, <3>1
    <3> QED BY <1>4, <2>2, <3>1, <3>2 DEF Named, Shape
  <2> QED BY <1>3, <2>1, <2>2
<1> QED BY <1>1, <1>2, <1>6, <1>8, <1>9, <1>10

\* the facts about a rested order that the lemmas below share
LEMMA RestFacts ==
  ASSUME NEW b, Shape(b), NEW c, NEW remaining, Restable(b, c, remaining),
         NEW n, NEW u, Rested(b, c, remaining, n, u), NEW tail,
         tail = b.levels[c.side][c.px].tail
  PROVE  /\ u.pool[n].next = NIL /\ u.pool[n].prev = tail
         /\ u.pool[n].side = c.side /\ u.pool[n].px = c.px
         /\ \A m \in Live(b) :
              /\ m # n /\ m # NIL
              /\ b.pool[m].side \in Side /\ b.pool[m].px \in Prices
              /\ u.pool[m].px = b.pool[m].px /\ u.pool[m].side = b.pool[m].side
              /\ u.pool[m].next = IF m = tail THEN n ELSE b.pool[m].next
              /\ u.pool[m].prev = b.pool[m].prev
         /\ u.levels[c.side][c.px].tail = n
         /\ u.levels[c.side][c.px].head = IF tail # NIL THEN b.levels[c.side][c.px].head ELSE n
         /\ u.levels[c.side][c.px].count = b.levels[c.side][c.px].count + 1
         /\ \A s \in Side, p \in Prices :
              ~(s = c.side /\ p = c.px) => u.levels[s][p] = b.levels[s][p]
<1>1. /\ n \notin Live(b) /\ c.side \in Side /\ c.px \in Prices
  BY RestLive
<1>2. \A m \in Live(b) : /\ m \in Nodes(b) \ {n} /\ m # NIL
                         /\ b.pool[m].side \in Side /\ b.pool[m].px \in Prices
  BY <1>1, LiveNode DEF Shape
<1>3. /\ u.pool[n].next = NIL /\ u.pool[n].prev = tail
      /\ u.pool[n].side = c.side /\ u.pool[n].px = c.px
  BY DEF Rested, RestedPool
<1>4. \A m \in Nodes(b) \ {n} :
              /\ u.pool[m].px = b.pool[m].px /\ u.pool[m].side = b.pool[m].side
              /\ u.pool[m].next = IF m = tail THEN n ELSE b.pool[m].next
              /\ u.pool[m].prev = b.pool[m].prev
  BY DEF Rested, RestedPool
<1>5. \A s \in Side, p \in Prices :
        u.levels[s][p] = IF s = c.side /\ p = c.px
                         THEN [head  |-> IF tail # NIL THEN b.levels[c.side][c.px].head ELSE n,
                               tail  |-> n,
                               qty   |-> b.levels[c.side][c.px].qty + remaining,
                               count |-> b.levels[c.side][c.px].count + 1]
                         ELSE b.levels[s][p]
  BY DEF Rested, RestedLevels
<1>6. u.levels[c.side][c.px] =
        [head  |-> IF tail # NIL THEN b.levels[c.side][c.px].head ELSE n, tail  |-> n,
         qty   |-> b.levels[c.side][c.px].qty + remaining,
         count |-> b.levels[c.side][c.px].count + 1]
  BY <1>1, <1>5
<1>7. \A s \in Side, p \in Prices :
        ~(s = c.side /\ p = c.px) => u.levels[s][p] = b.levels[s][p]
  BY <1>5
<1>8. /\ u.levels[c.side][c.px].tail = n
      /\ u.levels[c.side][c.px].head = IF tail # NIL THEN b.levels[c.side][c.px].head ELSE n
      /\ u.levels[c.side][c.px].count = b.levels[c.side][c.px].count + 1
  BY <1>6
<1>9. \A m \in Live(b) :
              /\ m # n /\ m # NIL
              /\ b.pool[m].side \in Side /\ b.pool[m].px \in Prices
              /\ u.pool[m].px = b.pool[m].px /\ u.pool[m].side = b.pool[m].side
              /\ u.pool[m].next = IF m = tail THEN n ELSE b.pool[m].next
              /\ u.pool[m].prev = b.pool[m].prev
  BY <1>1, <1>2, <1>4
<1> QED BY <1>3, <1>7, <1>8, <1>9

LEMMA RestKeepsLinks ==
  ASSUME NEW b, Shape(b), NEW c, NEW remaining, Restable(b, c, remaining),
         NEW n, NEW u, Rested(b, c, remaining, n, u)
  PROVE  LinksOK(u)
<1> DEFINE tail == b.levels[c.side][c.px].tail
<1> SUFFICES ASSUME NEW m \in Live(u)
             PROVE  LET k == u.pool[m]
                        l == u.levels[k.side][k.px]
                    IN /\ IF k.next = NIL THEN l.tail = m
                          ELSE k.next \in At(u, k.side, k.px) /\ u.pool[k.next].prev = m
                       /\ IF k.prev = NIL THEN l.head = m
                          ELSE k.prev \in At(u, k.side, k.px) /\ u.pool[k.prev].next = m
  BY DEF LinksOK
<1>1. /\ n \in Nat /\ n # NIL /\ n \notin Live(b) /\ c.side \in Side /\ c.px \in Prices
      /\ Live(u) = Live(b) \cup {n}
      /\ \A s, p : At(u, s, p) = IF s = c.side /\ p = c.px THEN At(b, s, p) \cup {n}
                                                           ELSE At(b, s, p)
  BY RestLive
<1>2. /\ tail = NIL => At(b, c.side, c.px) = {}
      /\ tail # NIL => tail \in At(b, c.side, c.px) /\ b.pool[tail].next = NIL
  BY <1>1, ListEnds DEF Shape, EndsOK
<1>3. \A s, p : \A z \in At(b, s, p) : z \in Live(b) /\ b.pool[z].side = s /\ b.pool[z].px = p
  BY DEF At
<1>4. /\ u.pool[n].next = NIL /\ u.pool[n].prev = tail
      /\ u.pool[n].side = c.side /\ u.pool[n].px = c.px
      /\ u.levels[c.side][c.px].tail = n
      /\ u.levels[c.side][c.px].head = IF tail # NIL THEN b.levels[c.side][c.px].head ELSE n
      /\ \A s \in Side, p \in Prices :
           ~(s = c.side /\ p = c.px) => u.levels[s][p] = b.levels[s][p]
  BY RestFacts
<1>5. \A z \in Live(b) :
        /\ z # n /\ z # NIL /\ b.pool[z].side \in Side /\ b.pool[z].px \in Prices
        /\ u.pool[z].px = b.pool[z].px /\ u.pool[z].side = b.pool[z].side
        /\ u.pool[z].next = IF z = tail THEN n ELSE b.pool[z].next
        /\ u.pool[z].prev = b.pool[z].prev
  BY RestFacts
<1> HIDE DEF tail
<1>6. CASE m = n
  <2>1. tail # NIL => tail \in At(u, c.side, c.px) /\ u.pool[tail].next = n
    BY <1>1, <1>2, <1>3, <1>5
  <2> QED BY <1>4, <1>6, <2>1
<1>7. CASE m \in Live(b)
  <2> DEFINE side == b.pool[m].side
             px == b.pool[m].px
  <2>1. /\ IF b.pool[m].next = NIL THEN b.levels[side][px].tail = m
           ELSE b.pool[m].next \in At(b, side, px) /\ b.pool[b.pool[m].next].prev = m
        /\ IF b.pool[m].prev = NIL THEN b.levels[side][px].head = m
           ELSE b.pool[m].prev \in At(b, side, px) /\ b.pool[b.pool[m].prev].next = m
    BY <1>7 DEF Shape, LinksOK
  <2>2. m \in At(b, side, px) /\ side \in Side /\ px \in Prices
    BY <1>5, <1>7 DEF At
  <2>3. At(b, side, px) \subseteq At(u, side, px)
    BY <1>1
  <2>4. side = c.side /\ px = c.px => tail # NIL
    BY <1>2, <2>2
  <2>5. u.pool[m].side = side /\ u.pool[m].px = px
    BY <1>5, <1>7
  <2> HIDE DEF side, px
  <2>6. IF u.pool[m].next = NIL THEN u.levels[side][px].tail = m
        ELSE u.pool[m].next \in At(u, side, px) /\ u.pool[u.pool[m].next].prev = m
    <3>1. CASE m = tail
      <4>1. side = c.side /\ px = c.px
        BY <1>2, <1>3, <1>5, <1>7, <3>1 DEF side, px
      <4> QED BY <1>1, <1>4, <1>5, <1>7, <3>1, <4>1
    <3>2. CASE m # tail
      <4>1. u.pool[m].next = b.pool[m].next
        BY <1>5, <1>7, <3>2
      <4>2. CASE b.pool[m].next = NIL
        <5>1. b.levels[side][px].tail = m
          BY <2>1, <4>2
        <5>2. ~(side = c.side /\ px = c.px)
          BY <3>2, <5>1 DEF tail
        <5> QED BY <1>4, <2>2, <4>1, <4>2, <5>1, <5>2
      <4>3. CASE b.pool[m].next # NIL
        BY <1>3, <1>5, <2>1, <2>3, <4>1, <4>3
      <4> QED BY <4>2, <4>3
    <3> QED BY <3>1, <3>2
  <2>7. IF u.pool[m].prev = NIL THEN u.levels[side][px].head = m
        ELSE u.pool[m].prev \in At(u, side, px) /\ u.pool[u.pool[m].prev].next = m
    <3>1. u.pool[m].prev = b.pool[m].prev
      BY <1>5, <1>7
    <3>2. CASE b.pool[m].prev = NIL
      BY <1>4, <2>1, <2>2, <2>4, <3>1, <3>2
    <3>3. CASE b.pool[m].prev # NIL
      <4>1. b.pool[m].prev # tail
        BY <1>2, <1>5, <1>7, <2>1, <3>3
      <4> QED BY <1>3, <1>5, <2>1, <2>3, <3>1, <3>3, <4>1
    <3> QED BY <3>2, <3>3
  <2> QED BY <2>5, <2>6, <2>7
<1> QED BY <1>1, <1>6, <1>7

LEMMA RestKeepsEnds ==
  ASSUME NEW b, Shape(b), NEW c, NEW remaining, Restable(b, c, remaining),
         NEW n, NEW u, Rested(b, c, remaining, n, u)
  PROVE  EndsOK(u)
<1> DEFINE tail == b.levels[c.side][c.px].tail
<1> SUFFICES ASSUME NEW s \in Side, NEW p \in Prices
             PROVE  LET l == u.levels[s][p]
                    IN /\ l.head # NIL => l.head \in At(u, s, p) /\ u.pool[l.head].prev = NIL
                       /\ l.tail # NIL => l.tail \in At(u, s, p) /\ u.pool[l.tail].next = NIL
  BY DEF EndsOK
<1>1. At(u, s, p) = IF s = c.side /\ p = c.px THEN At(b, s, p) \cup {n} ELSE At(b, s, p)
  BY RestLive
<1>2. \A z \in At(b, s, p) : z \in Live(b) /\ b.pool[z].side = s /\ b.pool[z].px = p
  BY DEF At
<1>3. /\ u.pool[n].next = NIL /\ u.pool[n].prev = tail
      /\ u.levels[c.side][c.px].tail = n
      /\ u.levels[c.side][c.px].head = IF tail # NIL THEN b.levels[c.side][c.px].head ELSE n
      /\ ~(s = c.side /\ p = c.px) => u.levels[s][p] = b.levels[s][p]
  BY RestFacts
<1>4. \A z \in Live(b) : /\ u.pool[z].next = IF z = tail THEN n ELSE b.pool[z].next
                         /\ u.pool[z].prev = b.pool[z].prev
  BY RestFacts
<1>5. /\ b.levels[s][p].head # NIL =>
           b.levels[s][p].head \in At(b, s, p) /\ b.pool[b.levels[s][p].head].prev = NIL
      /\ b.levels[s][p].tail # NIL =>
           b.levels[s][p].tail \in At(b, s, p) /\ b.pool[b.levels[s][p].tail].next = NIL
  BY DEF Shape, EndsOK
<1>6. CASE s = c.side /\ p = c.px
  BY <1>1, <1>2, <1>3, <1>4, <1>5, <1>6
<1>7. CASE ~(s = c.side /\ p = c.px)
  <2>1. tail # NIL => tail \notin At(b, s, p)
    <3>1. c.side \in Side /\ c.px \in Prices
      BY RestLive
    <3>2. tail # NIL => tail \in At(b, c.side, c.px)
      BY <3>1 DEF Shape, EndsOK
    <3> QED BY <1>7, <3>2 DEF At
  <2>2. \A z \in At(b, s, p) : z # NIL
    BY LiveNode DEF At, Shape
  <2>3. u.levels[s][p] = b.levels[s][p] /\ At(u, s, p) = At(b, s, p)
    BY <1>1, <1>3, <1>7
  <2>4. \A z \in At(b, s, p) : u.pool[z].next = b.pool[z].next /\ u.pool[z].prev = b.pool[z].prev
    BY <1>2, <1>4, <2>1, <2>2
  <2> QED BY <1>5, <2>3, <2>4
<1> QED BY <1>6, <1>7

LEMMA RestKeepsCounts ==
  ASSUME NEW b, Shape(b), NEW c, NEW remaining, Restable(b, c, remaining),
         NEW n, NEW u, Rested(b, c, remaining, n, u)
  PROVE  CountsOK(u) /\ u.levels[c.side][c.px].count # 0
<1>1. n \notin Live(b) /\ c.side \in Side /\ c.px \in Prices
  BY RestLive
<1>2. /\ u.levels[c.side][c.px].count = b.levels[c.side][c.px].count + 1
      /\ \A s \in Side, p \in Prices :
           ~(s = c.side /\ p = c.px) => u.levels[s][p] = b.levels[s][p]
  BY RestFacts
<1>3. ASSUME NEW s \in Side, NEW p \in Prices
      PROVE  u.levels[s][p].count = Cardinality(At(u, s, p))
  <2>1. IsFiniteSet(At(b, s, p)) /\ n \notin At(b, s, p)
    <3>1. IsFiniteSet(At(b, s, p))
      BY FiniteNodes DEF Shape
    <3> QED BY <1>1, <3>1 DEF At
  <2>2. b.levels[s][p].count = Cardinality(At(b, s, p))
    BY DEF Shape, CountsOK
  <2>3. At(u, s, p) = IF s = c.side /\ p = c.px THEN At(b, s, p) \cup {n} ELSE At(b, s, p)
    BY RestLive
  <2>4. Cardinality(At(b, s, p) \cup {n}) = Cardinality(At(b, s, p)) + 1
    BY <2>1, FS_AddElement
  <2> QED BY <1>2, <2>2, <2>3, <2>4
<1>4. u.levels[c.side][c.px].count # 0
  <2>1. b.levels[c.side][c.px].count \in Nat
    <3>1. IsFiniteSet(At(b, c.side, c.px))
      BY FiniteNodes DEF Shape
    <3> QED BY <1>1, <3>1, CardinalityNat DEF Shape, CountsOK
  <2> QED BY <1>2, <2>1
<1> QED BY <1>3, <1>4 DEF CountsOK

LEMMA RestChains ==
  ASSUME NEW b, Shape(b), NEW c, NEW remaining, Restable(b, c, remaining),
         NEW n, NEW u, Rested(b, c, remaining, n, u),
         NEW s \in Side, NEW p \in Prices, NEW d \in LevelChains(b, s, p)
  PROVE  /\ s = c.side /\ p = c.px =>
              Extending(d, Cardinality(At(b, s, p)), n) \in LevelChains(u, s, p)
         /\ ~(s = c.side /\ p = c.px) => d \in LevelChains(u, s, p)
<1> DEFINE tail == b.levels[c.side][c.px].tail
<1>1. /\ n \notin Live(b) /\ c.side \in Side /\ c.px \in Prices
      /\ FreeNodes(u) = FreeNodes(b) \ {n}
      /\ \A t, r : At(u, t, r) = IF t = c.side /\ r = c.px THEN At(b, t, r) \cup {n}
                                                           ELSE At(b, t, r)
  BY RestLive
<1>2. /\ tail = NIL => At(b, c.side, c.px) = {}
      /\ tail # NIL => tail \in At(b, c.side, c.px)
  BY <1>1, ListEnds DEF Shape, EndsOK
<1>3. /\ u.pool[n].next = NIL
      /\ u.levels[c.side][c.px].head = IF tail # NIL THEN b.levels[c.side][c.px].head ELSE n
      /\ \A t \in Side, r \in Prices :
           ~(t = c.side /\ r = c.px) => u.levels[t][r] = b.levels[t][r]
      /\ \A z \in Live(b) : z # NIL /\ u.pool[z].next = IF z = tail THEN n ELSE b.pool[z].next
  BY RestFacts
<1> QED
  <2> DEFINE S == At(b, s, p)
             first == b.levels[s][p].head
  <2>1. IsFiniteSet(S) /\ S \subseteq Live(b) /\ NIL \notin S /\ n \notin S
    <3>1. IsFiniteSet(S)
      BY FiniteNodes DEF Shape
    <3>2. NIL \notin Live(b)
      BY LiveNode DEF Shape
    <3> QED BY <1>1, <3>1, <3>2 DEF At
  <2>2. d \in Chains(b, S, first)
    BY DEF LevelChains
  <2>3. CASE s = c.side /\ p = c.px
    <3>1. \A m \in S : b.pool[m].next = NIL <=> m = tail
      BY <2>3, ListEnds
    <3>2. S = {} <=> tail = NIL
      BY <1>2, <2>3
    <3>3. Appended(b, S, first, n, u, u.levels[s][p].head)
      BY <1>3, <2>1, <2>3, <3>1, <3>2 DEF Appended
    <3> HIDE DEF S, first
    <3>4. Extending(d, Cardinality(S), n) \in Chains(u, S \cup {n}, u.levels[s][p].head)
      BY <2>1, <2>2, <3>3, ChainAppend
    <3> QED BY <1>1, <2>3, <3>4 DEF LevelChains, S
  <2>4. CASE ~(s = c.side /\ p = c.px)
    <3>1. tail \notin S
      BY <1>2, <2>1, <2>4 DEF At
    <3>2. \A m \in S : u.pool[m].next = b.pool[m].next
      BY <1>3, <2>1, <3>1
    <3>3. d \in Chains(u, S, first)
      BY <2>1, <2>2, <3>2, ChainSame
    <3> QED BY <1>1, <1>3, <2>4, <3>3 DEF LevelChains
  <2> QED BY <2>3, <2>4

LEMMA RestKeepsLists ==
  ASSUME NEW b, Shape(b), NEW c, NEW remaining, Restable(b, c, remaining),
         NEW n, NEW u, Rested(b, c, remaining, n, u)
  PROVE  Listed(u)
<1> DEFINE tail == b.levels[c.side][c.px].tail
<1>1. /\ n \notin Live(b) /\ c.side \in Side /\ c.px \in Prices
      /\ FreeNodes(u) = FreeNodes(b) \ {n}
      /\ \A s, p : At(u, s, p) = IF s = c.side /\ p = c.px THEN At(b, s, p) \cup {n}
                                                           ELSE At(b, s, p)
  BY RestLive
<1>2. /\ tail = NIL => At(b, c.side, c.px) = {}
      /\ tail # NIL => tail \in At(b, c.side, c.px)
  BY <1>1, ListEnds DEF Shape, EndsOK
<1>3. /\ u.pool[n].next = NIL
      /\ u.levels[c.side][c.px].head = IF tail # NIL THEN b.levels[c.side][c.px].head ELSE n
      /\ \A s \in Side, p \in Prices :
           ~(s = c.side /\ p = c.px) => u.levels[s][p] = b.levels[s][p]
      /\ \A z \in Live(b) : z # NIL /\ u.pool[z].next = IF z = tail THEN n ELSE b.pool[z].next
  BY RestFacts
<1>4. \A m \in FreeNodes(b) \ {n} : u.pool[m].next = b.pool[m].next
  <2>1. \A m \in Nodes(b) \ {n} : u.pool[m].next = IF m = tail THEN n ELSE b.pool[m].next
    BY DEF Rested, RestedPool
  <2>2. tail \notin FreeNodes(b)
    BY <1>2 DEF FreeNodes, At, Nodes, NIL
  <2> QED BY <2>1, <2>2 DEF FreeNodes
<1>5. Chains(u, FreeNodes(u), u.free) # {}
  <2> DEFINE F == FreeNodes(b)
  <2>1. PICK d \in Chains(b, F, b.free) : TRUE
    BY DEF Shape, Listed
  <2>2. IsFiniteSet(F) /\ IsChain(b, F, b.free, d, Cardinality(F))
    BY <2>1, FiniteNodes, ChainElim DEF Shape
  <2>3. IF b.free = NIL THEN F = {} ELSE n = b.free /\ n \in F
    BY AllocIsFree DEF Rested
  <2>4. u.free = IF b.free # NIL THEN b.pool[b.free].next ELSE NIL
    BY DEF Rested, FreeAfterAlloc
  <2> HIDE DEF F
  <2>5. CASE b.free = NIL
    <3>1. F = {} /\ FreeNodes(u) = {} /\ u.free = NIL /\ b.free = NIL
      BY <1>1, <2>3, <2>4, <2>5 DEF F
    <3>2. IsChain(u, F, b.free, d, Cardinality(F))
      BY <2>2, <3>1 DEF IsChain
    <3>3. Chains(u, F, b.free) # {}
      BY <3>2, ChainIntro
    <3> QED BY <3>1, <3>3
  <2>6. CASE b.free # NIL
    <3>1. n = d[1] /\ 1 \in 1 .. Cardinality(F) /\ n \in F
      BY <2>2, <2>3, <2>6 DEF IsChain
    <3>2. Bypassed(b, F, b.free, d, 1, u, u.free)
      BY <1>4, <2>3, <2>4, <2>6, <3>1 DEF Bypassed, F
    <3>3. Chains(u, F \ {d[1]}, u.free) # {}
      BY <2>1, <2>2, <3>2, ChainRemove
    <3> QED BY <1>1, <3>1, <3>3 DEF F
  <2> QED BY <2>5, <2>6
<1>6. ASSUME NEW s \in Side, NEW p \in Prices
      PROVE  LevelChains(u, s, p) # {}
  <2>1. PICK d \in LevelChains(b, s, p) : TRUE
    BY DEF Shape, Listed
  <2> QED BY <2>1, RestChains
<1> QED BY <1>5, <1>6 DEF Listed

LEMMA RestKeepsBest ==
  ASSUME NEW b, Shape(b), NEW c, NEW remaining, Restable(b, c, remaining),
         NEW u, u = Rest(b, c, remaining)
  PROVE  u.best \in [Side -> Prices \cup {NoPrice}] /\ BestOK(u) /\ BestHeld(u)
<1>1. Rested(b, c, remaining, Alloc(b), u)
  BY RestIsRested
<1>2. /\ c.side \in Side /\ c.px \in Prices
      /\ u.levels[c.side][c.px].count # 0
      /\ \A s \in Side, p \in Prices :
           ~(s = c.side /\ p = c.px) => u.levels[s][p] = b.levels[s][p]
  BY <1>1, RestLive, RestKeepsCounts, RestFacts
<1>3. b.best \in [Side -> Prices \cup {NoPrice}]
  BY DEF Shape, BookType
<1>4. u.best = IF b.best[c.side] = NoPrice \/ Better(c.side, c.px, b.best[c.side])
               THEN [b.best EXCEPT ![c.side] = c.px] ELSE b.best
  BY DEF Rest
<1>5. \A s \in Side, p \in Prices :
        b.levels[s][p].count # 0 => b.best[s] # NoPrice /\ ~Better(s, p, b.best[s])
  BY DEF Shape, BestOK
<1>6. \A s \in Side : b.best[s] # NoPrice => b.levels[s][b.best[s]].count # 0
  BY DEF Shape, BestHeld
<1>7. /\ u.best \in [Side -> Prices \cup {NoPrice}]
      /\ \A s \in Side : s # c.side => u.best[s] = b.best[s]
      /\ \/ u.best[c.side] = c.px
            /\ (b.best[c.side] = NoPrice \/ Better(c.side, c.px, b.best[c.side]))
         \/ u.best[c.side] = b.best[c.side]
            /\ b.best[c.side] # NoPrice /\ ~Better(c.side, c.px, b.best[c.side])
  BY <1>2, <1>3, <1>4
<1>8. ASSUME NEW s \in Side, NEW p \in Prices, u.levels[s][p].count # 0
      PROVE  u.best[s] # NoPrice /\ ~Better(s, p, u.best[s])
  <2>1. CASE s # c.side
    BY <1>2, <1>5, <1>7, <1>8, <2>1
  <2>2. CASE s = c.side /\ p # c.px
    <3>1. b.best[s] \in Prices /\ b.best[s] # NoPrice /\ ~Better(s, p, b.best[s])
      BY <1>2, <1>3, <1>5, <1>8, <2>2
    <3>2. \/ u.best[s] = c.px /\ Better(s, c.px, b.best[s])
          \/ u.best[s] = b.best[s]
      BY <1>7, <2>2, <3>1
    <3>3. c.px \in Int /\ p \in Int /\ b.best[s] \in Int /\ c.px # NoPrice
      BY <1>2, <3>1, PricesNat
    <3> QED BY <3>1, <3>2, <3>3 DEF Better
  <2>3. CASE s = c.side /\ p = c.px
    BY <1>2, <1>7, <2>3, PricesNat DEF Better
  <2> QED BY <2>1, <2>2, <2>3
<1>9. ASSUME NEW s \in Side, u.best[s] # NoPrice
      PROVE  u.levels[s][u.best[s]].count # 0
  <2>1. u.best[s] \in Prices
    BY <1>7, <1>9
  <2>2. CASE s = c.side /\ u.best[s] = c.px
    BY <1>2, <2>2
  <2>3. CASE ~(s = c.side /\ u.best[s] = c.px)
    <3>1. u.best[s] = b.best[s]
      BY <1>7, <2>3
    <3> QED BY <1>2, <1>6, <1>9, <2>1, <2>3, <3>1
  <2> QED BY <2>2, <2>3
<1> QED BY <1>7, <1>8, <1>9 DEF BestOK, BestHeld

LEMMA RestKeepsType ==
  ASSUME NEW b, Shape(b), NEW c, NEW remaining, Restable(b, c, remaining),
         NEW u, u = Rest(b, c, remaining), u.best \in [Side -> Prices \cup {NoPrice}]
  PROVE  BookType(u)
<1> DEFINE n == Alloc(b)
           lvl == b.levels[c.side][c.px]
           level == [head |-> IF lvl.tail # NIL THEN lvl.head ELSE n, tail |-> n,
                     qty  |-> lvl.qty + remaining, count |-> lvl.count + 1]
<1>1. /\ c.side \in Side /\ c.px \in Prices /\ c.id \in Ids /\ c.agent \in Agents
      /\ remaining \in Nat
  BY NewOrderFields DEF Restable
<1>2. /\ b.levels \in [Side -> [Prices -> LevelType]] /\ b.pool \in Seq(NodeType)
      /\ b.free \in Nodes(b) \cup {NIL} /\ DOMAIN b.index \subseteq Ids
      /\ \A i \in DOMAIN b.index : b.index[i] \in Nodes(b)
  BY DEF Shape, BookType
<1>3. /\ n \in Nat /\ Len(Grown(b)) \in Nat /\ 1 .. Len(Grown(b)) = Nodes(b) \cup {n}
  BY AllocIsFree
<1>4. Rested(b, c, remaining, n, u)
  BY RestIsRested
<1>5. /\ u.levels = [b.levels EXCEPT ![c.side] = [@ EXCEPT ![c.px] = level]]
      /\ u = [levels |-> u.levels, best |-> u.best, pool |-> u.pool, free |-> u.free,
              index |-> u.index]
      /\ u.pool = [m \in 1 .. Len(Grown(b)) |-> u.pool[m]]
  BY DEF Rest
<1>6. lvl \in LevelType
  BY <1>1, <1>2
<1>7. u.levels \in [Side -> [Prices -> LevelType]]
  <2> HIDE DEF lvl, n
  <2>1. level \in LevelType
    BY <1>1, <1>3, <1>6 DEF LevelType
  <2> HIDE DEF level
  <2> QED BY <1>1, <1>2, <1>5, <2>1
<1>8. u.pool \in Seq(NodeType)
  <2>1. u.pool[n] \in NodeType
    <3>1. u.pool[n] = [id |-> c.id, agent |-> c.agent, remaining |-> remaining, px |-> c.px,
                       side |-> c.side, next |-> NIL, prev |-> lvl.tail]
      BY <1>4 DEF Rested, RestedPool
    <3>2. lvl.tail \in Nat
      BY <1>6 DEF LevelType
    <3> HIDE DEF lvl
    <3> QED BY <1>1, <3>1, <3>2 DEF NodeType, NIL
  <2>2. \A m \in Nodes(b) \ {n} : u.pool[m] \in NodeType
    BY <1>4 DEF Rested, RestedPool
  <2>3. \A m \in 1 .. Len(Grown(b)) : u.pool[m] \in NodeType
    BY <1>3, <2>1, <2>2
  <2> QED BY <1>3, <1>5, <2>3
<1>9. Nodes(u) = Nodes(b) \cup {n}
  BY <1>4 DEF Rested
<1>10. u.free \in Nodes(u) \cup {NIL}
  <2>1. u.free = IF b.free # NIL THEN b.pool[b.free].next ELSE NIL
    BY <1>4 DEF Rested, FreeAfterAlloc
  <2>2. CASE b.free # NIL
    <3>1. PICK d \in Chains(b, FreeNodes(b), b.free) : TRUE
      BY DEF Shape, Listed
    <3>2. IsChain(b, FreeNodes(b), b.free, d, Cardinality(FreeNodes(b)))
      BY <3>1, FiniteNodes, ChainElim DEF Shape
    <3>3. b.pool[b.free].next \in FreeNodes(b) \cup {NIL}
      BY <2>2, <3>2 DEF IsChain
    <3> QED BY <1>9, <2>1, <2>2, <3>3 DEF FreeNodes
  <2> QED BY <2>1, <2>2
<1>11. DOMAIN u.index \subseteq Ids /\ \A i \in DOMAIN u.index : u.index[i] \in Nodes(u)
  <2>1. /\ DOMAIN u.index = DOMAIN b.index \cup {c.id} /\ u.index[c.id] = n
        /\ \A i \in DOMAIN b.index : u.index[i] = b.index[i]
    BY <1>4 DEF Rested
  <2> QED BY <1>1, <1>2, <1>9, <2>1
<1> QED BY <1>5, <1>7, <1>8, <1>10, <1>11 DEF BookType

\* an order put at the end of its level keeps the shape of the book
LEMMA RestKeepsShape ==
  ASSUME NEW b, Shape(b), NEW c, NEW remaining, Restable(b, c, remaining),
         NEW u, u = Rest(b, c, remaining)
  PROVE  Shape(u) /\ Rested(b, c, remaining, Alloc(b), u)
<1>1. Rested(b, c, remaining, Alloc(b), u)
  BY RestIsRested
<1>2. u.best \in [Side -> Prices \cup {NoPrice}] /\ BestOK(u) /\ BestHeld(u)
  BY RestKeepsBest
<1>3. BookType(u)
  BY <1>2, RestKeepsType
<1>4. Named(u)
  BY <1>1, RestLive
<1>5. LinksOK(u)
  BY <1>1, RestKeepsLinks
<1>6. EndsOK(u)
  BY <1>1, RestKeepsEnds
<1>7. CountsOK(u)
  BY <1>1, RestKeepsCounts
<1>8. Listed(u)
  BY <1>1, RestKeepsLists
<1> QED BY <1>1, <1>2, <1>3, <1>4, <1>5, <1>6, <1>7, <1>8 DEF Shape

----------------------------------------------------------------------------
(* The invariant.  While a call of add is in progress its command is one   *)
(* that passed the early returns, and as long as the taker wants more the  *)
(* cursor is the head of the level being eaten - NIL included, and a list  *)
(* that is one has the head NIL only when it is empty.  That is why the    *)
(* walk never runs off a level that still holds an order.                  *)

CallOK ==
  /\ phase \in {"idle", "match", "walk"}
  /\ phase # "idle" =>
       /\ call = [cmd |-> call.cmd, remaining |-> call.remaining, px |-> call.px,
                  cur |-> call.cur, fills |-> call.fills, stp |-> call.stp]
       /\ call.cmd \in NewOrders /\ call.cmd.px \in Prices
       /\ call.cmd.id \notin DOMAIN book.index
       /\ call.remaining \in Nat
       /\ call.px \in Prices \cup {NoPrice}
       /\ call.cur \in Nodes(book) \cup {NIL}

AtHead ==
  phase = "walk" =>
    /\ call.px \in Prices
    /\ call.remaining > 0 =>
         call.cur = book.levels[Opposite(call.cmd.side)][call.px].head

BookInv == Shape(book) /\ Positive(book) /\ CallOK /\ AtHead /\ Uncrossed

\* the free list that is one hands out no live node and no node twice
LEMMA FreeListOK ==
  ASSUME NEW b, Shape(b)
  PROVE  FreeOK(b)
<1> DEFINE F == FreeNodes(b)
           k == Cardinality(F)
<1>1. PICK c \in Chains(b, F, b.free) : TRUE
  BY DEF Shape, Listed
<1>2. IsFiniteSet(F)
  BY FiniteNodes DEF Shape
<1>3. /\ IsChain(b, F, b.free, c, k)
      /\ \A n \in F : \E i \in 1 .. k : c[i] = n
  BY <1>1, <1>2, ChainElim
<1>4. NIL \notin F
  BY DEF FreeNodes, Nodes, NIL
<1> HIDE DEF F, k
<1>5. b.free # NIL => b.free \in F
  BY <1>3 DEF IsChain
<1>6. ASSUME NEW n \in F, b.pool[n].next # NIL
      PROVE  /\ b.pool[n].next \in F
             /\ b.pool[n].next # b.free
             /\ \A m \in F : b.pool[m].next = b.pool[n].next => m = n
  <2>1. PICK i \in 1 .. k : c[i] = n
    BY <1>3
  <2>2. i # k /\ i + 1 \in 1 .. k /\ b.pool[n].next = c[i + 1] /\ c[i + 1] \in F
    BY <1>3, <1>6, <2>1 DEF IsChain
  <2>3. c[i + 1] # b.free
    BY <1>3, <2>1, <2>2 DEF IsChain
  <2>4. ASSUME NEW m \in F, b.pool[m].next = b.pool[n].next PROVE m = n
    <3>1. PICK j \in 1 .. k : c[j] = m
      BY <1>3
    <3>2. j # k /\ j + 1 \in 1 .. k /\ c[j + 1] = c[i + 1]
      BY <1>3, <1>6, <2>2, <2>4, <3>1 DEF IsChain
    <3>3. j = i
      BY <1>3, <2>1, <2>2, <3>1, <3>2 DEF IsChain
    <3> QED BY <2>1, <3>1, <3>3
  <2> QED BY <2>2, <2>3, <2>4
<1> QED BY <1>5, <1>6 DEF FreeOK, F, FreeNodes, Nodes

LEMMA EmptyCounts ==
  ASSUME NEW b, Shape(b), NEW s \in Side, NEW p \in Prices, b.levels[s][p].head = NIL
  PROVE  b.levels[s][p].count = 0
<1>1. At(b, s, p) = {}
  BY ListEnds
<1> QED BY <1>1, FS_EmptySet DEF Shape, CountsOK

LEMMA OppositeSide == \A s \in Side : Opposite(s) \in Side
  BY DEF Opposite, Side

\* the invariant implies the property the runs check
LEMMA InvStructure == BookInv => StructureOK
<1> SUFFICES ASSUME BookInv PROVE StructureOK
  OBVIOUS
<1>1. Shape(book) /\ Positive(book) /\ CallOK /\ AtHead /\ Uncrossed
  BY DEF BookInv
<1>2. TypeOK
  BY <1>1 DEF CallOK, Shape, BookType, TypeOK, Nodes, NodeNumbers
<1>3. IndexOK(book)
  BY <1>1 DEF Shape, Named, Positive, Live, IndexOK
<1>4. Structure(book)
  BY <1>1, <1>3, FreeListOK DEF Shape, Structure
<1>5. CursorOK
  BY <1>1 DEF AtHead, CursorOK
<1>6. LevelEaten
  <2> SUFFICES ASSUME phase = "walk", call.cur = NIL, call.remaining > 0
               PROVE  book.levels[Opposite(call.cmd.side)][call.px].count = 0
    BY DEF LevelEaten
  <2>1. /\ call.px \in Prices /\ Opposite(call.cmd.side) \in Side
        /\ book.levels[Opposite(call.cmd.side)][call.px].head = NIL
    BY <1>1, NewOrderFields, OppositeSide DEF AtHead, CallOK
  <2> QED BY <1>1, <2>1, EmptyCounts
<1> QED BY <1>1, <1>2, <1>4, <1>5, <1>6 DEF StructureOK

\* the empty book
LEMMA InvInit == Init => BookInv
<1> SUFFICES ASSUME Init PROVE BookInv
  OBVIOUS
<1>1. /\ book = EmptyBook /\ phase = "idle"
  BY DEF Init
<1>2. /\ book.levels = [s \in Side |-> [p \in Prices |-> EmptyLevel]]
      /\ book.best = [s \in Side |-> NoPrice] /\ book.pool = <<>> /\ book.free = NIL
      /\ DOMAIN book.index = {}
      /\ book = [levels |-> book.levels, best |-> book.best, pool |-> book.pool,
                 free |-> book.free, index |-> book.index]
  BY <1>1 DEF EmptyBook
<1>3. /\ Live(book) = {} /\ Nodes(book) = {} /\ FreeNodes(book) = {}
      /\ \A s, p : At(book, s, p) = {}
  BY <1>2 DEF Live, Nodes, FreeNodes, At
<1>4. EmptyLevel \in LevelType /\ EmptyLevel.head = NIL /\ EmptyLevel.tail = NIL
      /\ EmptyLevel.count = 0
  BY DEF EmptyLevel, LevelType, NIL
<1>5. BookType(book)
  BY <1>2, <1>4 DEF BookType
<1>6. Cardinality({}) = 0
  BY FS_EmptySet
<1>7. Chains(book, {}, NIL) # {}
  <2>1. IsChain(book, {}, NIL, [i \in 1 .. 0 |-> NIL], 0)
    BY <1>6 DEF IsChain
  <2> QED BY <2>1, ChainIntro
<1>a. \A s \in Side, p \in Prices :
        /\ book.levels[s][p].head = NIL /\ book.levels[s][p].tail = NIL
        /\ book.levels[s][p].count = 0
  BY <1>2, <1>4
<1>8. Listed(book)
  <2>1. \A s \in Side, p \in Prices : LevelChains(book, s, p) # {}
    BY <1>3, <1>7, <1>a DEF LevelChains
  <2> QED BY <1>2, <1>3, <1>7, <2>1 DEF Listed
<1>9. LinksOK(book) /\ Named(book) /\ Positive(book)
  BY <1>2, <1>3 DEF LinksOK, Named, Positive
<1>10. EndsOK(book) /\ CountsOK(book)
  BY <1>3, <1>6, <1>a DEF EndsOK, CountsOK
<1>11. BestOK(book) /\ BestHeld(book) /\ Uncrossed
  BY <1>2, <1>a DEF BestOK, BestHeld, Uncrossed, Side
<1> QED BY <1>1, <1>5, <1>8, <1>9, <1>10, <1>11 DEF BookInv, Shape, CallOK, AtHead

\* what unlink means to the call in progress
LEMMA UnlinkEffect ==
  ASSUME NEW b, Shape(b), NEW n \in Live(b), NEW u, u = Unlink(b, n)
  PROVE  /\ Shape(u) /\ Nodes(u) = Nodes(b) /\ Live(u) = Live(b) \ {n}
         /\ DOMAIN u.index \subseteq DOMAIN b.index
         /\ \A m \in Live(u) : u.pool[m].remaining = b.pool[m].remaining
         /\ \A s \in Side, p \in Prices :
              u.levels[s][p].count # 0 => b.levels[s][p].count # 0
         /\ b.pool[n].prev = NIL =>
              u.levels[b.pool[n].side][b.pool[n].px].head = b.pool[n].next
<1>1. Shape(u) /\ Unlinked(b, n, u)
  BY UnlinkKeepsShape
<1>2. Nodes(u) = Nodes(b) /\ Live(u) = Live(b) \ {n} /\ Live(b) \subseteq Nodes(b)
  BY <1>1, UnlinkLive, LiveNode DEF Shape
<1>3. b.levels[b.pool[n].side][b.pool[n].px].count # 0
  BY <1>1, UnlinkKeepsCounts DEF Shape
<1>4. b.pool[n].prev = NIL => u.levels[b.pool[n].side][b.pool[n].px].head = b.pool[n].next
  BY <1>1 DEF Unlinked, UnlinkedLevels
<1>5. \A s \in Side, p \in Prices :
        u.levels[s][p].count # 0 => b.levels[s][p].count # 0
  BY <1>1, <1>3 DEF Unlinked, UnlinkedLevels
<1>6. DOMAIN u.index \subseteq DOMAIN b.index
  BY <1>1 DEF Unlinked
<1>7. \A m \in Live(u) : u.pool[m].remaining = b.pool[m].remaining
  BY <1>1, <1>2 DEF Unlinked, UnlinkedPool
<1> QED BY <1>1, <1>2, <1>4, <1>5, <1>6, <1>7

\* the node the walk stands on
LEMMA WalkedNode ==
  ASSUME BookInv, Walking, NEW n, n = call.cur
  PROVE  /\ n \in Live(book) /\ book.pool[n].prev = NIL
         /\ book.pool[n].side = Opposite(call.cmd.side) /\ book.pool[n].px = call.px
         /\ book.pool[n].next \in Nodes(book) \cup {NIL}
         /\ book.pool[n].remaining \in Nat /\ book.pool[n].remaining > 0
         /\ Opposite(call.cmd.side) \in Side /\ call.px \in Prices
<1>1. /\ call.px \in Prices /\ Opposite(call.cmd.side) \in Side /\ n # NIL
      /\ book.levels[Opposite(call.cmd.side)][call.px].head = n
  BY NewOrderFields, OppositeSide DEF Walking, BookInv, CallOK, AtHead
<1>2. n \in At(book, Opposite(call.cmd.side), call.px) /\ book.pool[n].prev = NIL
  BY <1>1 DEF BookInv, Shape, EndsOK
<1>3. /\ n \in Live(book) /\ book.pool[n].side = Opposite(call.cmd.side)
      /\ book.pool[n].px = call.px
  BY <1>2 DEF At
<1>4. book.pool[n].remaining > 0 /\ book.pool[n] \in NodeType
  BY <1>3, LiveNode DEF BookInv, Shape, Positive
<1>5. book.pool[n].next \in Nodes(book) \cup {NIL}
  <2>1. book.pool[n].next # NIL => book.pool[n].next \in Live(book)
    BY <1>3 DEF BookInv, Shape, LinksOK, At
  <2> QED BY <2>1, LiveNode DEF BookInv, Shape
<1> QED BY <1>1, <1>2, <1>3, <1>4, <1>5 DEF NodeType

LEMMA UncrossedFewer ==
  ASSUME Uncrossed,
         \A s \in Side, p \in Prices :
           book'.levels[s][p].count # 0 => book.levels[s][p].count # 0
  PROVE  Uncrossed'
<1>1. Buy \in Side /\ Sell \in Side
  BY DEF Side
<1> QED BY <1>1 DEF Uncrossed

\* b differs from the book in what is left of the cursor's node, if at all
Touched(b) ==
  /\ Shape(b) /\ Nodes(b) = Nodes(book) /\ Live(b) = Live(book) /\ b.index = book.index
  /\ \A m \in Live(book) \ {call.cur} : b.pool[m].remaining = book.pool[m].remaining
  /\ b.pool[call.cur].prev = NIL /\ b.pool[call.cur].next = book.pool[call.cur].next
  /\ b.pool[call.cur].side = book.pool[call.cur].side
  /\ b.pool[call.cur].px = book.pool[call.cur].px
  /\ \A s \in Side, p \in Prices : b.levels[s][p].count = book.levels[s][p].count

\* the walk takes its node off the level: for self-trade prevention, or filled
LEMMA StepOff ==
  ASSUME BookInv, Walking, NEW b, Touched(b), book' = Unlink(b, call.cur), phase' = phase,
         NEW remaining \in Nat, NEW fills, NEW stp,
         call' = [cmd |-> call.cmd, remaining |-> remaining, px |-> call.px,
                  cur |-> book.pool[call.cur].next, fills |-> fills, stp |-> stp]
  PROVE  BookInv'
<1> DEFINE n == call.cur
<1>1. /\ n \in Live(book) /\ book.pool[n].next \in Nodes(book) \cup {NIL}
      /\ book.pool[n].side = Opposite(call.cmd.side) /\ book.pool[n].px = call.px
      /\ Opposite(call.cmd.side) \in Side /\ call.px \in Prices
  BY WalkedNode
<1>2. /\ Shape(book') /\ Nodes(book') = Nodes(b) /\ Live(book') = Live(b) \ {n}
      /\ DOMAIN book'.index \subseteq DOMAIN b.index
      /\ \A m \in Live(book') : book'.pool[m].remaining = b.pool[m].remaining
      /\ \A s \in Side, p \in Prices :
           book'.levels[s][p].count # 0 => b.levels[s][p].count # 0
      /\ book'.levels[book.pool[n].side][book.pool[n].px].head = book.pool[n].next
      /\ Nodes(b) = Nodes(book) /\ Live(b) = Live(book) /\ b.index = book.index
      /\ \A m \in Live(book) \ {n} : b.pool[m].remaining = book.pool[m].remaining
      /\ \A s \in Side, p \in Prices : b.levels[s][p].count = book.levels[s][p].count
  <2>1. n \in Live(b) /\ Shape(b) /\ b.pool[n].prev = NIL
    BY <1>1 DEF Touched
  <2> HIDE DEF n
  <2>2. book' = Unlink(b, n)
    BY DEF n
  <2>3. /\ Shape(book') /\ Nodes(book') = Nodes(b) /\ Live(book') = Live(b) \ {n}
        /\ DOMAIN book'.index \subseteq DOMAIN b.index
        /\ \A m \in Live(book') : book'.pool[m].remaining = b.pool[m].remaining
        /\ \A s \in Side, p \in Prices :
             book'.levels[s][p].count # 0 => b.levels[s][p].count # 0
        /\ book'.levels[b.pool[n].side][b.pool[n].px].head = b.pool[n].next
    BY <2>1, <2>2, UnlinkEffect
  <2> QED BY <2>3 DEF Touched, n
<1>3. /\ call'.cmd = call.cmd /\ call'.remaining = remaining /\ call'.px = call.px
      /\ call'.cur = book.pool[n].next
      /\ call' = [cmd |-> call'.cmd, remaining |-> call'.remaining, px |-> call'.px,
                  cur |-> call'.cur, fills |-> call'.fills, stp |-> call'.stp]
  OBVIOUS
<1>4. phase = "walk"
  BY DEF Walking
<1>5. Positive(book')
  BY <1>2 DEF BookInv, Positive
<1>6. CallOK'
  BY <1>1, <1>2, <1>3, <1>4 DEF BookInv, CallOK
<1>7. AtHead'
  BY <1>1, <1>2, <1>3, <1>4 DEF AtHead
<1>8. Uncrossed'
  <2>1. \A s \in Side, p \in Prices :
          book'.levels[s][p].count # 0 => book.levels[s][p].count # 0
    BY <1>2
  <2> QED BY <2>1, UncrossedFewer DEF BookInv
<1> QED BY <1>2, <1>5, <1>6, <1>7, <1>8 DEF BookInv

LEMMA InvCancelOwn == BookInv /\ CancelOwn => BookInv'
<1> SUFFICES ASSUME BookInv, CancelOwn PROVE BookInv'
  OBVIOUS
<1>1. Walking /\ phase' = phase /\ book' = Unlink(book, call.cur)
  BY DEF CancelOwn
<1>2. /\ call.remaining \in Nat
      /\ call = [cmd |-> call.cmd, remaining |-> call.remaining, px |-> call.px,
                 cur |-> call.cur, fills |-> call.fills, stp |-> call.stp]
  BY <1>1 DEF BookInv, CallOK, Walking
<1>3. \E stp : call' = [call EXCEPT !.cur = book.pool[call.cur].next, !.stp = stp]
  BY DEF CancelOwn
<1>4. PICK stp : call' = [cmd |-> call.cmd, remaining |-> call.remaining, px |-> call.px,
                          cur |-> book.pool[call.cur].next, fills |-> call.fills, stp |-> stp]
  BY <1>2, <1>3
<1>5. book.pool[call.cur].prev = NIL
  BY <1>1, WalkedNode
<1>6. Touched(book)
  BY <1>5 DEF BookInv, Touched
<1> QED BY <1>1, <1>2, <1>4, <1>6, StepOff

LEMMA InvFillMaker == BookInv /\ FillMaker => BookInv'
<1> SUFFICES ASSUME BookInv, FillMaker PROVE BookInv'
  OBVIOUS
<1> DEFINE n == call.cur
           node == book.pool[n]
           tq == TradeQty(call.remaining, node.remaining)
           b == Reduce(book, n, tq)
<1>1. /\ Walking /\ phase' = phase /\ phase = "walk"
      /\ book' = IF node.remaining = tq THEN Unlink(b, n) ELSE b
  BY DEF FillMaker, Walking
<1>2. /\ call.remaining \in Nat /\ call.remaining > 0
      /\ call = [cmd |-> call.cmd, remaining |-> call.remaining, px |-> call.px,
                 cur |-> call.cur, fills |-> call.fills, stp |-> call.stp]
  BY <1>1 DEF BookInv, CallOK, Walking
<1>3. \E fills : call' = [call EXCEPT !.cur = node.next, !.remaining = call.remaining - tq,
                                      !.fills = fills]
  BY DEF FillMaker
<1>4. PICK fills : call' = [cmd |-> call.cmd, remaining |-> call.remaining - tq, px |-> call.px,
                            cur |-> node.next, fills |-> fills, stp |-> call.stp]
  BY <1>2, <1>3
<1>5. /\ n \in Live(book) /\ node.prev = NIL /\ node.next \in Nodes(book) \cup {NIL}
      /\ node.remaining \in Nat /\ node.remaining > 0
      /\ call.px \in Prices
  BY <1>1, WalkedNode
<1>6. /\ tq \in Nat /\ tq <= node.remaining /\ call.remaining - tq \in Nat
      /\ node.remaining # tq => call.remaining - tq = 0
  BY <1>2, <1>5 DEF TradeQty, Minimum
<1> HIDE DEF tq
<1>7. BookType(b) /\ Reduced(book, n, b) /\ b.pool[n].remaining = node.remaining - tq
  BY <1>5, <1>6, ReduceIsReduced DEF BookInv, Shape
<1> HIDE DEF b
<1>8. Shape(b) /\ Live(b) = Live(book) /\ Nodes(b) = Nodes(book)
  BY <1>5, <1>7, ReduceKeepsShape DEF BookInv
<1>9. Live(book) \subseteq Nodes(book)
  BY LiveNode DEF BookInv, Shape
<1>10. /\ b.index = book.index
       /\ \A m \in Live(book) \ {n} : b.pool[m].remaining = book.pool[m].remaining
       /\ b.pool[n].prev = node.prev /\ b.pool[n].next = node.next
       /\ b.pool[n].side = node.side /\ b.pool[n].px = node.px
       /\ \A s \in Side, p \in Prices : b.levels[s][p].count = book.levels[s][p].count
  BY <1>5, <1>7, <1>9 DEF Reduced
<1>11. CASE node.remaining = tq
  <2>1. book' = Unlink(b, n)
    BY <1>1, <1>11
  <2>2. Touched(b)
    BY <1>5, <1>8, <1>10 DEF Touched
  <2> QED BY <1>1, <1>4, <1>6, <2>1, <2>2, StepOff
<1>12. CASE node.remaining # tq
  <2>1. book' = b /\ call.remaining - tq = 0
    BY <1>1, <1>6, <1>12
  <2>2. /\ call'.cmd = call.cmd /\ call'.remaining = 0 /\ call'.px = call.px
        /\ call'.cur = node.next
        /\ call' = [cmd |-> call'.cmd, remaining |-> call'.remaining, px |-> call'.px,
                    cur |-> call'.cur, fills |-> call'.fills, stp |-> call'.stp]
    BY <1>4, <2>1
  <2>3. Positive(book')
    <3>1. b.pool[n].remaining > 0
      BY <1>5, <1>6, <1>7, <1>12
    <3> QED BY <1>8, <1>10, <2>1, <3>1 DEF BookInv, Positive
  <2>4. CallOK'
    BY <1>1, <1>5, <1>8, <1>10, <2>1, <2>2 DEF BookInv, CallOK
  <2>5. AtHead'
    BY <1>5, <2>2 DEF AtHead
  <2>6. Uncrossed'
    BY <1>10, <2>1, UncrossedFewer DEF BookInv
  <2> QED BY <1>8, <2>1, <2>3, <2>4, <2>5, <2>6 DEF BookInv
<1> QED BY <1>11, <1>12

\* the steps that leave the book alone
LEMMA InvSameBook ==
  ASSUME BookInv, book' = book, CallOK', AtHead'
  PROVE  BookInv'
  BY DEF BookInv, Uncrossed

LEMMA InvStartAdd ==
  ASSUME BookInv, NEW c \in NewOrders, StartAdd(c)
  PROVE  BookInv'
<1>1. /\ book' = book /\ phase' = "match" /\ AddReason(book, c) = "None"
      /\ call' = [cmd |-> c, remaining |-> c.qty, px |-> NoPrice, cur |-> NIL,
                  fills |-> <<>>, stp |-> <<>>]
  BY DEF StartAdd
<1>2. c.qty \in Int /\ c.px \in Int
  BY NewOrderFields
<1>3. c.qty > 0 /\ InBand(c.px) /\ c.id \notin DOMAIN book.index
  BY <1>1, <1>2 DEF AddReason
<1>4. c.qty \in Nat /\ c.px \in Prices
  BY <1>2, <1>3, BandAssumption DEF InBand, Prices
<1>5. CallOK'
  BY <1>1, <1>3, <1>4 DEF CallOK
<1>6. AtHead'
  BY <1>1 DEF AtHead
<1> QED BY <1>1, <1>5, <1>6, InvSameBook

LEMMA InvEnterLevel == BookInv /\ EnterLevel => BookInv'
<1> SUFFICES ASSUME BookInv, EnterLevel PROVE BookInv'
  OBVIOUS
<1> DEFINE opp == Opposite(call.cmd.side)
           px == book.best[opp]
<1>1. /\ phase = "match" /\ phase' = "walk" /\ book' = book
      /\ Crosses(book, call.cmd)
      /\ call' = [call EXCEPT !.px = px, !.cur = book.levels[opp][px].head]
  BY DEF EnterLevel
<1>2. /\ call.cmd \in NewOrders /\ call.cmd.px \in Prices
      /\ call.cmd.id \notin DOMAIN book.index /\ call.remaining \in Nat
      /\ call = [cmd |-> call.cmd, remaining |-> call.remaining, px |-> call.px,
                 cur |-> call.cur, fills |-> call.fills, stp |-> call.stp]
  BY <1>1 DEF BookInv, CallOK
<1>3. call' = [cmd |-> call.cmd, remaining |-> call.remaining, px |-> px,
               cur |-> book.levels[opp][px].head, fills |-> call.fills, stp |-> call.stp]
  BY <1>1, <1>2
<1>4. opp \in Side
  BY <1>2, NewOrderFields, OppositeSide
<1>5. px \in Prices
  BY <1>1, <1>4 DEF Crosses, BookInv, Shape, BookType
<1>6. book.levels[opp][px].head \in Nodes(book) \cup {NIL}
  <2>1. book.levels[opp][px].head # NIL => book.levels[opp][px].head \in Live(book)
    BY <1>4, <1>5 DEF BookInv, Shape, EndsOK, At
  <2> QED BY <2>1, LiveNode DEF BookInv, Shape
<1> HIDE DEF opp, px
<1>7. CallOK'
  BY <1>1, <1>2, <1>3, <1>5, <1>6 DEF CallOK
<1>8. AtHead'
  BY <1>1, <1>3, <1>5 DEF AtHead, opp
<1> QED BY <1>1, <1>7, <1>8, InvSameBook

LEMMA InvLeaveLevel == BookInv /\ LeaveLevel => BookInv'
<1> SUFFICES ASSUME BookInv, LeaveLevel PROVE BookInv'
  OBVIOUS
<1>1. /\ phase = "walk" /\ phase' = "match" /\ book' = book
      /\ call' = [call EXCEPT !.px = NoPrice, !.cur = NIL]
  BY DEF LeaveLevel
<1>2. /\ call.cmd \in NewOrders /\ call.cmd.px \in Prices
      /\ call.cmd.id \notin DOMAIN book.index /\ call.remaining \in Nat
      /\ call = [cmd |-> call.cmd, remaining |-> call.remaining, px |-> call.px,
                 cur |-> call.cur, fills |-> call.fills, stp |-> call.stp]
  BY <1>1 DEF BookInv, CallOK
<1>3. call' = [cmd |-> call.cmd, remaining |-> call.remaining, px |-> NoPrice,
               cur |-> NIL, fills |-> call.fills, stp |-> call.stp]
  BY <1>1, <1>2
<1>4. CallOK'
  BY <1>1, <1>2, <1>3 DEF CallOK
<1>5. AtHead'
  BY <1>1 DEF AtHead
<1> QED BY <1>1, <1>4, <1>5, InvSameBook

(* rest puts the remainder on a side where nothing opposite is reached, so *)
(* the book stays uncrossed                                                *)
LEMMA InvRestRemainder == BookInv /\ RestRemainder => BookInv'
<1> SUFFICES ASSUME BookInv, RestRemainder PROVE BookInv'
  OBVIOUS
<1> DEFINE c == call.cmd
           n == Alloc(book)
<1>1. /\ phase = "match" /\ call.remaining > 0 /\ ~Crosses(book, c)
      /\ phase' = "idle" /\ book' = Rest(book, c, call.remaining)
  BY DEF RestRemainder, Matched, Rests, Return
<1>2. Restable(book, c, call.remaining) /\ Shape(book) /\ Positive(book) /\ Uncrossed
  BY <1>1 DEF BookInv, CallOK, Restable
<1>3. Shape(book') /\ Rested(book, c, call.remaining, n, book')
  BY <1>1, <1>2, RestKeepsShape
<1> HIDE DEF n
<1>4. /\ n \notin Live(book) /\ c.side \in Side /\ c.px \in Prices
      /\ Live(book') = Live(book) \cup {n}
  BY <1>2, <1>3, RestLive
<1>5. /\ book'.pool[n].remaining = call.remaining
      /\ \A m \in Nodes(book) \ {n} : book'.pool[m].remaining = book.pool[m].remaining
  BY <1>3 DEF Rested, RestedPool
<1>6. Positive(book')
  <2>1. Live(book) \subseteq Nodes(book) \ {n}
    BY <1>2, <1>4, LiveNode DEF Shape
  <2> QED BY <1>1, <1>2, <1>4, <1>5, <2>1 DEF Positive
<1>7. \A s \in Side, p \in Prices :
        ~(s = c.side /\ p = c.px) => book'.levels[s][p] = book.levels[s][p]
  BY <1>2, <1>3, RestFacts
<1>8. Opposite(c.side) \in Side /\ Opposite(c.side) # c.side
  BY <1>4 DEF Opposite, Side, Buy, Sell
<1>9. ASSUME NEW q \in Prices, book.levels[Opposite(c.side)][q].count # 0
      PROVE  IF c.side = Buy THEN c.px < q ELSE q < c.px
  <2> DEFINE best == book.best[Opposite(c.side)]
  <2>1. best # NoPrice /\ ~Better(Opposite(c.side), q, best) /\ best \in Prices
    BY <1>2, <1>8, <1>9 DEF Shape, BestOK, BookType
  <2>2. ~Reaches(c.side, c.px, best)
    BY <1>1, <2>1 DEF Crosses
  <2> HIDE DEF best
  <2>3. c.px \in Int /\ q \in Int /\ best \in Int
    <3>1. \A p \in Prices : p \in Int
      BY PricesNat
    <3> QED BY <1>4, <2>1, <3>1
  <2> QED BY <1>4, <2>1, <2>2, <2>3 DEF Better, Reaches, Opposite, Side, Buy, Sell
<1>10. Uncrossed'
  <2> SUFFICES ASSUME NEW p \in Prices, NEW q \in Prices,
                      book'.levels[Buy][p].count # 0, book'.levels[Sell][q].count # 0
               PROVE  p < q
    BY DEF Uncrossed
  <2>1. CASE c.side = Buy
    <3>1. book.levels[Sell][q].count # 0 /\ Opposite(c.side) = Sell
      BY <1>7, <2>1 DEF Side, Buy, Sell, Opposite
    <3>2. CASE p = c.px
      BY <1>9, <2>1, <3>1, <3>2
    <3>3. CASE p # c.px
      BY <1>2, <1>7, <3>1, <3>3 DEF Uncrossed, Side
    <3> QED BY <3>2, <3>3
  <2>2. CASE c.side = Sell
    <3>1. book.levels[Buy][p].count # 0 /\ Opposite(c.side) = Buy
      BY <1>7, <2>2 DEF Side, Buy, Sell, Opposite
    <3>2. CASE q = c.px
      BY <1>9, <2>2, <3>1, <3>2 DEF Buy, Sell
    <3>3. CASE q # c.px
      BY <1>2, <1>7, <3>1, <3>3 DEF Uncrossed, Side
    <3> QED BY <3>2, <3>3
  <2> QED BY <1>4, <2>1, <2>2 DEF Side
<1> QED BY <1>1, <1>3, <1>6, <1>10 DEF BookInv, CallOK, AtHead

LEMMA InvCancel ==
  ASSUME BookInv, NEW id, NEW agent, Cancel(id, agent)
  PROVE  BookInv'
<1>1. /\ phase = "idle" /\ phase' = phase /\ call' = call
      /\ book' = IF CancelReason(book, id, agent) = "None"
                 THEN Unlink(book, book.index[id]) ELSE book
  BY DEF Cancel, Ready
<1>2. CallOK' /\ AtHead'
  BY <1>1 DEF CallOK, AtHead
<1>3. CASE CancelReason(book, id, agent) = "None"
  <2> DEFINE n == book.index[id]
  <2>1. n \in Live(book)
    BY <1>3 DEF CancelReason, Live
  <2>2. book' = Unlink(book, n)
    BY <1>1, <1>3
  <2> HIDE DEF n
  <2>3. /\ Shape(book') /\ Live(book') = Live(book) \ {n}
        /\ \A m \in Live(book') : book'.pool[m].remaining = book.pool[m].remaining
        /\ \A s \in Side, p \in Prices :
             book'.levels[s][p].count # 0 => book.levels[s][p].count # 0
    BY <2>1, <2>2, UnlinkEffect DEF BookInv
  <2>4. Positive(book') /\ Uncrossed'
    BY <2>3, UncrossedFewer DEF BookInv, Positive
  <2> QED BY <1>2, <2>3, <2>4 DEF BookInv
<1>4. CASE CancelReason(book, id, agent) # "None"
  BY <1>1, <1>2, <1>4, InvSameBook
<1> QED BY <1>3, <1>4

LEMMA InvNext == BookInv /\ [Next]_vars => BookInv'
<1> SUFFICES ASSUME BookInv, [Next]_vars PROVE BookInv'
  OBVIOUS
<1>1. ASSUME NEW c \in NewOrders, RejectAdd(c) PROVE BookInv'
  BY <1>1, InvSameBook DEF RejectAdd, BookInv, CallOK, AtHead
<1>2. ASSUME NEW c \in NewOrders, StartAdd(c) PROVE BookInv'
  BY <1>2, InvStartAdd
<1>3. CASE EnterLevel
  BY <1>3, InvEnterLevel
<1>4. CASE CancelOwn
  BY <1>4, InvCancelOwn
<1>5. CASE FillMaker
  BY <1>5, InvFillMaker
<1>6. CASE LeaveLevel
  BY <1>6, InvLeaveLevel
<1>7. CASE RestRemainder
  BY <1>7, InvRestRemainder
<1>8. CASE Finish
  BY <1>8, InvSameBook DEF Finish, Return, CallOK, AtHead
<1>9. CASE Collect
  BY <1>9, InvSameBook DEF Collect, BookInv, CallOK, AtHead
<1>10. ASSUME NEW id \in Ids, NEW agent \in Agents, Cancel(id, agent) PROVE BookInv'
  BY <1>10, InvCancel
<1>11. CASE UNCHANGED vars
  BY <1>11, InvSameBook DEF vars, BookInv, CallOK, AtHead
<1> QED BY <1>1, <1>2, <1>3, <1>4, <1>5, <1>6, <1>7, <1>8, <1>9, <1>10, <1>11 DEF Next

(* After every loop iteration of add and after every call, lists, index,   *)
(* counts, best prices and free list agree with each other, whatever was   *)
(* unlinked under the cursor; a level the walk ran off is empty, and the   *)
(* book is uncrossed (order_book.cpp: add, cancel, unlink, rest).          *)
THEOREM StructureHolds == Spec => []StructureOK
<1>1. Init => BookInv
  BY InvInit
<1>2. BookInv /\ [Next]_vars => BookInv'
  BY InvNext
<1>3. BookInv => StructureOK
  BY InvStructure
<1> QED BY <1>1, <1>2, <1>3, PTL DEF Spec

----------------------------------------------------------------------------
(* Quantities.  A level's quantity is what its orders have left.           *)

\* what the nodes of S have left, as NoLeaks states it
Left(b, S) == SumFunction([n \in S |-> b.pool[n].remaining])

Quantities(b) ==
  \A s \in Side, p \in Prices : b.levels[s][p].qty = Left(b, At(b, s, p))

LEMMA LeftIs ==
  ASSUME NEW b, NEW S, IsFiniteSet(S)
  PROVE  Left(b, S) = SumFunctionOnSet([n \in S |-> b.pool[n].remaining], S)
  BY DEF Left, SumFunction

(* What is left does not change with what is not summed. *)
LEMMA LeftSame ==
  ASSUME NEW b, NEW u, NEW S, IsFiniteSet(S),
         \A m \in S : u.pool[m].remaining = b.pool[m].remaining
  PROVE  Left(u, S) = Left(b, S)
<1> DEFINE f == [m \in S |-> b.pool[m].remaining]
           h == [m \in S |-> u.pool[m].remaining]
<1>1. f = h
  OBVIOUS
<1> QED BY <1>1 DEF Left

(* A node with quantity q goes: q is missing from the sum. *)
LEMMA LeftWithout ==
  ASSUME NEW b, NEW u, NEW S, IsFiniteSet(S), NEW n \in S, NEW q \in Int,
         q = b.pool[n].remaining,
         NEW r, n \notin r, r \subseteq S, \A m \in S : m = n \/ m \in r,
         \A m \in S : b.pool[m].remaining \in Int,
         \A m \in r : u.pool[m].remaining = b.pool[m].remaining
  PROVE  Left(u, r) = Left(b, S) - q
<1> DEFINE f == [m \in S |-> b.pool[m].remaining]
           h == [m \in r |-> u.pool[m].remaining]
<1>1. IsFiniteSet(r) /\ r = S \ {n}
  BY FS_Subset
<1>2. /\ \A m \in S : f[m] \in Int
      /\ \A m \in r : f[m] = h[m] /\ f[m] \in Int
      /\ f[n] = q
  OBVIOUS
<1>3. Left(b, S) = SumFunctionOnSet(f, S) /\ Left(u, r) = SumFunctionOnSet(h, r)
  BY <1>1, LeftIs
<1> HIDE DEF f, h
<1>4. SumFunctionOnSet(f, S) = f[n] + SumFunctionOnSet(f, r)
  BY <1>1, <1>2, SumRemove
<1>5. SumFunctionOnSet(f, r) = SumFunctionOnSet(h, r) /\ SumFunctionOnSet(f, r) \in Int
  BY <1>1, <1>2, SumSame, SumInt
<1> QED BY <1>2, <1>3, <1>4, <1>5

(* A node n with quantity q comes to the nodes S of b, which makes R of u. *)
Joins(b, u, S, R, n, q) ==
  /\ IsFiniteSet(S) /\ n \notin S /\ R = S \cup {n}
  /\ q \in Int /\ q = u.pool[n].remaining
  /\ \A m \in S : /\ b.pool[m].remaining \in Int
                 /\ u.pool[m].remaining = b.pool[m].remaining
Gains(b, u, S, R, q) == Left(u, R) = Left(b, S) + q

(* Then q is added to the sum. *)
LEMMA LeftWith ==
  ASSUME NEW b, NEW u, NEW S, NEW R, NEW n, NEW q, Joins(b, u, S, R, n, q)
  PROVE  Gains(b, u, S, R, q)
<1> USE DEF Joins, Gains
<1> DEFINE f == [m \in R |-> u.pool[m].remaining]
           h == [m \in S |-> b.pool[m].remaining]
<1>1. R = S \cup {n} /\ IsFiniteSet(R)
  BY FS_AddElement
<1>2. /\ \A m \in S : f[m] = h[m] /\ f[m] \in Int
      /\ f[n] = q /\ f[n] \in Int
  OBVIOUS
<1>3. Left(u, R) = SumFunctionOnSet(f, R) /\ Left(b, S) = SumFunctionOnSet(h, S)
  BY <1>1, LeftIs
<1> HIDE DEF f, h
<1>4. SumFunctionOnSet(f, R) = SumFunctionOnSet(f, S) + f[n]
  BY <1>2, SumAdd
<1>5. SumFunctionOnSet(f, S) = SumFunctionOnSet(h, S)
  BY <1>2, SumSame
<1> QED BY <1>2, <1>3, <1>4, <1>5

(* A node has q less left: so has the sum. *)
LEMMA LeftReduced ==
  ASSUME NEW b, NEW u, NEW S, IsFiniteSet(S), NEW n \in S, NEW q \in Int,
         \A m \in S : b.pool[m].remaining \in Int,
         u.pool[n].remaining = b.pool[n].remaining - q,
         \A m \in S \ {n} : u.pool[m].remaining = b.pool[m].remaining
  PROVE  Left(u, S) = Left(b, S) - q
<1> DEFINE f == [m \in S |-> b.pool[m].remaining]
           h == [m \in S |-> u.pool[m].remaining]
<1>1. /\ \A m \in S : f[m] \in Int /\ h[m] \in Int
      /\ \A m \in S \ {n} : f[m] = h[m]
      /\ f[n] \in Int /\ h[n] = f[n] - q
  OBVIOUS
<1>2. Left(b, S) = SumFunctionOnSet(f, S) /\ Left(u, S) = SumFunctionOnSet(h, S)
  BY LeftIs
<1> HIDE DEF f, h
<1>3. SumFunctionOnSet(h, S) = SumFunctionOnSet(f, S) - f[n] + h[n]
  BY <1>1, SumChange
<1>4. SumFunctionOnSet(f, S) \in Int
  BY <1>1, SumInt
<1> QED BY <1>1, <1>2, <1>3, <1>4

(* The three ways the book changes keep the quantities. *)
LEMMA UnlinkKeepsQuantities ==
  ASSUME NEW b, Shape(b), Quantities(b), NEW n \in Live(b), NEW u, Unlinked(b, n, u)
  PROVE  Quantities(u)
<1> DEFINE node == b.pool[n]
<1> USE DEF Shape
<1>1. /\ node.side \in Side /\ node.px \in Prices /\ n \in At(b, node.side, node.px)
  BY LiveNode
<1>2. \A s, p : At(u, s, p) = At(b, s, p) \ {n} /\ IsFiniteSet(At(b, s, p))
  BY UnlinkLive, FiniteNodes
<1>3. \A m \in Live(b) : b.pool[m].remaining \in Int /\ m \in Nodes(b)
  BY LiveNode DEF NodeType
<1>4. \A m \in Live(b) \ {n} : u.pool[m].remaining = b.pool[m].remaining
  BY <1>3 DEF Unlinked, UnlinkedPool
<1>5. ASSUME NEW s \in Side, NEW p \in Prices
      PROVE  u.levels[s][p].qty = Left(u, At(u, s, p))
  <2> DEFINE S == At(b, s, p)
  <2>1. /\ b.levels[s][p].qty = Left(b, S) /\ IsFiniteSet(S)
        /\ \A m \in S : b.pool[m].remaining \in Int
        /\ \A m \in S \ {n} : u.pool[m].remaining = b.pool[m].remaining
        /\ At(u, s, p) = S \ {n}
    <3>1. S \subseteq Live(b)
      BY DEF At
    <3>2. b.levels[s][p].qty = Left(b, S)
      BY DEF Quantities
    <3> HIDE DEF S
    <3> QED BY <1>2, <1>3, <1>4, <3>1, <3>2 DEF S
  <2>2. CASE s = node.side /\ p = node.px
    <3>1. n \in S
      BY <1>1, <2>2
    <3>2. u.levels[s][p].qty = b.levels[s][p].qty - node.remaining
      <4>1. u.levels[s][p] = UnlinkLinks(b, n)
        BY <2>2 DEF Unlinked, UnlinkedLevels
      <4>2. UnlinkLinks(b, n).qty = b.levels[node.side][node.px].qty - node.remaining
        BY DEF UnlinkLinks
      <4> HIDE DEF node
      <4> QED BY <2>2, <4>1, <4>2
    <3> HIDE DEF S
    <3>3. n \notin S \ {n} /\ S \ {n} \subseteq S /\ \A m \in S : m = n \/ m \in S \ {n}
      OBVIOUS
    <3>4. PICK q \in Int : q = b.pool[n].remaining
      BY <2>1, <3>1
    <3>5. Left(u, S \ {n}) = Left(b, S) - q
      <4>1. /\ IsFiniteSet(S)
            /\ \A m \in S : b.pool[m].remaining \in Int
            /\ \A m \in S \ {n} : u.pool[m].remaining = b.pool[m].remaining
        BY <2>1
      <4> HIDE DEF Shape, node
      <4> QED BY <3>1, <3>3, <3>4, <4>1, LeftWithout
    <3> QED BY <2>1, <3>2, <3>4, <3>5
  <2>3. CASE ~(s = node.side /\ p = node.px)
    <3>1. n \notin S
      BY <2>3 DEF At
    <3>2. u.levels[s][p] = b.levels[s][p]
      BY <2>3 DEF Unlinked, UnlinkedLevels
    <3> HIDE DEF S
    <3>3. S \ {n} = S
      BY <3>1
    <3>4. Left(u, S) = Left(b, S)
      BY <2>1, <3>3, LeftSame
    <3> QED BY <2>1, <3>2, <3>3, <3>4
  <2> QED BY <2>2, <2>3
<1> QED BY <1>5 DEF Quantities

LEMMA ReduceKeepsQuantities ==
  ASSUME NEW b, Shape(b), Quantities(b), NEW n \in Live(b),
         NEW q \in Nat, q <= b.pool[n].remaining, NEW u, u = Reduce(b, n, q)
  PROVE  Quantities(u)
<1> DEFINE node == b.pool[n]
<1> USE DEF Shape
<1>1. /\ node.side \in Side /\ node.px \in Prices /\ n \in At(b, node.side, node.px)
  BY LiveNode
<1>2. /\ BookType(u) /\ Reduced(b, n, u) /\ u.pool[n].remaining = node.remaining - q
      /\ u.levels[node.side][node.px].qty = b.levels[node.side][node.px].qty - q
      /\ \A s \in Side, p \in Prices :
           ~(s = node.side /\ p = node.px) => u.levels[s][p] = b.levels[s][p]
  <2>1. BookType(u) /\ Reduced(b, n, u) /\ u.pool[n].remaining = node.remaining - q
    BY ReduceIsReduced
  <2>2. QtyReduced(b, n, q, u)
    BY ReduceIsReduced
  <2> QED BY <2>1, <2>2 DEF QtyReduced
<1>3. \A m \in Live(b) : b.pool[m].remaining \in Int /\ m \in Nodes(b)
  BY LiveNode DEF NodeType
<1>4. \A m \in Live(b) \ {n} : u.pool[m].remaining = b.pool[m].remaining
  BY <1>2, <1>3 DEF Reduced
<1>5. \A s, p : At(u, s, p) = At(b, s, p) /\ IsFiniteSet(At(b, s, p))
  <2>1. Live(u) = Live(b)
    BY <1>2, ReduceKeepsShape
  <2>2. \A m \in Live(b) : u.pool[m].side = b.pool[m].side /\ u.pool[m].px = b.pool[m].px
    BY <1>2, <1>3 DEF Reduced
  <2>3. \A s, p : At(u, s, p) = At(b, s, p)
    BY <2>1, <2>2 DEF At
  <2> QED BY <2>3, FiniteNodes
<1>6. ASSUME NEW s \in Side, NEW p \in Prices
      PROVE  u.levels[s][p].qty = Left(u, At(u, s, p))
  <2> DEFINE S == At(b, s, p)
  <2>1. /\ b.levels[s][p].qty = Left(b, S) /\ IsFiniteSet(S)
        /\ \A m \in S : b.pool[m].remaining \in Int
        /\ \A m \in S \ {n} : u.pool[m].remaining = b.pool[m].remaining
        /\ At(u, s, p) = S
    <3>1. S \subseteq Live(b)
      BY DEF At
    <3>2. b.levels[s][p].qty = Left(b, S)
      BY DEF Quantities
    <3> HIDE DEF S
    <3> QED BY <1>3, <1>4, <1>5, <3>1, <3>2 DEF S
  <2>2. CASE s = node.side /\ p = node.px
    <3>1. n \in S
      BY <1>1, <2>2
    <3>2. u.levels[s][p].qty = b.levels[s][p].qty - q
      BY <1>2, <2>2
    <3> HIDE DEF S
    <3>3. u.pool[n].remaining = b.pool[n].remaining - q /\ q \in Int
      BY <1>2
    <3>4. Left(u, S) = Left(b, S) - q
      BY <2>1, <3>1, <3>3, LeftReduced
    <3> QED BY <2>1, <3>2, <3>4
  <2>3. CASE ~(s = node.side /\ p = node.px)
    <3>1. n \notin S
      BY <2>3 DEF At
    <3>2. u.levels[s][p] = b.levels[s][p]
      BY <1>2, <2>3
    <3> HIDE DEF S
    <3>3. S \ {n} = S
      BY <3>1
    <3>4. Left(u, S) = Left(b, S)
      BY <2>1, <3>3, LeftSame
    <3> QED BY <2>1, <3>2, <3>4
  <2> QED BY <2>2, <2>3
<1> QED BY <1>6 DEF Quantities

LEMMA RestKeepsQuantities ==
  ASSUME NEW b, Shape(b), Quantities(b), NEW c, NEW remaining, Restable(b, c, remaining),
         NEW n, NEW u, Rested(b, c, remaining, n, u)
  PROVE  Quantities(u)
<1> USE DEF Shape
<1>1. /\ n \notin Live(b) /\ c.side \in Side /\ c.px \in Prices /\ remaining \in Int
  BY RestLive DEF Restable
<1>2. \A s, p : IsFiniteSet(At(b, s, p))
  BY FiniteNodes
<1>3. \A m \in Live(b) : b.pool[m].remaining \in Int /\ m \in Nodes(b) \ {n}
  BY <1>1, LiveNode DEF NodeType
<1>4. /\ \A m \in Live(b) : u.pool[m].remaining = b.pool[m].remaining
      /\ u.pool[n].remaining = remaining
  BY <1>3 DEF Rested, RestedPool
<1>5. ASSUME NEW s \in Side, NEW p \in Prices
      PROVE  u.levels[s][p].qty = Left(u, At(u, s, p))
  <2> DEFINE S == At(b, s, p)
  <2>1. /\ b.levels[s][p].qty = Left(b, S) /\ IsFiniteSet(S) /\ n \notin S
        /\ \A m \in S : b.pool[m].remaining \in Int
        /\ \A m \in S : u.pool[m].remaining = b.pool[m].remaining
    <3>1. S \subseteq Live(b)
      BY DEF At
    <3>2. b.levels[s][p].qty = Left(b, S)
      BY DEF Quantities
    <3> HIDE DEF S
    <3> QED BY <1>1, <1>2, <1>3, <1>4, <3>1, <3>2 DEF S
  <2>2. At(u, s, p) = IF s = c.side /\ p = c.px THEN S \cup {n} ELSE S
    BY RestLive
  <2>3. CASE s = c.side /\ p = c.px
    <3>1. u.levels[s][p].qty = b.levels[s][p].qty + remaining
      BY <2>3 DEF Rested, RestedLevels
    <3> HIDE DEF S
    <3>2. /\ remaining \in Int /\ remaining = u.pool[n].remaining
          /\ IsFiniteSet(S) /\ n \notin S
          /\ \A m \in S : b.pool[m].remaining \in Int
          /\ \A m \in S : u.pool[m].remaining = b.pool[m].remaining
      BY <1>1, <1>4, <2>1
    <3>3. At(u, s, p) = S \cup {n}
      BY <2>2, <2>3
    <3>4. Joins(b, u, S, At(u, s, p), n, remaining)
      BY <3>2, <3>3 DEF Joins
    <3>5. Gains(b, u, S, At(u, s, p), remaining)
      BY ONLY <3>4, LeftWith, Zenon
    <3> QED BY <2>1, <3>1, <3>5 DEF Gains
  <2>4. CASE ~(s = c.side /\ p = c.px)
    <3>1. u.levels[s][p] = b.levels[s][p]
      BY <2>4 DEF Rested, RestedLevels
    <3> HIDE DEF S
    <3>2. Left(u, S) = Left(b, S)
      BY <2>1, LeftSame
    <3> QED BY <2>1, <2>2, <2>4, <3>1, <3>2
  <2> QED BY <2>3, <2>4
<1> QED BY <1>5 DEF Quantities

(* A call changes the book in one of those ways, or a fill and an unlink.  *)
LEMMA QuantitiesNext ==
  BookInv /\ Quantities(book) /\ [Next]_vars => Quantities(book')
<1> SUFFICES ASSUME BookInv, Quantities(book), [Next]_vars PROVE Quantities(book')
  OBVIOUS
<1> USE DEF BookInv
<1>1. ASSUME book' = book PROVE Quantities(book')
  BY <1>1
<1>2. ASSUME NEW n \in Live(book), book' = Unlink(book, n) PROVE Quantities(book')
  BY <1>2, UnlinkKeepsShape, UnlinkKeepsQuantities
<1>3. CASE CancelOwn
  <2>1. Walking /\ book' = Unlink(book, call.cur)
    BY <1>3 DEF CancelOwn
  <2> QED BY <1>2, <2>1, WalkedNode
<1>4. CASE FillMaker
  <2> DEFINE n == call.cur
             node == book.pool[n]
             tq == TradeQty(call.remaining, node.remaining)
             b == Reduce(book, n, tq)
  <2>1. Walking /\ book' = IF node.remaining = tq THEN Unlink(b, n) ELSE b
    BY <1>4 DEF FillMaker
  <2>2. n \in Live(book) /\ node.remaining \in Nat /\ node.remaining > 0
    BY <2>1, WalkedNode
  <2>3. tq \in Nat /\ tq <= node.remaining
    <3>1. call.remaining \in Nat /\ call.remaining > 0
      BY <2>1 DEF CallOK, Walking
    <3> QED BY <2>2, <3>1 DEF TradeQty, Minimum
  <2> HIDE DEF tq
  <2>4. BookType(b) /\ Reduced(book, n, b)
    BY <2>2, <2>3, ReduceIsReduced DEF Shape
  <2>5. Quantities(b)
    BY <2>2, <2>3, ReduceKeepsQuantities
  <2> HIDE DEF b
  <2>6. Shape(b) /\ n \in Live(b)
    BY <2>2, <2>4, ReduceKeepsShape
  <2> HIDE DEF n
  <2>7. Quantities(Unlink(b, n))
    BY <2>5, <2>6, UnlinkKeepsShape, UnlinkKeepsQuantities
  <2> QED BY <2>1, <2>5, <2>7
<1>5. CASE RestRemainder
  <2>1. phase = "match" /\ call.remaining > 0 /\ book' = Rest(book, call.cmd, call.remaining)
    BY <1>5 DEF RestRemainder, Matched, Rests
  <2>2. Restable(book, call.cmd, call.remaining)
    BY <2>1 DEF CallOK, Restable
  <2>3. Rested(book, call.cmd, call.remaining, Alloc(book), book')
    BY <2>1, <2>2, RestIsRested
  <2> QED BY <2>2, <2>3, RestKeepsQuantities
<1>6. ASSUME NEW id \in Ids, NEW agent \in Agents, Cancel(id, agent) PROVE Quantities(book')
  <2>1. book' = IF CancelReason(book, id, agent) = "None"
                THEN Unlink(book, book.index[id]) ELSE book
    BY <1>6 DEF Cancel
  <2>2. CancelReason(book, id, agent) = "None" => book.index[id] \in Live(book)
    BY DEF CancelReason, Live
  <2> QED BY <1>1, <1>2, <2>1, <2>2
<1>7. CASE \/ \E c \in NewOrders : RejectAdd(c) \/ StartAdd(c)
           \/ EnterLevel \/ LeaveLevel \/ Finish \/ Collect \/ UNCHANGED vars
  <2>1. book' = book
    BY <1>7 DEF RejectAdd, StartAdd, EnterLevel, LeaveLevel, Finish, Collect, vars
  <2> QED BY <1>1, <2>1
<1> QED BY <1>3, <1>4, <1>5, <1>6, <1>7 DEF Next

LEMMA QuantitiesInit == Init => Quantities(book)
<1> SUFFICES ASSUME Init PROVE Quantities(book)
  OBVIOUS
<1>1. book = EmptyBook
  BY DEF Init
<1>2. Live(book) = {}
  BY <1>1 DEF EmptyBook, Live
<1>3. \A s \in Side, p \in Prices : At(book, s, p) = {} /\ book.levels[s][p].qty = 0
  BY <1>1, <1>2 DEF At, EmptyBook, EmptyLevel
<1>4. Left(book, {}) = 0
  <2> DEFINE f == [n \in {} |-> book.pool[n].remaining]
  <2>1. IsFiniteSet({})
    BY FS_EmptySet
  <2> HIDE DEF f
  <2>2. SumFunctionOnSet(f, {}) = 0
    BY <2>1, SumStep
  <2> QED BY <2>1, <2>2, LeftIs DEF f
<1> QED BY <1>3, <1>4 DEF Quantities

LEMMA LeaksNothing == BookInv /\ Quantities(book) => NoLeaks
<1> SUFFICES ASSUME BookInv, Quantities(book) PROVE NoLeaks
  OBVIOUS
<1>1. NodeNumbers \ Live(book) = FreeNodes(book)
  BY DEF NodeNumbers, FreeNodes, Nodes
<1> QED BY <1>1 DEF NoLeaks, BookInv, Shape, Listed, Quantities, Left

(* Every level's list holds each of its orders once, its quantity is what  *)
(* they have left, and the free list holds every other node once, whatever *)
(* was added, filled and cancelled before: the pool never leaks a node and *)
(* no node is reachable twice (order_book.cpp: alloc, release, unlink).    *)
THEOREM NothingLeaks == Spec => []NoLeaks
<1>1. Spec => []BookInv
  BY InvInit, InvNext, PTL DEF Spec
<1>2. Spec => [](BookInv /\ Quantities(book))
  <2>1. Init => Quantities(book)
    BY QuantitiesInit
  <2>2. BookInv /\ Quantities(book) /\ [Next]_vars => Quantities(book)'
    BY QuantitiesNext
  <2> QED BY <1>1, <2>1, <2>2, PTL DEF Spec
<1> QED BY <1>2, LeaksNothing, PTL

(* The history variable of the refinement does not constrain the book, so  *)
(* both hold of the specification that carries it.                         *)
COROLLARY HistoryToo == HSpec => []StructureOK /\ []NoLeaks
<1>1. HInit => Init
  BY DEF HInit
<1>2. [HNext]_<<vars, entry>> => [Next]_vars
  BY DEF HNext, vars
<1>3. HSpec => Spec
  BY <1>1, <1>2, PTL DEF HSpec, Spec
<1> QED BY <1>3, StructureHolds, NothingLeaks, PTL

----------------------------------------------------------------------------
(* The queues of a book.                                                   *)

\* next leads from the first node along one way only
LEMMA ChainUnique ==
  ASSUME NEW b, NEW S, NEW first, NEW k, NEW c, NEW e,
         IsChain(b, S, first, c, k), IsChain(b, S, first, e, k)
  PROVE  c = e
<1> DEFINE D == {i \in 1 .. k : c[i] # e[i]}
<1>1. /\ k \in Nat /\ c \in [1 .. k -> S] /\ e \in [1 .. k -> S]
      /\ S # {} => c[1] = first /\ e[1] = first
      /\ \A i \in 1 .. k : /\ b.pool[c[i]].next = IF i = k THEN NIL ELSE c[i + 1]
                           /\ b.pool[e[i]].next = IF i = k THEN NIL ELSE e[i + 1]
  BY DEF IsChain
<1>2. SUFFICES ASSUME D # {} PROVE FALSE
  BY <1>1
<1>3. PICK i \in D : \A j \in D : i <= j
  <2>1. D \in SUBSET Nat
    BY <1>1
  <2> HIDE DEF D
  <2> QED BY <1>2, <2>1, Least
<1>4. i \in 1 .. k /\ c[i] # e[i] /\ S # {}
  BY <1>1
<1>5. i # 1
  BY <1>1, <1>4
<1>6. i - 1 \in 1 .. k /\ i - 1 # k /\ i - 1 + 1 = i
  BY <1>1, <1>4, <1>5
<1>7. c[i - 1] = e[i - 1]
  <2>1. i - 1 \notin D
    BY <1>1, <1>3, <1>6
  <2> QED BY <1>6, <2>1
<1>8. b.pool[c[i - 1]].next = c[i] /\ b.pool[e[i - 1]].next = e[i]
  BY <1>1, <1>6
<1> QED BY <1>4, <1>7, <1>8

\* c lists the k nodes of a level, and the queue of the level is their orders
QueuedAs(b, s, p, c, k) ==
  /\ k \in Nat /\ Queues(b)[s][p] = ListOf(b, c)
  /\ Len(Queues(b)[s][p]) = k /\ DOMAIN Queues(b)[s][p] = 1 .. k /\ DOMAIN c = 1 .. k
  /\ \A i \in 1 .. k : c[i] \in At(b, s, p) /\ Queues(b)[s][p][i] = OrderAt(b, c[i])
  /\ \A i, j \in 1 .. k : c[i] = c[j] => i = j
  /\ \A n \in At(b, s, p) : \E i \in 1 .. k : c[i] = n
  /\ At(b, s, p) # {} => b.levels[s][p].head = c[1]

(* The queue of a level is the orders of its chain, whichever chain is     *)
(* chosen.                                                                 *)
LEMMA LevelQueue ==
  ASSUME NEW b, Shape(b), NEW s \in Side, NEW p \in Prices, NEW c \in LevelChains(b, s, p)
  PROVE  QueuedAs(b, s, p, c, Cardinality(At(b, s, p)))
<1> DEFINE S == At(b, s, p)
           k == Cardinality(S)
           first == b.levels[s][p].head
<1>1. IsFiniteSet(S)
  BY FiniteNodes DEF Shape
<1>2. \A e \in LevelChains(b, s, p) : IsChain(b, S, first, e, k)
  BY <1>1, ChainElim DEF LevelChains
<1>3. \A n \in S : \E i \in 1 .. k : c[i] = n
  BY <1>1, ChainElim DEF LevelChains
<1>4. IsChain(b, S, first, c, k)
  BY <1>2
<1> HIDE DEF S, first, k
<1>5. \A e \in LevelChains(b, s, p) : e = c
  BY <1>2, <1>4, ChainUnique
<1>6. (CHOOSE e \in LevelChains(b, s, p) : TRUE) = c
  BY <1>5
<1>7. Queues(b)[s][p] = ListOf(b, c)
  BY <1>6 DEF Queues, QueueAt
<1>8. k \in Nat /\ DOMAIN c = 1 .. k /\ c \in [1 .. k -> S]
  BY <1>4 DEF IsChain
<1>9. Len(ListOf(b, c)) = k /\ DOMAIN ListOf(b, c) = 1 .. k
      /\ \A i \in 1 .. k : ListOf(b, c)[i] = OrderAt(b, c[i])
  BY <1>8 DEF ListOf
<1>10. /\ \A i, j \in 1 .. k : c[i] = c[j] => i = j
       /\ S # {} => first = c[1]
  BY <1>4 DEF IsChain
<1> QED BY <1>3, <1>7, <1>8, <1>9, <1>10 DEF QueuedAs, S, first, k

LEMMA SomeQueue ==
  ASSUME NEW b, Shape(b), NEW s \in Side, NEW p \in Prices
  PROVE  \E c \in LevelChains(b, s, p) : QueuedAs(b, s, p, c, Cardinality(At(b, s, p)))
<1>1. PICK c \in LevelChains(b, s, p) : TRUE
  BY DEF Shape, Listed
<1>2. QueuedAs(b, s, p, c, Cardinality(At(b, s, p)))
  BY LevelQueue
<1> QED BY <1>2

LEMMA OrderAtFields ==
  ASSUME NEW b, NEW n
  PROVE  /\ OrderAt(b, n).id = b.pool[n].id /\ OrderAt(b, n).agent = b.pool[n].agent
         /\ OrderAt(b, n).side = b.pool[n].side /\ OrderAt(b, n).px = b.pool[n].px
         /\ OrderAt(b, n).remaining = b.pool[n].remaining
  BY DEF OrderAt

(* A live node holds an order. *)
LEMMA LiveOrder ==
  ASSUME NEW b, Shape(b), Positive(b), NEW n \in Live(b)
  PROVE  /\ OrderAt(b, n) \in Order
         /\ \A m \in Live(b) : OrderAt(b, m).id = OrderAt(b, n).id => m = n
         /\ OrderAt(b, n).side \in Side /\ OrderAt(b, n).px \in Prices
         /\ n \in At(b, OrderAt(b, n).side, OrderAt(b, n).px)
<1>1. \A m \in Live(b) :
        /\ b.pool[m].id \in DOMAIN b.index /\ b.index[b.pool[m].id] = m
        /\ b.pool[m].agent \in Agents /\ b.pool[m].px \in Prices /\ b.pool[m].side \in Side
        /\ b.pool[m] \in NodeType
        /\ m \in At(b, b.pool[m].side, b.pool[m].px)
  BY LiveNode DEF Shape
<1>2. b.pool[n].remaining \in Nat \ {0}
  <2>1. b.pool[n].remaining \in Nat
    BY <1>1 DEF NodeType
  <2> QED BY <2>1 DEF Positive
<1>3. DOMAIN b.index \subseteq Ids
  BY DEF Shape, BookType
<1>4. OrderAt(b, n) \in Order
  BY <1>1, <1>2, <1>3 DEF OrderAt, Order
<1> QED BY <1>1, <1>4, OrderAtFields

(* The queues of a well-shaped book hold every order once, at its side     *)
(* and price.                                                              *)
LEMMA QueuesWellFormed ==
  ASSUME NEW b, Shape(b), Positive(b)
  PROVE  /\ WellFormed(Queues(b))
         /\ \A s \in Side, p \in Prices : \A o :
              o \in ToSet(Queues(b)[s][p]) <=> \E n \in At(b, s, p) : o = OrderAt(b, n)
<1> DEFINE q == Queues(b)
<1>1. \A s, p : \A n \in At(b, s, p) : n \in Live(b) /\ b.pool[n].side = s /\ b.pool[n].px = p
  BY DEF At
<1>2. ASSUME NEW s \in Side, NEW p \in Prices
      PROVE  /\ q[s][p] \in Seq(Order)
             /\ \A i \in 1 .. Len(q[s][p]) : q[s][p][i].side = s /\ q[s][p][i].px = p
             /\ \A i, j \in 1 .. Len(q[s][p]) : q[s][p][i] = q[s][p][j] => i = j
             /\ \A o : o \in ToSet(q[s][p]) <=> \E n \in At(b, s, p) : o = OrderAt(b, n)
  <2> DEFINE k == Cardinality(At(b, s, p))
             t == q[s][p]
  <2>1. PICK c \in LevelChains(b, s, p) : QueuedAs(b, s, p, c, k)
    BY SomeQueue
  <2> HIDE DEF k
  <2>2. /\ k \in Nat /\ Len(t) = k /\ DOMAIN t = 1 .. k
        /\ \A i \in 1 .. k : c[i] \in At(b, s, p) /\ t[i] = OrderAt(b, c[i])
        /\ \A i, j \in 1 .. k : c[i] = c[j] => i = j
        /\ \A n \in At(b, s, p) : \E i \in 1 .. k : c[i] = n
        /\ t = ListOf(b, c) /\ DOMAIN c = 1 .. k
    BY <2>1 DEF QueuedAs
  <2> HIDE DEF t
  <2>3. \A i \in 1 .. k : t[i] \in Order /\ t[i].side = s /\ t[i].px = p
    BY <1>1, <2>2, LiveOrder, OrderAtFields
  <2>4. t = [i \in 1 .. k |-> t[i]]
    BY <2>2 DEF ListOf
  <2>5. t \in Seq(Order)
    BY <2>2, <2>3, <2>4
  <2>6. \A i, j \in 1 .. k : t[i] = t[j] => i = j
    <3> TAKE i, j \in 1 .. k
    <3>1. c[i] \in Live(b) /\ c[j] \in Live(b)
      BY <1>1, <2>2
    <3>2. t[i] = t[j] => c[i] = c[j]
      BY <2>2, <3>1, LiveOrder
    <3> QED BY <2>2, <3>2
  <2>7. ToSet(t) = {t[i] : i \in 1 .. k}
    BY <2>2 DEF ToSet
  <2>8. \A o : o \in ToSet(t) <=> \E n \in At(b, s, p) : o = OrderAt(b, n)
    BY <2>2, <2>7
  <2> QED BY <2>2, <2>3, <2>5, <2>6, <2>8 DEF t
<1>3. q = [s \in Side |-> [p \in Prices |-> q[s][p]]]
  BY DEF Queues
<1> HIDE DEF q
<1>4. q \in [Side -> [Prices -> Seq(Order)]]
  BY <1>2, <1>3
<1>5. WellFormed(q)
  BY <1>2, <1>4 DEF WellFormed
<1> QED BY <1>2, <1>5 DEF q

(* What rests in the queues is what the live nodes hold. *)
LEMMA RestingNodes ==
  ASSUME NEW b, Shape(b), Positive(b)
  PROVE  /\ \A n \in Live(b) : OrderAt(b, n) \in Resting(Queues(b))
         /\ \A o \in Resting(Queues(b)) : \E n \in Live(b) : o = OrderAt(b, n)
         /\ LiveIds(Queues(b)) = DOMAIN b.index
<1>1. ASSUME NEW n \in Live(b)
      PROVE  OrderAt(b, n) \in Resting(Queues(b))
  <2>1. /\ OrderAt(b, n).side \in Side /\ OrderAt(b, n).px \in Prices
        /\ n \in At(b, OrderAt(b, n).side, OrderAt(b, n).px)
    BY LiveOrder
  <2>2. OrderAt(b, n) \in ToSet(Queues(b)[OrderAt(b, n).side][OrderAt(b, n).px])
    BY <2>1, QueuesWellFormed
  <2> QED BY <2>1, <2>2 DEF Resting
<1>2. ASSUME NEW o \in Resting(Queues(b))
      PROVE  \E n \in Live(b) : o = OrderAt(b, n)
  <2>1. PICK s \in Side, p \in Prices : o \in ToSet(Queues(b)[s][p])
    BY DEF Resting
  <2>2. PICK n \in At(b, s, p) : o = OrderAt(b, n)
    BY <2>1, QueuesWellFormed
  <2> QED BY <2>2 DEF At
<1>3. \A i \in DOMAIN b.index : b.index[i] \in Live(b) /\ b.pool[b.index[i]].id = i
  BY DEF Live, Shape, Named
<1>4. \A n \in Live(b) : b.pool[n].id \in DOMAIN b.index
  BY LiveNode DEF Shape
<1>5. \A i : i \in LiveIds(Queues(b)) <=> i \in DOMAIN b.index
  <2>1. ASSUME NEW i \in LiveIds(Queues(b)) PROVE i \in DOMAIN b.index
    <3>1. PICK o \in Resting(Queues(b)) : o.id = i
      BY DEF LiveIds
    <3> QED BY <1>2, <1>4, <3>1, OrderAtFields
  <2>2. ASSUME NEW i \in DOMAIN b.index PROVE i \in LiveIds(Queues(b))
    <3>1. OrderAt(b, b.index[i]) \in Resting(Queues(b)) /\ OrderAt(b, b.index[i]).id = i
      BY <1>1, <1>3, OrderAtFields
    <3> QED BY <3>1 DEF LiveIds
  <2> QED BY <2>1, <2>2
<1> QED BY <1>1, <1>2, <1>5

----------------------------------------------------------------------------
(* What the operations of the book do to its queues.                       *)

\* v is t without its element x
SkipsAt(t, v, x) ==
  \E k \in 1 .. Len(t) :
    /\ t[k] = x /\ Len(v) = Len(t) - 1
    /\ \A i \in 1 .. Len(v) : v[i] = IF i < k THEN t[i] ELSE t[i + 1]

\* r comes after o in t
Follows(t, o, r) == \E i, j \in DOMAIN t : i < j /\ t[i] = o /\ t[j] = r

(* Leaving an order out of a queue changes no order among the others. *)
LEMMA SkipOrder ==
  ASSUME NEW S, NEW T, NEW t \in Seq(S), NEW v \in Seq(T), NEW x, SkipsAt(t, v, x),
         NEW o, NEW r, o # x, r # x
  PROVE  Follows(t, o, r) <=> Follows(v, o, r)
<1> DEFINE N == Len(t)
<1>1. PICK k \in 1 .. N : /\ t[k] = x /\ Len(v) = N - 1
                          /\ \A i \in 1 .. Len(v) : v[i] = IF i < k THEN t[i] ELSE t[i + 1]
  BY DEF SkipsAt
<1>2. N \in Nat /\ DOMAIN t = 1 .. N /\ DOMAIN v = 1 .. N - 1
  BY <1>1
<1> HIDE DEF N
<1>3. ASSUME Follows(t, o, r) PROVE Follows(v, o, r)
  <2>1. PICK i, j \in 1 .. N : i < j /\ t[i] = o /\ t[j] = r
    BY <1>2, <1>3 DEF Follows
  <2> DEFINE a == IF i < k THEN i ELSE i - 1
             e == IF j < k THEN j ELSE j - 1
  <2>2. i # k /\ j # k
    BY <1>1, <2>1
  <2>3. a \in 1 .. N - 1 /\ e \in 1 .. N - 1 /\ a < e
    BY <1>1, <1>2, <2>1, <2>2
  <2>4. \A z \in 1 .. N : /\ z < k => v[z] = t[z]
                         /\ z > k => v[z - 1] = t[z]
    BY <1>1, <1>2
  <2>5. /\ i < k => a = i
        /\ i > k => a = i - 1
        /\ j < k => e = j
        /\ j > k => e = j - 1
        /\ i < k \/ i > k
        /\ j < k \/ j > k
    BY <1>1, <1>2, <2>1, <2>2
  <2> HIDE DEF a, e
  <2>6. v[a] = o
    <3>1. i < k => i \in 1 .. Len(v) /\ v[i] = o
      BY <1>1, <1>2, <2>1
    <3>2. i > k => v[i - 1] = o
      BY <2>1, <2>4
    <3> QED BY <2>5, <3>1, <3>2
  <2>7. v[e] = r
    <3>1. j < k => j \in 1 .. Len(v) /\ v[j] = r
      BY <1>1, <1>2, <2>1
    <3>2. j > k => v[j - 1] = r
      BY <2>1, <2>4
    <3> QED BY <2>5, <3>1, <3>2
  <2> QED BY <1>2, <2>3, <2>6, <2>7 DEF Follows
<1>4. ASSUME Follows(v, o, r) PROVE Follows(t, o, r)
  <2>1. PICK i, j \in 1 .. N - 1 : i < j /\ v[i] = o /\ v[j] = r
    BY <1>2, <1>4 DEF Follows
  <2> DEFINE a == IF i < k THEN i ELSE i + 1
             e == IF j < k THEN j ELSE j + 1
  <2>2. a \in 1 .. N /\ e \in 1 .. N /\ a < e
    BY <1>1, <1>2, <2>1
  <2>3. t[a] = o /\ t[e] = r
    BY <1>1, <1>2, <2>1
  <2> QED BY <1>2, <2>2, <2>3 DEF Follows
<1> QED BY <1>3, <1>4

LEMMA AheadFollows ==
  ASSUME NEW q, NEW o, NEW r
  PROVE  Ahead(q, o, r) <=> \/ Better(o.side, o.px, r.px)
                            \/ o.px = r.px /\ Follows(q[o.side][o.px], o, r)
  BY DEF Ahead, Follows

\* u has the order x left out of its level, and the other levels are those of q
LEMMA SkipLacks ==
  ASSUME NEW q, NEW u, WellFormed(q), WellFormed(u), NEW x,
         \A s \in Side, p \in Prices :
           IF s = x.side /\ p = x.px THEN SkipsAt(q[s][p], u[s][p], x) ELSE u[s][p] = q[s][p]
  PROVE  Lacks(q, u, x)
<1>1. ASSUME NEW s \in Side, NEW p \in Prices
      PROVE  \A o : o \in ToSet(u[s][p]) <=> o \in ToSet(q[s][p]) /\ o # x
  <2> DEFINE t == q[s][p]
             v == u[s][p]
  <2>1. /\ Len(t) \in Nat /\ ToSet(t) = {t[i] : i \in 1 .. Len(t)}
        /\ \A i, j \in 1 .. Len(t) : t[i] = t[j] => i = j
        /\ Len(v) \in Nat /\ ToSet(v) = {v[i] : i \in 1 .. Len(v)}
    BY LevelSeq DEF ToSet
  <2>2. \A o \in ToSet(t) : o.side = s /\ o.px = p
    BY LevelOrders
  <2>3. CASE s = x.side /\ p = x.px
    <3>1. SkipsAt(t, v, x)
      BY <2>3
    <3> HIDE DEF t, v
    <3>2. PICK k \in 1 .. Len(t) :
             /\ t[k] = x /\ Len(v) = Len(t) - 1
             /\ \A i \in 1 .. Len(v) : v[i] = IF i < k THEN t[i] ELSE t[i + 1]
      BY <3>1 DEF SkipsAt
    <3>3. ASSUME NEW o \in ToSet(v) PROVE o \in ToSet(t) /\ o # x
      <4>1. PICK i \in 1 .. Len(v) : v[i] = o
        BY <2>1
      <4> DEFINE j == IF i < k THEN i ELSE i + 1
      <4>2. j \in 1 .. Len(t) /\ j # k /\ t[j] = o
        BY <2>1, <3>2, <4>1
      <4> HIDE DEF j
      <4> QED BY <2>1, <3>2, <4>2
    <3>4. ASSUME NEW o \in ToSet(t), o # x PROVE o \in ToSet(v)
      <4>1. PICK j \in 1 .. Len(t) : t[j] = o
        BY <2>1
      <4> DEFINE i == IF j < k THEN j ELSE j - 1
      <4>2. i \in 1 .. Len(v) /\ v[i] = o
        BY <2>1, <3>2, <3>4, <4>1
      <4> HIDE DEF i
      <4> QED BY <2>1, <4>2
    <3> QED BY <3>3, <3>4 DEF t, v
  <2>4. CASE ~(s = x.side /\ p = x.px)
    <3>1. v = t
      BY <2>4
    <3> QED BY <2>2, <2>4, <3>1
  <2> QED BY <2>3, <2>4
<1>2. ASSUME NEW o \in Resting(u), NEW r \in Resting(u), o.side = r.side
      PROVE  Ahead(q, o, r) = Ahead(u, o, r)
  <2>1. o.side \in Side /\ o.px \in Prices
    BY RestingPlace
  <2>2. o # x /\ r # x
    <3>1. \A y \in Resting(u) : y # x
      BY <1>1 DEF Resting
    <3> QED BY <3>1
  <2>3. Follows(q[o.side][o.px], o, r) <=> Follows(u[o.side][o.px], o, r)
    <3> DEFINE t == q[o.side][o.px]
               v == u[o.side][o.px]
    <3>1. t \in Seq(Order) /\ v \in Seq(Order)
      BY <2>1, LevelSeq
    <3>2. SkipsAt(t, v, x) \/ v = t
      BY <2>1
    <3> HIDE DEF t, v
    <3>3. Follows(t, o, r) <=> Follows(v, o, r)
      <4>1. CASE SkipsAt(t, v, x)
        BY <2>2, <3>1, <4>1, SkipOrder
      <4> QED BY <3>2, <4>1
    <3> QED BY <3>3 DEF t, v
  <2>4. /\ Ahead(q, o, r) <=> \/ Better(o.side, o.px, r.px)
                              \/ o.px = r.px /\ Follows(q[o.side][o.px], o, r)
        /\ Ahead(u, o, r) <=> \/ Better(o.side, o.px, r.px)
                              \/ o.px = r.px /\ Follows(u[o.side][o.px], o, r)
    BY AheadFollows
  <2>5. Ahead(q, o, r) <=> Ahead(u, o, r)
    BY <2>3, <2>4
  <2>6. Ahead(q, o, r) \in BOOLEAN /\ Ahead(u, o, r) \in BOOLEAN
    BY DEF Ahead
  <2> QED BY <2>5, <2>6
<1>3. \A s \in Side, p \in Prices : ToSet(u[s][p]) = ToSet(q[s][p]) \ {x}
  BY <1>1
<1> QED BY <1>2, <1>3 DEF Lacks

\* the lists of u are those of b without the node n
Drops(b, u, n) ==
  /\ Shape(b) /\ Positive(b) /\ Shape(u) /\ Positive(u) /\ n \in Live(b)
  /\ \A m \in Live(b) \ {n} : OrderAt(u, m) = OrderAt(b, m)
  /\ \A s \in Side, p \in Prices : \A c \in LevelChains(b, s, p) :
       IF s = b.pool[n].side /\ p = b.pool[n].px
       THEN \E k \in 1 .. Cardinality(At(b, s, p)) :
              c[k] = n /\ Skipping(c, Cardinality(At(b, s, p)), k) \in LevelChains(u, s, p)
       ELSE c \in LevelChains(u, s, p)

(* Unlinking a node leaves its order out of the queues. *)
LEMMA DropQueues ==
  ASSUME NEW b, NEW u, NEW n, Drops(b, u, n)
  PROVE  Lacks(Queues(b), Queues(u), OrderAt(b, n))
<1> DEFINE q == Queues(b)
           v == Queues(u)
           x == OrderAt(b, n)
<1>1. WellFormed(q) /\ WellFormed(v)
  BY QueuesWellFormed DEF Drops
<1>2. /\ Shape(b) /\ Shape(u)
      /\ \A m \in Live(b) \ {n} : OrderAt(u, m) = OrderAt(b, m)
      /\ x.side = b.pool[n].side /\ x.px = b.pool[n].px
  BY OrderAtFields DEF Drops
<1>3. \A s, p : \A m \in At(b, s, p) : m \in Live(b) /\ b.pool[m].side = s /\ b.pool[m].px = p
  BY DEF At
<1>4. ASSUME NEW s \in Side, NEW p \in Prices
      PROVE  IF s = x.side /\ p = x.px THEN SkipsAt(q[s][p], v[s][p], x) ELSE v[s][p] = q[s][p]
  <2> DEFINE N == Cardinality(At(b, s, p))
  <2>1. PICK c \in LevelChains(b, s, p) : QueuedAs(b, s, p, c, N)
    BY <1>2, SomeQueue
  <2>2. /\ N \in Nat /\ Len(q[s][p]) = N /\ DOMAIN c = 1 .. N /\ q[s][p] = ListOf(b, c)
        /\ \A i \in 1 .. N : c[i] \in At(b, s, p) /\ q[s][p][i] = OrderAt(b, c[i])
        /\ \A i, j \in 1 .. N : c[i] = c[j] => i = j
    BY <2>1 DEF QueuedAs
  <2> HIDE DEF q, v, x
  <2>3. CASE s = x.side /\ p = x.px
    <3>1. PICK k \in 1 .. N : c[k] = n /\ Skipping(c, N, k) \in LevelChains(u, s, p)
      BY <1>2, <2>3 DEF Drops
    <3> HIDE DEF N
    <3> DEFINE d == Skipping(c, N, k)
               M == Cardinality(At(u, s, p))
    <3>2. QueuedAs(u, s, p, d, M)
      BY <1>2, <3>1, LevelQueue
    <3>3. DOMAIN d = 1 .. N - 1 /\ \A i \in 1 .. N - 1 : d[i] = IF i < k THEN c[i] ELSE c[i + 1]
      BY DEF Skipping
    <3>4. /\ M \in Nat /\ Len(v[s][p]) = M /\ DOMAIN d = 1 .. M
          /\ \A i \in 1 .. M : v[s][p][i] = OrderAt(u, d[i])
      BY <3>2 DEF QueuedAs, v
    <3> HIDE DEF d, M
    <3>5. M = N - 1
      BY <2>2, <3>3, <3>4
    <3>6. ASSUME NEW i \in 1 .. M
          PROVE  v[s][p][i] = IF i < k THEN q[s][p][i] ELSE q[s][p][i + 1]
      <4> DEFINE j == IF i < k THEN i ELSE i + 1
      <4>1. j \in 1 .. N /\ j # k /\ d[i] = c[j]
        BY <2>2, <3>1, <3>3, <3>5
      <4> HIDE DEF j
      <4>2. c[j] \in Live(b) \ {n}
        BY <1>3, <2>2, <3>1, <4>1
      <4>3. v[s][p][i] = OrderAt(b, c[j]) /\ q[s][p][j] = OrderAt(b, c[j])
        BY <1>2, <2>2, <3>4, <4>1, <4>2
      <4> QED BY <4>3 DEF j
    <3>7. q[s][p][k] = x
      BY <2>2, <3>1 DEF x
    <3>8. SkipsAt(q[s][p], v[s][p], x)
      BY <2>2, <3>1, <3>4, <3>5, <3>6, <3>7 DEF SkipsAt
    <3> QED BY <2>3, <3>8
  <2>4. CASE ~(s = x.side /\ p = x.px)
    <3>1. c \in LevelChains(u, s, p)
      BY <1>2, <2>4 DEF Drops
    <3>2. QueuedAs(u, s, p, c, Cardinality(At(u, s, p)))
      BY <1>2, <3>1, LevelQueue
    <3>3. v[s][p] = ListOf(u, c)
      BY <3>2 DEF QueuedAs, v
    <3>4. \A i \in 1 .. N : OrderAt(u, c[i]) = OrderAt(b, c[i])
      BY <1>2, <1>3, <2>2, <2>4
    <3> HIDE DEF N
    <3>5. v[s][p] = q[s][p]
      BY <2>2, <3>3, <3>4 DEF ListOf
    <3> QED BY <2>4, <3>5
  <2> QED BY <2>3, <2>4
<1> HIDE DEF q, v, x
<1>5. Lacks(q, v, x)
  BY <1>1, <1>4, SkipLacks
<1> QED BY <1>5 DEF q, v, x

LEMMA ReducedChains ==
  ASSUME NEW b, Shape(b), NEW n, NEW u, Reduced(b, n, u),
         \A s \in Side, p \in Prices : At(u, s, p) = At(b, s, p),
         NEW s \in Side, NEW p \in Prices, NEW c \in LevelChains(b, s, p)
  PROVE  c \in LevelChains(u, s, p)
<1>1. IsFiniteSet(At(b, s, p)) /\ \A m \in At(b, s, p) : m \in Nodes(b)
  <2>1. \A m \in At(b, s, p) : m \in Live(b)
    BY DEF At
  <2>2. BookType(b) /\ Named(b)
    BY DEF Shape
  <2>3. IsFiniteSet(At(b, s, p))
    BY <2>2, FiniteNodes
  <2>4. \A m \in Live(b) : m \in Nodes(b)
    BY LiveNode DEF Shape
  <2> QED BY <2>1, <2>3, <2>4
<1>2. \A m \in At(b, s, p) : u.pool[m].next = b.pool[m].next
  BY <1>1 DEF Reduced
<1>3. c \in Chains(b, At(b, s, p), b.levels[s][p].head)
  BY DEF LevelChains
<1>4. c \in Chains(u, At(b, s, p), b.levels[s][p].head)
  BY <1>1, <1>2, <1>3, ChainSame
<1>5. At(u, s, p) = At(b, s, p) /\ u.levels[s][p].head = b.levels[s][p].head
  BY DEF Reduced
<1> QED BY <1>4, <1>5 DEF LevelChains

\* a fill that leaves something of the order
LEMMA TrimQueues ==
  ASSUME NEW b, Shape(b), Positive(b), NEW n \in Live(b), NEW k,
         NEW u, Shape(u), Reduced(b, n, u), u.pool[n].remaining = b.pool[n].remaining - k,
         Live(u) = Live(b)
  PROVE  Queues(u) = Trimmed(Queues(b), OrderAt(b, n), k)
<1> DEFINE q == Queues(b)
           v == Queues(u)
           x == OrderAt(b, n)
<1>1. \A m \in Live(b) : m \in Nodes(b)
  BY LiveNode DEF Shape
<1>2. \A m \in Live(b) : m # n => OrderAt(u, m) = OrderAt(b, m)
  BY <1>1 DEF Reduced, OrderAt
<1>3. OrderAt(u, n) = Trim(x, k)
  <2>1. /\ u.pool[n].id = b.pool[n].id /\ u.pool[n].agent = b.pool[n].agent
        /\ u.pool[n].px = b.pool[n].px /\ u.pool[n].side = b.pool[n].side
    BY <1>1 DEF Reduced
  <2> QED BY <2>1 DEF OrderAt, Trim
<1>4. \A m \in Live(b) : OrderAt(b, m) = x <=> m = n
  BY LiveOrder
<1>5. \A s \in Side, p \in Prices : At(u, s, p) = At(b, s, p)
  <2>1. \A m \in Live(b) : u.pool[m].px = b.pool[m].px /\ u.pool[m].side = b.pool[m].side
    BY <1>1 DEF Reduced
  <2> QED BY <2>1 DEF At
<1>6. ASSUME NEW s \in Side, NEW p \in Prices
      PROVE  v[s][p] = [i \in DOMAIN q[s][p] |-> IF q[s][p][i] = x THEN Trim(x, k) ELSE q[s][p][i]]
  <2> DEFINE N == Cardinality(At(b, s, p))
  <2>1. PICK c \in LevelChains(b, s, p) : QueuedAs(b, s, p, c, N)
    BY SomeQueue
  <2>2. c \in LevelChains(u, s, p)
    BY <1>5, ReducedChains
  <2>3. QueuedAs(u, s, p, c, Cardinality(At(u, s, p)))
    BY <2>2, LevelQueue
  <2> HIDE DEF N
  <2>4. /\ DOMAIN q[s][p] = 1 .. N /\ DOMAIN c = 1 .. N
        /\ \A i \in 1 .. N : c[i] \in Live(b) /\ q[s][p][i] = OrderAt(b, c[i])
        /\ v[s][p] = ListOf(u, c)
    BY <2>1, <2>3 DEF QueuedAs, At
  <2> HIDE DEF q, v, x
  <2>5. \A i \in 1 .. N : OrderAt(u, c[i]) = IF q[s][p][i] = x THEN Trim(x, k) ELSE q[s][p][i]
    BY <1>2, <1>3, <1>4, <2>4
  <2> QED BY <2>4, <2>5 DEF ListOf
<1>7. v = [s \in Side |-> [p \in Prices |-> v[s][p]]]
  BY DEF Queues
<1> HIDE DEF q, v, x
<1>8. v = Trimmed(q, x, k)
  BY <1>6, <1>7 DEF Trimmed
<1> QED BY <1>8 DEF q, v, x

\* the remainder of an order joins its level
Joining(c, remaining) ==
  [id |-> c.id, agent |-> c.agent, side |-> c.side, px |-> c.px, remaining |-> remaining]

Joined(q, c, remaining) == [q EXCEPT ![c.side][c.px] = Append(@, Joining(c, remaining))]

LEMMA AppendIs ==
  ASSUME NEW A, NEW t \in Seq(A), NEW a
  PROVE  Append(t, a) = [i \in 1 .. Len(t) + 1 |-> IF i <= Len(t) THEN t[i] ELSE a]
<1>1. t \in Seq(A \cup {a}) /\ a \in A \cup {a}
  OBVIOUS
<1>2. /\ Append(t, a) \in Seq(A \cup {a}) /\ Len(Append(t, a)) = Len(t) + 1
      /\ \A i \in 1 .. Len(t) : Append(t, a)[i] = t[i]
      /\ Append(t, a)[Len(t) + 1] = a /\ Len(t) \in Nat
  BY <1>1, AppendProperties
<1> DEFINE w == Append(t, a)
<1>3. w = [i \in 1 .. Len(t) + 1 |-> w[i]]
  <2>1. w \in Seq(A \cup {a}) /\ Len(w) = Len(t) + 1
    BY <1>2
  <2> HIDE DEF w
  <2> QED BY <2>1
<1>4. \A i \in 1 .. Len(t) + 1 : w[i] = IF i <= Len(t) THEN t[i] ELSE a
  BY <1>2
<1> HIDE DEF w
<1>5. w = [i \in 1 .. Len(t) + 1 |-> IF i <= Len(t) THEN t[i] ELSE a]
  BY <1>3, <1>4
<1> QED BY <1>5 DEF w

(* Resting a remainder appends it to the queue of its level. *)
LEMMA RestQueues ==
  ASSUME NEW b, Shape(b), Positive(b), NEW c, NEW remaining, Restable(b, c, remaining),
         NEW u, u = Rest(b, c, remaining)
  PROVE  Queues(u) = Joined(Queues(b), c, remaining)
<1> DEFINE q == Queues(b)
           v == Queues(u)
           n == Alloc(b)
           o == Joining(c, remaining)
<1>1. Shape(u) /\ Rested(b, c, remaining, n, u)
  BY RestKeepsShape
<1>2. c.side \in Side /\ c.px \in Prices /\ n \notin Live(b)
  BY <1>1, RestLive
<1>3. \A m \in Live(b) : OrderAt(u, m) = OrderAt(b, m)
  <2>1. Live(b) \subseteq Nodes(b) \ {n}
    BY <1>2, LiveNode DEF Shape
  <2> QED BY <1>1, <2>1 DEF Rested, RestedPool, OrderAt
<1>4. OrderAt(u, n) = o
  BY <1>1 DEF Rested, RestedPool, OrderAt, Joining
<1> HIDE DEF n, o
<1>5. ASSUME NEW s \in Side, NEW p \in Prices
      PROVE  v[s][p] = IF s = c.side /\ p = c.px THEN Append(q[s][p], o) ELSE q[s][p]
  <2> DEFINE N == Cardinality(At(b, s, p))
  <2>1. PICK d \in LevelChains(b, s, p) : QueuedAs(b, s, p, d, N)
    BY SomeQueue
  <2> HIDE DEF N
  <2>2. /\ N \in Nat /\ Len(q[s][p]) = N /\ DOMAIN d = 1 .. N /\ q[s][p] = ListOf(b, d)
        /\ \A i \in 1 .. N : d[i] \in Live(b) /\ q[s][p][i] = OrderAt(b, d[i])
    BY <2>1 DEF QueuedAs, At
  <2>3. CASE s = c.side /\ p = c.px
    <3> DEFINE e == Extending(d, N, n)
               M == Cardinality(At(u, s, p))
    <3>1. e \in LevelChains(u, s, p)
      BY <1>1, <2>3, RestChains DEF N
    <3>2. QueuedAs(u, s, p, e, M)
      BY <1>1, <3>1, LevelQueue
    <3>3. DOMAIN e = 1 .. N + 1 /\ \A i \in 1 .. N + 1 : e[i] = IF i <= N THEN d[i] ELSE n
      BY DEF Extending
    <3>4. v[s][p] = ListOf(u, e)
      BY <3>2 DEF QueuedAs
    <3> HIDE DEF e, M, v
    <3>5. v[s][p] = [i \in 1 .. N + 1 |-> IF i <= N THEN q[s][p][i] ELSE o]
      <4>1. \A i \in 1 .. N + 1 : OrderAt(u, e[i]) = IF i <= N THEN q[s][p][i] ELSE o
        BY <1>3, <1>4, <2>2, <3>3
      <4> QED BY <3>3, <3>4, <4>1 DEF ListOf
    <3>6. q[s][p] \in Seq(Order)
      BY QueuesWellFormed, LevelSeq
    <3> HIDE DEF q
    <3>7. Append(q[s][p], o) = [i \in 1 .. N + 1 |-> IF i <= N THEN q[s][p][i] ELSE o]
      BY <2>2, <3>6, AppendIs
    <3> QED BY <2>3, <3>5, <3>7
  <2>4. CASE ~(s = c.side /\ p = c.px)
    <3>1. d \in LevelChains(u, s, p)
      BY <1>1, <2>4, RestChains
    <3>2. QueuedAs(u, s, p, d, Cardinality(At(u, s, p)))
      BY <1>1, <3>1, LevelQueue
    <3>3. v[s][p] = ListOf(u, d)
      BY <3>2 DEF QueuedAs
    <3>4. v[s][p] = q[s][p]
      BY <1>3, <2>2, <3>3 DEF ListOf
    <3> QED BY <2>4, <3>4
  <2> QED BY <2>3, <2>4
<1>6. v = [s \in Side |-> [p \in Prices |-> v[s][p]]]
      /\ q = [s \in Side |-> [p \in Prices |-> q[s][p]]]
  BY DEF Queues
<1> HIDE DEF q, v
<1> DEFINE w == [q EXCEPT ![c.side][c.px] = Append(@, o)]
<1>7. /\ w = [s \in Side |-> w[s]]
      /\ \A s \in Side : w[s] = [p \in Prices |-> w[s][p]]
  BY <1>2, <1>6
<1>8. \A s \in Side, p \in Prices :
        w[s][p] = IF s = c.side /\ p = c.px THEN Append(q[s][p], o) ELSE q[s][p]
  BY <1>2, <1>6
<1> HIDE DEF w
<1>9. \A s \in Side, p \in Prices : w[s][p] = v[s][p]
  BY <1>5, <1>8
<1>10. v = w
  BY <1>6, <1>7, <1>9
<1> QED BY <1>10 DEF q, v, w, o, Joined

(* The book starts with empty queues. *)
LEMMA EmptyBookQueues ==
  ASSUME NEW b, Shape(b), Live(b) = {}
  PROVE  Queues(b) = EmptyQueues
<1>1. ASSUME NEW s \in Side, NEW p \in Prices PROVE Queues(b)[s][p] = <<>>
  <2>1. Cardinality(At(b, s, p)) = 0
    BY FS_EmptySet DEF At
  <2>2. PICK c \in LevelChains(b, s, p) : QueuedAs(b, s, p, c, Cardinality(At(b, s, p)))
    BY SomeQueue
  <2>3. Queues(b)[s][p] = ListOf(b, c) /\ DOMAIN c = 1 .. 0
    BY <2>1, <2>2 DEF QueuedAs
  <2> QED BY <2>3 DEF ListOf
<1>2. Queues(b) = [s \in Side |-> [p \in Prices |-> Queues(b)[s][p]]]
  BY DEF Queues
<1> QED BY <1>1, <1>2 DEF EmptyQueues

----------------------------------------------------------------------------
(* What add and cancel decide, seen from the queues.                       *)

(* What the checks of add decide is decided by the queues. *)
LEMMA AddVerdictIs ==
  ASSUME NEW b, Shape(b), Positive(b), NEW c, c.qty \in Int
  PROVE  AddVerdict(Queues(b), c) = AddReason(b, c)
<1>1. LiveIds(Queues(b)) = DOMAIN b.index
  BY RestingNodes
<1>2. c.qty <= 0 <=> ~(c.qty > 0)
  OBVIOUS
<1> QED BY <1>1, <1>2 DEF AddVerdict, AddReason

LEMMA OrderOfId ==
  ASSUME NEW b, Shape(b), Positive(b), NEW id \in DOMAIN b.index
  PROVE  /\ b.index[id] \in Live(b)
         /\ OrderAt(b, b.index[id]) \in Resting(Queues(b))
         /\ \A o \in Resting(Queues(b)) : o.id = id <=> o = OrderAt(b, b.index[id])
<1>1. b.index[id] \in Live(b) /\ b.pool[b.index[id]].id = id
  BY DEF Live, Shape, Named
<1>2. OrderAt(b, b.index[id]) \in Resting(Queues(b)) /\ OrderAt(b, b.index[id]).id = id
  BY <1>1, RestingNodes, OrderAtFields
<1>3. ASSUME NEW o \in Resting(Queues(b)), o.id = id
      PROVE  o = OrderAt(b, b.index[id])
  <2>1. PICK n \in Live(b) : o = OrderAt(b, n)
    BY RestingNodes
  <2> QED BY <1>1, <1>2, <1>3, <2>1, LiveOrder
<1> QED BY <1>1, <1>2, <1>3

(* What the checks of cancel decide is decided by the queues. *)
LEMMA CancelVerdictIs ==
  ASSUME NEW b, Shape(b), Positive(b), NEW id, NEW agent
  PROVE  CancelVerdict(Queues(b), id, agent) = CancelReason(b, id, agent)
<1>1. LiveIds(Queues(b)) = DOMAIN b.index
  BY RestingNodes
<1>2. CASE id \notin DOMAIN b.index
  <2>1. CancelReason(b, id, agent) = "UnknownOrder"
    BY <1>2 DEF CancelReason
  <2>2. ASSUME NEW o \in Resting(Queues(b)) PROVE o.id # id
    BY <1>1, <1>2 DEF LiveIds
  <2>3. ~(\E o \in Resting(Queues(b)) : o.id = id /\ o.agent # agent)
    BY <2>2
  <2>4. id \notin LiveIds(Queues(b))
    BY <1>1, <1>2
  <2>5. CancelVerdict(Queues(b), id, agent) = "UnknownOrder"
    BY <2>3, <2>4 DEF CancelVerdict
  <2> QED BY <2>1, <2>5
<1>3. CASE id \in DOMAIN b.index
  <2>1. /\ OrderAt(b, b.index[id]) \in Resting(Queues(b))
        /\ \A o \in Resting(Queues(b)) : o.id = id <=> o = OrderAt(b, b.index[id])
    BY <1>3, OrderOfId
  <2>2. OrderAt(b, b.index[id]).agent = b.pool[b.index[id]].agent
    BY OrderAtFields
  <2>3. (\E o \in Resting(Queues(b)) : o.id = id /\ o.agent # agent) <=> b.pool[b.index[id]].agent # agent
    BY <2>1, <2>2
  <2> QED BY <1>1, <1>3, <2>3 DEF CancelVerdict, CancelReason
<1> QED BY <1>2, <1>3

\* the queues without an order are the queues of the book that lacks its node
LEMMA WithoutIs ==
  ASSUME NEW q, NEW u, NEW x, WellFormed(q), WellFormed(u), Lacks(q, u, x), x \in Resting(q),
         NEW id, \A o \in Resting(q) : o.id = id <=> o = x
  PROVE  Without(q, id) = u
<1>1. ASSUME NEW s \in Side, NEW p \in Prices
      PROVE  Ranked(q, {o \in ToSet(q[s][p]) : o.id # id}) = u[s][p]
  <2>1. ToSet(u[s][p]) = ToSet(q[s][p]) \ {x}
    BY DEF Lacks
  <2>2. \A o \in ToSet(q[s][p]) : o \in Resting(q)
    BY LevelOrders
  <2>3. {o \in ToSet(q[s][p]) : o.id # id} = ToSet(u[s][p])
    BY <2>1, <2>2
  <2>4. \A o \in ToSet(u[s][p]) : o \in Resting(u) /\ o.side = s
    BY LevelOrders
  <2>5. \A o, r \in ToSet(u[s][p]) : Ahead(q, o, r) = Ahead(u, o, r)
    BY <2>4 DEF Lacks
  <2>6. Ranked(q, ToSet(u[s][p])) = Ranked(u, ToSet(u[s][p]))
    BY <2>5, RankedSame
  <2>7. Ranked(u, ToSet(u[s][p])) = u[s][p]
    BY LevelRanked
  <2> QED BY <2>3, <2>6, <2>7
<1>2. u = [s \in Side |-> [p \in Prices |-> u[s][p]]]
  BY DEF WellFormed
<1> QED BY <1>1, <1>2 DEF Without

----------------------------------------------------------------------------
(* The walk of add, seen from the queues.                                  *)

(* The head of a level holds the first order of its queue. *)
LEMMA LevelFront ==
  ASSUME NEW b, Shape(b), Positive(b), NEW s \in Side, NEW p \in Prices
  PROVE  /\ Queues(b)[s][p] # <<>> <=> b.levels[s][p].count # 0
         /\ b.levels[s][p].head # NIL =>
              /\ Queues(b)[s][p] # <<>> /\ b.levels[s][p].count # 0
              /\ Queues(b)[s][p][1] = OrderAt(b, b.levels[s][p].head)
<1> DEFINE N == Cardinality(At(b, s, p))
           t == Queues(b)[s][p]
           head == b.levels[s][p].head
<1>1. PICK c \in LevelChains(b, s, p) : QueuedAs(b, s, p, c, N)
  BY SomeQueue
<1>2. b.levels[s][p].count = N
  BY DEF Shape, CountsOK
<1>3. head # NIL => At(b, s, p) # {}
  BY DEF Shape, EndsOK
<1>4. At(b, s, p) # {} => N # 0
  <2>1. BookType(b) /\ Named(b)
    BY DEF Shape
  <2>2. IsFiniteSet(At(b, s, p))
    BY <2>1, FiniteNodes
  <2>3. At(b, s, p) # {} => N > 0
    BY <2>2, CardinalityNat
  <2> QED BY <2>3
<1>5. t \in Seq(Order)
  BY QueuesWellFormed, LevelSeq
<1> HIDE DEF N
<1>6. /\ N \in Nat /\ Len(t) = N
      /\ \A i \in 1 .. N : t[i] = OrderAt(b, c[i])
      /\ At(b, s, p) # {} => head = c[1]
  BY <1>1 DEF QueuedAs
<1> HIDE DEF t, head
<1>7. t # <<>> <=> N # 0
  BY <1>5, <1>6
<1>8. head # NIL => N # 0 /\ 1 \in 1 .. N
  BY <1>3, <1>4, <1>6
<1>9. head # NIL => t[1] = OrderAt(b, head)
  BY <1>3, <1>6, <1>8
<1> QED BY <1>2, <1>7, <1>8, <1>9 DEF t, head

\* the walk stands at the best opposite price, and the order reaches it
AtBest ==
  phase = "walk" =>
    /\ Reaches(call.cmd.side, call.cmd.px, call.px)
    /\ call.cur # NIL /\ call.remaining > 0 => book.best[Opposite(call.cmd.side)] = call.px

(* The head of the best opposite level is the first order faced, if it is  *)
(* faced.                                                                  *)
LEMMA BestFirst ==
  ASSUME NEW b, Shape(b), Positive(b), NEW d, d.side \in Side,
         NEW s, s = Opposite(d.side), NEW p \in Prices, b.best[s] = p,
         Reaches(d.side, d.px, p), b.levels[s][p].head # NIL
  PROVE  First(Queues(b), d, OrderAt(b, b.levels[s][p].head))
<1> DEFINE q == Queues(b)
           x == OrderAt(b, b.levels[s][p].head)
<1>1. s \in Side
  BY OppositeSide
<1>2. WellFormed(q)
  BY QueuesWellFormed
<1>3. q[s][p] # <<>> /\ q[s][p][1] = x
  BY <1>1, LevelFront
<1>4. \A r \in Prices : q[s][r] # <<>> => ~Better(s, r, p)
  <2> TAKE r \in Prices
  <2>1. q[s][r] # <<>> => b.levels[s][r].count # 0
    BY <1>1, LevelFront
  <2> QED BY <1>1, <2>1 DEF Shape, BestOK
<1> HIDE DEF q, x
<1>5. /\ x \in Resting(q) /\ x.side = s /\ x.px = p
      /\ \A y \in Resting(q) \ {x} : y.side = s => Ahead(q, x, y) /\ ~Ahead(q, y, x)
  BY <1>1, <1>2, <1>3, <1>4, BestAhead
<1>6. First(q, d, x)
  BY <1>5 DEF First, Facing
<1> QED BY <1>6 DEF q, x

LEMMA CallFields ==
  ASSUME BookInv, phase # "idle"
  PROVE  /\ call.cmd \in OrderFields /\ call.cmd \in NewOrders
         /\ call.cmd.side \in Side /\ Opposite(call.cmd.side) \in Side
         /\ call.cmd.px \in Prices /\ call.remaining \in Nat
         /\ Wanting(call.cmd, call.remaining).qty = call.remaining
         /\ Wanting(call.cmd, call.remaining).side = call.cmd.side
         /\ Wanting(call.cmd, call.remaining).px = call.cmd.px
         /\ Wanting(call.cmd, call.remaining).tif = call.cmd.tif
         /\ Wanting(call.cmd, call.remaining).agent = call.cmd.agent
         /\ Wanting(call.cmd, call.remaining).id = call.cmd.id
         /\ Wanting(call.cmd, call.remaining) \in OrderFields
<1>1. call.cmd \in NewOrders /\ call.cmd.px \in Prices /\ call.remaining \in Nat
  BY DEF BookInv, CallOK
<1>2. call.cmd \in OrderFields
  BY <1>1, NewOrdersAssumption
<1>3. call.cmd.side \in Side
  BY <1>2 DEF OrderFields
<1>4. Wanting(call.cmd, call.remaining) \in OrderFields
  BY <1>1, <1>2 DEF OrderFields, Wanting
<1> QED BY <1>1, <1>2, <1>3, <1>4, WantingFields, OppositeSide

LEMMA WalkFirst ==
  ASSUME BookInv, AtBest, Walking
  PROVE  First(Queues(book), Wanting(call.cmd, call.remaining), OrderAt(book, call.cur))
<1> DEFINE d == Wanting(call.cmd, call.remaining)
           s == Opposite(call.cmd.side)
<1>1. phase = "walk" /\ call.cur # NIL /\ call.remaining > 0
  BY DEF Walking
<1>2. d.side = call.cmd.side /\ d.px = call.cmd.px /\ d.side \in Side
  BY <1>1, CallFields
<1> HIDE DEF d
<1>3. /\ call.px \in Prices /\ call.cur = book.levels[s][call.px].head
      /\ book.best[s] = call.px /\ Reaches(d.side, d.px, call.px)
  BY <1>1, <1>2 DEF BookInv, AtHead, AtBest
<1>4. s = Opposite(d.side) /\ book.levels[s][call.px].head # NIL
  BY <1>1, <1>2, <1>3
<1>5. First(Queues(book), d, OrderAt(book, book.levels[s][call.px].head))
  BY <1>2, <1>3, <1>4, BestFirst DEF BookInv
<1> QED BY <1>3, <1>5 DEF d

LEMMA ReachesBetter ==
  ASSUME NEW s \in Side, NEW px \in Int, NEW p \in Int, NEW r \in Int,
         Reaches(s, px, p), ~Better(Opposite(s), p, r)
  PROVE  Reaches(s, px, r)
  BY DEF Side, Reaches, Better, Opposite, Buy, Sell

(* A walk that stops with something still wanted faces nothing any more. *)
LEMMA MatchedFacesNone ==
  ASSUME BookInv, Matched
  PROVE  LET d == Wanting(call.cmd, call.remaining)
         IN d.qty \in Nat /\ (d.qty = 0 \/ Facing(Queues(book), d) = {})
<1> DEFINE d == Wanting(call.cmd, call.remaining)
           s == Opposite(call.cmd.side)
           q == Queues(book)
<1>1. phase # "idle" /\ ~(call.remaining > 0 /\ Crosses(book, call.cmd))
  BY DEF Matched
<1>2. /\ d.qty = call.remaining /\ d.qty \in Nat /\ d.side = call.cmd.side /\ d.px = call.cmd.px
      /\ call.cmd.side \in Side /\ s \in Side /\ call.cmd.px \in Prices
  BY <1>1, CallFields
<1>3. WellFormed(q) /\ Shape(book) /\ Positive(book)
  BY QueuesWellFormed DEF BookInv
<1> HIDE DEF d
<1>4. ASSUME NEW o \in Facing(q, d), d.qty # 0 PROVE FALSE
  <2>1. o \in Resting(q) /\ o.side = s /\ Reaches(d.side, d.px, o.px)
    BY <1>2, <1>4 DEF Facing
  <2> HIDE DEF q
  <2>2. o.px \in Prices /\ \E i \in 1 .. Len(q[o.side][o.px]) : q[o.side][o.px][i] = o
    BY <1>3, <2>1, RestingPlace
  <2>3. q[s][o.px] # <<>>
    BY <2>1, <2>2
  <2>4. book.levels[s][o.px].count # 0
    BY <1>2, <1>3, <2>2, <2>3, LevelFront DEF q
  <2>5. book.best[s] # NoPrice /\ ~Better(s, o.px, book.best[s])
    BY <1>2, <1>3, <2>2, <2>4 DEF Shape, BestOK
  <2>6. book.best[s] \in Prices
    BY <1>2, <1>3, <2>5 DEF Shape, BookType
  <2>7. o.px \in Int /\ book.best[s] \in Int /\ call.cmd.px \in Int
    <3>1. \A p \in Prices : p \in Int
      BY PricesNat
    <3> QED BY ONLY <1>2, <2>2, <2>6, <3>1
  <2>8. Reaches(call.cmd.side, call.cmd.px, book.best[s])
    BY <1>2, <2>1, <2>5, <2>7, ReachesBetter
  <2>9. Crosses(book, call.cmd)
    BY <2>5, <2>8 DEF Crosses
  <2>10. call.remaining > 0
    BY <1>2, <1>4
  <2> QED BY <1>1, <2>9, <2>10
<1> QED BY <1>2, <1>4 DEF d

LEMMA UnlinkDrops ==
  ASSUME NEW b, Shape(b), Positive(b), NEW n \in Live(b), NEW u, u = Unlink(b, n)
  PROVE  Drops(b, u, n)
<1>1. Shape(u) /\ Unlinked(b, n, u)
  BY UnlinkKeepsShape
<1>2. Live(u) = Live(b) \ {n} /\ \A m \in Live(u) : u.pool[m].remaining = b.pool[m].remaining
  BY UnlinkEffect
<1>3. Positive(u)
  BY <1>2 DEF Positive
<1>4. \A m \in Live(b) \ {n} : OrderAt(u, m) = OrderAt(b, m)
  <2>1. \A m \in Live(b) : m \in Nodes(b)
    BY LiveNode DEF Shape
  <2> QED BY <1>1, <2>1 DEF Unlinked, UnlinkedPool, OrderAt
<1>5. BookType(b) /\ Named(b) /\ LinksOK(b)
  BY DEF Shape
<1>6. ASSUME NEW s \in Side, NEW p \in Prices, NEW c \in LevelChains(b, s, p)
      PROVE  IF s = b.pool[n].side /\ p = b.pool[n].px
             THEN \E k \in 1 .. Cardinality(At(b, s, p)) :
                    c[k] = n /\ Skipping(c, Cardinality(At(b, s, p)), k) \in LevelChains(u, s, p)
             ELSE c \in LevelChains(u, s, p)
  BY <1>1, <1>5, UnlinkChains
<1> QED BY <1>1, <1>3, <1>4, <1>6 DEF Drops

\* a maker that is filled to nothing and unlinked
LEMMA FilledDrops ==
  ASSUME NEW b, Shape(b), Positive(b), NEW n \in Live(b),
         NEW r, r = Reduce(b, n, b.pool[n].remaining), NEW u, u = Unlink(r, n)
  PROVE  Drops(b, u, n)
<1>1. b.pool[n].remaining \in Nat
  BY LiveNode DEF Shape, NodeType
<1>2. BookType(r) /\ Reduced(b, n, r)
  <2>1. b.pool[n].remaining <= b.pool[n].remaining
    BY <1>1
  <2> QED BY <1>1, <2>1, ReduceIsReduced DEF Shape
<1>3. Shape(r) /\ Live(r) = Live(b)
  BY <1>2, ReduceKeepsShape
<1>4. \A m \in Live(b) : m \in Nodes(b)
  BY LiveNode DEF Shape
<1>5. \A m \in Live(b) \ {n} : OrderAt(r, m) = OrderAt(b, m)
  BY <1>2, <1>4 DEF Reduced, OrderAt
<1>6. r.pool[n].side = b.pool[n].side /\ r.pool[n].px = b.pool[n].px
  BY <1>2, <1>4 DEF Reduced
<1>7. \A s \in Side, p \in Prices : At(r, s, p) = At(b, s, p)
  BY <1>2, <1>3, <1>4 DEF Reduced, At
<1>8. Shape(u) /\ Unlinked(r, n, u)
  BY <1>3, UnlinkKeepsShape
<1>9. \A m \in Live(b) \ {n} : OrderAt(u, m) = OrderAt(r, m) /\ u.pool[m].remaining = r.pool[m].remaining
  <2>1. \A m \in Live(b) : m \in Nodes(r)
    BY <1>3, LiveNode DEF Shape
  <2> QED BY <1>8, <2>1 DEF Unlinked, UnlinkedPool, OrderAt
<1>10. Positive(u)
  <2>1. Live(u) = Live(b) \ {n}
    BY <1>3, <1>8, UnlinkLive DEF Shape
  <2>2. \A m \in Live(b) \ {n} : r.pool[m].remaining = b.pool[m].remaining
    BY <1>2, <1>4 DEF Reduced
  <2> QED BY <1>9, <2>1, <2>2 DEF Positive
<1>11. BookType(r) /\ Named(r) /\ LinksOK(r) /\ n \in Live(r)
  BY <1>3 DEF Shape
<1>12. ASSUME NEW s \in Side, NEW p \in Prices, NEW c \in LevelChains(b, s, p)
       PROVE  IF s = b.pool[n].side /\ p = b.pool[n].px
              THEN \E k \in 1 .. Cardinality(At(b, s, p)) :
                     c[k] = n /\ Skipping(c, Cardinality(At(b, s, p)), k) \in LevelChains(u, s, p)
              ELSE c \in LevelChains(u, s, p)
  <2>1. c \in LevelChains(r, s, p)
    BY <1>2, <1>7, ReducedChains
  <2>2. /\ s = r.pool[n].side /\ p = r.pool[n].px =>
             \E k \in 1 .. Cardinality(At(r, s, p)) :
                c[k] = n /\ Skipping(c, Cardinality(At(r, s, p)), k) \in LevelChains(u, s, p)
        /\ ~(s = r.pool[n].side /\ p = r.pool[n].px) => c \in LevelChains(u, s, p)
    BY <1>8, <1>11, <2>1, UnlinkChains
  <2> QED BY <1>6, <1>7, <2>2
<1>13. \A m \in Live(b) \ {n} : OrderAt(u, m) = OrderAt(b, m)
  BY <1>5, <1>9
<1> QED BY <1>8, <1>10, <1>12, <1>13 DEF Drops

----------------------------------------------------------------------------
(* Each step of the walk does one order's worth of the match.              *)

\* t is a sequence
IsSeq(t) == t \in Seq({t[i] : i \in DOMAIN t})

LEMMA IsSeqOf ==
  ASSUME NEW S, NEW t \in Seq(S)
  PROVE  IsSeq(t)
<1>1. Len(t) \in Nat /\ DOMAIN t = 1 .. Len(t) /\ t = [i \in 1 .. Len(t) |-> t[i]]
  OBVIOUS
<1> DEFINE T == {t[i] : i \in DOMAIN t}
<1>2. \A i \in 1 .. Len(t) : t[i] \in T
  BY <1>1
<1> HIDE DEF T
<1>3. t \in [1 .. Len(t) -> T]
  BY <1>1, <1>2
<1>4. t \in Seq(T)
  BY <1>1, <1>3
<1> QED BY <1>4 DEF IsSeq, T

LEMMA EachSeq ==
  ASSUME NEW S, NEW t \in Seq(S), NEW f
  PROVE  IsSeq(Each(f, t))
<1> DEFINE T == {f[t[i]] : i \in 1 .. Len(t)}
           e == Each(f, t)
<1>1. e = [i \in 1 .. Len(t) |-> f[t[i]]] /\ Len(t) \in Nat
  BY DEF Each
<1>2. \A i \in 1 .. Len(t) : f[t[i]] \in T
  OBVIOUS
<1> HIDE DEF T, e
<1>3. e \in [1 .. Len(t) -> T]
  BY <1>1, <1>2
<1>4. e \in Seq(T)
  BY <1>1, <1>3
<1>5. IsSeq(e)
  BY <1>4, IsSeqOf
<1> QED BY <1>5 DEF e

LEMMA ReportSeqs ==
  ASSUME NEW q, WellFormed(q), NEW c
  PROVE  IsSeq(Fills(q, c)) /\ IsSeq(SelfTrades(q, c))
<1>1. Hit(q, c) \subseteq Facing(q, c) /\ Own(q, c) \subseteq Facing(q, c)
  BY DEF Hit, Own
<1>2. Ranked(q, Hit(q, c)) \in Seq(Hit(q, c)) /\ Ranked(q, Own(q, c)) \in Seq(Own(q, c))
  BY <1>1, FacingSubset
<1>3. IsSeq(Each([o \in Facing(q, c) |-> FillOf(o, Take(q, c, o))], Ranked(q, Hit(q, c))))
  BY <1>2, EachSeq
<1>4. IsSeq(Each([o \in Facing(q, c) |-> CancelOf(o)], Ranked(q, Own(q, c))))
  BY <1>2, EachSeq
<1> QED BY <1>3, <1>4, ReportsEach

LEMMA ContinuesStart ==
  ASSUME NEW t, IsSeq(t)
  PROVE  Continues(t, <<>>, t)
  BY DEF IsSeq, Continues

LEMMA ContinuesEnd ==
  ASSUME NEW all, NEW done, IsSeq(done), Continues(all, done, <<>>)
  PROVE  all = done
  BY DEF IsSeq, Continues

LEMMA ContinuesStep ==
  ASSUME NEW all, NEW done, NEW y, NEW more, NEW rest, IsSeq(done), IsSeq(rest),
         Continues(all, done, more), Continues(more, <<y>>, rest)
  PROVE  Continues(all, Append(done, y), rest) /\ IsSeq(Append(done, y))
<1> DEFINE S == {done[i] : i \in DOMAIN done} \cup {rest[i] : i \in DOMAIN rest} \cup {y}
<1>1. done \in Seq(S) /\ rest \in Seq(S) /\ y \in S
  <2>1. \A i \in DOMAIN done : done[i] \in S
    OBVIOUS
  <2>2. \A i \in DOMAIN rest : rest[i] \in S
    OBVIOUS
  <2>3. y \in S
    OBVIOUS
  <2>4. /\ done = [i \in 1 .. Len(done) |-> done[i]] /\ Len(done) \in Nat
        /\ rest = [i \in 1 .. Len(rest) |-> rest[i]] /\ Len(rest) \in Nat
        /\ DOMAIN done = 1 .. Len(done) /\ DOMAIN rest = 1 .. Len(rest)
    BY DEF IsSeq
  <2> HIDE DEF S
  <2>5. done \in [1 .. Len(done) -> S] /\ rest \in [1 .. Len(rest) -> S]
    BY <2>1, <2>2, <2>4
  <2> QED BY <2>3, <2>4, <2>5
<1> HIDE DEF S
<1>2. <<y>> \in Seq(S) /\ Append(done, y) \in Seq(S)
  BY <1>1
<1>3. Append(done, y) = done \o <<y>>
  BY <1>1, AppendIsConcat
<1>4. (done \o <<y>>) \o rest = done \o (<<y>> \o rest)
  BY <1>1, <1>2, ConcatAssociative
<1>5. Continues(all, Append(done, y), rest)
  BY <1>3, <1>4 DEF Continues
<1>6. IsSeq(Append(done, y))
  BY <1>2, IsSeqOf
<1> QED BY <1>5, <1>6

\* matching d with q gives what is still missing of matching c with e
Completes(e, c, fills, stp, filled, q, d) ==
  /\ WellFormed(q) /\ d \in OrderFields /\ d.qty \in Nat
  /\ IsSeq(fills) /\ IsSeq(stp) /\ filled \in Int
  /\ Continues(Fills(e, c), fills, Fills(q, d))
  /\ Continues(SelfTrades(e, c), stp, SelfTrades(q, d))
  /\ Filled(e, c) = filled + Filled(q, d)
  /\ Remainder(e, c) = Remainder(q, d)
  /\ Match(e, c).queue = Match(q, d).queue

(* At the start of a call all of the match is still to be done. *)
LEMMA CompletesStart ==
  ASSUME NEW q, WellFormed(q), NEW c \in OrderFields, c.qty \in Nat
  PROVE  Completes(q, c, <<>>, <<>>, 0, q, c)
<1>1. IsSeq(Fills(q, c)) /\ IsSeq(SelfTrades(q, c))
  BY ReportSeqs
<1>2. /\ Continues(Fills(q, c), <<>>, Fills(q, c))
      /\ Continues(SelfTrades(q, c), <<>>, SelfTrades(q, c))
  BY <1>1, ContinuesStart
<1>3. Filled(q, c) \in Nat
  BY FilledSum
<1>4. Filled(q, c) = 0 + Filled(q, c)
  BY <1>3
<1>5. IsSeq(<<>>)
  <2>1. <<>> \in Seq({})
    OBVIOUS
  <2> QED BY <2>1, IsSeqOf
<1> QED BY <1>2, <1>4, <1>5 DEF Completes

LEMMA CompletesCancel ==
  ASSUME NEW e, NEW c, NEW fills, NEW stp, NEW filled, NEW q, NEW d,
         Completes(e, c, fills, stp, filled, q, d),
         NEW x, NEW u, NEW w, Peels(q, d, x, u, w), x.agent = d.agent
  PROVE  Completes(e, c, fills, Append(stp, CancelOf(x)), filled, u, w)
<1>1. /\ Fills(q, d) = Fills(u, w)
      /\ Continues(SelfTrades(q, d), <<CancelOf(x)>>, SelfTrades(u, w))
  <2>1. ReportsCancel(q, d, x, u, w)
    BY PeelReports, Zenon
  <2> QED BY <2>1 DEF ReportsCancel
<1>2. /\ Filled(q, d) = Filled(u, w) + Offer(d, x) /\ Filled(u, w) \in Nat
      /\ Remainder(q, d) = Remainder(u, w)
  BY PeelFilled
<1>3. Offer(d, x) = 0
  BY DEF Offer
<1>4. Match(q, d).queue = Match(u, w).queue
  BY PeelMatch
<1>5. WellFormed(u) /\ w.qty \in Nat /\ w \in OrderFields
  <2>1. WellFormed(u) /\ d \in OrderFields /\ w = Wanting(d, d.qty - Offer(d, x))
    BY DEF Peels
  <2>2. w.qty \in Nat /\ w.qty = d.qty - Offer(d, x)
    BY PeelFields
  <2>3. d.qty - Offer(d, x) \in Int
    BY <2>2
  <2> QED BY <2>1, <2>2, <2>3 DEF OrderFields, Wanting
<1>6. IsSeq(SelfTrades(u, w))
  BY <1>5, ReportSeqs
<1>7. /\ Continues(SelfTrades(e, c), Append(stp, CancelOf(x)), SelfTrades(u, w))
      /\ IsSeq(Append(stp, CancelOf(x)))
  BY <1>1, <1>6, ContinuesStep DEF Completes
<1>8. Filled(e, c) = filled + Filled(u, w)
  BY <1>2, <1>3 DEF Completes
<1> QED BY <1>1, <1>2, <1>4, <1>5, <1>7, <1>8 DEF Completes

LEMMA CompletesFill ==
  ASSUME NEW e, NEW c, NEW fills, NEW stp, NEW filled, NEW q, NEW d,
         Completes(e, c, fills, stp, filled, q, d),
         NEW x, NEW u, NEW w, Peels(q, d, x, u, w), x.agent # d.agent
  PROVE  Completes(e, c, Append(fills, FullFill(x)), stp, filled + x.remaining, u, w)
<1>1. /\ SelfTrades(q, d) = SelfTrades(u, w)
      /\ Continues(Fills(q, d), <<FullFill(x)>>, Fills(u, w))
  <2>1. ReportsFill(q, d, x, u, w)
    BY PeelReports, Zenon
  <2> QED BY <2>1 DEF ReportsFill
<1>2. /\ Filled(q, d) = Filled(u, w) + Offer(d, x) /\ Filled(u, w) \in Nat
      /\ Offer(d, x) \in Nat
      /\ Remainder(q, d) = Remainder(u, w)
  BY PeelFilled
<1>3. Offer(d, x) = x.remaining
  BY DEF Offer
<1>4. Match(q, d).queue = Match(u, w).queue
  BY PeelMatch
<1>5. WellFormed(u) /\ w.qty \in Nat /\ w \in OrderFields
  <2>1. WellFormed(u) /\ d \in OrderFields /\ w = Wanting(d, d.qty - Offer(d, x))
    BY DEF Peels
  <2>2. w.qty \in Nat /\ w.qty = d.qty - Offer(d, x)
    BY PeelFields
  <2>3. d.qty - Offer(d, x) \in Int
    BY <2>2
  <2> QED BY <2>1, <2>2, <2>3 DEF OrderFields, Wanting
<1>6. IsSeq(Fills(u, w))
  BY <1>5, ReportSeqs
<1>7. /\ Continues(Fills(e, c), Append(fills, FullFill(x)), Fills(u, w))
      /\ IsSeq(Append(fills, FullFill(x)))
  BY <1>1, <1>6, ContinuesStep DEF Completes
<1>8. Filled(e, c) = (filled + x.remaining) + Filled(u, w) /\ filled + x.remaining \in Int
  <2>1. filled \in Int /\ Filled(e, c) = filled + Filled(q, d)
    BY DEF Completes
  <2> QED BY ONLY <1>2, <1>3, <2>1
<1> QED BY <1>1, <1>2, <1>4, <1>5, <1>7, <1>8 DEF Completes

LEMMA NoRemainder ==
  ASSUME NEW q, NEW d, d.qty \in Nat, Filled(q, d) = d.qty
  PROVE  Remainder(q, d) = 0 /\ Match(q, d).queue = Kept(q, d)
<1>1. Remainder(q, d) = 0
  BY DEF Remainder
<1> QED BY <1>1 DEF Match

(* A fill that uses up what is wanted is the last of the match. *)
LEMMA CompletesLast ==
  ASSUME NEW e, NEW c, NEW fills, NEW stp, NEW filled, NEW q, NEW d,
         Completes(e, c, fills, stp, filled, q, d),
         NEW x, Exhausts(q, d, x), NEW u, WellFormed(u), u = Trimmed(q, x, d.qty),
         NEW w \in OrderFields, w.qty = 0
  PROVE  Completes(e, c, Append(fills, FillOf(x, d.qty)), stp, filled + d.qty, u, w)
<1>1. /\ Fills(q, d) = <<FillOf(x, d.qty)>> /\ SelfTrades(q, d) = <<>>
      /\ Filled(q, d) = d.qty /\ Kept(q, d) = u
  BY Exhausted
<1>2. /\ Fills(u, w) = <<>> /\ SelfTrades(u, w) = <<>> /\ Filled(u, w) = 0 /\ Kept(u, w) = u
  BY NothingToDo
<1>3. Remainder(q, d) = Remainder(u, w) /\ Match(q, d).queue = Match(u, w).queue
  BY <1>1, <1>2, NoRemainder DEF Completes
<1>4. Continues(Fills(q, d), <<FillOf(x, d.qty)>>, Fills(u, w)) /\ IsSeq(Fills(u, w))
  <2>1. IsSeq(Fills(u, w))
    BY ReportSeqs
  <2>2. <<FillOf(x, d.qty)>> = <<FillOf(x, d.qty)>> \o <<>>
    OBVIOUS
  <2> QED BY <1>1, <1>2, <2>1, <2>2 DEF Continues
<1>5. /\ Continues(Fills(e, c), Append(fills, FillOf(x, d.qty)), Fills(u, w))
      /\ IsSeq(Append(fills, FillOf(x, d.qty)))
  BY <1>4, ContinuesStep DEF Completes
<1>6. Filled(e, c) = (filled + d.qty) + Filled(u, w) /\ filled + d.qty \in Int
  <2>1. filled \in Int /\ d.qty \in Nat /\ Filled(e, c) = filled + Filled(q, d)
    BY DEF Completes
  <2> QED BY ONLY <1>1, <1>2, <2>1
<1> QED BY <1>1, <1>2, <1>3, <1>5, <1>6 DEF Completes

\* the match m when nothing is left for d: its remainder, if any, joins q
Ends(m, fills, stp, filled, q, d) ==
  /\ m.fills = fills /\ m.stp = stp /\ m.filled = filled
  /\ m.resting = IF d.tif = "GTC" THEN d.qty ELSE 0
  /\ m.queue = IF d.tif = "GTC" /\ d.qty > 0 THEN Joined(q, d, d.qty) ELSE q

LEMMA CompletesEnd ==
  ASSUME NEW e, NEW c, NEW fills, NEW stp, NEW filled, NEW q, NEW d,
         Completes(e, c, fills, stp, filled, q, d), d.qty = 0 \/ Facing(q, d) = {}
  PROVE  Ends(Match(e, c), fills, stp, filled, q, d)
<1>1. /\ Fills(q, d) = <<>> /\ SelfTrades(q, d) = <<>> /\ Filled(q, d) = 0 /\ Kept(q, d) = q
      /\ d.qty \in Nat
  BY NothingToDo DEF Completes
<1>2. Fills(e, c) = fills /\ SelfTrades(e, c) = stp
  BY <1>1, ContinuesEnd DEF Completes
<1>3. Filled(e, c) = filled
  BY <1>1 DEF Completes
<1>4. Remainder(q, d) = IF d.tif = "GTC" THEN d.qty ELSE 0
  BY <1>1 DEF Remainder
<1>5. Match(q, d).queue = IF d.tif = "GTC" /\ d.qty > 0 THEN Joined(q, d, d.qty) ELSE q
  <2> DEFINE order == [id |-> d.id, agent |-> d.agent, side |-> d.side, px |-> d.px,
                       remaining |-> Remainder(q, d)]
  <2>1. Match(q, d).queue = IF Remainder(q, d) > 0
                            THEN [Kept(q, d) EXCEPT ![d.side][d.px] = Append(@, order)]
                            ELSE Kept(q, d)
    BY DEF Match
  <2>2. CASE d.tif = "GTC" /\ d.qty > 0
    <3>1. Remainder(q, d) = d.qty /\ order = Joining(d, d.qty)
      BY <1>4, <2>2 DEF Joining
    <3> HIDE DEF order
    <3> QED BY <1>1, <2>1, <2>2, <3>1 DEF Joined
  <2>3. CASE ~(d.tif = "GTC" /\ d.qty > 0)
    <3>1. ~(Remainder(q, d) > 0)
      BY <1>1, <1>4, <2>3
    <3> QED BY <1>1, <2>1, <2>3, <3>1
  <2> QED BY <2>2, <2>3
<1>6. /\ Match(e, c).fills = Fills(e, c) /\ Match(e, c).stp = SelfTrades(e, c)
      /\ Match(e, c).filled = Filled(e, c) /\ Match(e, c).resting = Remainder(e, c)
  BY DEF Match
<1>7. Match(e, c).queue = Match(q, d).queue /\ Remainder(e, c) = Remainder(q, d)
  BY DEF Completes
<1> QED BY <1>2, <1>3, <1>4, <1>5, <1>6, <1>7 DEF Ends

----------------------------------------------------------------------------
(* The copies of the operators that the abstract book instantiates.        *)

(* The operators of the instance Limit are those of Matching. *)
LEMMA LimitIs ==
  /\ \A q, c : Limit!Match(q, c) = Match(q, c)
  /\ \A q, c : Limit!AddVerdict(q, c) = AddVerdict(q, c)
  /\ \A q, id, agent : Limit!CancelVerdict(q, id, agent) = CancelVerdict(q, id, agent)
  /\ \A q, id : Limit!Without(q, id) = Without(q, id)
  /\ \A q : Limit!Resting(q) = Resting(q)
  /\ Limit!EmptyQueues = EmptyQueues
<1>1. \A S : Limit!Cardinality(S) = Cardinality(S)
  BY DEF Cardinality, Limit!Cardinality
<1>2. \A f : Limit!SumFunction(f) = SumFunction(f)
  BY DEF SumFunction, Limit!SumFunction, SumFunctionOnSet, Limit!SumFunctionOnSet,
         FoldFunctionOnSet, Limit!FoldFunctionOnSet, MapThenFoldSet, Limit!MapThenFoldSet
<1>3. \A t : Limit!ToSet(t) = ToSet(t)
  BY DEF Limit!ToSet, ToSet
<1>4. /\ \A s, p, r : Limit!Better(s, p, r) = Better(s, p, r)
      /\ \A s, p, r : Limit!Reaches(s, p, r) = Reaches(s, p, r)
  BY DEF Limit!Better, Better, Limit!Reaches, Reaches, Limit!Buy, Buy
<1>5. /\ Limit!Side = Side /\ Limit!Prices = Prices
      /\ \A s : Limit!Opposite(s) = Opposite(s)
      /\ \A px : Limit!InBand(px) = InBand(px)
  BY DEF Limit!Side, Side, Limit!Buy, Buy, Limit!Sell, Sell, Limit!Prices, Prices,
         Limit!Opposite, Opposite, Limit!InBand, InBand
<1>6. \A q : Limit!Resting(q) = Resting(q)
  BY <1>3, <1>5 DEF Limit!Resting, Resting
<1>7. \A q, o, r : Limit!Ahead(q, o, r) = Ahead(q, o, r)
  BY <1>4 DEF Limit!Ahead, Ahead
<1>8. \A q, S, k : Limit!Rank(q, S, k) = Rank(q, S, k)
  BY <1>1, <1>7 DEF Limit!Rank, Rank
<1>9. \A q, S : Limit!Ranked(q, S) = Ranked(q, S)
  BY <1>1, <1>8 DEF Limit!Ranked, Ranked
<1>10. \A q, c : Limit!Facing(q, c) = Facing(q, c)
  BY <1>4, <1>5, <1>6 DEF Limit!Facing, Facing
<1>11. /\ \A a, b : Limit!Maximum(a, b) = Maximum(a, b)
       /\ \A a, b : Limit!Minimum(a, b) = Minimum(a, b)
  BY DEF Limit!Maximum, Limit!Minimum, Maximum, Minimum
<1>12. \A c, o : Limit!Offer(c, o) = Offer(c, o)
  BY DEF Limit!Offer, Offer
<1>13. \A c, S : Limit!Offered(c, S) = Offered(c, S)
  BY <1>2, <1>12 DEF Limit!Offered, Offered
<1>14. \A q, c, o : Limit!Wants(q, c, o) = Wants(q, c, o)
  BY <1>7, <1>10, <1>11, <1>13 DEF Limit!Wants, Wants
<1>15. \A q, c, o : Limit!Take(q, c, o) = Take(q, c, o)
  BY <1>11, <1>12, <1>14 DEF Limit!Take, Take
<1>16. \A q, c : Limit!Hit(q, c) = Hit(q, c) /\ Limit!Own(q, c) = Own(q, c)
  BY <1>10, <1>14, <1>15 DEF Limit!Hit, Hit, Limit!Own, Own
<1>17. \A q, c : Limit!Fills(q, c) = Fills(q, c) /\ Limit!SelfTrades(q, c) = SelfTrades(q, c)
  BY <1>9, <1>15, <1>16 DEF Limit!Fills, Fills, Limit!SelfTrades, SelfTrades
<1>18. \A q, c : Limit!Filled(q, c) = Filled(q, c)
  BY <1>2, <1>10, <1>15 DEF Limit!Filled, Filled
<1>19. \A q, c : Limit!Remainder(q, c) = Remainder(q, c)
  BY <1>18 DEF Limit!Remainder, Remainder
<1>20. \A q, c : Limit!Kept(q, c) = Kept(q, c)
  <2> TAKE q, c
  <2> DEFINE stay(s, p) == Ranked(q, ToSet(q[s][p]) \ Gone(q, c))
             gone == Limit!Own(q, c) \cup {o \in Limit!Hit(q, c) : Limit!Take(q, c, o) = o.remaining}
             kept(s, p) == Limit!Ranked(q, Limit!ToSet(q[s][p]) \ gone)
             served(s, p) ==
               [k \in DOMAIN kept(s, p) |->
                  IF kept(s, p)[k] \in Limit!Hit(q, c)
                  THEN [kept(s, p)[k] EXCEPT !.remaining = @ - Limit!Take(q, c, kept(s, p)[k])]
                  ELSE kept(s, p)[k]]
  <2>1. Limit!Kept(q, c) = [s \in Side |-> [p \in Prices |-> served(s, p)]]
    <3>1. Limit!Side = Side /\ Limit!Prices = Prices
      BY <1>5
    <3> QED BY <3>1 DEF Limit!Kept
  <2>2. gone = Gone(q, c)
    BY <1>15, <1>16 DEF Gone
  <2>3. \A s, p : kept(s, p) = stay(s, p)
    BY <1>3, <1>9, <2>2
  <2>4. \A o : Served(q, c, o) = IF o \in Limit!Hit(q, c)
                                 THEN [o EXCEPT !.remaining = @ - Limit!Take(q, c, o)] ELSE o
    BY <1>15, <1>16 DEF Served
  <2> HIDE DEF gone, stay, kept
  <2>5. \A s, p : served(s, p) = [k \in DOMAIN stay(s, p) |-> Served(q, c, stay(s, p)[k])]
    BY <2>3, <2>4
  <2>6. Kept(q, c) = [s \in Side |-> [p \in Prices |->
                        [k \in DOMAIN stay(s, p) |-> Served(q, c, stay(s, p)[k])]]]
    BY KeptLevels DEF stay
  <2> HIDE DEF served
  <2> QED BY <2>1, <2>5, <2>6
<1>21. \A q, c : Limit!Match(q, c) = Match(q, c)
  BY <1>17, <1>18, <1>19, <1>20 DEF Limit!Match, Match
<1>22. \A q : Limit!LiveIds(q) = LiveIds(q)
  BY <1>6 DEF Limit!LiveIds, LiveIds
<1>23. \A q, c : Limit!AddVerdict(q, c) = AddVerdict(q, c)
  BY <1>5, <1>22 DEF Limit!AddVerdict, AddVerdict
<1>24. \A q, id, agent : Limit!CancelVerdict(q, id, agent) = CancelVerdict(q, id, agent)
  BY <1>6, <1>22 DEF Limit!CancelVerdict, CancelVerdict
<1>25. \A q, id : Limit!Without(q, id) = Without(q, id)
  BY <1>3, <1>5, <1>9 DEF Limit!Without, Without
<1>26. Limit!EmptyQueues = EmptyQueues
  BY <1>5 DEF Limit!EmptyQueues, EmptyQueues
<1> QED BY <1>6, <1>21, <1>23, <1>24, <1>25, <1>26

----------------------------------------------------------------------------
(* AtBest is invariant.                                                    *)

LEMMA UnlinkBest ==
  ASSUME NEW b, Shape(b), NEW n \in Live(b), NEW u, u = Unlink(b, n),
         u.levels[b.pool[n].side][b.pool[n].px].count # 0
  PROVE  u.best = b.best
<1>1. Unlinked(b, n, u)
  BY UnlinkKeepsShape
<1>2. u.levels[b.pool[n].side][b.pool[n].px] = UnlinkLinks(b, n)
  BY <1>1, LiveNode DEF Unlinked, UnlinkedLevels, Shape
<1>3. u.best = IF UnlinkLinks(b, n).count = 0 /\ b.pool[n].px = b.best[b.pool[n].side]
               THEN [b.best EXCEPT ![b.pool[n].side] =
                       NextBest(u.levels, b.pool[n].side, b.pool[n].px)]
               ELSE b.best
  BY DEF Unlink
<1> QED BY <1>2, <1>3

\* one step of the walk: the node under the cursor is unlinked from b
LEMMA AtBestUnlink ==
  ASSUME BookInv, BookInv', AtBest, Walking, NEW b, Touched(b), b.best = book.best,
         book' = Unlink(b, call.cur), phase' = phase,
         call'.cmd = call.cmd, call'.px = call.px
  PROVE  AtBest'
<1> DEFINE n == call.cur
           s == Opposite(call.cmd.side)
           p == call.px
<1>1. /\ phase = "walk" /\ Reaches(call.cmd.side, call.cmd.px, p) /\ book.best[s] = p
  BY DEF Walking, AtBest
<1>2. /\ n \in Live(book) /\ book.pool[n].side = s /\ book.pool[n].px = p
      /\ s \in Side /\ p \in Prices
  BY WalkedNode
<1>3. /\ Shape(b) /\ n \in Live(b) /\ b.pool[n].side = s /\ b.pool[n].px = p
  BY <1>2 DEF Touched
<1> HIDE DEF n
<1>4. book' = Unlink(b, n)
  BY DEF n
<1>5. ASSUME call'.cur # NIL, call'.remaining > 0 PROVE book'.best[s] = p
  <2>1. call'.cur = book'.levels[s][p].head /\ Shape(book') /\ Positive(book')
    BY <1>1, <1>5 DEF BookInv, AtHead
  <2>2. book'.levels[s][p].count # 0
    BY <1>2, <1>5, <2>1, LevelFront
  <2>3. book'.best = b.best
    BY <1>3, <1>4, <2>2, UnlinkBest
  <2> QED BY <1>1, <2>3
<1> QED BY <1>1, <1>5 DEF AtBest

LEMMA CallRecord ==
  ASSUME BookInv, phase # "idle"
  PROVE  call = [cmd |-> call.cmd, remaining |-> call.remaining, px |-> call.px,
                 cur |-> call.cur, fills |-> call.fills, stp |-> call.stp]
  BY DEF BookInv, CallOK

\* what the two steps of the walk do
LEMMA CancelOwnIs ==
  ASSUME BookInv, CancelOwn
  PROVE  /\ Walking /\ phase' = phase /\ phase = "walk"
         /\ book.pool[call.cur].agent = call.cmd.agent
         /\ book' = Unlink(book, call.cur)
         /\ call'.cmd = call.cmd /\ call'.remaining = call.remaining /\ call'.px = call.px
         /\ call'.fills = call.fills
         /\ call'.stp = Append(call.stp, CancelOf(OrderAt(book, call.cur)))
<1>1. Walking /\ phase' = phase /\ phase = "walk"
  BY DEF CancelOwn, Walking
<1>2. call = [cmd |-> call.cmd, remaining |-> call.remaining, px |-> call.px,
              cur |-> call.cur, fills |-> call.fills, stp |-> call.stp]
  BY <1>1, CallRecord
<1> DEFINE node == book.pool[call.cur]
           y == [id |-> node.id, agent |-> node.agent, remaining |-> node.remaining]
<1>3. /\ node.agent = call.cmd.agent /\ book' = Unlink(book, call.cur)
      /\ call' = [call EXCEPT !.cur = node.next, !.stp = Append(call.stp, y)]
  BY DEF CancelOwn
<1>4. y = CancelOf(OrderAt(book, call.cur))
  BY DEF CancelOf, OrderAt
<1> HIDE DEF y
<1>5. call' = [cmd |-> call.cmd, remaining |-> call.remaining, px |-> call.px,
               cur |-> node.next, fills |-> call.fills, stp |-> Append(call.stp, y)]
  BY <1>2, <1>3
<1> QED BY <1>1, <1>3, <1>4, <1>5

LEMMA FillMakerIs ==
  ASSUME BookInv, FillMaker, NEW k, k = TradeQty(call.remaining, book.pool[call.cur].remaining)
  PROVE  /\ Walking /\ phase' = phase /\ phase = "walk"
         /\ book.pool[call.cur].agent # call.cmd.agent
         /\ book' = IF book.pool[call.cur].remaining = k
                    THEN Unlink(Reduce(book, call.cur, k), call.cur)
                    ELSE Reduce(book, call.cur, k)
         /\ call'.cmd = call.cmd /\ call'.remaining = call.remaining - k /\ call'.px = call.px
         /\ call'.fills = Append(call.fills, FillOf(OrderAt(book, call.cur), k))
         /\ call'.stp = call.stp
         /\ k \in Nat /\ k <= book.pool[call.cur].remaining /\ k <= call.remaining
         /\ book.pool[call.cur].remaining # k => k = call.remaining
<1>1. Walking /\ phase' = phase /\ phase = "walk"
  BY DEF FillMaker, Walking
<1>2. call = [cmd |-> call.cmd, remaining |-> call.remaining, px |-> call.px,
              cur |-> call.cur, fills |-> call.fills, stp |-> call.stp]
  BY <1>1, CallRecord
<1> DEFINE node == book.pool[call.cur]
           y == [maker_id |-> node.id, maker |-> node.agent, px |-> call.px, qty |-> k,
                 maker_remaining |-> node.remaining - k]
<1>3. /\ node.agent # call.cmd.agent
      /\ book' = IF node.remaining = k THEN Unlink(Reduce(book, call.cur, k), call.cur)
                 ELSE Reduce(book, call.cur, k)
      /\ call' = [call EXCEPT !.cur = node.next, !.remaining = call.remaining - k,
                              !.fills = Append(call.fills, y)]
  BY DEF FillMaker
<1>4. y = FillOf(OrderAt(book, call.cur), k)
  <2>1. node.px = call.px
    BY <1>1, WalkedNode
  <2> QED BY <2>1 DEF FillOf, OrderAt
<1> HIDE DEF y
<1>5. call' = [cmd |-> call.cmd, remaining |-> call.remaining - k, px |-> call.px,
               cur |-> node.next, fills |-> Append(call.fills, y), stp |-> call.stp]
  BY <1>2, <1>3
<1>6. node.remaining \in Nat /\ call.remaining \in Nat
  BY <1>1, WalkedNode DEF BookInv, CallOK
<1>7. /\ k \in Nat /\ k <= node.remaining /\ k <= call.remaining
      /\ node.remaining # k => k = call.remaining
  BY <1>6 DEF TradeQty, Minimum
<1> QED BY <1>1, <1>3, <1>4, <1>5, <1>7

\* what a fill leaves before the maker is unlinked
LEMMA FillTouches ==
  ASSUME BookInv, Walking, NEW k \in Nat, k <= book.pool[call.cur].remaining,
         NEW b, b = Reduce(book, call.cur, k)
  PROVE  /\ Touched(b) /\ Reduced(book, call.cur, b) /\ Live(b) = Live(book)
         /\ b.pool[call.cur].remaining = book.pool[call.cur].remaining - k
<1> DEFINE n == call.cur
<1>1. n \in Live(book) /\ book.pool[n].prev = NIL
  BY WalkedNode
<1> HIDE DEF n
<1>2. b = Reduce(book, n, k) /\ k <= book.pool[n].remaining
  BY DEF n
<1>3. BookType(b) /\ Reduced(book, n, b) /\ b.pool[n].remaining = book.pool[n].remaining - k
  BY <1>1, <1>2, ReduceIsReduced DEF BookInv, Shape
<1>4. Shape(b) /\ Live(b) = Live(book) /\ Nodes(b) = Nodes(book)
  BY <1>1, <1>3, ReduceKeepsShape DEF BookInv
<1>5. \A m \in Live(book) : m \in Nodes(book)
  BY LiveNode DEF BookInv, Shape
<1>6. /\ b.index = book.index
      /\ \A m \in Live(book) \ {n} : b.pool[m].remaining = book.pool[m].remaining
      /\ b.pool[n].prev = NIL /\ b.pool[n].next = book.pool[n].next
      /\ b.pool[n].side = book.pool[n].side /\ b.pool[n].px = book.pool[n].px
      /\ \A s \in Side, p \in Prices : b.levels[s][p].count = book.levels[s][p].count
  BY <1>1, <1>3, <1>5 DEF Reduced
<1>7. Touched(b)
  BY <1>4, <1>6 DEF Touched, n
<1> QED BY <1>3, <1>4, <1>7 DEF n

LEMMA AtBestCancelOwn ==
  ASSUME BookInv, BookInv', AtBest, CancelOwn
  PROVE  AtBest'
<1>1. /\ Walking /\ phase' = phase /\ book' = Unlink(book, call.cur)
      /\ call'.cmd = call.cmd /\ call'.px = call.px
  BY CancelOwnIs
<1>2. book.pool[call.cur].prev = NIL
  BY <1>1, WalkedNode
<1>3. Touched(book)
  BY <1>2 DEF BookInv, Touched
<1> QED BY <1>1, <1>3, AtBestUnlink

LEMMA AtBestFillMaker ==
  ASSUME BookInv, BookInv', AtBest, FillMaker
  PROVE  AtBest'
<1> DEFINE k == TradeQty(call.remaining, book.pool[call.cur].remaining)
           b == Reduce(book, call.cur, k)
<1>1. /\ Walking /\ phase' = phase /\ phase = "walk"
      /\ book' = IF book.pool[call.cur].remaining = k THEN Unlink(b, call.cur) ELSE b
      /\ call'.cmd = call.cmd /\ call'.px = call.px /\ call'.remaining = call.remaining - k
      /\ k \in Nat /\ k <= book.pool[call.cur].remaining
      /\ book.pool[call.cur].remaining # k => k = call.remaining
  BY FillMakerIs
<1> HIDE DEF k
<1>2. Touched(b) /\ b.best = book.best
  BY <1>1, FillTouches DEF Reduced
<1> HIDE DEF b
<1>3. CASE book.pool[call.cur].remaining = k
  BY <1>1, <1>2, <1>3, AtBestUnlink
<1>4. CASE book.pool[call.cur].remaining # k
  <2>1. call.remaining \in Nat
    BY DEF BookInv, CallOK, FillMaker, Walking
  <2>2. call'.remaining = 0
    BY <1>1, <1>4, <2>1
  <2> QED BY <1>1, <2>2 DEF AtBest
<1> QED BY <1>3, <1>4

LEMMA AtBestNext == BookInv /\ BookInv' /\ AtBest /\ [Next]_vars => AtBest'
<1> SUFFICES ASSUME BookInv, BookInv', AtBest, [Next]_vars PROVE AtBest'
  OBVIOUS
<1>1. ASSUME NEW c \in NewOrders, RejectAdd(c) \/ StartAdd(c) PROVE AtBest'
  BY <1>1 DEF RejectAdd, StartAdd, Ready, AtBest
<1>2. CASE EnterLevel
  <2>1. /\ Crosses(book, call.cmd) /\ book' = book /\ phase = "match"
        /\ call' = [call EXCEPT
             !.px = book.best[Opposite(call.cmd.side)],
             !.cur = book.levels[Opposite(call.cmd.side)][book.best[Opposite(call.cmd.side)]].head]
    BY <1>2 DEF EnterLevel
  <2>2. call = [cmd |-> call.cmd, remaining |-> call.remaining, px |-> call.px,
                cur |-> call.cur, fills |-> call.fills, stp |-> call.stp]
    BY <2>1, CallRecord
  <2>3. call'.cmd = call.cmd /\ call'.px = book.best[Opposite(call.cmd.side)]
    BY <2>1, <2>2
  <2> QED BY <2>1, <2>3 DEF Crosses, AtBest
<1>3. CASE CancelOwn
  BY <1>3, AtBestCancelOwn
<1>4. CASE FillMaker
  BY <1>4, AtBestFillMaker
<1>5. CASE LeaveLevel
  BY <1>5 DEF LeaveLevel, AtBest
<1>6. CASE RestRemainder \/ Finish
  BY <1>6 DEF RestRemainder, Finish, Return, AtBest
<1>7. ASSUME NEW id \in Ids, NEW agent \in Agents, Cancel(id, agent) PROVE AtBest'
  BY <1>7 DEF Cancel, Ready, AtBest
<1>8. CASE Collect \/ UNCHANGED vars
  BY <1>8 DEF Collect, vars, AtBest
<1> QED BY <1>1, <1>2, <1>3, <1>4, <1>5, <1>6, <1>7, <1>8 DEF Next

----------------------------------------------------------------------------
(* The call in progress and the queues it started from.                    *)

\* what is reported and gone so far, with a match of what is still wanted, is
\* the match of the whole order with the queues the call started from
InProgress ==
  phase # "idle" =>
    /\ Completes(entry, call.cmd, call.fills, call.stp, call.cmd.qty - call.remaining,
                 Queues(book), Wanting(call.cmd, call.remaining))
    /\ AddVerdict(entry, call.cmd) = "None"

LEMMA WantingAgain ==
  ASSUME NEW c \in OrderFields, NEW k, NEW m
  PROVE  Wanting(Wanting(c, k), m) = Wanting(c, m) /\ Wanting(c, c.qty) = c
  BY DEF Wanting, OrderFields

\* the order under the cursor is the first that the call faces; without it ...
LEMMA DropPeels ==
  ASSUME BookInv, AtBest, Walking, NEW u, Drops(book, u, call.cur), NEW d,
         d = Wanting(call.cmd, call.remaining), NEW x, x = OrderAt(book, call.cur),
         NEW k, k = Offer(d, x), k <= call.remaining
  PROVE  Peels(Queues(book), d, x, Queues(u), Wanting(call.cmd, call.remaining - k))
<1>1. phase # "idle" /\ call.remaining > 0
  BY DEF Walking
<1>2. /\ call.cmd \in OrderFields /\ d \in OrderFields /\ d.qty = call.remaining
      /\ call.remaining \in Nat
  BY <1>1, CallFields
<1>3. First(Queues(book), d, x)
  BY WalkFirst
<1>4. Lacks(Queues(book), Queues(u), x)
  BY DropQueues
<1>5. WellFormed(Queues(book)) /\ WellFormed(Queues(u))
  BY QueuesWellFormed DEF Drops
<1>6. Wanting(call.cmd, call.remaining - k) = Wanting(d, d.qty - k)
  BY <1>2, WantingAgain
<1> QED BY <1>1, <1>2, <1>3, <1>4, <1>5, <1>6 DEF Peels

(* The cancel of an own order keeps InProgress. *)
LEMMA ProgressCancelOwn ==
  ASSUME BookInv, AtBest, InProgress, CancelOwn, entry' = entry
  PROVE  InProgress'
<1> DEFINE d == Wanting(call.cmd, call.remaining)
           x == OrderAt(book, call.cur)
<1>1. /\ Walking /\ phase' = phase /\ phase # "idle"
      /\ book.pool[call.cur].agent = call.cmd.agent
      /\ book' = Unlink(book, call.cur)
      /\ call'.cmd = call.cmd /\ call'.remaining = call.remaining
      /\ call'.fills = call.fills /\ call'.stp = Append(call.stp, CancelOf(x))
  BY CancelOwnIs
<1>2. call.cur \in Live(book)
  BY <1>1, WalkedNode
<1>3. Drops(book, book', call.cur)
  BY <1>1, <1>2, UnlinkDrops DEF BookInv
<1>4. x.agent = d.agent /\ call.remaining \in Nat
  BY <1>1, CallFields, OrderAtFields
<1> HIDE DEF d, x
<1>5. Offer(d, x) = 0 /\ 0 <= call.remaining /\ call.remaining - 0 = call.remaining
  BY <1>4 DEF Offer
<1>6. Peels(Queues(book), d, x, Queues(book'), Wanting(call.cmd, call.remaining - 0))
  BY <1>1, <1>3, <1>5, DropPeels DEF d, x
<1>7. Peels(Queues(book), d, x, Queues(book'), d)
  BY <1>5, <1>6 DEF d
<1>8. /\ Completes(entry, call.cmd, call.fills, call.stp, call.cmd.qty - call.remaining,
                   Queues(book), d)
      /\ AddVerdict(entry, call.cmd) = "None"
  BY <1>1 DEF InProgress, d
<1>9. Completes(entry, call.cmd, call.fills, Append(call.stp, CancelOf(x)),
                call.cmd.qty - call.remaining, Queues(book'), d)
  BY <1>4, <1>7, <1>8, CompletesCancel
<1> QED BY <1>1, <1>8, <1>9 DEF InProgress, d

(* A fill keeps InProgress. *)
LEMMA ProgressFillMaker ==
  ASSUME BookInv, BookInv', AtBest, InProgress, FillMaker, entry' = entry
  PROVE  InProgress'
<1> DEFINE d == Wanting(call.cmd, call.remaining)
           w == Wanting(call.cmd, call'.remaining)
           x == OrderAt(book, call.cur)
           k == TradeQty(call.remaining, book.pool[call.cur].remaining)
           b == Reduce(book, call.cur, k)
           filled == call.cmd.qty - call.remaining
<1>1. /\ Walking /\ phase' = phase /\ phase # "idle" /\ call.remaining > 0
      /\ book.pool[call.cur].agent # call.cmd.agent
      /\ book' = IF book.pool[call.cur].remaining = k THEN Unlink(b, call.cur) ELSE b
      /\ call'.cmd = call.cmd /\ call'.remaining = call.remaining - k
      /\ call'.fills = Append(call.fills, FillOf(x, k)) /\ call'.stp = call.stp
      /\ k \in Nat /\ k <= book.pool[call.cur].remaining /\ k <= call.remaining
      /\ book.pool[call.cur].remaining # k => k = call.remaining
  <2>1. Walking => phase # "idle" /\ call.remaining > 0
    BY DEF Walking
  <2> QED BY <2>1, FillMakerIs
<1>2. /\ call.cur \in Live(book) /\ book.pool[call.cur].remaining \in Nat
  BY <1>1, WalkedNode
<1>3. /\ x.agent = book.pool[call.cur].agent /\ x.remaining = book.pool[call.cur].remaining
      /\ d.agent = call.cmd.agent /\ d.qty = call.remaining /\ call.remaining \in Nat
      /\ call.cmd \in OrderFields /\ call.cmd.qty \in Int /\ d \in OrderFields
  <2>1. /\ d.agent = call.cmd.agent /\ d.qty = call.remaining /\ call.remaining \in Nat
        /\ call.cmd \in OrderFields /\ d \in OrderFields
    BY <1>1, CallFields
  <2>2. call.cmd.qty \in Int
    BY <2>1 DEF OrderFields
  <2> QED BY <2>1, <2>2, OrderAtFields
<1>4. /\ Completes(entry, call.cmd, call.fills, call.stp, filled, Queues(book), d)
      /\ AddVerdict(entry, call.cmd) = "None"
  BY <1>1 DEF InProgress
<1>5. call.cmd.qty - call'.remaining = filled + k
  BY <1>1, <1>3
<1> HIDE DEF d, x, k, filled
<1>6. x.agent # d.agent /\ Offer(d, x) = x.remaining
  BY <1>1, <1>3 DEF Offer
<1>7. CASE x.remaining = k
  <2>1. b = Reduce(book, call.cur, book.pool[call.cur].remaining) /\ book' = Unlink(b, call.cur)
    BY <1>1, <1>3, <1>7
  <2> HIDE DEF b
  <2>2. Drops(book, book', call.cur)
    BY <1>2, <2>1, FilledDrops DEF BookInv
  <2>3. Peels(Queues(book), d, x, Queues(book'), Wanting(call.cmd, call.remaining - k))
    BY <1>1, <1>6, <1>7, <2>2, DropPeels DEF d, x
  <2>4. Peels(Queues(book), d, x, Queues(book'), w)
    BY <1>1, <2>3
  <2> HIDE DEF w
  <2>5. Completes(entry, call.cmd, Append(call.fills, FullFill(x)), call.stp,
                  filled + x.remaining, Queues(book'), w)
    BY <1>4, <1>6, <2>4, CompletesFill
  <2>6. Completes(entry, call.cmd, Append(call.fills, FillOf(x, k)), call.stp,
                  filled + k, Queues(book'), w)
    BY <1>7, <2>5 DEF FullFill
  <2> QED BY <1>1, <1>4, <1>5, <2>6 DEF InProgress, w
<1>8. CASE x.remaining # k
  <2>1. /\ k = call.remaining /\ book' = b /\ k < x.remaining
        /\ call'.remaining = 0
    BY <1>1, <1>2, <1>3, <1>8
  <2>2. /\ Reduced(book, call.cur, b) /\ Live(b) = Live(book)
        /\ b.pool[call.cur].remaining = book.pool[call.cur].remaining - k
    BY <1>1, FillTouches
  <2> HIDE DEF b
  <2>3. Shape(book) /\ Positive(book) /\ Shape(b) /\ Positive(b)
    BY <2>1 DEF BookInv
  <2>4. Queues(b) = Trimmed(Queues(book), x, k)
    BY <1>2, <2>2, <2>3, TrimQueues DEF x
  <2>5. WellFormed(Queues(book)) /\ WellFormed(Queues(b))
    BY <2>3, QueuesWellFormed
  <2>6. First(Queues(book), d, x)
    BY <1>1, WalkFirst DEF d, x
  <2>7. Exhausts(Queues(book), d, x)
    BY <1>1, <1>3, <1>6, <2>1, <2>5, <2>6 DEF Exhausts
  <2>8. w \in OrderFields /\ w.qty = 0
    <3>1. w = Wanting(call.cmd, 0)
      BY <2>1
    <3> QED BY <1>3, <3>1 DEF Wanting, OrderFields
  <2> HIDE DEF w
  <2>9. Completes(entry, call.cmd, Append(call.fills, FillOf(x, d.qty)), call.stp,
                  filled + d.qty, Queues(b), w)
    <3>1. Queues(b) = Trimmed(Queues(book), x, d.qty)
      BY <1>3, <2>1, <2>4
    <3> QED BY <1>4, <2>5, <2>7, <2>8, <3>1, CompletesLast
  <2>10. Completes(entry, call.cmd, Append(call.fills, FillOf(x, k)), call.stp,
                   filled + k, Queues(book'), w)
    BY <1>3, <2>1, <2>9
  <2> QED BY <1>1, <1>4, <1>5, <2>10 DEF InProgress, w
<1> QED BY <1>7, <1>8

LEMMA ProgressStartAdd ==
  ASSUME BookInv, NEW c \in NewOrders, StartAdd(c), entry' = Queues(book)
  PROVE  InProgress'
<1>1. /\ AddReason(book, c) = "None" /\ book' = book
      /\ call'.cmd = c /\ call'.remaining = c.qty /\ call'.fills = <<>> /\ call'.stp = <<>>
  BY DEF StartAdd
<1>2. c \in OrderFields /\ c.qty \in Int
  BY NewOrdersAssumption DEF OrderFields
<1>3. c.qty \in Nat
  BY <1>1, <1>2 DEF AddReason
<1>4. WellFormed(Queues(book))
  BY QueuesWellFormed DEF BookInv
<1>5. Completes(Queues(book), c, <<>>, <<>>, 0, Queues(book), c)
  BY <1>2, <1>3, <1>4, CompletesStart
<1>6. Wanting(c, c.qty) = c /\ c.qty - c.qty = 0
  BY <1>2, WantingAgain
<1>7. AddVerdict(Queues(book), c) = "None"
  BY <1>1, <1>2, AddVerdictIs DEF BookInv
<1> QED BY <1>1, <1>5, <1>6, <1>7 DEF InProgress

LEMMA ProgressSame ==
  ASSUME InProgress, phase # "idle", entry' = entry, book' = book, call'.cmd = call.cmd,
         call'.remaining = call.remaining, call'.fills = call.fills, call'.stp = call.stp
  PROVE  InProgress'
  BY DEF InProgress

LEMMA ProgressNext ==
  BookInv /\ BookInv' /\ AtBest /\ InProgress /\ [HNext]_<<vars, entry>> => InProgress'
<1> SUFFICES ASSUME BookInv, BookInv', AtBest, InProgress, [HNext]_<<vars, entry>>
             PROVE  InProgress'
  OBVIOUS
<1>1. CASE UNCHANGED <<vars, entry>>
  BY <1>1 DEF vars, InProgress
<1>2. CASE HNext
  <2>1. /\ phase' # "idle" /\ phase = "idle" => entry' = Queues(book)
        /\ phase' # "idle" /\ phase # "idle" => entry' = entry
    BY <1>2 DEF HNext
  <2>2. ASSUME NEW c \in NewOrders, RejectAdd(c) PROVE InProgress'
    BY <2>2 DEF RejectAdd, Ready, InProgress
  <2>3. ASSUME NEW c \in NewOrders, StartAdd(c) PROVE InProgress'
    <3>1. phase = "idle" /\ phase' # "idle"
      BY <2>3 DEF StartAdd, Ready
    <3> QED BY <2>1, <2>3, <3>1, ProgressStartAdd
  <2>4. CASE EnterLevel \/ LeaveLevel
    <3>1. phase # "idle" /\ phase' # "idle" /\ book' = book
      BY <2>4 DEF EnterLevel, LeaveLevel
    <3>2. \E px, cur : call' = [call EXCEPT !.px = px, !.cur = cur]
      BY <2>4 DEF EnterLevel, LeaveLevel
    <3>3. call = [cmd |-> call.cmd, remaining |-> call.remaining, px |-> call.px,
                  cur |-> call.cur, fills |-> call.fills, stp |-> call.stp]
      BY <3>1, CallRecord
    <3>4. /\ call'.cmd = call.cmd /\ call'.remaining = call.remaining
          /\ call'.fills = call.fills /\ call'.stp = call.stp
      BY <3>2, <3>3
    <3> QED BY <2>1, <3>1, <3>4, ProgressSame
  <2>5. CASE CancelOwn
    <3>1. phase # "idle" /\ phase' # "idle"
      BY <2>5 DEF CancelOwn, Walking
    <3> QED BY <2>1, <2>5, <3>1, ProgressCancelOwn
  <2>6. CASE FillMaker
    <3>1. phase # "idle" /\ phase' # "idle"
      BY <2>6 DEF FillMaker, Walking
    <3> QED BY <2>1, <2>6, <3>1, ProgressFillMaker
  <2>7. CASE RestRemainder \/ Finish
    BY <2>7 DEF RestRemainder, Finish, Return, InProgress
  <2>8. CASE Collect
    <3>1. CASE phase = "idle"
      BY <2>8, <3>1 DEF Collect, InProgress
    <3>2. CASE phase # "idle"
      BY <2>1, <2>8, <3>2, ProgressSame DEF Collect
    <3> QED BY <3>1, <3>2
  <2>9. ASSUME NEW id \in Ids, NEW agent \in Agents, Cancel(id, agent) PROVE InProgress'
    BY <2>9 DEF Cancel, Ready, InProgress
  <2> QED BY <1>2, <2>2, <2>3, <2>4, <2>5, <2>6, <2>7, <2>8, <2>9 DEF HNext, Next
<1> QED BY <1>1, <1>2

----------------------------------------------------------------------------
(* Every step of the book is a step of the abstract book, or no step of it. *)

LEMMA LimitRejectAdd ==
  ASSUME BookInv, NEW c \in NewOrders, RejectAdd(c)
  PROVE  Limit!Add(c)
<1>1. /\ phase = "idle" /\ phase' = "idle" /\ book' = book
      /\ AddReason(book, c) # "None"
      /\ request' = [kind |-> "add", cmd |-> c]
      /\ reply' = AddReply(AddReason(book, c), <<>>, <<>>, 0, 0)
  BY DEF RejectAdd, Ready
<1>2. c.qty \in Int
  BY NewOrdersAssumption DEF OrderFields
<1>3. AddVerdict(Queues(book), c) = AddReason(book, c)
  BY <1>2, AddVerdictIs DEF BookInv
<1>4. Limit!AddVerdict(Queues(book), c) = AddReason(book, c)
  BY <1>3, LimitIs
<1> QED BY <1>1, <1>4 DEF Limit!Add, Limit!AddReply, AddReply

(* The return of add is the abstract call. *)
LEMMA LimitReturn ==
  ASSUME BookInv, InProgress, Matched, NEW resting, Return(resting),
         resting = IF Rests THEN call.remaining ELSE 0,
         book' = IF Rests THEN Rest(book, call.cmd, call.remaining) ELSE book
  PROVE  Limit!Add(call.cmd) /\ call.cmd \in NewOrders
<1> DEFINE c == call.cmd
           d == Wanting(call.cmd, call.remaining)
           m == Match(entry, call.cmd)
           q == Queues(book)
<1>1. /\ phase # "idle" /\ phase' = "idle"
      /\ request' = [kind |-> "add", cmd |-> c]
      /\ reply' = AddReply("None", call.fills, call.stp, c.qty - call.remaining, resting)
  BY DEF Matched, Return
<1>2. /\ c \in NewOrders /\ c \in OrderFields /\ c.side \in Side /\ c.px \in Prices
      /\ call.remaining \in Nat /\ d.qty = call.remaining /\ d.side = c.side /\ d.px = c.px
      /\ d.tif = c.tif /\ d.agent = c.agent /\ d.id = c.id
  BY <1>1, CallFields
<1>3. /\ Completes(entry, c, call.fills, call.stp, c.qty - call.remaining, q, d)
      /\ AddVerdict(entry, c) = "None"
  BY <1>1 DEF InProgress
<1>4. d.qty = 0 \/ Facing(q, d) = {}
  BY MatchedFacesNone
<1>5. Rests <=> d.tif = "GTC" /\ d.qty > 0
  BY <1>2 DEF Rests
<1> HIDE DEF d, q
<1>6. /\ m.fills = call.fills /\ m.stp = call.stp /\ m.filled = c.qty - call.remaining
      /\ m.resting = IF d.tif = "GTC" THEN d.qty ELSE 0
      /\ m.queue = IF d.tif = "GTC" /\ d.qty > 0 THEN Joined(q, d, d.qty) ELSE q
  <2>1. Ends(m, call.fills, call.stp, c.qty - call.remaining, q, d)
    BY <1>3, <1>4, CompletesEnd, Zenon
  <2> HIDE DEF m
  <2> QED BY <2>1 DEF Ends
<1> HIDE DEF m
<1>7. m.resting = resting
  BY <1>2, <1>5, <1>6
<1>8. m.queue = Queues(book')
  <2>1. CASE Rests
    <3>1. Restable(book, c, call.remaining)
      <4>1. c.id \notin DOMAIN book.index /\ call.remaining > 0
        BY <1>1, <2>1 DEF BookInv, CallOK, Rests
      <4> QED BY <1>2, <4>1 DEF Restable
    <3>2. book' = Rest(book, c, call.remaining)
      BY <2>1
    <3> HIDE DEF c
    <3>3. Queues(book') = Joined(Queues(book), c, call.remaining)
      <4>1. Shape(book) /\ Positive(book)
        BY DEF BookInv
      <4> QED BY <3>1, <3>2, <4>1, RestQueues
    <3>4. Joining(d, d.qty) = Joining(c, call.remaining)
      BY <1>2 DEF Joining
    <3>5. Joined(q, d, d.qty) = Joined(q, c, call.remaining)
      BY <1>2, <3>4 DEF Joined
    <3>6. m.queue = Joined(q, d, d.qty)
      BY <1>5, <1>6, <2>1
    <3> QED BY <3>3, <3>5, <3>6 DEF q
  <2>2. CASE ~Rests
    BY <1>5, <1>6, <2>2 DEF q
  <2> QED BY <2>1, <2>2
<1>9. Limit!Match(entry, c) = m /\ Limit!AddVerdict(entry, c) = "None"
  BY <1>3, LimitIs DEF m
<1>10. Limit!Add(c)
  BY <1>1, <1>6, <1>7, <1>8, <1>9 DEF Limit!Add, Limit!AddReply, AddReply
<1> QED BY <1>2, <1>10

(* A cancel is the abstract cancel. *)
LEMMA LimitCancel ==
  ASSUME BookInv, NEW id \in Ids, NEW agent \in Agents, Cancel(id, agent)
  PROVE  Limit!Cancel(id, agent)
<1> DEFINE q == Queues(book)
           n == book.index[id]
<1>1. /\ phase = "idle" /\ phase' = "idle"
      /\ request' = [kind |-> "cancel", id |-> id, agent |-> agent]
  BY DEF Cancel, Ready
<1>2. CancelVerdict(q, id, agent) = CancelReason(book, id, agent)
  BY CancelVerdictIs DEF BookInv
<1>3. Limit!CancelVerdict(q, id, agent) = CancelReason(book, id, agent)
  BY <1>2, LimitIs
<1>4. CASE CancelReason(book, id, agent) # "None"
  <2>1. /\ book' = book
        /\ reply' = [kind |-> "cancel", reason |-> CancelReason(book, id, agent), removed |-> 0]
    BY <1>4 DEF Cancel
  <2> QED BY <1>1, <1>3, <1>4, <2>1 DEF Limit!Cancel
<1>5. CASE CancelReason(book, id, agent) = "None"
  <2>1. /\ book' = Unlink(book, n)
        /\ reply' = [kind |-> "cancel", reason |-> "None", removed |-> book.pool[n].remaining]
    BY <1>5 DEF Cancel
  <2>2. id \in DOMAIN book.index
    BY <1>5 DEF CancelReason
  <2> DEFINE x == OrderAt(book, n)
  <2>3. /\ n \in Live(book) /\ x \in Resting(q)
        /\ \A o \in Resting(q) : o.id = id <=> o = x
    BY <2>2, OrderOfId DEF BookInv
  <2>4. x.remaining = book.pool[n].remaining
    BY OrderAtFields
  <2> HIDE DEF n, x
  <2>5. Drops(book, book', n)
    BY <2>1, <2>3, UnlinkDrops DEF BookInv
  <2>6. WellFormed(q) /\ WellFormed(Queues(book')) /\ Lacks(q, Queues(book'), x)
    BY <2>5, QueuesWellFormed, DropQueues DEF Drops, x
  <2> HIDE DEF q
  <2>7. Without(q, id) = Queues(book')
    BY <2>3, <2>6, WithoutIs
  <2>8. (CHOOSE o \in Resting(q) : o.id = id) = x
    BY <2>3
  <2>9. /\ Limit!Without(q, id) = Queues(book')
        /\ Limit!Resting(q) = Resting(q)
    BY <2>7, LimitIs
  <2>10. (CHOOSE o \in Limit!Resting(q) : o.id = id).remaining = book.pool[n].remaining
    BY <2>4, <2>8, <2>9
  <2> QED BY <1>1, <1>3, <1>5, <2>1, <2>9, <2>10 DEF Limit!Cancel, q
<1> QED BY <1>4, <1>5

LEMMA LimitInit == HInit => Limit!Init
<1> SUFFICES ASSUME HInit PROVE Limit!Init
  OBVIOUS
<1>1. /\ Init /\ phase = "idle" /\ request = Idle /\ reply = Idle /\ book = EmptyBook
  BY DEF HInit, Init
<1>2. Shape(book)
  BY <1>1, InvInit DEF BookInv
<1>3. Live(book) = {}
  BY <1>1 DEF EmptyBook, Live
<1>4. Queues(book) = Limit!EmptyQueues
  BY <1>2, <1>3, EmptyBookQueues, LimitIs
<1> QED BY <1>1, <1>4 DEF Limit!Init, Limit!Idle, Idle

(* Every step of the book maps to a step of the abstract book or to none. *)
LEMMA LimitNext ==
  BookInv /\ InProgress /\ [HNext]_<<vars, entry>> => [Limit!Next]_Limit!bookVars
<1> SUFFICES ASSUME BookInv, InProgress, [HNext]_<<vars, entry>>
             PROVE  [Limit!Next]_Limit!bookVars
  OBVIOUS
<1>1. CASE UNCHANGED <<vars, entry>>
  BY <1>1 DEF vars, Limit!bookVars
<1>2. CASE HNext
  <2>1. /\ phase' # "idle" /\ phase = "idle" => entry' = Queues(book)
        /\ phase' # "idle" /\ phase # "idle" => entry' = entry
    BY <1>2 DEF HNext
  <2>2. ASSUME NEW c \in NewOrders, RejectAdd(c) PROVE Limit!Next
    BY <2>2, LimitRejectAdd DEF Limit!Next
  <2>3. ASSUME NEW c \in NewOrders, StartAdd(c) PROVE UNCHANGED Limit!bookVars
    BY <2>1, <2>3 DEF StartAdd, Ready, Limit!bookVars
  <2>4. CASE EnterLevel \/ LeaveLevel \/ CancelOwn \/ FillMaker
    <3>1. /\ phase # "idle" /\ phase' # "idle" /\ request' = request /\ reply' = reply
      BY <2>4 DEF EnterLevel, LeaveLevel, CancelOwn, FillMaker, Walking
    <3> QED BY <2>1, <3>1 DEF Limit!bookVars
  <2>5. CASE RestRemainder
    <3>1. /\ Matched /\ Rests /\ Return(call.remaining)
          /\ book' = Rest(book, call.cmd, call.remaining)
      BY <2>5 DEF RestRemainder
    <3> QED BY <3>1, LimitReturn DEF Limit!Next
  <2>6. CASE Finish
    <3>1. Matched /\ ~Rests /\ Return(0) /\ book' = book
      BY <2>6 DEF Finish
    <3> QED BY <3>1, LimitReturn DEF Limit!Next
  <2>7. CASE Collect
    <3>1. /\ request' = Idle /\ reply' = Idle /\ book' = book /\ phase' = phase
      BY <2>7 DEF Collect
    <3>2. Limit!Collect
      BY <2>1, <3>1 DEF Limit!Collect, Limit!Idle, Idle
    <3> QED BY <3>2 DEF Limit!Next
  <2>8. ASSUME NEW id \in Ids, NEW agent \in Agents, Cancel(id, agent) PROVE Limit!Next
    BY <2>8, LimitCancel DEF Limit!Next
  <2> QED BY <1>2, <2>2, <2>3, <2>4, <2>5, <2>6, <2>7, <2>8 DEF HNext, Next
<1> QED BY <1>1, <1>2

(* Every call of add and cancel does to the book, and reports, exactly     *)
(* what price-time priority with cancel-resting self-trade prevention      *)
(* prescribes (order_book.cpp: add, cancel): module OrderBook, for every   *)
(* band, set of ids, agents and orders, implements module LimitBook.       *)
THEOREM MatchesByPriority == HSpec => ImplementsLimitBook
<1>1. HInit => BookInv /\ AtBest /\ InProgress
  BY InvInit DEF HInit, Init, AtBest, InProgress
<1>2. [HNext]_<<vars, entry>> => [Next]_vars
  BY DEF HNext, vars
<1>3. BookInv /\ AtBest /\ InProgress /\ [HNext]_<<vars, entry>>
        => BookInv' /\ AtBest' /\ InProgress'
  BY <1>2, InvNext, AtBestNext, ProgressNext
<1>4. HSpec => [](BookInv /\ AtBest /\ InProgress)
  BY <1>1, <1>3, PTL DEF HSpec
<1> QED BY <1>4, LimitInit, LimitNext, PTL DEF HSpec, ImplementsLimitBook, Limit!Spec
=============================================================================
