-------------------------- MODULE Matching_proofs --------------------------
(***************************************************************************)
(* Facts about queues of orders and what Matching does to them, for the    *)
(* proofs of the modules that use it: the order book implements it, and    *)
(* the exchange reports what it did.                                       *)
(*                                                                         *)
(* The first lemmas say how a sum over a finite set changes.  A set of     *)
(* orders has one order in every rank, so Ranked lists it, and the order   *)
(* that leads it comes first (RankedFirst).  Matching an order c is then a *)
(* recursion that Matching does not write down: if c takes or cancels all  *)
(* of the first order it faces, what is left is a smaller match of the     *)
(* rest of c with the rest of the queues (Peels), and it ends where the    *)
(* first order is more than c wants (Exhausts) or nothing is wanted or     *)
(* faced (NothingToDo).                                                    *)
(***************************************************************************)
EXTENDS Matching, SequenceTheorems, FiniteSetTheorems, WellFoundedInduction, TLAPS

----------------------------------------------------------------------------
(* Least members.                                                          *)

\* Nat is well-founded, in the form its theorem can be cited without an operator
LEMMA LessWellFounded == IsWellFoundedOn({p \in Nat \X Nat : p[1] < p[2]}, Nat)
  BY NatLessThanWellFounded DEF OpToRel

(* A set of numbers has a least member. *)
LEMMA Least ==
  ASSUME NEW T \in SUBSET Nat, T # {}
  PROVE  \E x \in T : \A y \in T : x <= y
<1> DEFINE R == {p \in Nat \X Nat : p[1] < p[2]}
<1>1. IsWellFoundedOn(R, Nat)
  BY LessWellFounded
<1>2. \A x, y \in Nat : x < y => <<x, y>> \in R
  OBVIOUS
<1> HIDE DEF R
<1>3. PICK x \in T : \A y \in T : ~(<<y, x>> \in R)
  BY <1>1, WFMin
<1>4. \A y \in T : x <= y
  <2> SUFFICES ASSUME NEW y \in T PROVE x <= y
    OBVIOUS
  <2>1. x \in Nat /\ y \in Nat
    OBVIOUS
  <2>2. ~(y < x)
    BY <1>2, <1>3, <2>1
  <2> QED BY <2>1, <2>2
<1> QED BY <1>4

(* Among finite sets there is one that has no other of them inside. *)
LEMMA Smallest ==
  ASSUME NEW B, B # {}, \A s \in B : IsFiniteSet(s)
  PROVE  \E s \in B : \A t \in B : t \subseteq s => t = s
<1> DEFINE T == {Cardinality(s) : s \in B}
<1>1. T \in SUBSET Nat /\ T # {}
  BY FS_CardinalityType
<1>2. PICK k \in T : \A j \in T : k <= j
  BY <1>1, Least
<1>3. PICK s \in B : Cardinality(s) = k
  OBVIOUS
<1>4. ASSUME NEW t \in B, t \subseteq s, t # s PROVE FALSE
  <2>1. Cardinality(t) < Cardinality(s) /\ Cardinality(t) \in Nat /\ Cardinality(s) \in Nat
    BY <1>4, FS_Subset, FS_CardinalityType
  <2>2. Cardinality(t) \in T
    OBVIOUS
  <2> HIDE DEF T
  <2> QED BY <1>2, <1>3, <2>1, <2>2
<1> QED BY <1>4

(* Induction over a finite set, as a least counterexample: among the sets  *)
(* that fail there is one that does not once a member is taken away.       *)
LEMMA OneLess ==
  ASSUME NEW B, B # {}, \A s \in B : IsFiniteSet(s)
  PROVE  \E s \in B : \A x \in s : s \ {x} \notin B
<1>1. PICK s \in B : \A t \in B : t \subseteq s => t = s
  BY Smallest
<1>2. ASSUME NEW x \in s PROVE s \ {x} \notin B
  <2>1. s \ {x} \subseteq s /\ s \ {x} # s
    OBVIOUS
  <2> QED BY <1>1, <2>1
<1> QED BY <1>2

----------------------------------------------------------------------------
(* Sums over a finite set.                                                 *)

Pick(s) == CHOOSE x \in s : TRUE

\* g sums f over every subset of S, in the order in which members are picked
IsSum(f, S, g) ==
  g = [s \in SUBSET S |-> IF s = {} THEN 0 ELSE f[Pick(s)] + g[s \ {Pick(s)}]]

Partial(f, S) == CHOOSE g : IsSum(f, S, g)

LEMMA PickIn == \A s : s # {} => Pick(s) \in s
  BY DEF Pick

(* The community modules sum by a fold, which is a recursive function under *)
(* a CHOOSE; this is that function.                                        *)
LEMMA SumIs ==
  ASSUME NEW f, NEW S
  PROVE  SumFunctionOnSet(f, S) = Partial(f, S)[S]
  BY DEF SumFunctionOnSet, FoldFunctionOnSet, MapThenFoldSet, Partial, IsSum, Pick

(* Two such functions agree wherever both are defined. *)
LEMMA SumAgree ==
  ASSUME NEW f, NEW S, NEW g, IsSum(f, S, g), NEW T, NEW h, IsSum(f, T, h),
         NEW r, r \subseteq S, r \subseteq T, IsFiniteSet(r)
  PROVE  g[r] = h[r]
<1> DEFINE B == {s \in SUBSET r : g[s] # h[s]}
<1>1. SUFFICES ASSUME B # {} PROVE FALSE
  <2>1. r \in SUBSET r
    OBVIOUS
  <2> QED BY <1>1, <2>1
<1>2. \A s \in B : IsFiniteSet(s)
  BY FS_Subset
<1>3. PICK s \in B : \A x \in s : s \ {x} \notin B
  <2> HIDE DEF B
  <2> QED BY <1>1, <1>2, OneLess
<1>4. /\ s \in SUBSET r /\ s \in SUBSET S /\ s \in SUBSET T /\ g[s] # h[s]
  OBVIOUS
<1>5. /\ g[s] = IF s = {} THEN 0 ELSE f[Pick(s)] + g[s \ {Pick(s)}]
      /\ h[s] = IF s = {} THEN 0 ELSE f[Pick(s)] + h[s \ {Pick(s)}]
  BY <1>4 DEF IsSum
<1>6. s # {} => g[s \ {Pick(s)}] = h[s \ {Pick(s)}]
  <2>1. ASSUME s # {} PROVE s \ {Pick(s)} \notin B
    BY <1>3, <2>1, PickIn
  <2> QED BY <1>4, <2>1
<1> QED BY <1>4, <1>5, <1>6

(* The function exists: a smallest set without one would have one. *)
LEMMA SumExists ==
  ASSUME NEW f, NEW S, IsFiniteSet(S)
  PROVE  IsSum(f, S, Partial(f, S))
<1> DEFINE B == {s \in SUBSET S : ~IsSum(f, s, Partial(f, s))}
<1>1. SUFFICES ASSUME B # {} PROVE FALSE
  <2>1. S \in SUBSET S
    OBVIOUS
  <2> QED BY <1>1, <2>1
<1>2. \A s \in B : IsFiniteSet(s)
  BY FS_Subset
<1>a. PICK s \in B : \A t \in B : t \subseteq s => t = s
  <2> HIDE DEF B
  <2> QED BY <1>1, <1>2, Smallest
<1>3. \A t \in SUBSET s : t # s => IsSum(f, t, Partial(f, t))
  BY <1>a
<1> HIDE DEF B
<1> DEFINE v(t) == IF t = {} THEN 0 ELSE f[Pick(t)] + Partial(f, t \ {Pick(t)})[t \ {Pick(t)}]
           g == [t \in SUBSET s |-> v(t)]
<1>4. ASSUME NEW r \in SUBSET s, r # s
      PROVE  Partial(f, r)[r] = v(r)
  <2>1. Partial(f, r)[r] = IF r = {} THEN 0 ELSE f[Pick(r)] + Partial(f, r)[r \ {Pick(r)}]
    <3>1. r \in SUBSET r
      OBVIOUS
    <3> QED BY <1>3, <1>4, <3>1 DEF IsSum
  <2>2. ASSUME r # {}
        PROVE  Partial(f, r)[r \ {Pick(r)}] = Partial(f, r \ {Pick(r)})[r \ {Pick(r)}]
    <3> DEFINE q == r \ {Pick(r)}
    <3>1. q \in SUBSET s /\ q # s /\ q \subseteq r /\ q \subseteq q /\ IsFiniteSet(q)
      <4>1. IsFiniteSet(s) /\ Pick(r) \in r
        BY <1>2, <2>2, PickIn
      <4>2. q \in SUBSET s /\ q # s /\ q \subseteq r /\ q \subseteq q
        BY <4>1
      <4> QED BY <4>1, <4>2, FS_Subset
    <3>2. IsSum(f, r, Partial(f, r)) /\ IsSum(f, q, Partial(f, q))
      BY <1>3, <1>4, <3>1
    <3> HIDE DEF q
    <3>3. Partial(f, r)[q] = Partial(f, q)[q]
      BY <3>1, <3>2, SumAgree
    <3> QED BY <3>3 DEF q
  <2> QED BY <2>1, <2>2
<1>5. ASSUME NEW t \in SUBSET s
      PROVE  v(t) = IF t = {} THEN 0 ELSE f[Pick(t)] + g[t \ {Pick(t)}]
  <2>1. CASE t = {}
    BY <2>1
  <2>2. CASE t # {}
    <3> DEFINE q == t \ {Pick(t)}
    <3>1. q \in SUBSET s /\ q # s
      BY <2>2, PickIn
    <3>2. g[q] = v(q)
      BY <3>1
    <3>3. Partial(f, q)[q] = v(q)
      BY <1>4, <3>1
    <3>4. v(t) = f[Pick(t)] + Partial(f, q)[q]
      BY <2>2
    <3> HIDE DEF v, g
    <3> QED BY <2>2, <3>2, <3>3, <3>4
  <2> QED BY <2>1, <2>2
<1>6. g = [t \in SUBSET s |-> IF t = {} THEN 0 ELSE f[Pick(t)] + g[t \ {Pick(t)}]]
  <2> HIDE DEF v
  <2> SUFFICES \A t \in SUBSET s : v(t) = IF t = {} THEN 0 ELSE f[Pick(t)] + g[t \ {Pick(t)}]
    OBVIOUS
  <2> QED BY <1>5
<1>7. IsSum(f, s, g)
  BY <1>6 DEF IsSum
<1> HIDE DEF g
<1>8. IsSum(f, s, Partial(f, s))
  BY <1>7 DEF Partial
<1> QED BY <1>8 DEF B

----------------------------------------------------------------------------
(* One member, the picked one, can be taken out of a sum. *)
LEMMA SumStep ==
  ASSUME NEW f, NEW S, IsFiniteSet(S)
  PROVE  SumFunctionOnSet(f, S) = IF S = {} THEN 0 ELSE f[Pick(S)] + SumFunctionOnSet(f, S \ {Pick(S)})
<1> DEFINE r == S \ {Pick(S)}
<1>1. IsSum(f, S, Partial(f, S)) /\ IsFiniteSet(r) /\ IsSum(f, r, Partial(f, r))
  BY SumExists, FS_Subset
<1>2. r \subseteq S /\ r \subseteq r /\ S \in SUBSET S
  OBVIOUS
<1> HIDE DEF r
<1>3. Partial(f, S)[r] = Partial(f, r)[r]
  BY <1>1, <1>2, SumAgree
<1>4. Partial(f, S)[S] = IF S = {} THEN 0 ELSE f[Pick(S)] + Partial(f, S)[r]
  BY <1>1, <1>2 DEF IsSum, r
<1> QED BY <1>3, <1>4, SumIs DEF r

(* A set of numbers that has 0 and the sums of its members has those over  *)
(* sets.                                                                   *)
LEMMA SumIn ==
  ASSUME NEW f, NEW S, IsFiniteSet(S), NEW T, 0 \in T, \A a, b \in T : a + b \in T,
         \A x \in S : f[x] \in T
  PROVE  SumFunctionOnSet(f, S) \in T
<1> DEFINE B == {s \in SUBSET S : SumFunctionOnSet(f, s) \notin T}
<1>1. SUFFICES ASSUME B # {} PROVE FALSE
  <2>1. S \in SUBSET S
    OBVIOUS
  <2> QED BY <1>1, <2>1
<1>2. \A s \in B : IsFiniteSet(s)
  BY FS_Subset
<1>3. PICK s \in B : \A x \in s : s \ {x} \notin B
  <2> HIDE DEF B
  <2> QED BY <1>1, <1>2, OneLess
<1>4. SumFunctionOnSet(f, s) = IF s = {} THEN 0 ELSE f[Pick(s)] + SumFunctionOnSet(f, s \ {Pick(s)})
  BY <1>2, SumStep
<1>5. s # {} => f[Pick(s)] \in T /\ SumFunctionOnSet(f, s \ {Pick(s)}) \in T
  <2>1. s # {} => Pick(s) \in s
    BY PickIn
  <2> QED BY <1>3, <2>1
<1> QED BY <1>4, <1>5

LEMMA SumInt ==
  ASSUME NEW f, NEW S, IsFiniteSet(S), \A x \in S : f[x] \in Int
  PROVE  SumFunctionOnSet(f, S) \in Int
<1>1. 0 \in Int /\ \A a, b \in Int : a + b \in Int
  OBVIOUS
<1> QED BY <1>1, SumIn

LEMMA SumNat ==
  ASSUME NEW f, NEW S, IsFiniteSet(S), \A x \in S : f[x] \in Nat
  PROVE  SumFunctionOnSet(f, S) \in Nat
<1>1. 0 \in Nat /\ \A a, b \in Nat : a + b \in Nat
  OBVIOUS
<1> QED BY <1>1, SumIn

LEMMA SumZero ==
  ASSUME NEW f, NEW S, IsFiniteSet(S), \A x \in S : f[x] = 0
  PROVE  SumFunctionOnSet(f, S) = 0
<1> DEFINE T == {0}
<1>1. 0 \in T /\ (\A a, b \in T : a + b \in T) /\ \A x \in S : f[x] \in T
  OBVIOUS
<1> HIDE DEF T
<1>2. SumFunctionOnSet(f, S) \in T
  BY <1>1, SumIn
<1> QED BY <1>2 DEF T

(* Any member can: the order in which they are picked does not matter. *)
LEMMA SumRemove ==
  ASSUME NEW f, NEW S, IsFiniteSet(S), \A x \in S : f[x] \in Int, NEW n \in S
  PROVE  SumFunctionOnSet(f, S) = f[n] + SumFunctionOnSet(f, S \ {n})
<1> DEFINE B == {s \in SUBSET S : \E m \in s : SumFunctionOnSet(f, s) # f[m] + SumFunctionOnSet(f, s \ {m})}
<1>1. SUFFICES ASSUME B # {} PROVE FALSE
  <2>1. S \in SUBSET S
    OBVIOUS
  <2> QED BY <1>1, <2>1
<1>2. \A s \in B : IsFiniteSet(s)
  BY FS_Subset
<1>3. PICK s \in B : \A x \in s : s \ {x} \notin B
  <2> HIDE DEF B
  <2> QED BY <1>1, <1>2, OneLess
<1>4. PICK m \in s : SumFunctionOnSet(f, s) # f[m] + SumFunctionOnSet(f, s \ {m})
  OBVIOUS
<1> DEFINE p == Pick(s)
<1>5. p \in s /\ s \in SUBSET S /\ IsFiniteSet(s)
  BY <1>2, <1>4, PickIn
<1>6. SumFunctionOnSet(f, s) = f[p] + SumFunctionOnSet(f, s \ {p})
  BY <1>4, <1>5, SumStep
<1>7. p # m
  BY <1>4, <1>6
<1> HIDE DEF p
<1>8. SumFunctionOnSet(f, s \ {p}) = f[m] + SumFunctionOnSet(f, (s \ {p}) \ {m})
  <2>1. s \ {p} \in SUBSET S /\ s \ {p} \notin B /\ m \in s \ {p}
    BY <1>3, <1>4, <1>5, <1>7
  <2> QED BY <2>1
<1>9. SumFunctionOnSet(f, s \ {m}) = f[p] + SumFunctionOnSet(f, (s \ {m}) \ {p})
  <2>1. s \ {m} \in SUBSET S /\ s \ {m} \notin B /\ p \in s \ {m}
    BY <1>3, <1>4, <1>5, <1>7
  <2> QED BY <2>1
<1>10. (s \ {p}) \ {m} = (s \ {m}) \ {p}
  OBVIOUS
<1>11. f[p] \in Int /\ f[m] \in Int /\ SumFunctionOnSet(f, (s \ {p}) \ {m}) \in Int
  <2> DEFINE r == (s \ {p}) \ {m}
  <2>1. r \subseteq s /\ r \subseteq S
    BY <1>5
  <2>2. IsFiniteSet(r)
    BY <1>5, <2>1, FS_Subset
  <2>3. SumFunctionOnSet(f, r) \in Int
    BY <2>1, <2>2, SumInt
  <2> QED BY <1>4, <1>5, <2>3
<1> HIDE DEF B
<1>12. SumFunctionOnSet(f, s \ {m}) = f[p] + SumFunctionOnSet(f, (s \ {p}) \ {m})
  BY <1>9, <1>10, Zenon
<1>13. f[m] + (f[p] + SumFunctionOnSet(f, (s \ {p}) \ {m})) = f[p] + (f[m] + SumFunctionOnSet(f, (s \ {p}) \ {m}))
  BY <1>11
<1> QED BY <1>4, <1>6, <1>8, <1>12, <1>13, Zenon

(* A sum depends on the values of its members only. *)
LEMMA SumSame ==
  ASSUME NEW f, NEW h, NEW S, IsFiniteSet(S), \A x \in S : f[x] = h[x]
  PROVE  SumFunctionOnSet(f, S) = SumFunctionOnSet(h, S)
<1> DEFINE B == {s \in SUBSET S : SumFunctionOnSet(f, s) # SumFunctionOnSet(h, s)}
<1>1. SUFFICES ASSUME B # {} PROVE FALSE
  <2>1. S \in SUBSET S
    OBVIOUS
  <2> QED BY <1>1, <2>1
<1>2. \A s \in B : IsFiniteSet(s)
  BY FS_Subset
<1>3. PICK s \in B : \A x \in s : s \ {x} \notin B
  <2> HIDE DEF B
  <2> QED BY <1>1, <1>2, OneLess
<1>4. /\ SumFunctionOnSet(f, s) = IF s = {} THEN 0 ELSE f[Pick(s)] + SumFunctionOnSet(f, s \ {Pick(s)})
      /\ SumFunctionOnSet(h, s) = IF s = {} THEN 0 ELSE h[Pick(s)] + SumFunctionOnSet(h, s \ {Pick(s)})
  BY <1>2, SumStep
<1>5. s # {} => f[Pick(s)] = h[Pick(s)] /\ SumFunctionOnSet(f, s \ {Pick(s)}) = SumFunctionOnSet(h, s \ {Pick(s)})
  <2>1. s # {} => Pick(s) \in s
    BY PickIn
  <2> QED BY <1>3, <2>1
<1> QED BY <1>4, <1>5

(* A member more. *)
LEMMA SumAdd ==
  ASSUME NEW f, NEW S, IsFiniteSet(S), NEW n, n \notin S, f[n] \in Int, \A x \in S : f[x] \in Int
  PROVE  SumFunctionOnSet(f, S \cup {n}) = SumFunctionOnSet(f, S) + f[n]
<1>1. IsFiniteSet(S \cup {n}) /\ (S \cup {n}) \ {n} = S
  BY FS_AddElement
<1>2. n \in S \cup {n} /\ \A x \in S \cup {n} : f[x] \in Int
  OBVIOUS
<1>3. SumFunctionOnSet(f, S \cup {n}) = f[n] + SumFunctionOnSet(f, (S \cup {n}) \ {n})
  BY <1>1, <1>2, SumRemove
<1>4. SumFunctionOnSet(f, S) \in Int
  BY SumInt
<1>5. SumFunctionOnSet(f, S \cup {n}) = f[n] + SumFunctionOnSet(f, S)
  BY <1>1, <1>3, Zenon
<1> QED BY <1>4, <1>5

(* One value changed. *)
LEMMA SumChange ==
  ASSUME NEW f, NEW h, NEW S, IsFiniteSet(S), NEW n \in S,
         \A x \in S : f[x] \in Int /\ h[x] \in Int,
         \A x \in S \ {n} : f[x] = h[x]
  PROVE  SumFunctionOnSet(h, S) = SumFunctionOnSet(f, S) - f[n] + h[n]
<1> DEFINE r == S \ {n}
<1>1. IsFiniteSet(r) /\ \A x \in r : f[x] = h[x] /\ f[x] \in Int
  BY FS_Subset
<1>2. SumFunctionOnSet(f, S) = f[n] + SumFunctionOnSet(f, r) /\ SumFunctionOnSet(h, S) = h[n] + SumFunctionOnSet(h, r)
  BY SumRemove
<1> HIDE DEF r
<1>3. SumFunctionOnSet(f, r) = SumFunctionOnSet(h, r) /\ SumFunctionOnSet(f, r) \in Int
  BY <1>1, SumSame, SumInt
<1> QED BY <1>2, <1>3

LEMMA CardinalityNat ==
  ASSUME NEW S, IsFiniteSet(S)
  PROVE  /\ Cardinality(S) \in Nat
         /\ S = {} => Cardinality(S) = 0
         /\ S # {} => Cardinality(S) > 0
<1>1. Cardinality(S) \in Nat
  BY FS_CardinalityType
<1>2. S = {} => Cardinality(S) = 0
  BY FS_EmptySet
<1>3. Cardinality(S) = 0 => S = {}
  BY FS_EmptySet
<1> QED BY <1>1, <1>2, <1>3

----------------------------------------------------------------------------
(* Orders in priority order.                                               *)

LEMMA PricesNat ==
  /\ Prices \subseteq Nat /\ NoPrice \notin Prices /\ NoPrice = -1
  /\ \A p \in Prices : p < MaxPx /\ p >= MinPx
  BY BandAssumption DEF Prices, NoPrice

\* S holds the k elements of t, each once
Enumerates(t, k, S) ==
  /\ k \in Nat
  /\ \A i \in 1 .. k : t[i] \in S
  /\ \A x \in S : \E i \in 1 .. k : t[i] = x
  /\ \A i, j \in 1 .. k : t[i] = t[j] => i = j

(* A set that k elements enumerate is finite and has k. *)
LEMMA EnumerationCounts ==
  ASSUME NEW t, NEW k, NEW S, Enumerates(t, k, S)
  PROVE  IsFiniteSet(S) /\ Cardinality(S) = k
<1> DEFINE f == [i \in 1 .. k |-> t[i]]
<1>1. f \in Bijection(1 .. k, S)
  <2>1. f \in [1 .. k -> S]
    BY DEF Enumerates
  <2>2. \A i, j \in 1 .. k : f[i] = f[j] => i = j
    BY DEF Enumerates
  <2>3. \A x \in S : \E i \in 1 .. k : f[i] = x
    BY DEF Enumerates
  <2> HIDE DEF f
  <2> QED BY <2>1, <2>2, <2>3 DEF Bijection, Injection, Surjection, IsInjective
<1>2. IsFiniteSet(1 .. k) /\ Cardinality(1 .. k) = k
  BY FS_Interval DEF Enumerates
<1> QED BY <1>1, <1>2, FS_Bijection DEF ExistsBijection

\* t is in priority order
Increasing(q, t, k) ==
  \A i, j \in 1 .. k : i < j => Ahead(q, t[i], t[j]) /\ ~Ahead(q, t[j], t[i])

(* A sequence of all orders of S in priority order is what Ranked gives.   *)
LEMMA RankedIs ==
  ASSUME NEW q, NEW S, NEW t, t \in Seq(S), Enumerates(t, Len(t), S), Increasing(q, t, Len(t)),
         \A x \in S : ~Ahead(q, x, x)
  PROVE  Ranked(q, S) = t
<1> DEFINE k == Len(t)
<1>1. k \in Nat /\ Cardinality(S) = k
  BY EnumerationCounts
<1>2. ASSUME NEW i \in 1 .. k
      PROVE  Cardinality({r \in S : Ahead(q, r, t[i])}) = i - 1
  <2> DEFINE R == {r \in S : Ahead(q, r, t[i])}
  <2>1. \A j \in 1 .. k : Ahead(q, t[j], t[i]) <=> j < i
    <3> TAKE j \in 1 .. k
    <3>1. CASE j < i
      BY <1>1, <3>1 DEF Increasing
    <3>2. CASE j = i
      BY <1>1, <3>2 DEF Enumerates
    <3>3. CASE i < j
      BY <1>1, <3>3 DEF Increasing
    <3> QED BY <1>1, <3>1, <3>2, <3>3
  <2>2. Enumerates(t, i - 1, R)
    <3>1. \A j \in 1 .. i - 1 : j \in 1 .. k /\ j < i
      BY <1>1
    <3>2. \A j \in 1 .. k : j < i => j \in 1 .. i - 1
      BY <1>1
    <3>3. i - 1 \in Nat
      BY <1>1
    <3> QED BY <2>1, <3>1, <3>2, <3>3 DEF Enumerates
  <2> QED BY <2>2, EnumerationCounts
<1>3. \A i \in 1 .. k : Rank(q, S, i) = {t[i]}
  <2> TAKE i \in 1 .. k
  <2>1. \A j \in 1 .. k : t[j] \in Rank(q, S, i) <=> j = i
    <3> TAKE j \in 1 .. k
    <3>1. t[j] \in S /\ i \in Nat /\ j \in Nat
      BY <1>1 DEF Enumerates
    <3>2. Cardinality({r \in S : Ahead(q, r, t[j])}) = j - 1
      BY <1>2
    <3>3. t[j] \in Rank(q, S, i) <=> j - 1 = i - 1
      BY <3>1, <3>2 DEF Rank
    <3> QED BY <3>1, <3>3
  <2>2. Rank(q, S, i) \subseteq S
    BY DEF Rank
  <2>3. ASSUME NEW o \in Rank(q, S, i) PROVE o = t[i]
    <3>1. PICK j \in 1 .. k : t[j] = o
      BY <2>2 DEF Enumerates
    <3> QED BY <2>1, <3>1
  <2> QED BY <2>1, <2>3
<1>4. \A i \in 1 .. k : (CHOOSE o \in Rank(q, S, i) : TRUE) = t[i]
  BY <1>3
<1>5. t = [i \in 1 .. k |-> t[i]]
  BY <1>1
<1> QED BY <1>1, <1>4, <1>5 DEF Ranked

(* Where priorities agree, ranks do. *)
LEMMA RankedSame ==
  ASSUME NEW q, NEW u, NEW S, \A o, r \in S : Ahead(q, o, r) = Ahead(u, o, r)
  PROVE  Ranked(q, S) = Ranked(u, S)
<1>1. \A o \in S : {r \in S : Ahead(q, r, o)} = {r \in S : Ahead(u, r, o)}
  OBVIOUS
<1>2. \A k : Rank(q, S, k) = Rank(u, S, k)
  BY <1>1 DEF Rank
<1> QED BY <1>2 DEF Ranked

\* x is ahead of the other orders of S
Leads(q, S, x) ==
  /\ IsFiniteSet(S) /\ x \in S /\ ~Ahead(q, x, x)
  /\ \A y \in S \ {x} : Ahead(q, x, y) /\ ~Ahead(q, y, x)

\* x, then the others as they trade without it
StartsWith(q, S, x) == Ranked(q, S) = <<x>> \o Ranked(q, S \ {x})

(* The order that leads a set is ranked first, the others as without it. *)
LEMMA RankedFirst ==
  ASSUME NEW q, NEW S, NEW x, Leads(q, S, x)
  PROVE  StartsWith(q, S, x)
<1>0. /\ IsFiniteSet(S) /\ x \in S /\ ~Ahead(q, x, x)
      /\ \A y \in S \ {x} : Ahead(q, x, y) /\ ~Ahead(q, y, x)
  BY DEF Leads
<1> DEFINE T == S \ {x}
           k == Cardinality(T)
           t == Ranked(q, T)
<1>1. k \in Nat /\ Cardinality(S) = k + 1 /\ IsFiniteSet(T)
  <2>1. IsFiniteSet(S)
    BY <1>0
  <2>2. x \in S
    BY <1>0
  <2>3. IsFiniteSet(T) /\ Cardinality(T) = Cardinality(S) - 1
    BY <2>1, <2>2, FS_RemoveElement
  <2>4. Cardinality(S) \in Nat /\ k \in Nat
    BY <2>1, <2>3, FS_CardinalityType
  <2> QED BY <2>3, <2>4
<1>2. \A y \in T : {r \in S : Ahead(q, r, y)} = {r \in T : Ahead(q, r, y)} \cup {x}
  BY <1>0
<1>3. {r \in S : Ahead(q, r, x)} = {}
  BY <1>0
<1>4. \A y \in T : /\ Cardinality({r \in T : Ahead(q, r, y)}) \in Nat
                   /\ Cardinality({r \in S : Ahead(q, r, y)})
                        = Cardinality({r \in T : Ahead(q, r, y)}) + 1
  <2> TAKE y \in T
  <2> DEFINE R == {r \in T : Ahead(q, r, y)}
  <2>1. IsFiniteSet(R) /\ x \notin R
    BY <1>1, FS_Subset
  <2> HIDE DEF R
  <2>2. Cardinality(R) \in Nat /\ Cardinality(R \cup {x}) = Cardinality(R) + 1
    BY <2>1, FS_AddElement, FS_CardinalityType
  <2> QED BY <1>2, <2>2 DEF R
<1>5. Cardinality({r \in S : Ahead(q, r, x)}) = 0
  BY <1>3, FS_EmptySet
<1> DEFINE above(R, y) == Cardinality({r \in R : Ahead(q, r, y)})
<1>a. /\ \A y \in T : above(T, y) \in Nat /\ above(S, y) = above(T, y) + 1
      /\ above(S, x) = 0
  BY <1>4, <1>5
<1>b. \A i : /\ Rank(q, S, i) = {o \in S : above(S, o) = i - 1}
             /\ Rank(q, T, i) = {o \in T : above(T, o) = i - 1}
  BY DEF Rank
<1> HIDE DEF above
<1>6. Rank(q, S, 1) = {x}
  <2>1. \A o \in S : above(S, o) = 1 - 1 <=> o = x
    BY <1>0, <1>a
  <2> QED BY <1>0, <1>b, <2>1
<1>7. \A i \in 1 .. k : Rank(q, S, i + 1) = Rank(q, T, i)
  <2> TAKE i \in 1 .. k
  <2>a. i \in Nat /\ i > 0
    BY <1>1
  <2>1. \A o \in T : above(S, o) = (i + 1) - 1 <=> above(T, o) = i - 1
    <3> TAKE o \in T
    <3>1. above(T, o) \in Nat /\ above(S, o) = above(T, o) + 1
      BY <1>a
    <3> QED BY <2>a, <3>1
  <2>2. above(S, x) # (i + 1) - 1
    BY <1>a, <2>a
  <2>3. \A o : o \in Rank(q, S, i + 1) <=> o \in Rank(q, T, i)
    BY <1>0, <1>b, <2>1, <2>2
  <2> QED BY <2>3
<1>8. t \in Seq({t[i] : i \in 1 .. k}) /\ Len(t) = k
  <2>1. t = [i \in 1 .. k |-> CHOOSE o \in Rank(q, T, i) : TRUE]
    BY DEF Ranked
  <2> HIDE DEF t, k
  <2>2. t \in [1 .. k -> {t[i] : i \in 1 .. k}]
    BY <2>1
  <2> QED BY <1>1, <2>2
<1>9. \A i \in 1 .. k + 1 : (<<x>> \o t)[i] = IF i = 1 THEN x ELSE t[i - 1]
  BY <1>1, <1>8
<1>10. \A i \in 1 .. k + 1 : (CHOOSE o \in Rank(q, S, i) : TRUE) = IF i = 1 THEN x ELSE t[i - 1]
  <2> TAKE i \in 1 .. k + 1
  <2>1. CASE i = 1
    BY <1>6, <2>1
  <2>2. CASE i # 1
    <3>1. i - 1 \in 1 .. k /\ (i - 1) + 1 = i
      BY <1>1, <2>2
    <3>2. Rank(q, S, i) = Rank(q, T, i - 1)
      BY <1>7, <3>1
    <3>3. t[i - 1] = CHOOSE o \in Rank(q, T, i - 1) : TRUE
      BY <3>1 DEF Ranked
    <3> QED BY <2>2, <3>2, <3>3
  <2> QED BY <2>1, <2>2
<1>11. <<x>> \o t = [i \in 1 .. k + 1 |-> (<<x>> \o t)[i]]
  <2> HIDE DEF t, k
  <2>1. <<x>> \o t \in Seq({x} \cup {t[i] : i \in 1 .. k}) /\ Len(<<x>> \o t) = k + 1
    BY <1>1, <1>8
  <2> QED BY <2>1
<1>12. Ranked(q, S) = [i \in 1 .. k + 1 |-> CHOOSE o \in Rank(q, S, i) : TRUE]
  BY <1>1 DEF Ranked
<1> HIDE DEF t, k
<1>13. \A i \in 1 .. k + 1 : (CHOOSE o \in Rank(q, S, i) : TRUE) = (<<x>> \o t)[i]
  BY <1>9, <1>10
<1>14. Ranked(q, S) = <<x>> \o t
  BY <1>11, <1>12, <1>13, Zenon
<1> QED BY <1>14 DEF t, StartsWith

----------------------------------------------------------------------------
(* Books as queues.                                                        *)

\* every order stands once, at its side and price
WellFormed(q) ==
  /\ q \in [Side -> [Prices -> Seq(Order)]]
  /\ \A s \in Side, p \in Prices :
       /\ \A i \in 1 .. Len(q[s][p]) : q[s][p][i].side = s /\ q[s][p][i].px = p
       /\ \A i, j \in 1 .. Len(q[s][p]) : q[s][p][i] = q[s][p][j] => i = j

(* The queue of a level is a sequence of distinct orders of that level. *)
LEMMA LevelSeq ==
  ASSUME NEW q, WellFormed(q), NEW s \in Side, NEW p \in Prices
  PROVE  /\ q[s][p] \in Seq(Order) /\ Len(q[s][p]) \in Nat
         /\ DOMAIN q[s][p] = 1 .. Len(q[s][p])
         /\ \A i \in 1 .. Len(q[s][p]) :
              q[s][p][i] \in Order /\ q[s][p][i].side = s /\ q[s][p][i].px = p
         /\ \A i, j \in 1 .. Len(q[s][p]) : q[s][p][i] = q[s][p][j] => i = j
         /\ \A i \in 1 .. Len(q[s][p]) : q[s][p][i] \in ToSet(q[s][p])
         /\ \A o \in ToSet(q[s][p]) : \E i \in 1 .. Len(q[s][p]) : q[s][p][i] = o
<1>1. q[s][p] \in Seq(Order) /\ Len(q[s][p]) \in Nat /\ DOMAIN q[s][p] = 1 .. Len(q[s][p])
  BY DEF WellFormed
<1>2. /\ \A i \in 1 .. Len(q[s][p]) : q[s][p][i].side = s /\ q[s][p][i].px = p
      /\ \A i, j \in 1 .. Len(q[s][p]) : q[s][p][i] = q[s][p][j] => i = j
  BY DEF WellFormed
<1>3. \A i \in 1 .. Len(q[s][p]) : q[s][p][i] \in Order
  BY <1>1
<1>4. ToSet(q[s][p]) = {q[s][p][i] : i \in 1 .. Len(q[s][p])}
  BY <1>1 DEF ToSet
<1> QED BY <1>1, <1>2, <1>3, <1>4

LEMMA RestingPlace ==
  ASSUME NEW q, WellFormed(q), NEW o \in Resting(q)
  PROVE  /\ o \in Order /\ o.side \in Side /\ o.px \in Prices
         /\ \E i \in 1 .. Len(q[o.side][o.px]) : q[o.side][o.px][i] = o
<1>1. PICK s \in Side, p \in Prices : o \in ToSet(q[s][p])
  BY DEF Resting
<1>2. PICK i \in 1 .. Len(q[s][p]) : q[s][p][i] = o
  BY <1>1, LevelSeq
<1>3. o.side = s /\ o.px = p /\ o \in Order
  BY <1>2, LevelSeq
<1> QED BY <1>2, <1>3

LEMMA LevelOrders ==
  ASSUME NEW q, WellFormed(q), NEW s \in Side, NEW p \in Prices
  PROVE  /\ ToSet(q[s][p]) \subseteq Resting(q)
         /\ \A o \in ToSet(q[s][p]) : o.side = s /\ o.px = p
         /\ \A o \in Resting(q) : o.side = s /\ o.px = p => o \in ToSet(q[s][p])
<1>1. ToSet(q[s][p]) \subseteq Resting(q)
  BY DEF Resting
<1>2. ASSUME NEW o \in ToSet(q[s][p]) PROVE o.side = s /\ o.px = p
  <2>1. /\ \A r \in ToSet(q[s][p]) : \E i \in 1 .. Len(q[s][p]) : q[s][p][i] = r
        /\ \A i \in 1 .. Len(q[s][p]) : q[s][p][i].side = s /\ q[s][p][i].px = p
    BY LevelSeq
  <2>2. PICK i \in 1 .. Len(q[s][p]) : q[s][p][i] = o
    BY <2>1
  <2> QED BY <2>1, <2>2
<1>3. ASSUME NEW o \in Resting(q), o.side = s, o.px = p
      PROVE  o \in ToSet(q[s][p])
  <2>1. PICK i \in 1 .. Len(q[s][p]) : q[s][p][i] = o
    BY <1>3, RestingPlace
  <2> QED BY <2>1, LevelSeq
<1> QED BY <1>1, <1>2, <1>3

(* Priority is strict.                                                     *)
LEMMA AheadStrict ==
  ASSUME NEW q, WellFormed(q), NEW o \in Resting(q), NEW r \in Resting(q), o.side = r.side
  PROVE  /\ ~Ahead(q, o, o)
         /\ Ahead(q, o, r) => ~Ahead(q, r, o)
<1> DEFINE t == q[o.side][o.px]
<1>1. /\ o.side \in Side /\ o.px \in Prices /\ r.px \in Prices
      /\ t \in Seq(Order) /\ DOMAIN t = 1 .. Len(t) /\ Len(t) \in Nat
  BY RestingPlace, LevelSeq
<1>2. \A i, j \in 1 .. Len(t) : t[i] = t[j] => i = j
  BY <1>1 DEF WellFormed
<1>3. o.px \in Nat /\ r.px \in Nat
  BY <1>1, PricesNat
<1>4. /\ ~Better(o.side, o.px, o.px)
      /\ Better(o.side, o.px, r.px) => ~Better(o.side, r.px, o.px) /\ r.px # o.px
      /\ Better(o.side, r.px, o.px) => r.px # o.px
  BY <1>3 DEF Better
<1> HIDE DEF t
<1>5. ASSUME NEW a, NEW b, NEW i \in 1 .. Len(t), NEW j \in 1 .. Len(t), i < j, t[i] = a, t[j] = b
      PROVE  a # b /\ ~\E k, l \in 1 .. Len(t) : k < l /\ t[k] = b /\ t[l] = a
  BY <1>1, <1>2, <1>5
<1>6. ~Ahead(q, o, o)
  BY <1>1, <1>4, <1>5 DEF Ahead, t
<1>7. ASSUME Ahead(q, o, r) PROVE ~Ahead(q, r, o)
  <2>1. CASE o.px = r.px
    BY <1>1, <1>4, <1>5, <1>7, <2>1 DEF Ahead, t
  <2>2. CASE o.px # r.px
    BY <1>4, <1>7, <2>2 DEF Ahead
  <2> QED BY <2>1, <2>2
<1> QED BY <1>6, <1>7

(* Any two orders of a side stand one ahead of the other, and priority     *)
(* carries over.                                                           *)
LEMMA AheadTotal ==
  ASSUME NEW q, WellFormed(q), NEW o \in Resting(q), NEW r \in Resting(q), o.side = r.side,
         o # r
  PROVE  Ahead(q, o, r) \/ Ahead(q, r, o)
<1>1. /\ o.side \in Side /\ o.px \in Prices /\ r.px \in Prices
      /\ DOMAIN q[o.side][o.px] = 1 .. Len(q[o.side][o.px])
      /\ Len(q[o.side][o.px]) \in Nat
  BY RestingPlace, LevelSeq
<1>2. PICK i \in 1 .. Len(q[o.side][o.px]) : q[o.side][o.px][i] = o
  BY RestingPlace
<1>3. PICK j \in 1 .. Len(q[r.side][r.px]) : q[r.side][r.px][j] = r
  BY RestingPlace
<1>4. CASE o.px = r.px
  <2>1. i < j \/ j < i
    BY <1>1, <1>2, <1>3, <1>4
  <2> QED BY <1>1, <1>2, <1>3, <1>4, <2>1 DEF Ahead
<1>5. CASE o.px # r.px
  <2>1. o.px \in Nat /\ r.px \in Nat
    BY <1>1, PricesNat
  <2>2. Better(o.side, o.px, r.px) \/ Better(r.side, r.px, o.px)
    BY <1>5, <2>1 DEF Better
  <2> QED BY <2>2 DEF Ahead
<1> QED BY <1>4, <1>5

LEMMA AheadTransitive ==
  ASSUME NEW q, WellFormed(q), NEW o \in Resting(q), NEW r \in Resting(q), NEW y \in Resting(q),
         o.side = r.side, r.side = y.side, Ahead(q, o, r), Ahead(q, r, y)
  PROVE  Ahead(q, o, y)
<1> DEFINE t == q[o.side][o.px]
<1>1. /\ o.side \in Side /\ o.px \in Prices /\ r.px \in Prices /\ y.px \in Prices
      /\ DOMAIN t = 1 .. Len(t) /\ Len(t) \in Nat
  BY RestingPlace, LevelSeq
<1>2. o.px \in Nat /\ r.px \in Nat /\ y.px \in Nat
  BY <1>1, PricesNat
<1>3. \A i, j \in 1 .. Len(t) : t[i] = t[j] => i = j
  BY <1>1 DEF WellFormed
<1> HIDE DEF t
<1>4. CASE o.px = r.px /\ r.px = y.px
  <2>1. ~Better(o.side, o.px, r.px) /\ ~Better(o.side, r.px, y.px)
    BY <1>2, <1>4 DEF Better
  <2>2. PICK i, j \in 1 .. Len(t) : i < j /\ t[i] = o /\ t[j] = r
    BY <1>1, <2>1 DEF Ahead, t
  <2>3. PICK k, l \in 1 .. Len(t) : k < l /\ t[k] = r /\ t[l] = y
    BY <1>1, <1>4, <2>1 DEF Ahead, t
  <2>4. i < l
    BY <1>1, <1>3, <2>2, <2>3
  <2> QED BY <1>1, <1>4, <2>2, <2>3, <2>4 DEF Ahead, t
<1>5. CASE o.px # r.px \/ r.px # y.px
  <2>1. Better(o.side, o.px, r.px) \/ o.px = r.px
    BY DEF Ahead
  <2>2. Better(o.side, r.px, y.px) \/ r.px = y.px
    BY DEF Ahead
  <2>3. Better(o.side, o.px, y.px)
    BY <1>2, <1>5, <2>1, <2>2 DEF Better
  <2> QED BY <2>3 DEF Ahead
<1> QED BY <1>4, <1>5

(* A set of orders has an order in every rank: Ranked lists it.            *)
LEMMA RankedEnumerates ==
  ASSUME NEW q, WellFormed(q), NEW S, S \subseteq Resting(q), IsFiniteSet(S),
         \A o, r \in S : o.side = r.side
  PROVE  /\ Enumerates(Ranked(q, S), Cardinality(S), S)
         /\ Ranked(q, S) \in Seq(S) /\ Len(Ranked(q, S)) = Cardinality(S)
         /\ DOMAIN Ranked(q, S) = 1 .. Cardinality(S)
<1> DEFINE k == Cardinality(S)
           R(o) == {r \in S : Ahead(q, r, o)}
           f == [o \in S |-> Cardinality(R(o)) + 1]
<1>1. k \in Nat
  BY FS_CardinalityType
<1>2. \A o, r \in S : ~Ahead(q, o, o) /\ (o # r => Ahead(q, o, r) \/ Ahead(q, r, o))
  BY AheadStrict, AheadTotal
<1>3. \A o, r, y \in S : Ahead(q, o, r) /\ Ahead(q, r, y) => Ahead(q, o, y)
  BY AheadTransitive
<1>4. \A o \in S : IsFiniteSet(R(o)) /\ Cardinality(R(o)) \in Nat /\ Cardinality(R(o)) < k
  <2> TAKE o \in S
  <2>1. R(o) \in SUBSET S /\ R(o) # S
    BY <1>2
  <2> HIDE DEF R
  <2>2. IsFiniteSet(R(o)) /\ Cardinality(R(o)) <= k /\ (k = Cardinality(R(o)) => S = R(o))
    BY <2>1, FS_Subset
  <2>3. Cardinality(R(o)) \in Nat
    BY <2>2, FS_CardinalityType
  <2> QED BY <1>1, <2>1, <2>2, <2>3
<1>5. \A o, r \in S : Ahead(q, o, r) => Cardinality(R(o)) < Cardinality(R(r))
  <2> SUFFICES ASSUME NEW o \in S, NEW r \in S, Ahead(q, o, r)
               PROVE  Cardinality(R(o)) < Cardinality(R(r))
    OBVIOUS
  <2>1. R(o) \in SUBSET R(r) /\ R(o) # R(r)
    BY <1>2, <1>3
  <2>2. IsFiniteSet(R(r)) /\ Cardinality(R(r)) \in Nat /\ Cardinality(R(o)) \in Nat
    BY <1>4
  <2> HIDE DEF R
  <2>3. Cardinality(R(o)) <= Cardinality(R(r)) /\ (Cardinality(R(r)) = Cardinality(R(o)) => R(r) = R(o))
    BY <2>1, <2>2, FS_Subset
  <2> QED BY <2>1, <2>2, <2>3
<1>6. f \in [S -> 1 .. k] /\ \A o, r \in S : f[o] = f[r] => o = r
  <2> HIDE DEF R
  <2>1. \A o \in S : f[o] \in 1 .. k
    BY <1>1, <1>4
  <2>2. ASSUME NEW o \in S, NEW r \in S, f[o] = f[r] PROVE o = r
    <3>1. Cardinality(R(o)) = Cardinality(R(r)) /\ Cardinality(R(r)) \in Nat
      BY <1>4, <2>2
    <3>2. ~Ahead(q, o, r) /\ ~Ahead(q, r, o)
      BY <1>5, <3>1
    <3> QED BY <1>2, <3>2
  <2> QED BY <2>1, <2>2
<1>7. \A i \in 1 .. k : \E o \in S : f[o] = i
  <2>1. IsFiniteSet(1 .. k) /\ Cardinality(1 .. k) = k
    BY <1>1, FS_Interval
  <2> HIDE DEF f
  <2>2. f \in Injection(S, 1 .. k)
    BY <1>6 DEF Injection, IsInjective
  <2>3. f \in Surjection(S, 1 .. k)
    BY <2>1, <2>2, FS_Injection
  <2> QED BY <2>3 DEF Surjection
<1>8. \A i \in 1 .. k : \A o \in S : o \in Rank(q, S, i) <=> f[o] = i
  <2> TAKE i \in 1 .. k
  <2> TAKE o \in S
  <2>1. o \in Rank(q, S, i) <=> Cardinality(R(o)) = i - 1
    BY DEF Rank
  <2>2. Cardinality(R(o)) \in Nat
    BY <1>4
  <2> HIDE DEF R
  <2> QED BY <1>1, <2>1, <2>2
<1>9. \A i \in 1 .. k : Ranked(q, S)[i] \in S /\ f[Ranked(q, S)[i]] = i
  <2> HIDE DEF f
  <2> TAKE i \in 1 .. k
  <2>1. \E o \in S : o \in Rank(q, S, i)
    BY <1>7, <1>8
  <2>2. Ranked(q, S)[i] = CHOOSE o \in Rank(q, S, i) : TRUE
    BY DEF Ranked
  <2>3. Ranked(q, S)[i] \in Rank(q, S, i)
    BY <2>1, <2>2
  <2>4. Ranked(q, S)[i] \in S
    BY <2>3 DEF Rank
  <2> QED BY <1>8, <2>3, <2>4
<1> HIDE DEF f
<1>10. Enumerates(Ranked(q, S), k, S)
  <2>1. \A o \in S : f[o] \in 1 .. k /\ Ranked(q, S)[f[o]] = o
    BY <1>6, <1>9
  <2>2. \A i, j \in 1 .. k : Ranked(q, S)[i] = Ranked(q, S)[j] => i = j
    BY <1>9
  <2> QED BY <1>1, <1>9, <2>1, <2>2 DEF Enumerates
<1>11. Ranked(q, S) \in [1 .. k -> S]
  <2>1. Ranked(q, S) = [i \in 1 .. k |-> CHOOSE o \in Rank(q, S, i) : TRUE]
    BY DEF Ranked
  <2>2. Ranked(q, S) = [i \in 1 .. k |-> Ranked(q, S)[i]]
    BY <2>1
  <2> QED BY <1>9, <2>2
<1> HIDE DEF k
<1>12. Ranked(q, S) \in Seq(S) /\ Len(Ranked(q, S)) = k /\ DOMAIN Ranked(q, S) = 1 .. k
  BY <1>1, <1>11
<1> QED BY <1>10, <1>12 DEF k

(* A level is in priority order, and ranking its orders gives it back.     *)
LEMMA LevelRanked ==
  ASSUME NEW q, WellFormed(q), NEW s \in Side, NEW p \in Prices
  PROVE  /\ Increasing(q, q[s][p], Len(q[s][p]))
         /\ Enumerates(q[s][p], Len(q[s][p]), ToSet(q[s][p]))
         /\ Ranked(q, ToSet(q[s][p])) = q[s][p]
<1> DEFINE t == q[s][p]
           S == ToSet(t)
<1>1. /\ t \in Seq(Order) /\ Len(t) \in Nat /\ DOMAIN t = 1 .. Len(t)
      /\ \A i \in 1 .. Len(t) : t[i] \in S
      /\ \A o \in S : \E i \in 1 .. Len(t) : t[i] = o
      /\ \A i, j \in 1 .. Len(t) : t[i] = t[j] => i = j
  BY LevelSeq
<1>2. \A o \in S : o \in Resting(q) /\ o.side = s /\ o.px = p
  BY LevelOrders
<1>3. \A o, r \in S : ~Ahead(q, o, o) /\ (Ahead(q, o, r) => ~Ahead(q, r, o))
  BY <1>2, AheadStrict
<1>4. \A i, j \in 1 .. Len(t) : i < j => Ahead(q, t[i], t[j])
  <2> TAKE i, j \in 1 .. Len(t)
  <2>1. /\ t[i] \in S /\ t[j] \in S
        /\ t[i].side = s /\ t[i].px = p /\ t[j].px = p
    BY <1>1, <1>2
  <2> QED BY <1>1, <2>1 DEF Ahead
<1>5. Increasing(q, t, Len(t))
  BY <1>1, <1>3, <1>4 DEF Increasing
<1>6. Enumerates(t, Len(t), S)
  BY <1>1 DEF Enumerates
<1>7. t \in Seq(S)
  BY <1>1
<1> HIDE DEF t, S
<1>8. Ranked(q, S) = t
  BY <1>3, <1>5, <1>6, <1>7, RankedIs
<1> QED BY <1>5, <1>6, <1>8 DEF t, S

(* The oldest order at the best price is ahead of all others of its side.  *)
LEMMA BestAhead ==
  ASSUME NEW q, WellFormed(q), NEW s \in Side, NEW p \in Prices, q[s][p] # <<>>,
         \A r \in Prices : q[s][r] # <<>> => ~Better(s, r, p)
  PROVE  /\ q[s][p][1] \in Resting(q) /\ q[s][p][1].side = s /\ q[s][p][1].px = p
         /\ \A y \in Resting(q) \ {q[s][p][1]} : y.side = s =>
              Ahead(q, q[s][p][1], y) /\ ~Ahead(q, y, q[s][p][1])
<1> DEFINE t == q[s][p]
           x == t[1]
<1>1. /\ t \in Seq(Order) /\ Len(t) \in Nat /\ DOMAIN t = 1 .. Len(t) /\ 1 \in 1 .. Len(t)
  BY LevelSeq
<1>2. x \in ToSet(t) /\ x \in Resting(q) /\ x.side = s /\ x.px = p
  <2>1. x \in ToSet(t) /\ x.side = s /\ x.px = p
    BY <1>1, LevelSeq
  <2> QED BY <2>1, LevelOrders
<1>3. ASSUME NEW y \in Resting(q) \ {x}, y.side = s
      PROVE  Ahead(q, x, y)
  <2>1. PICK i \in 1 .. Len(q[s][y.px]) : q[s][y.px][i] = y
    BY <1>3, RestingPlace
  <2>2. y.px \in Prices /\ Len(q[s][y.px]) \in Nat
    BY <1>3, RestingPlace, LevelSeq
  <2>3. CASE y.px = p
    <3>1. 1 < i
      BY <2>1, <2>2, <2>3, <1>1, <1>3
    <3> QED BY <1>1, <1>2, <2>1, <2>3, <3>1 DEF Ahead
  <2>4. CASE y.px # p
    <3>1. q[s][y.px] # <<>>
      BY <2>1, <2>2
    <3>2. ~Better(s, y.px, p)
      BY <2>2, <3>1
    <3>3. y.px \in Nat /\ p \in Nat
      BY <2>2, PricesNat
    <3>4. Better(s, p, y.px)
      BY <2>4, <3>2, <3>3 DEF Better
    <3> QED BY <1>2, <3>4 DEF Ahead
  <2> QED BY <2>3, <2>4
<1>4. \A y \in Resting(q) \ {x} : y.side = s => ~Ahead(q, y, x)
  BY <1>2, <1>3, AheadStrict
<1> HIDE DEF x
<1>5. /\ x \in Resting(q) /\ x.side = s /\ x.px = p
      /\ \A y \in Resting(q) \ {x} : y.side = s => Ahead(q, x, y) /\ ~Ahead(q, y, x)
  BY <1>2, <1>3, <1>4
<1> QED BY <1>5 DEF x

----------------------------------------------------------------------------
(* What an order faces.                                                    *)

LEMMA SumOn == \A f : SumFunction(f) = SumFunctionOnSet(f, DOMAIN f)
  BY DEF SumFunction, SumFunctionOnSet, FoldFunction, FoldFunctionOnSet

(* A book of queues holds finitely many orders. *)
LEMMA FiniteResting ==
  ASSUME NEW q, WellFormed(q)
  PROVE  IsFiniteSet(Resting(q))
<1> DEFINE P == Side \X Prices
           T == {ToSet(q[s][p]) : s \in Side, p \in Prices}
           f == [z \in P |-> ToSet(q[z[1]][z[2]])]
<1>1. IsFiniteSet(P)
  <2>1. IsFiniteSet(Side)
    <3>1. IsFiniteSet({Buy}) /\ Side = {Buy} \cup {Sell}
      BY FS_Singleton DEF Side
    <3> QED BY <3>1, FS_AddElement
  <2>2. IsFiniteSet(Prices)
    BY FS_Interval, BandAssumption DEF Prices
  <2> QED BY <2>1, <2>2, FS_Product
<1>2. f \in Surjection(P, T)
  <2>1. f \in [P -> T]
    OBVIOUS
  <2>2. \A t \in T : \E z \in P : f[z] = t
    <3> TAKE t \in T
    <3>1. PICK s \in Side, p \in Prices : t = ToSet(q[s][p])
      OBVIOUS
    <3>2. <<s, p>> \in P /\ f[<<s, p>>] = t
      BY <3>1
    <3> QED BY <3>2
  <2> HIDE DEF f, T, P
  <2> QED BY <2>1, <2>2 DEF Surjection
<1>3. IsFiniteSet(T)
  BY <1>1, <1>2, FS_Surjection
<1>4. \A t \in T : IsFiniteSet(t)
  <2> TAKE t \in T
  <2>1. PICK s \in Side, p \in Prices : t = ToSet(q[s][p])
    OBVIOUS
  <2>2. Enumerates(q[s][p], Len(q[s][p]), t)
    BY <2>1, LevelRanked
  <2> QED BY <2>2, EnumerationCounts
<1> HIDE DEF T
<1>5. IsFiniteSet(UNION T)
  BY <1>3, <1>4, FS_UNION
<1> QED BY <1>5 DEF T, Resting

LEMMA FacingOrders ==
  ASSUME NEW q, WellFormed(q), NEW c
  PROVE  /\ IsFiniteSet(Facing(q, c))
         /\ \A o \in Facing(q, c) : o \in Order /\ o \in Resting(q) /\ o.side = Opposite(c.side)
<1>1. Facing(q, c) \subseteq Resting(q)
  BY DEF Facing
<1>2. \A o \in Facing(q, c) : o \in Order /\ o \in Resting(q) /\ o.side = Opposite(c.side)
  BY RestingPlace DEF Facing
<1> QED BY <1>1, <1>2, FiniteResting, FS_Subset

LEMMA OfferNat ==
  ASSUME NEW c, NEW o \in Order
  PROVE  /\ Offer(c, o) \in Nat
         /\ o.agent # c.agent => Offer(c, o) > 0
  BY DEF Order, Offer

(* What a set offers is a natural number, and one order more adds its      *)
(* offer.                                                                  *)
LEMMA OfferedSum ==
  ASSUME NEW c, NEW S \in SUBSET Order, IsFiniteSet(S)
  PROVE  /\ Offered(c, S) \in Nat
         /\ S = {} => Offered(c, S) = 0
         /\ \A x \in Order : x \notin S => Offered(c, S \cup {x}) = Offered(c, S) + Offer(c, x)
<1> DEFINE f(T) == [o \in T |-> Offer(c, o)]
<1>1. \A T : Offered(c, T) = SumFunctionOnSet(f(T), T)
  BY SumOn DEF Offered
<1>2. \A o \in S : Offer(c, o) \in Nat
  BY OfferNat
<1>3. Offered(c, S) \in Nat
  BY <1>1, <1>2, SumNat
<1>4. S = {} => Offered(c, S) = 0
  BY <1>1, SumZero
<1>5. ASSUME NEW x \in Order, x \notin S
      PROVE  Offered(c, S \cup {x}) = Offered(c, S) + Offer(c, x)
  <2> DEFINE T == S \cup {x}
             g == f(T)
             h == f(S)
  <2>1. /\ \A o \in S : g[o] = h[o] /\ g[o] \in Int
        /\ g[x] = Offer(c, x) /\ g[x] \in Int
    BY <1>2, OfferNat
  <2>2. Offered(c, T) = SumFunctionOnSet(g, T) /\ Offered(c, S) = SumFunctionOnSet(h, S)
    BY <1>1
  <2> HIDE DEF g, h
  <2>3. SumFunctionOnSet(g, T) = SumFunctionOnSet(g, S) + g[x]
    BY <1>5, <2>1, SumAdd
  <2>4. SumFunctionOnSet(g, S) = SumFunctionOnSet(h, S)
    BY <2>1, SumSame
  <2> QED BY <2>1, <2>2, <2>3, <2>4
<1> QED BY <1>3, <1>4, <1>5

LEMMA WantsTake ==
  ASSUME NEW q, WellFormed(q), NEW c, c.qty \in Nat, NEW o \in Order
  PROVE  /\ Wants(q, c, o) \in Nat /\ Wants(q, c, o) <= c.qty
         /\ Take(q, c, o) \in Nat /\ Take(q, c, o) <= o.remaining
         /\ Take(q, c, o) <= Wants(q, c, o) /\ Take(q, c, o) <= Offer(c, o)
<1> DEFINE S == {r \in Facing(q, c) : Ahead(q, r, o)}
<1>1. S \in SUBSET Order /\ IsFiniteSet(S)
  BY FacingOrders, FS_Subset
<1> HIDE DEF S
<1>2. Offered(c, S) \in Nat
  BY <1>1, OfferedSum
<1>3. Wants(q, c, o) = Maximum(0, c.qty - Offered(c, S))
  BY DEF Wants, S
<1>4. Wants(q, c, o) \in Nat /\ Wants(q, c, o) <= c.qty
  BY <1>2, <1>3 DEF Maximum
<1>5. Offer(c, o) \in Nat /\ Offer(c, o) <= o.remaining
  BY OfferNat DEF Offer, Order
<1>6. o.remaining \in Nat
  BY DEF Order
<1> QED BY <1>4, <1>5, <1>6 DEF Take, Minimum

----------------------------------------------------------------------------
(* The first order faced.  What c does to q is what it does to that order, *)
(* followed by what the rest of c does to the rest of q.                   *)

\* x is ahead of everything else that c faces in q
First(q, c, x) ==
  /\ x \in Facing(q, c)
  /\ \A y \in Facing(q, c) \ {x} : Ahead(q, x, y) /\ ~Ahead(q, y, x)

\* u is q without x
Lacks(q, u, x) ==
  /\ \A s \in Side, p \in Prices : ToSet(u[s][p]) = ToSet(q[s][p]) \ {x}
  /\ \A o, r \in Resting(u) : o.side = r.side => Ahead(q, o, r) = Ahead(u, o, r)

\* c with k wanted
Wanting(c, k) == [c EXCEPT !.qty = k]

LEMMA WantingFields ==
  ASSUME NEW c \in OrderFields, NEW k
  PROVE  LET d == Wanting(c, k)
         IN /\ d.qty = k /\ d.side = c.side /\ d.px = c.px /\ d.tif = c.tif
            /\ d.agent = c.agent /\ d.id = c.id
  BY DEF OrderFields, Wanting

LEMMA LacksResting ==
  ASSUME NEW q, NEW u, NEW x, Lacks(q, u, x)
  PROVE  Resting(u) = Resting(q) \ {x}
<1>1. \A s \in Side, p \in Prices : ToSet(u[s][p]) = ToSet(q[s][p]) \ {x}
  BY DEF Lacks
<1>2. ASSUME NEW o \in Resting(u) PROVE o \in Resting(q) \ {x}
  <2>1. PICK s \in Side, p \in Prices : o \in ToSet(u[s][p])
    BY DEF Resting
  <2> QED BY <1>1, <2>1 DEF Resting
<1>3. ASSUME NEW o \in Resting(q) \ {x} PROVE o \in Resting(u)
  <2>1. PICK s \in Side, p \in Prices : o \in ToSet(q[s][p])
    BY DEF Resting
  <2> QED BY <1>1, <2>1 DEF Resting
<1> QED BY <1>2, <1>3

(* All that an order wants, it wants of the first order it faces. *)
LEMMA FirstWants ==
  ASSUME NEW q, WellFormed(q), NEW c, c.qty \in Nat, NEW x, First(q, c, x)
  PROVE  Wants(q, c, x) = c.qty
<1> DEFINE S == {r \in Facing(q, c) : Ahead(q, r, x)}
<1>1. S = {}
  <2>1. ~Ahead(q, x, x)
    BY FacingOrders, AheadStrict DEF First
  <2> QED BY <2>1 DEF First
<1>2. Offered(c, S) = 0
  BY <1>1, OfferedSum, FS_EmptySet
<1> QED BY <1>2 DEF Wants, Maximum

(* The situation: x is first, c takes or cancels all of it, u is what is   *)
(* left of the book and d what is left of the order.                       *)
Peels(q, c, x, u, d) ==
  /\ WellFormed(q) /\ WellFormed(u) /\ c \in OrderFields /\ c.qty \in Nat \ {0}
  /\ First(q, c, x) /\ Lacks(q, u, x)
  /\ Offer(c, x) <= c.qty
  /\ d = Wanting(c, c.qty - Offer(c, x))

LEMMA PeelFields ==
  ASSUME NEW q, NEW c, NEW x, NEW u, NEW d, Peels(q, c, x, u, d)
  PROVE  /\ d.side = c.side /\ d.px = c.px /\ d.tif = c.tif /\ d.agent = c.agent /\ d.id = c.id
         /\ d.qty = c.qty - Offer(c, x) /\ d.qty \in Nat /\ Offer(c, x) \in Nat
         /\ \A o : Offer(d, o) = Offer(c, o)
         /\ \A S : Offered(d, S) = Offered(c, S)
         /\ x \in Order /\ x \in Resting(q) /\ x.side = Opposite(c.side)
         /\ Facing(u, d) = Facing(q, c) \ {x}
<1>1. /\ d.side = c.side /\ d.px = c.px /\ d.tif = c.tif /\ d.agent = c.agent /\ d.id = c.id
      /\ d.qty = c.qty - Offer(c, x)
  BY WantingFields DEF Peels
<1>2. x \in Order /\ x \in Resting(q) /\ x.side = Opposite(c.side)
  BY FacingOrders DEF Peels, First
<1>3. Offer(c, x) \in Nat
  BY <1>2, OfferNat
<1>4. d.qty \in Nat
  BY <1>1, <1>3 DEF Peels
<1>5. \A o : Offer(d, o) = Offer(c, o)
  BY <1>1 DEF Offer
<1>6. \A S : Offered(d, S) = Offered(c, S)
  BY <1>5 DEF Offered
<1>7. Facing(u, d) = Facing(q, c) \ {x}
  <2>1. Resting(u) = Resting(q) \ {x}
    BY LacksResting DEF Peels
  <2> QED BY <1>1, <2>1 DEF Facing
<1> QED BY <1>1, <1>2, <1>3, <1>4, <1>5, <1>6, <1>7

(* What is wanted of the others is the same before and after.              *)
LEMMA PeelWants ==
  ASSUME NEW q, NEW c, NEW x, NEW u, NEW d, Peels(q, c, x, u, d), NEW y \in Facing(u, d)
  PROVE  Wants(q, c, y) = Wants(u, d, y) /\ Take(q, c, y) = Take(u, d, y)
<1> DEFINE S == {r \in Facing(q, c) : Ahead(q, r, y)}
           T == {r \in Facing(u, d) : Ahead(u, r, y)}
<1>0. WellFormed(q) /\ WellFormed(u) /\ First(q, c, x) /\ Lacks(q, u, x) /\ c.qty \in Nat
  BY DEF Peels
<1>1. \A r \in Facing(u, d) : Ahead(q, r, y) = Ahead(u, r, y)
  <2>1. \A r \in Facing(u, d) : r \in Resting(u) /\ r.side = Opposite(d.side)
    BY <1>0, FacingOrders
  <2> QED BY <1>0, <2>1 DEF Lacks
<1>2. Facing(u, d) = Facing(q, c) \ {x} /\ x \in Facing(q, c) /\ Ahead(q, x, y)
  BY <1>0, PeelFields DEF First
<1>3. S = T \cup {x} /\ x \notin T
  BY <1>1, <1>2
<1>4. T \in SUBSET Order /\ IsFiniteSet(T)
  BY <1>0, FacingOrders, FS_Subset
<1>5. /\ d.qty = c.qty - Offer(c, x) /\ Offer(c, x) \in Nat /\ x \in Order
      /\ Offered(d, T) = Offered(c, T) /\ Offer(d, y) = Offer(c, y)
  BY PeelFields
<1> HIDE DEF S, T
<1>6. Offered(c, S) = Offered(c, T) + Offer(c, x) /\ Offered(c, T) \in Nat
  BY <1>3, <1>4, <1>5, OfferedSum
<1>7. Wants(q, c, y) = Maximum(0, c.qty - Offered(c, S))
      /\ Wants(u, d, y) = Maximum(0, d.qty - Offered(d, T))
  BY DEF Wants, S, T
<1>8. c.qty - Offered(c, S) = d.qty - Offered(d, T)
  BY <1>0, <1>5, <1>6
<1>9. Wants(q, c, y) = Wants(u, d, y)
  BY <1>7, <1>8
<1> QED BY <1>5, <1>9 DEF Take

(* The first order is cancelled if it is of the same agent, else used up. *)
LEMMA PeelFirst ==
  ASSUME NEW q, NEW c, NEW x, NEW u, NEW d, Peels(q, c, x, u, d)
  PROVE  /\ Wants(q, c, x) = c.qty /\ c.qty > 0
         /\ Take(q, c, x) = Offer(c, x)
         /\ x.agent = c.agent => Hit(q, c) = Hit(u, d) /\ Own(q, c) = Own(u, d) \cup {x}
         /\ x.agent # c.agent => Hit(q, c) = Hit(u, d) \cup {x} /\ Own(q, c) = Own(u, d)
         /\ x \notin Hit(u, d) /\ x \notin Own(u, d)
<1>1. Wants(q, c, x) = c.qty /\ c.qty > 0 /\ c.qty \in Nat
  BY FirstWants DEF Peels
<1>2. Take(q, c, x) = Offer(c, x)
  BY <1>1, PeelFields DEF Take, Minimum, Peels
<1>3. /\ x.agent = c.agent => Take(q, c, x) = 0
      /\ x.agent # c.agent => Take(q, c, x) > 0
  BY <1>2, OfferNat, PeelFields DEF Offer
<1>4. Facing(u, d) = Facing(q, c) \ {x} /\ x \in Facing(q, c) /\ d.agent = c.agent
  BY PeelFields DEF Peels, First
<1>5. \A y \in Facing(u, d) : Wants(q, c, y) = Wants(u, d, y) /\ Take(q, c, y) = Take(u, d, y)
  BY PeelWants
<1>6. /\ Hit(q, c) = Hit(u, d) \cup (IF x.agent = c.agent THEN {} ELSE {x})
      /\ Own(q, c) = Own(u, d) \cup (IF x.agent = c.agent THEN {x} ELSE {})
  BY <1>1, <1>3, <1>4, <1>5 DEF Hit, Own
<1> QED BY <1>1, <1>2, <1>4, <1>6 DEF Hit, Own

(* Orders picked from what c faces come in the same sequence, x first.     *)
RankedAfter(q, u, x, S) ==
  /\ Ranked(q, S) = Ranked(u, S)
  /\ Ranked(q, S \cup {x}) = <<x>> \o Ranked(u, S)

LEMMA PeelRanked ==
  ASSUME NEW q, NEW c, NEW x, NEW u, NEW d, Peels(q, c, x, u, d),
         NEW S, S \subseteq Facing(u, d)
  PROVE  RankedAfter(q, u, x, S)
<1>0. WellFormed(q) /\ WellFormed(u) /\ First(q, c, x) /\ Lacks(q, u, x)
  BY DEF Peels
<1>1. \A o, r \in S : Ahead(q, o, r) = Ahead(u, o, r)
  <2>1. \A r \in Facing(u, d) : r \in Resting(u) /\ r.side = Opposite(d.side)
    BY <1>0, FacingOrders
  <2> QED BY <1>0, <2>1 DEF Lacks
<1>2. Ranked(q, S) = Ranked(u, S)
  BY <1>1, RankedSame
<1>3. Facing(u, d) = Facing(q, c) \ {x} /\ x \in Facing(q, c)
  BY <1>0, PeelFields DEF First
<1> DEFINE T == S \cup {x}
<1>4. T \ {x} = S /\ x \in T
  BY <1>3
<1>5. IsFiniteSet(T)
  <2>1. IsFiniteSet(Facing(q, c)) /\ T \subseteq Facing(q, c)
    BY <1>0, <1>3, FacingOrders
  <2> QED BY <2>1, FS_Subset
<1>6. ~Ahead(q, x, x)
  BY <1>0, <1>3, FacingOrders, AheadStrict
<1>7. \A y \in T \ {x} : Ahead(q, x, y) /\ ~Ahead(q, y, x)
  BY <1>0, <1>3, <1>4 DEF First
<1> HIDE DEF T
<1>8. Leads(q, T, x)
  BY <1>4, <1>5, <1>6, <1>7 DEF Leads
<1>9. StartsWith(q, T, x)
  BY ONLY <1>8, RankedFirst, Zenon
<1> QED BY <1>2, <1>4, <1>9 DEF T, StartsWith, RankedAfter

----------------------------------------------------------------------------
(* What c does to the first order, and what is left to do.                 *)

LEMMA EmptyRanked ==
  ASSUME NEW q
  PROVE  Ranked(q, {}) = <<>> /\ DOMAIN Ranked(q, {}) = {}
<1>1. Cardinality({}) = 0
  BY FS_EmptySet
<1> QED BY <1>1 DEF Ranked

LEMMA FacingSubset ==
  ASSUME NEW q, WellFormed(q), NEW c, NEW S, S \subseteq Facing(q, c)
  PROVE  /\ Enumerates(Ranked(q, S), Cardinality(S), S)
         /\ Ranked(q, S) \in Seq(S) /\ Len(Ranked(q, S)) = Cardinality(S)
         /\ DOMAIN Ranked(q, S) = 1 .. Cardinality(S)
         /\ IsFiniteSet(S)
<1>1. \A o, r \in S : o.side = r.side
  BY FacingOrders
<1>2. S \subseteq Resting(q)
  BY FacingOrders
<1>3. IsFiniteSet(S)
  BY FacingOrders, FS_Subset
<1> QED BY <1>1, <1>2, <1>3, RankedEnumerates

\* f of every element
Each(f, t) == [k \in DOMAIN t |-> f[t[k]]]

LEMMA EachCons ==
  ASSUME NEW S, NEW t \in Seq(S), NEW x, NEW f
  PROVE  Each(f, <<x>> \o t) = <<f[x]>> \o Each(f, t)
<1> DEFINE k == Len(t)
           a == <<x>> \o t
           e == Each(f, t)
<1>1. k \in Nat /\ DOMAIN t = 1 .. k
  OBVIOUS
<1>2. a \in Seq(S \cup {x}) /\ Len(a) = k + 1 /\ DOMAIN a = 1 .. k + 1
  BY <1>1
<1>3. \A i \in 1 .. k + 1 : a[i] = IF i = 1 THEN x ELSE t[i - 1]
  BY <1>1
<1> DEFINE V == {f[t[i]] : i \in 1 .. k}
<1>4. e \in Seq(V) /\ Len(e) = k /\ \A i \in 1 .. k : e[i] = f[t[i]]
  <2>1. e = [i \in 1 .. k |-> f[t[i]]]
    BY <1>1 DEF Each
  <2>2. e \in [1 .. k -> V]
    BY <2>1
  <2> HIDE DEF V, e, k
  <2> QED BY <1>1, <2>1, <2>2
<1> HIDE DEF e, V
<1>5. \A i \in 1 .. k + 1 : (<<f[x]>> \o e)[i] = IF i = 1 THEN f[x] ELSE e[i - 1]
  BY <1>1, <1>4
<1>6. <<f[x]>> \o e = [i \in 1 .. k + 1 |-> (<<f[x]>> \o e)[i]]
  <2>1. <<f[x]>> \o e \in Seq({f[x]} \cup V) /\ Len(<<f[x]>> \o e) = k + 1
    BY <1>1, <1>4
  <2> QED BY <2>1
<1> HIDE DEF a
<1>7. Each(f, a) = [i \in 1 .. k + 1 |-> f[a[i]]]
  BY <1>2 DEF Each
<1>8. \A i \in 1 .. k + 1 : f[a[i]] = (<<f[x]>> \o e)[i]
  <2> TAKE i \in 1 .. k + 1
  <2>1. CASE i = 1
    BY <1>3, <1>5, <2>1
  <2>2. CASE i # 1
    <3>1. i - 1 \in 1 .. k
      BY <1>1, <2>2
    <3> QED BY <1>3, <1>4, <1>5, <2>2, <3>1
  <2> QED BY <2>1, <2>2
<1>9. Each(f, a) = <<f[x]>> \o e
  BY ONLY <1>6, <1>7, <1>8
<1> QED BY <1>9 DEF a, e

FillOf(o, k) == [maker_id |-> o.id, maker |-> o.agent, px |-> o.px, qty |-> k,
                 maker_remaining |-> o.remaining - k]

\* the fill that leaves nothing of o
FullFill(o) == FillOf(o, o.remaining)

CancelOf(o) == [id |-> o.id, agent |-> o.agent, remaining |-> o.remaining]

LEMMA ReportsEach ==
  ASSUME NEW q, WellFormed(q), NEW c
  PROVE  /\ Fills(q, c) = Each([o \in Facing(q, c) |-> FillOf(o, Take(q, c, o))], Ranked(q, Hit(q, c)))
         /\ SelfTrades(q, c) = Each([o \in Facing(q, c) |-> CancelOf(o)], Ranked(q, Own(q, c)))
<1> DEFINE hit == Ranked(q, Hit(q, c))
           own == Ranked(q, Own(q, c))
<1>1. Hit(q, c) \subseteq Facing(q, c) /\ Own(q, c) \subseteq Facing(q, c)
  BY DEF Hit, Own
<1>2. hit \in Seq(Hit(q, c)) /\ own \in Seq(Own(q, c))
  BY <1>1, FacingSubset
<1> HIDE DEF hit, own
<1>3. /\ \A k \in DOMAIN hit : hit[k] \in Facing(q, c)
      /\ \A k \in DOMAIN own : own[k] \in Facing(q, c)
  <2>1. /\ \A k \in DOMAIN hit : hit[k] \in Hit(q, c)
        /\ \A k \in DOMAIN own : own[k] \in Own(q, c)
    BY <1>2
  <2> QED BY <1>1, <2>1
<1>4. Fills(q, c) = [k \in DOMAIN hit |-> FillOf(hit[k], Take(q, c, hit[k]))]
  BY DEF Fills, hit, FillOf
<1>5. SelfTrades(q, c) = [k \in DOMAIN own |-> CancelOf(own[k])]
  BY DEF SelfTrades, own, CancelOf
<1>6. Fills(q, c) = Each([o \in Facing(q, c) |-> FillOf(o, Take(q, c, o))], hit)
  BY <1>3, <1>4 DEF Each
<1>7. SelfTrades(q, c) = Each([o \in Facing(q, c) |-> CancelOf(o)], own)
  BY <1>3, <1>5 DEF Each
<1> QED BY <1>6, <1>7 DEF hit, own

\* functions that agree on a set agree on a sequence of its elements
LEMMA EachSame ==
  ASSUME NEW S, NEW t \in Seq(S), NEW f, NEW g, \A x \in S : f[x] = g[x]
  PROVE  Each(f, t) = Each(g, t)
<1>1. \A k \in DOMAIN t : t[k] \in S
  OBVIOUS
<1> QED BY <1>1 DEF Each

\* what was reported, done, followed by what the rest will report, gives all
Continues(all, done, rest) == all = done \o rest

\* matching c with q reports the cancel of x, and then what d with u does
ReportsCancel(q, c, x, u, d) ==
  /\ Fills(q, c) = Fills(u, d)
  /\ Continues(SelfTrades(q, c), <<CancelOf(x)>>, SelfTrades(u, d))

\* matching c with q reports that x is used up, and then what d with u does
ReportsFill(q, c, x, u, d) ==
  /\ Continues(Fills(q, c), <<FullFill(x)>>, Fills(u, d))
  /\ SelfTrades(q, c) = SelfTrades(u, d)

(* The reports of the whole match are that of the first order, then those  *)
(* of the rest.                                                            *)
LEMMA PeelReports ==
  ASSUME NEW q, NEW c, NEW x, NEW u, NEW d, Peels(q, c, x, u, d)
  PROVE  /\ x.agent = c.agent => ReportsCancel(q, c, x, u, d)
         /\ x.agent # c.agent => ReportsFill(q, c, x, u, d)
<1> DEFINE F == [o \in Facing(q, c) |-> FillOf(o, Take(q, c, o))]
           G == [o \in Facing(u, d) |-> FillOf(o, Take(u, d, o))]
           C == [o \in Facing(q, c) |-> CancelOf(o)]
           D == [o \in Facing(u, d) |-> CancelOf(o)]
<1>0. WellFormed(q) /\ WellFormed(u)
  BY DEF Peels
<1>1. Facing(u, d) = Facing(q, c) \ {x} /\ x \in Facing(q, c)
  BY PeelFields DEF Peels, First
<1>2. \A o \in Facing(u, d) : F[o] = G[o] /\ C[o] = D[o]
  BY <1>1, PeelWants
<1>3. F[x] = FillOf(x, Take(q, c, x)) /\ C[x] = CancelOf(x)
  BY <1>1
<1>4. Hit(u, d) \subseteq Facing(u, d) /\ Own(u, d) \subseteq Facing(u, d)
  BY DEF Hit, Own
<1>5. Ranked(u, Hit(u, d)) \in Seq(Hit(u, d)) /\ Ranked(u, Own(u, d)) \in Seq(Own(u, d))
  BY <1>0, <1>4, FacingSubset
<1>6. /\ Fills(q, c) = Each(F, Ranked(q, Hit(q, c)))
      /\ Fills(u, d) = Each(G, Ranked(u, Hit(u, d)))
      /\ SelfTrades(q, c) = Each(C, Ranked(q, Own(q, c)))
      /\ SelfTrades(u, d) = Each(D, Ranked(u, Own(u, d)))
  BY <1>0, ReportsEach
<1> HIDE DEF F, G, C, D
<1>7. Each(F, Ranked(u, Hit(u, d))) = Fills(u, d)
  <2>1. \A o \in Hit(u, d) : F[o] = G[o]
    BY <1>2, <1>4
  <2> QED BY <1>5, <1>6, <2>1, EachSame
<1>8. Each(C, Ranked(u, Own(u, d))) = SelfTrades(u, d)
  <2>1. \A o \in Own(u, d) : C[o] = D[o]
    BY <1>2, <1>4
  <2> QED BY <1>5, <1>6, <2>1, EachSame
<1>9. /\ Ranked(q, Hit(u, d)) = Ranked(u, Hit(u, d))
      /\ Ranked(q, Own(u, d)) = Ranked(u, Own(u, d))
      /\ Ranked(q, Hit(u, d) \cup {x}) = <<x>> \o Ranked(u, Hit(u, d))
      /\ Ranked(q, Own(u, d) \cup {x}) = <<x>> \o Ranked(u, Own(u, d))
  <2>1. RankedAfter(q, u, x, Hit(u, d)) /\ RankedAfter(q, u, x, Own(u, d))
    BY <1>4, PeelRanked, Zenon
  <2> QED BY <2>1 DEF RankedAfter
<1>10. Each(F, <<x>> \o Ranked(u, Hit(u, d))) = <<F[x]>> \o Each(F, Ranked(u, Hit(u, d)))
  BY <1>5, EachCons
<1>11. Each(C, <<x>> \o Ranked(u, Own(u, d))) = <<C[x]>> \o Each(C, Ranked(u, Own(u, d)))
  BY <1>5, EachCons
<1>12. CASE x.agent = c.agent
  <2>1. Hit(q, c) = Hit(u, d) /\ Own(q, c) = Own(u, d) \cup {x}
    BY <1>12, PeelFirst
  <2>2. Fills(q, c) = Fills(u, d)
    BY <1>6, <1>7, <1>9, <2>1
  <2>3. SelfTrades(q, c) = <<CancelOf(x)>> \o SelfTrades(u, d)
    BY <1>3, <1>6, <1>8, <1>9, <1>11, <2>1
  <2> QED BY <1>12, <2>2, <2>3 DEF Continues, ReportsCancel
<1>13. CASE x.agent # c.agent
  <2>1. Hit(q, c) = Hit(u, d) \cup {x} /\ Own(q, c) = Own(u, d) /\ Take(q, c, x) = x.remaining
    BY <1>13, PeelFirst DEF Offer
  <2>2. Fills(q, c) = <<FullFill(x)>> \o Fills(u, d)
    BY <1>3, <1>6, <1>7, <1>9, <1>10, <2>1 DEF FullFill
  <2>3. SelfTrades(q, c) = SelfTrades(u, d)
    BY <1>6, <1>8, <1>9, <2>1
  <2> QED BY <1>13, <2>2, <2>3 DEF Continues, ReportsFill
<1> QED BY <1>12, <1>13

(* What is filled is a sum of natural numbers. *)
LEMMA FilledSum ==
  ASSUME NEW q, WellFormed(q), NEW c, c.qty \in Nat
  PROVE  /\ Filled(q, c) = SumFunctionOnSet([o \in Facing(q, c) |-> Take(q, c, o)], Facing(q, c))
         /\ Filled(q, c) \in Nat
<1> DEFINE f == [o \in Facing(q, c) |-> Take(q, c, o)]
<1>1. Filled(q, c) = SumFunctionOnSet(f, Facing(q, c))
  BY SumOn DEF Filled
<1>2. \A o \in Facing(q, c) : o \in Order
  BY FacingOrders
<1>3. \A o \in Facing(q, c) : f[o] \in Nat
  BY <1>2, WantsTake
<1>4. IsFiniteSet(Facing(q, c))
  BY FacingOrders
<1> HIDE DEF f
<1>5. SumFunctionOnSet(f, Facing(q, c)) \in Nat
  BY <1>3, <1>4, SumNat
<1> QED BY <1>1, <1>5 DEF f

(* What is filled is what the first order gives and what the rest gives. *)
LEMMA PeelFilled ==
  ASSUME NEW q, NEW c, NEW x, NEW u, NEW d, Peels(q, c, x, u, d)
  PROVE  /\ Filled(q, c) = Filled(u, d) + Offer(c, x)
         /\ Filled(u, d) \in Nat /\ Offer(c, x) \in Nat
         /\ Remainder(q, c) = Remainder(u, d)
<1> DEFINE f == [o \in Facing(q, c) |-> Take(q, c, o)]
           g == [o \in Facing(u, d) |-> Take(u, d, o)]
<1>0. WellFormed(q) /\ WellFormed(u) /\ c.qty \in Nat /\ d.qty \in Nat
  BY PeelFields DEF Peels
<1>1. Facing(u, d) = Facing(q, c) \ {x} /\ x \in Facing(q, c)
  BY PeelFields DEF Peels, First
<1>2. Facing(q, c) = Facing(u, d) \cup {x} /\ x \notin Facing(u, d)
  BY <1>1
<1>3. /\ Filled(q, c) = SumFunctionOnSet(f, Facing(q, c))
      /\ Filled(u, d) = SumFunctionOnSet(g, Facing(u, d))
      /\ Filled(u, d) \in Nat
  BY <1>0, FilledSum
<1>4. f[x] = Offer(c, x) /\ Offer(c, x) \in Nat
  BY <1>1, PeelFields, PeelFirst
<1>5. \A o \in Facing(u, d) : f[o] = g[o] /\ f[o] \in Nat
  <2> TAKE o \in Facing(u, d)
  <2>1. o \in Order
    BY <1>0, FacingOrders
  <2>2. Take(u, d, o) \in Nat
    BY <1>0, <2>1, WantsTake
  <2> QED BY <1>1, <2>2, PeelWants
<1>6. IsFiniteSet(Facing(u, d))
  BY <1>0, FacingOrders
<1> HIDE DEF f, g
<1>7. SumFunctionOnSet(f, Facing(u, d)) = SumFunctionOnSet(g, Facing(u, d))
  BY <1>5, <1>6, SumSame
<1>8. SumFunctionOnSet(f, Facing(q, c)) = SumFunctionOnSet(f, Facing(u, d)) + f[x]
  <2>1. f[x] \in Int /\ \A o \in Facing(u, d) : f[o] \in Int
    BY <1>4, <1>5
  <2> QED BY <1>2, <1>6, <2>1, SumAdd
<1>9. Filled(q, c) = Filled(u, d) + Offer(c, x)
  BY <1>3, <1>4, <1>7, <1>8
<1>10. d.qty = c.qty - Offer(c, x) /\ d.tif = c.tif
  BY PeelFields
<1>11. Remainder(q, c) = Remainder(u, d)
  BY <1>0, <1>3, <1>4, <1>9, <1>10 DEF Remainder
<1> QED BY <1>3, <1>4, <1>9, <1>11

\* the orders c takes all of, or cancels
Gone(q, c) == Own(q, c) \cup {o \in Hit(q, c) : Take(q, c, o) = o.remaining}

\* what is left of an order that stays
Served(q, c, o) == IF o \in Hit(q, c) THEN [o EXCEPT !.remaining = @ - Take(q, c, o)] ELSE o

LEMMA KeptLevels ==
  ASSUME NEW q, NEW c
  PROVE  Kept(q, c) = [s \in Side |-> [p \in Prices |->
           [k \in DOMAIN Ranked(q, ToSet(q[s][p]) \ Gone(q, c)) |->
              Served(q, c, Ranked(q, ToSet(q[s][p]) \ Gone(q, c))[k])]]]
  BY DEF Kept, Gone, Served

LEMMA LevelSubset ==
  ASSUME NEW q, WellFormed(q), NEW s \in Side, NEW p \in Prices,
         NEW S, S \subseteq ToSet(q[s][p])
  PROVE  /\ Ranked(q, S) \in Seq(S) /\ IsFiniteSet(S)
         /\ DOMAIN Ranked(q, S) = 1 .. Len(Ranked(q, S))
         /\ \A k \in DOMAIN Ranked(q, S) : Ranked(q, S)[k] \in S
<1>1. IsFiniteSet(S)
  <2>1. Enumerates(q[s][p], Len(q[s][p]), ToSet(q[s][p]))
    BY LevelRanked
  <2>2. IsFiniteSet(ToSet(q[s][p]))
    BY <2>1, EnumerationCounts
  <2> QED BY <2>2, FS_Subset
<1>2. S \subseteq Resting(q) /\ \A o, r \in S : o.side = r.side
  BY LevelOrders
<1>3. Ranked(q, S) \in Seq(S)
  BY <1>1, <1>2, RankedEnumerates
<1> QED BY <1>1, <1>3

(* What the match keeps of the queues, it keeps of the queues without the  *)
(* first order.                                                            *)
LEMMA PeelKept ==
  ASSUME NEW q, NEW c, NEW x, NEW u, NEW d, Peels(q, c, x, u, d)
  PROVE  Kept(q, c) = Kept(u, d)
<1>0. WellFormed(q) /\ WellFormed(u) /\ Lacks(q, u, x)
  BY DEF Peels
<1>1. Facing(u, d) = Facing(q, c) \ {x} /\ x \in Facing(q, c)
  BY PeelFields DEF Peels, First
<1>2. \A o \in Facing(u, d) : Take(q, c, o) = Take(u, d, o)
  BY PeelWants
<1>3. \A o : o # x => (o \in Hit(q, c) <=> o \in Hit(u, d)) /\ (o \in Own(q, c) <=> o \in Own(u, d))
  BY PeelFirst
<1>4. x \in Gone(q, c)
  <2>1. CASE x.agent = c.agent
    BY <2>1, PeelFirst DEF Gone
  <2>2. CASE x.agent # c.agent
    BY <2>2, PeelFirst DEF Gone, Offer
  <2> QED BY <2>1, <2>2
<1>5. \A o \in Hit(u, d) : o \in Facing(u, d)
  BY DEF Hit
<1>6. \A o : o # x => (o \in Gone(q, c) <=> o \in Gone(u, d)) /\ Served(q, c, o) = Served(u, d, o)
  BY <1>2, <1>3, <1>5 DEF Gone, Served
<1>7. ASSUME NEW s \in Side, NEW p \in Prices
      PROVE  [k \in DOMAIN Ranked(q, ToSet(q[s][p]) \ Gone(q, c)) |->
                Served(q, c, Ranked(q, ToSet(q[s][p]) \ Gone(q, c))[k])]
             = [k \in DOMAIN Ranked(u, ToSet(u[s][p]) \ Gone(u, d)) |->
                Served(u, d, Ranked(u, ToSet(u[s][p]) \ Gone(u, d))[k])]
  <2> DEFINE S == ToSet(u[s][p]) \ Gone(u, d)
  <2>1. ToSet(u[s][p]) = ToSet(q[s][p]) \ {x}
    BY <1>0 DEF Lacks
  <2>2. ToSet(q[s][p]) \ Gone(q, c) = S /\ x \notin S
    BY <1>4, <1>6, <2>1
  <2>3. \A o \in S : o \in Resting(u) /\ o.side = s
    BY <1>0, LevelOrders
  <2>4. \A o, r \in S : Ahead(q, o, r) = Ahead(u, o, r)
    BY <1>0, <2>3 DEF Lacks
  <2>5. Ranked(q, S) = Ranked(u, S)
    <3> HIDE DEF S
    <3> QED BY <2>4, RankedSame
  <2>6. \A k \in DOMAIN Ranked(u, S) : Ranked(u, S)[k] \in S
    <3>1. S \subseteq ToSet(u[s][p])
      OBVIOUS
    <3> HIDE DEF S
    <3> QED BY <1>0, <3>1, LevelSubset
  <2> HIDE DEF S
  <2>7. \A k \in DOMAIN Ranked(u, S) : Served(q, c, Ranked(u, S)[k]) = Served(u, d, Ranked(u, S)[k])
    BY <1>6, <2>2, <2>6
  <2>8. [k \in DOMAIN Ranked(q, S) |-> Served(q, c, Ranked(q, S)[k])]
        = [k \in DOMAIN Ranked(u, S) |-> Served(u, d, Ranked(u, S)[k])]
    BY <2>5, <2>7
  <2> QED BY <2>2, <2>8 DEF S
<1> QED BY <1>7, KeptLevels, Zenon

(* The whole match leaves the queues that the smaller match leaves. *)
LEMMA PeelMatch ==
  ASSUME NEW q, NEW c, NEW x, NEW u, NEW d, Peels(q, c, x, u, d)
  PROVE  Match(q, c).queue = Match(u, d).queue
<1>1. Kept(q, c) = Kept(u, d)
  BY PeelKept
<1>2. Remainder(q, c) = Remainder(u, d)
  BY PeelFilled
<1>3. d.side = c.side /\ d.px = c.px /\ d.tif = c.tif /\ d.agent = c.agent /\ d.id = c.id
  BY PeelFields
<1> QED BY <1>1, <1>2, <1>3 DEF Match

----------------------------------------------------------------------------
(* The two ways a match ends: the first order is more than what is wanted, *)
(* or nothing is wanted or faced.                                          *)

LEMMA NothingGone ==
  ASSUME NEW q, WellFormed(q), NEW c, Gone(q, c) = {}
  PROVE  Kept(q, c) = [s \in Side |-> [p \in Prices |->
                         [k \in DOMAIN q[s][p] |-> Served(q, c, q[s][p][k])]]]
<1>1. \A s \in Side, p \in Prices :
        Ranked(q, ToSet(q[s][p]) \ Gone(q, c)) = q[s][p]
  <2> TAKE s \in Side, p \in Prices
  <2>1. ToSet(q[s][p]) \ Gone(q, c) = ToSet(q[s][p])
    OBVIOUS
  <2>2. Ranked(q, ToSet(q[s][p])) = q[s][p]
    BY LevelRanked
  <2> QED BY <2>1, <2>2
<1>2. \A s \in Side, p \in Prices :
        [k \in DOMAIN Ranked(q, ToSet(q[s][p]) \ Gone(q, c)) |->
           Served(q, c, Ranked(q, ToSet(q[s][p]) \ Gone(q, c))[k])]
        = [k \in DOMAIN q[s][p] |-> Served(q, c, q[s][p][k])]
  BY <1>1
<1> QED BY <1>2, KeptLevels, Zenon

(* When nothing is wanted, or nothing is faced, a match reports nothing    *)
(* and keeps all.                                                          *)
LEMMA NothingToDo ==
  ASSUME NEW q, WellFormed(q), NEW c, c.qty \in Nat, c.qty = 0 \/ Facing(q, c) = {}
  PROVE  /\ Fills(q, c) = <<>> /\ SelfTrades(q, c) = <<>> /\ Filled(q, c) = 0
         /\ Kept(q, c) = q
<1>1. \A o \in Facing(q, c) : o \in Order
  BY FacingOrders
<1>2. ASSUME NEW o \in Facing(q, c)
      PROVE  Wants(q, c, o) = 0 /\ Take(q, c, o) = 0
  <2>1. /\ Wants(q, c, o) \in Nat /\ Wants(q, c, o) <= c.qty
        /\ Take(q, c, o) \in Nat /\ Take(q, c, o) <= Wants(q, c, o)
    BY <1>1, WantsTake
  <2>2. c.qty = 0
    OBVIOUS
  <2> QED BY <2>1, <2>2
<1>3. Hit(q, c) = {} /\ Own(q, c) = {}
  BY <1>2 DEF Hit, Own
<1>4. Fills(q, c) = <<>> /\ SelfTrades(q, c) = <<>>
  <2>1. Ranked(q, {}) = <<>> /\ DOMAIN Ranked(q, {}) = {}
    BY EmptyRanked
  <2> QED BY <1>3, <2>1 DEF Fills, SelfTrades
<1>5. Filled(q, c) = 0
  <2> DEFINE f == [o \in Facing(q, c) |-> Take(q, c, o)]
  <2>1. \A o \in Facing(q, c) : f[o] = 0
    BY <1>2
  <2>2. IsFiniteSet(Facing(q, c)) /\ Filled(q, c) = SumFunctionOnSet(f, Facing(q, c))
    BY FacingOrders, FilledSum
  <2> HIDE DEF f
  <2>3. SumFunctionOnSet(f, Facing(q, c)) = 0
    BY <2>1, <2>2, SumZero
  <2> QED BY <2>2, <2>3
<1>6. Kept(q, c) = q
  <2>1. Gone(q, c) = {} /\ \A o : Served(q, c, o) = o
    BY <1>3 DEF Gone, Served
  <2>2. Kept(q, c) = [s \in Side |-> [p \in Prices |-> [k \in DOMAIN q[s][p] |-> q[s][p][k]]]]
    BY <2>1, NothingGone
  <2>3. \A s \in Side, p \in Prices : [k \in DOMAIN q[s][p] |-> q[s][p][k]] = q[s][p]
    <3> TAKE s \in Side, p \in Prices
    <3>1. q[s][p] \in Seq(Order)
      BY LevelSeq
    <3> QED BY <3>1
  <2>4. q = [s \in Side |-> [p \in Prices |-> q[s][p]]]
    BY DEF WellFormed
  <2> QED BY <2>2, <2>3, <2>4
<1> QED BY <1>4, <1>5, <1>6

\* q with k less of the order x
Trim(x, k) == [x EXCEPT !.remaining = @ - k]

Trimmed(q, x, k) ==
  [s \in Side |-> [p \in Prices |->
     [i \in DOMAIN q[s][p] |-> IF q[s][p][i] = x THEN Trim(x, k) ELSE q[s][p][i]]]]

\* the first order offers more than c wants
Exhausts(q, c, x) ==
  /\ WellFormed(q) /\ c.qty \in Nat \ {0} /\ First(q, c, x) /\ Offer(c, x) > c.qty

LEMMA ExhaustTakes ==
  ASSUME NEW q, NEW c, NEW x, Exhausts(q, c, x)
  PROVE  /\ Hit(q, c) = {x} /\ Own(q, c) = {}
         /\ Take(q, c, x) = c.qty /\ c.qty < x.remaining /\ x.agent # c.agent
         /\ \A o \in Facing(q, c) \ {x} : Take(q, c, o) = 0
<1>0. /\ WellFormed(q) /\ c.qty \in Nat /\ c.qty > 0 /\ First(q, c, x) /\ Offer(c, x) > c.qty
      /\ x \in Facing(q, c)
  BY DEF Exhausts, First
<1>1. \A o \in Facing(q, c) : o \in Order
  BY <1>0, FacingOrders
<1>2. x.agent # c.agent /\ Offer(c, x) = x.remaining /\ x.remaining \in Nat
  BY <1>0, <1>1 DEF Offer, Order
<1>3. Wants(q, c, x) = c.qty
  BY <1>0, FirstWants
<1>4. Take(q, c, x) = c.qty
  BY <1>0, <1>2, <1>3 DEF Take, Minimum
<1>5. ASSUME NEW o \in Facing(q, c) \ {x}
      PROVE  Wants(q, c, o) = 0 /\ Take(q, c, o) = 0
  <2> DEFINE S == {r \in Facing(q, c) : Ahead(q, r, o)}
             T == S \ {x}
  <2>1. x \in S
    BY <1>0 DEF First
  <2>2. T \in SUBSET Order /\ x \notin T /\ x \in Order
    BY <1>0, <1>1
  <2>3. IsFiniteSet(T)
    <3>1. IsFiniteSet(Facing(q, c)) /\ T \in SUBSET Facing(q, c)
      BY <1>0, FacingOrders
    <3> QED BY <3>1, FS_Subset
  <2>4. S = T \cup {x}
    BY <2>1
  <2> HIDE DEF T, S
  <2>5. Offered(c, T) \in Nat /\ Offered(c, T \cup {x}) = Offered(c, T) + Offer(c, x)
    BY <2>2, <2>3, OfferedSum
  <2>6. Wants(q, c, o) = Maximum(0, c.qty - Offered(c, S))
    BY DEF Wants, S
  <2>7. Wants(q, c, o) = 0
    BY <1>0, <1>2, <2>4, <2>5, <2>6 DEF Maximum
  <2>8. Take(q, c, o) \in Nat /\ Take(q, c, o) <= Wants(q, c, o)
    BY <1>0, <1>1, WantsTake
  <2> QED BY <2>7, <2>8
<1>6. Hit(q, c) = {x}
  BY <1>0, <1>4, <1>5 DEF Hit
<1>7. Own(q, c) = {}
  BY <1>2, <1>5 DEF Own
<1> QED BY <1>0, <1>2, <1>4, <1>5, <1>6, <1>7

LEMMA SingleRanked ==
  ASSUME NEW q, NEW x, ~Ahead(q, x, x)
  PROVE  Ranked(q, {x}) = <<x>>
<1>1. <<x>> \in Seq({x}) /\ Len(<<x>>) = 1 /\ <<x>>[1] = x
  OBVIOUS
<1>2. Enumerates(<<x>>, 1, {x}) /\ Increasing(q, <<x>>, 1)
  <2>1. \A i \in 1 .. 1 : i = 1
    OBVIOUS
  <2> QED BY <1>1, <2>1 DEF Enumerates, Increasing
<1>3. \A y \in {x} : ~Ahead(q, y, y)
  OBVIOUS
<1> DEFINE t == <<x>>
           S == {x}
<1>4. t \in Seq(S) /\ Enumerates(t, Len(t), S) /\ Increasing(q, t, Len(t)) /\ \A y \in S : ~Ahead(q, y, y)
  BY <1>1, <1>2, <1>3
<1> HIDE DEF t, S
<1>5. Ranked(q, S) = t
  BY <1>4, RankedIs
<1> QED BY <1>5 DEF t, S

(* An order that is more than what is wanted ends the match, with one      *)
(* fill.                                                                   *)
LEMMA Exhausted ==
  ASSUME NEW q, NEW c, NEW x, Exhausts(q, c, x)
  PROVE  /\ Fills(q, c) = <<FillOf(x, c.qty)>> /\ SelfTrades(q, c) = <<>>
         /\ Filled(q, c) = c.qty
         /\ Kept(q, c) = Trimmed(q, x, c.qty)
<1>0. WellFormed(q) /\ c.qty \in Nat /\ c.qty > 0 /\ x \in Facing(q, c)
  BY DEF Exhausts, First
<1>1. /\ Hit(q, c) = {x} /\ Own(q, c) = {}
      /\ Take(q, c, x) = c.qty /\ c.qty < x.remaining
      /\ \A o \in Facing(q, c) \ {x} : Take(q, c, o) = 0
  BY ExhaustTakes
<1>2. Ranked(q, {x}) = <<x>>
  <2>1. ~Ahead(q, x, x)
    BY <1>0, FacingOrders, AheadStrict
  <2> QED BY <2>1, SingleRanked
<1>3. Fills(q, c) = <<FillOf(x, c.qty)>>
  <2>1. Fills(q, c) = [k \in DOMAIN <<x>> |-> FillOf(<<x>>[k], Take(q, c, <<x>>[k]))]
    BY <1>1, <1>2 DEF Fills, FillOf
  <2>2. \A k \in 1 .. 1 : <<x>>[k] = x
    OBVIOUS
  <2>3. Fills(q, c) = [k \in 1 .. 1 |-> FillOf(x, c.qty)]
    BY <1>1, <2>1, <2>2
  <2>4. <<FillOf(x, c.qty)>> = [k \in 1 .. 1 |-> FillOf(x, c.qty)]
    OBVIOUS
  <2> QED BY <2>3, <2>4
<1>4. SelfTrades(q, c) = <<>>
  <2>1. Ranked(q, {}) = <<>> /\ DOMAIN Ranked(q, {}) = {}
    BY EmptyRanked
  <2> QED BY <1>1, <2>1 DEF SelfTrades
<1>5. Filled(q, c) = c.qty
  <2> DEFINE f == [o \in Facing(q, c) |-> Take(q, c, o)]
             T == Facing(q, c) \ {x}
  <2>1. f[x] = c.qty /\ (\A o \in T : f[o] = 0) /\ \A o \in Facing(q, c) : f[o] \in Int
    BY <1>0, <1>1
  <2>2. IsFiniteSet(Facing(q, c)) /\ Filled(q, c) = SumFunctionOnSet(f, Facing(q, c))
    BY <1>0, FacingOrders, FilledSum
  <2>3. IsFiniteSet(T)
    BY <2>2, FS_Subset
  <2> HIDE DEF f
  <2>4. SumFunctionOnSet(f, Facing(q, c)) = f[x] + SumFunctionOnSet(f, T)
    BY <1>0, <2>1, <2>2, SumRemove
  <2> HIDE DEF T
  <2>5. SumFunctionOnSet(f, T) = 0
    BY <2>1, <2>3, SumZero
  <2> QED BY <1>0, <2>1, <2>2, <2>4, <2>5
<1>6. Kept(q, c) = Trimmed(q, x, c.qty)
  <2>1. Gone(q, c) = {}
    BY <1>0, <1>1 DEF Gone
  <2>2. \A o : Served(q, c, o) = IF o = x THEN Trim(x, c.qty) ELSE o
    BY <1>1 DEF Served, Trim
  <2>3. Kept(q, c) = [s \in Side |-> [p \in Prices |->
                         [k \in DOMAIN q[s][p] |-> Served(q, c, q[s][p][k])]]]
    BY <1>0, <2>1, NothingGone
  <2> QED BY <2>2, <2>3 DEF Trimmed
<1> QED BY <1>3, <1>4, <1>5, <1>6

=============================================================================
