-------------------------- MODULE Exchange_proofs --------------------------
(***************************************************************************)
(* Proofs about Exchange, for every set of agents and prices, all fees and *)
(* queue sizes and any number of commands: shares and cash only change     *)
(* hands, an agent that has lost no event keeps the books the engine keeps *)
(* for it, and what it was told of its orders is exactly what rests.       *)
(*                                                                         *)
(* The argument follows the reports of one order, entry by entry.  What an *)
(* agent has after hearing a sequence of entries is a fold of Learn, so it *)
(* is enough to say what it has after each of them: after the cancels of   *)
(* self-trade prevention, after the ack, and, fill by fill, with the book  *)
(* as it would be had the match stopped there.  The engine's books are     *)
(* folded over the same fills.  That a fill leaves them and the agent's    *)
(* books alike is shown for one fill and carried along the fills by a      *)
(* least counterexample (the library's induction takes an operator, which  *)
(* the provers cannot instantiate).  The invariant ExchangeInv relates the *)
(* engine's books and the order book to what an agent will know when all   *)
(* that is on its way to it has arrived; pushing and polling then move     *)
(* entries without changing that, and a refused push excuses the agent.    *)
(***************************************************************************)
EXTENDS Exchange, Matching_proofs

----------------------------------------------------------------------------
(* Folds over a sequence: what they compute one element after the other.   *)

(* A finite set of numbers has a greatest member. *)
LEMMA GreatestIn ==
  ASSUME NEW t \in SUBSET Nat, IsFiniteSet(t), t # {}
  PROVE  Max(t) \in t /\ \A y \in t : Max(t) >= y
<1>1. \E m \in t : \A y \in t : m >= y
  <2> DEFINE B == {r \in SUBSET t : r # {} /\ ~\E m \in r : \A y \in r : m >= y}
  <2>1. SUFFICES ASSUME B # {} PROVE FALSE
    <3>1. t \in SUBSET t
      OBVIOUS
    <3> QED BY <2>1, <3>1
  <2>2. \A r \in B : IsFiniteSet(r)
    BY FS_Subset
  <2>3. PICK r \in B : \A i \in r : r \ {i} \notin B
    <3> HIDE DEF B
    <3> QED BY <2>1, <2>2, OneLess
  <2>4. PICK i \in r : TRUE
    BY <2>3
  <2>5. r \ {i} # {}
    BY <2>3, <2>4
  <2>6. PICK m \in r \ {i} : \A y \in r \ {i} : m >= y
    BY <2>3, <2>4, <2>5
  <2>7. i \in Nat /\ m \in Nat /\ \A y \in r : y \in Nat
    BY <2>3, <2>4, <2>6
  <2>8. CASE i >= m
    BY <2>3, <2>4, <2>6, <2>7, <2>8
  <2>9. CASE m >= i
    BY <2>3, <2>4, <2>6, <2>7, <2>9
  <2> QED BY <2>7, <2>8, <2>9
<1> QED BY <1>1 DEF Max

LEMMA GreatestInterval ==
  ASSUME NEW n \in Nat, NEW k \in 1 .. n
  PROVE  Max(1 .. k) = k /\ (1 .. k) \ {k} = 1 .. (k - 1) /\ 1 .. k # {}
<1>1. (1 .. k) \in SUBSET Nat /\ IsFiniteSet(1 .. k) /\ k \in 1 .. k
  BY FS_Interval
<1>2. Max(1 .. k) \in 1 .. k /\ Max(1 .. k) >= k
  BY <1>1, GreatestIn
<1> QED BY <1>2

\* h runs through what agent a makes of the entries s, starting from x
IsStory(a, x, s, h) ==
  /\ h[0] = x
  /\ \A k \in 1 .. Len(s) : h[k] = Learn(a, h[k - 1], s[k])

\* the recursive function that the fold is the last value of
IsLearning(a, x, s, S, g) ==
  g = [t \in SUBSET S |-> IF t = {} THEN x ELSE Learn(a, g[t \ {Max(t)}], s[Max(t)])]

Learning(a, x, s, S) == CHOOSE g : IsLearning(a, x, s, S, g)

LEMMA HeardIs ==
  ASSUME NEW a, NEW x, NEW s
  PROVE  Heard(a, x, s) = Learning(a, x, s, DOMAIN s)[DOMAIN s]
  BY DEF Heard, FoldLeft, MapThenFoldSet, Learning, IsLearning

\* two such functions agree wherever both are defined
LEMMA LearningAgrees ==
  ASSUME NEW a, NEW x, NEW s, NEW S, NEW g, IsLearning(a, x, s, S, g),
         NEW T, NEW h, IsLearning(a, x, s, T, h),
         NEW r \in SUBSET Nat, r \subseteq S, r \subseteq T, IsFiniteSet(r)
  PROVE  g[r] = h[r]
<1> DEFINE B == {t \in SUBSET r : g[t] # h[t]}
<1>1. SUFFICES ASSUME B # {} PROVE FALSE
  <2>1. r \in SUBSET r
    OBVIOUS
  <2> QED BY <1>1, <2>1
<1>2. \A t \in B : IsFiniteSet(t)
  BY FS_Subset
<1>3. PICK t \in B : \A i \in t : t \ {i} \notin B
  <2> HIDE DEF B
  <2> QED BY <1>1, <1>2, OneLess
<1>4. t \in SUBSET r /\ t \in SUBSET S /\ t \in SUBSET T /\ g[t] # h[t]
  OBVIOUS
<1>5. /\ g[t] = IF t = {} THEN x ELSE Learn(a, g[t \ {Max(t)}], s[Max(t)])
      /\ h[t] = IF t = {} THEN x ELSE Learn(a, h[t \ {Max(t)}], s[Max(t)])
  BY <1>4 DEF IsLearning
<1>6. t # {} => g[t \ {Max(t)}] = h[t \ {Max(t)}]
  <2>1. ASSUME t # {} PROVE t \ {Max(t)} \notin B
    BY <1>2, <1>3, <2>1, GreatestIn
  <2> QED BY <1>4, <2>1
<1> QED BY <1>4, <1>5, <1>6

\* it exists: a smallest set without one would have one
LEMMA LearningExists ==
  ASSUME NEW a, NEW x, NEW s, NEW S \in SUBSET Nat, IsFiniteSet(S)
  PROVE  IsLearning(a, x, s, S, Learning(a, x, s, S))
<1> DEFINE R(t) == Learning(a, x, s, t)
           B == {t \in SUBSET S : ~IsLearning(a, x, s, t, R(t))}
<1>1. SUFFICES ASSUME B # {} PROVE FALSE
  <2>1. S \in SUBSET S
    OBVIOUS
  <2> QED BY <1>1, <2>1
<1>2. \A t \in B : IsFiniteSet(t) /\ t \in SUBSET Nat
  BY FS_Subset
<1>a. PICK q \in B : \A t \in B : t \subseteq q => t = q
  <2> HIDE DEF B
  <2> QED BY <1>1, <1>2, Smallest
<1>3. \A t \in SUBSET q : t # q => IsLearning(a, x, s, t, R(t))
  BY <1>a
<1>b. IsFiniteSet(q) /\ q \in SUBSET Nat /\ \A t \in SUBSET q : IsFiniteSet(t) /\ t \in SUBSET Nat
  BY <1>2, <1>a, FS_Subset
<1> HIDE DEF B
<1> DEFINE v(t) == IF t = {} THEN x ELSE Learn(a, R(t \ {Max(t)})[t \ {Max(t)}], s[Max(t)])
           g == [t \in SUBSET q |-> v(t)]
<1>4. ASSUME NEW r \in SUBSET q, r # q
      PROVE  R(r)[r] = v(r)
  <2> HIDE DEF R
  <2>1. R(r)[r] = IF r = {} THEN x ELSE Learn(a, R(r)[r \ {Max(r)}], s[Max(r)])
    <3>1. r \in SUBSET r
      OBVIOUS
    <3> QED BY <1>3, <1>4, <3>1 DEF IsLearning
  <2>2. ASSUME r # {}
        PROVE  R(r)[r \ {Max(r)}] = R(r \ {Max(r)})[r \ {Max(r)}]
    <3> DEFINE p == r \ {Max(r)}
    <3>1. p \in SUBSET q /\ p # q /\ p \subseteq r /\ p \subseteq p /\ IsFiniteSet(p) /\ p \in SUBSET Nat
      <4>1. Max(r) \in r
        BY <1>b, <2>2, GreatestIn
      <4> QED BY <1>b, <4>1
    <3>2. IsLearning(a, x, s, r, R(r)) /\ IsLearning(a, x, s, p, R(p))
      BY <1>3, <1>4, <3>1
    <3> HIDE DEF p
    <3>3. R(r)[p] = R(p)[p]
      BY <3>1, <3>2, LearningAgrees
    <3> QED BY <3>3 DEF p
  <2> QED BY <2>1, <2>2
<1>5. ASSUME NEW t \in SUBSET q
      PROVE  v(t) = IF t = {} THEN x ELSE Learn(a, g[t \ {Max(t)}], s[Max(t)])
  <2> HIDE DEF R
  <2>1. CASE t = {}
    BY <2>1
  <2>2. CASE t # {}
    <3> DEFINE p == t \ {Max(t)}
    <3>1. p \in SUBSET q /\ p # q
      BY <1>b, <2>2, GreatestIn
    <3>2. g[p] = v(p)
      BY <3>1
    <3>3. R(p)[p] = v(p)
      BY <1>4, <3>1
    <3>4. v(t) = Learn(a, R(p)[p], s[Max(t)])
      BY <2>2
    <3> HIDE DEF v, g
    <3> QED BY <2>2, <3>2, <3>3, <3>4
  <2> QED BY <2>1, <2>2
<1>6. g = [t \in SUBSET q |-> IF t = {} THEN x ELSE Learn(a, g[t \ {Max(t)}], s[Max(t)])]
  <2> HIDE DEF v
  <2> SUFFICES \A t \in SUBSET q : v(t) = IF t = {} THEN x ELSE Learn(a, g[t \ {Max(t)}], s[Max(t)])
    OBVIOUS
  <2> QED BY <1>5
<1>7. IsLearning(a, x, s, q, g)
  BY <1>6 DEF IsLearning
<1> HIDE DEF g
<1>8. IsLearning(a, x, s, q, R(q))
  BY <1>7 DEF Learning
<1> QED BY <1>a, <1>8 DEF B

\* the fold takes one element after the other
LEMMA HeardRuns ==
  ASSUME NEW a, NEW x, NEW s, Len(s) \in Nat, DOMAIN s = 1 .. Len(s)
  PROVE  \E h : IsStory(a, x, s, h) /\ Heard(a, x, s) = h[Len(s)]
<1> DEFINE n == Len(s)
           g == Learning(a, x, s, 1 .. n)
           h == [k \in 0 .. n |-> g[1 .. k]]
<1>1. (1 .. n) \in SUBSET Nat /\ IsFiniteSet(1 .. n)
  BY FS_Interval
<1>2. IsLearning(a, x, s, 1 .. n, g)
  BY <1>1, LearningExists
<1> HIDE DEF g
<1>3. h[0] = x
  BY <1>2 DEF IsLearning
<1>4. ASSUME NEW k \in 1 .. n
      PROVE  h[k] = Learn(a, h[k - 1], s[k])
  <2>1. Max(1 .. k) = k /\ (1 .. k) \ {k} = 1 .. (k - 1) /\ 1 .. k # {}
    BY GreatestInterval
  <2>2. 1 .. k \in SUBSET (1 .. n)
    OBVIOUS
  <2>3. g[1 .. k] = Learn(a, g[(1 .. k) \ {Max(1 .. k)}], s[Max(1 .. k)])
    <3> HIDE DEF n
    <3> QED BY <1>2, <2>1, <2>2 DEF IsLearning
  <2>4. h[k] = g[1 .. k] /\ h[k - 1] = g[1 .. (k - 1)]
    OBVIOUS
  <2> QED BY <2>1, <2>3, <2>4
<1>5. Heard(a, x, s) = h[n]
  BY HeardIs DEF g
<1> HIDE DEF h
<1>6. IsStory(a, x, s, h)
  BY <1>3, <1>4 DEF IsStory
<1> QED BY <1>5, <1>6

\* h runs through the engine's books while the fills s of the order c are settled
IsSettling(c, x, s, h) ==
  /\ h[0] = x
  /\ \A k \in 1 .. Len(s) : h[k] = Settle(h[k - 1], c, s[k])

\* the recursive function that the fold is the last value of
IsBooks(c, x, s, S, g) ==
  g = [t \in SUBSET S |-> IF t = {} THEN x ELSE Settle(g[t \ {Max(t)}], c, s[Max(t)])]

Books(c, x, s, S) == CHOOSE g : IsBooks(c, x, s, S, g)

LEMMA SettleAllIs ==
  ASSUME NEW c, NEW x, NEW s
  PROVE  SettleAll(x, c, s) = Books(c, x, s, DOMAIN s)[DOMAIN s]
  BY DEF SettleAll, FoldLeft, MapThenFoldSet, Books, IsBooks

\* two such functions agree wherever both are defined
LEMMA BooksAgrees ==
  ASSUME NEW c, NEW x, NEW s, NEW S, NEW g, IsBooks(c, x, s, S, g),
         NEW T, NEW h, IsBooks(c, x, s, T, h),
         NEW r \in SUBSET Nat, r \subseteq S, r \subseteq T, IsFiniteSet(r)
  PROVE  g[r] = h[r]
<1> DEFINE B == {t \in SUBSET r : g[t] # h[t]}
<1>1. SUFFICES ASSUME B # {} PROVE FALSE
  <2>1. r \in SUBSET r
    OBVIOUS
  <2> QED BY <1>1, <2>1
<1>2. \A t \in B : IsFiniteSet(t)
  BY FS_Subset
<1>3. PICK t \in B : \A i \in t : t \ {i} \notin B
  <2> HIDE DEF B
  <2> QED BY <1>1, <1>2, OneLess
<1>4. t \in SUBSET r /\ t \in SUBSET S /\ t \in SUBSET T /\ g[t] # h[t]
  OBVIOUS
<1>5. /\ g[t] = IF t = {} THEN x ELSE Settle(g[t \ {Max(t)}], c, s[Max(t)])
      /\ h[t] = IF t = {} THEN x ELSE Settle(h[t \ {Max(t)}], c, s[Max(t)])
  BY <1>4 DEF IsBooks
<1>6. t # {} => g[t \ {Max(t)}] = h[t \ {Max(t)}]
  <2>1. ASSUME t # {} PROVE t \ {Max(t)} \notin B
    BY <1>2, <1>3, <2>1, GreatestIn
  <2> QED BY <1>4, <2>1
<1> QED BY <1>4, <1>5, <1>6

\* it exists: a smallest set without one would have one
LEMMA BooksExists ==
  ASSUME NEW c, NEW x, NEW s, NEW S \in SUBSET Nat, IsFiniteSet(S)
  PROVE  IsBooks(c, x, s, S, Books(c, x, s, S))
<1> DEFINE R(t) == Books(c, x, s, t)
           B == {t \in SUBSET S : ~IsBooks(c, x, s, t, R(t))}
<1>1. SUFFICES ASSUME B # {} PROVE FALSE
  <2>1. S \in SUBSET S
    OBVIOUS
  <2> QED BY <1>1, <2>1
<1>2. \A t \in B : IsFiniteSet(t) /\ t \in SUBSET Nat
  BY FS_Subset
<1>a. PICK q \in B : \A t \in B : t \subseteq q => t = q
  <2> HIDE DEF B
  <2> QED BY <1>1, <1>2, Smallest
<1>3. \A t \in SUBSET q : t # q => IsBooks(c, x, s, t, R(t))
  BY <1>a
<1>b. IsFiniteSet(q) /\ q \in SUBSET Nat /\ \A t \in SUBSET q : IsFiniteSet(t) /\ t \in SUBSET Nat
  BY <1>2, <1>a, FS_Subset
<1> HIDE DEF B
<1> DEFINE v(t) == IF t = {} THEN x ELSE Settle(R(t \ {Max(t)})[t \ {Max(t)}], c, s[Max(t)])
           g == [t \in SUBSET q |-> v(t)]
<1>4. ASSUME NEW r \in SUBSET q, r # q
      PROVE  R(r)[r] = v(r)
  <2> HIDE DEF R
  <2>1. R(r)[r] = IF r = {} THEN x ELSE Settle(R(r)[r \ {Max(r)}], c, s[Max(r)])
    <3>1. r \in SUBSET r
      OBVIOUS
    <3> QED BY <1>3, <1>4, <3>1 DEF IsBooks
  <2>2. ASSUME r # {}
        PROVE  R(r)[r \ {Max(r)}] = R(r \ {Max(r)})[r \ {Max(r)}]
    <3> DEFINE p == r \ {Max(r)}
    <3>1. p \in SUBSET q /\ p # q /\ p \subseteq r /\ p \subseteq p /\ IsFiniteSet(p) /\ p \in SUBSET Nat
      <4>1. Max(r) \in r
        BY <1>b, <2>2, GreatestIn
      <4> QED BY <1>b, <4>1
    <3>2. IsBooks(c, x, s, r, R(r)) /\ IsBooks(c, x, s, p, R(p))
      BY <1>3, <1>4, <3>1
    <3> HIDE DEF p
    <3>3. R(r)[p] = R(p)[p]
      BY <3>1, <3>2, BooksAgrees
    <3> QED BY <3>3 DEF p
  <2> QED BY <2>1, <2>2
<1>5. ASSUME NEW t \in SUBSET q
      PROVE  v(t) = IF t = {} THEN x ELSE Settle(g[t \ {Max(t)}], c, s[Max(t)])
  <2> HIDE DEF R
  <2>1. CASE t = {}
    BY <2>1
  <2>2. CASE t # {}
    <3> DEFINE p == t \ {Max(t)}
    <3>1. p \in SUBSET q /\ p # q
      BY <1>b, <2>2, GreatestIn
    <3>2. g[p] = v(p)
      BY <3>1
    <3>3. R(p)[p] = v(p)
      BY <1>4, <3>1
    <3>4. v(t) = Settle(R(p)[p], c, s[Max(t)])
      BY <2>2
    <3> HIDE DEF v, g
    <3> QED BY <2>2, <3>2, <3>3, <3>4
  <2> QED BY <2>1, <2>2
<1>6. g = [t \in SUBSET q |-> IF t = {} THEN x ELSE Settle(g[t \ {Max(t)}], c, s[Max(t)])]
  <2> HIDE DEF v
  <2> SUFFICES \A t \in SUBSET q : v(t) = IF t = {} THEN x ELSE Settle(g[t \ {Max(t)}], c, s[Max(t)])
    OBVIOUS
  <2> QED BY <1>5
<1>7. IsBooks(c, x, s, q, g)
  BY <1>6 DEF IsBooks
<1> HIDE DEF g
<1>8. IsBooks(c, x, s, q, R(q))
  BY <1>7 DEF Books
<1> QED BY <1>a, <1>8 DEF B

\* the fold takes one element after the other
LEMMA SettleAllRuns ==
  ASSUME NEW c, NEW x, NEW s, Len(s) \in Nat, DOMAIN s = 1 .. Len(s)
  PROVE  \E h : IsSettling(c, x, s, h) /\ SettleAll(x, c, s) = h[Len(s)]
<1> DEFINE n == Len(s)
           g == Books(c, x, s, 1 .. n)
           h == [k \in 0 .. n |-> g[1 .. k]]
<1>1. (1 .. n) \in SUBSET Nat /\ IsFiniteSet(1 .. n)
  BY FS_Interval
<1>2. IsBooks(c, x, s, 1 .. n, g)
  BY <1>1, BooksExists
<1> HIDE DEF g
<1>3. h[0] = x
  BY <1>2 DEF IsBooks
<1>4. ASSUME NEW k \in 1 .. n
      PROVE  h[k] = Settle(h[k - 1], c, s[k])
  <2>1. Max(1 .. k) = k /\ (1 .. k) \ {k} = 1 .. (k - 1) /\ 1 .. k # {}
    BY GreatestInterval
  <2>2. 1 .. k \in SUBSET (1 .. n)
    OBVIOUS
  <2>3. g[1 .. k] = Settle(g[(1 .. k) \ {Max(1 .. k)}], c, s[Max(1 .. k)])
    <3> HIDE DEF n
    <3> QED BY <1>2, <2>1, <2>2 DEF IsBooks
  <2>4. h[k] = g[1 .. k] /\ h[k - 1] = g[1 .. (k - 1)]
    OBVIOUS
  <2> QED BY <2>1, <2>3, <2>4
<1>5. SettleAll(x, c, s) = h[n]
  BY SettleAllIs DEF g
<1> HIDE DEF h
<1>6. IsSettling(c, x, s, h)
  BY <1>3, <1>4 DEF IsSettling
<1> QED BY <1>5, <1>6

----------------------------------------------------------------------------
(* What an agent makes of a sequence of entries. *)

LEMMA StoryUnique ==
  ASSUME NEW a, NEW x, NEW s, Len(s) \in Nat, NEW h, IsStory(a, x, s, h), NEW g, IsStory(a, x, s, g)
  PROVE  \A k \in 0 .. Len(s) : h[k] = g[k]
<1> DEFINE B == {k \in 0 .. Len(s) : h[k] # g[k]}
<1>1. SUFFICES ASSUME B # {} PROVE FALSE
  BY <1>1
<1>2. PICK k \in B : \A y \in B : k <= y
  <2>1. B \in SUBSET Nat
    OBVIOUS
  <2> HIDE DEF B
  <2> QED BY <1>1, <2>1, Least
<1>3. k \in 0 .. Len(s) /\ h[k] # g[k] /\ k # 0
  BY <1>2 DEF IsStory
<1>4. k \in 1 .. Len(s) /\ k - 1 \in 0 .. Len(s) /\ k - 1 \notin B
  BY <1>2, <1>3
<1>5. h[k - 1] = g[k - 1]
  BY <1>4
<1> QED BY <1>3, <1>4, <1>5 DEF IsStory

\* s, and then t
Then(a, x, s, t) == Heard(a, x, s \o t) = Heard(a, Heard(a, x, s), t)

LEMMA HeardConcat ==
  ASSUME NEW a, NEW x, NEW S, NEW s \in Seq(S), NEW t \in Seq(S)
  PROVE  Then(a, x, s, t)
<1> DEFINE n == Len(s)
           m == Len(t)
           u == s \o t
<1>1. /\ n \in Nat /\ m \in Nat /\ Len(u) = n + m
      /\ DOMAIN s = 1 .. n /\ DOMAIN t = 1 .. m /\ DOMAIN u = 1 .. Len(u)
      /\ \A k \in 1 .. n : u[k] = s[k]
      /\ \A k \in 1 .. m : u[n + k] = t[k]
  OBVIOUS
<1> HIDE DEF u
<1>2. PICK f : IsStory(a, x, u, f) /\ Heard(a, x, u) = f[Len(u)]
  BY <1>1, HeardRuns
<1>3. PICK h : IsStory(a, x, s, h) /\ Heard(a, x, s) = h[n]
  BY <1>1, HeardRuns
<1>4. PICK g : IsStory(a, h[n], t, g) /\ Heard(a, h[n], t) = g[m]
  BY <1>1, HeardRuns
<1>5. IsStory(a, x, s, f)
  BY <1>1, <1>2 DEF IsStory
<1>6. f[n] = h[n]
  BY <1>1, <1>3, <1>5, StoryUnique
<1> DEFINE r == [k \in 0 .. m |-> f[n + k]]
<1>7. IsStory(a, h[n], t, r)
  <2>1. r[0] = h[n]
    BY <1>1, <1>6
  <2>2. ASSUME NEW k \in 1 .. m PROVE r[k] = Learn(a, r[k - 1], t[k])
    <3>1. n + k \in 1 .. Len(u) /\ u[n + k] = t[k] /\ (n + k) - 1 = n + (k - 1)
      BY <1>1
    <3>2. f[n + k] = Learn(a, f[(n + k) - 1], u[n + k])
      BY <1>2, <3>1 DEF IsStory
    <3>3. r[k] = f[n + k] /\ r[k - 1] = f[n + (k - 1)]
      BY <1>1
    <3> HIDE DEF r
    <3> QED BY <3>1, <3>2, <3>3
  <2> HIDE DEF r
  <2> QED BY <2>1, <2>2 DEF IsStory
<1>8. r[m] = f[Len(u)]
  BY <1>1
<1> HIDE DEF r, n, m
<1>9. r[m] = g[m]
  <2>1. m \in 0 .. m /\ m = Len(t)
    BY <1>1 DEF m
  <2> QED BY <1>1, <1>4, <1>7, <2>1, StoryUnique
<1>10. Heard(a, x, u) = Heard(a, Heard(a, x, s), t)
  BY <1>2, <1>3, <1>4, <1>8, <1>9
<1> QED BY <1>10 DEF Then, u

LEMMA HeardNothing ==
  ASSUME NEW a, NEW x
  PROVE  Heard(a, x, <<>>) = x
<1>1. Len(<<>>) = 0 /\ DOMAIN <<>> = 1 .. Len(<<>>) /\ Len(<<>>) \in Nat
  OBVIOUS
<1>2. PICK h : IsStory(a, x, <<>>, h) /\ Heard(a, x, <<>>) = h[Len(<<>>)]
  BY <1>1, HeardRuns
<1> QED BY <1>1, <1>2 DEF IsStory

LEMMA HeardOne ==
  ASSUME NEW a, NEW x, NEW e
  PROVE  Heard(a, x, <<e>>) = Learn(a, x, e)
<1> DEFINE s == <<e>>
<1>1. Len(s) = 1 /\ DOMAIN s = 1 .. Len(s) /\ Len(s) \in Nat /\ s[1] = e
  OBVIOUS
<1> HIDE DEF s
<1>2. PICK h : IsStory(a, x, s, h) /\ Heard(a, x, s) = h[Len(s)]
  BY <1>1, HeardRuns
<1>3. 1 \in 1 .. Len(s) /\ 1 - 1 = 0
  BY <1>1
<1>4. h[1] = Learn(a, h[0], s[1]) /\ h[0] = x
  BY <1>2, <1>3 DEF IsStory
<1> QED BY <1>1, <1>2, <1>4 DEF s

----------------------------------------------------------------------------
(* Sequences put together. *)

\* h runs through what FlattenSeq puts together of ss
IsJoining(ss, h) ==
  /\ h[0] = <<>>
  /\ \A k \in 1 .. Len(ss) : h[k] = h[k - 1] \o ss[k]

IsFlat(ss, n, g) == g = [i \in 1 .. n |-> IF i = 1 THEN ss[i] ELSE g[i - 1] \o ss[i]]

FlatOf(ss, n) == CHOOSE g : IsFlat(ss, n, g)

LEMMA FlattenIs ==
  ASSUME NEW ss
  PROVE  FlattenSeq(ss) = IF Len(ss) = 0 THEN ss ELSE FlatOf(ss, Len(ss))[Len(ss)]
  BY DEF FlattenSeq, FlatOf, IsFlat

LEMMA FlatExists ==
  ASSUME NEW ss, NEW n \in Nat
  PROVE  IsFlat(ss, n, FlatOf(ss, n))
<1> DEFINE B == {k \in Nat : ~IsFlat(ss, k, FlatOf(ss, k))}
<1>1. SUFFICES ASSUME B # {} PROVE FALSE
  BY <1>1
<1>2. PICK k \in B : \A y \in B : k <= y
  <2>1. B \in SUBSET Nat
    OBVIOUS
  <2> HIDE DEF B
  <2> QED BY <1>1, <2>1, Least
<1>3. k \in Nat /\ (k # 0 => k - 1 \in Nat /\ k - 1 \notin B)
  BY <1>2
<1>4. k # 0 => IsFlat(ss, k - 1, FlatOf(ss, k - 1))
  BY <1>3
<1> DEFINE f == FlatOf(ss, k - 1)
           v(i) == IF i = 1 THEN ss[i] ELSE f[i - 1] \o ss[i]
           g == [i \in 1 .. k |-> v(i)]
<1>5. ASSUME NEW i \in 1 .. k
      PROVE  v(i) = IF i = 1 THEN ss[i] ELSE g[i - 1] \o ss[i]
  <2>1. CASE i = 1
    BY <2>1
  <2>2. CASE i # 1
    <3>1. i - 1 \in 1 .. k /\ i - 1 \in 1 .. (k - 1) /\ k # 0
      BY <1>3, <2>2
    <3>2. f[i - 1] = v(i - 1)
      <4> HIDE DEF f
      <4>1. IsFlat(ss, k - 1, f)
        BY <1>4, <3>1 DEF f
      <4> QED BY <3>1, <4>1 DEF IsFlat
    <3>3. g[i - 1] = v(i - 1)
      <4> HIDE DEF v
      <4> QED BY <3>1
    <3>4. v(i) = f[i - 1] \o ss[i]
      BY <2>2
    <3> HIDE DEF v, g, f
    <3> QED BY <2>2, <3>2, <3>3, <3>4
  <2> QED BY <2>1, <2>2
<1>6. g = [i \in 1 .. k |-> IF i = 1 THEN ss[i] ELSE g[i - 1] \o ss[i]]
  <2> HIDE DEF v
  <2> SUFFICES \A i \in 1 .. k : v(i) = IF i = 1 THEN ss[i] ELSE g[i - 1] \o ss[i]
    OBVIOUS
  <2> QED BY <1>5
<1>7. IsFlat(ss, k, g)
  BY <1>6 DEF IsFlat
<1> HIDE DEF g
<1>8. IsFlat(ss, k, FlatOf(ss, k))
  BY <1>7 DEF FlatOf
<1> QED BY <1>2, <1>8

LEMMA FlattenRuns ==
  ASSUME NEW S, NEW ss \in Seq(Seq(S))
  PROVE  \E h : /\ IsJoining(ss, h) /\ FlattenSeq(ss) = h[Len(ss)]
                /\ \A k \in 0 .. Len(ss) : h[k] \in Seq(S)
<1> DEFINE n == Len(ss)
           g == FlatOf(ss, n)
           h == [k \in 0 .. n |-> IF k = 0 THEN <<>> ELSE g[k]]
<1>1. n \in Nat /\ (n = 0 => ss = <<>>) /\ \A k \in 1 .. n : ss[k] \in Seq(S)
  OBVIOUS
<1>2. IsFlat(ss, n, g)
  BY <1>1, FlatExists
<1>3. FlattenSeq(ss) = h[n]
  BY <1>1, FlattenIs
<1> HIDE DEF n, g
<1>4. ASSUME NEW k \in 1 .. n
      PROVE  h[k] = h[k - 1] \o ss[k]
  <2>1. g[k] = IF k = 1 THEN ss[k] ELSE g[k - 1] \o ss[k]
    BY <1>2 DEF IsFlat
  <2>2. CASE k = 1
    <3>1. h[k - 1] = <<>> /\ h[k] = ss[k]
      BY <1>1, <2>1, <2>2
    <3>2. ss[k] = <<>> \o ss[k]
      BY <1>1
    <3> QED BY <3>1, <3>2
  <2>3. CASE k # 1
    <3>1. h[k] = g[k] /\ h[k - 1] = g[k - 1]
      BY <1>1, <2>3
    <3> QED BY <2>1, <2>3, <3>1
  <2> QED BY <2>2, <2>3
<1>5. h[0] = <<>>
  BY <1>1
<1> HIDE DEF h
<1>6. IsJoining(ss, h)
  BY <1>4, <1>5 DEF IsJoining, n
<1>7. \A k \in 0 .. n : h[k] \in Seq(S)
  <2> DEFINE B == {k \in 0 .. n : h[k] \notin Seq(S)}
  <2>1. SUFFICES ASSUME B # {} PROVE FALSE
    BY <2>1
  <2>2. PICK k \in B : \A y \in B : k <= y
    <3>1. B \in SUBSET Nat
      BY <1>1
    <3> HIDE DEF B
    <3> QED BY <2>1, <3>1, Least
  <2>a. k \in 0 .. n /\ h[k] \notin Seq(S) /\ \A y \in 0 .. n : h[y] \notin Seq(S) => k <= y
    BY <2>2
  <2>b. <<>> \in Seq(S)
    OBVIOUS
  <2>c. k # 0
    BY <1>5, <2>a, <2>b
  <2> HIDE DEF B
  <2>3. k \in 1 .. n /\ k - 1 \in 0 .. n /\ ~(k <= k - 1)
    BY <1>1, <2>a, <2>c
  <2>4. h[k - 1] \in Seq(S) /\ ss[k] \in Seq(S)
    BY <1>1, <2>a, <2>3
  <2>d. h[k] = h[k - 1] \o ss[k]
    BY <1>4, <2>3
  <2>5. h[k] \in Seq(S)
    BY <2>4, <2>d
  <2> QED BY <2>a, <2>5
<1> QED BY <1>3, <1>6, <1>7 DEF n

----------------------------------------------------------------------------
(* What an agent knows. *)

\* an agent's books are m, the orders of S are open, owed shares acked as
\* filled have not had their fill, and everything so far added up
Knows(x, m, S, owed) ==
  /\ x.odd = 0
  /\ DOMAIN x.v = DOMAIN NoView
  /\ x.v.position = m.position /\ x.v.cash = m.cash /\ x.v.fees = m.fees
  /\ Opens(x.v.open, S)
  /\ x.v.owed = owed

\* no two orders of S have the same id
Distinct(S) == \A o, r \in S : o.id = r.id => o = r

LEMMA ViewFields ==
  DOMAIN NoView = {"position", "cash", "fees", "top", "open", "owed"}
  BY DEF NoView

LEMMA LearnOther ==
  ASSUME NEW a, NEW x, NEW e, e.to # a
  PROVE  Learn(a, x, e) = x
  BY DEF Learn

(* Market data tells an agent nothing about its own orders. *)
LEMMA LearnMarket ==
  ASSUME NEW a, NEW x, NEW e, NEW m, NEW S, NEW owed, Knows(x, m, S, owed),
         e.ev.kind \in {"SessionStart", "Trade", "BookUpdate"}
  PROVE  Knows(Learn(a, x, e), m, S, owed)
<1> DEFINE v == Apply(x.v, e.ev)
<1>1. AddsUp(x.v, e.ev)
  BY DEF AddsUp
<1>2. v = IF e.ev.kind = "SessionStart" THEN x.v ELSE [x.v EXCEPT !.top = e.ev.top]
  BY DEF Apply
<1>3. /\ DOMAIN v = DOMAIN NoView
      /\ v.position = x.v.position /\ v.cash = x.v.cash /\ v.fees = x.v.fees
      /\ v.open = x.v.open /\ v.owed = x.v.owed
  BY <1>2, ViewFields DEF Knows
<1>4. Learn(a, x, e) = x \/ Learn(a, x, e) = [v |-> v, odd |-> x.odd]
  BY <1>1 DEF Learn
<1> HIDE DEF v
<1>5. CASE Learn(a, x, e) = [v |-> v, odd |-> x.odd]
  BY <1>3, <1>5 DEF Knows
<1> QED BY <1>4, <1>5

\* a refusal tells nothing new
LEMMA LearnRejected ==
  ASSUME NEW a, NEW x, NEW id, NEW reason, NEW m, NEW S, NEW owed, Knows(x, m, S, owed),
         id \notin {o.id : o \in S} \/ reason = "NotOwner"
  PROVE  Knows(Learn(a, x, [to |-> a, ev |-> Rejected(id, reason)]), m, S, owed)
<1> DEFINE ev == Rejected(id, reason)
<1>1. ev.kind = "Rejected" /\ ev.id = id /\ ev.reason = reason
  BY DEF Rejected
<1> HIDE DEF ev
<1>2. AddsUp(x.v, ev)
  BY <1>1 DEF AddsUp, Knows, Opens
<1>3. Apply(x.v, ev) = x.v
  BY <1>1 DEF Apply
<1>4. Learn(a, x, [to |-> a, ev |-> ev]) = [v |-> x.v, odd |-> x.odd]
  BY <1>2, <1>3 DEF Learn
<1> QED BY <1>4 DEF Knows, ev

(* Open orders after one is gone, smaller or new.                          *)
LEMMA OpensLess ==
  ASSUME NEW open, NEW S, Opens(open, S), Distinct(S), NEW o \in S
  PROVE  Opens(WithOrder(open, o.id, 0), S \ {o})
<1> DEFINE w == WithOrder(open, o.id, 0)
<1>1. w = [i \in DOMAIN open \ {o.id} |-> IF i = o.id THEN 0 ELSE open[i]]
  BY DEF WithOrder
<1>2. {r.id : r \in S \ {o}} = {r.id : r \in S} \ {o.id}
  BY DEF Distinct
<1>3. DOMAIN w = {r.id : r \in S \ {o}}
  BY <1>1, <1>2 DEF Opens
<1>4. ASSUME NEW r \in S \ {o} PROVE w[r.id] = r.remaining
  <2>1. r.id # o.id /\ r.id \in DOMAIN open
    BY <1>4 DEF Distinct, Opens
  <2> QED BY <1>1, <1>4, <2>1 DEF Opens
<1> HIDE DEF w
<1>5. Opens(w, S \ {o})
  BY <1>3, <1>4 DEF Opens
<1> QED BY <1>5 DEF w

LEMMA OpensMore ==
  ASSUME NEW open, NEW S, Opens(open, S), NEW o, o.id \notin {r.id : r \in S}, o.remaining \in Nat \ {0}
  PROVE  Opens(WithOrder(open, o.id, o.remaining), S \cup {o})
<1> DEFINE w == WithOrder(open, o.id, o.remaining)
<1>1. w = [i \in DOMAIN open \cup {o.id} |-> IF i = o.id THEN o.remaining ELSE open[i]]
  BY DEF WithOrder
<1>2. {r.id : r \in S \cup {o}} = {r.id : r \in S} \cup {o.id}
  OBVIOUS
<1>3. DOMAIN w = {r.id : r \in S \cup {o}}
  BY <1>1, <1>2 DEF Opens
<1>4. ASSUME NEW r \in S PROVE w[r.id] = r.remaining
  <2>1. r.id # o.id /\ r.id \in DOMAIN open
    BY <1>4 DEF Opens
  <2> QED BY <1>1, <1>4, <2>1 DEF Opens
<1>5. w[o.id] = o.remaining
  BY <1>1
<1> HIDE DEF w
<1>6. Opens(w, S \cup {o})
  BY <1>3, <1>4, <1>5 DEF Opens
<1> QED BY <1>6 DEF w

LEMMA OpensSmaller ==
  ASSUME NEW open, NEW S, Opens(open, S), Distinct(S), NEW o \in S,
         NEW u, u.id = o.id, u.remaining \in Nat \ {0}
  PROVE  Opens(WithOrder(open, o.id, u.remaining), (S \ {o}) \cup {u})
<1> DEFINE w == WithOrder(open, o.id, u.remaining)
           T == (S \ {o}) \cup {u}
<1>1. w = [i \in DOMAIN open \cup {o.id} |-> IF i = o.id THEN u.remaining ELSE open[i]]
  BY DEF WithOrder
<1>2. {r.id : r \in T} = {r.id : r \in S}
  BY DEF Distinct
<1>a. o.id \in DOMAIN open
  BY DEF Opens
<1>3. DOMAIN w = {r.id : r \in T}
  BY <1>1, <1>2, <1>a DEF Opens
<1>4. ASSUME NEW r \in S \ {o} PROVE w[r.id] = r.remaining
  <2>1. r.id # o.id /\ r.id \in DOMAIN open
    BY <1>4 DEF Distinct, Opens
  <2> QED BY <1>1, <1>4, <2>1 DEF Opens
<1>5. w[u.id] = u.remaining
  BY <1>1
<1>6. \A r \in T : w[r.id] = r.remaining
  BY <1>4, <1>5
<1> HIDE DEF w, T
<1>7. Opens(w, T)
  BY <1>3, <1>6 DEF Opens
<1> QED BY <1>7 DEF w, T

\* what a report of a cancel tells
LEMMA LearnCancelled ==
  ASSUME NEW a, NEW x, NEW m, NEW S, NEW owed, Knows(x, m, S, owed), Distinct(S), NEW o \in S
  PROVE  Knows(Learn(a, x, [to |-> a, ev |-> Cancelled(o.id, o.remaining)]), m, S \ {o}, owed)
<1> DEFINE ev == Cancelled(o.id, o.remaining)
           v == [x.v EXCEPT !.open = WithOrder(@, o.id, 0)]
<1>1. ev.kind = "Cancelled" /\ ev.id = o.id /\ ev.remaining = o.remaining
  BY DEF Cancelled
<1> HIDE DEF ev
<1>2. AddsUp(x.v, ev)
  BY <1>1 DEF AddsUp, Knows, Opens
<1>3. Apply(x.v, ev) = v
  BY <1>1 DEF Apply
<1>4. Learn(a, x, [to |-> a, ev |-> ev]) = [v |-> v, odd |-> x.odd]
  BY <1>2, <1>3 DEF Learn
<1>5. Opens(WithOrder(x.v.open, o.id, 0), S \ {o})
  BY OpensLess DEF Knows
<1>6. /\ DOMAIN v = DOMAIN NoView
      /\ v.position = x.v.position /\ v.cash = x.v.cash /\ v.fees = x.v.fees
      /\ v.open = WithOrder(x.v.open, o.id, 0) /\ v.owed = x.v.owed
  BY ViewFields DEF Knows
<1> HIDE DEF v
<1> QED BY <1>4, <1>5, <1>6 DEF Knows, ev

\* what an ack tells: what it leaves resting is the order o
LEMMA LearnAck ==
  ASSUME NEW a, NEW x, NEW m, NEW S, Knows(x, m, S, 0),
         NEW o, o.id \notin {r.id : r \in S}, o.remaining \in Nat, NEW filled \in Nat
  PROVE  Knows(Learn(a, x, [to |-> a, ev |-> Ack(o.id, filled, o.remaining)]), m,
               IF o.remaining > 0 THEN S \cup {o} ELSE S, filled)
<1> DEFINE ev == Ack(o.id, filled, o.remaining)
           w == WithOrder(x.v.open, o.id, o.remaining)
           v == [x.v EXCEPT !.open = WithOrder(@, o.id, o.remaining), !.owed = @ + filled]
           T == IF o.remaining > 0 THEN S \cup {o} ELSE S
<1>1. ev.kind = "Ack" /\ ev.id = o.id /\ ev.remaining = o.remaining /\ ev.qty = filled
  BY DEF Ack
<1> HIDE DEF ev
<1>2. AddsUp(x.v, ev)
  BY <1>1 DEF AddsUp, Knows, Opens
<1>3. Apply(x.v, ev) = v
  BY <1>1 DEF Apply
<1>4. Learn(a, x, [to |-> a, ev |-> ev]) = [v |-> v, odd |-> x.odd]
  BY <1>2, <1>3 DEF Learn
<1>5. Opens(w, T)
  <2>1. Opens(x.v.open, S)
    BY DEF Knows
  <2>2. CASE o.remaining > 0
    BY <2>1, <2>2, OpensMore
  <2>3. CASE ~(o.remaining > 0)
    <3>1. w = [i \in DOMAIN x.v.open \ {o.id} |-> IF i = o.id THEN o.remaining ELSE x.v.open[i]]
      BY <2>3 DEF WithOrder
    <3>2. o.id \notin DOMAIN x.v.open
      BY <2>1 DEF Opens
    <3>3. DOMAIN w = DOMAIN x.v.open /\ \A i \in DOMAIN w : w[i] = x.v.open[i]
      BY <3>1, <3>2
    <3>4. T = S
      BY <2>3
    <3> HIDE DEF w, T
    <3> QED BY <2>1, <3>3, <3>4 DEF Opens
  <2> QED BY <2>2, <2>3
<1>6. /\ DOMAIN v = DOMAIN NoView
      /\ v.position = x.v.position /\ v.cash = x.v.cash /\ v.fees = x.v.fees
      /\ v.open = w /\ v.owed = filled
  BY ViewFields DEF Knows
<1> HIDE DEF v, w, T
<1> QED BY <1>4, <1>5, <1>6 DEF Knows, ev, T

Account == [position : Int, cash : Int, fees : Int]

\* what a fill of one side does to its books
Charged(m, side, p, q, fee) ==
  Credit(m, TakerSign(side) * q, -TakerSign(side) * p * q, fee)

LEMMA ChargedFields ==
  ASSUME NEW m \in Account, NEW side \in Side, NEW p \in Int, NEW q \in Int, NEW fee \in Int
  PROVE  /\ Charged(m, side, p, q, fee) \in Account
         /\ Charged(m, side, p, q, fee).position = m.position + TakerSign(side) * q
         /\ Charged(m, side, p, q, fee).cash = m.cash - TakerSign(side) * p * q - fee
         /\ Charged(m, side, p, q, fee).fees = m.fees + fee
<1>1. p * q \in Int
  OBVIOUS
<1>2. CASE side = Buy
  BY <1>1, <1>2 DEF Charged, Credit, TakerSign, Account
<1>3. CASE side # Buy
  BY <1>1, <1>3 DEF Charged, Credit, TakerSign, Account
<1> QED BY <1>2, <1>3

LEMMA ApplyFillFields ==
  ASSUME NEW v, DOMAIN v = DOMAIN NoView, NEW id, NEW is_maker, NEW side, NEW f, NEW remaining, NEW fee
  PROVE  LET w == Apply(v, FillEvent(id, is_maker, side, f, remaining, fee))
         IN /\ DOMAIN w = DOMAIN NoView
            /\ w.position = v.position + TakerSign(side) * f.qty
            /\ w.cash = v.cash - TakerSign(side) * f.px * f.qty - fee
            /\ w.fees = v.fees + fee
            /\ w.open = IF is_maker = 1 THEN WithOrder(v.open, id, remaining) ELSE v.open
            /\ w.owed = IF is_maker = 1 THEN v.owed ELSE v.owed - f.qty
<1> DEFINE ev == FillEvent(id, is_maker, side, f, remaining, fee)
<1>1. /\ ev.kind = "Fill" /\ ev.id = id /\ ev.is_maker = is_maker /\ ev.side = side
      /\ ev.px = f.px /\ ev.qty = f.qty /\ ev.remaining = remaining /\ ev.fee = fee
  BY DEF FillEvent
<1> HIDE DEF ev
<1>2. Apply(v, ev) = ApplyFill(v, ev)
  BY <1>1 DEF Apply
<1>3. /\ DOMAIN ApplyFill(v, ev) = DOMAIN NoView
      /\ ApplyFill(v, ev).position = v.position + TakerSign(ev.side) * ev.qty
      /\ ApplyFill(v, ev).cash = v.cash - TakerSign(ev.side) * ev.px * ev.qty - ev.fee
      /\ ApplyFill(v, ev).fees = v.fees + ev.fee
      /\ ApplyFill(v, ev).open = IF ev.is_maker = 1 THEN WithOrder(v.open, ev.id, ev.remaining) ELSE v.open
      /\ ApplyFill(v, ev).owed = IF ev.is_maker = 1 THEN v.owed ELSE v.owed - ev.qty
  BY ViewFields DEF ApplyFill, TakerSign
<1> QED BY <1>1, <1>2, <1>3 DEF ev

\* what the maker of a fill learns: its order o is now u, or gone
LEMMA LearnMakerFill ==
  ASSUME NEW a, NEW x, NEW m \in Account, NEW S, NEW owed, Knows(x, m, S, owed), Distinct(S),
         NEW o \in S, NEW f, f.qty \in Int, f.px \in Int,
         NEW side \in Side, NEW remaining \in Nat, remaining = o.remaining - f.qty,
         NEW fee \in Int, NEW u, u.id = o.id, u.remaining = remaining
  PROVE  Knows(Learn(a, x, [to |-> a, ev |-> FillEvent(o.id, 1, side, f, remaining, fee)]),
               Charged(m, side, f.px, f.qty, fee),
               IF remaining = 0 THEN S \ {o} ELSE (S \ {o}) \cup {u}, owed)
<1> DEFINE ev == FillEvent(o.id, 1, side, f, remaining, fee)
           w == WithOrder(x.v.open, o.id, remaining)
           v == Apply(x.v, ev)
           T == IF remaining = 0 THEN S \ {o} ELSE (S \ {o}) \cup {u}
           c == Charged(m, side, f.px, f.qty, fee)
<1>1. ev.kind = "Fill" /\ ev.is_maker = 1 /\ ev.id = o.id /\ ev.remaining = remaining /\ ev.qty = f.qty
  BY DEF FillEvent
<1>2. DOMAIN x.v = DOMAIN NoView /\ Opens(x.v.open, S)
  BY DEF Knows
<1>3. /\ DOMAIN v = DOMAIN NoView
      /\ v.position = x.v.position + TakerSign(side) * f.qty
      /\ v.cash = x.v.cash - TakerSign(side) * f.px * f.qty - fee
      /\ v.fees = x.v.fees + fee
      /\ v.open = w /\ v.owed = x.v.owed
  BY <1>2, ApplyFillFields
<1> HIDE DEF ev
<1>4. AddsUp(x.v, ev)
  BY <1>1 DEF AddsUp, Knows, Opens
<1>5. Learn(a, x, [to |-> a, ev |-> ev]) = [v |-> v, odd |-> x.odd]
  BY <1>4 DEF Learn
<1>6. Opens(w, T)
  <2>1. CASE remaining = 0
    BY <1>2, <2>1, OpensLess
  <2>2. CASE remaining # 0
    BY <1>2, <2>2, OpensSmaller
  <2> QED BY <2>1, <2>2
<1>7. /\ c.position = m.position + TakerSign(side) * f.qty
      /\ c.cash = m.cash - TakerSign(side) * f.px * f.qty - fee
      /\ c.fees = m.fees + fee
  BY ChargedFields
<1> HIDE DEF v, w, T, c
<1>8. Knows(Learn(a, x, [to |-> a, ev |-> ev]), c, T, owed)
  BY <1>3, <1>5, <1>6, <1>7 DEF Knows
<1> QED BY <1>8 DEF ev, c, T

\* what the taker of a fill learns
LEMMA LearnTakerFill ==
  ASSUME NEW a, NEW x, NEW m \in Account, NEW S, NEW owed \in Int, Knows(x, m, S, owed),
         NEW id, NEW f, f.qty \in Int, f.px \in Int, f.qty <= owed,
         NEW side \in Side, NEW remaining, NEW fee \in Int
  PROVE  Knows(Learn(a, x, [to |-> a, ev |-> FillEvent(id, 0, side, f, remaining, fee)]),
               Charged(m, side, f.px, f.qty, fee), S, owed - f.qty)
<1> DEFINE ev == FillEvent(id, 0, side, f, remaining, fee)
           v == Apply(x.v, ev)
           c == Charged(m, side, f.px, f.qty, fee)
<1>1. ev.kind = "Fill" /\ ev.is_maker = 0 /\ ev.qty = f.qty
  BY DEF FillEvent
<1>2. DOMAIN x.v = DOMAIN NoView /\ Opens(x.v.open, S)
  BY DEF Knows
<1>3. /\ DOMAIN v = DOMAIN NoView
      /\ v.position = x.v.position + TakerSign(side) * f.qty
      /\ v.cash = x.v.cash - TakerSign(side) * f.px * f.qty - fee
      /\ v.fees = x.v.fees + fee
      /\ v.open = x.v.open /\ v.owed = x.v.owed - f.qty
  BY <1>2, ApplyFillFields
<1> HIDE DEF ev
<1>4. AddsUp(x.v, ev)
  BY <1>1 DEF AddsUp, Knows
<1>5. Learn(a, x, [to |-> a, ev |-> ev]) = [v |-> v, odd |-> x.odd]
  BY <1>4 DEF Learn
<1>7. /\ c.position = m.position + TakerSign(side) * f.qty
      /\ c.cash = m.cash - TakerSign(side) * f.px * f.qty - fee
      /\ c.fees = m.fees + fee
  BY ChargedFields
<1> HIDE DEF v, c
<1>8. Knows(Learn(a, x, [to |-> a, ev |-> ev]), c, S, owed - f.qty)
  BY <1>2, <1>3, <1>5, <1>7 DEF Knows
<1> QED BY <1>8 DEF ev, c

\* a broadcast tells an agent nothing about its own orders
LEMMA HeardBroadcast ==
  ASSUME NEW a, NEW x, NEW m, NEW S, NEW owed, Knows(x, m, S, owed),
         NEW ev, ev.kind \in {"SessionStart", "Trade", "BookUpdate"}
  PROVE  Knows(Heard(a, x, Broadcast(ev)), m, S, owed)
<1> DEFINE s == Broadcast(ev)
<1>1. /\ Len(s) \in Nat /\ DOMAIN s = 1 .. Len(s)
      /\ \A k \in 1 .. Len(s) : s[k].ev = ev
  <2>1. Cardinality(Agents) \in Nat
    BY AgentsAssumption, FS_CardinalityType
  <2> QED BY <2>1 DEF Broadcast
<1> HIDE DEF s
<1>2. PICK h : IsStory(a, x, s, h) /\ Heard(a, x, s) = h[Len(s)]
  BY <1>1, HeardRuns
<1> DEFINE B == {k \in 0 .. Len(s) : ~Knows(h[k], m, S, owed)}
<1>3. ASSUME B # {} PROVE FALSE
  <2>1. PICK k \in B : \A y \in B : k <= y
    <3>1. B \in SUBSET Nat
      OBVIOUS
    <3> HIDE DEF B
    <3> QED BY <1>3, <3>1, Least
  <2>2. k # 0
    BY <1>2, <2>1 DEF IsStory
  <2>3. k \in 1 .. Len(s) /\ k - 1 \in 0 .. Len(s) /\ k - 1 \notin B
    BY <1>1, <2>1, <2>2
  <2>4. Knows(h[k - 1], m, S, owed)
    BY <2>3
  <2>5. s[k].ev.kind \in {"SessionStart", "Trade", "BookUpdate"}
    BY <1>1, <2>3
  <2>6. Knows(Learn(a, h[k - 1], s[k]), m, S, owed)
    BY <2>4, <2>5, LearnMarket
  <2>7. h[k] = Learn(a, h[k - 1], s[k])
    BY <1>2, <2>3 DEF IsStory
  <2> QED BY <2>1, <2>6, <2>7
<1>4. Len(s) \in 0 .. Len(s)
  BY <1>1
<1>5. Knows(h[Len(s)], m, S, owed)
  BY <1>3, <1>4
<1> QED BY <1>2, <1>5 DEF s

----------------------------------------------------------------------------
(* What rests after an order has been matched.                             *)

\* an order that passed the checks of add comes to a book
Trading(q, c) ==
  /\ WellFormed(q) /\ Distinct(Resting(q))
  /\ c \in OrderFields /\ c.qty \in Nat \ {0} /\ c.px \in Prices
  /\ c.id \notin LiveIds(q)

LEMMA HitOrders ==
  ASSUME NEW q, NEW c, Trading(q, c), NEW o \in Hit(q, c)
  PROVE  /\ o \in Resting(q) /\ o \in Order /\ o.agent # c.agent /\ o.side = Opposite(c.side)
         /\ o \in Facing(q, c)
         /\ Take(q, c, o) \in Nat \ {0} /\ Take(q, c, o) <= o.remaining
         /\ o \notin Own(q, c)
<1>1. WellFormed(q) /\ c.qty \in Nat
  BY DEF Trading
<1>2. o \in Facing(q, c) /\ Take(q, c, o) > 0
  BY DEF Hit
<1>3. o \in Resting(q) /\ o \in Order /\ o.side = Opposite(c.side)
  BY <1>1, <1>2, FacingOrders
<1>4. Take(q, c, o) \in Nat /\ Take(q, c, o) <= o.remaining /\ Take(q, c, o) <= Offer(c, o)
  BY <1>1, <1>3, WantsTake
<1>5. o.agent # c.agent
  BY <1>2, <1>4 DEF Offer
<1> QED BY <1>2, <1>3, <1>4, <1>5 DEF Own

LEMMA OwnFacing ==
  ASSUME NEW q, NEW c, Trading(q, c), NEW o \in Own(q, c)
  PROVE  o \in Resting(q) /\ o \in Order /\ o.agent = c.agent /\ o \in Facing(q, c)
<1>1. WellFormed(q)
  BY DEF Trading
<1>2. o \in Facing(q, c) /\ o.agent = c.agent
  BY DEF Own
<1> QED BY <1>1, <1>2, FacingOrders

\* what is left of an order that stays
LEMMA ServedOrder ==
  ASSUME NEW q, NEW c, Trading(q, c), NEW o \in Resting(q) \ Gone(q, c)
  PROVE  /\ Served(q, c, o) \in Order
         /\ Served(q, c, o).id = o.id /\ Served(q, c, o).agent = o.agent
         /\ Served(q, c, o).side = o.side /\ Served(q, c, o).px = o.px
         /\ o \in Hit(q, c) => Served(q, c, o).remaining = o.remaining - Take(q, c, o)
<1>1. o \in Order
  BY RestingPlace DEF Trading
<1>2. CASE o \in Hit(q, c)
  <2>1. Take(q, c, o) \in Nat \ {0} /\ Take(q, c, o) <= o.remaining /\ Take(q, c, o) # o.remaining
    BY <1>2, HitOrders DEF Gone
  <2>2. Served(q, c, o) = [o EXCEPT !.remaining = o.remaining - Take(q, c, o)]
    BY <1>2 DEF Served
  <2>3. o.remaining - Take(q, c, o) \in Nat \ {0}
    BY <1>1, <2>1 DEF Order
  <2> QED BY <1>1, <2>2, <2>3 DEF Order
<1>3. CASE o \notin Hit(q, c)
  BY <1>1, <1>3 DEF Served
<1> QED BY <1>2, <1>3

LEMMA KeptLevel ==
  ASSUME NEW q, NEW c, Trading(q, c), NEW s \in Side, NEW p \in Prices
  PROVE  /\ Kept(q, c)[s][p] \in Seq(Order)
         /\ ToSet(Kept(q, c)[s][p]) = {Served(q, c, o) : o \in ToSet(q[s][p]) \ Gone(q, c)}
         /\ \A i \in 1 .. Len(Kept(q, c)[s][p]) :
              Kept(q, c)[s][p][i].side = s /\ Kept(q, c)[s][p][i].px = p
         /\ \A i, j \in 1 .. Len(Kept(q, c)[s][p]) :
              Kept(q, c)[s][p][i].id = Kept(q, c)[s][p][j].id => i = j
<1> DEFINE S == ToSet(q[s][p]) \ Gone(q, c)
           t == Ranked(q, S)
           n == Cardinality(S)
           K == Kept(q, c)[s][p]
<1>0. WellFormed(q) /\ Distinct(Resting(q))
  BY DEF Trading
<1>1. /\ ToSet(q[s][p]) \subseteq Resting(q)
      /\ \A o \in ToSet(q[s][p]) : o.side = s /\ o.px = p
  BY <1>0, LevelOrders
<1>2. S \subseteq Resting(q) \ Gone(q, c) /\ IsFiniteSet(S) /\ \A o, r \in S : o.side = r.side
  BY <1>0, <1>1, FiniteResting, FS_Subset
<1>3. Enumerates(t, n, S) /\ DOMAIN t = 1 .. n
  <2>1. S \subseteq Resting(q)
    BY <1>2
  <2> HIDE DEF S
  <2> QED BY <1>0, <1>2, <2>1, RankedEnumerates
<1>4. K = [k \in DOMAIN t |-> Served(q, c, t[k])]
  BY KeptLevels
<1> HIDE DEF t, n, S, K
<1>5. ASSUME NEW o \in S
      PROVE  /\ Served(q, c, o) \in Order /\ Served(q, c, o).id = o.id
             /\ Served(q, c, o).side = s /\ Served(q, c, o).px = p
  <2>1. o \in Resting(q) \ Gone(q, c) /\ o.side = s /\ o.px = p
    BY <1>1, <1>2 DEF S
  <2> QED BY <2>1, ServedOrder
<1>6. n \in Nat /\ \A i \in 1 .. n : t[i] \in S
  BY <1>3 DEF Enumerates
<1>7. K \in Seq(Order) /\ Len(K) = n /\ DOMAIN K = 1 .. n
  BY <1>3, <1>4, <1>5, <1>6
<1>8. ToSet(K) = {Served(q, c, o) : o \in S}
  BY <1>3, <1>4, <1>6 DEF ToSet, Enumerates
<1>9. \A i \in 1 .. n : K[i] = Served(q, c, t[i])
  BY <1>3, <1>4
<1>10. ASSUME NEW i \in 1 .. n, NEW j \in 1 .. n, K[i].id = K[j].id
       PROVE  i = j
  <2>1. t[i] \in S /\ t[j] \in S /\ t[i].id = t[j].id
    BY <1>5, <1>6, <1>9, <1>10
  <2>2. t[i] = t[j]
    BY <1>0, <1>2, <2>1 DEF Distinct
  <2> QED BY <1>3, <2>2 DEF Enumerates
<1> QED BY <1>5, <1>6, <1>7, <1>8, <1>9, <1>10 DEF K, S

(* What the match keeps is well-formed: no order is lost but those that    *)
(* are gone.                                                               *)
LEMMA KeptResting ==
  ASSUME NEW q, NEW c, Trading(q, c)
  PROVE  /\ WellFormed(Kept(q, c))
         /\ Resting(Kept(q, c)) = {Served(q, c, o) : o \in Resting(q) \ Gone(q, c)}
<1>1. Kept(q, c) \in [Side -> [Prices -> Seq(Order)]]
  <2>1. \A s \in Side, p \in Prices : Kept(q, c)[s][p] \in Seq(Order)
    BY KeptLevel
  <2>2. Kept(q, c) = [s \in Side |-> [p \in Prices |-> Kept(q, c)[s][p]]]
    BY DEF Kept
  <2> HIDE DEF Kept
  <2> QED BY <2>1, <2>2
<1>2. WellFormed(Kept(q, c))
  <2>1. ASSUME NEW s \in Side, NEW p \in Prices
        PROVE  /\ \A i \in 1 .. Len(Kept(q, c)[s][p]) :
                    Kept(q, c)[s][p][i].side = s /\ Kept(q, c)[s][p][i].px = p
               /\ \A i, j \in 1 .. Len(Kept(q, c)[s][p]) :
                    Kept(q, c)[s][p][i] = Kept(q, c)[s][p][j] => i = j
    BY KeptLevel
  <2> QED BY <1>1, <2>1 DEF WellFormed
<1>3. ASSUME NEW s \in Side, NEW p \in Prices
      PROVE  ToSet(Kept(q, c)[s][p]) = {Served(q, c, o) : o \in ToSet(q[s][p]) \ Gone(q, c)}
  BY KeptLevel
<1>4. Resting(Kept(q, c)) = {Served(q, c, o) : o \in Resting(q) \ Gone(q, c)}
  BY <1>3 DEF Resting
<1> QED BY <1>2, <1>4

NewOrder(q, c) == [id |-> c.id, agent |-> c.agent, side |-> c.side, px |-> c.px,
                   remaining |-> Remainder(q, c)]

NewRest(q, c) == IF Remainder(q, c) > 0 THEN {NewOrder(q, c)} ELSE {}

LEMMA MatchResting ==
  ASSUME NEW q, NEW c, Trading(q, c), Remainder(q, c) \in Nat
  PROVE  /\ WellFormed(Match(q, c).queue)
         /\ Resting(Match(q, c).queue) = Resting(Kept(q, c)) \cup NewRest(q, c)
<1> DEFINE K == Kept(q, c)
           N == NewOrder(q, c)
           M == Match(q, c).queue
<1>1. M = IF Remainder(q, c) > 0 THEN [K EXCEPT ![c.side][c.px] = Append(@, N)] ELSE K
  BY DEF Match, NewOrder
<1>2. WellFormed(K) /\ Resting(K) = {Served(q, c, o) : o \in Resting(q) \ Gone(q, c)}
  BY KeptResting
<1>3. c.side \in Side /\ c.px \in Prices /\ c.id \in Ids /\ c.agent \in Agents
  BY DEF Trading, OrderFields
<1>4. CASE ~(Remainder(q, c) > 0)
  BY <1>1, <1>2, <1>4 DEF NewRest
<1>5. CASE Remainder(q, c) > 0
  <2>1. N \in Order /\ N.id = c.id /\ N.side = c.side /\ N.px = c.px
    BY <1>3, <1>5 DEF NewOrder, Order
  <2>2. \A o \in Resting(K) : o.id # c.id
    <3>1. \A o \in Resting(q) : o.id # c.id
      BY DEF Trading, LiveIds
    <3> QED BY <1>2, <3>1, ServedOrder
  <2>3. K \in [Side -> [Prices -> Seq(Order)]]
    BY <1>2 DEF WellFormed
  <2> HIDE DEF K, N, M
  <2>4. /\ M \in [Side -> [Prices -> Seq(Order)]]
        /\ \A s \in Side, p \in Prices :
             M[s][p] = IF s = c.side /\ p = c.px THEN Append(K[s][p], N) ELSE K[s][p]
    BY <1>1, <1>3, <1>5, <2>1, <2>3
  <2>5. ASSUME NEW s \in Side, NEW p \in Prices
        PROVE  /\ \A i \in 1 .. Len(M[s][p]) : M[s][p][i].side = s /\ M[s][p][i].px = p
               /\ \A i, j \in 1 .. Len(M[s][p]) : M[s][p][i] = M[s][p][j] => i = j
               /\ ToSet(M[s][p]) = IF s = c.side /\ p = c.px THEN ToSet(K[s][p]) \cup {N} ELSE ToSet(K[s][p])
    <3> DEFINE L == K[s][p]
    <3>1. /\ L \in Seq(Order) /\ Len(L) \in Nat /\ DOMAIN L = 1 .. Len(L)
          /\ \A i \in 1 .. Len(L) : L[i].side = s /\ L[i].px = p
          /\ \A i, j \in 1 .. Len(L) : L[i] = L[j] => i = j
          /\ \A i \in 1 .. Len(L) : L[i] \in ToSet(L)
      BY <1>2, LevelSeq
    <3>2. ToSet(L) \subseteq Resting(K)
      BY <1>2, LevelOrders
    <3>3. CASE s = c.side /\ p = c.px
      <4>1. M[s][p] = Append(L, N)
        BY <2>4, <3>3
      <4>2. \A i \in 1 .. Len(L) : L[i] # N
        BY <2>1, <2>2, <3>1, <3>2
      <4> HIDE DEF L
      <4>3. /\ Len(M[s][p]) = Len(L) + 1 /\ DOMAIN M[s][p] = 1 .. (Len(L) + 1)
            /\ \A i \in 1 .. Len(L) : M[s][p][i] = L[i]
            /\ M[s][p][Len(L) + 1] = N
        BY <2>1, <3>1, <4>1
      <4>4. ToSet(M[s][p]) = ToSet(L) \cup {N}
        <5>1. \A i \in 1 .. (Len(L) + 1) : i \in 1 .. Len(L) \/ i = Len(L) + 1
          BY <3>1
        <5> QED BY <3>1, <4>3, <5>1 DEF ToSet
      <4>5. \A i \in 1 .. Len(M[s][p]) : M[s][p][i].side = s /\ M[s][p][i].px = p
        BY <2>1, <3>1, <3>3, <4>3
      <4>6. \A i, j \in 1 .. Len(M[s][p]) : M[s][p][i] = M[s][p][j] => i = j
        BY <3>1, <4>2, <4>3
      <4> QED BY <3>3, <4>4, <4>5, <4>6 DEF L
    <3>4. CASE ~(s = c.side /\ p = c.px)
      <4>1. M[s][p] = L
        BY <2>4, <3>4
      <4> QED BY <3>1, <3>4, <4>1
    <3> QED BY <3>3, <3>4
  <2>6. WellFormed(M)
    BY <2>4, <2>5 DEF WellFormed
  <2>7. Resting(M) = Resting(K) \cup {N}
    <3>1. \A s \in Side, p \in Prices :
            ToSet(M[s][p]) = IF s = c.side /\ p = c.px THEN ToSet(K[s][p]) \cup {N} ELSE ToSet(K[s][p])
      BY <2>5
    <3>2. ASSUME NEW o \in Resting(M) PROVE o \in Resting(K) \cup {N}
      <4>1. PICK s \in Side, p \in Prices : o \in ToSet(M[s][p])
        BY DEF Resting
      <4>2. o \in ToSet(K[s][p]) \/ o = N
        BY <3>1, <4>1
      <4> QED BY <4>2 DEF Resting
    <3>3. ASSUME NEW o \in Resting(K) PROVE o \in Resting(M)
      <4>1. PICK s \in Side, p \in Prices : o \in ToSet(K[s][p])
        BY DEF Resting
      <4>2. o \in ToSet(M[s][p])
        BY <3>1, <4>1
      <4> QED BY <4>2 DEF Resting
    <3>4. N \in ToSet(M[c.side][c.px])
      BY <1>3, <3>1
    <3>5. N \in Resting(M)
      BY <1>3, <3>4 DEF Resting
    <3> QED BY <3>2, <3>3, <3>5
  <2>8. NewRest(q, c) = {N}
    BY <1>5 DEF NewRest, N
  <2> QED BY <2>6, <2>7, <2>8 DEF M, K
<1> QED BY <1>4, <1>5

(* A cancel takes one order out and leaves the others.                     *)
LEMMA WithoutResting ==
  ASSUME NEW q, WellFormed(q), NEW id
  PROVE  /\ WellFormed(Without(q, id))
         /\ Resting(Without(q, id)) = {o \in Resting(q) : o.id # id}
<1> DEFINE W == Without(q, id)
<1>1. ASSUME NEW s \in Side, NEW p \in Prices
      PROVE  /\ W[s][p] \in Seq(Order)
             /\ ToSet(W[s][p]) = {o \in ToSet(q[s][p]) : o.id # id}
             /\ \A i \in 1 .. Len(W[s][p]) : W[s][p][i].side = s /\ W[s][p][i].px = p
             /\ \A i, j \in 1 .. Len(W[s][p]) : W[s][p][i] = W[s][p][j] => i = j
  <2> DEFINE S == {o \in ToSet(q[s][p]) : o.id # id}
             t == Ranked(q, S)
  <2>1. /\ ToSet(q[s][p]) \subseteq Resting(q)
        /\ \A o \in ToSet(q[s][p]) : o.side = s /\ o.px = p
    BY LevelOrders
  <2>2. S \subseteq Resting(q) /\ IsFiniteSet(S) /\ \A o, r \in S : o.side = r.side
    BY <2>1, FiniteResting, FS_Subset
  <2>3. \A o \in S : o \in Order /\ o.side = s /\ o.px = p
    BY <2>1, RestingPlace
  <2>4. W[s][p] = t
    BY DEF Without
  <2> HIDE DEF S, W
  <2>5. Enumerates(t, Cardinality(S), S) /\ t \in Seq(S) /\ Len(t) = Cardinality(S) /\ DOMAIN t = 1 .. Cardinality(S)
    BY <2>2, RankedEnumerates
  <2> HIDE DEF t
  <2>6. /\ Len(t) \in Nat /\ DOMAIN t = 1 .. Len(t) /\ \A i \in 1 .. Len(t) : t[i] \in S
        /\ \A i, j \in 1 .. Len(t) : t[i] = t[j] => i = j
    BY <2>5 DEF Enumerates
  <2>7. t \in Seq(Order)
    BY <2>3, <2>5, <2>6
  <2>8. ToSet(t) = S
    BY <2>5, <2>6 DEF ToSet, Enumerates
  <2>9. \A i \in 1 .. Len(t) : t[i].side = s /\ t[i].px = p
    BY <2>3, <2>6
  <2> QED BY <2>4, <2>6, <2>7, <2>8, <2>9 DEF S
<1>2. W \in [Side -> [Prices -> Seq(Order)]]
  <2>1. W = [s \in Side |-> [p \in Prices |-> W[s][p]]]
    BY DEF Without
  <2> HIDE DEF W
  <2> QED BY <1>1, <2>1
<1> HIDE DEF W
<1>3. WellFormed(W)
  BY <1>1, <1>2 DEF WellFormed
<1>4. Resting(W) = {o \in Resting(q) : o.id # id}
  <2>1. \A s \in Side, p \in Prices : ToSet(W[s][p]) = {o \in ToSet(q[s][p]) : o.id # id}
    BY <1>1
  <2> QED BY <2>1 DEF Resting
<1> QED BY <1>3, <1>4 DEF W

----------------------------------------------------------------------------
(* What is taken.                                                          *)

(* Of finitely many orders of a side one trades last. *)
LEMMA LastOf ==
  ASSUME NEW q, WellFormed(q), NEW D, D \subseteq Resting(q), IsFiniteSet(D), D # {},
         \A o, r \in D : o.side = r.side
  PROVE  \E x \in D : \A y \in D \ {x} : Ahead(q, y, x) /\ ~Ahead(q, x, y)
<1> DEFINE LastOut(E, x) == x \in E /\ \A y \in E \ {x} : Ahead(q, y, x) /\ ~Ahead(q, x, y)
           B == {E \in SUBSET D : E # {} /\ ~\E x \in E : LastOut(E, x)}
<1>1. SUFFICES ASSUME B # {} PROVE FALSE
  <2>1. D \in SUBSET D
    OBVIOUS
  <2> QED BY <1>1, <2>1
<1>2. \A E \in B : IsFiniteSet(E)
  BY FS_Subset
<1>3. PICK E \in B : \A i \in E : E \ {i} \notin B
  <2> HIDE DEF B
  <2> QED BY <1>1, <1>2, OneLess
<1>4. E \in SUBSET D /\ E # {} /\ \A x \in E : ~LastOut(E, x)
  BY <1>3
<1>5. PICK i \in E : TRUE
  BY <1>4
<1>6. E \ {i} # {}
  BY <1>4, <1>5
<1>7. PICK m \in E \ {i} : LastOut(E \ {i}, m)
  BY <1>3, <1>4, <1>5, <1>6
<1>8. \A o, r \in E : o \in Resting(q) /\ o.side = r.side
  BY <1>4
<1>9. i \in E /\ m \in E /\ m # i
  BY <1>5, <1>7
<1> HIDE DEF B
<1>10. CASE Ahead(q, i, m)
  <2>1. ~Ahead(q, m, i)
    BY <1>8, <1>9, <1>10, AheadStrict
  <2>2. LastOut(E, m)
    BY <1>7, <1>9, <1>10, <2>1
  <2> QED BY <1>4, <1>9, <2>2
<1>11. CASE Ahead(q, m, i)
  <2>1. ASSUME NEW y \in E \ {i}
        PROVE  Ahead(q, y, i) /\ ~Ahead(q, i, y)
    <3>1. Ahead(q, y, i)
      <4>1. CASE y = m
        BY <1>11, <4>1
      <4>2. CASE y # m
        <5>1. Ahead(q, y, m)
          BY <1>7, <2>1, <4>2
        <5> QED BY <1>8, <1>9, <1>11, <2>1, <5>1, AheadTransitive
      <4> QED BY <4>1, <4>2
    <3>2. ~Ahead(q, i, y)
      BY <1>8, <1>9, <2>1, <3>1, AheadStrict
    <3> QED BY <3>1, <3>2
  <2>2. LastOut(E, i)
    BY <1>9, <2>1
  <2> QED BY <1>4, <1>9, <2>2
<1> QED BY <1>8, <1>9, <1>10, <1>11, AheadTotal

\* D has everything ahead of its orders
FromTheFront(q, c, D) ==
  /\ D \subseteq Facing(q, c)
  /\ \A o \in D, r \in Facing(q, c) : Ahead(q, r, o) => r \in D

Taken(q, c, D) == SumFunctionOnSet([o \in Facing(q, c) |-> Take(q, c, o)], D)

LEMMA TakenNat ==
  ASSUME NEW q, WellFormed(q), NEW c, c.qty \in Nat, NEW D, D \subseteq Facing(q, c)
  PROVE  /\ IsFiniteSet(D) /\ Taken(q, c, D) \in Nat
         /\ \A x \in D : /\ Take(q, c, x) \in Nat
                         /\ Taken(q, c, D) = Take(q, c, x) + Taken(q, c, D \ {x})
<1> DEFINE f == [o \in Facing(q, c) |-> Take(q, c, o)]
<1>1. /\ IsFiniteSet(Facing(q, c)) /\ \A o \in Facing(q, c) : o \in Order
  BY FacingOrders
<1>2. IsFiniteSet(D)
  BY <1>1, FS_Subset
<1>3. \A o \in Facing(q, c) : Take(q, c, o) \in Nat
  BY <1>1, WantsTake
<1>4. \A o \in D : f[o] \in Nat /\ f[o] = Take(q, c, o)
  BY <1>3
<1> HIDE DEF f
<1>5. SumFunctionOnSet(f, D) \in Nat
  BY <1>2, <1>4, SumNat
<1>6. \A x \in D : SumFunctionOnSet(f, D) = f[x] + SumFunctionOnSet(f, D \ {x})
  <2>1. \A o \in D : f[o] \in Int
    BY <1>4
  <2> QED BY <1>2, <2>1, SumRemove
<1> QED BY <1>2, <1>4, <1>5, <1>6 DEF Taken, f

(* From the front of what it faces an order takes all that other agents    *)
(* offer, or all that it wants.                                            *)
LEMMA TakenFromFront ==
  ASSUME NEW q, WellFormed(q), NEW c, c.qty \in Nat, NEW D, FromTheFront(q, c, D)
  PROVE  Taken(q, c, D) = Minimum(c.qty, Offered(c, D))
<1> DEFINE B == {E \in SUBSET D : FromTheFront(q, c, E) /\ Taken(q, c, E) # Minimum(c.qty, Offered(c, E))}
<1>1. SUFFICES ASSUME B # {} PROVE FALSE
  <2>1. D \in SUBSET D
    OBVIOUS
  <2> QED BY <1>1, <2>1
<1>2. /\ IsFiniteSet(Facing(q, c)) /\ Facing(q, c) \subseteq Resting(q)
      /\ \A o \in Facing(q, c) : o \in Order /\ o.side = Opposite(c.side)
  BY FacingOrders
<1>3. \A E \in B : IsFiniteSet(E)
  BY <1>2, FS_Subset DEF FromTheFront
<1>4. PICK E \in B : \A i \in E : E \ {i} \notin B
  <2> HIDE DEF B
  <2> QED BY <1>1, <1>3, OneLess
<1>5. E \in SUBSET D /\ FromTheFront(q, c, E) /\ Taken(q, c, E) # Minimum(c.qty, Offered(c, E))
  BY <1>4
<1>6. \A i \in E : FromTheFront(q, c, E \ {i}) =>
                     Taken(q, c, E \ {i}) = Minimum(c.qty, Offered(c, E \ {i}))
  BY <1>4, <1>5
<1> HIDE DEF B
<1>7. E \subseteq Facing(q, c) /\ IsFiniteSet(E) /\ E \in SUBSET Order /\ E \subseteq Resting(q)
      /\ \A o, r \in E : o.side = r.side
  <2>1. E \subseteq Facing(q, c)
    BY <1>5 DEF FromTheFront
  <2> QED BY <1>2, <2>1, FS_Subset
<1>8. CASE E = {}
  <2>1. Offered(c, E) = 0
    BY <1>7, <1>8, OfferedSum
  <2>2. Taken(q, c, E) = 0
    <3>1. \A o \in E : [r \in Facing(q, c) |-> Take(q, c, r)][o] = 0
      BY <1>8
    <3> QED BY <1>7, <3>1, SumZero DEF Taken
  <2> QED BY <1>5, <2>1, <2>2 DEF Minimum
<1>9. CASE E # {}
  <2>1. PICK x \in E : \A y \in E \ {x} : Ahead(q, y, x) /\ ~Ahead(q, x, y)
    BY <1>7, <1>9, LastOf
  <2>2. FromTheFront(q, c, E \ {x})
    BY <1>5, <2>1 DEF FromTheFront
  <2>3. Taken(q, c, E \ {x}) = Minimum(c.qty, Offered(c, E \ {x}))
    BY <1>6, <2>2
  <2>4. {r \in Facing(q, c) : Ahead(q, r, x)} = E \ {x}
    <3>1. ~Ahead(q, x, x)
      BY <1>7, AheadStrict
    <3> QED BY <1>5, <1>7, <2>1, <3>1 DEF FromTheFront
  <2>5. Wants(q, c, x) = Maximum(0, c.qty - Offered(c, E \ {x}))
    BY <2>4 DEF Wants
  <2>6. Take(q, c, x) = Minimum(Offer(c, x), Maximum(0, c.qty - Offered(c, E \ {x})))
    BY <2>5 DEF Take
  <2>7. Taken(q, c, E) = Take(q, c, x) + Taken(q, c, E \ {x})
    BY <1>7, TakenNat
  <2>8. /\ Offered(c, E \ {x}) \in Nat
        /\ Offered(c, E) = Offered(c, E \ {x}) + Offer(c, x)
    <3> DEFINE F == E \ {x}
    <3>1. F \in SUBSET Order /\ IsFiniteSet(F) /\ x \in Order /\ x \notin F /\ E = F \cup {x}
      BY <1>7, FS_Subset
    <3> HIDE DEF F
    <3>2. Offered(c, F) \in Nat /\ Offered(c, F \cup {x}) = Offered(c, F) + Offer(c, x)
      BY <3>1, OfferedSum
    <3> QED BY <3>1, <3>2 DEF F
  <2>9. Offer(c, x) \in Nat
    BY <1>7, OfferNat
  <2> QED BY <1>5, <2>3, <2>6, <2>7, <2>8, <2>9 DEF Minimum, Maximum
<1> QED BY <1>8, <1>9

(* An order never gets more than it asks for. *)
LEMMA FilledWithin ==
  ASSUME NEW q, WellFormed(q), NEW c, c.qty \in Nat
  PROVE  /\ Filled(q, c) = Taken(q, c, Facing(q, c))
         /\ Filled(q, c) \in Nat /\ Filled(q, c) <= c.qty
         /\ Remainder(q, c) \in Nat
<1> DEFINE D == Facing(q, c)
<1>1. Filled(q, c) = Taken(q, c, D)
  BY FilledSum DEF Taken
<1>2. FromTheFront(q, c, D)
  BY DEF FromTheFront
<1>3. Taken(q, c, D) = Minimum(c.qty, Offered(c, D))
  BY <1>2, TakenFromFront
<1>4. Taken(q, c, D) \in Nat
  <2>1. D \subseteq Facing(q, c)
    OBVIOUS
  <2> HIDE DEF D
  <2> QED BY <2>1, TakenNat
<1>5. Offered(c, D) \in Nat
  <2>1. D \in SUBSET Order /\ IsFiniteSet(D)
    BY FacingOrders
  <2> HIDE DEF D
  <2> QED BY <2>1, OfferedSum
<1> HIDE DEF D
<1>6. Filled(q, c) \in Nat /\ Filled(q, c) <= c.qty
  BY <1>1, <1>3, <1>4, <1>5 DEF Minimum
<1> QED BY <1>1, <1>6 DEF Remainder, D

----------------------------------------------------------------------------
(* The book as it is told, fill by fill.                                   *)

TheHits(q, c) == Ranked(q, Hit(q, c))

\* the orders of the first k fills
Hits(q, c, k) == {TheHits(q, c)[i] : i \in 1 .. k}

LEMMA HitList ==
  ASSUME NEW q, NEW c, Trading(q, c)
  PROVE  /\ Cardinality(Hit(q, c)) \in Nat
         /\ DOMAIN Fills(q, c) = 1 .. Cardinality(Hit(q, c))
         /\ Len(Fills(q, c)) = Cardinality(Hit(q, c))
         /\ Hits(q, c, 0) = {} /\ Hits(q, c, Cardinality(Hit(q, c))) = Hit(q, c)
         /\ \A k \in 1 .. Cardinality(Hit(q, c)) :
              LET h == TheHits(q, c)[k]
              IN /\ h \in Hit(q, c) /\ h \notin Hits(q, c, k - 1)
                 /\ Hits(q, c, k) = Hits(q, c, k - 1) \cup {h}
                 /\ Fills(q, c)[k] = FillOf(h, Take(q, c, h))
<1> DEFINE t == TheHits(q, c)
           n == Cardinality(Hit(q, c))
<1>0. WellFormed(q)
  BY DEF Trading
<1>1. Enumerates(t, n, Hit(q, c)) /\ DOMAIN t = 1 .. n
  <2>1. Hit(q, c) \subseteq Facing(q, c)
    BY DEF Hit
  <2> QED BY <1>0, <2>1, FacingSubset DEF TheHits
<1>2. Fills(q, c) = [k \in DOMAIN t |-> FillOf(t[k], Take(q, c, t[k]))]
  BY DEF Fills, FillOf, TheHits
<1> HIDE DEF t, n
<1>3. /\ n \in Nat /\ \A i \in 1 .. n : t[i] \in Hit(q, c)
      /\ \A o \in Hit(q, c) : \E i \in 1 .. n : t[i] = o
      /\ \A i, j \in 1 .. n : t[i] = t[j] => i = j
  BY <1>1 DEF Enumerates
<1>4. DOMAIN Fills(q, c) = 1 .. n /\ Len(Fills(q, c)) = n
  BY <1>1, <1>2, <1>3
<1>5. \A k : Hits(q, c, k) = {t[i] : i \in 1 .. k}
  BY DEF Hits, t
<1>6. Hits(q, c, 0) = {} /\ Hits(q, c, n) = Hit(q, c)
  <2>1. Hits(q, c, 0) = {}
    <3>1. Hits(q, c, 0) = {t[i] : i \in 1 .. 0} /\ 1 .. 0 = {}
      BY <1>5
    <3> QED BY <3>1
  <2>2. Hits(q, c, n) = {t[i] : i \in 1 .. n}
    BY <1>5
  <2> QED BY <1>3, <2>1, <2>2
<1>7. ASSUME NEW k \in 1 .. n
      PROVE  /\ t[k] \in Hit(q, c) /\ t[k] \notin Hits(q, c, k - 1)
             /\ Hits(q, c, k) = Hits(q, c, k - 1) \cup {t[k]}
             /\ Fills(q, c)[k] = FillOf(t[k], Take(q, c, t[k]))
  <2>1. 1 .. k = (1 .. (k - 1)) \cup {k} /\ \A i \in 1 .. (k - 1) : i \in 1 .. n /\ i # k
    BY <1>3
  <2>2. t[k] \notin Hits(q, c, k - 1)
    BY <1>3, <1>5, <2>1
  <2>3. Hits(q, c, k) = Hits(q, c, k - 1) \cup {t[k]}
    BY <1>5, <2>1
  <2> QED BY <1>1, <1>2, <1>3, <2>2, <2>3
<1> QED BY <1>3, <1>4, <1>6, <1>7 DEF t, n

\* the orders that still rest after the self-trade cancels and k fills
Spared(q, c, k) == Resting(q) \ (Own(q, c) \cup {o \in Hits(q, c, k) : Take(q, c, o) = o.remaining})

PartOf(q, c, k, o) == IF o \in Hits(q, c, k) THEN Served(q, c, o) ELSE o

\* all that rests then, c's own remainder included
Amid(q, c, k) == {PartOf(q, c, k, o) : o \in Spared(q, c, k)} \cup NewRest(q, c)

LEMMA PartOrder ==
  ASSUME NEW q, NEW c, Trading(q, c), NEW k \in 0 .. Cardinality(Hit(q, c)), NEW o \in Spared(q, c, k)
  PROVE  /\ o \in Resting(q)
         /\ PartOf(q, c, k, o).id = o.id /\ PartOf(q, c, k, o).agent = o.agent
<1>1. o \in Resting(q) /\ o \notin Own(q, c)
  BY DEF Spared
<1>2. CASE o \in Hits(q, c, k)
  <2>1. o \notin Gone(q, c)
    BY <1>2 DEF Spared, Gone
  <2> QED BY <1>1, <1>2, <2>1, ServedOrder DEF PartOf
<1>3. CASE o \notin Hits(q, c, k)
  BY <1>1, <1>3 DEF PartOf
<1> QED BY <1>2, <1>3

LEMMA NewRestFields ==
  ASSUME NEW q, NEW c
  PROVE  \A o \in NewRest(q, c) : o = NewOrder(q, c) /\ o.id = c.id /\ o.agent = c.agent
  BY DEF NewRest, NewOrder

LEMMA AmidDistinct ==
  ASSUME NEW q, NEW c, Trading(q, c), NEW k \in 0 .. Cardinality(Hit(q, c))
  PROVE  Distinct(Amid(q, c, k))
<1>1. Distinct(Resting(q)) /\ \A o \in Resting(q) : o.id # c.id
  BY DEF Trading, LiveIds
<1>2. SUFFICES ASSUME NEW o \in Amid(q, c, k), NEW r \in Amid(q, c, k), o.id = r.id
               PROVE  o = r
  BY DEF Distinct
<1>3. \A u \in Amid(q, c, k) : u \in NewRest(q, c) \/ \E w \in Spared(q, c, k) : u = PartOf(q, c, k, w)
  BY DEF Amid
<1>4. CASE o \in NewRest(q, c)
  <2>1. CASE r \in NewRest(q, c)
    BY <1>4, <2>1, NewRestFields
  <2>2. ASSUME NEW w \in Spared(q, c, k), r = PartOf(q, c, k, w) PROVE FALSE
    <3>1. r.id = w.id /\ w \in Resting(q)
      BY <2>2, PartOrder
    <3> QED BY <1>1, <1>2, <1>4, <3>1, NewRestFields
  <2> QED BY <1>3, <2>1, <2>2
<1>5. ASSUME NEW v \in Spared(q, c, k), o = PartOf(q, c, k, v) PROVE o = r
  <2>0. o.id = v.id /\ v \in Resting(q)
    BY <1>5, PartOrder
  <2>1. r \notin NewRest(q, c)
    BY <1>1, <1>2, <2>0, NewRestFields
  <2>2. PICK w \in Spared(q, c, k) : r = PartOf(q, c, k, w)
    BY <1>3, <2>1
  <2>3. r.id = w.id /\ w \in Resting(q)
    BY <2>2, PartOrder
  <2>4. v = w
    BY <1>1, <1>2, <2>0, <2>3 DEF Distinct
  <2> QED BY <1>5, <2>2, <2>4
<1> QED BY <1>3, <1>4, <1>5

(* A fill makes its order smaller, or ends it.                             *)
LEMMA AmidStep ==
  ASSUME NEW q, NEW c, Trading(q, c), NEW k \in 1 .. Cardinality(Hit(q, c)),
         NEW h, h = TheHits(q, c)[k]
  PROVE  /\ h \in Amid(q, c, k - 1)
         /\ Amid(q, c, k) = IF Take(q, c, h) = h.remaining
                            THEN Amid(q, c, k - 1) \ {h}
                            ELSE (Amid(q, c, k - 1) \ {h}) \cup {Served(q, c, h)}
<1>0. Cardinality(Hit(q, c)) \in Nat
  BY HitList
<1>1. h \in Hit(q, c) /\ h \notin Hits(q, c, k - 1) /\ Hits(q, c, k) = Hits(q, c, k - 1) \cup {h}
  BY HitList
<1>2. h \in Resting(q) /\ h \notin Own(q, c)
  BY <1>1, HitOrders
<1>3. h \in Spared(q, c, k - 1) /\ PartOf(q, c, k - 1, h) = h
  BY <1>1, <1>2 DEF Spared, PartOf
<1>4. h \in Amid(q, c, k - 1)
  BY <1>3 DEF Amid
<1>5. Spared(q, c, k) = IF Take(q, c, h) = h.remaining THEN Spared(q, c, k - 1) \ {h} ELSE Spared(q, c, k - 1)
  BY <1>1, <1>3 DEF Spared
<1>6. PartOf(q, c, k, h) = Served(q, c, h)
  BY <1>1 DEF PartOf
<1>7. \A o : o # h => PartOf(q, c, k, o) = PartOf(q, c, k - 1, o)
  BY <1>1 DEF PartOf
<1>8. k - 1 \in 0 .. Cardinality(Hit(q, c))
  BY <1>0
<1> DEFINE O == {PartOf(q, c, k - 1, o) : o \in Spared(q, c, k - 1) \ {h}}
<1>9. h \notin O /\ h \notin NewRest(q, c)
  <2>1. Distinct(Resting(q)) /\ \A o \in Resting(q) : o.id # c.id
    BY DEF Trading, LiveIds
  <2>2. h \notin NewRest(q, c)
    BY <1>2, <2>1, NewRestFields
  <2>3. ASSUME NEW o \in Spared(q, c, k - 1) \ {h} PROVE PartOf(q, c, k - 1, o) # h
    <3>1. PartOf(q, c, k - 1, o).id = o.id /\ o \in Resting(q)
      BY <1>8, PartOrder
    <3>2. o.id # h.id
      BY <1>2, <2>1, <2>3, <3>1 DEF Distinct
    <3> QED BY <3>1, <3>2
  <2> QED BY <2>2, <2>3
<1>10. Amid(q, c, k - 1) = O \cup {h} \cup NewRest(q, c)
  BY <1>3 DEF Amid
<1>11. Amid(q, c, k) = IF Take(q, c, h) = h.remaining THEN O \cup NewRest(q, c)
                       ELSE O \cup {Served(q, c, h)} \cup NewRest(q, c)
  <2>1. CASE Take(q, c, h) = h.remaining
    <3>1. {PartOf(q, c, k, o) : o \in Spared(q, c, k)} = O
      BY <1>5, <1>7, <2>1
    <3> QED BY <2>1, <3>1 DEF Amid
  <2>2. CASE Take(q, c, h) # h.remaining
    <3>1. {PartOf(q, c, k, o) : o \in Spared(q, c, k)} = O \cup {Served(q, c, h)}
      BY <1>3, <1>5, <1>6, <1>7, <2>2
    <3> HIDE DEF O
    <3> QED BY <2>2, <3>1 DEF Amid
  <2> QED BY <2>1, <2>2
<1> HIDE DEF O
<1>12. Amid(q, c, k - 1) \ {h} = O \cup NewRest(q, c)
  BY <1>9, <1>10
<1> QED BY <1>4, <1>11, <1>12

\* before the first fill, and after the last
LEMMA AmidEnds ==
  ASSUME NEW q, NEW c, Trading(q, c)
  PROVE  /\ Amid(q, c, 0) = (Resting(q) \ Own(q, c)) \cup NewRest(q, c)
         /\ Amid(q, c, Cardinality(Hit(q, c))) = Resting(Match(q, c).queue)
         /\ WellFormed(Match(q, c).queue)
<1> DEFINE n == Cardinality(Hit(q, c))
<1>1. Hits(q, c, 0) = {} /\ Hits(q, c, n) = Hit(q, c)
  BY HitList
<1>2. Amid(q, c, 0) = (Resting(q) \ Own(q, c)) \cup NewRest(q, c)
  <2>1. Spared(q, c, 0) = Resting(q) \ Own(q, c)
    BY <1>1 DEF Spared
  <2>2. \A o : PartOf(q, c, 0, o) = o
    BY <1>1 DEF PartOf
  <2> QED BY <2>1, <2>2 DEF Amid
<1>3. Amid(q, c, n) = {Served(q, c, o) : o \in Resting(q) \ Gone(q, c)} \cup NewRest(q, c)
  <2>1. Spared(q, c, n) = Resting(q) \ Gone(q, c)
    BY <1>1 DEF Spared, Gone
  <2>2. \A o : PartOf(q, c, n, o) = Served(q, c, o)
    BY <1>1 DEF PartOf, Served
  <2> HIDE DEF n
  <2> QED BY <2>1, <2>2 DEF Amid
<1>4. Remainder(q, c) \in Nat
  BY FilledWithin DEF Trading
<1> QED BY <1>2, <1>3, <1>4, KeptResting, MatchResting

\* what c was acked as filled and has not had the fill for, after k fills
Owed(q, c, k) == Taken(q, c, Facing(q, c) \ Hits(q, c, k))

LEMMA OwedStep ==
  ASSUME NEW q, NEW c, Trading(q, c)
  PROVE  /\ Owed(q, c, 0) = Filled(q, c)
         /\ Owed(q, c, Cardinality(Hit(q, c))) = 0
         /\ \A k \in 0 .. Cardinality(Hit(q, c)) : Owed(q, c, k) \in Nat
         /\ \A k \in 1 .. Cardinality(Hit(q, c)) :
              Owed(q, c, k) = Owed(q, c, k - 1) - Take(q, c, TheHits(q, c)[k])
<1> DEFINE n == Cardinality(Hit(q, c))
           D(k) == Facing(q, c) \ Hits(q, c, k)
<1>0. WellFormed(q) /\ c.qty \in Nat
  BY DEF Trading
<1>1. \A k : D(k) \subseteq Facing(q, c)
  OBVIOUS
<1>2. Hits(q, c, 0) = {} /\ Hits(q, c, n) = Hit(q, c) /\ n \in Nat
  BY HitList
<1>3. Owed(q, c, 0) = Filled(q, c)
  BY <1>0, <1>2, FilledWithin DEF Owed
<1>4. \A k : Owed(q, c, k) \in Nat /\ IsFiniteSet(D(k))
  <2> HIDE DEF D
  <2>1. \A k : Taken(q, c, D(k)) \in Nat /\ IsFiniteSet(D(k))
    BY <1>0, <1>1, TakenNat
  <2> QED BY <2>1 DEF Owed, D
<1>5. Owed(q, c, n) = 0
  <2> DEFINE f == [o \in Facing(q, c) |-> Take(q, c, o)]
  <2>1. ASSUME NEW o \in D(n) PROVE f[o] = 0
    <3>1. o \in Facing(q, c) /\ o \notin Hit(q, c)
      BY <1>2
    <3>2. o \in Order
      BY <1>0, <3>1, FacingOrders
    <3>3. Take(q, c, o) \in Nat /\ ~(Take(q, c, o) > 0)
      BY <1>0, <3>1, <3>2, WantsTake DEF Hit
    <3> QED BY <3>1, <3>3
  <2>2. IsFiniteSet(D(n))
    BY <1>4
  <2>3. Owed(q, c, n) = SumFunctionOnSet(f, D(n))
    BY DEF Owed, Taken
  <2> HIDE DEF f, D
  <2> QED BY <2>1, <2>2, <2>3, SumZero
<1>6. ASSUME NEW k \in 1 .. n
      PROVE  Owed(q, c, k) = Owed(q, c, k - 1) - Take(q, c, TheHits(q, c)[k])
  <2> DEFINE h == TheHits(q, c)[k]
  <2>1. h \in Hit(q, c) /\ h \notin Hits(q, c, k - 1) /\ Hits(q, c, k) = Hits(q, c, k - 1) \cup {h}
    BY HitList
  <2>2. h \in D(k - 1) /\ D(k) = D(k - 1) \ {h}
    BY <2>1 DEF Hit
  <2> HIDE DEF D, h
  <2>3. Taken(q, c, D(k - 1)) = Take(q, c, h) + Taken(q, c, D(k - 1) \ {h}) /\ Take(q, c, h) \in Nat
    BY <1>0, <1>1, <2>2, TakenNat
  <2>4. Owed(q, c, k - 1) = Taken(q, c, D(k - 1)) /\ Owed(q, c, k) = Taken(q, c, D(k))
    BY DEF Owed, D
  <2>5. Owed(q, c, k) \in Nat /\ Owed(q, c, k - 1) \in Nat
    BY <1>4
  <2> QED BY <2>2, <2>3, <2>4, <2>5 DEF h
<1> QED BY <1>3, <1>4, <1>5, <1>6

----------------------------------------------------------------------------
(* What the reports of an order tell.                                      *)

LEMMA SettleFields ==
  ASSUME NEW books \in [Agents -> Account], NEW c \in OrderFields, NEW f,
         f.maker \in Agents, f.maker # c.agent, f.px \in Int, f.qty \in Int
  PROVE  /\ Settle(books, c, f) \in [Agents -> Account]
         /\ Settle(books, c, f)[c.agent] =
              Charged(books[c.agent], c.side, f.px, f.qty, TakerFee * f.qty)
         /\ Settle(books, c, f)[f.maker] =
              Charged(books[f.maker], Opposite(c.side), f.px, f.qty, MakerFee * f.qty)
         /\ \A a \in Agents \ {c.agent, f.maker} : Settle(books, c, f)[a] = books[a]
<1> DEFINE t == Charged(books[c.agent], c.side, f.px, f.qty, TakerFee * f.qty)
           m == Charged(books[f.maker], Opposite(c.side), f.px, f.qty, MakerFee * f.qty)
           sign == TakerSign(c.side)
           m1 == Credit(books[f.maker], -sign * f.qty, sign * f.px * f.qty, MakerFee * f.qty)
<1>1. c.agent \in Agents /\ c.side \in Side /\ Opposite(c.side) \in Side
  BY DEF OrderFields, Opposite, Side
<1>2. TakerFee * f.qty \in Int /\ MakerFee * f.qty \in Int
  BY FeesAssumption
<1>3. t \in Account /\ m \in Account
  <2> HIDE DEF Charged
  <2> QED BY <1>1, <1>2, ChargedFields
<1>4. m1 = m
  <2>1. f.px * f.qty \in Int
    OBVIOUS
  <2>2. CASE c.side = Buy
    <3>1. TakerSign(c.side) = 1 /\ TakerSign(Opposite(c.side)) = -1
      BY <2>2 DEF TakerSign, Opposite, Buy, Sell
    <3>2. /\ -sign * f.qty = TakerSign(Opposite(c.side)) * f.qty
          /\ sign * f.px * f.qty = -TakerSign(Opposite(c.side)) * f.px * f.qty
      BY <2>1, <3>1
    <3> QED BY <3>2 DEF Charged
  <2>3. CASE c.side = Sell
    <3>1. TakerSign(c.side) = -1 /\ TakerSign(Opposite(c.side)) = 1
      BY <2>3 DEF TakerSign, Opposite, Buy, Sell
    <3>2. /\ -sign * f.qty = TakerSign(Opposite(c.side)) * f.qty
          /\ sign * f.px * f.qty = -TakerSign(Opposite(c.side)) * f.px * f.qty
      BY <2>1, <3>1
    <3> QED BY <3>2 DEF Charged
  <2> QED BY <1>1, <2>2, <2>3 DEF Side
<1> DEFINE paid == [books EXCEPT ![c.agent] = t]
<1>5. Settle(books, c, f) = [paid EXCEPT ![f.maker] = m1]
  <2>1. paid[f.maker] = books[f.maker]
    BY <1>1
  <2>2. Settle(books, c, f) = [paid EXCEPT ![f.maker] =
          Credit(paid[f.maker], -sign * f.qty, sign * f.px * f.qty, MakerFee * f.qty)]
    BY DEF Settle, Charged
  <2> HIDE DEF paid
  <2> QED BY <2>1, <2>2
<1>6. Settle(books, c, f) = [paid EXCEPT ![f.maker] = m]
  BY <1>4, <1>5
<1> HIDE DEF t, m
<1> QED BY <1>1, <1>3, <1>6 DEF t, m

LEMMA FillFields ==
  ASSUME NEW q, NEW c, Trading(q, c), NEW k \in 1 .. Cardinality(Hit(q, c)),
         NEW h, h = TheHits(q, c)[k], NEW f, f = Fills(q, c)[k]
  PROVE  /\ f.maker_id = h.id /\ f.maker = h.agent /\ f.px = h.px /\ f.qty = Take(q, c, h)
         /\ f.maker_remaining = h.remaining - f.qty
         /\ f.maker_id \in Ids /\ f.maker \in Agents /\ f.px \in Prices /\ f.qty \in Nat \ {0}
         /\ f.maker_remaining \in Nat /\ f.px \in Int /\ f.qty \in Int
         /\ f.maker # c.agent
<1>1. h \in Hit(q, c) /\ f = FillOf(h, Take(q, c, h))
  BY HitList
<1>2. /\ h \in Order /\ h.agent # c.agent
      /\ Take(q, c, h) \in Nat \ {0} /\ Take(q, c, h) <= h.remaining
  BY <1>1, HitOrders
<1>3. h.id \in Ids /\ h.agent \in Agents /\ h.px \in Prices /\ h.remaining \in Nat
  BY <1>2 DEF Order
<1>4. h.px \in Int
  <2>1. Prices \subseteq Nat
    BY PricesNat
  <2>2. h.px \in Nat
    BY <1>3, <2>1
  <2> QED BY <2>2
<1> QED BY <1>1, <1>2, <1>3, <1>4 DEF FillOf

OwnedBy(S, a) == {o \in S : o.agent = a}

OwedTo(q, c, k, a) == IF a = c.agent THEN Owed(q, c, k) ELSE 0

\* agent a knows the books, and what rests after k fills
Told(q, c, k, a, x, books) == Knows(x, books[a], OwnedBy(Amid(q, c, k), a), OwedTo(q, c, k, a))

MakerEntry(c, fills, k) ==
  [to |-> fills[k].maker,
   ev |-> FillEvent(fills[k].maker_id, 1, Opposite(c.side), fills[k],
                    fills[k].maker_remaining, MakerFee * fills[k].qty)]

TakerEntry(c, fills, k) ==
  [to |-> c.agent,
   ev |-> FillEvent(c.id, 0, c.side, fills[k], TakerRemaining(c, fills, k), TakerFee * fills[k].qty)]

TradeEvent(newTop) == [kind |-> "Trade", top |-> newTop]

LEMMA FillEventsAre ==
  ASSUME NEW c, NEW fills, NEW k, NEW newTop
  PROVE  FillEvents(c, fills, k, newTop) =
           <<MakerEntry(c, fills, k)>> \o <<TakerEntry(c, fills, k)>> \o Broadcast(TradeEvent(newTop))
  BY DEF FillEvents, Send, MakerRemaining, MakerEntry, TakerEntry, TradeEvent

\* what agent a makes of the three reports of a fill
LEMMA HeardFill ==
  ASSUME NEW c, NEW fills, NEW k, NEW newTop, NEW a, NEW x
  PROVE  Heard(a, x, FillEvents(c, fills, k, newTop)) =
           Heard(a, Learn(a, Learn(a, x, MakerEntry(c, fills, k)), TakerEntry(c, fills, k)),
                 Broadcast(TradeEvent(newTop)))
<1> DEFINE m == MakerEntry(c, fills, k)
           t == TakerEntry(c, fills, k)
           b == Broadcast(TradeEvent(newTop))
           S == {m, t} \cup {b[i] : i \in DOMAIN b}
           mt == <<m>> \o <<t>>
<1> HIDE DEF m, t
<1>1. <<m>> \in Seq(S) /\ <<t>> \in Seq(S) /\ mt \in Seq(S)
  OBVIOUS
<1>2. b \in Seq(S)
  <2>1. b = [i \in 1 .. Cardinality(Agents) |-> b[i]] /\ Cardinality(Agents) \in Nat
    BY AgentsAssumption, FS_CardinalityType DEF Broadcast
  <2> HIDE DEF b
  <2> QED BY <2>1
<1> HIDE DEF b, S
<1>3. Heard(a, x, mt) = Learn(a, Learn(a, x, m), t)
  <2>1. Then(a, x, <<m>>, <<t>>)
    BY <1>1, HeardConcat
  <2> QED BY <2>1, HeardOne DEF Then
<1> HIDE DEF mt
<1>4. Then(a, x, mt, b)
  BY <1>1, <1>2, HeardConcat
<1>5. FillEvents(c, fills, k, newTop) = mt \o b
  BY FillEventsAre DEF mt, b, m, t
<1> QED BY <1>3, <1>4, <1>5 DEF Then, b, m, t

\* one fill: its reports tell what it does
LEMMA ToldFill ==
  ASSUME NEW q, NEW c, Trading(q, c), NEW k \in 1 .. Cardinality(Hit(q, c)),
         NEW newTop, NEW a \in Agents, NEW x, NEW books \in [Agents -> Account],
         Told(q, c, k - 1, a, x, books)
  PROVE  Told(q, c, k, a, Heard(a, x, FillEvents(c, Fills(q, c), k, newTop)),
              Settle(books, c, Fills(q, c)[k]))
<1> DEFINE n == Cardinality(Hit(q, c))
           h == TheHits(q, c)[k]
           f == Fills(q, c)[k]
           me == MakerEntry(c, Fills(q, c), k)
           te == TakerEntry(c, Fills(q, c), k)
           next == Settle(books, c, f)
           S == OwnedBy(Amid(q, c, k - 1), a)
           T == OwnedBy(Amid(q, c, k), a)
           y == Learn(a, x, me)
           z == Learn(a, y, te)
<1>0. c \in OrderFields /\ c.side \in Side /\ Opposite(c.side) \in Side /\ c.agent \in Agents
  BY DEF Trading, OrderFields, Opposite, Side
<1>1. /\ f.maker_id = h.id /\ f.maker = h.agent /\ f.qty = Take(q, c, h)
      /\ f.maker_remaining = h.remaining - f.qty
      /\ f.maker \in Agents /\ f.maker_remaining \in Nat /\ f.px \in Int /\ f.qty \in Int
      /\ f.qty \in Nat /\ f.maker # c.agent
  BY FillFields
<1>2. /\ next[c.agent] = Charged(books[c.agent], c.side, f.px, f.qty, TakerFee * f.qty)
      /\ next[f.maker] = Charged(books[f.maker], Opposite(c.side), f.px, f.qty, MakerFee * f.qty)
      /\ \A b \in Agents \ {c.agent, f.maker} : next[b] = books[b]
  BY <1>0, <1>1, SettleFields
<1>3. /\ h \in Amid(q, c, k - 1)
      /\ Amid(q, c, k) = IF Take(q, c, h) = h.remaining
                         THEN Amid(q, c, k - 1) \ {h}
                         ELSE (Amid(q, c, k - 1) \ {h}) \cup {Served(q, c, h)}
  BY AmidStep
<1>4. n \in Nat /\ h \in Hit(q, c)
  BY HitList
<1>5. h.remaining \in Nat
  BY <1>4, HitOrders DEF Order
<1>6. Take(q, c, h) # h.remaining =>
        /\ Served(q, c, h).id = h.id /\ Served(q, c, h).agent = h.agent
        /\ Served(q, c, h).remaining = f.maker_remaining
  <2>1. ASSUME Take(q, c, h) # h.remaining PROVE h \in Resting(q) \ Gone(q, c)
    BY <1>4, <2>1, HitOrders DEF Gone
  <2> QED BY <1>1, <1>4, <2>1, ServedOrder
<1>7. Distinct(S)
  <2>1. k - 1 \in 0 .. n
    BY <1>4
  <2>2. Distinct(Amid(q, c, k - 1))
    BY <2>1, AmidDistinct
  <2> QED BY <2>2 DEF Distinct, OwnedBy
<1>8. TakerFee * f.qty \in Int /\ MakerFee * f.qty \in Int
  BY <1>1, FeesAssumption
<1>9. Knows(x, books[a], S, OwedTo(q, c, k - 1, a)) /\ books[a] \in Account
  BY DEF Told
<1>10. /\ Owed(q, c, k) = Owed(q, c, k - 1) - f.qty
       /\ Owed(q, c, k) \in Nat /\ Owed(q, c, k - 1) \in Nat
  <2>1. k \in 0 .. n /\ k - 1 \in 0 .. n
    BY <1>4
  <2> QED BY <1>1, <2>1, OwedStep
<1>11. /\ me = [to |-> f.maker, ev |-> FillEvent(h.id, 1, Opposite(c.side), f,
                                                 f.maker_remaining, MakerFee * f.qty)]
       /\ te = [to |-> c.agent, ev |-> FillEvent(c.id, 0, c.side, f,
                                                 TakerRemaining(c, Fills(q, c), k), TakerFee * f.qty)]
       /\ me.to = f.maker /\ te.to = c.agent
  BY <1>1 DEF MakerEntry, TakerEntry
<1> HIDE DEF n, h, f, me, te, next, y, z
<1>12. Knows(z, next[a], T, OwedTo(q, c, k, a))
  <2>1. CASE a = f.maker
    <3>1. a # c.agent /\ OwedTo(q, c, k, a) = 0 /\ OwedTo(q, c, k - 1, a) = 0
      BY <1>1, <2>1 DEF OwedTo
    <3>2. h \in S
      BY <1>1, <1>3, <2>1 DEF OwnedBy
    <3> DEFINE w == [id |-> h.id, remaining |-> f.maker_remaining]
               u == IF Take(q, c, h) # h.remaining THEN Served(q, c, h) ELSE w
    <3>3. u.id = h.id /\ u.remaining = f.maker_remaining
          /\ (Take(q, c, h) # h.remaining => u = Served(q, c, h))
      <4>1. w.id = h.id /\ w.remaining = f.maker_remaining
        OBVIOUS
      <4> HIDE DEF w
      <4> QED BY <1>6, <4>1
    <3> HIDE DEF u
    <3>4. T = IF f.maker_remaining = 0 THEN S \ {h} ELSE (S \ {h}) \cup {u}
      <4>1. (f.maker_remaining = 0) <=> (Take(q, c, h) = h.remaining)
        BY <1>1, <1>5
      <4>2. CASE Take(q, c, h) = h.remaining
        BY <1>3, <4>1, <4>2 DEF OwnedBy
      <4>3. CASE Take(q, c, h) # h.remaining
        <5>1. u = Served(q, c, h) /\ u.agent = a
          BY <1>1, <1>6, <2>1, <3>3, <4>3
        <5> QED BY <1>3, <4>1, <4>3, <5>1 DEF OwnedBy
      <4> QED BY <4>2, <4>3
    <3> HIDE DEF S, T
    <3>5. Knows(Learn(a, x, [to |-> a, ev |-> FillEvent(h.id, 1, Opposite(c.side), f,
                                                        f.maker_remaining, MakerFee * f.qty)]),
                Charged(books[a], Opposite(c.side), f.px, f.qty, MakerFee * f.qty),
                IF f.maker_remaining = 0 THEN S \ {h} ELSE (S \ {h}) \cup {u},
                OwedTo(q, c, k - 1, a))
      BY <1>0, <1>1, <1>7, <1>8, <1>9, <3>2, <3>3, LearnMakerFill
    <3>6. Knows(y, next[a], T, OwedTo(q, c, k, a))
      BY <1>2, <1>11, <2>1, <3>1, <3>4, <3>5 DEF y
    <3>7. z = y
      BY <1>11, <3>1, LearnOther DEF z
    <3> QED BY <3>6, <3>7
  <2>2. CASE a = c.agent
    <3>1. a # f.maker /\ OwedTo(q, c, k, a) = Owed(q, c, k) /\ OwedTo(q, c, k - 1, a) = Owed(q, c, k - 1)
      BY <1>1, <2>2 DEF OwedTo
    <3>2. T = S
      BY <1>1, <1>3, <1>6, <3>1 DEF OwnedBy
    <3>3. y = x
      BY <1>11, <3>1, LearnOther DEF y
    <3> HIDE DEF S, T
    <3>4. f.qty <= Owed(q, c, k - 1) /\ Owed(q, c, k - 1) \in Int
      BY <1>1, <1>10
    <3>5. Knows(x, books[a], S, Owed(q, c, k - 1))
      BY <1>9, <3>1
    <3>6. Knows(Learn(a, x, [to |-> a, ev |-> FillEvent(c.id, 0, c.side, f,
                                TakerRemaining(c, Fills(q, c), k), TakerFee * f.qty)]),
                Charged(books[a], c.side, f.px, f.qty, TakerFee * f.qty), S, Owed(q, c, k - 1) - f.qty)
      BY <1>0, <1>1, <1>8, <1>9, <3>4, <3>5, LearnTakerFill
    <3> QED BY <1>2, <1>10, <1>11, <2>2, <3>1, <3>2, <3>3, <3>6 DEF z
  <2>3. CASE a # f.maker /\ a # c.agent
    <3>1. OwedTo(q, c, k, a) = OwedTo(q, c, k - 1, a)
      BY <2>3 DEF OwedTo
    <3>2. T = S
      BY <1>1, <1>3, <1>6, <2>3 DEF OwnedBy
    <3>3. y = x /\ z = x
      BY <1>11, <2>3, LearnOther DEF y, z
    <3>4. next[a] = books[a]
      BY <1>2, <2>3
    <3> QED BY <1>9, <3>1, <3>2, <3>3, <3>4
  <2> QED BY <2>1, <2>2, <2>3
<1>13. TradeEvent(newTop).kind \in {"SessionStart", "Trade", "BookUpdate"}
  BY DEF TradeEvent
<1>14. Knows(Heard(a, z, Broadcast(TradeEvent(newTop))), next[a], T, OwedTo(q, c, k, a))
  <2> HIDE DEF T
  <2> QED BY <1>12, <1>13, HeardBroadcast
<1>15. Heard(a, x, FillEvents(c, Fills(q, c), k, newTop)) = Heard(a, z, Broadcast(TradeEvent(newTop)))
  BY HeardFill DEF z, y, me, te
<1> QED BY <1>14, <1>15 DEF Told, next, f

----------------------------------------------------------------------------
(* Events are of their types.                                              *)

LEMMA BroadcastEntries ==
  ASSUME NEW ev \in Event
  PROVE  Broadcast(ev) \in Seq(Entry)
<1> DEFINE n == Cardinality(Agents)
           b == Broadcast(ev)
<1>1. n \in Nat
  BY AgentsAssumption, CardinalityNat
<1>2. b = [k \in 1 .. n |-> [to |-> k - 1, ev |-> ev]]
  BY DEF Broadcast
<1> HIDE DEF b
<1>3. ASSUME NEW k \in 1 .. n PROVE [to |-> k - 1, ev |-> ev] \in Entry
  <2>1. k - 1 \in Agents
    BY <1>1, AgentsAssumption
  <2> HIDE DEF n
  <2> QED BY <2>1 DEF Entry
<1> HIDE DEF n
<1>4. \A k \in 1 .. n : b[k] \in Entry
  BY <1>2, <1>3
<1>5. b = [k \in 1 .. n |-> b[k]]
  BY <1>2
<1>6. b \in Seq(Entry)
  BY <1>1, <1>4, <1>5
<1> QED BY <1>6 DEF b

LEMMA FillEventType ==
  ASSUME NEW id \in Ids, NEW is_maker \in {0, 1}, NEW side \in Side, NEW f, f.px \in Prices,
         f.qty \in Nat \ {0}, NEW remaining \in Int, NEW fee \in Int
  PROVE  FillEvent(id, is_maker, side, f, remaining, fee) \in Event
  BY DEF FillEvent, Event

LEMMA OwnEventTypes ==
  ASSUME NEW id \in Ids
  PROVE  /\ \A reason \in Reasons : Rejected(id, reason) \in Event
         /\ \A remaining \in Nat \ {0} : Cancelled(id, remaining) \in Event
         /\ \A qty, remaining \in Nat : Ack(id, qty, remaining) \in Event
  BY DEF Rejected, Cancelled, Ack, Event

LEMMA SendEntries ==
  ASSUME NEW to \in Agents, NEW ev \in Event
  PROVE  Send(to, ev) \in Seq(Entry) /\ [to |-> to, ev |-> ev] \in Entry
  BY DEF Send, Entry

LEMMA MarketEventTypes ==
  ASSUME NEW t \in [Side -> Quote]
  PROVE  TradeEvent(t) \in Event /\ [kind |-> "BookUpdate", top |-> t] \in Event
  BY DEF TradeEvent, Event

LEMMA FillEntries ==
  ASSUME NEW q, NEW c, Trading(q, c), NEW k \in 1 .. Cardinality(Hit(q, c)), NEW t \in [Side -> Quote]
  PROVE  FillEvents(c, Fills(q, c), k, t) \in Seq(Entry)
<1> DEFINE fills == Fills(q, c)
           f == fills[k]
           m == MakerEntry(c, fills, k)
           e == TakerEntry(c, fills, k)
           n == Cardinality(Hit(q, c))
<1>0. c.id \in Ids /\ c.agent \in Agents /\ c.side \in Side /\ Opposite(c.side) \in Side /\ c.qty \in Nat
  BY DEF Trading, OrderFields, Opposite, Side
<1>1. /\ f.maker_id \in Ids /\ f.maker \in Agents /\ f.px \in Prices /\ f.qty \in Nat \ {0}
      /\ f.maker_remaining \in Int
  <2>1. \A i \in 1 .. n : /\ fills[i].maker_id \in Ids /\ fills[i].maker \in Agents
                          /\ fills[i].px \in Prices /\ fills[i].qty \in Nat \ {0}
                          /\ fills[i].maker_remaining \in Nat
    BY FillFields
  <2> HIDE DEF fills
  <2> QED BY <2>1
<1>2. TakerRemaining(c, fills, k) \in Int
  <2> DEFINE g == [i \in DOMAIN fills |-> fills[i].qty]
  <2>1. n \in Nat /\ DOMAIN fills = 1 .. n
    BY HitList
  <2>2. \A i \in 1 .. n : fills[i].qty \in Int
    BY FillFields
  <2>3. \A i \in 1 .. k : g[i] \in Int
    BY <2>1, <2>2
  <2>4. IsFiniteSet(1 .. k)
    BY <2>1, FS_Interval
  <2>5. TakerRemaining(c, fills, k) = c.qty - SumFunctionOnSet(g, 1 .. k)
    BY DEF TakerRemaining
  <2> HIDE DEF g, fills, n
  <2>6. SumFunctionOnSet(g, 1 .. k) \in Int
    BY <2>3, <2>4, SumInt
  <2> QED BY <1>0, <2>5, <2>6
<1>3. TakerFee * f.qty \in Int /\ MakerFee * f.qty \in Int
  BY <1>1, FeesAssumption
<1> HIDE DEF fills
<1>4. m \in Entry
  <2>1. FillEvent(f.maker_id, 1, Opposite(c.side), f, f.maker_remaining, MakerFee * f.qty) \in Event
    BY <1>0, <1>1, <1>3, FillEventType
  <2> HIDE DEF f
  <2> QED BY <1>1, <2>1, SendEntries DEF MakerEntry, f
<1>5. e \in Entry
  <2>1. FillEvent(c.id, 0, c.side, f, TakerRemaining(c, fills, k), TakerFee * f.qty) \in Event
    BY <1>0, <1>1, <1>2, <1>3, FillEventType
  <2> HIDE DEF f
  <2> QED BY <1>0, <2>1, SendEntries DEF TakerEntry, f
<1>6. Broadcast(TradeEvent(t)) \in Seq(Entry)
  BY MarketEventTypes, BroadcastEntries
<1>7. FillEvents(c, fills, k, t) = <<m>> \o <<e>> \o Broadcast(TradeEvent(t))
  BY FillEventsAre
<1> HIDE DEF m, e
<1>8. <<m>> \o <<e>> \in Seq(Entry)
  <2>1. <<m>> \in Seq(Entry) /\ <<e>> \in Seq(Entry)
    BY <1>4, <1>5
  <2> QED BY <2>1
<1>9. (<<m>> \o <<e>>) \o Broadcast(TradeEvent(t)) \in Seq(Entry)
  <2> DEFINE b == Broadcast(TradeEvent(t))
             w == <<m>> \o <<e>>
  <2> HIDE DEF b, w
  <2>1. b \in Seq(Entry) /\ w \in Seq(Entry)
    BY <1>6, <1>8 DEF b, w
  <2>2. w \o b \in Seq(Entry)
    BY <2>1
  <2> QED BY <2>2 DEF b, w
<1> QED BY <1>7, <1>9 DEF fills

----------------------------------------------------------------------------
(* All fills of an order.                                                  *)

\* the reports of the fills, fill by fill
Groups(q, c, t) == [k \in DOMAIN Fills(q, c) |-> FillEvents(c, Fills(q, c), k, t)]

LEMMA GroupsAre ==
  ASSUME NEW q, NEW c, Trading(q, c), NEW t \in [Side -> Quote]
  PROVE  /\ Groups(q, c, t) \in Seq(Seq(Entry))
         /\ Len(Groups(q, c, t)) = Cardinality(Hit(q, c))
         /\ \A k \in 1 .. Cardinality(Hit(q, c)) :
              Groups(q, c, t)[k] = FillEvents(c, Fills(q, c), k, t)
<1> DEFINE n == Cardinality(Hit(q, c))
           g == Groups(q, c, t)
<1>1. n \in Nat /\ DOMAIN Fills(q, c) = 1 .. n
  BY HitList
<1>2. \A k \in 1 .. n : FillEvents(c, Fills(q, c), k, t) \in Seq(Entry)
  BY FillEntries
<1>3. g = [k \in 1 .. n |-> FillEvents(c, Fills(q, c), k, t)]
  BY <1>1 DEF Groups
<1> HIDE DEF g, n
<1>4. /\ \A k \in 1 .. n : g[k] = FillEvents(c, Fills(q, c), k, t) /\ g[k] \in Seq(Entry)
      /\ g = [k \in 1 .. n |-> g[k]]
  BY <1>2, <1>3
<1>5. g \in Seq(Seq(Entry)) /\ Len(g) = n
  BY <1>1, <1>4
<1> QED BY <1>4, <1>5 DEF g, n

LEMMA FillsTold ==
  ASSUME NEW q, NEW c, Trading(q, c), NEW t \in [Side -> Quote], NEW a \in Agents, NEW x,
         NEW books \in [Agents -> Account], Told(q, c, 0, a, x, books)
  PROVE  Told(q, c, Cardinality(Hit(q, c)), a, Heard(a, x, FlattenSeq(Groups(q, c, t))),
              SettleAll(books, c, Fills(q, c)))
<1> DEFINE n == Cardinality(Hit(q, c))
           fills == Fills(q, c)
           gs == Groups(q, c, t)
<1>1. n \in Nat /\ Len(fills) = n /\ DOMAIN fills = 1 .. n
  BY HitList
<1>2. gs \in Seq(Seq(Entry)) /\ Len(gs) = n
      /\ \A k \in 1 .. n : gs[k] = FillEvents(c, fills, k, t)
  BY GroupsAre
<1>3. \A k \in 1 .. n : gs[k] \in Seq(Entry)
  BY FillEntries, <1>2
<1> HIDE DEF fills, gs, n
<1>4. PICK g : IsJoining(gs, g) /\ FlattenSeq(gs) = g[Len(gs)] /\ \A k \in 0 .. Len(gs) : g[k] \in Seq(Entry)
  BY <1>2, FlattenRuns
<1>5. PICK h : IsSettling(c, books, fills, h) /\ SettleAll(books, c, fills) = h[Len(fills)]
  BY <1>1, SettleAllRuns
<1> DEFINE P(k) == h[k] \in [Agents -> Account] /\ Told(q, c, k, a, Heard(a, x, g[k]), h[k])
           bad == {k \in 0 .. n : ~P(k)}
<1>6. P(0)
  <2>1. h[0] = books /\ g[0] = <<>>
    BY <1>4, <1>5 DEF IsSettling, IsJoining
  <2>2. Heard(a, x, <<>>) = x
    BY HeardNothing
  <2> QED BY <2>1, <2>2
<1>7. ASSUME NEW k \in 1 .. n, P(k - 1) PROVE P(k)
  <2>1. h[k] = Settle(h[k - 1], c, fills[k]) /\ g[k] = g[k - 1] \o gs[k]
    BY <1>1, <1>2, <1>4, <1>5 DEF IsSettling, IsJoining
  <2>2. g[k - 1] \in Seq(Entry) /\ gs[k] \in Seq(Entry)
    <3>1. k - 1 \in 0 .. Len(gs)
      BY <1>1, <1>2
    <3> QED BY <1>3, <1>4, <3>1
  <2>3. Then(a, x, g[k - 1], gs[k])
    BY <2>2, HeardConcat
  <2>4. Heard(a, x, g[k]) = Heard(a, Heard(a, x, g[k - 1]), FillEvents(c, fills, k, t))
    BY <1>2, <2>1, <2>3 DEF Then
  <2> DEFINE y == Heard(a, x, g[k - 1])
             b == h[k - 1]
  <2> HIDE DEF y, b
  <2>5. b \in [Agents -> Account] /\ Told(q, c, k - 1, a, y, b)
    BY <1>7 DEF y, b
  <2>6. k \in 1 .. Cardinality(Hit(q, c))
    BY DEF n
  <2>7. Told(q, c, k, a, Heard(a, y, FillEvents(c, Fills(q, c), k, t)), Settle(b, c, Fills(q, c)[k]))
    BY <2>5, <2>6, ToldFill
  <2>8. Settle(b, c, Fills(q, c)[k]) \in [Agents -> Account]
    <3> DEFINE f == Fills(q, c)[k]
    <3>1. f.maker \in Agents /\ f.maker # c.agent /\ f.px \in Int /\ f.qty \in Int
      BY <2>6, FillFields
    <3>2. c \in OrderFields
      BY DEF Trading
    <3> HIDE DEF f
    <3>3. Settle(b, c, f) \in [Agents -> Account]
      BY <2>5, <3>1, <3>2, SettleFields
    <3> QED BY <3>3 DEF f
  <2>9. h[k] = Settle(b, c, Fills(q, c)[k])
        /\ Heard(a, x, g[k]) = Heard(a, y, FillEvents(c, Fills(q, c), k, t))
    BY <2>1, <2>4 DEF y, b, fills
  <2> QED BY <2>7, <2>8, <2>9
<1>8. bad = {}
  <2>1. SUFFICES ASSUME bad # {} PROVE FALSE
    OBVIOUS
  <2>2. bad \in SUBSET Nat
    BY <1>1
  <2>3. PICK k \in bad : \A y \in bad : k <= y
    <3> HIDE DEF bad
    <3> QED BY <2>1, <2>2, Least
  <2>4. k # 0 /\ k \in 0 .. n
    BY <1>6, <2>3
  <2>5. k \in 1 .. n /\ k - 1 \in 0 .. n /\ k - 1 < k
    BY <1>1, <2>4
  <2>6. k - 1 \notin bad
    BY <1>1, <2>3, <2>5
  <2>7. P(k - 1)
    BY <2>5, <2>6
  <2>8. P(k)
    BY <1>7, <2>5, <2>7
  <2> QED BY <2>3, <2>8
<1>9. P(n)
  BY <1>1, <1>8
<1> QED BY <1>1, <1>2, <1>4, <1>5, <1>9 DEF gs, fills, n

----------------------------------------------------------------------------
(* All reports of an order: the cancels of self-trade prevention, the ack, *)
(* the fills.                                                              *)

TheOwn(q, c) == Ranked(q, Own(q, c))

\* the first k orders that self-trade prevention cancels
Owns(q, c, k) == {TheOwn(q, c)[i] : i \in 1 .. k}

CancelEntry(o) == [to |-> o.agent, ev |-> Cancelled(o.id, o.remaining)]

LEMMA OwnList ==
  ASSUME NEW q, NEW c, Trading(q, c)
  PROVE  /\ Cardinality(Own(q, c)) \in Nat
         /\ StpEvents(SelfTrades(q, c)) =
              [k \in 1 .. Cardinality(Own(q, c)) |-> CancelEntry(TheOwn(q, c)[k])]
         /\ Owns(q, c, 0) = {} /\ Owns(q, c, Cardinality(Own(q, c))) = Own(q, c)
         /\ \A k \in 1 .. Cardinality(Own(q, c)) :
              LET o == TheOwn(q, c)[k]
              IN /\ o \in Own(q, c) /\ o \notin Owns(q, c, k - 1)
                 /\ Owns(q, c, k) = Owns(q, c, k - 1) \cup {o}
<1> DEFINE t == TheOwn(q, c)
           n == Cardinality(Own(q, c))
<1>0. WellFormed(q)
  BY DEF Trading
<1>1. Enumerates(t, n, Own(q, c)) /\ DOMAIN t = 1 .. n
  <2>1. Own(q, c) \subseteq Facing(q, c)
    BY DEF Own
  <2> QED BY <1>0, <2>1, FacingSubset DEF TheOwn
<1>2. SelfTrades(q, c) = [k \in DOMAIN t |-> CancelOf(t[k])]
  BY DEF SelfTrades, CancelOf, TheOwn
<1> HIDE DEF t, n
<1>3. /\ n \in Nat /\ \A i \in 1 .. n : t[i] \in Own(q, c)
      /\ \A o \in Own(q, c) : \E i \in 1 .. n : t[i] = o
      /\ \A i, j \in 1 .. n : t[i] = t[j] => i = j
  BY <1>1 DEF Enumerates
<1>4. StpEvents(SelfTrades(q, c)) = [k \in 1 .. n |-> CancelEntry(t[k])]
  <2> DEFINE st == SelfTrades(q, c)
  <2>1. DOMAIN st = 1 .. n /\ \A k \in 1 .. n : st[k] = CancelOf(t[k])
    BY <1>1, <1>2
  <2>2. \A k \in 1 .. n : [to |-> st[k].agent, ev |-> Cancelled(st[k].id, st[k].remaining)] = CancelEntry(t[k])
    BY <2>1 DEF CancelOf, CancelEntry
  <2> HIDE DEF st
  <2>3. StpEvents(st) = [k \in 1 .. n |-> CancelEntry(t[k])]
    BY <2>1, <2>2 DEF StpEvents
  <2> QED BY <2>3 DEF st
<1>5. \A k : Owns(q, c, k) = {t[i] : i \in 1 .. k}
  BY DEF Owns, t
<1>6. Owns(q, c, 0) = {} /\ Owns(q, c, n) = Own(q, c)
  <2>1. Owns(q, c, 0) = {}
    <3>1. Owns(q, c, 0) = {t[i] : i \in 1 .. 0} /\ 1 .. 0 = {}
      BY <1>5
    <3> QED BY <3>1
  <2>2. Owns(q, c, n) = {t[i] : i \in 1 .. n}
    BY <1>5
  <2> QED BY <1>3, <2>1, <2>2
<1>7. ASSUME NEW k \in 1 .. n
      PROVE  /\ t[k] \in Own(q, c) /\ t[k] \notin Owns(q, c, k - 1)
             /\ Owns(q, c, k) = Owns(q, c, k - 1) \cup {t[k]}
  <2>1. 1 .. k = (1 .. (k - 1)) \cup {k} /\ \A i \in 1 .. (k - 1) : i \in 1 .. n /\ i # k
    BY <1>3
  <2>2. t[k] \notin Owns(q, c, k - 1)
    BY <1>3, <1>5, <2>1
  <2>3. Owns(q, c, k) = Owns(q, c, k - 1) \cup {t[k]}
    BY <1>5, <2>1
  <2> QED BY <1>3, <2>2, <2>3
<1> QED BY <1>3, <1>4, <1>6, <1>7 DEF t, n

LEMMA StpEntries ==
  ASSUME NEW q, NEW c, Trading(q, c)
  PROVE  /\ StpEvents(SelfTrades(q, c)) \in Seq(Entry)
         /\ Len(StpEvents(SelfTrades(q, c))) = Cardinality(Own(q, c))
<1> DEFINE n == Cardinality(Own(q, c))
           t == TheOwn(q, c)
           s == StpEvents(SelfTrades(q, c))
<1>1. /\ n \in Nat /\ s = [k \in 1 .. n |-> CancelEntry(t[k])]
      /\ \A k \in 1 .. n : t[k] \in Own(q, c)
  BY OwnList
<1>2. ASSUME NEW k \in 1 .. n PROVE CancelEntry(t[k]) \in Entry
  <2>1. t[k] \in Order
    BY <1>1, OwnFacing
  <2> HIDE DEF t
  <2>2. t[k].agent \in Agents /\ t[k].id \in Ids /\ t[k].remaining \in Nat \ {0}
    BY <2>1 DEF Order
  <2>3. Cancelled(t[k].id, t[k].remaining) \in Event
    BY <2>2, OwnEventTypes
  <2> QED BY <2>2, <2>3, SendEntries DEF CancelEntry
<1> HIDE DEF n, s, t
<1>3. \A k \in 1 .. n : s[k] \in Entry
  BY <1>1, <1>2
<1>4. s = [k \in 1 .. n |-> s[k]]
  BY <1>1
<1>5. s \in Seq(Entry) /\ Len(s) = n
  BY <1>1, <1>3, <1>4
<1> QED BY <1>5 DEF n, s

(* The cancels of self-trade prevention take its own orders out of what an *)
(* agent knows to be open.                                                 *)
LEMMA StpTold ==
  ASSUME NEW q, NEW c, Trading(q, c), NEW a \in Agents, NEW x, NEW m,
         Knows(x, m, OwnedBy(Resting(q), a), 0)
  PROVE  Knows(Heard(a, x, StpEvents(SelfTrades(q, c))), m, OwnedBy(Resting(q) \ Own(q, c), a), 0)
<1> DEFINE n == Cardinality(Own(q, c))
           t == TheOwn(q, c)
           s == StpEvents(SelfTrades(q, c))
           R(k) == OwnedBy(Resting(q) \ Owns(q, c, k), a)
<1>1. /\ n \in Nat /\ s = [k \in 1 .. n |-> CancelEntry(t[k])]
      /\ Owns(q, c, 0) = {} /\ Owns(q, c, n) = Own(q, c)
      /\ \A k \in 1 .. n : /\ t[k] \in Own(q, c) /\ t[k] \notin Owns(q, c, k - 1)
                           /\ Owns(q, c, k) = Owns(q, c, k - 1) \cup {t[k]}
  BY OwnList
<1>2. Len(s) = n /\ DOMAIN s = 1 .. n
  BY <1>1
<1> HIDE DEF s
<1>3. PICK h : IsStory(a, x, s, h) /\ Heard(a, x, s) = h[Len(s)]
  <2>1. Len(s) \in Nat /\ DOMAIN s = 1 .. Len(s)
    BY <1>1, <1>2
  <2> QED BY <2>1, HeardRuns
<1> DEFINE P(k) == Knows(h[k], m, R(k), 0)
           bad == {k \in 0 .. n : ~P(k)}
<1>4. P(0)
  <2>1. h[0] = x
    BY <1>3 DEF IsStory
  <2>2. R(0) = OwnedBy(Resting(q), a)
    BY <1>1
  <2> QED BY <2>1, <2>2
<1>5. ASSUME NEW k \in 1 .. n, P(k - 1) PROVE P(k)
  <2>1. h[k] = Learn(a, h[k - 1], CancelEntry(t[k]))
    BY <1>1, <1>2, <1>3 DEF IsStory
  <2> DEFINE o == t[k]
             y == h[k - 1]
  <2>2. o \in Own(q, c) /\ o \notin Owns(q, c, k - 1) /\ Owns(q, c, k) = Owns(q, c, k - 1) \cup {o}
    BY <1>1
  <2>3. o \in Resting(q) /\ o.agent = c.agent
    BY <2>2, OwnFacing
  <2>4. Knows(y, m, R(k - 1), 0)
    BY <1>5
  <2>5. Distinct(R(k - 1))
    BY DEF Trading, Distinct, OwnedBy
  <2> HIDE DEF o, y
  <2>6. CASE a = c.agent
    <3>1. o \in R(k - 1) /\ R(k) = R(k - 1) \ {o}
      BY <2>2, <2>3, <2>6 DEF OwnedBy
    <3> HIDE DEF R
    <3>2. Knows(Learn(a, y, [to |-> a, ev |-> Cancelled(o.id, o.remaining)]), m, R(k - 1) \ {o}, 0)
      BY <2>4, <2>5, <3>1, LearnCancelled
    <3>3. CancelEntry(o) = [to |-> a, ev |-> Cancelled(o.id, o.remaining)]
      BY <2>3, <2>6 DEF CancelEntry
    <3> QED BY <2>1, <3>1, <3>2, <3>3 DEF o, y
  <2>7. CASE a # c.agent
    <3>1. R(k) = R(k - 1)
      BY <2>2, <2>3, <2>7 DEF OwnedBy
    <3>2. CancelEntry(o).to # a
      BY <2>3, <2>7 DEF CancelEntry
    <3>3. Learn(a, y, CancelEntry(o)) = y
      BY <3>2, LearnOther
    <3> HIDE DEF R
    <3> QED BY <2>1, <2>4, <3>1, <3>3 DEF o, y
  <2> QED BY <2>6, <2>7
<1>6. bad = {}
  <2>1. SUFFICES ASSUME bad # {} PROVE FALSE
    OBVIOUS
  <2> HIDE DEF P, n
  <2>2. bad \in SUBSET Nat
    BY <1>1
  <2>3. PICK k \in bad : \A y \in bad : k <= y
    <3> HIDE DEF bad
    <3> QED BY <2>1, <2>2, Least
  <2>4. k # 0 /\ k \in 0 .. n
    BY <1>4, <2>3
  <2>5. k \in 1 .. n /\ k - 1 \in 0 .. n /\ k - 1 < k
    BY <1>1, <2>4
  <2>6. k - 1 \notin bad
    BY <1>1, <2>3, <2>5
  <2>7. P(k - 1)
    BY <2>5, <2>6
  <2>8. P(k)
    BY <1>5, <2>5, <2>7
  <2> QED BY <2>3, <2>8
<1>7. P(n)
  <2> HIDE DEF P, n
  <2> QED BY <1>1, <1>6
<1> QED BY <1>1, <1>2, <1>3, <1>7 DEF s

\* the ack then tells what rests and what will be filled
LEMMA AckTold ==
  ASSUME NEW q, NEW c, Trading(q, c), NEW a \in Agents, NEW y, NEW books,
         Knows(y, books[a], OwnedBy(Resting(q) \ Own(q, c), a), 0)
  PROVE  Told(q, c, 0, a, Heard(a, y, Send(c.agent, Ack(c.id, Filled(q, c), Remainder(q, c)))), books)
<1> DEFINE e == [to |-> c.agent, ev |-> Ack(c.id, Filled(q, c), Remainder(q, c))]
           S == OwnedBy(Resting(q) \ Own(q, c), a)
           T == OwnedBy(Amid(q, c, 0), a)
           o == NewOrder(q, c)
<1>1. Amid(q, c, 0) = (Resting(q) \ Own(q, c)) \cup NewRest(q, c)
  BY AmidEnds
<1>2. Filled(q, c) \in Nat /\ Remainder(q, c) \in Nat
  BY FilledWithin DEF Trading
<1>3. Owed(q, c, 0) = Filled(q, c)
  BY OwedStep
<1>4. o.id = c.id /\ o.remaining = Remainder(q, c) /\ o.agent = c.agent
  BY DEF NewOrder
<1>5. Heard(a, y, Send(c.agent, Ack(c.id, Filled(q, c), Remainder(q, c)))) = Learn(a, y, e)
  BY HeardOne DEF Send
<1>6. CASE a = c.agent
  <2>1. T = IF Remainder(q, c) > 0 THEN S \cup {o} ELSE S
    <3> HIDE DEF o
    <3>1. NewRest(q, c) = IF Remainder(q, c) > 0 THEN {o} ELSE {}
      BY DEF NewRest, o
    <3> QED BY <1>1, <1>4, <1>6, <3>1 DEF OwnedBy
  <2>2. o.id \notin {r.id : r \in S}
    BY <1>4 DEF Trading, LiveIds, OwnedBy
  <2>3. e = [to |-> a, ev |-> Ack(o.id, Filled(q, c), o.remaining)]
    BY <1>4, <1>6
  <2> HIDE DEF S, T, o, e
  <2>4. Knows(y, books[a], S, 0)
    BY DEF S
  <2>5. o.remaining \in Nat
    BY <1>2, <1>4
  <2>6. Knows(Learn(a, y, [to |-> a, ev |-> Ack(o.id, Filled(q, c), o.remaining)]), books[a],
              IF o.remaining > 0 THEN S \cup {o} ELSE S, Filled(q, c))
    BY <1>2, <2>2, <2>4, <2>5, LearnAck
  <2>7. T = IF o.remaining > 0 THEN S \cup {o} ELSE S
    BY <1>4, <2>1
  <2>8. OwedTo(q, c, 0, a) = Filled(q, c)
    BY <1>3, <1>6 DEF OwedTo
  <2>9. Knows(Learn(a, y, e), books[a], T, OwedTo(q, c, 0, a))
    BY <2>3, <2>6, <2>7, <2>8
  <2> QED BY <1>5, <2>9 DEF Told, T
<1>7. CASE a # c.agent
  <2>1. T = S
    BY <1>1, <1>7, NewRestFields DEF OwnedBy
  <2>2. Learn(a, y, e) = y
    BY <1>7, LearnOther
  <2>3. OwedTo(q, c, 0, a) = 0
    BY <1>7 DEF OwedTo
  <2> QED BY <1>5, <2>1, <2>2, <2>3 DEF Told
<1> QED BY <1>6, <1>7

----------------------------------------------------------------------------
(* The top of the book.                                                    *)

LEMMA TopType ==
  ASSUME NEW q, WellFormed(q)
  PROVE  Top(q) \in [Side -> Quote]
<1> DEFINE held(s) == {p \in Prices : q[s][p] # <<>>}
           best(s) == CHOOSE p \in held(s) : \A r \in held(s) : ~Better(s, r, p)
           qty(s) == [k \in DOMAIN q[s][best(s)] |-> q[s][best(s)][k].remaining]
           T(s) == IF held(s) = {} THEN EmptyTop[s] ELSE [px |-> best(s), qty |-> SumFunction(qty(s))]
<1>1. Top(q) = [s \in Side |-> T(s)]
  BY DEF Top
<1>2. ASSUME NEW s \in Side PROVE T(s) \in Quote
  <2>1. CASE held(s) = {}
    <3>1. T(s) = [px |-> NoPrice, qty |-> 0]
      BY <2>1 DEF EmptyTop
    <3>2. NoPrice \in Prices \cup {NoPrice} /\ 0 \in Nat
      OBVIOUS
    <3> HIDE DEF T
    <3> QED BY <3>1, <3>2 DEF Quote
  <2>2. CASE held(s) # {}
    <3> DEFINE H == held(s)
    <3>1. H \subseteq Prices /\ H # {}
      BY <2>2
    <3>2. Prices \subseteq Nat /\ IsFiniteSet(Prices)
      <4>1. MinPx \in Int /\ MaxPx - 1 \in Int
        BY BandAssumption
      <4> QED BY <4>1, PricesNat, FS_Interval DEF Prices
    <3>3. H \in SUBSET Nat /\ IsFiniteSet(H)
      <4> HIDE DEF H
      <4> QED BY <3>1, <3>2, FS_Subset
    <3>4. \E p \in H : \A r \in H : ~Better(s, r, p)
      <4> HIDE DEF H
      <4>1. CASE s = Buy
        <5>1. Max(H) \in H /\ \A y \in H : Max(H) >= y
          BY <3>1, <3>3, GreatestIn
        <5> DEFINE g == Max(H)
        <5> HIDE DEF g
        <5>2. g \in H /\ \A y \in H : g >= y
          BY <5>1 DEF g
        <5>3. \A r \in H : ~(r > g)
          BY <3>3, <5>2
        <5> QED BY <4>1, <5>2, <5>3 DEF Better
      <4>2. CASE s = Sell
        <5>1. PICK p \in H : \A y \in H : p <= y
          BY <3>1, <3>3, Least
        <5>2. \A r \in H : ~(r < p)
          BY <3>3, <5>1
        <5> QED BY <4>2, <5>1, <5>2 DEF Better, Buy, Sell
      <4> QED BY <4>1, <4>2 DEF Side
    <3>5. best(s) \in Prices
      BY <3>4
    <3> DEFINE b == best(s)
               f == qty(s)
    <3>6. T(s) = [px |-> b, qty |-> SumFunction(f)]
      BY <2>2
    <3>7. f = [k \in DOMAIN q[s][b] |-> q[s][b][k].remaining]
      OBVIOUS
    <3> HIDE DEF b, f, T, H, held, best, qty
    <3>8. b \in Prices
      BY <3>5 DEF b
    <3>9. /\ Len(q[s][b]) \in Nat /\ DOMAIN q[s][b] = 1 .. Len(q[s][b])
          /\ \A i \in 1 .. Len(q[s][b]) : q[s][b][i] \in Order
      BY <3>8, LevelSeq
    <3>10. IsFiniteSet(DOMAIN f) /\ \A k \in DOMAIN f : f[k] \in Nat
      <4>1. DOMAIN f = 1 .. Len(q[s][b])
        BY <3>7, <3>9
      <4>2. \A k \in 1 .. Len(q[s][b]) : q[s][b][k].remaining \in Nat
        BY <3>9 DEF Order
      <4>3. IsFiniteSet(1 .. Len(q[s][b]))
        BY <3>9, FS_Interval
      <4> QED BY <3>7, <4>1, <4>2, <4>3
    <3>11. SumFunctionOnSet(f, DOMAIN f) \in Nat
      BY <3>10, SumNat
    <3>12. SumFunction(f) \in Nat
      BY <3>11, SumOn
    <3> QED BY <3>6, <3>8, <3>12 DEF Quote
  <2> QED BY <2>1, <2>2
<1> HIDE DEF T
<1> QED BY <1>1, <1>2

LEMMA AddEventsAre ==
  ASSUME NEW q, NEW c, Trading(q, c)
  PROVE  /\ AddEvents(c, Match(q, c)) =
              (StpEvents(SelfTrades(q, c)) \o Send(c.agent, Ack(c.id, Filled(q, c), Remainder(q, c))))
              \o FlattenSeq(Groups(q, c, Top(Match(q, c).queue)))
         /\ StpEvents(SelfTrades(q, c)) \in Seq(Entry)
         /\ Send(c.agent, Ack(c.id, Filled(q, c), Remainder(q, c))) \in Seq(Entry)
         /\ FlattenSeq(Groups(q, c, Top(Match(q, c).queue))) \in Seq(Entry)
         /\ Top(Match(q, c).queue) \in [Side -> Quote]
<1> DEFINE m == Match(q, c)
<1>1. m.fills = Fills(q, c) /\ m.stp = SelfTrades(q, c) /\ m.filled = Filled(q, c)
      /\ m.resting = Remainder(q, c)
  BY DEF Match
<1>2. Top(m.queue) \in [Side -> Quote]
  <2> HIDE DEF m
  <2>1. WellFormed(m.queue)
    BY AmidEnds DEF m
  <2> QED BY <2>1, TopType
<1> HIDE DEF m
<1>3. AddEvents(c, m) =
        (StpEvents(SelfTrades(q, c)) \o Send(c.agent, Ack(c.id, Filled(q, c), Remainder(q, c))))
        \o FlattenSeq(Groups(q, c, Top(m.queue)))
  BY <1>1 DEF AddEvents, Groups
<1>4. StpEvents(SelfTrades(q, c)) \in Seq(Entry)
  BY StpEntries
<1>5. Send(c.agent, Ack(c.id, Filled(q, c), Remainder(q, c))) \in Seq(Entry)
  <2>1. c.id \in Ids /\ c.agent \in Agents /\ Filled(q, c) \in Nat /\ Remainder(q, c) \in Nat
    BY FilledWithin DEF Trading, OrderFields
  <2>2. Ack(c.id, Filled(q, c), Remainder(q, c)) \in Event
    BY <2>1, OwnEventTypes
  <2> QED BY <2>1, <2>2, SendEntries
<1>6. FlattenSeq(Groups(q, c, Top(m.queue))) \in Seq(Entry)
  <2> DEFINE gs == Groups(q, c, Top(m.queue))
  <2>1. gs \in Seq(Seq(Entry))
    BY <1>2, GroupsAre
  <2> HIDE DEF gs
  <2>2. PICK h : FlattenSeq(gs) = h[Len(gs)] /\ \A k \in 0 .. Len(gs) : h[k] \in Seq(Entry)
    BY <2>1, FlattenRuns
  <2>3. Len(gs) \in 0 .. Len(gs)
    BY <2>1
  <2> QED BY <2>2, <2>3 DEF gs
<1> QED BY <1>2, <1>3, <1>4, <1>5, <1>6 DEF m

(* The reports of an accepted order tell every agent exactly what the      *)
(* engine did to its books and to the order book.                          *)
LEMMA AddTold ==
  ASSUME NEW q, NEW c, Trading(q, c), NEW a \in Agents, NEW x, NEW books \in [Agents -> Account],
         Knows(x, books[a], OwnedBy(Resting(q), a), 0)
  PROVE  Knows(Heard(a, x, AddEvents(c, Match(q, c))), SettleAll(books, c, Match(q, c).fills)[a],
               OwnedBy(Resting(Match(q, c).queue), a), 0)
<1> DEFINE s == StpEvents(SelfTrades(q, c))
           e == Send(c.agent, Ack(c.id, Filled(q, c), Remainder(q, c)))
           t == Top(Match(q, c).queue)
           f == FlattenSeq(Groups(q, c, t))
           n == Cardinality(Hit(q, c))
           u == Resting(Match(q, c).queue)
           after == SettleAll(books, c, Fills(q, c))
<1>1. /\ AddEvents(c, Match(q, c)) = (s \o e) \o f
      /\ s \in Seq(Entry) /\ e \in Seq(Entry) /\ f \in Seq(Entry) /\ t \in [Side -> Quote]
  BY AddEventsAre
<1>2. Match(q, c).fills = Fills(q, c)
  BY DEF Match
<1>3. Knows(Heard(a, x, s), books[a], OwnedBy(Resting(q) \ Own(q, c), a), 0)
  BY StpTold
<1>4. Told(q, c, 0, a, Heard(a, Heard(a, x, s), e), books)
  <2> DEFINE y == Heard(a, x, s)
  <2> HIDE DEF y
  <2>1. Knows(y, books[a], OwnedBy(Resting(q) \ Own(q, c), a), 0)
    BY <1>3 DEF y
  <2>2. Told(q, c, 0, a, Heard(a, y, e), books)
    BY <2>1, AckTold
  <2> QED BY <2>2 DEF y
<1>5. Heard(a, x, s \o e) = Heard(a, Heard(a, x, s), e)
  <2> HIDE DEF s, e
  <2>1. Then(a, x, s, e)
    BY <1>1, HeardConcat
  <2> QED BY <2>1 DEF Then
<1> DEFINE y == Heard(a, x, s \o e)
<1>6. Told(q, c, 0, a, y, books)
  BY <1>4, <1>5
<1> HIDE DEF y, t
<1>7. Told(q, c, n, a, Heard(a, y, f), after)
  BY <1>1, <1>6, FillsTold
<1>8. Heard(a, x, (s \o e) \o f) = Heard(a, y, f)
  <2> HIDE DEF s, e, f
  <2>1. s \o e \in Seq(Entry)
    BY <1>1
  <2>2. Then(a, x, s \o e, f)
    BY <1>1, <2>1, HeardConcat
  <2> QED BY <2>2 DEF Then, y
<1>9. Amid(q, c, n) = u
  BY AmidEnds
<1>10. OwedTo(q, c, n, a) = 0
  BY OwedStep DEF OwedTo
<1> HIDE DEF after, n, u
<1>11. Knows(Heard(a, y, f), after[a], OwnedBy(u, a), 0)
  BY <1>7, <1>9, <1>10 DEF Told
<1> HIDE DEF s, e, f
<1> QED BY <1>1, <1>2, <1>8, <1>11 DEF after, u

----------------------------------------------------------------------------
(* Shares and cash only change hands.                                      *)

(* What one member of a sum loses another gains. *)
LEMMA SumTransfer ==
  ASSUME NEW f, NEW h, NEW S, IsFiniteSet(S), NEW u \in S, NEW v \in S, u # v,
         \A x \in S : f[x] \in Int /\ h[x] \in Int,
         \A x \in S \ {u, v} : f[x] = h[x],
         f[u] + f[v] = h[u] + h[v]
  PROVE  SumFunctionOnSet(f, S) = SumFunctionOnSet(h, S)
<1> DEFINE g == [x \in S |-> IF x = u THEN h[x] ELSE f[x]]
<1>1. /\ \A x \in S : g[x] \in Int
      /\ \A x \in S \ {u} : f[x] = g[x]
      /\ \A x \in S \ {v} : g[x] = h[x]
      /\ g[u] = h[u] /\ g[v] = f[v]
  OBVIOUS
<1> HIDE DEF g
<1>2. SumFunctionOnSet(g, S) = SumFunctionOnSet(f, S) - f[u] + g[u]
  BY <1>1, SumChange
<1>3. SumFunctionOnSet(h, S) = SumFunctionOnSet(g, S) - g[v] + h[v]
  BY <1>1, SumChange
<1>4. SumFunctionOnSet(f, S) \in Int
  BY SumInt
<1> QED BY <1>1, <1>2, <1>3, <1>4

Shares(books) == SumFunction([a \in Agents |-> books[a].position])

Money(books) == SumFunction([a \in Agents |-> books[a].cash + books[a].fees])

LEMMA SettleBalanced ==
  ASSUME NEW books \in [Agents -> Account], NEW c \in OrderFields, NEW f,
         f.maker \in Agents, f.maker # c.agent, f.px \in Int, f.qty \in Int
  PROVE  /\ Shares(Settle(books, c, f)) = Shares(books)
         /\ Money(Settle(books, c, f)) = Money(books)
<1> DEFINE b == Settle(books, c, f)
           u == c.agent
           v == f.maker
           t == TakerSign(c.side)
           o == TakerSign(Opposite(c.side))
           mu == books[u]
           mv == books[v]
           feeu == TakerFee * f.qty
           feev == MakerFee * f.qty
<1>0. u \in Agents /\ c.side \in Side /\ Opposite(c.side) \in Side /\ IsFiniteSet(Agents)
  BY AgentsAssumption DEF OrderFields, Opposite, Side
<1>1. /\ b \in [Agents -> Account]
      /\ b[u] = Charged(mu, c.side, f.px, f.qty, feeu)
      /\ b[v] = Charged(mv, Opposite(c.side), f.px, f.qty, feev)
      /\ \A a \in Agents \ {u, v} : b[a] = books[a]
  BY SettleFields
<1>2. feeu \in Int /\ feev \in Int
  BY FeesAssumption
<1>3. mu \in Account /\ mv \in Account
  BY <1>0
<1> HIDE DEF feeu, feev, b, mu, mv
<1>4. /\ b[u].position = mu.position + t * f.qty
      /\ b[u].cash = mu.cash - t * f.px * f.qty - feeu
      /\ b[u].fees = mu.fees + feeu
  BY <1>0, <1>1, <1>2, <1>3, ChargedFields
<1>5. /\ b[v].position = mv.position + o * f.qty
      /\ b[v].cash = mv.cash - o * f.px * f.qty - feev
      /\ b[v].fees = mv.fees + feev
  BY <1>0, <1>1, <1>2, <1>3, ChargedFields
<1>6. /\ mu.position \in Int /\ mu.cash \in Int /\ mu.fees \in Int
      /\ mv.position \in Int /\ mv.cash \in Int /\ mv.fees \in Int
  BY <1>3 DEF Account
<1>7. (t = 1 /\ o = -1) \/ (t = -1 /\ o = 1)
  BY <1>0 DEF TakerSign, Opposite, Side, Buy, Sell
<1>8. b[u].position + b[v].position = mu.position + mv.position
  BY <1>4, <1>5, <1>6, <1>7
<1>9. (b[u].cash + b[u].fees) + (b[v].cash + b[v].fees) = (mu.cash + mu.fees) + (mv.cash + mv.fees)
  <2> DEFINE pq == f.px * f.qty
             mpq == -pq
  <2>1. pq \in Int
    OBVIOUS
  <2>2. CASE t = 1 /\ o = -1
    <3>1. t * f.px * f.qty = pq /\ o * f.px * f.qty = -pq
      BY <2>2
    <3> HIDE DEF pq, t, o
    <3> QED BY <1>2, <1>4, <1>5, <1>6, <2>1, <3>1
  <2>3. CASE t = -1 /\ o = 1
    <3>1. t * f.px * f.qty = -pq /\ o * f.px * f.qty = pq
      BY <2>3
    <3> HIDE DEF pq, t, o
    <3> QED BY <1>2, <1>4, <1>5, <1>6, <2>1, <3>1
  <2> QED BY <1>7, <2>2, <2>3
<1>10. \A a \in Agents : /\ b[a].position \in Int /\ books[a].position \in Int
                         /\ b[a].cash + b[a].fees \in Int /\ books[a].cash + books[a].fees \in Int
  <2>1. \A a \in Agents : b[a] \in Account /\ books[a] \in Account
    BY <1>1
  <2>2. \A m \in Account : m.position \in Int /\ m.cash + m.fees \in Int
    BY DEF Account
  <2> QED BY <2>1, <2>2
<1>11. Shares(b) = Shares(books)
  <2> DEFINE g == [a \in Agents |-> books[a].position]
             h == [a \in Agents |-> b[a].position]
  <2>1. /\ \A a \in Agents : g[a] \in Int /\ h[a] \in Int
        /\ \A a \in Agents \ {u, v} : g[a] = h[a]
        /\ g[u] + g[v] = h[u] + h[v]
        /\ DOMAIN g = Agents /\ DOMAIN h = Agents
    BY <1>0, <1>1, <1>8, <1>10 DEF mu, mv
  <2> HIDE DEF g, h
  <2>2. SumFunctionOnSet(g, Agents) = SumFunctionOnSet(h, Agents)
    BY <1>0, <2>1, SumTransfer
  <2>3. SumFunction(g) = SumFunction(h)
    BY <2>1, <2>2, SumOn
  <2> QED BY <2>3 DEF Shares, g, h
<1>12. Money(b) = Money(books)
  <2> DEFINE g == [a \in Agents |-> books[a].cash + books[a].fees]
             h == [a \in Agents |-> b[a].cash + b[a].fees]
  <2>1. /\ \A a \in Agents : g[a] \in Int /\ h[a] \in Int
        /\ \A a \in Agents \ {u, v} : g[a] = h[a]
        /\ g[u] + g[v] = h[u] + h[v]
        /\ DOMAIN g = Agents /\ DOMAIN h = Agents
    BY <1>0, <1>1, <1>9, <1>10 DEF mu, mv
  <2> HIDE DEF g, h
  <2>2. SumFunctionOnSet(g, Agents) = SumFunctionOnSet(h, Agents)
    BY <1>0, <2>1, SumTransfer
  <2>3. SumFunction(g) = SumFunction(h)
    BY <2>1, <2>2, SumOn
  <2> QED BY <2>3 DEF Money, g, h
<1> QED BY <1>11, <1>12 DEF b

LEMMA SettleAllBalanced ==
  ASSUME NEW q, NEW c, Trading(q, c), NEW books \in [Agents -> Account]
  PROVE  LET after == SettleAll(books, c, Fills(q, c))
         IN /\ after \in [Agents -> Account]
            /\ Shares(after) = Shares(books) /\ Money(after) = Money(books)
<1> DEFINE n == Cardinality(Hit(q, c))
           fills == Fills(q, c)
<1>1. n \in Nat /\ Len(fills) = n /\ DOMAIN fills = 1 .. n
  BY HitList
<1>2. \A k \in 1 .. n : /\ fills[k].maker \in Agents /\ fills[k].maker # c.agent
                        /\ fills[k].px \in Int /\ fills[k].qty \in Int
  BY FillFields
<1>3. c \in OrderFields
  BY DEF Trading
<1> HIDE DEF fills, n
<1>4. PICK h : IsSettling(c, books, fills, h) /\ SettleAll(books, c, fills) = h[Len(fills)]
  BY <1>1, SettleAllRuns
<1> DEFINE P(k) == /\ h[k] \in [Agents -> Account]
                   /\ Shares(h[k]) = Shares(books) /\ Money(h[k]) = Money(books)
           bad == {k \in 0 .. n : ~P(k)}
<1>5. P(0)
  BY <1>4 DEF IsSettling
<1>6. ASSUME NEW k \in 1 .. n, P(k - 1) PROVE P(k)
  <2>1. h[k] = Settle(h[k - 1], c, fills[k])
    BY <1>1, <1>4 DEF IsSettling
  <2> DEFINE b == h[k - 1]
             f == fills[k]
  <2>2. f.maker \in Agents /\ f.maker # c.agent /\ f.px \in Int /\ f.qty \in Int
    BY <1>2
  <2>3. b \in [Agents -> Account] /\ Shares(b) = Shares(books) /\ Money(b) = Money(books)
    BY <1>6
  <2> HIDE DEF b, f
  <2>4. Settle(b, c, f) \in [Agents -> Account]
    BY <1>3, <2>2, <2>3, SettleFields
  <2>5. Shares(Settle(b, c, f)) = Shares(b) /\ Money(Settle(b, c, f)) = Money(b)
    BY <1>3, <2>2, <2>3, SettleBalanced
  <2>6. h[k] = Settle(b, c, f)
    BY <2>1 DEF b, f
  <2> QED BY <2>3, <2>4, <2>5, <2>6
<1>7. bad = {}
  <2>1. SUFFICES ASSUME bad # {} PROVE FALSE
    OBVIOUS
  <2> HIDE DEF P
  <2>2. bad \in SUBSET Nat
    BY <1>1
  <2>3. PICK k \in bad : \A y \in bad : k <= y
    <3> HIDE DEF bad
    <3> QED BY <2>1, <2>2, Least
  <2>4. k # 0 /\ k \in 0 .. n
    BY <1>5, <2>3
  <2>5. k \in 1 .. n /\ k - 1 \in 0 .. n /\ k - 1 < k
    BY <1>1, <2>4
  <2>6. k - 1 \notin bad
    BY <1>1, <2>3, <2>5
  <2>7. P(k - 1)
    BY <2>5, <2>6
  <2>8. P(k)
    BY <1>6, <2>5, <2>7
  <2> QED BY <2>3, <2>8
<1>8. P(n)
  BY <1>1, <1>7
<1> QED BY <1>1, <1>4, <1>8 DEF fills

----------------------------------------------------------------------------
(* The invariant.                                                          *)

\* the running numbers of resting orders have been given out
Numbered ==
  \A o \in Resting(book) : \E n \in 1 .. issued[o.agent] : o.id = <<o.agent, n>>

\* an agent that has lost no event will know its books and its orders
Informed ==
  \A a \in Agents : HeardAll(a) => Knows(Outlook(a), account[a], OwnOrders(a), 0)

ExchangeInv ==
  /\ TypeOK
  /\ WellFormed(book) /\ Distinct(Resting(book))
  /\ Numbered
  /\ Informed
  /\ Conserved

Seen(a) == [v |-> view[a], odd |-> 0]

\* the events in an agent's queue, as entries
Inbox(a) == [k \in DOMAIN channel[a] |-> [to |-> a, ev |-> channel[a][k]]]

LEMMA OutlookIs ==
  \A a : Outlook(a) = Heard(a, Seen(a), Inbox(a) \o pending)
  BY DEF Outlook, Seen, Inbox, Coming

LEMMA InboxEntries ==
  ASSUME NEW a \in Agents, NEW s \in Seq(Event)
  PROVE  /\ [k \in DOMAIN s |-> [to |-> a, ev |-> s[k]]] \in Seq(Entry)
         /\ Len([k \in DOMAIN s |-> [to |-> a, ev |-> s[k]]]) = Len(s)
<1> DEFINE t == [k \in DOMAIN s |-> [to |-> a, ev |-> s[k]]]
<1>1. \A k \in 1 .. Len(s) : s[k] \in Event
  OBVIOUS
<1>2. \A k \in 1 .. Len(s) : t[k] \in Entry
  BY <1>1, SendEntries
<1>3. t = [k \in 1 .. Len(s) |-> t[k]] /\ Len(s) \in Nat
  OBVIOUS
<1> HIDE DEF t
<1>4. t \in Seq(Entry) /\ Len(t) = Len(s)
  BY <1>2, <1>3
<1> QED BY <1>4 DEF t

LEMMA InboxType ==
  ASSUME TypeOK, NEW a \in Agents
  PROVE  Inbox(a) \in Seq(Entry) /\ pending \in Seq(Entry)
  BY InboxEntries DEF TypeOK, Inbox

LEMMA OutlookParts ==
  ASSUME TypeOK, NEW a \in Agents
  PROVE  Outlook(a) = Heard(a, Heard(a, Seen(a), Inbox(a)), pending)
<1>1. Inbox(a) \in Seq(Entry) /\ pending \in Seq(Entry)
  BY InboxType
<1>2. Then(a, Seen(a), Inbox(a), pending)
  BY <1>1, HeardConcat
<1> QED BY <1>2, OutlookIs DEF Then

(* A step of the engine makes its events when none are left to push.       *)
LEMMA EngineTells ==
  ASSUME TypeOK, TypeOK', pending = <<>>, channel' = channel, view' = view, NEW a \in Agents
  PROVE  Outlook(a)' = Heard(a, Outlook(a), pending')
<1>1. Inbox(a)' = Inbox(a) /\ Seen(a)' = Seen(a)
  BY DEF Inbox, Seen
<1>2. Outlook(a)' = Heard(a, Heard(a, Seen(a)', Inbox(a)'), pending')
  <2>1. Inbox(a)' \in Seq(Entry) /\ pending' \in Seq(Entry)
    BY InboxEntries, <1>1, InboxType DEF TypeOK
  <2>2. Outlook(a)' = Heard(a, Seen(a)', Inbox(a)' \o pending')
    BY DEF Outlook, Seen, Inbox, Coming
  <2>3. Then(a, Seen(a)', Inbox(a)', pending')
    BY <2>1, HeardConcat
  <2> QED BY <2>2, <2>3 DEF Then
<1>3. Outlook(a) = Heard(a, Seen(a), Inbox(a))
  BY OutlookParts, HeardNothing
<1> QED BY <1>1, <1>2, <1>3

(* Applying an event gives a view.                                         *)
LEMMA ApplyType ==
  ASSUME NEW v, DOMAIN v = DOMAIN NoView, DOMAIN v.open \subseteq Ids, NEW ev \in Event
  PROVE  DOMAIN Apply(v, ev) = DOMAIN NoView /\ DOMAIN Apply(v, ev).open \subseteq Ids
<1>0. /\ ev.kind \in {"Ack", "Cancelled", "Fill"} => ev.id \in Ids
      /\ ev.kind \in {"Fill", "Trade", "BookUpdate", "Ack", "Cancelled", "Rejected", "SessionStart"}
  BY DEF Event
<1>1. \A qty : ev.id \in Ids => DOMAIN WithOrder(v.open, ev.id, qty) \subseteq Ids
  BY DEF WithOrder
<1>2. CASE ev.kind = "Fill"
  <2>1. Apply(v, ev) = ApplyFill(v, ev)
    BY <1>2 DEF Apply
  <2> DEFINE w == WithOrder(v.open, ev.id, ev.remaining)
  <2>2. DOMAIN w \subseteq Ids
    BY <1>0, <1>1, <1>2
  <2> HIDE DEF w
  <2>3. /\ DOMAIN ApplyFill(v, ev) = DOMAIN v
        /\ ApplyFill(v, ev).open = IF ev.is_maker = 1 THEN w ELSE v.open
    BY ViewFields DEF ApplyFill, w
  <2> QED BY <2>1, <2>2, <2>3
<1>3. CASE ev.kind \in {"Trade", "BookUpdate"}
  <2>1. Apply(v, ev) = [v EXCEPT !.top = ev.top]
    BY <1>3 DEF Apply
  <2> QED BY <2>1, ViewFields
<1>4. CASE ev.kind = "Ack"
  <2> DEFINE w == WithOrder(v.open, ev.id, ev.remaining)
             o == v.owed + ev.qty
  <2>1. Apply(v, ev) = [v EXCEPT !.open = w, !.owed = o]
    BY <1>4 DEF Apply
  <2>2. DOMAIN w \subseteq Ids
    BY <1>0, <1>1, <1>4
  <2> HIDE DEF w, o
  <2> QED BY <2>1, <2>2, ViewFields
<1>5. CASE ev.kind = "Cancelled"
  <2> DEFINE w == WithOrder(v.open, ev.id, 0)
  <2>1. Apply(v, ev) = [v EXCEPT !.open = w]
    BY <1>5 DEF Apply
  <2>2. DOMAIN w \subseteq Ids
    BY <1>0, <1>1, <1>5
  <2> HIDE DEF w
  <2> QED BY <2>1, <2>2, ViewFields
<1>6. CASE ev.kind \in {"Rejected", "SessionStart"}
  <2>1. Apply(v, ev) = v
    BY <1>6 DEF Apply
  <2> QED BY <2>1
<1> QED BY <1>0, <1>2, <1>3, <1>4, <1>5, <1>6

(* What does not add up is never forgotten.                                *)
LEMMA OddGrows ==
  ASSUME NEW a, NEW x, x.odd \in Nat, NEW s, Len(s) \in Nat, DOMAIN s = 1 .. Len(s),
         Heard(a, x, s).odd = 0
  PROVE  x.odd = 0
<1> DEFINE n == Len(s)
<1>1. PICK h : IsStory(a, x, s, h) /\ Heard(a, x, s) = h[n]
  BY HeardRuns
<1> DEFINE P(k) == h[k].odd \in Nat /\ h[k].odd >= x.odd
           bad == {k \in 0 .. n : ~P(k)}
<1>2. P(0)
  BY <1>1 DEF IsStory
<1>3. ASSUME NEW k \in 1 .. n, P(k - 1) PROVE P(k)
  <2>1. h[k] = Learn(a, h[k - 1], s[k])
    BY <1>1 DEF IsStory
  <2> DEFINE y == h[k - 1]
  <2>2. y.odd \in Nat /\ y.odd >= x.odd
    BY <1>3
  <2> HIDE DEF y
  <2>3. Learn(a, y, s[k]).odd = y.odd \/ Learn(a, y, s[k]).odd = y.odd + 1
    BY DEF Learn
  <2>4. h[k] = Learn(a, y, s[k])
    BY <2>1 DEF y
  <2> QED BY <2>2, <2>3, <2>4
<1>4. bad = {}
  <2>1. SUFFICES ASSUME bad # {} PROVE FALSE
    OBVIOUS
  <2> HIDE DEF P
  <2>2. bad \in SUBSET Nat
    OBVIOUS
  <2>3. PICK k \in bad : \A y \in bad : k <= y
    <3> HIDE DEF bad
    <3> QED BY <2>1, <2>2, Least
  <2>4. k # 0 /\ k \in 0 .. n
    BY <1>2, <2>3
  <2>5. k \in 1 .. n /\ k - 1 \in 0 .. n /\ k - 1 < k
    BY <2>4
  <2>6. k - 1 \notin bad
    BY <2>3, <2>5
  <2>7. P(k - 1)
    BY <2>5, <2>6
  <2>8. P(k)
    BY <1>3, <2>5, <2>7
  <2> QED BY <2>3, <2>8
<1>5. P(n)
  BY <1>4
<1> QED BY <1>1, <1>5

----------------------------------------------------------------------------
(* The engine's steps.                                                     *)

LEMMA EngineTyped ==
  ASSUME TypeOK, UNCHANGED <<channel, sent, dropped, view>>,
         book' \in [Side -> [Prices -> Seq(Order)]], issued' \in [Agents -> Nat],
         commands' \in 0 .. MaxCommands, inBatch' \in 0 .. BatchMax,
         account' \in [Agents -> Account], top' \in [Side -> Quote], pending' \in Seq(Entry)
  PROVE  TypeOK'
  BY DEF TypeOK, Account

LEMMA CountTyped ==
  ASSUME TypeOK, Ready, Count
  PROVE  commands' \in 0 .. MaxCommands /\ inBatch' \in 0 .. BatchMax
  BY BoundsAssumption DEF TypeOK, Ready, Count

\* the next order of an agent has a number that no resting order has
LEMMA NextIsNew ==
  ASSUME TypeOK, Numbered, NEW c \in OrderFields, NextOrderOf(c)
  PROVE  c.id \notin LiveIds(book)
<1>1. SUFFICES ASSUME NEW o \in Resting(book), o.id = c.id PROVE FALSE
  BY DEF LiveIds
<1>2. PICK n \in 1 .. issued[o.agent] : o.id = <<o.agent, n>>
  BY DEF Numbered
<1>3. c.agent \in Agents /\ issued[c.agent] \in Nat
  BY DEF TypeOK, OrderFields
<1>4. o.agent = c.agent /\ n = issued[c.agent] + 1
  BY <1>1, <1>2 DEF NextOrderOf
<1> QED BY <1>2, <1>3, <1>4

LEMMA IssuedStep ==
  ASSUME TypeOK, NEW a \in Agents, issued' = [issued EXCEPT ![a] = @ + 1]
  PROVE  /\ issued' \in [Agents -> Nat]
         /\ issued'[a] = issued[a] + 1 /\ issued[a] \in Nat
         /\ \A b \in Agents : issued[b] \in Nat /\ issued[b] <= issued'[b]
<1>1. issued \in [Agents -> Nat]
  BY DEF TypeOK
<1>2. \A b \in Agents : issued[b] \in Nat /\ issued'[b] = IF b = a THEN issued[b] + 1 ELSE issued[b]
  BY <1>1
<1>3. issued' \in [Agents -> Nat]
  BY <1>1
<1> QED BY <1>2, <1>3

LEMMA RestingAgents ==
  ASSUME WellFormed(book)
  PROVE  \A o \in Resting(book) : o \in Order /\ o.agent \in Agents /\ o.id \in Ids
                                 /\ o.remaining \in Nat \ {0}
  BY RestingPlace DEF Order

\* what an agent knows decides what it will know
LEMMA InformedStep ==
  ASSUME \A a \in Agents : HeardAll(a)' =>
           Knows(Outlook(a)', account'[a], OwnedBy(Resting(book'), a), 0)
  PROVE  Informed'
<1>1. \A a : OwnOrders(a)' = OwnedBy(Resting(book'), a)
  BY DEF OwnOrders, OwnedBy, Resting
<1> QED BY <1>1 DEF Informed, Knows

LEMMA RefusedStep ==
  ASSUME ExchangeInv, NEW c \in NewOrders, ProcessRefused(c)
  PROVE  ExchangeInv'
<1> DEFINE reason == AddRefusal(c)
<1>0. TypeOK /\ WellFormed(book) /\ Distinct(Resting(book)) /\ Numbered /\ Informed /\ Conserved
  BY DEF ExchangeInv
<1>1. /\ Ready /\ NextOrderOf(c) /\ reason # "None" /\ Count
      /\ pending' = Send(c.agent, Rejected(c.id, reason))
      /\ issued' = [issued EXCEPT ![c.agent] = @ + 1]
      /\ book' = book /\ account' = account /\ top' = top /\ channel' = channel
      /\ sent' = sent /\ dropped' = dropped /\ view' = view /\ pending = <<>>
  BY DEF ProcessRefused, Ready
<1>2. c \in OrderFields
  BY NewOrdersAssumption
<1>3. c.id \in Ids /\ c.agent \in Agents
  BY <1>2 DEF OrderFields
<1>4. reason \in Reasons
  BY <1>1 DEF AddRefusal, AddVerdict, Reasons
<1> HIDE DEF reason
<1>5. c.id \notin LiveIds(book)
  BY <1>0, <1>1, <1>2, NextIsNew
<1>6. pending' \in Seq(Entry)
  <2>1. Rejected(c.id, reason) \in Event
    BY <1>3, <1>4, OwnEventTypes
  <2> QED BY <1>1, <1>3, <2>1, SendEntries
<1>7. TypeOK'
  <2>1. issued' \in [Agents -> Nat]
    BY <1>0, <1>1, <1>3, IssuedStep
  <2>2. commands' \in 0 .. MaxCommands /\ inBatch' \in 0 .. BatchMax
    BY <1>0, <1>1, CountTyped
  <2>3. /\ book' \in [Side -> [Prices -> Seq(Order)]] /\ account' \in [Agents -> Account]
        /\ top' \in [Side -> Quote]
    BY <1>0, <1>1 DEF TypeOK, Account
  <2> QED BY <1>0, <1>1, <1>6, <2>1, <2>2, <2>3, EngineTyped
<1>8. WellFormed(book') /\ Distinct(Resting(book'))
  BY <1>0, <1>1
<1>9. Numbered'
  <2>1. \A a \in Agents : issued[a] \in Nat /\ issued'[a] \in Nat /\ issued[a] <= issued'[a]
    BY <1>0, <1>1, <1>3, IssuedStep
  <2>2. \A o \in Resting(book) : o.agent \in Agents
    BY <1>0, RestingAgents
  <2>3. \A o \in Resting(book) : \E n \in 1 .. issued'[o.agent] : o.id = <<o.agent, n>>
    BY <1>0, <2>1, <2>2 DEF Numbered
  <2>4. Resting(book)' = Resting(book)
    BY <1>1
  <2> QED BY <2>3, <2>4 DEF Numbered
<1>10. Informed'
  <2>1. ASSUME NEW a \in Agents, HeardAll(a)'
        PROVE  Knows(Outlook(a)', account'[a], OwnedBy(Resting(book'), a), 0)
    <3>1. Knows(Outlook(a), account[a], OwnedBy(Resting(book), a), 0)
      <4>1. HeardAll(a)
        BY <1>1, <2>1 DEF HeardAll
      <4> QED BY <1>0, <4>1 DEF Informed, OwnOrders, OwnedBy
    <3>2. Outlook(a)' = Heard(a, Outlook(a), pending')
      BY <1>0, <1>1, <1>7, EngineTells
    <3> DEFINE x == Outlook(a)
               S == OwnedBy(Resting(book), a)
    <3>3. c.id \notin {o.id : o \in S}
      BY <1>5 DEF LiveIds, OwnedBy
    <3> HIDE DEF x, S
    <3>4. Knows(x, account[a], S, 0)
      BY <3>1 DEF x, S
    <3>5. Heard(a, x, pending') = Learn(a, x, [to |-> c.agent, ev |-> Rejected(c.id, reason)])
      BY <1>1, HeardOne DEF Send
    <3>6. Knows(Heard(a, x, pending'), account[a], S, 0)
      <4>1. CASE a = c.agent
        <5>1. Knows(Learn(a, x, [to |-> a, ev |-> Rejected(c.id, reason)]), account[a], S, 0)
          BY <3>3, <3>4, LearnRejected
        <5> QED BY <3>5, <4>1, <5>1
      <4>2. CASE a # c.agent
        <5>1. Learn(a, x, [to |-> c.agent, ev |-> Rejected(c.id, reason)]) = x
          BY <4>2, LearnOther
        <5> QED BY <3>4, <3>5, <5>1
      <4> QED BY <4>1, <4>2
    <3> QED BY <1>1, <3>2, <3>6 DEF x, S
  <2> QED BY <2>1, InformedStep
<1>11. Conserved'
  BY <1>0, <1>1 DEF Conserved
<1> QED BY <1>7, <1>8, <1>9, <1>10, <1>11 DEF ExchangeInv

LEMMA AcceptedTrades ==
  ASSUME WellFormed(book), Distinct(Resting(book)), NEW c \in OrderFields, AddRefusal(c) = "None"
  PROVE  Trading(book, c)
<1>1. c.qty \in Int /\ c.px \in Int
  BY DEF OrderFields
<1>2. AddVerdict(book, c) = "None"
  BY DEF AddRefusal
<1>3. ~(c.qty <= 0) /\ InBand(c.px) /\ c.id \notin LiveIds(book)
  BY <1>1, <1>2 DEF AddVerdict
<1>4. c.px \in Prices
  BY <1>1, <1>3, BandAssumption DEF InBand, Prices
<1>5. c.qty \in Nat \ {0}
  BY <1>1, <1>3
<1> QED BY <1>3, <1>4, <1>5 DEF Trading

LEMMA NewStep ==
  ASSUME ExchangeInv, NEW c \in NewOrders, ProcessNew(c)
  PROVE  ExchangeInv'
<1> DEFINE q == Match(book, c).queue
           n == Cardinality(Hit(book, c))
           after == SettleAll(account, c, Match(book, c).fills)
           evs == AddEvents(c, Match(book, c))
<1>0. TypeOK /\ WellFormed(book) /\ Distinct(Resting(book)) /\ Numbered /\ Informed /\ Conserved
  BY DEF ExchangeInv
<1>1. /\ Ready /\ NextOrderOf(c) /\ AddRefusal(c) = "None" /\ Count
      /\ book' = q /\ account' = after /\ pending' = evs
      /\ issued' = [issued EXCEPT ![c.agent] = @ + 1]
      /\ top' = top /\ channel' = channel
      /\ sent' = sent /\ dropped' = dropped /\ view' = view /\ pending = <<>>
  BY DEF ProcessNew, Ready
<1>2. c \in OrderFields
  BY NewOrdersAssumption
<1>3. c.id \in Ids /\ c.agent \in Agents
  BY <1>2 DEF OrderFields
<1>4. Trading(book, c)
  BY <1>0, <1>1, <1>2, AcceptedTrades
<1>5. account \in [Agents -> Account]
  BY <1>0 DEF TypeOK, Account
<1>6. Resting(q) = Amid(book, c, n) /\ WellFormed(q) /\ n \in Nat
  BY <1>4, AmidEnds, HitList
<1>7. after \in [Agents -> Account] /\ Shares(after) = Shares(account) /\ Money(after) = Money(account)
  <2>1. Match(book, c).fills = Fills(book, c)
    BY DEF Match
  <2> QED BY <1>4, <1>5, <2>1, SettleAllBalanced
<1>8. evs \in Seq(Entry)
  <2> DEFINE s == StpEvents(SelfTrades(book, c))
             e == Send(c.agent, Ack(c.id, Filled(book, c), Remainder(book, c)))
             f == FlattenSeq(Groups(book, c, Top(Match(book, c).queue)))
  <2>1. evs = (s \o e) \o f /\ s \in Seq(Entry) /\ e \in Seq(Entry) /\ f \in Seq(Entry)
    BY <1>4, AddEventsAre
  <2> HIDE DEF s, e, f, evs
  <2>2. s \o e \in Seq(Entry)
    BY <2>1
  <2> QED BY <2>1, <2>2
<1> HIDE DEF evs, after, q
<1>9. TypeOK'
  <2>1. issued' \in [Agents -> Nat]
    BY <1>0, <1>1, <1>3, IssuedStep
  <2>2. commands' \in 0 .. MaxCommands /\ inBatch' \in 0 .. BatchMax
    BY <1>0, <1>1, CountTyped
  <2>3. book' \in [Side -> [Prices -> Seq(Order)]]
    BY <1>1, <1>6 DEF WellFormed
  <2>4. account' \in [Agents -> Account] /\ pending' \in Seq(Entry) /\ top' \in [Side -> Quote]
    BY <1>0, <1>1, <1>7, <1>8 DEF TypeOK
  <2> QED BY <1>0, <1>1, <2>1, <2>2, <2>3, <2>4, EngineTyped
<1>10. WellFormed(book') /\ Distinct(Resting(book'))
  <2>1. n \in 0 .. n
    BY <1>6
  <2>2. Distinct(Amid(book, c, n))
    BY <1>4, <2>1, AmidDistinct
  <2> QED BY <1>1, <1>6, <2>2
<1>11. Numbered'
  <2>1. /\ \A a \in Agents : issued[a] \in Nat /\ issued'[a] \in Nat /\ issued[a] <= issued'[a]
        /\ issued'[c.agent] = issued[c.agent] + 1
    BY <1>0, <1>1, <1>3, IssuedStep
  <2>2. ASSUME NEW o \in Resting(q) PROVE \E k \in 1 .. issued'[o.agent] : o.id = <<o.agent, k>>
    <3>1. o \in {PartOf(book, c, n, r) : r \in Spared(book, c, n)} \/ o \in NewRest(book, c)
      BY <1>6, <2>2 DEF Amid
    <3>2. CASE o \in NewRest(book, c)
      <4>1. o.id = c.id /\ o.agent = c.agent
        BY <3>2, NewRestFields
      <4>2. c.id = <<c.agent, issued'[c.agent]>> /\ issued'[c.agent] \in 1 .. issued'[c.agent]
        BY <1>1, <1>3, <2>1 DEF NextOrderOf
      <4> QED BY <4>1, <4>2
    <3>3. CASE o \in {PartOf(book, c, n, r) : r \in Spared(book, c, n)}
      <4>1. PICK r \in Spared(book, c, n) : o = PartOf(book, c, n, r)
        BY <3>3
      <4>2. r \in Resting(book) /\ o.id = r.id /\ o.agent = r.agent
        <5>1. n \in 0 .. n
          BY <1>6
        <5> QED BY <1>4, <4>1, <5>1, PartOrder
      <4>3. r.agent \in Agents
        BY <1>0, <4>2, RestingAgents
      <4>4. PICK k \in 1 .. issued[r.agent] : r.id = <<r.agent, k>>
        BY <1>0, <4>2 DEF Numbered
      <4>5. k \in 1 .. issued'[r.agent]
        BY <2>1, <4>3, <4>4
      <4> QED BY <4>2, <4>4, <4>5
    <3> QED BY <3>1, <3>2, <3>3
  <2>3. Resting(book)' = Resting(q)
    BY <1>1 DEF Resting
  <2> QED BY <2>2, <2>3 DEF Numbered
<1>12. Informed'
  <2>1. ASSUME NEW a \in Agents, HeardAll(a)'
        PROVE  Knows(Outlook(a)', account'[a], OwnedBy(Resting(book'), a), 0)
    <3>1. Knows(Outlook(a), account[a], OwnedBy(Resting(book), a), 0)
      <4>1. HeardAll(a)
        BY <1>1, <2>1 DEF HeardAll
      <4> QED BY <1>0, <4>1 DEF Informed, OwnOrders, OwnedBy
    <3>2. Outlook(a)' = Heard(a, Outlook(a), pending')
      BY <1>0, <1>1, <1>9, EngineTells
    <3> DEFINE x == Outlook(a)
    <3> HIDE DEF x
    <3>3. Knows(x, account[a], OwnedBy(Resting(book), a), 0)
      BY <3>1 DEF x
    <3>4. Knows(Heard(a, x, evs), after[a], OwnedBy(Resting(q), a), 0)
      BY <1>4, <1>5, <3>3, AddTold DEF evs, after, q
    <3> QED BY <1>1, <3>2, <3>4 DEF x
  <2> QED BY <2>1, InformedStep
<1>13. Conserved'
  <2>1. Shares(account) = 0 /\ Money(account) = 0
    BY <1>0 DEF Conserved, Shares, Money
  <2>2. Shares(account') = 0 /\ Money(account') = 0
    BY <1>1, <1>7, <2>1
  <2> QED BY <2>2 DEF Conserved, Shares, Money
<1> QED BY <1>9, <1>10, <1>11, <1>12, <1>13 DEF ExchangeInv

LEMMA CancelEventTypes ==
  ASSUME WellFormed(book), NEW id \in Ids, NEW agent \in Agents
  PROVE  CancelVerdict(book, id, agent) \in {"UnknownOrder", "NotOwner", "None"}
  BY DEF CancelVerdict

LEMMA CancelStep ==
  ASSUME ExchangeInv, NEW id \in Ids, NEW agent \in Agents, ProcessCancel(id, agent)
  PROVE  ExchangeInv'
<1> DEFINE reason == CancelVerdict(book, id, agent)
<1>0. TypeOK /\ WellFormed(book) /\ Distinct(Resting(book)) /\ Numbered /\ Informed /\ Conserved
  BY DEF ExchangeInv
<1>1. /\ Ready /\ Count
      /\ issued' = issued /\ account' = account /\ top' = top /\ channel' = channel
      /\ sent' = sent /\ dropped' = dropped /\ view' = view /\ pending = <<>>
  BY DEF ProcessCancel, Ready
<1>2. commands' \in 0 .. MaxCommands /\ inBatch' \in 0 .. BatchMax
  BY <1>0, <1>1, CountTyped
<1>3. ASSUME NEW a \in Agents, HeardAll(a)' PROVE Knows(Outlook(a), account[a], OwnedBy(Resting(book), a), 0)
  <2>1. HeardAll(a)
    BY <1>1, <1>3 DEF HeardAll
  <2> QED BY <1>0, <2>1 DEF Informed, OwnOrders, OwnedBy
<1>4. Conserved'
  BY <1>0, <1>1 DEF Conserved
<1>5. issued \in [Agents -> Nat] /\ account \in [Agents -> Account] /\ top \in [Side -> Quote]
  BY <1>0 DEF TypeOK, Account
<1>6. CASE reason = "None"
  <2>1. PICK o \in Resting(book) : /\ o.id = id
                                   /\ pending' = Send(agent, Cancelled(id, o.remaining))
                                   /\ book' = Without(book, id)
    BY <1>6 DEF ProcessCancel
  <2>2. o.agent = agent
    BY <1>6, <2>1 DEF CancelVerdict
  <2>3. WellFormed(book') /\ Resting(book') = {r \in Resting(book) : r.id # id}
    BY <1>0, <2>1, WithoutResting
  <2>4. Resting(book') = Resting(book) \ {o}
    BY <1>0, <2>1, <2>3 DEF Distinct
  <2>5. pending' \in Seq(Entry)
    <3>1. o.remaining \in Nat \ {0}
      BY <1>0, RestingAgents
    <3>2. Cancelled(id, o.remaining) \in Event
      BY <3>1, OwnEventTypes
    <3> QED BY <2>1, <3>2, SendEntries
  <2>6. TypeOK'
    <3>1. book' \in [Side -> [Prices -> Seq(Order)]]
      BY <2>3 DEF WellFormed
    <3> QED BY <1>0, <1>1, <1>2, <1>5, <2>5, <3>1, EngineTyped
  <2>7. Distinct(Resting(book'))
    BY <1>0, <2>4 DEF Distinct
  <2>8. Numbered'
    <3>1. \A r \in Resting(book') : \E n \in 1 .. issued[r.agent] : r.id = <<r.agent, n>>
      BY <1>0, <2>4 DEF Numbered
    <3>2. Resting(book)' = Resting(book')
      BY DEF Resting
    <3> QED BY <1>1, <3>1, <3>2 DEF Numbered
  <2>9. Informed'
    <3>1. ASSUME NEW a \in Agents, HeardAll(a)'
          PROVE  Knows(Outlook(a)', account'[a], OwnedBy(Resting(book'), a), 0)
      <4> DEFINE x == Outlook(a)
                 S == OwnedBy(Resting(book), a)
                 T == OwnedBy(Resting(book'), a)
                 e == [to |-> agent, ev |-> Cancelled(o.id, o.remaining)]
      <4>1. Knows(x, account[a], S, 0)
        BY <1>3, <3>1
      <4>2. Outlook(a)' = Heard(a, x, pending')
        BY <1>0, <1>1, <2>6, EngineTells
      <4>3. Heard(a, x, pending') = Learn(a, x, e)
        BY <2>1, HeardOne DEF Send
      <4>4. CASE a = agent
        <5>1. o \in S /\ T = S \ {o}
          BY <2>2, <2>4, <4>4 DEF OwnedBy
        <5>2. Distinct(S)
          BY <1>0 DEF Distinct, OwnedBy
        <5>3. e = [to |-> a, ev |-> Cancelled(o.id, o.remaining)]
          BY <4>4
        <5> HIDE DEF x, S, T, e
        <5>4. Knows(Learn(a, x, [to |-> a, ev |-> Cancelled(o.id, o.remaining)]), account[a], S \ {o}, 0)
          BY <4>1, <5>1, <5>2, LearnCancelled
        <5>5. Knows(Learn(a, x, e), account[a], T, 0)
          BY <5>1, <5>3, <5>4
        <5> QED BY <1>1, <4>2, <4>3, <5>5 DEF x, T
      <4>5. CASE a # agent
        <5>1. T = S
          BY <2>2, <2>4, <4>5 DEF OwnedBy
        <5>2. Learn(a, x, e) = x
          BY <4>5, LearnOther
        <5> HIDE DEF x, S, T, e
        <5>3. Knows(Learn(a, x, e), account[a], T, 0)
          BY <4>1, <5>1, <5>2
        <5> QED BY <1>1, <4>2, <4>3, <5>3 DEF x, T
      <4> QED BY <4>4, <4>5
    <3> QED BY <3>1, InformedStep
  <2> QED BY <1>4, <2>3, <2>6, <2>7, <2>8, <2>9 DEF ExchangeInv
<1>7. CASE reason # "None"
  <2>1. pending' = Send(agent, Rejected(id, reason)) /\ book' = book
    BY <1>7 DEF ProcessCancel
  <2>2. reason \in {"UnknownOrder", "NotOwner"}
    BY <1>0, <1>7, CancelEventTypes
  <2>3. reason = "UnknownOrder" => id \notin LiveIds(book)
    BY DEF CancelVerdict
  <2> HIDE DEF reason
  <2>4. pending' \in Seq(Entry)
    <3>1. Rejected(id, reason) \in Event
      BY <2>2, OwnEventTypes DEF Reasons
    <3> QED BY <2>1, <3>1, SendEntries
  <2>5. TypeOK'
    <3>1. book' \in [Side -> [Prices -> Seq(Order)]]
      BY <1>0, <2>1 DEF TypeOK
    <3> QED BY <1>0, <1>1, <1>2, <1>5, <2>4, <3>1, EngineTyped
  <2>6. Numbered'
    <3>1. Resting(book)' = Resting(book)
      BY <2>1
    <3> QED BY <1>0, <1>1, <3>1 DEF Numbered
  <2>7. Informed'
    <3>1. ASSUME NEW a \in Agents, HeardAll(a)'
          PROVE  Knows(Outlook(a)', account'[a], OwnedBy(Resting(book'), a), 0)
      <4> DEFINE x == Outlook(a)
                 S == OwnedBy(Resting(book), a)
                 e == [to |-> agent, ev |-> Rejected(id, reason)]
      <4>1. Knows(x, account[a], S, 0)
        BY <1>3, <3>1
      <4>2. Outlook(a)' = Heard(a, x, pending')
        BY <1>0, <1>1, <2>5, EngineTells
      <4>3. Heard(a, x, pending') = Learn(a, x, e)
        BY <2>1, HeardOne DEF Send
      <4>4. id \notin {o.id : o \in S} \/ reason = "NotOwner"
        BY <2>2, <2>3 DEF LiveIds, OwnedBy
      <4>5. Knows(Learn(a, x, e), account[a], S, 0)
        <5>1. CASE a = agent
          <6> HIDE DEF x, S
          <6>1. Knows(Learn(a, x, [to |-> a, ev |-> Rejected(id, reason)]), account[a], S, 0)
            BY <4>1, <4>4, LearnRejected
          <6> QED BY <5>1, <6>1
        <5>2. CASE a # agent
          <6>1. Learn(a, x, e) = x
            BY <5>2, LearnOther
          <6> QED BY <4>1, <6>1
        <5> QED BY <5>1, <5>2
      <4> HIDE DEF x, S, e
      <4> QED BY <1>1, <2>1, <4>2, <4>3, <4>5 DEF x, S
    <3> QED BY <3>1, InformedStep
  <2> QED BY <1>0, <1>4, <2>1, <2>5, <2>6, <2>7 DEF ExchangeInv
<1> QED BY <1>6, <1>7

LEMMA EndBatchStep ==
  ASSUME ExchangeInv, EndBatch
  PROVE  ExchangeInv'
<1> DEFINE t == Top(book)
           ev == [kind |-> "BookUpdate", top |-> t]
<1>0. TypeOK /\ WellFormed(book) /\ Distinct(Resting(book)) /\ Numbered /\ Informed /\ Conserved
  BY DEF ExchangeInv
<1>1. /\ pending = <<>> /\ inBatch' = 0 /\ top' = t
      /\ pending' = <<>> \/ pending' = Broadcast(ev)
      /\ book' = book /\ issued' = issued /\ commands' = commands /\ account' = account
      /\ channel' = channel /\ sent' = sent /\ dropped' = dropped /\ view' = view
  BY DEF EndBatch
<1>2. t \in [Side -> Quote]
  BY <1>0, TopType
<1>3. ev \in Event
  BY <1>2, MarketEventTypes
<1>4. ev.kind = "BookUpdate"
  OBVIOUS
<1> HIDE DEF ev, t
<1>5. pending' \in Seq(Entry)
  <2>1. Broadcast(ev) \in Seq(Entry)
    BY <1>3, BroadcastEntries
  <2>2. <<>> \in Seq(Entry)
    OBVIOUS
  <2> QED BY <1>1, <2>1, <2>2
<1>6. TypeOK'
  <2>1. /\ book' \in [Side -> [Prices -> Seq(Order)]] /\ issued' \in [Agents -> Nat]
        /\ commands' \in 0 .. MaxCommands /\ account' \in [Agents -> Account]
    BY <1>0, <1>1 DEF TypeOK, Account
  <2>2. inBatch' \in 0 .. BatchMax /\ top' \in [Side -> Quote]
    BY <1>1, <1>2, BoundsAssumption
  <2> QED BY <1>0, <1>1, <1>5, <2>1, <2>2, EngineTyped
<1>7. Informed'
  <2>1. ASSUME NEW a \in Agents, HeardAll(a)'
        PROVE  Knows(Outlook(a)', account'[a], OwnedBy(Resting(book'), a), 0)
    <3> DEFINE x == Outlook(a)
               S == OwnedBy(Resting(book), a)
    <3>1. Knows(x, account[a], S, 0)
      <4>1. HeardAll(a)
        BY <1>1, <2>1 DEF HeardAll
      <4> QED BY <1>0, <4>1 DEF Informed, OwnOrders, OwnedBy
    <3>2. Outlook(a)' = Heard(a, x, pending')
      BY <1>0, <1>1, <1>6, EngineTells
    <3> HIDE DEF x, S
    <3>3. Knows(Heard(a, x, pending'), account[a], S, 0)
      <4>1. CASE pending' = <<>>
        BY <3>1, <4>1, HeardNothing
      <4>2. CASE pending' = Broadcast(ev)
        <5>1. ev.kind \in {"SessionStart", "Trade", "BookUpdate"}
          BY <1>4
        <5>2. Knows(Heard(a, x, Broadcast(ev)), account[a], S, 0)
          BY <3>1, <5>1, HeardBroadcast
        <5> QED BY <4>2, <5>2
      <4> QED BY <1>1, <4>1, <4>2
    <3> QED BY <1>1, <3>2, <3>3 DEF x, S
  <2> QED BY <2>1, InformedStep
<1>8. Numbered'
  <2>1. Resting(book)' = Resting(book)
    BY <1>1
  <2> QED BY <1>0, <1>1, <2>1 DEF Numbered
<1>9. Conserved'
  BY <1>0, <1>1 DEF Conserved
<1> QED BY <1>0, <1>1, <1>6, <1>7, <1>8, <1>9 DEF ExchangeInv

----------------------------------------------------------------------------
(* An event is pushed, or refused; an agent polls one.                     *)

\* the events pushed to agent a, as entries
Sent(a, s) == [k \in DOMAIN s |-> [to |-> a, ev |-> s[k]]]

LEMMA SentAppend ==
  ASSUME NEW a \in Agents, NEW s \in Seq(Event), NEW ev \in Event
  PROVE  Sent(a, Append(s, ev)) = Append(Sent(a, s), [to |-> a, ev |-> ev])
<1> DEFINE u == Sent(a, Append(s, ev))
           w == Append(Sent(a, s), [to |-> a, ev |-> ev])
           n == Len(s)
<1>1. n \in Nat /\ Append(s, ev) \in Seq(Event) /\ Len(Append(s, ev)) = n + 1
  OBVIOUS
<1>2. Sent(a, s) \in Seq(Entry) /\ Len(Sent(a, s)) = n
  BY InboxEntries DEF Sent
<1>3. u \in Seq(Entry) /\ Len(u) = n + 1
  BY <1>1, InboxEntries DEF Sent
<1>4. [to |-> a, ev |-> ev] \in Entry
  BY SendEntries
<1>5. w \in Seq(Entry) /\ Len(w) = n + 1
  BY <1>2, <1>4
<1>6. ASSUME NEW k \in 1 .. (n + 1) PROVE u[k] = w[k]
  <2>1. k \in DOMAIN Append(s, ev)
    BY <1>1
  <2>2. u[k] = [to |-> a, ev |-> Append(s, ev)[k]]
    BY <2>1 DEF Sent
  <2>3. CASE k = n + 1
    <3>1. Append(s, ev)[k] = ev
      BY <1>1, <2>3
    <3>2. w[k] = [to |-> a, ev |-> ev]
      BY <1>2, <1>4, <2>3
    <3> QED BY <2>2, <3>1, <3>2
  <2>4. CASE k \in 1 .. n
    <3>1. Append(s, ev)[k] = s[k]
      BY <1>1, <2>4
    <3>2. w[k] = Sent(a, s)[k]
      BY <1>2, <1>4, <2>4
    <3>3. k \in DOMAIN s
      BY <2>4
    <3>4. Sent(a, s)[k] = [to |-> a, ev |-> s[k]]
      BY <3>3 DEF Sent
    <3> QED BY <2>2, <3>1, <3>2, <3>4
  <2> HIDE DEF u, w, n
  <2> QED BY <1>1, <2>3, <2>4
<1> HIDE DEF u, w, n
<1>7. u = w
  BY <1>1, <1>3, <1>5, <1>6
<1> QED BY <1>7 DEF u, w

LEMMA SentTail ==
  ASSUME NEW a \in Agents, NEW s \in Seq(Event), s # <<>>
  PROVE  Sent(a, s) = <<[to |-> a, ev |-> Head(s)]>> \o Sent(a, Tail(s))
<1> DEFINE n == Len(s)
           u == Sent(a, s)
           e == [to |-> a, ev |-> Head(s)]
           w == Sent(a, Tail(s))
           v == <<e>> \o w
<1>1. n \in Nat /\ n > 0 /\ Tail(s) \in Seq(Event) /\ Len(Tail(s)) = n - 1 /\ Head(s) \in Event
  BY HeadTailProperties, EmptySeq
<1>2. u \in Seq(Entry) /\ Len(u) = n
  BY InboxEntries DEF Sent
<1>3. w \in Seq(Entry) /\ Len(w) = n - 1
  BY <1>1, InboxEntries DEF Sent
<1>4. e \in Entry
  BY <1>1, SendEntries
<1>5. \A k \in 1 .. n : u[k] = [to |-> a, ev |-> s[k]]
  BY DEF Sent
<1>6. \A k \in 1 .. (n - 1) : w[k] = [to |-> a, ev |-> s[k + 1]]
  <2>1. ASSUME NEW k \in 1 .. (n - 1) PROVE w[k] = [to |-> a, ev |-> s[k + 1]]
    <3>1. k \in DOMAIN Tail(s) /\ Tail(s)[k] = s[k + 1]
      BY <1>1
    <3> QED BY <3>1 DEF Sent
  <2> QED BY <2>1
<1> HIDE DEF u, w
<1>7. e = [to |-> a, ev |-> s[1]]
  OBVIOUS
<1> HIDE DEF e
<1>8. v \in Seq(Entry) /\ Len(v) = n
  <2> HIDE DEF n
  <2>1. <<e>> \in Seq(Entry) /\ Len(<<e>>) = 1
    BY <1>4
  <2> QED BY <1>1, <1>3, <2>1
<1>9. ASSUME NEW k \in 1 .. n PROVE v[k] = u[k]
  <2>1. CASE k = 1
    BY <1>3, <1>4, <1>5, <1>7, <2>1
  <2>2. CASE k # 1
    <3>1. k - 1 \in 1 .. (n - 1) /\ (k - 1) + 1 = k
      BY <1>1, <2>2
    <3>2. v[k] = w[k - 1]
      BY <1>3, <1>4, <3>1
    <3> QED BY <1>5, <1>6, <3>1, <3>2
  <2> QED BY <2>1, <2>2
<1> HIDE DEF v, n
<1>10. v = u
  BY <1>1, <1>2, <1>8, <1>9
<1> QED BY <1>10 DEF u, v, w, e

\* the head of a sequence of entries is heard first
LEMMA HeardHead ==
  ASSUME NEW a, NEW x, NEW s \in Seq(Entry), s # <<>>
  PROVE  Heard(a, x, s) = Heard(a, Learn(a, x, Head(s)), Tail(s))
<1>1. Head(s) \in Entry /\ Tail(s) \in Seq(Entry) /\ s = <<Head(s)>> \o Tail(s)
  BY HeadTailProperties
<1>2. <<Head(s)>> \in Seq(Entry)
  BY <1>1
<1>3. Then(a, x, <<Head(s)>>, Tail(s))
  BY <1>1, <1>2, HeardConcat
<1> QED BY <1>1, <1>3, HeardOne DEF Then

LEMMA DeliverTyped ==
  ASSUME TypeOK, Deliver
  PROVE  TypeOK'
<1> DEFINE to == Head(pending).to
           ev == Head(pending).ev
<1>1. pending # <<>> /\ pending \in Seq(Entry)
  BY DEF TypeOK, Deliver
<1>2. Head(pending) \in Entry /\ Tail(pending) \in Seq(Entry)
  BY <1>1, HeadTailProperties
<1>3. to \in Agents /\ ev \in Event
  BY <1>2 DEF Entry
<1> HIDE DEF to, ev
<1>4. /\ \/ /\ Len(channel[to]) < EventUsable
            /\ channel' = [channel EXCEPT ![to] = Append(@, ev)] /\ dropped' = dropped
         \/ dropped' = [dropped EXCEPT ![to] = @ + 1] /\ channel' = channel
      /\ sent' = [sent EXCEPT ![to] = @ + 1]
      /\ pending' = Tail(pending)
      /\ book' = book /\ issued' = issued /\ commands' = commands /\ inBatch' = inBatch
      /\ account' = account /\ top' = top /\ view' = view
  BY DEF Deliver, HasRoom, engineVars, to, ev
<1>5. channel \in [Agents -> Seq(Event)] /\ sent \in [Agents -> Nat] /\ dropped \in [Agents -> Nat]
      /\ \A a \in Agents : Len(channel[a]) <= EventUsable /\ dropped[a] <= sent[a]
  BY DEF TypeOK
<1>6. sent' \in [Agents -> Nat] /\ dropped' \in [Agents -> Nat]
      /\ \A a \in Agents : dropped'[a] <= sent'[a]
  <2>1. \A a \in Agents : sent[a] \in Nat /\ dropped[a] \in Nat
    BY <1>5
  <2>2. sent' = [a \in Agents |-> IF a = to THEN sent[a] + 1 ELSE sent[a]]
    BY <1>3, <1>4, <1>5
  <2>3. dropped' = dropped \/ dropped' = [a \in Agents |-> IF a = to THEN dropped[a] + 1 ELSE dropped[a]]
    BY <1>3, <1>4, <1>5
  <2>4. sent' \in [Agents -> Nat] /\ \A a \in Agents : sent'[a] \in Nat /\ sent[a] <= sent'[a]
    BY <2>1, <2>2
  <2>5. CASE dropped' = dropped
    BY <1>5, <2>1, <2>4, <2>5
  <2>6. CASE dropped' = [a \in Agents |-> IF a = to THEN dropped[a] + 1 ELSE dropped[a]]
    <3>1. dropped' \in [Agents -> Nat]
      BY <2>1, <2>6
    <3>2. \A a \in Agents : dropped'[a] <= sent'[a]
      BY <1>5, <2>1, <2>2, <2>6
    <3> QED BY <2>4, <3>1, <3>2
  <2> QED BY <2>3, <2>5, <2>6
<1>7. channel' \in [Agents -> Seq(Event)] /\ \A a \in Agents : Len(channel'[a]) <= EventUsable
  <2>1. CASE channel' = channel
    BY <1>5, <2>1
  <2>2. CASE Len(channel[to]) < EventUsable /\ channel' = [channel EXCEPT ![to] = Append(@, ev)]
    <3> DEFINE w == Append(channel[to], ev)
    <3>1. w \in Seq(Event) /\ Len(w) = Len(channel[to]) + 1 /\ Len(channel[to]) \in Nat
      BY <1>3, <1>5
    <3>2. channel' = [channel EXCEPT ![to] = w]
      BY <2>2
    <3>3. Len(w) <= EventUsable
      BY <2>2, <3>1, BoundsAssumption
    <3> HIDE DEF w
    <3> QED BY <1>3, <1>5, <3>1, <3>2, <3>3
  <2> QED BY <1>4, <2>1, <2>2
<1> QED BY <1>2, <1>4, <1>6, <1>7 DEF TypeOK

LEMMA DeliverStep ==
  ASSUME ExchangeInv, Deliver
  PROVE  ExchangeInv'
<1> DEFINE to == Head(pending).to
           ev == Head(pending).ev
<1>0. TypeOK /\ WellFormed(book) /\ Distinct(Resting(book)) /\ Numbered /\ Informed /\ Conserved
  BY DEF ExchangeInv
<1>1. TypeOK'
  BY <1>0, DeliverTyped
<1>2. pending # <<>> /\ pending \in Seq(Entry)
  BY <1>0 DEF TypeOK, Deliver
<1>3. Head(pending) \in Entry /\ Tail(pending) \in Seq(Entry)
  BY <1>2, HeadTailProperties
<1>4. to \in Agents /\ ev \in Event /\ Head(pending) = [to |-> to, ev |-> ev]
  BY <1>3 DEF Entry
<1> HIDE DEF to, ev
<1>5. /\ \/ channel' = [channel EXCEPT ![to] = Append(@, ev)] /\ dropped' = dropped
         \/ dropped' = [dropped EXCEPT ![to] = @ + 1] /\ channel' = channel
      /\ pending' = Tail(pending)
      /\ book' = book /\ issued' = issued /\ account' = account /\ view' = view
  BY DEF Deliver, engineVars, to, ev
<1>6. channel \in [Agents -> Seq(Event)] /\ dropped \in [Agents -> Nat]
  BY <1>0 DEF TypeOK
<1>7. Informed'
  <2>1. ASSUME NEW a \in Agents, HeardAll(a)'
        PROVE  Knows(Outlook(a)', account'[a], OwnedBy(Resting(book'), a), 0)
    <3>1. dropped'[a] = 0
      BY <2>1 DEF HeardAll
    <3>2. HeardAll(a) /\ (a = to => channel' = [channel EXCEPT ![to] = Append(@, ev)])
      <4>1. dropped[a] \in Nat
        BY <1>6
      <4>2. CASE dropped' = dropped
        <5>1. dropped # [dropped EXCEPT ![to] = @ + 1]
          BY <1>4, <1>6
        <5> QED BY <1>5, <3>1, <4>2, <5>1 DEF HeardAll
      <4>3. CASE dropped' = [dropped EXCEPT ![to] = @ + 1]
        <5>1. a # to
          BY <1>4, <1>6, <3>1, <4>1, <4>3
        <5> QED BY <1>4, <1>6, <3>1, <4>3, <5>1 DEF HeardAll
      <4> QED BY <1>5, <4>2, <4>3
    <3>3. Knows(Outlook(a), account[a], OwnedBy(Resting(book), a), 0)
      BY <1>0, <3>2 DEF Informed, OwnOrders, OwnedBy
    <3>4. Outlook(a)' = Outlook(a)
      <4> DEFINE I == Sent(a, channel[a])
                 J == Sent(a, channel'[a])
                 x0 == Seen(a)
                 y == Heard(a, x0, I)
                 e == Head(pending)
                 t == Tail(pending)
      <4>1. I \in Seq(Entry)
        <5>1. channel[a] \in Seq(Event)
          BY <1>6
        <5> QED BY <5>1, InboxEntries DEF Sent
      <4>2. J \in Seq(Entry)
        <5>1. channel'[a] \in Seq(Event)
          BY <1>1 DEF TypeOK
        <5> QED BY <5>1, InboxEntries DEF Sent
      <4>3. Outlook(a) = Heard(a, y, pending)
        <5>1. Inbox(a) = I
          BY DEF Inbox, Sent
        <5> QED BY <1>0, <5>1, OutlookParts
      <4>4. Heard(a, y, pending) = Heard(a, Learn(a, y, e), t)
        <5> HIDE DEF y
        <5> QED BY <1>2, HeardHead
      <4>5. Outlook(a)' = Heard(a, x0, J \o t)
        <5>1. Seen(a)' = x0 /\ Inbox(a)' = J
          BY <1>5 DEF Seen, Inbox, Sent
        <5>2. Outlook(a)' = Heard(a, Seen(a)', Inbox(a)' \o pending')
          BY DEF Outlook, Seen, Inbox, Coming
        <5> QED BY <1>5, <5>1, <5>2
      <4> HIDE DEF I, J, x0, t, e
      <4>6. Heard(a, x0, J \o t) = Heard(a, Heard(a, x0, J), t)
        <5>1. t \in Seq(Entry)
          BY <1>3 DEF t
        <5>2. Then(a, x0, J, t)
          BY <4>2, <5>1, HeardConcat
        <5> QED BY <5>2 DEF Then
      <4>7. Heard(a, x0, J) = Learn(a, y, e)
        <5>1. CASE a = to
          <6>1. channel'[a] = Append(channel[a], ev) /\ channel[a] \in Seq(Event)
            BY <1>4, <1>6, <3>2, <5>1
          <6>2. J = Append(I, e)
            <7>1. Sent(a, Append(channel[a], ev)) = Append(Sent(a, channel[a]), [to |-> a, ev |-> ev])
              BY <1>4, <6>1, SentAppend
            <7> QED BY <1>4, <5>1, <6>1, <7>1 DEF J, I, e
          <6>3. e \in Entry
            BY <1>3 DEF e
          <6>4. J = I \o <<e>> /\ <<e>> \in Seq(Entry)
            BY <4>1, <6>2, <6>3
          <6>5. Then(a, x0, I, <<e>>)
            BY <4>1, <6>4, HeardConcat
          <6> QED BY <6>4, <6>5, HeardOne DEF Then
        <5>2. CASE a # to
          <6>1. channel'[a] = channel[a]
            BY <1>4, <1>5, <1>6, <5>2
          <6>2. e.to # a
            BY <1>4, <5>2 DEF e
          <6>3. Learn(a, y, e) = y
            BY <6>2, LearnOther
          <6> QED BY <6>1, <6>3 DEF I, J
        <5> QED BY <5>1, <5>2
      <4> QED BY <4>3, <4>4, <4>5, <4>6, <4>7
    <3> QED BY <1>5, <3>3, <3>4
  <2> QED BY <2>1, InformedStep
<1>8. Numbered'
  <2>1. Resting(book)' = Resting(book)
    BY <1>5
  <2> QED BY <1>0, <1>5, <2>1 DEF Numbered
<1>9. Conserved'
  BY <1>0, <1>5 DEF Conserved
<1> QED BY <1>0, <1>1, <1>5, <1>7, <1>8, <1>9 DEF ExchangeInv

LEMMA PollTyped ==
  ASSUME TypeOK, NEW b \in Agents, Poll(b)
  PROVE  /\ TypeOK'
         /\ channel[b] \in Seq(Event) /\ channel[b] # <<>> /\ Head(channel[b]) \in Event
         /\ channel'[b] = Tail(channel[b])
         /\ view'[b] = Apply(view[b], Head(channel[b]))
         /\ \A a \in Agents \ {b} : channel'[a] = channel[a] /\ view'[a] = view[a]
<1> DEFINE s == channel[b]
           w == Apply(view[b], Head(channel[b]))
<1>1. /\ s # <<>> /\ view' = [view EXCEPT ![b] = w] /\ channel' = [channel EXCEPT ![b] = Tail(s)]
      /\ pending' = pending /\ sent' = sent /\ dropped' = dropped
      /\ book' = book /\ issued' = issued /\ commands' = commands /\ inBatch' = inBatch
      /\ account' = account /\ top' = top
  BY DEF Poll, engineVars
<1>2. channel \in [Agents -> Seq(Event)] /\ DOMAIN view = Agents
      /\ \A a \in Agents : /\ Len(channel[a]) <= EventUsable
                           /\ DOMAIN view[a] = DOMAIN NoView /\ DOMAIN view[a].open \subseteq Ids
  BY DEF TypeOK
<1>3. s \in Seq(Event)
  BY <1>2
<1>4. Head(s) \in Event /\ Tail(s) \in Seq(Event) /\ Len(Tail(s)) = Len(s) - 1 /\ Len(s) \in Nat
  BY <1>1, <1>3, HeadTailProperties
<1>5. DOMAIN w = DOMAIN NoView /\ DOMAIN w.open \subseteq Ids
  BY <1>2, <1>4, ApplyType
<1> HIDE DEF w
<1>6. /\ DOMAIN view' = Agents /\ view'[b] = w
      /\ \A a \in Agents \ {b} : view'[a] = view[a]
  BY <1>1, <1>2
<1>7. \A a \in Agents : DOMAIN view'[a] = DOMAIN NoView /\ DOMAIN view'[a].open \subseteq Ids
  BY <1>2, <1>5, <1>6
<1> DEFINE t == Tail(s)
<1>8. t \in Seq(Event) /\ Len(t) <= EventUsable
  BY <1>2, <1>4, BoundsAssumption
<1>9. channel' = [channel EXCEPT ![b] = t]
  BY <1>1
<1> HIDE DEF t
<1>10. /\ channel' \in [Agents -> Seq(Event)] /\ \A a \in Agents : Len(channel'[a]) <= EventUsable
       /\ channel'[b] = t /\ \A a \in Agents \ {b} : channel'[a] = channel[a]
  BY <1>2, <1>8, <1>9
<1>11. TypeOK'
  BY <1>1, <1>6, <1>7, <1>10 DEF TypeOK
<1> QED BY <1>1, <1>3, <1>4, <1>6, <1>10, <1>11 DEF t, w

LEMMA PollStep ==
  ASSUME ExchangeInv, NEW b \in Agents, Poll(b)
  PROVE  ExchangeInv'
<1>0. TypeOK /\ WellFormed(book) /\ Distinct(Resting(book)) /\ Numbered /\ Informed /\ Conserved
  BY DEF ExchangeInv
<1>1. /\ TypeOK'
      /\ channel[b] \in Seq(Event) /\ channel[b] # <<>> /\ Head(channel[b]) \in Event
      /\ channel'[b] = Tail(channel[b])
      /\ view'[b] = Apply(view[b], Head(channel[b]))
      /\ \A a \in Agents \ {b} : channel'[a] = channel[a] /\ view'[a] = view[a]
  BY <1>0, PollTyped
<1>2. /\ pending' = pending /\ dropped' = dropped /\ book' = book /\ issued' = issued
      /\ account' = account
  BY DEF Poll, engineVars
<1>3. pending \in Seq(Entry)
  BY <1>0 DEF TypeOK
<1>4. Informed'
  <2>1. ASSUME NEW a \in Agents, HeardAll(a)'
        PROVE  Knows(Outlook(a)', account'[a], OwnedBy(Resting(book'), a), 0)
    <3>1. Knows(Outlook(a), account[a], OwnedBy(Resting(book), a), 0)
      <4>1. HeardAll(a)
        BY <1>2, <2>1 DEF HeardAll
      <4> QED BY <1>0, <4>1 DEF Informed, OwnOrders, OwnedBy
    <3>2. Outlook(a)' = Heard(a, Seen(a)', Inbox(a)' \o pending)
      <4>1. Outlook(a)' = Heard(a, Seen(a)', Inbox(a)' \o pending')
        BY DEF Outlook, Seen, Inbox, Coming
      <4> QED BY <1>2, <4>1
    <3>3. Outlook(a)' = Outlook(a)
      <4>1. CASE a # b
        <5>1. Seen(a)' = Seen(a) /\ Inbox(a)' = Inbox(a)
          BY <1>1, <4>1 DEF Seen, Inbox
        <5> QED BY <3>2, <5>1, OutlookIs
      <4>2. CASE a = b
        <5> DEFINE e == [to |-> a, ev |-> Head(channel[a])]
                   I == Sent(a, channel[a])
                   J == Sent(a, Tail(channel[a]))
                   x0 == Seen(a)
                   x1 == [v |-> view'[a], odd |-> 0]
                   rest == J \o pending
        <5>1. channel[a] \in Seq(Event) /\ Tail(channel[a]) \in Seq(Event) /\ e \in Entry
          <6>1. Tail(channel[a]) \in Seq(Event)
            BY <1>1, <4>2, HeadTailProperties
          <6> QED BY <1>1, <4>2, <6>1, SendEntries
        <5>2. J \in Seq(Entry)
          BY <5>1, InboxEntries DEF Sent
        <5>3. I = <<e>> \o J
          <6>1. Sent(a, channel[a]) = <<[to |-> a, ev |-> Head(channel[a])]>> \o Sent(a, Tail(channel[a]))
            BY <1>1, <4>2, <5>1, SentTail
          <6> QED BY <6>1
        <5>4. Outlook(a) = Heard(a, x0, I \o pending)
          <6>1. Inbox(a) = I
            BY DEF Inbox, Sent
          <6> QED BY <6>1, OutlookIs
        <5>5. Outlook(a)' = Heard(a, x1, rest)
          <6>1. Seen(a)' = x1
            BY DEF Seen
          <6>2. Inbox(a)' = J
            BY <1>1, <4>2 DEF Inbox, Sent
          <6> QED BY <3>2, <6>1, <6>2
        <5>6. Learn(a, x0, e) = [v |-> view'[a], odd |-> IF AddsUp(view[a], e.ev) THEN 0 ELSE 1]
          BY <1>1, <4>2 DEF Learn, Seen
        <5> HIDE DEF e, I, J, x0, x1
        <5>7. <<e>> \in Seq(Entry) /\ rest \in Seq(Entry)
          BY <1>3, <5>1, <5>2
        <5>8. I \o pending = <<e>> \o rest
          BY <1>3, <5>2, <5>3, <5>7
        <5> HIDE DEF rest
        <5>9. Heard(a, x0, <<e>> \o rest) = Heard(a, Learn(a, x0, e), rest)
          <6>1. Then(a, x0, <<e>>, rest)
            BY <5>7, HeardConcat
          <6> QED BY <6>1, HeardOne DEF Then
        <5> DEFINE y == Learn(a, x0, e)
        <5>10. y.odd \in Nat /\ (y.odd = 0 => y = x1)
          BY <5>6 DEF x1
        <5> HIDE DEF y
        <5>11. Heard(a, y, rest).odd = 0
          BY <3>1, <5>4, <5>8, <5>9 DEF y, Knows
        <5>12. y.odd = 0
          <6>1. Len(rest) \in Nat /\ DOMAIN rest = 1 .. Len(rest)
            BY <5>7
          <6> QED BY <5>10, <5>11, <6>1, OddGrows
        <5> QED BY <5>4, <5>5, <5>8, <5>9, <5>10, <5>12 DEF y
      <4> QED BY <4>1, <4>2
    <3> QED BY <1>2, <3>1, <3>3
  <2> QED BY <2>1, InformedStep
<1>5. Numbered'
  <2>1. Resting(book)' = Resting(book)
    BY <1>2
  <2> QED BY <1>0, <1>2, <2>1 DEF Numbered
<1>6. Conserved'
  BY <1>0, <1>2 DEF Conserved
<1> QED BY <1>0, <1>1, <1>2, <1>4, <1>5, <1>6 DEF ExchangeInv

----------------------------------------------------------------------------
(* The start.                                                              *)

LEMMA EmptyBook ==
  /\ WellFormed(EmptyQueues) /\ Resting(EmptyQueues) = {}
<1>1. \A s \in Side, p \in Prices : EmptyQueues[s][p] = <<>>
  BY DEF EmptyQueues
<1>2. WellFormed(EmptyQueues)
  <2>1. EmptyQueues \in [Side -> [Prices -> Seq(Order)]]
    BY DEF EmptyQueues
  <2> QED BY <1>1, <2>1 DEF WellFormed
<1>3. Resting(EmptyQueues) = {}
  BY <1>1 DEF Resting, ToSet
<1> QED BY <1>2, <1>3

LEMMA InitTyped ==
  ASSUME Init
  PROVE  TypeOK
<1>1. Broadcast([kind |-> "SessionStart"]) \in Seq(Entry)
  <2>1. [kind |-> "SessionStart"] \in Event
    BY DEF Event
  <2> QED BY <2>1, BroadcastEntries
<1>2. EmptyQueues \in [Side -> [Prices -> Seq(Order)]]
  BY EmptyBook DEF WellFormed
<1>3. EmptyTop \in [Side -> Quote]
  BY DEF EmptyTop, Quote
<1>4. DOMAIN NoView.open \subseteq Ids
  BY DEF NoView, NoOrders
<1>5. /\ issued \in [Agents -> Nat] /\ commands \in 0 .. MaxCommands /\ inBatch \in 0 .. BatchMax
      /\ account \in [Agents -> [position : Int, cash : Int, fees : Int]]
  BY BoundsAssumption DEF Init
<1>6. channel \in [Agents -> Seq(Event)] /\ sent \in [Agents -> Nat] /\ dropped \in [Agents -> Nat]
  <2>1. <<>> \in Seq(Event)
    OBVIOUS
  <2> QED BY <2>1 DEF Init
<1>7. \A a \in Agents : Len(channel[a]) <= EventUsable /\ dropped[a] <= sent[a]
  <2>1. Len(<<>>) = 0 /\ 0 <= EventUsable
    BY BoundsAssumption
  <2>2. \A a \in Agents : channel[a] = <<>> /\ dropped[a] = 0 /\ sent[a] = 0
    BY DEF Init
  <2>3. 0 <= 0
    OBVIOUS
  <2> QED BY <2>1, <2>2, <2>3, Zenon
<1>8. DOMAIN view = Agents /\ \A a \in Agents : view[a] = NoView
  BY DEF Init
<1> QED BY <1>1, <1>2, <1>3, <1>4, <1>5, <1>6, <1>7, <1>8 DEF TypeOK, Init

LEMMA ExchangeInit ==
  ASSUME Init
  PROVE  ExchangeInv
<1> DEFINE ev == [kind |-> "SessionStart"]
           zero == [position |-> 0, cash |-> 0, fees |-> 0]
<1>1. TypeOK
  BY InitTyped
<1>2. WellFormed(book) /\ Resting(book) = {}
  BY EmptyBook DEF Init
<1>3. Distinct(Resting(book)) /\ Numbered
  BY <1>2 DEF Distinct, Numbered
<1>4. Informed
  <2>1. ASSUME NEW a \in Agents PROVE Knows(Outlook(a), account[a], OwnOrders(a), 0)
    <3>1. account[a] = zero /\ view[a] = NoView /\ channel[a] = <<>> /\ pending = Broadcast(ev)
      BY DEF Init
    <3>2. OwnOrders(a) = {}
      BY <1>2 DEF OwnOrders
    <3>3. Knows(Seen(a), zero, {}, 0)
      <4>1. Seen(a).odd = 0 /\ Seen(a).v = NoView
        BY <3>1 DEF Seen
      <4>2. NoView.position = 0 /\ NoView.cash = 0 /\ NoView.fees = 0 /\ NoView.owed = 0
        BY DEF NoView
      <4>3. Opens(NoView.open, {})
        BY DEF NoView, NoOrders, Opens
      <4> QED BY <4>1, <4>2, <4>3 DEF Knows
    <3>4. Outlook(a) = Heard(a, Seen(a), Broadcast(ev))
      <4>1. Inbox(a) = <<>>
        <5>1. DOMAIN channel[a] = {}
          BY <3>1
        <5> QED BY <5>1 DEF Inbox
      <4>2. Outlook(a) = Heard(a, Heard(a, Seen(a), Inbox(a)), pending)
        BY <1>1, OutlookParts
      <4> QED BY <3>1, <4>1, <4>2, HeardNothing
    <3>5. ev.kind \in {"SessionStart", "Trade", "BookUpdate"}
      OBVIOUS
    <3> HIDE DEF ev, zero
    <3>6. Knows(Heard(a, Seen(a), Broadcast(ev)), zero, {}, 0)
      BY <3>3, <3>5, HeardBroadcast
    <3> QED BY <3>1, <3>2, <3>4, <3>6
  <2> QED BY <2>1 DEF Informed
<1>5. Conserved
  <2> DEFINE f == [a \in Agents |-> account[a].position]
             g == [a \in Agents |-> account[a].cash + account[a].fees]
  <2>1. IsFiniteSet(Agents) /\ DOMAIN f = Agents /\ DOMAIN g = Agents
    BY AgentsAssumption
  <2>2. \A a \in Agents : f[a] = 0 /\ g[a] = 0
    <3>1. account = [a \in Agents |-> zero]
      BY DEF Init
    <3>2. \A a \in Agents : account[a].position = 0 /\ account[a].cash = 0 /\ account[a].fees = 0
      BY <3>1
    <3>3. \A a \in Agents : f[a] = account[a].position /\ g[a] = account[a].cash + account[a].fees
      OBVIOUS
    <3> HIDE DEF f, g
    <3>4. \A a \in Agents : g[a] = 0 + 0 /\ f[a] = 0
      BY <3>2, <3>3, Zenon
    <3>5. 0 + 0 = 0
      OBVIOUS
    <3> QED BY <3>4, <3>5, Zenon
  <2> HIDE DEF f, g
  <2>3. SumFunction(f) = 0 /\ SumFunction(g) = 0
    BY <2>1, <2>2, SumOn, SumZero
  <2> QED BY <2>3 DEF Conserved, f, g
<1> QED BY <1>1, <1>2, <1>3, <1>4, <1>5 DEF ExchangeInv

LEMMA ExchangeStutter ==
  ASSUME ExchangeInv, UNCHANGED vars
  PROVE  ExchangeInv'
<1>0. TypeOK /\ WellFormed(book) /\ Distinct(Resting(book)) /\ Numbered /\ Informed /\ Conserved
  BY DEF ExchangeInv
<1>1. /\ book' = book /\ issued' = issued /\ commands' = commands /\ inBatch' = inBatch
      /\ account' = account /\ top' = top /\ pending' = pending /\ channel' = channel
      /\ sent' = sent /\ dropped' = dropped /\ view' = view
  BY DEF vars, engineVars
<1>2. TypeOK'
  BY <1>0, <1>1 DEF TypeOK
<1>3. Informed'
  <2>1. ASSUME NEW a \in Agents, HeardAll(a)'
        PROVE  Knows(Outlook(a)', account'[a], OwnedBy(Resting(book'), a), 0)
    <3>1. Outlook(a)' = Outlook(a)
      BY <1>1 DEF Outlook, Coming
    <3>2. HeardAll(a)
      BY <1>1, <2>1 DEF HeardAll
    <3>3. Knows(Outlook(a), account[a], OwnedBy(Resting(book), a), 0)
      BY <1>0, <3>2 DEF Informed, OwnOrders, OwnedBy
    <3> QED BY <1>1, <3>1, <3>3
  <2> QED BY <2>1, InformedStep
<1>4. Numbered'
  <2>1. Resting(book)' = Resting(book)
    BY <1>1
  <2> QED BY <1>0, <1>1, <2>1 DEF Numbered
<1>5. Conserved'
  BY <1>0, <1>1 DEF Conserved
<1> QED BY <1>0, <1>1, <1>2, <1>3, <1>4, <1>5 DEF ExchangeInv

(* The reports on their way to an agent that has lost none account for all *)
(* the engine did to its books and orders, whatever is processed, pushed   *)
(* or polled next (Engine::process, EventSink, AgentContext::poll).        *)
THEOREM ExchangeInvariant == Spec => []ExchangeInv
<1>1. Init => ExchangeInv
  BY ExchangeInit
<1>2. ExchangeInv /\ [Next]_vars => ExchangeInv'
  <2> SUFFICES ASSUME ExchangeInv, [Next]_vars PROVE ExchangeInv'
    OBVIOUS
  <2>1. ASSUME NEW c \in NewOrders, ProcessRefused(c) PROVE ExchangeInv'
    BY <2>1, RefusedStep
  <2>2. ASSUME NEW c \in NewOrders, ProcessNew(c) PROVE ExchangeInv'
    BY <2>2, NewStep
  <2>3. ASSUME NEW id \in Ids, NEW agent \in Agents, ProcessCancel(id, agent) PROVE ExchangeInv'
    BY <2>3, CancelStep
  <2>4. CASE EndBatch
    BY <2>4, EndBatchStep
  <2>5. CASE Deliver
    BY <2>5, DeliverStep
  <2>6. ASSUME NEW a \in Agents, Poll(a) PROVE ExchangeInv'
    BY <2>6, PollStep
  <2>7. CASE UNCHANGED vars
    BY <2>7, ExchangeStutter
  <2> QED BY <2>1, <2>2, <2>3, <2>4, <2>5, <2>6, <2>7 DEF Next
<1> QED BY <1>1, <1>2, PTL DEF Spec

(* An agent that has lost no event keeps the same books as the engine, up  *)
(* to the events on their way to it (Engine::process, AgentContext::apply).*)
THEOREM BooksAgree == Spec => []AccountsAgree
<1>1. ExchangeInv => AccountsAgree
  <2> SUFFICES ASSUME ExchangeInv, NEW a \in Agents, HeardAll(a)
               PROVE  account[a] = [position |-> Outlook(a).v.position, cash |-> Outlook(a).v.cash,
                                    fees |-> Outlook(a).v.fees]
    BY DEF AccountsAgree, CaughtUp
  <2>1. Knows(Outlook(a), account[a], OwnOrders(a), 0)
    BY DEF ExchangeInv, Informed
  <2>2. account[a] \in [position : Int, cash : Int, fees : Int]
    BY DEF ExchangeInv, TypeOK
  <2> QED BY <2>1, <2>2 DEF Knows
<1> QED BY <1>1, ExchangeInvariant, PTL

(* The reports an agent gets tell the true story of its orders: each one   *)
(* continues the one before, and together they leave open exactly what     *)
(* rests in the book (Engine::process, OrderBook::add and cancel).         *)
THEOREM StoryIsTrue == Spec => []OrdersAgree
<1>1. ExchangeInv => OrdersAgree
  <2> SUFFICES ASSUME ExchangeInv PROVE OrdersAgree
    OBVIOUS
  <2>1. TypeOK
    BY DEF ExchangeInv
  <2>2. ASSUME NEW a \in Agents, HeardAll(a)
        PROVE  Opens(CaughtUp(a).open, OwnOrders(a)) /\ CaughtUp(a).owed = 0 /\ Outlook(a).odd = 0
    <3>1. Knows(Outlook(a), account[a], OwnOrders(a), 0)
      BY <2>2 DEF ExchangeInv, Informed
    <3> QED BY <3>1 DEF Knows, CaughtUp
  <2> QED BY <2>1, <2>2 DEF OrdersAgree, OpenAgree, FollowOn
<1> QED BY <1>1, ExchangeInvariant, PTL

(* Shares and cash only change hands (Engine::process, the books of a fill *)
(* of both sides).                                                         *)
THEOREM NothingCreated == Spec => []Conserved
<1>1. ExchangeInv => Conserved
  BY DEF ExchangeInv
<1> QED BY <1>1, ExchangeInvariant, PTL
=============================================================================
