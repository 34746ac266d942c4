---------------------------- MODULE Agents_proofs ---------------------------
(***************************************************************************)
(* Proofs about the generational loop, for every command line, every       *)
(* payoff, every draw and every answer of a model, and about the directory *)
(* of an experiment with outside agents, for every set of subjects, every  *)
(* answer and any number of stopped commands.                              *)
(*                                                                         *)
(* The catalogue comes first: clamp_params keeps every number it is given  *)
(* in the bounds, whole where it must be, repairs the windows, and invents *)
(* no nan.  Then each rule: what it returns is in the catalogue, with nans *)
(* no others than its bases had, or is a plugin whose code is in a file of *)
(* that subject and generation.  A mock writer that looks at  *)
(* its last entry only still keeps the first of the best, and a bandit has *)
(* an arm left while it has played fewer than three.                       *)
(*                                                                         *)
(* The invariant of the loop is kept by four kinds of steps: a subject     *)
(* proposes, the market is handed to the pool, the pool works, and the     *)
(* generation is recorded.  It says that history, trajectory.jsonl and the *)
(* generation files describe the same markets, place by place; that the    *)
(* results collected are those of the specs that were handed over; and     *)
(* that a subject knows, before and after its turn, what it should.        *)
(*                                                                         *)
(* The invariant of the directory says what each point of a command may    *)
(* rely on: state.json is true of the files whenever it can be read, a     *)
(* command holds the memory that belongs to its point, the last line of a  *)
(* subject is the one of the run that wrote it, and nobody has read or     *)
(* answered a generation before the state names it.  It is kept by each    *)
(* file operation, by a stop between any two, and by the agents.           *)
(***************************************************************************)
EXTENDS GenerationalLoop, AgentSession, SequenceTheorems, FunctionTheorems, FiniteSetTheorems,
        NaturalsInduction, WellFoundedInduction, TLAPS

----------------------------------------------------------------------------
(* The catalogue and clamp_params. *)

\* What the bounds of one parameter are good for: clamping into them ends up
\* between them, and rounding does not leave them where whole numbers are asked
\* for (CATALOGUE in agents/catalogue.py).
Sound(p, isInt) ==
  /\ p.lo \in Int /\ p.hi \in Int /\ p.default \in Int
  /\ p.lo <= p.default /\ p.default <= p.hi
  /\ isInt => p.lo % One = 0 /\ p.hi % One = 0

LEMMA StrategyNames == Strategies = {"mm", "momentum", "meanrev"}
BY DEF Strategies, Catalogue

LEMMA CatalogueIsSound ==
  ASSUME NEW s \in Strategies, NEW k \in DOMAIN Catalogue[s]
  PROVE  Sound(Catalogue[s][k], k \in IntParams)
<1>1. CASE s = "mm"
  <2>1. Catalogue[s] = [spread |-> Param(2 * One, One, 20 * One), skew |-> Param(1000, 0, One)]
    BY <1>1 DEF Catalogue
  <2>2. k \in {"spread", "skew"}
    BY <2>1
  <2>3. CASE k = "spread"
    BY <2>1, <2>3 DEF Sound, Param, One, IntParams
  <2>4. CASE k = "skew"
    BY <2>1, <2>4 DEF Sound, Param, One, IntParams
  <2> QED BY <2>2, <2>3, <2>4
<1>2. CASE s = "momentum"
  <2>1. Catalogue[s] = [fast |-> Param(20 * One, 2 * One, 500 * One), slow |-> Param(200 * One, 5 * One, 5000 * One),
                        thr |-> Param(2 * One, 2000, 50 * One)]
    BY <1>2 DEF Catalogue
  <2>2. k \in {"fast", "slow", "thr"}
    BY <2>1
  <2>3. CASE k = "fast"
    BY <2>1, <2>3 DEF Sound, Param, One, IntParams
  <2>4. CASE k = "slow"
    BY <2>1, <2>4 DEF Sound, Param, One, IntParams
  <2>5. CASE k = "thr"
    BY <2>1, <2>5 DEF Sound, Param, One, IntParams
  <2> QED BY <2>2, <2>3, <2>4, <2>5
<1>3. CASE s = "meanrev"
  <2>1. Catalogue[s] = [thr |-> Param(2 * One, 2000, 50 * One), size |-> Param(5 * One, One, 50 * One)]
    BY <1>3 DEF Catalogue
  <2>2. k \in {"thr", "size"}
    BY <2>1
  <2>3. CASE k = "thr"
    BY <2>1, <2>3 DEF Sound, Param, One, IntParams
  <2>4. CASE k = "size"
    BY <2>1, <2>4 DEF Sound, Param, One, IntParams
  <2> QED BY <2>2, <2>3, <2>4
<1> QED BY <1>1, <1>2, <1>3, StrategyNames

\* The windows of a trend follower: five times a fast one is a slow one.
LEMMA WindowFacts ==
  /\ DOMAIN Catalogue["momentum"] = {"fast", "slow", "thr"}
  /\ Catalogue["momentum"]["fast"].lo = 40000 /\ Catalogue["momentum"]["fast"].hi = 10000000
  /\ Catalogue["momentum"]["slow"].lo = 100000 /\ Catalogue["momentum"]["slow"].hi = 100000000
<1>1. Catalogue["momentum"] = [fast |-> Param(20 * One, 2 * One, 500 * One), slow |-> Param(200 * One, 5 * One, 5000 * One),
                               thr |-> Param(2 * One, 2000, 50 * One)]
  BY DEF Catalogue
<1> QED BY <1>1 DEF Param, One

\* Rounding to whole numbers stays between whole bounds (clamp_params).
LEMMA RoundingStaysBetween ==
  ASSUME NEW v \in Int, NEW lo \in Int, NEW hi \in Int,
         lo % One = 0, hi % One = 0, lo <= v, v <= hi
  PROVE  /\ RoundTo(v, One) \in Int /\ RoundTo(v, One) % One = 0
         /\ lo <= RoundTo(v, One) /\ RoundTo(v, One) <= hi
BY DEF RoundTo, One

\* One value comes out between the bounds of its entry (clamp_params).
LEMMA ClampedIsBetween ==
  ASSUME NEW p, NEW isInt \in BOOLEAN, Sound(p, isInt), NEW v, v \in Int \/ v = NotANumber, v # NaN
  PROVE  /\ Clamped(v, p, isInt) \in Int
         /\ p.lo <= Clamped(v, p, isInt) /\ Clamped(v, p, isInt) <= p.hi
         /\ isInt => Clamped(v, p, isInt) % One = 0
<1> DEFINE x == IF v = NotANumber THEN p.default ELSE v
           y == Bounded(x, p)
<1>1. x \in Int /\ NaN \notin Int
  BY ValuesAssumption DEF Sound
<1>2. y \in Int /\ p.lo <= y /\ y <= p.hi
  BY <1>1 DEF Bounded, Sound
<1>3. CASE isInt
  <2>1. Clamped(v, p, isInt) = RoundTo(y, One)
    BY <1>1, <1>2, <1>3 DEF Clamped
  <2> HIDE DEF y
  <2> QED BY <2>1, <1>2, <1>3, RoundingStaysBetween DEF Sound
<1>4. CASE ~ isInt
  <2>1. Clamped(v, p, isInt) = y
    BY <1>4 DEF Clamped
  <2> QED BY <2>1, <1>2, <1>4
<1> QED BY <1>3, <1>4

\* N holds the fractions that may be nan, as pairs of a strategy and a
\* parameter: a value is a number that fits its bounds, or such a nan.
Number(name, k, v) ==
  /\ v \in Int
  /\ Catalogue[name][k].lo <= v /\ v <= Catalogue[name][k].hi
  /\ k \in IntParams => v % One = 0

PermittedNaN(name, k, v, N) == v = NaN /\ k \notin IntParams /\ <<name, k>> \in N

Fits(name, k, v, N) == Number(name, k, v) \/ PermittedNaN(name, k, v, N)

\* What a proposal of the catalogue is: its parameters are those of its
\* strategy and fit, and a slow window is longer than a fast one.
Within(name, q, N) ==
  /\ DOMAIN q = DOMAIN Catalogue[name]
  /\ \A k \in DOMAIN q : Fits(name, k, q[k], N)
  /\ name = "momentum" => q.slow > q.fast

InCatalogue(p, N) ==
  /\ p = Proposal(p.strategy, p.params)
  /\ p.strategy \in Strategies
  /\ Within(p.strategy, p.params, N)

LEMMA MoreNaNsFit ==
  ASSUME NEW N, NEW M, N \subseteq M, NEW p, InCatalogue(p, N)
  PROVE  InCatalogue(p, M)
BY DEF InCatalogue, Within, Fits, PermittedNaN

\* Readable values of the parameters a strategy has; a whole number may be nan,
\* and so may what N holds.
Given(name, raw, N) ==
  \A k \in DOMAIN raw \cap DOMAIN Catalogue[name] :
    \/ raw[k] \in Int \cup {NotANumber}
    \/ raw[k] = NaN /\ (k \in IntParams \/ <<name, k>> \in N)

LEMMA DefaultsAreNumbers ==
  ASSUME NEW name \in Strategies, NEW k \in DOMAIN Catalogue[name]
  PROVE  Catalogue[name][k].default \in Int
BY CatalogueIsSound DEF Sound

LEMMA MergedIsGiven ==
  ASSUME NEW name \in Strategies, NEW raw, NEW N, Given(name, raw, N)
  PROVE  /\ DOMAIN Catalogue[name] \subseteq DOMAIN Merged(name, raw)
         /\ Given(name, Merged(name, raw), N)
BY DefaultsAreNumbers DEF Merged, Given

\* A slow window that is no longer than the fast one is put to five times it,
\* which is within its bounds (clamp_params).
LEMMA OrderedWithin ==
  ASSUME NEW name \in Strategies, NEW q, NEW N,
         q = [k \in DOMAIN q |-> q[k]],
         DOMAIN q = DOMAIN Catalogue[name],
         \A k \in DOMAIN q : Fits(name, k, q[k], N)
  PROVE  Within(name, WindowsOrdered(name, q), N)
<1>0. ASSUME name = "momentum"
      PROVE  /\ DOMAIN q = {"fast", "slow", "thr"}
             /\ Number(name, "fast", q["fast"]) /\ Number(name, "slow", q["slow"])
  <2>1. DOMAIN q = {"fast", "slow", "thr"}
    BY <1>0, WindowFacts
  <2> QED BY <2>1 DEF Fits, PermittedNaN, IntParams
<1>1. CASE name = "momentum" /\ q.slow <= q.fast
  <2> DEFINE r == [q EXCEPT !.slow = 5 * q.fast]
  <2>1. DOMAIN q = {"fast", "slow", "thr"}
    BY <1>0, <1>1
  <2>2. WindowsOrdered(name, q) = r
    BY <1>1, <2>1 DEF WindowsOrdered
  <2>3. DOMAIN r = DOMAIN q /\ r["fast"] = q["fast"] /\ r["slow"] = 5 * q["fast"] /\ r["thr"] = q["thr"]
    BY <2>1
  <2>4. q["fast"] \in Int /\ 40000 <= q["fast"] /\ q["fast"] <= 10000000 /\ q["fast"] % One = 0
    BY <1>0, <1>1, WindowFacts DEF Number, IntParams
  <2> HIDE DEF r
  <2>5. (5 * q["fast"]) % One = 0
    BY <2>4 DEF One
  <2>6. /\ r["slow"] \in Int /\ r["slow"] > r["fast"] /\ r["slow"] % One = 0
        /\ 100000 <= r["slow"] /\ r["slow"] <= 100000000
    BY <2>3, <2>4, <2>5
  <2>7. \A k \in DOMAIN r : Fits(name, k, r[k], N)
    <3> SUFFICES ASSUME NEW k \in DOMAIN r PROVE Fits(name, k, r[k], N)
      OBVIOUS
    <3>1. CASE k = "slow"
      BY <3>1, <1>1, <2>6, WindowFacts DEF Fits, Number
    <3>2. CASE k \in {"fast", "thr"}
      BY <3>2, <2>3, <2>1
    <3> QED BY <3>1, <3>2, <2>1, <2>3
  <2> QED BY <1>1, <2>2, <2>3, <2>6, <2>7 DEF Within
<1>2. CASE ~ (name = "momentum" /\ q.slow <= q.fast)
  <2>1. WindowsOrdered(name, q) = q
    BY <1>2 DEF WindowsOrdered
  <2>2. name = "momentum" => q.slow > q.fast
    <3>1. CASE name = "momentum"
      <4>1. q["slow"] \in Int /\ q["fast"] \in Int
        BY <1>0, <3>1 DEF Number
      <4> QED BY <4>1, <3>1, <1>2
    <3> QED BY <3>1
  <2> QED BY <2>1, <2>2 DEF Within
<1> QED BY <1>1, <1>2

\* Whatever readable values a proposal is built from, it is in the catalogue
\* once clamp_params does not raise (normalise).
LEMMA NormaliseStaysIn ==
  ASSUME NEW name \in Strategies, NEW raw, NEW N, Given(name, raw, N),
         ~ ClampRaises(name, Merged(name, raw))
  PROVE  InCatalogue(normalise(name, raw), N) /\ normalise(name, raw).strategy = name
<1> DEFINE m == Merged(name, raw)
           q == [k \in DOMAIN m \cap DOMAIN Catalogue[name] |-> Clamped(m[k], Catalogue[name][k], k \in IntParams)]
<1>1. DOMAIN Catalogue[name] \subseteq DOMAIN m /\ Given(name, m, N)
  BY MergedIsGiven
<1>2. DOMAIN q = DOMAIN Catalogue[name]
  BY <1>1
<1>3. \A k \in DOMAIN q : Fits(name, k, q[k], N)
  <2> SUFFICES ASSUME NEW k \in DOMAIN q PROVE Fits(name, k, q[k], N)
    OBVIOUS
  <2>1. k \in DOMAIN m /\ k \in DOMAIN Catalogue[name]
    OBVIOUS
  <2>2. q[k] = Clamped(m[k], Catalogue[name][k], k \in IntParams)
    BY <2>1
  <2> DEFINE v == m[k]  p == Catalogue[name][k]  isInt == k \in IntParams
  <2>3. Sound(p, isInt) /\ isInt \in BOOLEAN
    BY <2>1, CatalogueIsSound
  <2>4. CASE v \in Int \cup {NotANumber}
    <3>1. v # NaN /\ (v \in Int \/ v = NotANumber)
      BY <2>4, ValuesAssumption
    <3>2. /\ Clamped(v, p, isInt) \in Int
          /\ p.lo <= Clamped(v, p, isInt) /\ Clamped(v, p, isInt) <= p.hi
          /\ isInt => Clamped(v, p, isInt) % One = 0
      <4> HIDE DEF v, p, isInt
      <4> QED BY <2>3, <3>1, ClampedIsBetween
    <3> QED BY <2>2, <3>2 DEF Fits, Number
  <2>5. CASE v = NaN /\ (k \in IntParams \/ <<name, k>> \in N)
    <3>1. k \notin IntParams
      BY <2>1, <2>5 DEF ClampRaises
    <3>2. Clamped(v, p, isInt) = NaN
      BY <2>5, <3>1, ValuesAssumption DEF Clamped, Bounded
    <3> QED BY <2>2, <2>5, <3>1, <3>2 DEF Fits, PermittedNaN
  <2> QED BY <1>1, <2>1, <2>4, <2>5 DEF Given
<1>4. q = [k \in DOMAIN q |-> q[k]]
  OBVIOUS
<1>5. normalise(name, raw) = Proposal(name, WindowsOrdered(name, q))
  BY DEF normalise, clamp_params
<1>6. Within(name, WindowsOrdered(name, q), N)
  <2> HIDE DEF q
  <2> QED BY <1>2, <1>3, <1>4, OrderedWithin
<1> HIDE DEF q
<1> QED BY <1>5, <1>6 DEF InCatalogue, Proposal

\* Parameters of the catalogue, perturbed, are readable values, and nan where
\* they were nan (perturb).
LEMMA PerturbedIsGiven ==
  ASSUME NEW name \in Strategies, NEW q, NEW N,
         \A k \in DOMAIN q \cap DOMAIN Catalogue[name] :
           q[k] \in Int \/ (q[k] = NaN /\ (k \in IntParams \/ <<name, k>> \in N)),
         NEW d \in Draws
  PROVE  Given(name, perturb(q, d), N)
<1> SUFFICES ASSUME NEW k \in DOMAIN perturb(q, d) \cap DOMAIN Catalogue[name]
             PROVE  \/ perturb(q, d)[k] \in Int
                    \/ perturb(q, d)[k] = NaN /\ (k \in IntParams \/ <<name, k>> \in N)
  BY DEF Given
<1>1. k \in DOMAIN q /\ k \in DOMAIN Catalogue[name]
  BY DEF perturb
<1>2. perturb(q, d)[k] = IF q[k] = NaN THEN NaN ELSE IF q[k] = 0 THEN d.fresh ELSE (q[k] \div 100) * d[k]
  BY <1>1 DEF perturb
<1>3. CASE q[k] = NaN
  BY <1>1, <1>2, <1>3, ValuesAssumption
<1>4. CASE q[k] # NaN
  <2>1. d[k] \in Int /\ d.fresh \in Int
    BY <1>1, RulesAssumption
  <2>2. q[k] \in Int
    BY <1>1, <1>4
  <2>3. q[k] \div 100 \in Int
    BY <2>2
  <2>4. (q[k] \div 100) * d[k] \in Int
    BY <2>1, <2>3
  <2> QED BY <1>2, <1>4, <2>1, <2>4
<1> QED BY <1>3, <1>4

----------------------------------------------------------------------------
(* Sequences, least members and the first of the best. *)

IsSequence(s) == \E S : s \in Seq(S)

Entries(s) == 1..Len(s)

LEMMA SeqFacts ==
  ASSUME NEW s, IsSequence(s)
  PROVE  Len(s) \in Nat /\ DOMAIN s = Entries(s) /\ (s = <<>> <=> Len(s) = 0)
<1> PICK S : s \in Seq(S)
  BY DEF IsSequence
<1> QED BY DEF Entries

LEMMA EmptyIsASeq == IsSequence(<<>>)
<1>1. <<>> \in Seq({})
  OBVIOUS
<1> QED BY <1>1 DEF IsSequence

LEMMA AppendFacts ==
  ASSUME NEW s, IsSequence(s), NEW e
  PROVE  /\ IsSequence(Append(s, e))
         /\ Len(Append(s, e)) = Len(s) + 1
         /\ Append(s, e)[Len(s) + 1] = e
         /\ \A i \in Entries(s) : Append(s, e)[i] = s[i]
<1>1. PICK S : s \in Seq(S)
  BY DEF IsSequence
<1>2. s \in Seq(S \cup {e}) /\ e \in S \cup {e}
  BY <1>1
<1> QED BY <1>2 DEF IsSequence, Entries

\* Nat is well-founded, in the form its theorem can be cited without an operator
LEMMA LessWellFounded == IsWellFoundedOn({p \in Nat \X Nat : p[1] < p[2]}, Nat)
  BY NatLessThanWellFounded DEF OpToRel

\* A set of numbers has a least member.
LEMMA Least ==
  ASSUME NEW T \in SUBSET Nat, T # {}
  PROVE  \E x \in T : \A y \in T : x <= y
<1> DEFINE R == {p \in Nat \X Nat : p[1] < p[2]}
<1>1. IsWellFoundedOn(R, Nat)
  BY LessWellFounded
<1>2. \A x, y \in Nat : x < y => <<x, y>> \in R
  OBVIOUS
<1> HIDE DEF R
<1>3. PICK x \in T : \A y \in T : ~(<<y, x>> \in R)
  BY <1>1, WFMin
<1>4. \A y \in T : x <= y
  <2> SUFFICES ASSUME NEW y \in T PROVE x <= y
    OBVIOUS
  <2>1. x \in Nat /\ y \in Nat
    OBVIOUS
  <2>2. ~(y < x)
    BY <1>2, <1>3, <2>1
  <2> QED BY <2>1, <2>2
<1> QED BY <1>4

\* i is ahead of or level with j: higher, or as high and no later
Leads(f, i, j) == f[j] < f[i] \/ (f[j] = f[i] /\ i <= j)

Upto(I, m) == {i \in I : i <= m}

LEMMA UptoFacts ==
  ASSUME NEW I, \A i \in I : i \in Nat, NEW m \in Nat
  PROVE  /\ Upto(I, m) \subseteq I
         /\ m > 0 => \A i \in Upto(I, m) : i \in Upto(I, m - 1) \/ i = m
         /\ m > 0 => m - 1 \in Nat /\ Upto(I, m - 1) \subseteq Upto(I, m) /\ \A i \in Upto(I, m - 1) : i < m
         /\ m \in I => m \in Upto(I, m)
<1>1. Upto(I, m) \subseteq I /\ (m \in I => m \in Upto(I, m))
  BY DEF Upto
<1>2. ASSUME m > 0 PROVE \A i \in Upto(I, m) : i \in Upto(I, m - 1) \/ i = m
  BY <1>2 DEF Upto
<1>3. ASSUME m > 0
      PROVE  m - 1 \in Nat /\ Upto(I, m - 1) \subseteq Upto(I, m) /\ \A i \in Upto(I, m - 1) : i < m
  BY <1>3 DEF Upto
<1> QED BY <1>1, <1>2, <1>3

\* All of a set is at or below its bound, and nothing counts from less than one.
LEMMA UptoEnds ==
  ASSUME NEW n \in Nat, NEW I, \A i \in I : i \in 1..n
  PROVE  Upto(I, n) = I /\ Upto(I, 0) = {}
BY DEF Upto

FirstOf(f, S) == \E i \in S : \A j \in S : Leads(f, i, j)

\* Of places below a bound, one has the first of the highest values: the least
\* bound for which this failed would have one place more than a bound for which
\* it holds, and that place or the one before it leads.
LEMMA FirstOfTheBest ==
  ASSUME NEW n \in Nat, NEW f, NEW I \in SUBSET (1..n), I # {}, \A i \in I : f[i] \in Int
  PROVE  FirstOf(f, I)
<1> DEFINE T == {m \in Nat : Upto(I, m) # {} /\ ~ FirstOf(f, Upto(I, m))}
<1>1. \A i \in I : i \in Nat /\ i \in 1..n
  OBVIOUS
<1>2. CASE T = {}
  <2>1. Upto(I, n) = I
    BY <1>1, UptoEnds
  <2> QED BY <1>2, <2>1
<1>3. CASE T # {}
  <2>1. PICK m \in T : \A y \in T : m <= y
    BY <1>3, Least
  <2>2. m \in Nat /\ Upto(I, m) # {} /\ ~ FirstOf(f, Upto(I, m))
    OBVIOUS
  <2> DEFINE B == Upto(I, m)
             C == Upto(I, m - 1)
  <2>3. m > 0
    <3>1. Upto(I, 0) = {}
      BY <1>1, UptoEnds
    <3>2. m # 0
      BY <2>2, <3>1, Zenon
    <3> QED BY <2>2, <3>2
  <2>4. /\ B \subseteq I /\ C \subseteq B
        /\ \A i \in B : i \in C \/ i = m
        /\ \A i \in C : i < m
        /\ m \in I => m \in B
        /\ m - 1 \in Nat
    BY <1>1, <2>2, <2>3, UptoFacts
  <2>5. m - 1 \notin T
    <3>1. ~ (m <= m - 1)
      BY <2>2
    <3> HIDE DEF T
    <3> QED BY <2>1, <3>1
  <2>6. C = {} \/ FirstOf(f, C)
    BY <2>4, <2>5
  <2>7. \A i \in B : f[i] \in Int /\ i \in Nat
    BY <1>1, <2>4
  <2> HIDE DEF B, C
  <2>8. FirstOf(f, B)
    <3>1. CASE C = {}
      <4>1. m \in B /\ \A j \in B : j = m
        BY <3>1, <2>2, <2>4 DEF B
      <4>2. Leads(f, m, m)
        BY <2>2 DEF Leads
      <4> QED BY <4>1, <4>2 DEF FirstOf
    <3>2. CASE C # {}
      <4>1. PICK i \in C : \A j \in C : Leads(f, i, j)
        BY <3>2, <2>6 DEF FirstOf
      <4>2. CASE m \notin B
        BY <4>1, <4>2, <2>4 DEF FirstOf
      <4>3. CASE m \in B
        <5>1. i \in B /\ f[m] \in Int /\ f[i] \in Int /\ i < m /\ i \in Nat
          BY <4>3, <2>4, <2>7
        <5>2. CASE f[m] <= f[i]
          <6>1. Leads(f, i, m)
            BY <5>1, <5>2, <2>2 DEF Leads
          <6> QED BY <4>1, <6>1, <2>4, <5>1 DEF FirstOf
        <5>3. CASE f[i] < f[m]
          <6>1. \A j \in C : Leads(f, m, j)
            <7> SUFFICES ASSUME NEW j \in C PROVE Leads(f, m, j)
              OBVIOUS
            <7>1. Leads(f, i, j) /\ f[j] \in Int
              BY <4>1, <2>4, <2>7
            <7>2. f[j] < f[m]
              BY <7>1, <5>1, <5>3 DEF Leads
            <7> QED BY <7>2 DEF Leads
          <6>2. Leads(f, m, m)
            BY <2>2 DEF Leads
          <6> QED BY <6>1, <6>2, <2>4, <4>3 DEF FirstOf
        <5> QED BY <5>1, <5>2, <5>3
      <4> QED BY <4>2, <4>3
    <3> QED BY <3>1, <3>2
  <2> QED BY <2>2, <2>8 DEF B
<1> QED BY <1>2, <1>3

\* What a history records of catalogue proposals: numbers and proposals.
Scored(h) == IsSequence(h) /\ \A i \in Entries(h) : h[i].score \in Int

Leader(h, I, i) == i \in I /\ \A j \in I : h[j].score < h[i].score \/ (h[j].score = h[i].score /\ i <= j)

\* BestIn returns the entry of the one index that leads (best_entry).
LEMMA BestIsALeader ==
  ASSUME NEW h, Scored(h), NEW I \in SUBSET Entries(h), I # {}
  PROVE  \E i \in I : Leader(h, I, i) /\ BestIn(h, I) = h[i]
<1> DEFINE f == [i \in Entries(h) |-> h[i].score]
<1>1. Len(h) \in Nat
  BY SeqFacts DEF Scored
<1>2. I \in SUBSET (1..Len(h)) /\ \A i \in I : f[i] \in Int /\ f[i] = h[i].score
  BY DEF Entries, Scored
<1>3. FirstOf(f, I)
  <2> HIDE DEF f
  <2> QED BY <1>1, <1>2, FirstOfTheBest
<1>4. \E i \in I : \A j \in I : h[j].score < h[i].score \/ (h[j].score = h[i].score /\ i <= j)
  BY <1>2, <1>3 DEF Leads, FirstOf
<1> DEFINE c == CHOOSE i \in I : \A j \in I : h[j].score < h[i].score \/ (h[j].score = h[i].score /\ i <= j)
<1>5. c \in I /\ \A j \in I : h[j].score < h[c].score \/ (h[j].score = h[c].score /\ c <= j)
  BY <1>4
<1>6. BestIn(h, I) = h[c]
  BY DEF BestIn
<1> HIDE DEF c
<1> QED BY <1>5, <1>6 DEF Leader

\* There is one leader.
LEMMA LeaderIsUnique ==
  ASSUME NEW h, Scored(h), NEW I \in SUBSET Entries(h), NEW i, NEW j, Leader(h, I, i), Leader(h, I, j)
  PROVE  i = j
<1>1. i \in I /\ j \in I /\ Len(h) \in Nat
  BY SeqFacts DEF Leader, Scored
<1>2. i \in Nat /\ j \in Nat /\ h[i].score \in Int /\ h[j].score \in Int
  BY <1>1 DEF Entries, Scored
<1>3. h[j].score < h[i].score \/ (h[j].score = h[i].score /\ i <= j)
  BY <1>1 DEF Leader
<1>4. h[i].score < h[j].score \/ (h[i].score = h[j].score /\ j <= i)
  BY <1>1 DEF Leader
<1> QED BY <1>2, <1>3, <1>4

----------------------------------------------------------------------------
(* The rules of AdaptRules: what each may return. *)

CatalogueRules == {"hillclimb", "imitate", "bandit", "llm"}

\* a history of catalogue proposals
Climbed(h, N) == Scored(h) /\ \A i \in Entries(h) : InCatalogue(h[i].proposal, N)

\* a report whose rivals can be read, and among some of which there is a best
Told(sub, report, N) ==
  report = None \/ sub.info # "rivals" \/
    /\ \A o \in report.others : Readable(o.spec) /\ Nans(o.spec) \subseteq N
    /\ \A S \in SUBSET report.others : S # {} =>
         \E o \in S : \A p \in S : p.mean < o.mean \/ (p.mean = o.mean /\ o.id <= p.id)

\* what a rule of the catalogue may return when it does not raise
Plain(out, mem, N) ==
  /\ out.raised = FALSE
  /\ InCatalogue(out.proposal, N)
  /\ out.memory = mem /\ out.written = NoFiles

LEMMA NothingIsGiven == ASSUME NEW name, NEW N PROVE Given(name, NoParams, N)
BY DEF Given, NoParams

\* A proposal built from readable values.
LEMMA ProposesPlain ==
  ASSUME NEW name \in Strategies, NEW raw, NEW N, Given(name, raw, N), NEW mem,
         NEW out, out = Proposes(name, raw, mem), out.raised # TRUE
  PROVE  Plain(out, mem, N) /\ out.proposal.strategy = name
<1>1. ~ ClampRaises(name, Merged(name, raw))
  BY DEF Proposes, RaisedBy
<1>2. out = Returned(normalise(name, raw), mem, NoFiles)
  BY <1>1 DEF Proposes
<1>3. InCatalogue(normalise(name, raw), N) /\ normalise(name, raw).strategy = name
  BY <1>1, NormaliseStaysIn
<1> QED BY <1>2, <1>3 DEF Plain, Returned

\* Parameters that may be perturbed, into a proposal of their strategy.
Base(p, N) ==
  /\ p.strategy \in Strategies
  /\ \A k \in DOMAIN p.params \cap DOMAIN Catalogue[p.strategy] :
       p.params[k] \in Int \/ (p.params[k] = NaN /\ (k \in IntParams \/ <<p.strategy, k>> \in N))

LEMMA ProposalIsABase == ASSUME NEW N, NEW p, InCatalogue(p, N) PROVE Base(p, N)
BY DEF Base, InCatalogue, Within, Fits, Number, PermittedNaN

LEMMA AroundPlain ==
  ASSUME NEW N, NEW bases, \A p \in bases : Base(p, N), NEW mem, NEW out \in Around(bases, mem), out.raised # TRUE
  PROVE  Plain(out, mem, N)
<1>1. PICK p \in bases, d \in Draws : out = Proposes(p.strategy, perturb(p.params, d), mem)
  BY DEF Around
<1> DEFINE raw == perturb(p.params, d)
<1>2. p.strategy \in Strategies /\ Given(p.strategy, raw, N)
  BY PerturbedIsGiven DEF Base
<1>3. out = Proposes(p.strategy, raw, mem)
  BY <1>1
<1> HIDE DEF raw
<1> QED BY <1>2, <1>3, ProposesPlain

LEMMA HillClimbPlain ==
  ASSUME NEW sub, sub.start \in Strategies, NEW N, NEW h, Climbed(h, N), NEW mem,
         NEW out \in HillClimb(sub, h, mem), out.raised # TRUE
  PROVE  Plain(out, mem, N)
<1>1. CASE h = <<>>
  <2>1. out = Proposes(sub.start, NoParams, mem)
    BY <1>1 DEF HillClimb
  <2> QED BY <2>1, NothingIsGiven, ProposesPlain
<1>2. CASE h # <<>>
  <2>1. out \in Around({best_entry(h).proposal}, mem)
    BY <1>2 DEF HillClimb
  <2>2. DOMAIN h = Entries(h) /\ DOMAIN h # {}
    <3>1. Len(h) \in Nat /\ DOMAIN h = Entries(h) /\ (h = <<>> <=> Len(h) = 0)
      BY SeqFacts DEF Climbed, Scored
    <3>2. 1 \in Entries(h)
      BY <3>1, <1>2 DEF Entries
    <3> QED BY <3>1, <3>2
  <2>3. PICK i \in DOMAIN h : best_entry(h) = h[i]
    BY <2>2, BestIsALeader DEF Climbed, best_entry
  <2>4. InCatalogue(best_entry(h).proposal, N)
    BY <2>2, <2>3 DEF Climbed
  <2> QED BY <2>1, <2>4, ProposalIsABase, AroundPlain
<1> QED BY <1>1, <1>2

\* A copy has a nan for a fraction only if the rival has it.
LEMMA CopiesPlain ==
  ASSUME NEW rival, rival.spec.name \in Strategies, Readable(rival.spec),
         NEW N, Nans(rival.spec) \subseteq N, NEW mem, NEW out \in Copies(rival, mem), out.raised # TRUE
  PROVE  Plain(out, mem, N)
<1> DEFINE name == rival.spec.name
           params == parse_spec(rival.spec).params
           base == Proposal(name, Merged(name, params))
<1>1. parse_spec(rival.spec).name = name
  BY DEF parse_spec
<1>2. out \in Around({base}, mem)
  BY <1>1 DEF Copies
<1>3. \A k \in DOMAIN params : params[k] \in Int \cup {NaN}
  BY DEF parse_spec, Readable, NoParams
<1>4. \A k \in DOMAIN params : params[k] = NaN => <<name, k>> \in N
  BY DEF Nans
<1>5. Base(base, N)
  <2> HIDE DEF params
  <2>1. \A k \in DOMAIN Catalogue[name] : Catalogue[name][k].default \in Int
    BY DefaultsAreNumbers
  <2>2. \A k \in DOMAIN Merged(name, params) \cap DOMAIN Catalogue[name] :
          \/ Merged(name, params)[k] \in Int
          \/ Merged(name, params)[k] = NaN /\ <<name, k>> \in N
    BY <1>3, <1>4, <2>1 DEF Merged
  <2>3. base.strategy = name /\ base.params = Merged(name, params)
    BY DEF Proposal
  <2> HIDE DEF base, name
  <2> QED BY <2>2, <2>3 DEF Base, name
<1> HIDE DEF base
<1> QED BY <1>2, <1>5, AroundPlain

LEMMA ImitatePlain ==
  ASSUME NEW sub, sub.start \in Strategies, NEW N, NEW h, Climbed(h, N), NEW report, Told(sub, report, N),
         NEW mem, NEW out \in Imitate(sub, h, report, mem), out.raised # TRUE
  PROVE  Plain(out, mem, N)
<1> DEFINE others == IF report = None \/ sub.info # "rivals" THEN {}
                     ELSE {o \in report.others : parse_spec(o.spec).name \in Strategies}
<1>1. CASE out \in HillClimb(sub, h, mem)
  BY <1>1, HillClimbPlain
<1>2. CASE others # {} /\ out \in Copies(BestRival(others), mem)
  <2>1. /\ others \in SUBSET report.others
        /\ \A o \in others : Readable(o.spec) /\ Nans(o.spec) \subseteq N /\ o.spec.name \in Strategies
        /\ \E o \in others : \A q \in others : q.mean < o.mean \/ (q.mean = o.mean /\ o.id <= q.id)
    BY <1>2 DEF Told, parse_spec
  <2> HIDE DEF others
  <2>2. BestRival(others) \in others
    BY <2>1 DEF BestRival
  <2> QED BY <1>2, <2>1, <2>2, CopiesPlain
<1>3. out \in HillClimb(sub, h, mem) \/ (others # {} /\ out \in Copies(BestRival(others), mem))
  BY DEF Imitate
<1> QED BY <1>1, <1>2, <1>3

LEMMA ArmsAreStrategies == Range(Arms) = Strategies
BY StrategyNames DEF Arms, Range

\* The bandit moreover plays an untried arm while there is one.
LEMMA BanditPlain ==
  ASSUME NEW sub, NEW N, NEW h, Climbed(h, N), NEW mem, NEW out \in Bandit(sub, h, mem), out.raised # TRUE
  PROVE  /\ Plain(out, mem, N)
         /\ Untried(h) # {} => out.proposal.strategy \in Untried(h)
<1>0. DOMAIN h = Entries(h)
  BY SeqFacts DEF Climbed, Scored
<1>1. CASE Untried(h) # {}
  <2>1. PICK a \in IF h = <<>> THEN {Arms[1]} ELSE Untried(h) : out = Proposes(a, NoParams, mem)
    BY <1>1 DEF Bandit
  <2>2. a \in Untried(h)
    <3>1. CASE h = <<>>
      <4>1. a = "mm" /\ "mm" \in Range(Arms)
        BY <2>1, <3>1, ArmsAreStrategies, StrategyNames DEF Arms
      <4>2. ByArm(h, a) = {}
        BY <3>1 DEF ByArm
      <4> QED BY <4>1, <4>2 DEF Untried
    <3>2. CASE h # <<>>
      BY <2>1, <3>2
    <3> QED BY <3>1, <3>2
  <2>3. a \in Strategies
    BY <2>2, ArmsAreStrategies DEF Untried
  <2>4. Plain(out, mem, N) /\ out.proposal.strategy = a
    BY <2>1, <2>3, NothingIsGiven, ProposesPlain
  <2> QED BY <2>2, <2>4
<1>2. CASE Untried(h) = {}
  <2> DEFINE bases == {BestIn(h, ByArm(h, a)).proposal : a \in Winners(h)}
  <2>1. out \in Around(bases, mem)
    BY <1>2 DEF Bandit
  <2>2. \A p \in bases : Base(p, N)
    <3> SUFFICES ASSUME NEW a \in Winners(h) PROVE Base(BestIn(h, ByArm(h, a)).proposal, N)
      OBVIOUS
    <3>1. a \in Range(Arms)
      BY DEF Winners
    <3>2. ByArm(h, a) # {} /\ ByArm(h, a) \in SUBSET Entries(h)
      BY <1>0, <1>2, <3>1 DEF Untried, ByArm
    <3>3. PICK i \in ByArm(h, a) : BestIn(h, ByArm(h, a)) = h[i]
      BY <3>2, BestIsALeader DEF Climbed
    <3>4. InCatalogue(h[i].proposal, N)
      BY <3>2, <3>3 DEF Climbed
    <3> QED BY <3>3, <3>4, ProposalIsABase
  <2> HIDE DEF bases
  <2> QED BY <1>2, <2>1, <2>2, AroundPlain
<1> QED BY <1>1, <1>2

\* every parameter of the catalogue
Everything == {<<s, k>> : s \in Strategies, k \in UNION {DOMAIN Catalogue[t] : t \in Strategies}}

\* A model's answer is in the catalogue once it does not raise, nans apart.
LEMMA AnswerPlain ==
  ASSUME NEW mem, NEW out \in ClaudeParams(mem), out.raised # TRUE
  PROVE  Plain(out, mem, Everything)
<1>0. out # RaisedBy(mem)
  <2>1. RaisedBy(mem).raised = TRUE
    BY DEF RaisedBy
  <2> QED BY <2>1, Zenon
<1>1. PICK a \in Answers : out = Proposes(a.strategy, a.params, mem)
  BY <1>0 DEF ClaudeParams
<1>2. a.strategy \in Strategies
  BY RulesAssumption
<1>3. \A k \in DOMAIN a.params \cap DOMAIN Catalogue[a.strategy] : a.params[k] \in Int \cup {NotANumber, NaN}
  BY RulesAssumption
<1>4. \A k \in DOMAIN Catalogue[a.strategy] : <<a.strategy, k>> \in Everything
  BY <1>2 DEF Everything
<1>5. Given(a.strategy, a.params, Everything)
  BY <1>3, <1>4 DEF Given
<1> QED BY <1>1, <1>2, <1>5, ProposesPlain

\* What a rule of the catalogue proposes is in the catalogue.
LEMMA CatalogueRulesPlain ==
  ASSUME NEW sub, sub.start \in Strategies, sub.rule \in CatalogueRules,
         NEW N, sub.rule = "llm" => N = Everything, NEW h, Climbed(h, N),
         NEW report, sub.rule = "imitate" => Told(sub, report, N),
         NEW mem, NEW out \in propose(sub, h, report, mem), out.raised # TRUE
  PROVE  Plain(out, mem, N)
<1>1. CASE sub.rule = "hillclimb"
  BY <1>1, HillClimbPlain DEF propose
<1>2. CASE sub.rule = "imitate"
  BY <1>2, ImitatePlain DEF propose
<1>3. CASE sub.rule = "bandit"
  BY <1>3, BanditPlain DEF propose
<1>4. CASE sub.rule = "llm"
  BY <1>4, AnswerPlain DEF propose
<1> QED BY <1>1, <1>2, <1>3, <1>4 DEF CatalogueRules

IsPlugin(p, name, g) ==
  /\ p = PluginProposal(p.spec.path, p.code)
  /\ p.spec.path.subject = name /\ p.spec.path.generation = g

\* what a proposer that writes plugins may return in generation g
Writes(out, name, g) ==
  /\ out.raised = FALSE
  /\ IsPlugin(out.proposal, name, g)
  /\ \A f \in DOMAIN out.written : f.subject = name /\ f.generation = g
  /\ out.proposal.spec.path \in DOMAIN out.written
  /\ out.written[out.proposal.spec.path] = out.proposal.code

LEMMA PluginIsPlugin ==
  ASSUME NEW name, NEW g, NEW a, NEW code, NEW mem, NEW written,
         \A f \in DOMAIN written : f.subject = name /\ f.generation = g,
         SourceFile(name, g, a) \in DOMAIN written,
         written[SourceFile(name, g, a)] = code
  PROVE  Writes(Returned(PluginProposal(SourceFile(name, g, a), code), mem, written), name, g)
<1> DEFINE path == SourceFile(name, g, a)
           p == PluginProposal(path, code)
<1>1. path.subject = name /\ path.generation = g
  BY DEF SourceFile
<1> HIDE DEF path
<1>2. p.spec.path = path /\ p.code = code
  BY DEF PluginProposal, PluginSpec
<1>3. IsPlugin(p, name, g)
  BY <1>1, <1>2 DEF IsPlugin
<1> HIDE DEF p
<1> QED BY <1>2, <1>3 DEF Writes, Returned, path, p

\* Each generation writes its own files (ClaudeCodeProposer.propose).
LEMMA ClaudeCodeWrites ==
  ASSUME NEW name, NEW h, NEW mem, NEW out \in ClaudeCode(name, h, mem)
  PROVE  out.raised = TRUE \/ Writes(out, name, Len(h))
<1> DEFINE g == Len(h)
           Tried(n) == [f \in {SourceFile(name, g, a) : a \in 0..(n - 1)} |-> Code(g, f.attempt, 0)]
<1>1. CASE out = RaisedBy(mem)
  BY <1>1 DEF RaisedBy
<1>2. CASE out # RaisedBy(mem)
  <2>1. PICK n \in 1..MaxTries :
          out = Returned(PluginProposal(SourceFile(name, g, n - 1), Code(g, n - 1, 0)), mem, Tried(n))
    BY <1>2 DEF ClaudeCode
  <2>2. n \in Nat /\ n >= 1 /\ n - 1 \in 0..(n - 1)
    BY DEF MaxTries
  <2>3. \A f \in DOMAIN Tried(n) : f.subject = name /\ f.generation = g
    BY DEF SourceFile
  <2>4. SourceFile(name, g, n - 1) \in DOMAIN Tried(n)
    BY <2>2
  <2>5. Tried(n)[SourceFile(name, g, n - 1)] = Code(g, n - 1, 0)
    BY <2>4 DEF SourceFile
  <2> HIDE DEF Tried
  <2> QED BY <2>1, <2>3, <2>4, <2>5, PluginIsPlugin
<1> QED BY <1>1, <1>2

LEMMA MockCodeWrites ==
  ASSUME NEW name, NEW h, NEW mem, NEW out \in MockCode(name, h, mem)
  PROVE  out.raised = TRUE \/ (Writes(out, name, Len(h)) /\ out.memory = Remember(mem, h))
<1> DEFINE g == Len(h)
           file == SourceFile(name, g, 0)
<1>1. CASE out = RaisedBy(Remember(mem, h))
  BY <1>1 DEF RaisedBy
<1>2. CASE out # RaisedBy(Remember(mem, h))
  <2>1. \E w : out = Returned(PluginProposal(file, Code(g, 0, w)), Remember(mem, h), [f \in {file} |-> Code(g, 0, w)])
    BY <1>2 DEF MockCode
  <2>2. PICK w : out = Returned(PluginProposal(file, Code(g, 0, w)), Remember(mem, h), [f \in {file} |-> Code(g, 0, w)])
    BY <2>1
  <2> DEFINE written == [f \in {file} |-> Code(g, 0, w)]
  <2>3. \A f \in DOMAIN written : f.subject = name /\ f.generation = g
    BY DEF SourceFile
  <2>4. file \in DOMAIN written /\ written[file] = Code(g, 0, w)
    OBVIOUS
  <2>5. out.memory = Remember(mem, h)
    BY <2>2 DEF Returned
  <2> HIDE DEF written
  <2>6. Writes(Returned(PluginProposal(file, Code(g, 0, w)), Remember(mem, h), written), name, g)
    BY <2>3, <2>4, PluginIsPlugin
  <2> QED BY <2>2, <2>5, <2>6 DEF written
<1> QED BY <1>1, <1>2

\* What the mock writer keeps after n entries.
Kept(h, n) ==
  IF n <= 0 THEN Unscored
  ELSE [window |-> BestIn(h, 1..n).proposal.code.window, score |-> BestIn(h, 1..n).score]

\* Looking at the last entry is enough to keep the first of the best (MockCodeProposer.propose).
LEMMA RemembersTheBest ==
  ASSUME NEW h, Scored(h)
  PROVE  Remember(Kept(h, Len(h) - 1), h) = Kept(h, Len(h))
<1> DEFINE n == Len(h)
           e == h[n]
<1>1. n \in Nat /\ (h = <<>> <=> n = 0)
  BY SeqFacts DEF Scored
<1>2. CASE n = 0
  BY <1>1, <1>2 DEF Remember, Kept
<1>3. CASE n = 1
  <2>1. 1..n \in SUBSET Entries(h) /\ 1..n # {} /\ \A i \in 1..n : i = 1
    BY <1>3 DEF Entries
  <2>2. BestIn(h, 1..n) = h[1]
    BY <2>1, BestIsALeader
  <2>3. Kept(h, n - 1) = Unscored /\ Unscored.score = None
    BY <1>3 DEF Kept, Unscored
  <2>4. Remember(Unscored, h) = [window |-> e.proposal.code.window, score |-> e.score]
    BY <1>1, <1>3, <2>3 DEF Remember
  <2>5. Kept(h, n) = [window |-> e.proposal.code.window, score |-> e.score]
    BY <1>3, <2>2 DEF Kept
  <2> QED BY <2>3, <2>4, <2>5
<1>4. CASE n > 1
  <2> DEFINE I == 1..n
             J == 1..(n - 1)
  <2>1. /\ I \in SUBSET Entries(h) /\ I # {} /\ J \in SUBSET Entries(h) /\ J # {}
        /\ \A i \in I : i \in J \/ i = n
        /\ \A i \in J : i \in I /\ i \in Nat /\ i <= n
        /\ n \in I /\ n \in Entries(h)
    <3>1. \A i : i \in I <=> i \in Nat /\ 1 <= i /\ i <= n
      BY <1>1
    <3>2. \A i : i \in J <=> i \in Nat /\ 1 <= i /\ i <= n - 1
      BY <1>1
    <3>3. Entries(h) = I
      BY DEF Entries
    <3> HIDE DEF I, J
    <3>4. n \in I /\ 1 \in I /\ 1 \in J
      BY <1>1, <1>4, <3>1, <3>2
    <3>5. \A i \in I : i \in J \/ i = n
      BY <1>1, <3>1, <3>2
    <3>6. \A i \in J : i \in I /\ i \in Nat /\ i <= n
      BY <1>1, <3>1, <3>2
    <3> QED BY <3>3, <3>4, <3>5, <3>6
  <2> HIDE DEF I, J
  <2>2. PICK i \in I : Leader(h, I, i) /\ BestIn(h, I) = h[i]
    BY <2>1, BestIsALeader
  <2>3. PICK j \in J : Leader(h, J, j) /\ BestIn(h, J) = h[j]
    BY <2>1, BestIsALeader
  <2>4. e.score \in Int /\ h[j].score \in Int /\ \A k \in J : h[k].score \in Int
    BY <2>1, <2>3 DEF Scored
  <2>5. Kept(h, n - 1) = [window |-> h[j].proposal.code.window, score |-> h[j].score]
    <3>1. ~ (n - 1 <= 0)
      BY <1>1, <1>4
    <3> QED BY <3>1, <2>3 DEF Kept, J
  <2>6. Kept(h, n) = [window |-> h[i].proposal.code.window, score |-> h[i].score]
    <3>1. ~ (n <= 0)
      BY <1>1, <1>4
    <3> QED BY <3>1, <2>2 DEF Kept, I
  <2>7. h[j].score # None /\ h # <<>>
    BY <1>1, <1>4, <2>4, ValuesAssumption
  <2>8. Remember(Kept(h, n - 1), h) = IF e.score > h[j].score THEN [window |-> e.proposal.code.window, score |-> e.score]
                                      ELSE Kept(h, n - 1)
    BY <2>5, <2>7 DEF Remember
  <2>9. CASE e.score > h[j].score
    <3>1. \A k \in I : h[k].score < h[n].score \/ (h[k].score = h[n].score /\ n <= k)
      <4> SUFFICES ASSUME NEW k \in I PROVE h[k].score < h[n].score \/ (h[k].score = h[n].score /\ n <= k)
        OBVIOUS
      <4>1. CASE k = n
        BY <4>1, <1>1
      <4>2. CASE k \in J
        <5>1. h[k].score <= h[j].score /\ h[k].score \in Int
          BY <4>2, <2>3, <2>4 DEF Leader
        <5> QED BY <5>1, <2>4, <2>9
      <4> QED BY <4>1, <4>2, <2>1
    <3>2. Leader(h, I, n)
      BY <3>1, <2>1 DEF Leader
    <3>3. i = n
      BY <3>2, <2>1, <2>2, LeaderIsUnique
    <3> QED BY <3>3, <2>6, <2>8, <2>9
  <2>a. CASE ~ (e.score > h[j].score)
    <3>1. \A k \in I : h[k].score < h[j].score \/ (h[k].score = h[j].score /\ j <= k)
      <4> SUFFICES ASSUME NEW k \in I PROVE h[k].score < h[j].score \/ (h[k].score = h[j].score /\ j <= k)
        OBVIOUS
      <4>1. CASE k = n
        BY <4>1, <1>1, <2>1, <2>4, <2>a
      <4>2. CASE k \in J
        BY <4>2, <2>3 DEF Leader
      <4> QED BY <4>1, <4>2, <2>1
    <3>2. Leader(h, I, j)
      BY <3>1, <2>1 DEF Leader
    <3>3. i = j
      BY <3>2, <2>1, <2>2, LeaderIsUnique
    <3> QED BY <3>3, <2>5, <2>6, <2>8, <2>a
  <2> QED BY <2>9, <2>a, Zenon
<1>5. n = 0 \/ n = 1 \/ n > 1
  <2> HIDE DEF n
  <2> QED BY <1>1
<1> QED BY <1>2, <1>3, <1>4, <1>5, Zenon

----------------------------------------------------------------------------
(* Sums. *)

\* g is the running sum of the first n values of f
IsSum(g, f, n) == g = [k \in 0..n |-> IF k = 0 THEN 0 ELSE g[k - 1] + f[k]]

SumOf(f, n) == CHOOSE g : IsSum(g, f, n)

\* There is one for every n: the running sum to n - 1 can be continued.
LEMMA SumExists ==
  ASSUME NEW f, NEW n \in Nat
  PROVE  \E g : IsSum(g, f, n)
<1> DEFINE T == {m \in Nat : ~ \E g : IsSum(g, f, m)}
<1>1. CASE T = {}
  BY <1>1
<1>2. CASE T # {}
  <2>1. PICK m \in T : \A y \in T : m <= y
    BY <1>2, Least
  <2>2. m \in Nat /\ ~ \E g : IsSum(g, f, m)
    OBVIOUS
  <2>3. CASE m = 0
    <3> DEFINE g == [k \in 0..0 |-> 0]
    <3>1. \A k \in 0..0 : k = 0
      OBVIOUS
    <3>2. [k \in 0..0 |-> IF k = 0 THEN 0 ELSE g[k - 1] + f[k]] = [k \in 0..0 |-> 0]
      BY <3>1
    <3>3. IsSum(g, f, 0)
      BY <3>2 DEF IsSum
    <3> HIDE DEF g
    <3> QED BY <2>2, <2>3, <3>3
  <2>4. CASE m # 0
    <3>1. m - 1 \in Nat /\ ~ (m <= m - 1)
      BY <2>2, <2>4
    <3>2. m - 1 \notin T
      <4> HIDE DEF T
      <4> QED BY <2>1, <3>1
    <3>3. PICK g : IsSum(g, f, m - 1)
      BY <3>1, <3>2
    <3> DEFINE r == [k \in 0..m |-> IF k = m THEN g[m - 1] + f[m] ELSE g[k]]
    <3>4. g = [k \in 0..(m - 1) |-> IF k = 0 THEN 0 ELSE g[k - 1] + f[k]]
      BY <3>3 DEF IsSum
    <3>5. ASSUME NEW k \in 0..m PROVE r[k] = IF k = 0 THEN 0 ELSE r[k - 1] + f[k]
      <4>1. k \in Int /\ 0 <= k /\ k <= m
        BY <2>2
      <4>2. k # 0 => k - 1 \in 0..(m - 1) /\ k - 1 # m /\ k - 1 \in 0..m
        BY <2>2, <4>1
      <4>3. k # 0 => r[k - 1] = g[k - 1]
        BY <4>2
      <4>4. CASE k = m
        BY <4>3, <4>4, <2>4
      <4>5. CASE k # m
        <5>1. k \in 0..(m - 1)
          BY <4>1, <4>5, <2>2
        <5>2. g[k] = IF k = 0 THEN 0 ELSE g[k - 1] + f[k]
          BY <3>4, <5>1
        <5>3. r[k] = g[k]
          BY <4>5
        <5> QED BY <5>2, <5>3, <4>3
      <4> QED BY <4>4, <4>5
    <3>6. r = [k \in 0..m |-> r[k]]
      OBVIOUS
    <3>7. [k \in 0..m |-> r[k]] = [k \in 0..m |-> IF k = 0 THEN 0 ELSE r[k - 1] + f[k]]
      <4> HIDE DEF r
      <4> QED BY <3>5
    <3>8. IsSum(r, f, m)
      <4> HIDE DEF r
      <4> QED BY <3>6, <3>7 DEF IsSum
    <3> HIDE DEF r
    <3> QED BY <2>2, <3>8
  <2> QED BY <2>3, <2>4
<1> QED BY <1>1, <1>2

\* A sum of whole numbers is one.
LEMMA SumIsInt ==
  ASSUME NEW f, NEW n \in Nat, \A k \in 1..n : f[k] \in Int
  PROVE  Total(f, n) \in Int
<1> DEFINE g == SumOf(f, n)
<1>1. IsSum(g, f, n)
  BY SumExists DEF SumOf
<1>2. Total(f, n) = g[n]
  BY DEF Total, SumOf, IsSum
<1> HIDE DEF g
<1>3. \A k \in 0..n : g[k] = IF k = 0 THEN 0 ELSE g[k - 1] + f[k]
  BY <1>1 DEF IsSum
<1> DEFINE T == {m \in Nat : m <= n /\ g[m] \notin Int}
<1>4. CASE T = {}
  BY <1>2, <1>4
<1>5. CASE T # {}
  <2>1. PICK m \in T : \A y \in T : m <= y
    BY <1>5, Least
  <2>2. m \in Nat /\ m <= n /\ g[m] \notin Int /\ m \in 0..n
    OBVIOUS
  <2>3. CASE m = 0
    BY <2>2, <2>3, <1>3
  <2>4. CASE m # 0
    <3>1. m - 1 \in Nat /\ ~ (m <= m - 1) /\ m - 1 <= n /\ m \in 1..n
      BY <2>2, <2>4
    <3>2. m - 1 \notin T
      <4> HIDE DEF T
      <4> QED BY <2>1, <3>1
    <3>3. g[m - 1] \in Int
      BY <3>1, <3>2
    <3>4. f[m] \in Int
      BY <3>1
    <3>5. g[m] = g[m - 1] + f[m]
      BY <1>3, <2>2, <2>4
    <3> QED BY <2>2, <3>3, <3>4, <3>5
  <2> QED BY <2>3, <2>4
<1> QED BY <1>4, <1>5

----------------------------------------------------------------------------
(* Command lines, markets and their reports. *)

Subj(i) == args.subjects[i]
Name(i) == args.subjects[i].name

LEMMA LineFacts ==
  ASSUME args \in CommandLines
  PROVE  /\ args.seeds \in Nat \ {0} /\ args.generations \in Nat \ {0}
         /\ IsSequence(args.subjects) /\ Len(args.subjects) \in Nat \ {0} /\ Turns = 1..Len(args.subjects)
         /\ IsSequence(args.background) /\ n_bg \in Nat /\ DOMAIN args.background = 1..n_bg
         /\ \A i \in Turns : Subj(i).rule \in Rules /\ Subj(i).start \in Strategies /\ Name(i) \in Names
         /\ \A k \in 1..n_bg : Readable(args.background[k])
         /\ \A i, j \in Turns : Name(i) = Name(j) => i = j
         /\ \A n \in Names : \E i \in Turns : n = Name(i)
<1>1. /\ args.seeds \in Nat \ {0} /\ args.generations \in Nat \ {0}
      /\ args.subjects \in Seq(Range(args.subjects)) \ {<<>>}
      /\ IsInjective([i \in DOMAIN args.subjects |-> args.subjects[i].name])
      /\ \A i \in DOMAIN args.subjects : args.subjects[i].rule \in Rules /\ args.subjects[i].start \in Strategies
      /\ args.background \in Seq(Range(args.background))
      /\ \A k \in DOMAIN args.background : Readable(args.background[k])
  BY CommandLinesAssumption
<1>2. IsSequence(args.subjects) /\ IsSequence(args.background)
  BY <1>1 DEF IsSequence
<1>3. /\ Len(args.subjects) \in Nat /\ Turns = 1..Len(args.subjects)
      /\ n_bg \in Nat /\ DOMAIN args.background = 1..n_bg
  BY <1>2, SeqFacts DEF Entries, Turns, n_bg
<1>4. Len(args.subjects) # 0
  BY <1>1, <1>2, SeqFacts
<1>5. \A i, j \in Turns : Name(i) = Name(j) => i = j
  BY <1>1 DEF IsInjective, Turns, Name
<1>6. (\A i \in Turns : Name(i) \in Names) /\ (\A n \in Names : \E i \in Turns : n = Name(i))
  BY DEF Names, Name, Turns
<1>7. \A i \in Turns : Subj(i).rule \in Rules /\ Subj(i).start \in Strategies
  BY <1>1 DEF Subj, Turns
<1> QED BY <1>1, <1>2, <1>3, <1>4, <1>5, <1>6, <1>7

AgentCount == n_bg + Len(args.subjects)

\* the specs of a market: the background, and specs that can be read
Market(sp) ==
  /\ IsSequence(sp) /\ Len(sp) = AgentCount
  /\ \A k \in 1..AgentCount : Readable(sp[k])

AgentsOf(sp, payoff) == {[id |-> k - 1, spec |-> sp[k], pnl |-> payoff[k - 1]] : k \in DOMAIN sp}

\* a report of a session of a market
Ran(r, sp) ==
  /\ r.kind = "ended"
  /\ \E payoff \in Payoffs : r.agents = AgentsOf(sp, payoff)

\* A report names each agent once, with its spec and a number.
LEMMA ReportFacts ==
  ASSUME args \in CommandLines, NEW sp, Market(sp), NEW r, Ran(r, sp), NEW k \in 1..AgentCount
  PROVE  /\ PnlOf(k - 1, r) \in Int
         /\ {a \in r.agents : a.id = k - 1} = {[id |-> k - 1, spec |-> sp[k], pnl |-> PnlOf(k - 1, r)]}
<1>1. PICK payoff \in Payoffs : r.agents = AgentsOf(sp, payoff)
  BY DEF Ran
<1>2. DOMAIN sp = 1..AgentCount /\ AgentCount \in Nat
  BY SeqFacts DEF Market, Entries
<1>3. k \in DOMAIN sp /\ k \in Int /\ 1 <= k /\ k <= AgentCount
  BY <1>2
<1> DEFINE a == [id |-> k - 1, spec |-> sp[k], pnl |-> payoff[k - 1]]
<1>4. a \in r.agents /\ a.id = k - 1
  BY <1>1, <1>3 DEF AgentsOf
<1>5. ASSUME NEW b \in r.agents, b.id = k - 1 PROVE b = a
  <2>1. PICK j \in DOMAIN sp : b = [id |-> j - 1, spec |-> sp[j], pnl |-> payoff[j - 1]]
    BY <1>1 DEF AgentsOf
  <2>2. j \in Int /\ j - 1 = k - 1
    BY <2>1, <1>2, <1>5
  <2>3. j = k
    BY <2>2, <1>3
  <2> QED BY <2>1, <2>3
<1>6. (CHOOSE b \in r.agents : b.id = k - 1) = a
  <2> HIDE DEF a
  <2> QED BY <1>4, <1>5
<1>7. PnlOf(k - 1, r) = payoff[k - 1]
  <2>1. a.pnl = payoff[k - 1]
    OBVIOUS
  <2>2. PnlOf(k - 1, r) = (CHOOSE b \in r.agents : b.id = k - 1).pnl
    BY DEF PnlOf
  <2> HIDE DEF a
  <2> QED BY <2>1, <2>2, <1>6
<1>8. payoff[k - 1] \in Int
  <2>1. AgentCount = Len(args.background) + Len(args.subjects)
    BY DEF AgentCount, n_bg
  <2>2. \A j \in 1..AgentCount : payoff[j - 1] \in Int
    BY <2>1, PayoffsAssumption, Zenon
  <2> QED BY <2>2
<1>9. {b \in r.agents : b.id = k - 1} = {a}
  <2> HIDE DEF a
  <2> QED BY <1>4, <1>5
<1> QED BY <1>7, <1>8, <1>9

\* the reports of all seeds
Runs(runs, sp) == IsSequence(runs) /\ Len(runs) = args.seeds /\ \A s \in Seeds : Ran(runs[s], sp)

RowsOf(sp, runs) == [k \in DOMAIN sp |-> [id |-> k - 1, mean |-> MeanPnl(k - 1, runs)]]

\* A mean over the reports of a market is a whole number.
LEMMA MeanIsInt ==
  ASSUME args \in CommandLines, NEW sp, Market(sp), NEW runs, Runs(runs, sp), NEW k \in 1..AgentCount
  PROVE  MeanPnl(k - 1, runs) \in Int
<1> DEFINE f == [s \in DOMAIN runs |-> PnlOf(k - 1, runs[s])]
<1>1. Len(runs) \in Nat /\ DOMAIN runs = 1..Len(runs) /\ Len(runs) = args.seeds /\ args.seeds \in Nat \ {0}
  BY SeqFacts, LineFacts DEF Runs, Entries
<1>2. \A s \in 1..Len(runs) : f[s] \in Int
  BY <1>1, ReportFacts DEF Runs, Seeds
<1>3. MeanPnl(k - 1, runs) = Total(f, Len(runs)) \div Len(runs)
  BY DEF MeanPnl
<1> HIDE DEF f
<1>4. Total(f, Len(runs)) \in Int
  BY <1>1, <1>2, SumIsInt
<1>5. \A x \in Int, y \in Nat \ {0} : x \div y \in Int
  OBVIOUS
<1> QED BY <1>1, <1>3, <1>4, <1>5

LEMMA RowFacts ==
  ASSUME args \in CommandLines, NEW sp, Market(sp), NEW runs, Runs(runs, sp)
  PROVE  /\ DOMAIN RowsOf(sp, runs) = 1..AgentCount
         /\ \A k \in 1..AgentCount : RowsOf(sp, runs)[k].id = k - 1 /\ RowsOf(sp, runs)[k].mean \in Int
<1>1. DOMAIN sp = 1..AgentCount
  BY SeqFacts DEF Market, Entries
<1>2. \A k \in 1..AgentCount : RowsOf(sp, runs)[k] = [id |-> k - 1, mean |-> MeanPnl(k - 1, runs)]
  BY <1>1 DEF RowsOf
<1> QED BY <1>1, <1>2, MeanIsInt DEF RowsOf

\* The id of a subject is the place of its row and of its spec, less one.
LEMMA IdFacts ==
  ASSUME args \in CommandLines, NEW i \in Turns
  PROVE  IdOf(i) + 1 = n_bg + i /\ n_bg + i \in 1..AgentCount /\ n_bg + i \in Nat
BY LineFacts DEF IdOf, AgentCount

\* What a subject's proposer makes of it.
LEMMA SpecIsReadable ==
  ASSUME NEW p, NEW N, InCatalogue(p, N) \/ \E name, g : IsPlugin(p, name, g)
  PROVE  Readable(spec_of(p))
<1>1. CASE InCatalogue(p, N)
  <2>1. "spec" \notin DOMAIN p
    BY <1>1 DEF InCatalogue, Proposal
  <2>2. spec_of(p) = to_spec(p.strategy, p.params)
    BY <2>1 DEF spec_of
  <2>3. \A k \in DOMAIN p.params : p.params[k] \in Int \cup {NaN}
    BY <1>1 DEF InCatalogue, Within, Fits, Number, PermittedNaN
  <2>4. \A v \in Int : RoundTo(v, Step) \in Int
    BY DEF RoundTo, Step
  <2>5. \A k \in DOMAIN p.params : to_spec(p.strategy, p.params).params[k] \in Int \cup {NaN}
    BY <2>3, <2>4 DEF to_spec
  <2>6. DOMAIN to_spec(p.strategy, p.params).params = DOMAIN p.params
    BY DEF to_spec
  <2> QED BY <2>2, <2>5, <2>6 DEF Readable
<1>2. CASE \E name, g : IsPlugin(p, name, g)
  <2>1. p = PluginProposal(p.spec.path, p.code)
    BY <1>2 DEF IsPlugin
  <2>2. "spec" \in DOMAIN p /\ p.spec = PluginSpec(p.spec.path)
    BY <2>1 DEF PluginProposal
  <2>3. spec_of(p).name = "plugin"
    BY <2>2 DEF spec_of, PluginSpec
  <2> QED BY <2>3, StrategyNames DEF Readable
<1> QED BY <1>1, <1>2

\* last, as the rows and the specs of a market that ran
Behind(sp, runs) == last = [rows |-> RowsOf(sp, runs), specs |-> sp]

\* The report on a generation can be read, shows no other nans than the specs of
\* the rivals have, and has a best among any of them (build_report).
LEMMA ReportIsTold ==
  ASSUME args \in CommandLines, NEW sp, Market(sp), NEW runs, Runs(runs, sp), Behind(sp, runs), NEW i \in Turns,
         NEW N, \A k \in 1..AgentCount : k # n_bg + i => Nans(sp[k]) \subseteq N
  PROVE  Told(Subj(i), build_report(i), N)
<1> SUFFICES ASSUME Subj(i).info = "rivals" PROVE Told(Subj(i), build_report(i), N)
  BY DEF Told
<1> DEFINE summary == RowsOf(sp, runs)
           rivals == build_report(i).others
<1>1. /\ DOMAIN summary = 1..AgentCount /\ AgentCount \in Nat
      /\ \A k \in 1..AgentCount : summary[k].id = k - 1 /\ summary[k].mean \in Int
  BY RowFacts, LineFacts DEF AgentCount
<1> HIDE DEF summary
<1>2. last.rows = summary /\ last.specs = sp
  BY DEF Behind, summary
<1>3. rivals = Others(IdOf(i))
  BY DEF build_report, Subj
<1>4. ASSUME NEW o \in rivals
      PROVE  \E k \in 1..AgentCount :
               k # n_bg + i /\ o.id = k - 1 /\ o.spec = sp[k] /\ o.mean = summary[k].mean
  <2>1. PICK row \in Range(summary) :
          row.id # IdOf(i) /\ o = [id |-> row.id, spec |-> sp[row.id + 1], mean |-> row.mean]
    BY <1>2, <1>3 DEF Others, SpecsBehind
  <2>2. PICK k \in 1..AgentCount : row = summary[k]
    BY <1>1, <2>1 DEF Range
  <2>3. row.id = k - 1 /\ row.id + 1 = k
    BY <1>1, <2>2
  <2>4. k # n_bg + i
    <3>1. n_bg \in Nat /\ i \in Nat /\ k \in Nat
      BY LineFacts, <1>1
    <3>2. IdOf(i) = (n_bg + i) - 1
      BY <3>1 DEF IdOf
    <3> QED BY <2>1, <2>3, <3>1, <3>2
  <2> QED BY <1>1, <2>1, <2>2, <2>3, <2>4
<1> HIDE DEF rivals
<1>5. \A o \in rivals : Readable(o.spec) /\ Nans(o.spec) \subseteq N
  BY <1>4 DEF Market
<1>6. ASSUME NEW S \in SUBSET rivals, S # {}
      PROVE  \E o \in S : \A p \in S : p.mean < o.mean \/ (p.mean = o.mean /\ o.id <= p.id)
  <2> DEFINE I == {k \in 1..AgentCount : \E o \in S : o.id = k - 1}
             f == [k \in 1..AgentCount |-> summary[k].mean]
  <2>1. \A o \in S : \E k \in I : o.id = k - 1 /\ o.mean = f[k]
    BY <1>4, <1>6
  <2>2. \A k \in I : k \in 1..AgentCount /\ \E o \in S : o.id = k - 1
    OBVIOUS
  <2>3. \A k \in 1..AgentCount : f[k] \in Int
    BY <1>1
  <2> HIDE DEF I, f
  <2>4. I \in SUBSET (1..AgentCount) /\ I # {}
    BY <1>6, <2>1, <2>2
  <2>5. FirstOf(f, I)
    BY <1>1, <2>3, <2>4, FirstOfTheBest
  <2>6. PICK k \in I : \A j \in I : Leads(f, k, j)
    BY <2>5 DEF FirstOf
  <2>7. PICK o \in S : o.id = k - 1
    BY <2>2
  <2>8. \A p, q \in S : p.id = q.id => p.mean = q.mean
    <3> SUFFICES ASSUME NEW p \in S, NEW q \in S, p.id = q.id PROVE p.mean = q.mean
      OBVIOUS
    <3>1. PICK x \in I : p.id = x - 1 /\ p.mean = f[x]
      BY <2>1
    <3>2. PICK y \in I : q.id = y - 1 /\ q.mean = f[y]
      BY <2>1
    <3>3. x \in Int /\ y \in Int
      BY <2>2
    <3>4. x - 1 = y - 1
      BY <3>1, <3>2
    <3>5. x = y
      BY <3>3, <3>4
    <3> QED BY <3>1, <3>2, <3>5
  <2>9. o.mean = f[k]
    <3>1. PICK x \in I : o.id = x - 1 /\ o.mean = f[x]
      BY <2>1
    <3>2. x \in Int /\ k \in Int
      BY <2>2
    <3>3. x = k
      BY <2>7, <3>1, <3>2
    <3> QED BY <3>1, <3>3
  <2>a. ASSUME NEW p \in S PROVE p.mean < o.mean \/ (p.mean = o.mean /\ o.id <= p.id)
    <3>1. PICK j \in I : p.id = j - 1 /\ p.mean = f[j]
      BY <2>1
    <3>2. f[j] < f[k] \/ (f[j] = f[k] /\ k <= j)
      BY <2>6 DEF Leads
    <3>3. k \in Int /\ j \in Int
      BY <2>2
    <3>4. k <= j => k - 1 <= j - 1
      BY <3>3
    <3> QED BY <2>7, <2>9, <3>1, <3>2, <3>4
  <2> QED BY <2>a
<1> QED BY <1>5, <1>6 DEF Told, rivals

----------------------------------------------------------------------------
(* The invariant of the loop. *)

\* what may be nan in a proposal of the i-th subject
NansFor(i) ==
  IF Subj(i).rule = "llm" THEN Everything
  ELSE IF Subj(i).rule = "imitate" /\ Subj(i).info = "rivals" THEN NansAround(i) ELSE {}

\* what a subject may have proposed in generation g, given the files on disk
\* and what may be nan
Made(disk, N, sub, g, p) ==
  \/ sub.rule \in CatalogueRules /\ InCatalogue(p, N)
  \/ /\ sub.rule \notin CatalogueRules
     /\ IsPlugin(p, sub.name, g)
     /\ p.spec.path \in DOMAIN disk /\ disk[p.spec.path] = p.code

Framed ==
  /\ args \in CommandLines
  /\ gen \in Nat /\ turn \in 1..(Len(args.subjects) + 1)
  /\ DOMAIN proposals = Names /\ DOMAIN shown = Names /\ DOMAIN memory = Names /\ DOMAIN history = Names

\* proposals of this generation up to the turn, and of the one before after it
Proposed ==
  \A i \in Turns :
    IF i < turn THEN Made(files, NansFor(i), Subj(i), gen, proposals[Name(i)])
    ELSE proposals[Name(i)] = None \/ Made(files, NansFor(i), Subj(i), gen - 1, proposals[Name(i)])

HistoryOf(i) == history[Name(i)]

HistoriesKept ==
  \A i \in Turns :
    /\ Scored(HistoryOf(i)) /\ Len(HistoryOf(i)) = gen
    /\ \A g \in 1..gen : Made(files, NansFor(i), Subj(i), g - 1, HistoryOf(i)[g].proposal)

\* the place of a line in trajectory.jsonl
LineAt(g, i) == (g - 1) * Len(args.subjects) + i

OnFile ==
  /\ IsSequence(genFiles) /\ Len(genFiles) = gen
  /\ IsSequence(trajectory) /\ Len(trajectory) = gen * Len(args.subjects)
  /\ \A g \in 1..gen :
       /\ Market(genFiles[g].specs) /\ Runs(genFiles[g].runs, genFiles[g].specs)
       /\ genFiles[g].rows = RowsOf(genFiles[g].specs, genFiles[g].runs)
       /\ \A i \in Turns :
            /\ genFiles[g].specs[n_bg + i] = spec_of(HistoryOf(i)[g].proposal)
            /\ HistoryOf(i)[g].score = genFiles[g].rows[n_bg + i].mean
            /\ trajectory[LineAt(g, i)] = [generation |-> g - 1, subject |-> Name(i), score |-> HistoryOf(i)[g].score]

LastRead ==
  last = IF gen = 0 THEN None ELSE [rows |-> genFiles[gen].rows, specs |-> genFiles[gen].specs]

ReportFor(i) == IF last = None THEN None ELSE build_report(i)

Informed == \A i \in Turns : i < turn => shown[Name(i)] = ReportFor(i)

Remembered ==
  \A i \in Turns : Subj(i).rule = "mock-code" =>
    memory[Name(i)] = Kept(HistoryOf(i), IF i < turn THEN gen ELSE gen - 1)

\* a bandit's first three arms differ, the one just proposed included
Explored ==
  \A i \in Turns : Subj(i).rule = "bandit" =>
    /\ \A j, k \in 1..gen : j < k /\ k <= 3 =>
         HistoryOf(i)[j].proposal.strategy # HistoryOf(i)[k].proposal.strategy
    /\ i < turn /\ gen < 3 =>
         \A j \in 1..gen : HistoryOf(i)[j].proposal.strategy # proposals[Name(i)].strategy

IsMap(f) == f = [x \in DOMAIN f |-> f[x]]

InPool ==
  /\ IsMap(session)
  /\ \A s \in DOMAIN session : session[s].kind = "ended" => Ran(session[s], specs)
  /\ pc = "sessions" =>
       /\ turn = Len(args.subjects) + 1
       /\ Market(specs) /\ \A i \in Turns : specs[n_bg + i] = spec_of(proposals[Name(i)])
       /\ DOMAIN session = Seeds /\ collected \in Nat
       /\ \A s \in 1..collected : s \in Seeds /\ session[s].kind = "ended"

Books == Framed /\ Proposed /\ HistoriesKept /\ OnFile /\ LastRead /\ Informed /\ Remembered /\ Explored

LoopInv == Books /\ InPool

LEMMA LoopStart == Init => LoopInv
<1> SUFFICES ASSUME Init PROVE LoopInv
  OBVIOUS
<1> USE DEF Init
<1>1. /\ Len(args.subjects) \in Nat \ {0} /\ Turns = 1..Len(args.subjects)
      /\ \A i \in Turns : Name(i) \in Names
  BY LineFacts
<1>2. Framed
  BY <1>1 DEF Framed
<1>3. Proposed
  BY <1>1 DEF Proposed
<1>4. \A i \in Turns : HistoryOf(i) = <<>>
  BY <1>1 DEF HistoryOf
<1>5. IsSequence(<<>>) /\ Len(<<>>) = 0 /\ Entries(<<>>) = {}
  BY EmptyIsASeq, SeqFacts DEF Entries
<1>6. HistoriesKept
  BY <1>4, <1>5 DEF HistoriesKept, Scored
<1>7. OnFile
  BY <1>1, <1>5 DEF OnFile
<1>8. LastRead
  BY DEF LastRead
<1>9. Informed /\ Explored
  BY <1>1 DEF Informed, Explored
<1>10. Remembered
  BY <1>1 DEF Remembered, Kept
<1>11. InPool
  BY DEF InPool, IsMap
<1> QED BY <1>2, <1>3, <1>6, <1>7, <1>8, <1>9, <1>10, <1>11 DEF LoopInv, Books

\* The pool keeps the books alone.
LEMMA BooksKept ==
  ASSUME Books, UNCHANGED <<args, gen, asking, records>>
  PROVE  Books'
<1> USE DEF asking, records
<1>1. /\ Turns' = Turns /\ Names' = Names /\ n_bg' = n_bg
      /\ \A i : Subj(i)' = Subj(i) /\ Name(i)' = Name(i) /\ HistoryOf(i)' = HistoryOf(i)
      /\ \A i : NansFor(i)' = NansFor(i)
  BY DEF Turns, Names, n_bg, Subj, Name, HistoryOf, NansFor, NansAround, RanBeside
<1>2. Framed'
  BY <1>1 DEF Books, Framed
<1>3. Proposed'
  BY <1>1 DEF Books, Proposed
<1>4. HistoriesKept'
  BY <1>1 DEF Books, HistoriesKept
<1>5. \A sp : Market(sp)' = Market(sp)
  BY <1>1 DEF Market, AgentCount
<1>6. \A r, sp : Runs(r, sp)' = Runs(r, sp)
  BY DEF Runs, Seeds
<1>7. \A g, i : LineAt(g, i)' = LineAt(g, i)
  BY DEF LineAt
<1>8. OnFile'
  BY <1>1, <1>5, <1>6, <1>7 DEF Books, OnFile
<1>9. LastRead'
  BY DEF Books, LastRead
<1>10. \A i : ReportFor(i)' = ReportFor(i)
  BY DEF ReportFor, build_report, Others, SpecsBehind, IdOf, n_bg
<1>11. Informed'
  BY <1>1, <1>10 DEF Books, Informed
<1>12. Remembered' /\ Explored'
  BY <1>1 DEF Books, Remembered, Explored
<1> QED BY <1>2, <1>3, <1>4, <1>8, <1>9, <1>11, <1>12 DEF Books

LEMMA PoolStep ==
  ASSUME LoopInv,
         (\E s \in DOMAIN session : StartSession(s) \/ EndSession(s)) \/ Collect \/ Abandon \/ LeavePool
  PROVE  LoopInv'
<1>1. UNCHANGED <<args, gen, specs, asking, records>>
  BY DEF StartSession, EndSession, Collect, Abandon, LeavePool, running
<1>2. Books'
  BY <1>1, BooksKept DEF LoopInv
<1>3. /\ Turns' = Turns /\ Seeds' = Seeds /\ n_bg' = n_bg /\ turn' = turn /\ args' = args /\ specs' = specs
      /\ proposals' = proposals /\ \A i : Name(i)' = Name(i)
      /\ Market(specs)' = Market(specs)
  BY <1>1 DEF Turns, Seeds, n_bg, asking, Name, Market, AgentCount
<1>4. InPool
  BY DEF LoopInv
<1>5. ASSUME NEW s \in DOMAIN session, StartSession(s) PROVE InPool'
  <2>1. session' = [session EXCEPT ![s] = [kind |-> "running"]] /\ s \in InState("waiting")
        /\ pc' = pc /\ collected' = collected
    BY <1>5 DEF StartSession
  <2>2. session[s].kind = "waiting"
    BY <2>1 DEF InState
  <2>3. DOMAIN session' = DOMAIN session /\ session'[s].kind = "running"
        /\ \A r \in DOMAIN session : r # s => session'[r] = session[r]
    BY <2>1
  <2> QED BY <1>3, <1>4, <2>1, <2>2, <2>3 DEF InPool, IsMap
<1>6. ASSUME NEW s \in DOMAIN session, EndSession(s) PROVE InPool'
  <2>1. PICK result \in {Report(s, payoff) : payoff \in Payoffs} \cup {[kind |-> "failed"]} :
          session' = [session EXCEPT ![s] = result]
    BY <1>6 DEF EndSession
  <2>2. session[s].kind = "running" /\ pc' = pc /\ collected' = collected
    BY <1>6 DEF EndSession, InState
  <2>3. DOMAIN session' = DOMAIN session /\ session'[s] = result
        /\ \A r \in DOMAIN session : r # s => session'[r] = session[r]
    BY <2>1
  <2>4. result.kind = "ended" => Ran(result, specs)
    BY <2>1 DEF Report, Ran, AgentsOf
  <2> QED BY <1>3, <1>4, <2>1, <2>2, <2>3, <2>4 DEF InPool, IsMap
<1>7. ASSUME Collect PROVE InPool'
  <2>1. /\ pc = "sessions" /\ collected + 1 \in DOMAIN session /\ session[collected + 1].kind = "ended"
        /\ collected' = collected + 1 /\ pc' = pc /\ session' = session
    BY <1>7 DEF Collect, InState
  <2>2. collected \in Nat /\ DOMAIN session = Seeds /\ \A s \in 1..collected : s \in Seeds /\ session[s].kind = "ended"
    BY <1>4, <2>1 DEF InPool
  <2>3. \A s \in 1..(collected + 1) : s \in 1..collected \/ s = collected + 1
    BY <2>2
  <2>4. \A s \in 1..(collected + 1) : s \in Seeds /\ session[s].kind = "ended"
    BY <2>1, <2>2, <2>3
  <2>5. collected + 1 \in Nat
    BY <2>2
  <2>6. IsMap(session') /\ \A s \in DOMAIN session' : session'[s].kind = "ended" => Ran(session'[s], specs')
    BY <1>3, <1>4, <2>1 DEF InPool
  <2>7. /\ turn = Len(args.subjects) + 1 /\ Market(specs)
        /\ \A i \in Turns : specs[n_bg + i] = spec_of(proposals[Name(i)])
    BY <1>4, <2>1 DEF InPool
  <2>8. /\ turn' = Len(args'.subjects) + 1 /\ Market(specs)'
        /\ \A i \in Turns' : specs'[n_bg' + i] = spec_of(proposals'[Name(i)'])
    BY <1>3, <2>7
  <2>9. DOMAIN session' = Seeds' /\ collected' \in Nat
        /\ \A s \in 1..collected' : s \in Seeds' /\ session'[s].kind = "ended"
    BY <1>3, <2>1, <2>2, <2>4, <2>5
  <2> QED BY <2>6, <2>8, <2>9 DEF InPool
<1>8. ASSUME Abandon PROVE InPool'
  <2>1. /\ session' = [s \in DOMAIN session |->
                         IF s \in InState("waiting") THEN [kind |-> "cancelled"] ELSE session[s]]
        /\ pc' = "failing"
    BY <1>8 DEF Abandon
  <2>2. IsMap(session') /\ \A s \in DOMAIN session' : session'[s].kind = "ended" => Ran(session'[s], specs')
    BY <1>3, <1>4, <2>1 DEF InPool, IsMap
  <2>3. pc' # "sessions"
    BY <2>1
  <2> QED BY <2>2, <2>3 DEF InPool
<1>9. ASSUME LeavePool PROVE InPool'
  <2>1. pc' = "failed" /\ session' = session
    BY <1>9 DEF LeavePool, running
  <2>2. IsMap(session') /\ \A s \in DOMAIN session' : session'[s].kind = "ended" => Ran(session'[s], specs')
    BY <1>3, <1>4, <2>1 DEF InPool
  <2>3. pc' # "sessions"
    BY <2>1
  <2> QED BY <2>2, <2>3 DEF InPool
<1> QED BY <1>2, <1>5, <1>6, <1>7, <1>8, <1>9 DEF LoopInv

\* Three arms, and at most two played: one is untried.
LEMMA SomeUntried ==
  ASSUME NEW h, Scored(h), Len(h) < 3
  PROVE  Untried(h) # {}
<1> SUFFICES ASSUME Untried(h) = {} PROVE FALSE
  OBVIOUS
<1>1. Len(h) \in Nat /\ DOMAIN h = 1..Len(h)
  BY SeqFacts DEF Scored, Entries
<1>2. DOMAIN h \subseteq {1, 2}
  BY <1>1
<1>3. \A a \in {"mm", "momentum", "meanrev"} : \E i \in {1, 2} : h[i].proposal.strategy = a
  <2> SUFFICES ASSUME NEW a \in {"mm", "momentum", "meanrev"} PROVE \E i \in {1, 2} : h[i].proposal.strategy = a
    OBVIOUS
  <2>1. a \in Range(Arms)
    BY ArmsAreStrategies, StrategyNames
  <2>2. ByArm(h, a) # {}
    BY <2>1 DEF Untried
  <2> QED BY <2>2, <1>2 DEF ByArm
<1> DEFINE x == h[1].proposal.strategy
           y == h[2].proposal.strategy
<1>4. \A a \in {"mm", "momentum", "meanrev"} : x = a \/ y = a
  BY <1>3
<1> HIDE DEF x, y
<1> QED BY <1>4

\* What the subject whose turn it is gets from its proposer.
LEMMA ProposeOutcome ==
  ASSUME Books, turn \in Turns,
         NEW out \in propose(Subj(turn), HistoryOf(turn), ReportFor(turn), memory[Name(turn)]), out.raised # TRUE
  PROVE  /\ out.raised = FALSE
         /\ \/ /\ Subj(turn).rule \in CatalogueRules
               /\ InCatalogue(out.proposal, NansFor(turn)) /\ out.written = NoFiles
            \/ Subj(turn).rule \notin CatalogueRules /\ Writes(out, Name(turn), gen)
         /\ Subj(turn).rule = "mock-code" => out.memory = Kept(HistoryOf(turn), gen)
         /\ Subj(turn).rule = "bandit" /\ gen < 3 =>
              \A j \in 1..gen : HistoryOf(turn)[j].proposal.strategy # out.proposal.strategy
<1> DEFINE sub == Subj(turn)
           h == HistoryOf(turn)
           report == ReportFor(turn)
           mem == memory[Name(turn)]
           N == NansFor(turn)
<1>1. args \in CommandLines /\ gen \in Nat /\ turn \in Nat
  BY DEF Books, Framed
<1>2. sub.rule \in Rules /\ sub.start \in Strategies /\ sub.name = Name(turn)
  BY <1>1, LineFacts DEF Subj, Name
<1>3. Scored(h) /\ Len(h) = gen /\ \A g \in 1..gen : Made(files, N, sub, g - 1, h[g].proposal)
  BY DEF Books, HistoriesKept
<1>4. sub.rule \in CatalogueRules => Climbed(h, N)
  BY <1>3 DEF Climbed, Made, Entries
<1>5. ASSUME sub.rule = "imitate" PROVE Told(sub, report, N)
  <2>1. CASE last = None \/ sub.info # "rivals"
    BY <2>1 DEF Told, ReportFor
  <2>2. CASE last # None /\ sub.info = "rivals"
    <3>1. gen \in 1..gen
      BY <1>1, <2>2 DEF Books, LastRead
    <3> DEFINE f == genFiles[gen]
    <3>2. Market(f.specs) /\ Runs(f.runs, f.specs) /\ f.rows = RowsOf(f.specs, f.runs)
      BY <3>1 DEF Books, OnFile
    <3>3. Behind(f.specs, f.runs)
      BY <3>1, <3>2, <1>1 DEF Books, LastRead, Behind
    <3>4. \A k \in 1..AgentCount : k # n_bg + turn => Nans(f.specs[k]) \subseteq N
      <4>1. N = NansAround(turn)
        BY <1>5, <2>2 DEF NansFor
      <4>2. gen \in DOMAIN genFiles
        BY <3>1, SeqFacts DEF Books, OnFile, Entries
      <4>3. \A k \in 1..AgentCount : k # n_bg + turn => f.specs[k] \in RanBeside(turn)
        BY <4>2 DEF RanBeside, AgentCount
      <4> HIDE DEF N, f
      <4> QED BY <4>1, <4>3 DEF NansAround
    <3>5. Told(Subj(turn), build_report(turn), N)
      <4> HIDE DEF N, f
      <4> QED BY <1>1, <3>2, <3>3, <3>4, ReportIsTold
    <3> QED BY <3>5, <2>2 DEF ReportFor
  <2> QED BY <2>1, <2>2
<1>6. out \in propose(sub, h, report, mem)
  OBVIOUS
<1>a. sub.rule = "llm" => N = Everything
  BY DEF NansFor
<1> HIDE DEF sub, h, report, mem, N
<1>7. CASE sub.rule \in CatalogueRules
  <2>1. Plain(out, mem, N)
    BY <1>2, <1>4, <1>5, <1>6, <1>7, <1>a, CatalogueRulesPlain
  <2>2. sub.rule # "mock-code"
    BY <1>7 DEF CatalogueRules
  <2>3. ASSUME sub.rule = "bandit", gen < 3
        PROVE  \A j \in 1..gen : h[j].proposal.strategy # out.proposal.strategy
    <3>1. out \in Bandit(sub, h, mem)
      BY <1>6, <2>3 DEF propose
    <3>2. Untried(h) # {}
      BY <1>3, <2>3, SomeUntried
    <3>3. out.proposal.strategy \in Untried(h)
      BY <1>4, <1>7, <3>1, <3>2, BanditPlain
    <3>4. ByArm(h, out.proposal.strategy) = {}
      BY <3>3 DEF Untried
    <3>5. DOMAIN h = 1..gen
      BY <1>3, SeqFacts DEF Scored, Entries
    <3> QED BY <3>4, <3>5 DEF ByArm
  <2> QED BY <1>7, <2>1, <2>2, <2>3 DEF Plain, sub, h, N
<1>8. CASE sub.rule \notin CatalogueRules
  <2>1. sub.rule \in {"mock-code", "llm-code"}
    BY <1>2, <1>8 DEF CatalogueRules, Rules
  <2>2. CASE sub.rule = "llm-code"
    <3>1. out \in ClaudeCode(sub.name, h, mem)
      BY <1>6, <2>2 DEF propose
    <3>2. Writes(out, sub.name, gen)
      BY <1>3, <3>1, ClaudeCodeWrites
    <3> QED BY <1>2, <1>8, <2>2, <3>2 DEF sub, Writes
  <2>3. CASE sub.rule = "mock-code"
    <3>1. out \in MockCode(sub.name, h, mem)
      BY <1>6, <2>3 DEF propose
    <3>2. Writes(out, sub.name, gen) /\ out.memory = Remember(mem, h)
      BY <1>3, <3>1, MockCodeWrites
    <3>3. mem = Kept(h, gen - 1)
      <4>1. ~ (turn < turn)
        BY <1>1
      <4>2. memory[Name(turn)] = Kept(HistoryOf(turn), IF turn < turn THEN gen ELSE gen - 1)
        BY <2>3 DEF Books, Remembered, sub
      <4> QED BY <4>1, <4>2 DEF mem, h
    <3>4. out.memory = Kept(h, gen)
      BY <1>3, <3>2, <3>3, RemembersTheBest
    <3> QED BY <1>2, <1>8, <2>3, <3>2, <3>4 DEF sub, h, Writes
  <2> QED BY <2>1, <2>2, <2>3
<1> QED BY <1>7, <1>8

\* the files on disk once those written are on it
WithWritten(disk, written) ==
  [f \in DOMAIN disk \cup DOMAIN written |-> IF f \in DOMAIN written THEN written[f] ELSE disk[f]]

\* Files written for one subject and generation are not those of another.
LEMMA MadeKept ==
  ASSUME NEW disk, NEW written, NEW N, NEW sub, NEW g, NEW p, NEW name, NEW now,
         \A f \in DOMAIN written : f.subject = name /\ f.generation = now,
         sub.name # name \/ g # now,
         Made(disk, N, sub, g, p)
  PROVE  Made(WithWritten(disk, written), N, sub, g, p)
<1> DEFINE disk2 == WithWritten(disk, written)
<1>1. CASE sub.rule \in CatalogueRules
  BY <1>1 DEF Made
<1>2. CASE sub.rule \notin CatalogueRules
  <2>1. IsPlugin(p, sub.name, g) /\ p.spec.path \in DOMAIN disk /\ disk[p.spec.path] = p.code
    BY <1>2 DEF Made
  <2>2. p.spec.path \notin DOMAIN written
    BY <2>1 DEF IsPlugin
  <2>3. p.spec.path \in DOMAIN disk2 /\ disk2[p.spec.path] = p.code
    BY <2>1, <2>2 DEF WithWritten
  <2> QED BY <1>2, <2>1, <2>3 DEF Made
<1> QED BY <1>1, <1>2

LEMMA NothingWritten ==
  ASSUME NEW disk
  PROVE  DOMAIN NoFiles = {}
BY DEF NoFiles

LEMMA ProposeStep ==
  ASSUME LoopInv, Propose
  PROVE  LoopInv'
<1> DEFINE t == turn
<1>1. /\ pc = "propose" /\ turn \in Turns
      /\ UNCHANGED <<args, gen, specs, session, collected, tmp, history, last, trajectory, genFiles>>
  BY DEF Propose, running, records
<1>2. PICK out \in propose(Subj(turn), HistoryOf(turn), ReportFor(turn), memory[Name(turn)]) :
        IF out.raised
        THEN pc' = "failed" /\ UNCHANGED asking
        ELSE /\ proposals' = [proposals EXCEPT ![Name(turn)] = out.proposal]
             /\ memory' = [memory EXCEPT ![Name(turn)] = out.memory]
             /\ files' = [f \in DOMAIN files \cup DOMAIN out.written |->
                            IF f \in DOMAIN out.written THEN out.written[f] ELSE files[f]]
             /\ shown' = [shown EXCEPT ![Name(turn)] = ReportFor(turn)]
             /\ turn' = turn + 1
             /\ UNCHANGED pc
  BY DEF Propose, Subj, Name, HistoryOf, ReportFor
<1>3. /\ args \in CommandLines /\ gen \in Nat /\ turn \in Nat /\ Len(args.subjects) \in Nat
      /\ turn \in 1..Len(args.subjects) /\ Turns = 1..Len(args.subjects)
      /\ \A i \in Turns : Name(i) \in Names /\ i \in Nat
      /\ \A i, j \in Turns : Name(i) = Name(j) => i = j
  BY <1>1, LineFacts DEF LoopInv, Books, Framed
<1>4. /\ Turns' = Turns /\ Names' = Names /\ n_bg' = n_bg /\ Seeds' = Seeds
      /\ \A i : Subj(i)' = Subj(i) /\ Name(i)' = Name(i) /\ HistoryOf(i)' = HistoryOf(i)
      /\ \A i : ReportFor(i)' = ReportFor(i)
      /\ \A sp : Market(sp)' = Market(sp)
      /\ \A r, sp : Runs(r, sp)' = Runs(r, sp)
      /\ \A g, i : LineAt(g, i)' = LineAt(g, i)
      /\ \A i : NansFor(i)' = NansFor(i)
  BY <1>1 DEF Turns, Names, n_bg, Seeds, Subj, Name, HistoryOf, ReportFor, build_report, Others, SpecsBehind, IdOf,
              Market, AgentCount, Runs, LineAt, NansFor, NansAround, RanBeside
<1>5. CASE out.raised = TRUE
  <2>1. pc' = "failed" /\ UNCHANGED asking
    BY <1>2, <1>5
  <2>2. Books'
    BY <1>1, <2>1, BooksKept DEF LoopInv, records
  <2>3. InPool'
    BY <1>1, <2>1 DEF LoopInv, InPool
  <2> QED BY <2>2, <2>3 DEF LoopInv
<1>6. CASE out.raised # TRUE
  <2> DEFINE written == out.written
  <2>1. /\ proposals' = [proposals EXCEPT ![Name(t)] = out.proposal]
        /\ memory' = [memory EXCEPT ![Name(t)] = out.memory]
        /\ files' = [f \in DOMAIN files \cup DOMAIN written |-> IF f \in DOMAIN written THEN written[f] ELSE files[f]]
        /\ shown' = [shown EXCEPT ![Name(t)] = ReportFor(t)]
        /\ turn' = t + 1 /\ pc' = pc
    <3>1. out.raised = FALSE
      BY <1>1, <1>6, ProposeOutcome DEF LoopInv
    <3> QED BY <1>2, <3>1
  <2>2. /\ \/ Subj(t).rule \in CatalogueRules /\ InCatalogue(out.proposal, NansFor(t)) /\ written = NoFiles
           \/ Subj(t).rule \notin CatalogueRules /\ Writes(out, Name(t), gen)
        /\ Subj(t).rule = "mock-code" => out.memory = Kept(HistoryOf(t), gen)
        /\ Subj(t).rule = "bandit" /\ gen < 3 =>
             \A j \in 1..gen : HistoryOf(t)[j].proposal.strategy # out.proposal.strategy
    BY <1>1, <1>6, ProposeOutcome DEF LoopInv
  <2>3. \A f \in DOMAIN written : f.subject = Name(t) /\ f.generation = gen
    BY <2>2, NothingWritten DEF Writes
  <2>4. Made(files', NansFor(t), Subj(t), gen, out.proposal)
    <3>1. CASE Subj(t).rule \in CatalogueRules
      BY <3>1, <2>2 DEF Made
    <3>2. CASE Subj(t).rule \notin CatalogueRules
      <4>1. Writes(out, Subj(t).name, gen)
        BY <3>2, <2>2 DEF Subj, Name
      <4>2. out.proposal.spec.path \in DOMAIN files' /\ files'[out.proposal.spec.path] = out.proposal.code
        BY <4>1, <2>1 DEF Writes
      <4> QED BY <3>2, <4>1, <4>2 DEF Made, Writes
    <3> QED BY <3>1, <3>2
  <2>5. ASSUME NEW i \in Turns, NEW g, NEW p, i # t \/ g # gen, Made(files, NansFor(i), Subj(i), g, p)
        PROVE  Made(files', NansFor(i), Subj(i), g, p)
    <3>1. Subj(i).name # Name(t) \/ g # gen
      BY <1>1, <1>3, <2>5 DEF Subj, Name
    <3> HIDE DEF written
    <3>2. files' = WithWritten(files, written)
      BY <2>1 DEF WithWritten
    <3>3. Made(WithWritten(files, written), NansFor(i), Subj(i), g, p)
      BY <2>3, <2>5, <3>1, MadeKept
    <3> QED BY <3>2, <3>3, Zenon
  <2> HIDE DEF written
  <2>6. /\ DOMAIN proposals' = DOMAIN proposals /\ DOMAIN memory' = DOMAIN memory /\ DOMAIN shown' = DOMAIN shown
        /\ proposals'[Name(t)] = out.proposal /\ memory'[Name(t)] = out.memory /\ shown'[Name(t)] = ReportFor(t)
        /\ \A i \in Turns : i # t =>
             /\ proposals'[Name(i)] = proposals[Name(i)]
             /\ memory'[Name(i)] = memory[Name(i)]
             /\ shown'[Name(i)] = shown[Name(i)]
    BY <1>1, <1>3, <2>1 DEF LoopInv, Books, Framed
  <2>7. \A i \in Turns : (i < turn' <=> i < t \/ i = t)
    BY <1>3, <2>1
  <2>8. \A i \in Turns : i # t => (i < turn' <=> i < t)
    BY <2>7
  <2>9. Framed'
    <3>1. turn' \in 1..(Len(args.subjects) + 1)
      BY <1>3, <2>1
    <3> QED BY <1>1, <1>4, <2>6, <3>1 DEF LoopInv, Books, Framed
  <2>10. Proposed'
    <3> SUFFICES ASSUME NEW i \in Turns
                 PROVE  IF i < turn' THEN Made(files', NansFor(i), Subj(i), gen, proposals'[Name(i)])
                        ELSE proposals'[Name(i)] = None \/ Made(files', NansFor(i), Subj(i), gen - 1, proposals'[Name(i)])
      BY <1>1, <1>4 DEF Proposed
    <3>1. CASE i = t
      BY <3>1, <2>4, <2>6, <2>7
    <3>2. CASE i # t
      <4>1. IF i < t THEN Made(files, NansFor(i), Subj(i), gen, proposals[Name(i)])
            ELSE proposals[Name(i)] = None \/ Made(files, NansFor(i), Subj(i), gen - 1, proposals[Name(i)])
        BY DEF LoopInv, Books, Proposed
      <4> QED BY <3>2, <4>1, <2>5, <2>6, <2>8
    <3> QED BY <3>1, <3>2
  <2>11. HistoriesKept'
    <3>1. \A i \in Turns, g \in 1..gen : Made(files', NansFor(i), Subj(i), g - 1, HistoryOf(i)[g].proposal)
      <4> SUFFICES ASSUME NEW i \in Turns, NEW g \in 1..gen
                   PROVE  Made(files', NansFor(i), Subj(i), g - 1, HistoryOf(i)[g].proposal)
        OBVIOUS
      <4>1. Made(files, NansFor(i), Subj(i), g - 1, HistoryOf(i)[g].proposal)
        BY DEF LoopInv, Books, HistoriesKept
      <4>2. g - 1 # gen
        BY <1>3
      <4> QED BY <4>1, <4>2, <2>5
    <3> QED BY <1>1, <1>4, <3>1 DEF LoopInv, Books, HistoriesKept
  <2>12. OnFile'
    BY <1>1, <1>4 DEF LoopInv, Books, OnFile
  <2>13. LastRead'
    BY <1>1 DEF LoopInv, Books, LastRead
  <2>14. Informed'
    BY <1>4, <2>6, <2>8 DEF LoopInv, Books, Informed
  <2>15. Remembered'
    <3> SUFFICES ASSUME NEW i \in Turns, Subj(i).rule = "mock-code"
                 PROVE  memory'[Name(i)] = Kept(HistoryOf(i), IF i < turn' THEN gen ELSE gen - 1)
      BY <1>1, <1>4 DEF Remembered
    <3>1. CASE i = t
      BY <3>1, <2>2, <2>6, <2>7
    <3>2. CASE i # t
      <4>1. memory[Name(i)] = Kept(HistoryOf(i), IF i < t THEN gen ELSE gen - 1)
        BY DEF LoopInv, Books, Remembered
      <4> QED BY <3>2, <4>1, <2>6, <2>8
    <3> QED BY <3>1, <3>2
  <2>16. Explored'
    <3> SUFFICES ASSUME NEW i \in Turns, Subj(i).rule = "bandit"
                 PROVE  /\ \A j, k \in 1..gen : j < k /\ k <= 3 =>
                             HistoryOf(i)[j].proposal.strategy # HistoryOf(i)[k].proposal.strategy
                        /\ i < turn' /\ gen < 3 =>
                             \A j \in 1..gen : HistoryOf(i)[j].proposal.strategy # proposals'[Name(i)].strategy
      BY <1>1, <1>4 DEF Explored
    <3>1. /\ \A j, k \in 1..gen : j < k /\ k <= 3 =>
               HistoryOf(i)[j].proposal.strategy # HistoryOf(i)[k].proposal.strategy
          /\ i < t /\ gen < 3 =>
               \A j \in 1..gen : HistoryOf(i)[j].proposal.strategy # proposals[Name(i)].strategy
      BY DEF LoopInv, Books, Explored
    <3>2. CASE i = t
      BY <3>1, <3>2, <2>2, <2>6
    <3>3. CASE i # t
      BY <3>1, <3>3, <2>6, <2>8
    <3> QED BY <3>2, <3>3
  <2>17. InPool'
    <3>1. pc' # "sessions"
      BY <1>1, <2>1
    <3> QED BY <1>1, <3>1 DEF LoopInv, InPool
  <2> QED BY <2>9, <2>10, <2>11, <2>12, <2>13, <2>14, <2>15, <2>16, <2>17 DEF LoopInv, Books
<1> QED BY <1>5, <1>6

----------------------------------------------------------------------------
(* Handing the market to the pool, and recording what came of it. *)

Joined(s, t) == s \o t

IsJoin(s, t, both) ==
  /\ IsSequence(both)
  /\ Len(both) = Len(s) + Len(t)
  /\ \A i \in Entries(s) : both[i] = s[i]
  /\ \A i \in Entries(t) : both[Len(s) + i] = t[i]

LEMMA JoinFacts ==
  ASSUME NEW s, IsSequence(s), NEW t, IsSequence(t)
  PROVE  IsJoin(s, t, Joined(s, t))
<1>1. PICK S : s \in Seq(S)
  BY DEF IsSequence
<1>2. PICK T : t \in Seq(T)
  BY DEF IsSequence
<1>3. s \in Seq(S \cup T) /\ t \in Seq(S \cup T)
  BY <1>1, <1>2
<1>4. s \o t \in Seq(S \cup T) /\ Len(s \o t) = Len(s) + Len(t)
  BY <1>3
<1>5. Len(s) \in Nat /\ Len(t) \in Nat
  BY <1>3
<1>6. \A i \in 1..Len(s) : (s \o t)[i] = s[i]
  BY <1>3
<1>7. \A i \in 1..Len(t) : (s \o t)[Len(s) + i] = t[i]
  BY <1>3, <1>5
<1> QED BY <1>4, <1>6, <1>7 DEF IsSequence, Joined, Entries, IsJoin

\* A function on the numbers up to n is a sequence of n.
LEMMA MapIsASeq ==
  ASSUME NEW f, IsMap(f), NEW n \in Nat, DOMAIN f = 1..n
  PROVE  IsSequence(f) /\ Len(f) = n
<1>1. f \in [1..n -> {f[i] : i \in 1..n}]
  BY DEF IsMap
<1>2. f \in Seq({f[i] : i \in 1..n})
  BY <1>1
<1>3. Len(f) \in Nat /\ DOMAIN f = 1..Len(f)
  BY <1>2
<1> QED BY <1>2, <1>3 DEF IsSequence

\* A place in the market is one of the background's or a subject's.
LEMMA PlaceFacts ==
  ASSUME NEW n \in Nat, NEW m \in Nat, NEW k \in 1..(n + m)
  PROVE  k \in 1..n \/ (k - n \in 1..m /\ n + (k - n) = k)
OBVIOUS

LEMMA SubmitStep ==
  ASSUME LoopInv, Submit
  PROVE  LoopInv'
<1> DEFINE lines == [i \in Turns |-> spec_of(proposals[Name(i)])]
<1>1. /\ pc = "propose" /\ turn \notin Turns /\ pc' = "sessions"
      /\ specs' = Joined(args.background, lines)
      /\ session' = [s \in Seeds |-> [kind |-> "waiting"]]
      /\ collected' = 0
      /\ UNCHANGED <<args, gen, asking, tmp, records>>
  BY DEF Submit, Name, Joined
<1>2. Books /\ args \in CommandLines
  BY DEF LoopInv, Books, Framed
<1>3. Books'
  BY <1>1, <1>2, BooksKept
<1>4. /\ IsSequence(args.background) /\ n_bg \in Nat /\ n_bg = Len(args.background)
      /\ Len(args.subjects) \in Nat /\ Turns = 1..Len(args.subjects)
      /\ \A k \in 1..n_bg : Readable(args.background[k])
  BY <1>2, LineFacts DEF n_bg
<1>5. turn = Len(args.subjects) + 1
  BY <1>1, <1>2, <1>4 DEF Books, Framed
<1>6. \A i \in Turns : Readable(spec_of(proposals[Name(i)]))
  <2> SUFFICES ASSUME NEW i \in Turns PROVE Readable(spec_of(proposals[Name(i)]))
    OBVIOUS
  <2>1. i < turn
    BY <1>4, <1>5
  <2>2. Made(files, NansFor(i), Subj(i), gen, proposals[Name(i)])
    BY <1>2, <2>1 DEF Books, Proposed
  <2> QED BY <2>2, SpecIsReadable DEF Made
<1>7. IsSequence(lines) /\ Len(lines) = Len(args.subjects) /\ \A i \in Turns : lines[i] = spec_of(proposals[Name(i)])
  <2>1. IsMap(lines) /\ DOMAIN lines = 1..Len(args.subjects) /\ \A i \in Turns : lines[i] = spec_of(proposals[Name(i)])
    BY <1>4 DEF IsMap
  <2> HIDE DEF lines
  <2> QED BY <1>4, <2>1, MapIsASeq
<1> HIDE DEF lines
<1>8. /\ IsSequence(specs') /\ Len(specs') = AgentCount
      /\ \A k \in 1..n_bg : specs'[k] = args.background[k]
      /\ \A i \in Turns : specs'[n_bg + i] = spec_of(proposals[Name(i)])
  <2>1. IsSequence(args.background) /\ IsSequence(lines)
    BY <1>4, <1>7
  <2>2. IsJoin(args.background, lines, specs')
    BY <1>1, <2>1, JoinFacts, Zenon
  <2> QED BY <1>4, <1>7, <2>2 DEF Entries, AgentCount, IsJoin
<1>9. \A k \in 1..AgentCount : Readable(specs'[k])
  <2> SUFFICES ASSUME NEW k \in 1..AgentCount PROVE Readable(specs'[k])
    OBVIOUS
  <2>1. AgentCount = n_bg + Len(args.subjects)
    BY DEF AgentCount
  <2>2. k \in 1..n_bg \/ (k - n_bg \in 1..Len(args.subjects) /\ n_bg + (k - n_bg) = k)
    <3> DEFINE L == Len(args.subjects)
    <3>1. L \in Nat /\ k \in 1..(n_bg + L) /\ n_bg \in Nat
      BY <1>4, <2>1
    <3> HIDE DEF L
    <3> QED BY <3>1, PlaceFacts DEF L
  <2> QED BY <2>2, <1>4, <1>6, <1>8
<1>10. Market(specs')
  BY <1>8, <1>9 DEF Market
<1>11. /\ Turns' = Turns /\ Seeds' = Seeds /\ n_bg' = n_bg /\ turn' = turn /\ args' = args
       /\ proposals' = proposals /\ \A i : Name(i)' = Name(i)
       /\ AgentCount' = AgentCount
  BY <1>1 DEF Turns, Seeds, n_bg, asking, Name, AgentCount
<1>12. Market(specs)'
  BY <1>10, <1>11 DEF Market
<1>13. /\ IsMap(session') /\ DOMAIN session' = Seeds'
       /\ \A s \in DOMAIN session' : session'[s].kind # "ended"
  BY <1>1, <1>11 DEF IsMap
<1>14. collected' \in Nat /\ \A s \in 1..collected' : s \in Seeds' /\ session'[s].kind = "ended"
  BY <1>1
<1>15. turn' = Len(args'.subjects) + 1 /\ \A i \in Turns' : specs'[n_bg' + i] = spec_of(proposals'[Name(i)'])
  BY <1>5, <1>8, <1>11
<1>16. InPool'
  BY <1>12, <1>13, <1>14, <1>15 DEF InPool
<1> QED BY <1>3, <1>16 DEF LoopInv

\* What is kept of a history does not depend on what follows.
LEMMA KeptSame ==
  ASSUME NEW h, Scored(h), NEW e, e.score \in Int
  PROVE  Scored(Append(h, e)) /\ Kept(Append(h, e), Len(h)) = Kept(h, Len(h))
<1> DEFINE n == Len(h)
           h2 == Append(h, e)
<1>1. n \in Nat /\ IsSequence(h)
  BY SeqFacts DEF Scored
<1>2. IsSequence(h2) /\ Len(h2) = n + 1 /\ h2[n + 1] = e /\ \A i \in 1..n : h2[i] = h[i]
  BY <1>1, AppendFacts DEF Entries
<1> HIDE DEF h2
<1>3. \A i \in 1..n : h[i].score \in Int
  BY DEF Scored, Entries
<1>4. Scored(h2)
  <2>1. \A i \in 1..(n + 1) : i \in 1..n \/ i = n + 1
    BY <1>1
  <2> QED BY <1>2, <1>3, <2>1 DEF Scored, Entries
<1>5. CASE n = 0
  BY <1>4, <1>5 DEF Kept, h2
<1>6. CASE n # 0
  <2> DEFINE I == 1..n
  <2>1. I \in SUBSET Entries(h) /\ I \in SUBSET Entries(h2) /\ I # {}
    <3>1. \A i \in 1..n : i \in 1..(n + 1)
      BY <1>1
    <3>2. 1 \in 1..n
      BY <1>1, <1>6
    <3> QED BY <1>2, <3>1, <3>2 DEF Entries
  <2>2. \A i \in I : h2[i] = h[i]
    BY <1>2
  <2> HIDE DEF I
  <2>3. PICK i \in I : Leader(h, I, i) /\ BestIn(h, I) = h[i]
    BY <2>1, BestIsALeader
  <2>4. PICK j \in I : Leader(h2, I, j) /\ BestIn(h2, I) = h2[j]
    BY <1>4, <2>1, BestIsALeader
  <2>5. Leader(h, I, j)
    BY <2>2, <2>4 DEF Leader
  <2>6. i = j
    BY <2>1, <2>3, <2>5, LeaderIsUnique
  <2>7. BestIn(h2, I) = BestIn(h, I)
    BY <2>2, <2>3, <2>4, <2>6
  <2>8. Kept(h2, n) = Kept(h, n)
    <3> HIDE DEF n
    <3>1. ~ (n <= 0)
      BY <1>1, <1>6
    <3> QED BY <3>1, <2>7 DEF Kept, I
  <2> QED BY <1>4, <2>8 DEF h2
<1> QED BY <1>5, <1>6

\* The lines of a generation follow those of the one before.
LEMMA LinePlaces ==
  ASSUME NEW L \in Nat, NEW m \in Nat, NEW g \in 1..m, NEW i \in 1..L
  PROVE  (g - 1) * L + i \in 1..(m * L)
<1>1. g \in Nat /\ 1 <= g /\ g <= m /\ i \in Nat /\ 1 <= i /\ i <= L
  OBVIOUS
<1> DEFINE a == g - 1
           b == m - g
<1>2. a \in Nat /\ b \in Nat /\ m = (a + b) + 1
  BY <1>1
<1> HIDE DEF a, b
<1>3. a * L \in Nat /\ b * L \in Nat
  BY <1>2
<1>4. ((a + b) + 1) * L = (a * L + b * L) + L
  BY <1>2
<1>5. m * L = (a * L + b * L) + L
  BY <1>2, <1>4
<1>6. a * L + i \in 1..(m * L)
  <2> DEFINE x == a * L
             y == b * L
             z == m * L
  <2>1. x \in Nat /\ y \in Nat /\ z = (x + y) + L
    BY <1>3, <1>5
  <2> HIDE DEF x, y, z
  <2>2. x + i \in 1..z
    BY <1>1, <2>1
  <2> QED BY <2>2 DEF x, z
<1> QED BY <1>6 DEF a

\* A market that ran, as Record finds it.
LEMMA AllEnded ==
  ASSUME InPool, args \in CommandLines, pc = "sessions", collected = args.seeds
  PROVE  /\ turn = Len(args.subjects) + 1 /\ Market(specs) /\ Runs(session, specs)
         /\ \A i \in Turns : specs[n_bg + i] = spec_of(proposals[Name(i)])
         /\ summarise(session) = RowsOf(specs, session)
<1>1. /\ turn = Len(args.subjects) + 1 /\ Market(specs) /\ DOMAIN session = Seeds /\ IsMap(session)
      /\ \A i \in Turns : specs[n_bg + i] = spec_of(proposals[Name(i)])
      /\ \A s \in 1..collected : s \in Seeds /\ session[s].kind = "ended"
      /\ \A s \in DOMAIN session : session[s].kind = "ended" => Ran(session[s], specs)
  BY DEF InPool
<1>2. args.seeds \in Nat /\ Seeds = 1..args.seeds
  BY LineFacts DEF Seeds
<1>3. IsSequence(session) /\ Len(session) = args.seeds
  BY <1>1, <1>2, MapIsASeq
<1>4. \A s \in Seeds : Ran(session[s], specs)
  BY <1>1, <1>2
<1> QED BY <1>1, <1>3, <1>4 DEF Runs, summarise, RowsOf

\* the entry and the line of a subject in the generation that ran
NewEntry(i) == [proposal |-> proposals[Name(i)], score |-> RowsOf(specs, session)[n_bg + i].mean]

NewLine(i) == [generation |-> gen, subject |-> Name(i), score |-> NewEntry(i).score]

\* The effect of Record, subject by subject.
LEMMA RecordEffect ==
  ASSUME LoopInv, Record
  PROVE  /\ \A i \in Turns : history'[Name(i)] = Append(HistoryOf(i), NewEntry(i))
         /\ DOMAIN history' = Names
         /\ trajectory' = Joined(trajectory, [i \in Turns |-> NewLine(i)])
         /\ genFiles' = Append(genFiles, [specs |-> specs, runs |-> session, rows |-> RowsOf(specs, session)])
         /\ last' = [rows |-> RowsOf(specs, session), specs |-> specs]
         /\ gen' = gen + 1 /\ turn' = 1 /\ pc' # "sessions"
         /\ UNCHANGED <<args, specs, proposals, shown, memory, files, session>>
<1> DEFINE summary == RowsOf(specs, session)
           entry(name) == Entry(CHOOSE i \in Turns : args.subjects[i].name = name, summary)
<1>1. args \in CommandLines /\ pc = "sessions" /\ collected = args.seeds /\ InPool
  BY DEF Record, LoopInv, Books, Framed
<1>2. summarise(session) = summary
  BY <1>1, AllEnded
<1>3. /\ history' = [n \in Names |-> Append(history[n], entry(n))]
      /\ trajectory' = trajectory \o
           [i \in Turns |-> [generation |-> gen, subject |-> args.subjects[i].name, score |-> Entry(i, summary).score]]
      /\ genFiles' = Append(genFiles, [specs |-> specs, runs |-> session, rows |-> summary])
      /\ last' = [rows |-> summary, specs |-> specs]
  BY <1>2 DEF Record
<1>4. /\ gen' = gen + 1 /\ turn' = 1 /\ pc' # "sessions"
      /\ UNCHANGED <<args, specs, proposals, shown, memory, files, session>>
  BY DEF Record, running
<1>5. \A i \in Turns : Entry(i, summary) = NewEntry(i)
  <2>1. \A i \in Turns : IdOf(i) + 1 = n_bg + i
    BY <1>1, IdFacts
  <2> HIDE DEF summary
  <2>2. \A i \in Turns : Entry(i, summary) = [proposal |-> proposals[Name(i)], score |-> summary[n_bg + i].mean]
    BY <2>1 DEF Entry, Name
  <2> QED BY <2>2 DEF NewEntry, summary
<1> HIDE DEF summary
<1>6. ASSUME NEW i \in Turns PROVE history'[Name(i)] = Append(HistoryOf(i), NewEntry(i))
  <2>1. Name(i) \in Names /\ \A j \in Turns : Name(j) = Name(i) => j = i
    BY <1>1, LineFacts
  <2>2. (CHOOSE j \in Turns : args.subjects[j].name = Name(i)) = i
    BY <2>1 DEF Name
  <2>3. entry(Name(i)) = NewEntry(i)
    BY <2>2, <1>5
  <2> HIDE DEF entry
  <2> QED BY <2>1, <2>3, <1>3 DEF HistoryOf
<1>7. [i \in Turns |-> [generation |-> gen, subject |-> args.subjects[i].name, score |-> Entry(i, summary).score]]
        = [i \in Turns |-> NewLine(i)]
  BY <1>5 DEF NewLine, Name
<1>8. trajectory' = Joined(trajectory, [i \in Turns |-> NewLine(i)])
  BY <1>3, <1>7 DEF Joined
<1>9. DOMAIN history' = Names
  BY <1>3
<1> QED BY <1>3, <1>4, <1>6, <1>8, <1>9 DEF summary

LEMMA RecordStep ==
  ASSUME LoopInv, Record
  PROVE  LoopInv'
<1> DEFINE summary == RowsOf(specs, session)
           L == Len(args.subjects)
<1>1. args \in CommandLines /\ pc = "sessions" /\ collected = args.seeds /\ InPool /\ Books /\ gen \in Nat
  BY DEF Record, LoopInv, Books, Framed
<1>2. /\ turn = L + 1 /\ Market(specs) /\ Runs(session, specs)
      /\ \A i \in Turns : specs[n_bg + i] = spec_of(proposals[Name(i)])
  BY <1>1, AllEnded
<1>3. /\ \A i \in Turns : history'[Name(i)] = Append(HistoryOf(i), NewEntry(i))
      /\ DOMAIN history' = Names
      /\ trajectory' = Joined(trajectory, [i \in Turns |-> NewLine(i)])
      /\ genFiles' = Append(genFiles, [specs |-> specs, runs |-> session, rows |-> summary])
      /\ last' = [rows |-> summary, specs |-> specs]
      /\ gen' = gen + 1 /\ turn' = 1 /\ pc' # "sessions"
      /\ UNCHANGED <<args, specs, proposals, shown, memory, files, session>>
  BY RecordEffect
<1>4. /\ L \in Nat \ {0} /\ Turns = 1..L /\ n_bg \in Nat
      /\ \A i \in Turns : Name(i) \in Names /\ n_bg + i \in 1..AgentCount
  BY <1>1, LineFacts, IdFacts
<1>5. DOMAIN summary = 1..AgentCount /\ \A k \in 1..AgentCount : summary[k].mean \in Int
  BY <1>1, <1>2, RowFacts
<1> HIDE DEF summary, L
<1>6. /\ Turns' = Turns /\ Names' = Names /\ n_bg' = n_bg /\ Seeds' = Seeds
      /\ \A i : Subj(i)' = Subj(i) /\ Name(i)' = Name(i)
      /\ \A sp : Market(sp)' = Market(sp)
      /\ \A r, sp : Runs(r, sp)' = Runs(r, sp)
      /\ \A g, i : LineAt(g, i)' = LineAt(g, i)
  BY <1>3 DEF Turns, Names, n_bg, Seeds, Subj, Name, Market, AgentCount, Runs, LineAt
<1>7. \A i : HistoryOf(i)' = history'[Name(i)]
  BY <1>6 DEF HistoryOf
<1>8. \A i \in Turns : i < turn /\ ~ (i < 1) /\ i \in 1..L
  BY <1>2, <1>4 DEF L
<1>9. \A i \in Turns : Made(files, NansFor(i), Subj(i), gen, proposals[Name(i)])
  BY <1>1, <1>8 DEF Books, Proposed
<1>10. \A i \in Turns : NewEntry(i).proposal = proposals[Name(i)] /\ NewEntry(i).score = summary[n_bg + i].mean
                        /\ NewEntry(i).score \in Int
  BY <1>4, <1>5 DEF NewEntry, summary
<1>11. gen + 1 \in Nat /\ ~ (gen + 1 = 0) /\ (gen + 1) - 1 = gen /\ gen + 1 \in 1..(gen + 1)
       /\ (\A g \in 1..(gen + 1) : g \in 1..gen \/ g = gen + 1) /\ (\A g \in 1..gen : g # gen + 1 /\ g \in 1..(gen + 1))
  BY <1>1
<1>12. ASSUME NEW i \in Turns
       PROVE  /\ Scored(HistoryOf(i)') /\ Len(HistoryOf(i)') = gen + 1
              /\ \A g \in 1..gen : HistoryOf(i)'[g] = HistoryOf(i)[g]
              /\ HistoryOf(i)'[gen + 1] = NewEntry(i)
              /\ Kept(HistoryOf(i)', gen) = Kept(HistoryOf(i), gen)
  <2>1. Scored(HistoryOf(i)) /\ Len(HistoryOf(i)) = gen /\ IsSequence(HistoryOf(i))
    BY <1>1 DEF Books, HistoriesKept, Scored
  <2>2. HistoryOf(i)' = Append(HistoryOf(i), NewEntry(i))
    BY <1>3, <1>7
  <2>3. /\ Scored(Append(HistoryOf(i), NewEntry(i)))
        /\ Kept(Append(HistoryOf(i), NewEntry(i)), Len(HistoryOf(i))) = Kept(HistoryOf(i), Len(HistoryOf(i)))
    BY <1>10, <2>1, KeptSame
  <2>4. /\ Len(Append(HistoryOf(i), NewEntry(i))) = gen + 1
        /\ Append(HistoryOf(i), NewEntry(i))[gen + 1] = NewEntry(i)
        /\ \A g \in 1..gen : Append(HistoryOf(i), NewEntry(i))[g] = HistoryOf(i)[g]
    BY <2>1, AppendFacts DEF Entries
  <2> QED BY <2>1, <2>2, <2>3, <2>4
<1>16. /\ IsSequence(genFiles') /\ Len(genFiles') = gen + 1
       /\ \A g \in 1..gen : genFiles'[g] = genFiles[g]
       /\ genFiles'[gen + 1] = [specs |-> specs, runs |-> session, rows |-> summary]
  BY <1>1, <1>3, AppendFacts DEF Books, OnFile, Entries
<1>b. ASSUME NEW i \in Turns, NEW disk, NEW g, NEW p, Made(disk, NansFor(i), Subj(i), g, p)
      PROVE  Made(disk, NansFor(i)', Subj(i), g, p)
  <2>1. DOMAIN genFiles = 1..gen /\ DOMAIN genFiles' = 1..(gen + 1)
    BY <1>1, <1>11, <1>16, SeqFacts DEF Books, OnFile, Entries
  <2>2. RanBeside(i) \subseteq RanBeside(i)'
    BY <1>3, <1>6, <1>11, <1>16, <2>1 DEF RanBeside
  <2>3. NansAround(i) \subseteq NansAround(i)'
    BY <2>2 DEF NansAround
  <2>4. NansFor(i) \subseteq NansFor(i)'
    BY <1>6, <2>3 DEF NansFor
  <2> QED BY <1>b, <2>4, MoreNaNsFit DEF Made
<1>13. Framed'
  <2>1. turn' \in 1..(Len(args.subjects) + 1)
    BY <1>3, <1>4 DEF L
  <2> QED BY <1>1, <1>3, <1>6, <1>11, <2>1 DEF Books, Framed
<1>14. Proposed'
  BY <1>3, <1>6, <1>8, <1>9, <1>b, <1>11 DEF Proposed
<1>15. HistoriesKept'
  <2> SUFFICES ASSUME NEW i \in Turns
               PROVE  /\ Scored(HistoryOf(i)') /\ Len(HistoryOf(i)') = gen + 1
                      /\ \A g \in 1..(gen + 1) : Made(files, NansFor(i)', Subj(i), g - 1, HistoryOf(i)'[g].proposal)
    BY <1>3, <1>6 DEF HistoriesKept
  <2>1. ASSUME NEW g \in 1..(gen + 1) PROVE Made(files, NansFor(i)', Subj(i), g - 1, HistoryOf(i)'[g].proposal)
    <3>1. CASE g \in 1..gen
      <4>1. Made(files, NansFor(i), Subj(i), g - 1, HistoryOf(i)[g].proposal)
        BY <1>1, <3>1 DEF Books, HistoriesKept
      <4> QED BY <4>1, <3>1, <1>12, <1>b
    <3>2. CASE g = gen + 1
      <4>1. g - 1 = gen
        BY <1>1, <3>2
      <4> QED BY <4>1, <3>2, <1>9, <1>10, <1>12, <1>b
    <3> QED BY <3>1, <3>2, <1>11
  <2> QED BY <2>1, <1>12
<1>17. /\ IsSequence(trajectory') /\ Len(trajectory') = (gen + 1) * L
       /\ \A g \in 1..gen, i \in Turns : trajectory'[LineAt(g, i)] = trajectory[LineAt(g, i)]
       /\ \A i \in Turns : trajectory'[LineAt(gen + 1, i)] = NewLine(i)
  <2> DEFINE lines == [i \in Turns |-> NewLine(i)]
             before == gen * L
  <2>1. IsSequence(lines) /\ Len(lines) = L /\ \A i \in Turns : lines[i] = NewLine(i)
    <3>1. IsMap(lines) /\ DOMAIN lines = 1..L /\ L \in Nat /\ \A i \in Turns : lines[i] = NewLine(i)
      BY <1>4 DEF IsMap
    <3> HIDE DEF lines
    <3> QED BY <3>1, MapIsASeq
  <2>2. IsSequence(trajectory) /\ Len(trajectory) = before /\ before \in Nat
    BY <1>1, <1>4 DEF Books, OnFile, L
  <2>3. (gen + 1) * L = before + L /\ ((gen + 1) - 1) * L = before
    BY <1>1, <1>4
  <2> HIDE DEF lines, before
  <2>4. IsJoin(trajectory, lines, trajectory')
    <3>1. trajectory' = Joined(trajectory, lines)
      BY <1>3 DEF lines
    <3> QED BY <2>1, <2>2, <3>1, JoinFacts, Zenon
  <2>5. \A g \in 1..gen, i \in Turns : LineAt(g, i) \in 1..before
    BY <1>1, <1>4, LinePlaces DEF LineAt, L, before
  <2>6. \A i \in Turns : LineAt(gen + 1, i) = before + i
    BY <2>3 DEF LineAt, L
  <2> QED BY <1>4, <2>1, <2>2, <2>3, <2>4, <2>5, <2>6 DEF IsJoin, Entries
<1>18. ASSUME NEW g \in 1..(gen + 1)
       PROVE  /\ Market(genFiles'[g].specs) /\ Runs(genFiles'[g].runs, genFiles'[g].specs)
              /\ genFiles'[g].rows = RowsOf(genFiles'[g].specs, genFiles'[g].runs)
              /\ \A i \in Turns :
                   /\ genFiles'[g].specs[n_bg + i] = spec_of(HistoryOf(i)'[g].proposal)
                   /\ HistoryOf(i)'[g].score = genFiles'[g].rows[n_bg + i].mean
                   /\ trajectory'[LineAt(g, i)] =
                        [generation |-> g - 1, subject |-> Name(i), score |-> HistoryOf(i)'[g].score]
  <2>1. CASE g \in 1..gen
    BY <2>1, <1>1, <1>12, <1>16, <1>17 DEF Books, OnFile
  <2>2. CASE g = gen + 1
    <3>1. g - 1 = gen
      BY <1>1, <2>2
    <3>2. genFiles'[g].specs = specs /\ genFiles'[g].runs = session /\ genFiles'[g].rows = summary
      BY <2>2, <1>16
    <3>3. \A i \in Turns : HistoryOf(i)'[g] = NewEntry(i) /\ trajectory'[LineAt(g, i)] = NewLine(i)
      BY <2>2, <1>12, <1>17
    <3> QED BY <3>1, <3>2, <3>3, <1>2, <1>10 DEF NewLine, summary
  <2> QED BY <2>1, <2>2, <1>11
<1>19. OnFile'
  BY <1>3, <1>6, <1>16, <1>17, <1>18 DEF OnFile, L
<1>20. LastRead'
  BY <1>3, <1>11, <1>16 DEF LastRead
<1>21. Informed'
  BY <1>3, <1>6, <1>8 DEF Informed
<1>22. Remembered'
  <2> SUFFICES ASSUME NEW i \in Turns, Subj(i).rule = "mock-code"
               PROVE  memory[Name(i)] = Kept(HistoryOf(i)', gen)
    BY <1>3, <1>6, <1>8, <1>11 DEF Remembered
  <2>1. memory[Name(i)] = Kept(HistoryOf(i), gen)
    BY <1>1, <1>8 DEF Books, Remembered
  <2> QED BY <2>1, <1>12
<1>23. Explored'
  <2>0. gen' = gen + 1 /\ Turns' = Turns /\ (\A i : Subj(i)' = Subj(i)) /\ \A i \in Turns : ~ (i < turn')
    BY <1>3, <1>6, <1>8
  <2> SUFFICES ASSUME NEW i \in Turns, Subj(i).rule = "bandit",
                      NEW j \in 1..(gen + 1), NEW k \in 1..(gen + 1), j < k, k <= 3
               PROVE  HistoryOf(i)'[j].proposal.strategy # HistoryOf(i)'[k].proposal.strategy
    BY <2>0 DEF Explored
  <2>1. j \in 1..gen
    BY <1>1
  <2>2. CASE k \in 1..gen
    <3>1. HistoryOf(i)[j].proposal.strategy # HistoryOf(i)[k].proposal.strategy
      BY <2>1, <2>2, <1>1 DEF Books, Explored
    <3> QED BY <2>1, <2>2, <3>1, <1>12
  <2>3. CASE k = gen + 1
    <3>1. gen < 3
      BY <1>1, <2>3
    <3>2. HistoryOf(i)[j].proposal.strategy # proposals[Name(i)].strategy
      BY <1>1, <1>8, <2>1, <3>1 DEF Books, Explored
    <3> QED BY <2>1, <2>3, <3>2, <1>10, <1>12
  <2> QED BY <2>2, <2>3, <1>11
<1>24. InPool'
  BY <1>1, <1>3 DEF InPool
<1> QED BY <1>13, <1>14, <1>15, <1>19, <1>20, <1>21, <1>22, <1>23, <1>24 DEF LoopInv, Books

----------------------------------------------------------------------------
(* The theorems. *)

\* The invariant holds of every behaviour of the loop.
THEOREM LoopInvariant == Spec => []LoopInv
<1>1. Init => LoopInv
  BY LoopStart
<1>2. LoopInv /\ [Next]_vars => LoopInv'
  <2> SUFFICES ASSUME LoopInv, [Next]_vars PROVE LoopInv'
    OBVIOUS
  <2>1. CASE Propose
    BY <2>1, ProposeStep
  <2>2. CASE Submit
    BY <2>2, SubmitStep
  <2>3. CASE (\E s \in DOMAIN session : StartSession(s) \/ EndSession(s)) \/ Collect \/ Abandon \/ LeavePool
    BY <2>3, PoolStep
  <2>4. CASE Record
    BY <2>4, RecordStep
  <2>5. CASE UNCHANGED vars
    <3>1. UNCHANGED <<args, gen, asking, records>> /\ UNCHANGED <<pc, specs, session, collected>>
      BY <2>5 DEF vars, running
    <3>2. Books'
      BY <3>1, BooksKept DEF LoopInv
    <3>3. /\ Turns' = Turns /\ Seeds' = Seeds /\ n_bg' = n_bg /\ turn' = turn /\ args' = args /\ proposals' = proposals
          /\ \A i : Name(i)' = Name(i)
          /\ Market(specs)' = Market(specs)
      BY <3>1 DEF Turns, Seeds, n_bg, asking, Name, Market, AgentCount
    <3>4. InPool'
      BY <3>1, <3>3 DEF LoopInv, InPool
    <3> QED BY <3>2, <3>4 DEF LoopInv
  <2> QED BY <2>1, <2>2, <2>3, <2>4, <2>5 DEF Next, Ended
<1> QED BY <1>1, <1>2, PTL DEF Spec

\* Whatever is drawn, copied from a rival or answered by a model, nan included,
\* every number a subject sends to the market is in the bounds of the catalogue,
\* and a nan is there only if a model answered it or a rival has run with it
\* (clamp_params).
THEOREM ProposalsInCatalogue == Spec => []StaysInCatalogue
<1>1. LoopInv => StaysInCatalogue
  <2> SUFFICES ASSUME LoopInv, NEW i \in Turns, NEW p, p = proposals[Name(i)], p # None, "spec" \notin DOMAIN p
               PROVE  /\ DOMAIN p.params = DOMAIN Catalogue[p.strategy]
                      /\ \A k \in DOMAIN p.params :
                           IF p.params[k] = NaN
                           THEN k \notin IntParams /\ MayBeNaN(i, p.strategy, k)
                           ELSE /\ InBounds(p.strategy, k, p.params[k])
                                /\ k \in IntParams => p.params[k] % One = 0
                      /\ p.strategy = "momentum" => p.params.slow > p.params.fast
    BY DEF StaysInCatalogue, Name
  <2>1. \E g : Made(files, NansFor(i), Subj(i), g, p)
    BY DEF LoopInv, Books, Proposed
  <2>2. PICK g : Made(files, NansFor(i), Subj(i), g, p)
    BY <2>1
  <2>3. ~ IsPlugin(p, Subj(i).name, g)
    <3>1. p = PluginProposal(p.spec.path, p.code) => "spec" \in DOMAIN p
      BY DEF PluginProposal
    <3> QED BY <3>1 DEF IsPlugin
  <2>4. InCatalogue(p, NansFor(i))
    BY <2>2, <2>3 DEF Made
  <2>5. ASSUME NEW k \in DOMAIN p.params, p.params[k] = NaN
        PROVE  k \notin IntParams /\ MayBeNaN(i, p.strategy, k)
    <3>1. PermittedNaN(p.strategy, k, p.params[k], NansFor(i))
      BY <2>4, <2>5, ValuesAssumption DEF InCatalogue, Within, Fits, Number
    <3> QED BY <3>1 DEF PermittedNaN, MayBeNaN, NansFor, Subj
  <2>6. ASSUME NEW k \in DOMAIN p.params, p.params[k] # NaN
        PROVE  InBounds(p.strategy, k, p.params[k]) /\ (k \in IntParams => p.params[k] % One = 0)
    <3>1. Number(p.strategy, k, p.params[k])
      BY <2>4, <2>6 DEF InCatalogue, Within, Fits, PermittedNaN
    <3>2. Catalogue[p.strategy][k].lo \in Int /\ Catalogue[p.strategy][k].hi \in Int
      BY <2>4, CatalogueIsSound DEF InCatalogue, Within, Sound
    <3> QED BY <3>1, <3>2 DEF Number, InBounds
  <2> QED BY <2>4, <2>5, <2>6 DEF InCatalogue, Within
<1> QED BY <1>1, LoopInvariant, PTL

\* The mock plugin writer knows the first of the best of all its entries, and a
\* bandit plays every arm before it plays one twice (codegen.py, adapt.py).
THEOREM LearnFromEverything == Spec => []RulesLearn
<1>1. LoopInv => RulesLearn
  <2> SUFFICES ASSUME LoopInv, NEW i \in Turns
               PROVE  /\ Subj(i).rule = "mock-code" /\ HistoryOf(i) # <<>> /\ i < turn =>
                           memory[Name(i)] = [window |-> best_entry(HistoryOf(i)).proposal.code.window,
                                              score |-> best_entry(HistoryOf(i)).score]
                      /\ Subj(i).rule = "bandit" =>
                           \A j, k \in DOMAIN HistoryOf(i) : j < k /\ k <= 3 =>
                             HistoryOf(i)[j].proposal.strategy # HistoryOf(i)[k].proposal.strategy
    BY DEF RulesLearn, Subj, HistoryOf, Name
  <2>1. /\ DOMAIN HistoryOf(i) = 1..gen /\ gen \in Nat /\ (HistoryOf(i) = <<>> <=> gen = 0)
    BY SeqFacts DEF LoopInv, Books, Framed, HistoriesKept, Scored, Entries
  <2>2. ASSUME Subj(i).rule = "mock-code", HistoryOf(i) # <<>>, i < turn
        PROVE  memory[Name(i)] = [window |-> best_entry(HistoryOf(i)).proposal.code.window,
                                  score |-> best_entry(HistoryOf(i)).score]
    <3>1. ~ (gen <= 0)
      BY <2>1, <2>2
    <3>2. memory[Name(i)] = Kept(HistoryOf(i), gen)
      BY <2>2 DEF LoopInv, Books, Remembered
    <3>3. best_entry(HistoryOf(i)) = BestIn(HistoryOf(i), 1..gen)
      BY <2>1 DEF best_entry
    <3> QED BY <3>1, <3>2, <3>3 DEF Kept
  <2>3. ASSUME Subj(i).rule = "bandit", NEW j \in DOMAIN HistoryOf(i), NEW k \in DOMAIN HistoryOf(i), j < k, k <= 3
        PROVE  HistoryOf(i)[j].proposal.strategy # HistoryOf(i)[k].proposal.strategy
    BY <2>1, <2>3 DEF LoopInv, Books, Explored
  <2> QED BY <2>2, <2>3
<1> QED BY <1>1, LoopInvariant, PTL

\* Of a report, the agents of an id are the one whose spec ran under it.
LEMMA AgentsOfId ==
  ASSUME args \in CommandLines, NEW sp, Market(sp), NEW r, Ran(r, sp), NEW k \in 1..AgentCount
  PROVE  /\ \A a \in r.agents : a.id = k - 1 => a.spec = sp[k] /\ a.pnl = PnlOf(k - 1, r)
         /\ \E a \in r.agents : a.id = k - 1
<1> DEFINE it == [id |-> k - 1, spec |-> sp[k], pnl |-> PnlOf(k - 1, r)]
<1>1. {a \in r.agents : a.id = k - 1} = {it}
  BY ReportFacts
<1>2. it.spec = sp[k] /\ it.pnl = PnlOf(k - 1, r)
  OBVIOUS
<1> HIDE DEF it
<1>3. ASSUME NEW a \in r.agents, a.id = k - 1 PROVE a = it
  BY <1>1, <1>3
<1>4. \E a \in r.agents : a.id = k - 1
  BY <1>1
<1> QED BY <1>2, <1>3, <1>4

\* A subject is told its own result and, if it may look, what every rival ran and
\* earned with it (build_report).
THEOREM ReportsTellTheTruth == Spec => []ReportTellsTheTruth
<1>1. LoopInv => ReportTellsTheTruth
  <2> SUFFICES ASSUME LoopInv, NEW i \in Turns, shown[Name(i)] # None, i < turn
               PROVE  LET report == shown[Name(i)]
                          told == genFiles[gen]
                          ran(id) == {a.spec : a \in {b \in told.runs[1].agents : b.id = id}}
                      IN  /\ report.you = HistoryOf(i)[gen].score
                          /\ Subj(i).info = "rivals" =>
                               /\ {o.id : o \in report.others} =
                                    (0..(Len(told.specs) - 1)) \ {Len(args.background) + i - 1}
                               /\ \A o \in report.others : ran(o.id) = {o.spec} /\ o.mean = told.rows[o.id + 1].mean
    BY DEF ReportTellsTheTruth, Subj, HistoryOf, Name
  <2> DEFINE told == genFiles[gen]
             sp == told.specs
             summary == told.rows
             report == shown[Name(i)]
             k == n_bg + i
             ran(id) == {a.spec : a \in {b \in told.runs[1].agents : b.id = id}}
  <2>1. args \in CommandLines /\ gen \in Nat /\ Books
    BY DEF LoopInv, Books, Framed
  <2>2. report = build_report(i) /\ last # None
    BY <2>1 DEF Books, Informed, ReportFor
  <2>3. gen \in 1..gen /\ last = [rows |-> summary, specs |-> sp]
    BY <2>1, <2>2 DEF Books, LastRead
  <2>4. /\ Market(sp) /\ Runs(told.runs, sp) /\ summary = RowsOf(sp, told.runs)
        /\ HistoryOf(i)[gen].score = summary[k].mean
    BY <2>1, <2>3 DEF Books, OnFile
  <2>5. IdOf(i) + 1 = k /\ k \in 1..AgentCount /\ IdOf(i) = Len(args.background) + i - 1
    BY <2>1, IdFacts DEF IdOf, n_bg
  <2>6. Len(sp) = AgentCount /\ AgentCount \in Nat
    BY <2>1, <2>4, LineFacts DEF Market, AgentCount
  <2>7. DOMAIN summary = 1..AgentCount /\ \A j \in 1..AgentCount : summary[j].id = j - 1
    BY <2>1, <2>4, RowFacts
  <2>8. 1 \in Seeds
    BY <2>1, LineFacts DEF Seeds
  <2>9. Ran(told.runs[1], sp)
    BY <2>4, <2>8 DEF Runs
  <2> HIDE DEF told, sp, summary, report, k
  <2>10. report.you = HistoryOf(i)[gen].score
    BY <2>2, <2>3, <2>4, <2>5 DEF build_report
  <2>11. ASSUME Subj(i).info = "rivals"
         PROVE  /\ {o.id : o \in report.others} = (0..(AgentCount - 1)) \ {IdOf(i)}
                /\ \A o \in report.others : ran(o.id) = {o.spec} /\ o.mean = summary[o.id + 1].mean
    <3>1. report.others = {[id |-> row.id, spec |-> sp[row.id + 1], mean |-> row.mean] :
                             row \in {r \in Range(summary) : r.id # IdOf(i)}}
      BY <2>2, <2>3, <2>11 DEF build_report, Others, SpecsBehind, Subj
    <3>2. ASSUME NEW o \in report.others
          PROVE  \E j \in 1..AgentCount : o.id = j - 1 /\ o.id # IdOf(i) /\ o.spec = sp[j] /\ o.mean = summary[j].mean
      <4>1. PICK row \in Range(summary) : row.id # IdOf(i) /\ o = [id |-> row.id, spec |-> sp[row.id + 1], mean |-> row.mean]
        BY <3>1
      <4>2. PICK j \in 1..AgentCount : row = summary[j]
        BY <2>7, <4>1 DEF Range
      <4>3. row.id = j - 1 /\ row.id + 1 = j
        BY <2>7, <4>2
      <4> QED BY <4>1, <4>2, <4>3
    <3>3. ASSUME NEW j \in 1..AgentCount, j - 1 # IdOf(i)
          PROVE  \E o \in report.others : o.id = j - 1
      <4> DEFINE row == summary[j]
                 o == [id |-> row.id, spec |-> sp[row.id + 1], mean |-> row.mean]
      <4>1. row \in Range(summary) /\ row.id = j - 1
        BY <2>7 DEF Range
      <4>2. o.id = j - 1
        BY <4>1
      <4>3. o \in report.others
        <5> HIDE DEF row
        <5> QED BY <3>1, <3>3, <4>1
      <4> HIDE DEF o
      <4> QED BY <4>2, <4>3
    <3>4. \A x : x \in 0..(AgentCount - 1) <=> \E j \in 1..AgentCount : x = j - 1
      <4> SUFFICES ASSUME NEW x PROVE x \in 0..(AgentCount - 1) <=> \E j \in 1..AgentCount : x = j - 1
        OBVIOUS
      <4>1. ASSUME x \in 0..(AgentCount - 1) PROVE \E j \in 1..AgentCount : x = j - 1
        <5>1. x + 1 \in 1..AgentCount /\ x = (x + 1) - 1
          BY <4>1, <2>6
        <5> QED BY <5>1
      <4>2. ASSUME NEW j \in 1..AgentCount, x = j - 1 PROVE x \in 0..(AgentCount - 1)
        BY <4>2, <2>6
      <4> QED BY <4>1, <4>2
    <3>5. {o.id : o \in report.others} = (0..(AgentCount - 1)) \ {IdOf(i)}
      <4> DEFINE ids == 0..(AgentCount - 1)
      <4>1. \A x : x \in ids <=> \E j \in 1..AgentCount : x = j - 1
        BY <3>4
      <4> HIDE DEF ids
      <4>2. \A o \in report.others : o.id \in ids \ {IdOf(i)}
        BY <4>1, <3>2
      <4>3. \A x \in ids \ {IdOf(i)} : \E o \in report.others : x = o.id
        BY <4>1, <3>3
      <4> QED BY <4>2, <4>3 DEF ids
    <3>6. ASSUME NEW o \in report.others PROVE ran(o.id) = {o.spec} /\ o.mean = summary[o.id + 1].mean
      <4>1. PICK j \in 1..AgentCount : o.id = j - 1 /\ o.spec = sp[j] /\ o.mean = summary[j].mean
        BY <3>2
      <4>2. /\ \A a \in told.runs[1].agents : a.id = j - 1 => a.spec = sp[j]
            /\ \E a \in told.runs[1].agents : a.id = j - 1
        BY <2>1, <2>4, <2>9, AgentsOfId
      <4>3. ran(j - 1) = {sp[j]}
        BY <4>2
      <4>4. o.id + 1 = j
        BY <4>1
      <4> QED BY <4>1, <4>3, <4>4
    <3> QED BY <3>5, <3>6
  <2> QED BY <2>5, <2>6, <2>10, <2>11 DEF told, sp, summary, report
<1> QED BY <1>1, LoopInvariant, PTL

\* Every entry of a history and every line of trajectory.jsonl give the mean of
\* what the engine reported for the agent that ran that proposal, and a plugin
\* still holds the code that ran (agents/loop.py main, scripts/sweep.py).
THEOREM RecordsAreOfWhatRan == Spec => []RecordsWhatRan
<1>1. LoopInv => RecordsWhatRan
  <2> SUFFICES ASSUME LoopInv, NEW i \in Turns, NEW g \in DOMAIN HistoryOf(i)
               PROVE  LET entry == HistoryOf(i)[g]
                          mine == {a \in UNION {RunsOf(g)[s].agents : s \in Seeds} : a.id = Len(args.background) + i - 1}
                          line == (g - 1) * Len(args.subjects) + i
                      IN  /\ \A a \in mine : a.spec = spec_of(entry.proposal)
                          /\ entry.score = Total([s \in Seeds |-> (CHOOSE a \in RunsOf(g)[s].agents : a \in mine).pnl], args.seeds)
                                             \div args.seeds
                          /\ trajectory[line] = [generation |-> g - 1, subject |-> Name(i), score |-> entry.score]
                          /\ "code" \in DOMAIN entry.proposal =>
                               files[entry.proposal.spec.path] = entry.proposal.code
    BY DEF RecordsWhatRan, HistoryOf, Name
  <2> DEFINE entry == HistoryOf(i)[g]
             runs == RunsOf(g)
             sp == genFiles[g].specs
             id == Len(args.background) + i - 1
             k == n_bg + i
             mine == {a \in UNION {runs[s].agents : s \in Seeds} : a.id = id}
  <2>1. args \in CommandLines /\ gen \in Nat /\ Books
    BY DEF LoopInv, Books, Framed
  <2>2. g \in 1..gen
    BY <2>1, SeqFacts DEF Books, HistoriesKept, Scored, Entries
  <2>3. /\ Market(sp) /\ Runs(runs, sp) /\ genFiles[g].rows = RowsOf(sp, runs)
        /\ sp[k] = spec_of(entry.proposal)
        /\ entry.score = genFiles[g].rows[k].mean
        /\ trajectory[LineAt(g, i)] = [generation |-> g - 1, subject |-> Name(i), score |-> entry.score]
    BY <2>1, <2>2 DEF Books, OnFile, RunsOf
  <2>4. Made(files, NansFor(i), Subj(i), g - 1, entry.proposal)
    BY <2>1, <2>2 DEF Books, HistoriesKept
  <2>5. k \in 1..AgentCount /\ k - 1 = id
    BY <2>1, IdFacts, LineFacts DEF n_bg
  <2>6. args.seeds \in Nat /\ Seeds = 1..args.seeds /\ DOMAIN runs = Seeds /\ Len(runs) = args.seeds
        /\ \A s \in Seeds : Ran(runs[s], sp)
    BY <2>1, <2>3, LineFacts, SeqFacts DEF Runs, Seeds, Entries
  <2>7. DOMAIN sp = 1..AgentCount
    BY <2>3, SeqFacts DEF Market, Entries
  <2> HIDE DEF entry, runs, sp, id, k
  <2>8. ASSUME NEW s \in Seeds
        PROVE  /\ \A a \in runs[s].agents : a.id = id => a.spec = sp[k] /\ a.pnl = PnlOf(id, runs[s])
               /\ \E a \in runs[s].agents : a.id = id
    BY <2>1, <2>3, <2>5, <2>6, AgentsOfId
  <2>9. \A a \in mine : a.spec = spec_of(entry.proposal)
    BY <2>3, <2>8
  <2>10. ASSUME NEW s \in Seeds
         PROVE  (CHOOSE a \in runs[s].agents : a \in mine).pnl = PnlOf(id, runs[s])
    <3>1. \A a \in runs[s].agents : a \in mine <=> a.id = id
      OBVIOUS
    <3> HIDE DEF mine
    <3>2. \E a \in runs[s].agents : a \in mine
      BY <2>8, <3>1
    <3> DEFINE c == CHOOSE a \in runs[s].agents : a \in mine
    <3>3. c \in runs[s].agents /\ c \in mine
      BY <3>2
    <3> HIDE DEF c
    <3>4. c.pnl = PnlOf(id, runs[s])
      BY <2>8, <3>1, <3>3
    <3> QED BY <3>4 DEF c
  <2> HIDE DEF mine
  <2>11. entry.score = Total([s \in Seeds |-> PnlOf(id, runs[s])], args.seeds) \div args.seeds
    <3>1. genFiles[g].rows[k].mean = MeanPnl(k - 1, runs)
      BY <2>3, <2>5, <2>7 DEF RowsOf
    <3> QED BY <2>3, <2>5, <2>6, <3>1 DEF MeanPnl
  <2>12. [s \in Seeds |-> (CHOOSE a \in runs[s].agents : a \in mine).pnl] = [s \in Seeds |-> PnlOf(id, runs[s])]
    BY <2>10
  <2>13. entry.score = Total([s \in Seeds |-> (CHOOSE a \in runs[s].agents : a \in mine).pnl], args.seeds) \div args.seeds
    BY <2>11, <2>12
  <2>14. "code" \in DOMAIN entry.proposal => files[entry.proposal.spec.path] = entry.proposal.code
    <3>1. InCatalogue(entry.proposal, NansFor(i)) => "code" \notin DOMAIN entry.proposal
      BY DEF InCatalogue, Proposal
    <3> QED BY <2>4, <3>1 DEF Made
  <2> QED BY <2>3, <2>9, <2>13, <2>14 DEF entry, runs, id, mine, LineAt
<1> QED BY <1>1, LoopInvariant, PTL

----------------------------------------------------------------------------
(* The directory of an experiment with outside agents. *)

Places == DOMAIN Subjects

NameOf(k) == Subjects[k].name

IsTable(t) == t = [g \in Gens |-> [n \in SubjectNames |-> t[g][n]]]

CommandTyped ==
  /\ cmd = [pc |-> cmd.pc, k |-> cmd.k, gen |-> cmd.gen, resolved |-> cmd.resolved,
            batch |-> cmd.batch, last |-> cmd.last, done |-> cmd.done]
  /\ cmd.k \in Places /\ cmd.gen \in 0..Generations /\ cmd.batch \in Nat
  /\ cmd.last = [n \in SubjectNames |-> cmd.last[n]]

RowsTyped == IsSequence(rows) /\ \A i \in Entries(rows) : rows[i].generation \in Nat

BriefsTyped ==
  /\ IsTable(brief)
  /\ \A g \in Gens, n \in SubjectNames :
       brief[g][n] # None => brief[g][n] \in Briefs /\ brief[g][n].lines \subseteq Entries(rows)

AgentsTyped ==
  /\ IsTable(target)
  /\ reading = [n \in SubjectNames |-> reading[n]]
  /\ \A n \in SubjectNames : reading[n] # None => reading[n].gen \in Gens

StateTyped ==
  /\ config \in BOOLEAN /\ batches \in Nat /\ stops \in Nat
  /\ Loadable =>
       /\ state.generation \in 0..Generations /\ (state.done <=> state.generation >= Generations)
       /\ state.last = [n \in SubjectNames |-> state.last[n]]

\* An agent that works on a brief, and an answer that lies there, know the
\* brief that is in the directory.
AnswersToBriefs ==
  /\ \A n \in SubjectNames : reading[n] # None => reading[n].brief = brief[reading[n].gen][n]
  /\ \A g \in Gens, n \in SubjectNames : target[g][n] # None => target[g][n].basis = brief[g][n]

\* The generations before generation stage are recorded.
Past(stage) ==
  \A g \in 0..(stage - 1) :
    /\ g \in DOMAIN genFile
    /\ \A k \in Places :
         /\ Own(NameOf(k), g) # {}
         /\ Shown(NameOf(k), g).batch = genFile[g].batch
         /\ Shown(NameOf(k), g).spec = genFile[g].specs[k]

\* A memory names every subject's last spec that worked before generation stage.
TrueMemory(known, stage) == \A k \in Places : known[NameOf(k)] = LastWorking(NameOf(k), stage)

\* The brief of generation stage tells what was recorded of the generation before.
BriefTells(k, stage) ==
  0 < stage /\ stage < Generations => TellsTheRecord(brief[stage][NameOf(k)], NameOf(k), stage - 1)

\* Nobody works on an answer, or has given one, beyond generation stage.
Quiet(stage) ==
  \A n \in SubjectNames :
    /\ reading[n] # None => reading[n].gen <= stage
    /\ \A h \in Gens : h > stage => target[h][n] = None

\* state.json says nothing that is not so.
StateIsTrue ==
  Loadable =>
    /\ config
    /\ \A stage \in {state.generation} :
         /\ Past(stage) /\ Quiet(stage)
         /\ \A known \in {state.last} : TrueMemory(known, stage)
         /\ \A k \in Places : BriefTells(k, stage)

\* The last line of a subject is the one of this run.
LineOfRun(k, stage) ==
  /\ LinesOf(NameOf(k)) # {}
  /\ \E r \in {rows[Max(LinesOf(NameOf(k)))]} :
       /\ r.generation = stage /\ r.batch = cmd.batch
       /\ r.ok = cmd.resolved[k].ok /\ r.spec = cmd.resolved[k].spec

Untouched(k) ==
  brief[0][NameOf(k)] = None /\ reading[NameOf(k)] = None /\ target[0][NameOf(k)] = None

DuringInit ==
  cmd.pc = "config" \/ (cmd.pc \in {"truncate", "save", "briefs"} /\ cmd.batch = 0) =>
    /\ rows = <<>> /\ cmd.batch = 0 /\ cmd.gen = 0 /\ cmd.done = FALSE
    /\ \A k \in Places : cmd.last[NameOf(k)] = None
    /\ cmd.pc # "config" => config
    /\ cmd.pc # "briefs" => ~Loadable /\ Quiet(0) /\ \A k \in Places : Untouched(k)
    /\ cmd.pc = "briefs" =>
         /\ Loadable => state.generation = 0
         /\ \A k \in Places : k >= cmd.k => Untouched(k)

\* The subjects whose line of this run has been appended.
Appended(k) == cmd.pc = "gen file" \/ (cmd.pc = "rows" /\ k < cmd.k)

DuringRun ==
  cmd.pc \in {"resolve", "run", "rows", "gen file"} =>
    /\ Loadable /\ cmd.gen = state.generation /\ cmd.gen < Generations
    /\ cmd.pc \in {"rows", "gen file"} => cmd.batch > 0
    /\ cmd.pc \in {"run", "gen file"} => cmd.k = 1
    /\ \A stage \in {cmd.gen}, k \in Places :
         /\ Appended(k) => LineOfRun(k, stage) /\ cmd.last[NameOf(k)] = LastWorking(NameOf(k), stage + 1)
         /\ ~Appended(k) => cmd.last[NameOf(k)] = LastWorking(NameOf(k), stage)

AfterRun ==
  cmd.pc \in {"briefs", "truncate", "save"} /\ cmd.batch > 0 =>
    /\ config /\ cmd.gen > 0 /\ (cmd.done <=> cmd.gen >= Generations)
    /\ cmd.pc = "briefs" => cmd.gen < Generations
    /\ Loadable => cmd.pc # "save" /\ state.generation = cmd.gen - 1
    /\ \A stage \in {cmd.gen} :
         /\ Past(stage) /\ Quiet(stage - 1) /\ genFile[stage - 1].batch = cmd.batch
         /\ \A known \in {cmd.last} : TrueMemory(known, stage)
         /\ \A k \in Places :
              /\ LineOfRun(k, stage - 1)
              /\ cmd.pc # "briefs" \/ k < cmd.k => BriefTells(k, stage)

\* Before any stop no generation is measured twice: it has one line of each
\* subject, and a generation that is to come has none.
CountedOnce ==
  stops = 0 => \A i, j \in Entries(rows) :
    rows[i].subject = rows[j].subject /\ rows[i].generation = rows[j].generation => i = j

OfThisRun(i) ==
  rows[i].generation = cmd.gen /\ \E k \in Places : k < cmd.k /\ rows[i].subject = NameOf(k)

NoneToCome ==
  stops = 0 => \A i \in Entries(rows) :
    /\ cmd.pc \in {"idle", "resolve", "run"} /\ Loadable => rows[i].generation < state.generation
    /\ cmd.pc = "rows" => rows[i].generation < cmd.gen \/ OfThisRun(i)
    /\ cmd.pc = "gen file" => rows[i].generation <= cmd.gen
    /\ cmd.pc \in {"briefs", "truncate", "save"} => rows[i].generation < cmd.gen

NothingYet == ~config => rows = <<>>

DirectoryTyped == CommandTyped /\ RowsTyped /\ BriefsTyped /\ AgentsTyped /\ StateTyped

SessionInv ==
  /\ DirectoryTyped /\ AnswersToBriefs /\ StateIsTrue
  /\ DuringInit /\ DuringRun /\ AfterRun
  /\ CountedOnce /\ NoneToCome /\ NothingYet

----------------------------------------------------------------------------
(* Greatest members, and the lines of a subject. *)

LEMMA MaxIs ==
  ASSUME NEW T \in SUBSET Nat, NEW m \in T, \A y \in T : y <= m
  PROVE  Max(T) = m
<1>1. Max(T) \in T /\ \A y \in T : Max(T) >= y
  <2>1. \A y \in T : m >= y
    OBVIOUS
  <2>2. \E x \in T : \A y \in T : x >= y
    BY <2>1
  <2> QED BY <2>2 DEF Max
<1> DEFINE x == Max(T)
<1> HIDE DEF x
<1>2. x \in Nat /\ m \in Nat /\ x >= m /\ x <= m
  BY <1>1 DEF x
<1>3. x = m
  BY <1>2
<1> QED BY <1>3 DEF x

\* A set of numbers with a bound has a greatest member: its least bound.
LEMMA Greatest ==
  ASSUME NEW T \in SUBSET Nat, T # {}, NEW b \in Nat, \A y \in T : y <= b
  PROVE  Max(T) \in T /\ \A y \in T : y <= Max(T)
<1> DEFINE B == {c \in Nat : \A y \in T : y <= c}
<1>1. B \in SUBSET Nat /\ B # {}
  OBVIOUS
<1>2. PICK c \in B : \A d \in B : c <= d
  <2> HIDE DEF B
  <2> QED BY <1>1, Least
<1>3. c \in Nat /\ \A y \in T : y <= c /\ y \in Nat
  BY <1>2
<1>4. c \in T
  <2> SUFFICES ASSUME c \notin T PROVE FALSE
    OBVIOUS
  <2>1. \A y \in T : y < c
    BY <1>3
  <2>2. PICK z \in T : TRUE
    OBVIOUS
  <2>3. c - 1 \in Nat /\ \A y \in T : y <= c - 1
    BY <1>3, <2>1, <2>2
  <2>4. c - 1 \in B
    BY <2>3
  <2> QED BY <1>2, <1>3, <2>4
<1>5. Max(T) = c
  BY <1>3, <1>4, MaxIs
<1> QED BY <1>3, <1>4, <1>5

LEMMA PlacesFacts ==
  /\ Len(Subjects) \in Nat \ {0} /\ Places = 1..Len(Subjects)
  /\ \A k \in Places : NameOf(k) \in SubjectNames
  /\ \A n \in SubjectNames : \E k \in Places : n = NameOf(k)
  /\ \A j, k \in Places : NameOf(j) = NameOf(k) => j = k
  /\ Generations \in Nat /\ Generations > 0 /\ Gens = 0..(Generations - 1)
<1>1. PICK S : Subjects \in Seq(S) /\ Subjects # <<>>
  BY SessionAssumption
<1>2. Len(Subjects) \in Nat \ {0} /\ Places = 1..Len(Subjects)
  BY <1>1 DEF Places
<1>3. \A j, k \in Places : NameOf(j) = NameOf(k) => j = k
  BY SessionAssumption DEF IsInjective, NameOf, Places
<1> QED BY <1>2, <1>3, SessionAssumption DEF SubjectNames, NameOf, Places, Gens

LEMMA PlaceIs ==
  /\ Len(Subjects) \in Nat /\ 1 \in Places
  /\ \A p \in Places : p \in Nat /\ 1 <= p /\ p <= Len(Subjects)
  /\ \A p \in Places : p # Len(Subjects) => p + 1 \in Places
BY PlacesFacts

LEMMA LinesFacts ==
  ASSUME RowsTyped, NEW n
  PROVE  /\ LinesOf(n) \in SUBSET Nat /\ LinesOf(n) \subseteq Entries(rows)
         /\ Len(rows) \in Nat /\ \A i \in Entries(rows) : i \in Nat /\ i <= Len(rows)
         /\ LinesOf(n) # {} => Max(LinesOf(n)) \in LinesOf(n) /\ \A i \in LinesOf(n) : i <= Max(LinesOf(n))
<1>1. IsSequence(rows)
  BY DEF RowsTyped
<1>2. Len(rows) \in Nat /\ DOMAIN rows = Entries(rows)
  BY <1>1, SeqFacts
<1>3. \A i \in Entries(rows) : i \in Nat /\ i <= Len(rows)
  BY <1>2 DEF Entries
<1>4. LinesOf(n) \in SUBSET Nat /\ LinesOf(n) \subseteq Entries(rows)
  BY <1>2, <1>3 DEF LinesOf
<1>5. \A i \in LinesOf(n) : i <= Len(rows)
  BY <1>3, <1>4
<1>6. ASSUME LinesOf(n) # {}
      PROVE  Max(LinesOf(n)) \in LinesOf(n) /\ \A i \in LinesOf(n) : i <= Max(LinesOf(n))
  BY <1>2, <1>4, <1>5, <1>6, Greatest
<1> QED BY <1>2, <1>3, <1>4, <1>6

\* What a subject shows of the generation of its last line is that line.
LEMMA LastLineIsShown ==
  ASSUME RowsTyped, NEW n, NEW g, LinesOf(n) # {}, rows[Max(LinesOf(n))].generation = g
  PROVE  Own(n, g) # {} /\ Shown(n, g) = rows[Max(LinesOf(n))]
<1> DEFINE m == Max(LinesOf(n))
<1>1. m \in LinesOf(n) /\ LinesOf(n) \in SUBSET Nat /\ \A i \in LinesOf(n) : i <= m
  BY LinesFacts
<1>2. m \in Own(n, g) /\ Own(n, g) \in SUBSET Nat /\ \A i \in Own(n, g) : i <= m
  BY <1>1 DEF Own
<1>3. Max(Own(n, g)) = m
  BY <1>2, MaxIs
<1> QED BY <1>2, <1>3 DEF Shown

\* The generations below generation stage in which a subject's spec worked, and the last of them.
Worked(n, stage) == {g \in 0..(stage - 1) : Shown(n, g).ok}

LEMMA WorkedFacts ==
  ASSUME NEW n, NEW stage \in Nat
  PROVE  /\ Worked(n, stage) \in SUBSET Nat /\ \A g \in Worked(n, stage) : g \in 0..(stage - 1)
         /\ Worked(n, stage) # {} => Max(Worked(n, stage)) \in Worked(n, stage)
         /\ LastWorking(n, stage) = IF Worked(n, stage) = {} THEN None ELSE Shown(n, Max(Worked(n, stage))).spec
<1>1. Worked(n, stage) \in SUBSET Nat /\ \A g \in Worked(n, stage) : g \in 0..(stage - 1) /\ g <= stage
  BY DEF Worked
<1>2. Worked(n, stage) # {} => Max(Worked(n, stage)) \in Worked(n, stage)
  BY <1>1, Greatest
<1> QED BY <1>1, <1>2 DEF LastWorking, Worked

LEMMA NoneWorkedYet == ASSUME NEW n PROVE LastWorking(n, 0) = None
<1>1. Worked(n, 0) = {}
  BY DEF Worked
<1> QED BY <1>1, WorkedFacts

\* One generation more: what worked in it is the last that worked.
LEMMA LastWorkingNext ==
  ASSUME NEW n, NEW stage \in Nat
  PROVE  LastWorking(n, stage + 1) = IF Shown(n, stage).ok THEN Shown(n, stage).spec ELSE LastWorking(n, stage)
<1>1. /\ LastWorking(n, stage + 1) = IF Worked(n, stage + 1) = {} THEN None
                                   ELSE Shown(n, Max(Worked(n, stage + 1))).spec
      /\ LastWorking(n, stage) = IF Worked(n, stage) = {} THEN None ELSE Shown(n, Max(Worked(n, stage))).spec
  BY WorkedFacts
<1>2. CASE Shown(n, stage).ok
  <2>1. stage \in Worked(n, stage + 1) /\ Worked(n, stage + 1) \in SUBSET Nat
    BY <1>2 DEF Worked
  <2>2. \A g \in Worked(n, stage + 1) : g <= stage
    BY DEF Worked
  <2>3. Max(Worked(n, stage + 1)) = stage
    BY <2>1, <2>2, MaxIs
  <2> QED BY <1>1, <1>2, <2>1, <2>3
<1>3. CASE ~ Shown(n, stage).ok
  <2>1. Worked(n, stage + 1) = Worked(n, stage)
    BY <1>3 DEF Worked
  <2> QED BY <1>1, <1>3, <2>1
<1> QED BY <1>2, <1>3

----------------------------------------------------------------------------
(* What a step leaves as it was.                                           *)

LinesKept == \A i \in Entries(rows) : rows'[i] = rows[i]

\* what is shown and filed of the generations before generation stage
HistoryKept(stage) ==
  \A g \in 0..(stage - 1) :
    /\ g \in DOMAIN genFile => g \in DOMAIN genFile' /\ genFile'[g] = genFile[g]
    /\ \A k \in Places : Own(NameOf(k), g)' = Own(NameOf(k), g) /\ Shown(NameOf(k), g)' = Shown(NameOf(k), g)

LEMMA PastKept ==
  ASSUME NEW stage, HistoryKept(stage), Past(stage)
  PROVE  Past(stage)'
BY DEF HistoryKept, Past

LEMMA LastWorkingKept ==
  ASSUME NEW stage \in Nat, NEW n, \A g \in 0..(stage - 1) : Shown(n, g)' = Shown(n, g)
  PROVE  LastWorking(n, stage)' = LastWorking(n, stage)
<1> DEFINE W == Worked(n, stage)
<1>1. \A g \in 0..(stage - 1) : Shown(n, g)' = Shown(n, g)
  OBVIOUS
<1>2. W' = W
  BY <1>1 DEF Worked
<1>3. W # {} => Max(W) \in 0..(stage - 1)
  BY WorkedFacts
<1>4. LastWorking(n, stage) = IF W = {} THEN None ELSE Shown(n, Max(W)).spec
  BY WorkedFacts
<1>5. LastWorking(n, stage)' = IF W' = {} THEN None ELSE (Shown(n, Max(W)).spec)'
  BY DEF LastWorking, Worked
<1>6. CASE W = {}
  BY <1>2, <1>4, <1>5, <1>6
<1>7. CASE W # {}
  <2>1. \A g \in 0..(stage - 1) : g = Max(W)' => (Shown(n, Max(W)).spec)' = Shown(n, g)'.spec
    BY DEF Shown, Own
  <2>2. Max(W)' = Max(W)
    BY <1>2
  <2> HIDE DEF W
  <2>3. (Shown(n, Max(W)).spec)' = Shown(n, Max(W)).spec
    BY <1>1, <1>3, <1>7, <2>1, <2>2
  <2> QED BY <1>2, <1>4, <1>5, <1>7, <2>3
<1> QED BY <1>6, <1>7

LEMMA TrueMemoryKept ==
  ASSUME NEW stage \in Nat, HistoryKept(stage), NEW known, TrueMemory(known, stage)
  PROVE  TrueMemory(known, stage)'
<1>1. \A k \in Places : \A g \in 0..(stage - 1) : Shown(NameOf(k), g)' = Shown(NameOf(k), g)
  BY DEF HistoryKept
<1>2. \A k \in Places : LastWorking(NameOf(k), stage)' = LastWorking(NameOf(k), stage)
  BY <1>1, LastWorkingKept
<1> QED BY <1>2 DEF TrueMemory

LEMMA BriefTellsKept ==
  ASSUME RowsTyped, BriefsTyped, LinesKept, NEW stage \in 0..Generations, HistoryKept(stage), NEW k \in Places,
         0 < stage /\ stage < Generations => brief'[stage][NameOf(k)] = brief[stage][NameOf(k)],
         BriefTells(k, stage), Past(stage)
  PROVE  BriefTells(k, stage)'
<1> DEFINE n == NameOf(k)
           b == brief[stage][n]
<1> SUFFICES ASSUME 0 < stage, stage < Generations
             PROVE  TellsTheRecord(brief[stage][n], n, stage - 1)'
  BY DEF BriefTells
<1>1. TellsTheRecord(b, n, stage - 1)
  BY DEF BriefTells
<1>2. stage - 1 \in 0..(stage - 1) /\ stage \in Gens /\ n \in SubjectNames
  BY PlacesFacts
<1>3. b \in Briefs /\ b.lines \subseteq Entries(rows) /\ b.lines # {}
  BY <1>1, <1>2 DEF BriefsTyped, TellsTheRecord
<1>4. Max(b.lines) \in b.lines
  <2>1. Len(rows) \in Nat /\ \A i \in Entries(rows) : i \in Nat /\ i <= Len(rows)
    BY LinesFacts
  <2>2. b.lines \in SUBSET Nat /\ \A i \in b.lines : i <= Len(rows)
    BY <1>3, <2>1
  <2> HIDE DEF b
  <2> QED BY <1>3, <2>1, <2>2, Greatest
<1>5. rows'[Max(b.lines)] = rows[Max(b.lines)]
  BY <1>3, <1>4 DEF LinesKept
<1>6. genFile'[stage - 1] = genFile[stage - 1] /\ Shown(n, stage - 1)' = Shown(n, stage - 1)
  BY <1>2 DEF HistoryKept, Past
<1>7. brief'[stage][n] = b
  OBVIOUS
<1> HIDE DEF b
<1>8. /\ brief'[stage][n] # None /\ brief'[stage][n].report = genFile'[stage - 1].batch
      /\ brief'[stage][n].lines # {} /\ rows'[Max(brief'[stage][n].lines)] = Shown(n, stage - 1)'
      /\ brief'[stage][n].failed = ~ Shown(n, stage - 1)'.ok
  BY <1>1, <1>5, <1>6, <1>7 DEF TellsTheRecord
<1> QED BY <1>8 DEF TellsTheRecord

\* A step that leaves the trajectory alone changes nothing that is read from it.
LEMMA RowsAlone ==
  ASSUME RowsTyped, rows' = rows
  PROVE  /\ RowsTyped' /\ LinesKept
         /\ \A n : LinesOf(n)' = LinesOf(n)
         /\ \A n, g : Own(n, g)' = Own(n, g) /\ Shown(n, g)' = Shown(n, g)
<1>1. \A n : LinesOf(n)' = LinesOf(n)
  BY DEF LinesOf
<1>2. \A n, g : Own(n, g)' = Own(n, g)
  BY <1>1 DEF Own
<1>3. \A n, g : Shown(n, g)' = Shown(n, g)
  BY <1>2 DEF Shown
<1> QED BY <1>1, <1>2, <1>3 DEF RowsTyped, LinesKept

\* ... and with the generation files, the history.
LEMMA FilesAlone ==
  ASSUME RowsTyped, rows' = rows, genFile' = genFile, NEW stage
  PROVE  HistoryKept(stage)
BY RowsAlone DEF HistoryKept

LEMMA QuietAlone ==
  ASSUME reading' = reading, target' = target, NEW stage, Quiet(stage)
  PROVE  Quiet(stage)'
BY DEF Quiet

\* The state stays true if what it speaks of stays.
LEMMA StateStaysTrue ==
  ASSUME RowsTyped, BriefsTyped, StateTyped, StateIsTrue, state' = state, config' = config, LinesKept,
         Loadable => \A stage \in {state.generation} :
           /\ HistoryKept(stage) /\ Quiet(stage)'
           /\ 0 < stage /\ stage < Generations =>
                              \A k \in Places : brief'[stage][NameOf(k)] = brief[stage][NameOf(k)]
  PROVE  StateIsTrue'
<1> SUFFICES ASSUME Loadable'
             PROVE  StateIsTrue'
  BY DEF StateIsTrue
<1> DEFINE G == state.generation
           M == state.last
<1>1. Loadable
  BY DEF Loadable
<1>2. G \in 0..Generations /\ G \in Nat
  BY <1>1, PlacesFacts DEF StateTyped
<1>3. /\ config /\ Past(G) /\ TrueMemory(M, G) /\ \A k \in Places : BriefTells(k, G)
  BY <1>1 DEF StateIsTrue
<1>4. HistoryKept(G) /\ (\A stage \in {state.generation} : Quiet(stage)')
      /\ (0 < G /\ G < Generations => \A k \in Places : brief'[G][NameOf(k)] = brief[G][NameOf(k)])
  BY <1>1
<1>5. \A stage \in {G}, known \in {M} : Past(stage)' /\ TrueMemory(known, stage)'
  BY <1>2, <1>3, <1>4, PastKept, TrueMemoryKept
<1>6. \A stage \in {G}, k \in Places : BriefTells(k, stage)'
  <2> SUFFICES ASSUME NEW stage \in {G}, NEW k \in Places PROVE BriefTells(k, stage)'
    OBVIOUS
  <2>1. /\ stage \in 0..Generations /\ HistoryKept(stage) /\ BriefTells(k, stage) /\ Past(stage)
        /\ 0 < stage /\ stage < Generations => brief'[stage][NameOf(k)] = brief[stage][NameOf(k)]
    BY <1>2, <1>3, <1>4
  <2> QED BY <2>1, BriefTellsKept
<1> QED BY <1>3, <1>4, <1>5, <1>6 DEF StateIsTrue

----------------------------------------------------------------------------
(* The commands.                                                           *)

LEMMA IdleCommand ==
  ASSUME cmd' = Idle
  PROVE  CommandTyped' /\ cmd'.pc = "idle"
<1>1. /\ Idle = [pc |-> "idle", k |-> 1, gen |-> 0, resolved |-> <<>>, batch |-> 0, last |-> NoSpecs, done |-> FALSE]
      /\ NoSpecs = [n \in SubjectNames |-> NoSpecs[n]]
  BY DEF Idle, NoSpecs
<1> HIDE DEF NoSpecs
<1>2. 1 \in Places /\ 0 \in 0..Generations
  BY PlacesFacts
<1> QED BY <1>1, <1>2 DEF CommandTyped

LEMMA InitialInv == SessionInit => SessionInv
<1> SUFFICES ASSUME SessionInit PROVE SessionInv
  OBVIOUS
<1> USE DEF SessionInit
<1>1. cmd.pc = "idle" /\ ~Loadable
  BY DEF Idle, Loadable
<1>2. CommandTyped
  <2>1. /\ Idle = [pc |-> "idle", k |-> 1, gen |-> 0, resolved |-> <<>>, batch |-> 0, last |-> NoSpecs, done |-> FALSE]
        /\ NoSpecs = [n \in SubjectNames |-> NoSpecs[n]]
    BY DEF Idle, NoSpecs
  <2> HIDE DEF NoSpecs
  <2>2. 1 \in Places /\ 0 \in 0..Generations
    BY PlacesFacts
  <2> QED BY <2>1, <2>2 DEF CommandTyped
<1>3. RowsTyped
  <2>1. Entries(<<>>) = {}
    BY DEF Entries
  <2> QED BY <2>1, EmptyIsASeq DEF RowsTyped
<1>4. BriefsTyped /\ AgentsTyped /\ StateTyped
  BY <1>1 DEF BriefsTyped, AgentsTyped, StateTyped, NoneYet, IsTable
<1>5. AnswersToBriefs
  BY DEF AnswersToBriefs, NoneYet
<1>6. StateIsTrue /\ DuringInit /\ DuringRun /\ AfterRun
  BY <1>1 DEF StateIsTrue, DuringInit, DuringRun, AfterRun
<1>7. CountedOnce /\ NoneToCome /\ NothingYet
  BY DEF CountedOnce, NoneToCome, NothingYet, Entries
<1> QED BY <1>2, <1>3, <1>4, <1>5, <1>6, <1>7 DEF SessionInv, DirectoryTyped

\* A step that writes nothing but its own locals.
LEMMA OnlyLocalsChange ==
  ASSUME SessionInv, UNCHANGED directory, UNCHANGED reading
  PROVE  RowsTyped' /\ BriefsTyped' /\ AgentsTyped' /\ AnswersToBriefs' /\ StateIsTrue' /\ NothingYet'
<1> USE DEF directory
<1>1. RowsTyped /\ BriefsTyped /\ AgentsTyped /\ StateTyped /\ AnswersToBriefs /\ StateIsTrue /\ NothingYet
  BY DEF SessionInv, DirectoryTyped
<1>2. RowsTyped' /\ LinesKept
  BY <1>1, RowsAlone
<1>3. BriefsTyped' /\ AgentsTyped' /\ AnswersToBriefs' /\ NothingYet'
  BY <1>1 DEF BriefsTyped, IsTable, AgentsTyped, AnswersToBriefs, NothingYet
<1>4. ASSUME Loadable
      PROVE  \A stage \in {state.generation} :
               /\ HistoryKept(stage) /\ Quiet(stage)'
               /\ stage < Generations => \A k \in Places : brief'[stage][NameOf(k)] = brief[stage][NameOf(k)]
  <2>1. \A stage \in {state.generation} : Quiet(stage)
    BY <1>1, <1>4 DEF StateIsTrue
  <2>2. \A stage \in {state.generation} : Quiet(stage)'
    BY <2>1, QuietAlone
  <2>3. \A stage \in {state.generation} : HistoryKept(stage)
    BY <1>1, FilesAlone
  <2> QED BY <2>2, <2>3
<1>5. StateIsTrue'
  BY <1>1, <1>2, <1>4, StateStaysTrue
<1> QED BY <1>2, <1>3, <1>5

\* A command that ends, or is stopped.
LEMMA EndKeeps ==
  ASSUME SessionInv, cmd' = Idle, UNCHANGED <<directory, reading, batches>>, stops' \in Nat,
         stops' = stops \/ stops' > 0,
         stops = 0 => cmd.pc \in {"resolve", "idle"} \/ stops' > 0
  PROVE  SessionInv'
<1>1. CommandTyped' /\ cmd'.pc = "idle"
  BY IdleCommand
<1>2. RowsTyped' /\ BriefsTyped' /\ AgentsTyped' /\ AnswersToBriefs' /\ StateIsTrue' /\ NothingYet'
  BY OnlyLocalsChange
<1>3. StateTyped'
  BY DEF SessionInv, DirectoryTyped, StateTyped, directory, Loadable
<1>4. DuringInit' /\ DuringRun' /\ AfterRun'
  BY <1>1 DEF DuringInit, DuringRun, AfterRun
<1>5. CountedOnce'
  BY DEF SessionInv, CountedOnce, directory, Entries
<1>6. NoneToCome'
  <2> SUFFICES ASSUME stops' = 0, NEW i \in Entries(rows'), Loadable'
               PROVE  rows'[i].generation < state'.generation
    BY <1>1 DEF NoneToCome
  <2>1. stops = 0 /\ cmd.pc \in {"resolve", "idle"}
    BY DEF SessionInv, DirectoryTyped, StateTyped
  <2>2. rows' = rows /\ state' = state /\ Loadable
    BY DEF directory, Loadable
  <2> QED BY <2>1, <2>2 DEF SessionInv, NoneToCome, Entries
<1> QED BY <1>1, <1>2, <1>3, <1>4, <1>5, <1>6 DEF SessionInv, DirectoryTyped

LEMMA StopKeeps == ASSUME SessionInv, Stop PROVE SessionInv'
<1>1. stops' \in Nat /\ stops' > 0
  BY DEF Stop, SessionInv, DirectoryTyped, StateTyped
<1> QED BY <1>1, EndKeeps DEF Stop

\* The files that agents and readers open are left alone.
LEMMA FilesUntouched ==
  ASSUME SessionInv, UNCHANGED <<rows, genFile, brief, target, reading>>
  PROVE  /\ RowsTyped' /\ BriefsTyped' /\ AgentsTyped' /\ AnswersToBriefs' /\ LinesKept
         /\ \A stage : HistoryKept(stage) /\ (Past(stage) => Past(stage)') /\ (Quiet(stage) => Quiet(stage)')
<1>1. RowsTyped /\ BriefsTyped /\ AgentsTyped /\ AnswersToBriefs
  BY DEF SessionInv, DirectoryTyped
<1>2. RowsTyped' /\ LinesKept
  BY <1>1, RowsAlone
<1>3. BriefsTyped' /\ AgentsTyped' /\ AnswersToBriefs'
  BY <1>1 DEF BriefsTyped, IsTable, AgentsTyped, AnswersToBriefs
<1>4. \A stage : HistoryKept(stage)
  BY <1>1, FilesAlone
<1>5. \A stage : Past(stage) => Past(stage)'
  BY <1>4, PastKept
<1>6. \A stage : Quiet(stage) => Quiet(stage)'
  BY QuietAlone
<1> QED BY <1>2, <1>3, <1>4, <1>5, <1>6

LEMMA NoRows == ASSUME rows' = <<>> PROVE RowsTyped' /\ CountedOnce' /\ NoneToCome' /\ NothingYet'
<1>1. Entries(<<>>) = {}
  BY DEF Entries
<1>2. RowsTyped'
  BY <1>1, EmptyIsASeq DEF RowsTyped
<1> QED BY <1>1, <1>2 DEF CountedOnce, NoneToCome, NothingYet

LEMMA StartInitKeeps == ASSUME SessionInv, StartInit PROVE SessionInv'
<1>1. rows = <<>> /\ rows' = rows
  BY DEF StartInit, HalfMade, SessionInv, NothingYet
<1>2. RowsTyped' /\ CountedOnce' /\ NoneToCome' /\ NothingYet'
  BY <1>1, NoRows
<1>3. /\ cmd' = [pc |-> "config", k |-> 1, gen |-> 0, resolved |-> <<>>, batch |-> 0, last |-> NoSpecs, done |-> FALSE]
      /\ NoSpecs = [n \in SubjectNames |-> NoSpecs[n]] /\ \A n \in SubjectNames : NoSpecs[n] = None
  BY DEF StartInit, Idle, NoSpecs
<1>4. \A k \in Places : NameOf(k) \in SubjectNames
  BY PlacesFacts
<1>5. 1 \in Places /\ 0 \in 0..Generations /\ 0 \in Gens
  BY PlacesFacts
<1>6. CommandTyped'
  <2> HIDE DEF NoSpecs
  <2> QED BY <1>3, <1>5 DEF CommandTyped
<1>7. ~Loadable' /\ state' = None
  BY DEF StartInit, Loadable
<1>8. /\ \A n \in SubjectNames : reading'[n] = None
      /\ \A g \in Gens, n \in SubjectNames : brief'[g][n] = None /\ target'[g][n] = None
      /\ IsTable(brief)' /\ IsTable(target)' /\ reading' = reading
  BY DEF StartInit, NoneYet, IsTable
<1>9. BriefsTyped' /\ AgentsTyped' /\ AnswersToBriefs'
  BY <1>8 DEF BriefsTyped, AgentsTyped, AnswersToBriefs, SessionInv, DirectoryTyped
<1>10. StateTyped'
  BY <1>7 DEF StateTyped, StartInit, SessionInv, DirectoryTyped
<1>11. Quiet(0)' /\ \A k \in Places : Untouched(k)'
  BY <1>4, <1>5, <1>8 DEF Quiet, Untouched
<1>12. StateIsTrue' /\ DuringRun' /\ AfterRun'
  BY <1>3, <1>7 DEF StateIsTrue, DuringRun, AfterRun
<1>13. DuringInit'
  BY <1>1, <1>3, <1>4, <1>7, <1>11 DEF DuringInit
<1> QED BY <1>2, <1>6, <1>9, <1>10, <1>12, <1>13 DEF SessionInv, DirectoryTyped

LEMMA UntouchedKept ==
  ASSUME UNCHANGED <<brief, target, reading>>, NEW k, Untouched(k)
  PROVE  Untouched(k)'
BY DEF Untouched

LEMMA WriteConfigKeeps == ASSUME SessionInv, WriteConfig PROVE SessionInv'
<1>1. UNCHANGED <<rows, genFile, brief, target, reading, state, batches, stops>> /\ cmd.pc = "config" /\ config'
  BY DEF WriteConfig
<1>2. /\ RowsTyped' /\ BriefsTyped' /\ AgentsTyped' /\ AnswersToBriefs'
      /\ \A stage : Quiet(stage) => Quiet(stage)'
  BY <1>1, FilesUntouched
<1>3. /\ rows = <<>> /\ cmd.batch = 0 /\ cmd.gen = 0 /\ cmd.done = FALSE
      /\ \A k \in Places : cmd.last[NameOf(k)] = None
      /\ ~Loadable /\ Quiet(0) /\ \A k \in Places : Untouched(k)
  BY <1>1 DEF SessionInv, DuringInit
<1>4. CommandTyped
  BY DEF SessionInv, DirectoryTyped
<1>5. cmd'.pc = "truncate" /\ UNCHANGED <<cmd.k, cmd.gen, cmd.batch, cmd.last, cmd.done>> /\ CommandTyped'
  BY <1>4 DEF CommandTyped, WriteConfig
<1>6. StateTyped' /\ ~Loadable'
  BY <1>1, <1>3 DEF SessionInv, DirectoryTyped, StateTyped, Loadable, WriteConfig
<1>7. CountedOnce' /\ NoneToCome' /\ NothingYet'
  BY <1>1, <1>3, NoRows
<1>8. StateIsTrue' /\ DuringRun' /\ AfterRun'
  BY <1>3, <1>5, <1>6 DEF StateIsTrue, DuringRun, AfterRun
<1>9. Quiet(0)' /\ \A k \in Places : Untouched(k)'
  BY <1>1, <1>2, <1>3, UntouchedKept
<1>10. DuringInit'
  BY <1>1, <1>3, <1>5, <1>6, <1>9 DEF DuringInit
<1> QED BY <1>2, <1>5, <1>6, <1>7, <1>8, <1>10 DEF SessionInv, DirectoryTyped

LEMMA LineOfRunKept ==
  ASSUME RowsTyped, rows' = rows, UNCHANGED <<cmd.batch, cmd.resolved>>, NEW k, NEW stage, LineOfRun(k, stage)
  PROVE  LineOfRun(k, stage)'
<1> DEFINE m == Max(LinesOf(NameOf(k)))
<1>1. LinesOf(NameOf(k))' = LinesOf(NameOf(k))
  BY RowsAlone
<1>2. m' = m
  BY <1>1
<1> QED BY <1>1, <1>2 DEF LineOfRun

LEMMA TruncateKeeps == ASSUME SessionInv, TruncateState PROVE SessionInv'
<1>1. UNCHANGED <<rows, genFile, brief, target, reading, config, batches, stops>> /\ cmd.pc = "truncate"
  BY DEF TruncateState
<1>2. /\ RowsTyped' /\ BriefsTyped' /\ AgentsTyped' /\ AnswersToBriefs' /\ LinesKept
      /\ \A stage : HistoryKept(stage) /\ (Past(stage) => Past(stage)') /\ (Quiet(stage) => Quiet(stage)')
  BY <1>1, FilesUntouched
<1>3. CommandTyped /\ RowsTyped /\ BriefsTyped /\ AgentsTyped
  BY DEF SessionInv, DirectoryTyped
<1>4. cmd'.pc = "save" /\ UNCHANGED <<cmd.k, cmd.gen, cmd.batch, cmd.last, cmd.done, cmd.resolved>> /\ CommandTyped'
  BY <1>3 DEF CommandTyped, TruncateState
<1>5. StateTyped' /\ ~Loadable'
  BY <1>1 DEF SessionInv, DirectoryTyped, StateTyped, Loadable, TruncateState
<1>6. StateIsTrue' /\ DuringRun'
  BY <1>4, <1>5 DEF StateIsTrue, DuringRun
<1>7. CountedOnce' /\ NothingYet'
  BY <1>1 DEF SessionInv, CountedOnce, NothingYet
<1>8. NoneToCome'
  BY <1>1, <1>4 DEF SessionInv, NoneToCome
<1>9. DuringInit'
  <2> SUFFICES ASSUME cmd.batch = 0 PROVE DuringInit'
    BY <1>4 DEF DuringInit
  <2>1. /\ rows = <<>> /\ cmd.gen = 0 /\ cmd.done = FALSE /\ config
        /\ \A k \in Places : cmd.last[NameOf(k)] = None
        /\ Quiet(0) /\ \A k \in Places : Untouched(k)
    BY <1>1 DEF SessionInv, DuringInit
  <2>2. Quiet(0)' /\ \A k \in Places : Untouched(k)'
    BY <1>1, <1>2, <2>1, UntouchedKept
  <2> QED BY <1>1, <1>4, <1>5, <2>1, <2>2 DEF DuringInit
<1>10. AfterRun'
  <2> SUFFICES ASSUME cmd.batch > 0 PROVE AfterRun'
    BY <1>4 DEF AfterRun
  <2> DEFINE G == cmd.gen
             M == cmd.last
  <2>1. /\ config /\ cmd.gen > 0 /\ (cmd.done <=> cmd.gen >= Generations)
        /\ Past(G) /\ Quiet(G - 1) /\ genFile[G - 1].batch = cmd.batch /\ TrueMemory(M, G)
        /\ \A k \in Places : LineOfRun(k, G - 1) /\ BriefTells(k, G)
    BY <1>1 DEF SessionInv, AfterRun
  <2>2. G \in 0..Generations /\ G \in Nat
    BY <1>3, PlacesFacts DEF CommandTyped
  <2>3. \A stage \in {G}, known \in {M} : Past(stage)' /\ Quiet(stage - 1)' /\ TrueMemory(known, stage)'
    BY <1>2, <2>1, <2>2, TrueMemoryKept
  <2>4. \A stage \in {G}, k \in Places : LineOfRun(k, stage - 1)'
    <3> SUFFICES ASSUME NEW stage \in {G}, NEW k \in Places PROVE LineOfRun(k, stage - 1)'
      OBVIOUS
    <3>1. LineOfRun(k, stage - 1)
      BY <2>1
    <3> QED BY <1>1, <1>3, <1>4, <3>1, LineOfRunKept
  <2>5. \A stage \in {G}, k \in Places : BriefTells(k, stage)'
    <3> SUFFICES ASSUME NEW stage \in {G}, NEW k \in Places PROVE BriefTells(k, stage)'
      OBVIOUS
    <3>1. /\ stage \in 0..Generations /\ HistoryKept(stage) /\ BriefTells(k, stage) /\ Past(stage)
          /\ stage < Generations => brief'[stage][NameOf(k)] = brief[stage][NameOf(k)]
      BY <1>1, <1>2, <2>1, <2>2
    <3> QED BY <1>2, <1>3, <3>1, BriefTellsKept
  <2> QED BY <1>1, <1>4, <1>5, <2>1, <2>3, <2>4, <2>5 DEF AfterRun
<1> QED BY <1>2, <1>4, <1>5, <1>6, <1>7, <1>8, <1>9, <1>10 DEF SessionInv, DirectoryTyped

LEMMA SaveOfInitKeeps == ASSUME SessionInv, SaveState, cmd.batch = 0 PROVE SessionInv'
<1>1. UNCHANGED <<rows, genFile, brief, target, reading, config, batches, stops>> /\ cmd.pc = "save"
  BY DEF SaveState
<1>2. /\ RowsTyped' /\ BriefsTyped' /\ AgentsTyped' /\ AnswersToBriefs'
      /\ \A stage : Quiet(stage) => Quiet(stage)'
  BY <1>1, FilesUntouched
<1>3. /\ rows = <<>> /\ cmd.gen = 0 /\ cmd.done = FALSE /\ config
      /\ \A k \in Places : cmd.last[NameOf(k)] = None
      /\ Quiet(0) /\ \A k \in Places : Untouched(k)
  BY <1>1 DEF SessionInv, DuringInit
<1>4. CommandTyped
  BY DEF SessionInv, DirectoryTyped
<1>5. 1 \in Places /\ 0 \in 0..Generations /\ Generations > 0 /\ Generations \in Nat
  BY PlacesFacts
<1>6. cmd'.pc = "briefs" /\ cmd'.k = 1 /\ UNCHANGED <<cmd.gen, cmd.batch, cmd.last, cmd.done>> /\ CommandTyped'
  BY <1>4, <1>5 DEF CommandTyped, SaveState
<1>7. state'.generation = 0 /\ state'.last = cmd.last /\ state'.done = FALSE
  BY <1>3 DEF SaveState
<1>8. StateTyped'
  <2>1. state'.done <=> state'.generation >= Generations
    BY <1>5, <1>7
  <2> QED BY <1>1, <1>4, <1>5, <1>7, <2>1 DEF SessionInv, DirectoryTyped, StateTyped, CommandTyped
<1>9. CountedOnce' /\ NoneToCome' /\ NothingYet'
  BY <1>1, <1>3, NoRows
<1>10. Quiet(0)' /\ \A k \in Places : Untouched(k)'
  BY <1>1, <1>2, <1>3, UntouchedKept
<1>11. StateIsTrue'
  <2>1. \A stage \in {0} : Past(stage)' /\ Quiet(stage)' /\ \A k \in Places : BriefTells(k, stage)'
    BY <1>10 DEF Past, BriefTells
  <2>2. \A known \in {state'.last}, stage \in {0} : TrueMemory(known, stage)'
    <3>1. \A n : LastWorking(n, 0)' = None
      <4>1. \A n : Worked(n, 0)' = {}
        BY DEF Worked
      <4> QED BY <4>1 DEF LastWorking, Worked
    <3> QED BY <1>3, <1>7, <3>1 DEF TrueMemory
  <2> QED BY <1>1, <1>3, <1>7, <2>1, <2>2 DEF StateIsTrue
<1>12. DuringRun' /\ AfterRun'
  BY <1>6 DEF DuringRun, AfterRun
<1>13. DuringInit'
  BY <1>1, <1>3, <1>6, <1>7, <1>10 DEF DuringInit
<1> QED BY <1>2, <1>6, <1>8, <1>9, <1>11, <1>12, <1>13 DEF SessionInv, DirectoryTyped

LEMMA SaveOfRunKeeps == ASSUME SessionInv, SaveState, cmd.batch # 0 PROVE SessionInv'
<1> DEFINE G == cmd.gen
           M == cmd.last
<1>1. UNCHANGED <<rows, genFile, brief, target, reading, config, batches, stops>> /\ cmd.pc = "save"
  BY DEF SaveState
<1>2. /\ RowsTyped' /\ BriefsTyped' /\ AgentsTyped' /\ AnswersToBriefs' /\ LinesKept
      /\ \A stage : HistoryKept(stage) /\ (Past(stage) => Past(stage)') /\ (Quiet(stage) => Quiet(stage)')
  BY <1>1, FilesUntouched
<1>3. CommandTyped /\ RowsTyped /\ BriefsTyped /\ AgentsTyped
  BY DEF SessionInv, DirectoryTyped
<1>4. G \in 0..Generations /\ G \in Nat /\ cmd.batch > 0
  BY <1>3, PlacesFacts DEF CommandTyped
<1>5. /\ config /\ cmd.gen > 0 /\ (cmd.done <=> cmd.gen >= Generations)
      /\ Past(G) /\ Quiet(G - 1) /\ TrueMemory(M, G)
      /\ \A k \in Places : BriefTells(k, G)
  BY <1>1, <1>4 DEF SessionInv, AfterRun
<1>6. CommandTyped' /\ cmd'.pc = "idle"
  BY IdleCommand DEF SaveState
<1>7. state'.generation = G /\ state'.last = M /\ state'.done = cmd.done
  BY DEF SaveState
<1>8. StateTyped'
  BY <1>1, <1>3, <1>4, <1>5, <1>7 DEF SessionInv, DirectoryTyped, StateTyped, CommandTyped
<1>9. CountedOnce' /\ NothingYet'
  BY <1>1 DEF SessionInv, CountedOnce, NothingYet
<1>10. NoneToCome'
  BY <1>1, <1>6, <1>7 DEF SessionInv, NoneToCome
<1>11. StateIsTrue'
  <2>1. Quiet(G)
    <3>1. \A n \in SubjectNames : reading[n] # None => reading[n].gen \in Nat
      BY <1>3, PlacesFacts DEF AgentsTyped
    <3>2. \A h \in Gens : h \in Nat
      BY PlacesFacts
    <3> HIDE DEF G
    <3> QED BY <1>4, <1>5, <3>1, <3>2 DEF Quiet
  <2>2. \A stage \in {G}, known \in {M} : Past(stage)' /\ Quiet(stage)' /\ TrueMemory(known, stage)'
    BY <1>2, <1>4, <1>5, <2>1, TrueMemoryKept
  <2>3. \A stage \in {G}, k \in Places : BriefTells(k, stage)'
    <3> SUFFICES ASSUME NEW stage \in {G}, NEW k \in Places PROVE BriefTells(k, stage)'
      OBVIOUS
    <3>1. /\ stage \in 0..Generations /\ HistoryKept(stage) /\ BriefTells(k, stage) /\ Past(stage)
          /\ stage < Generations => brief'[stage][NameOf(k)] = brief[stage][NameOf(k)]
      BY <1>1, <1>2, <1>4, <1>5
    <3> QED BY <1>2, <1>3, <3>1, BriefTellsKept
  <2> QED BY <1>1, <1>5, <1>7, <2>2, <2>3 DEF StateIsTrue
<1>12. DuringInit' /\ DuringRun' /\ AfterRun'
  BY <1>6 DEF DuringInit, DuringRun, AfterRun
<1> QED BY <1>2, <1>6, <1>8, <1>9, <1>10, <1>11, <1>12 DEF SessionInv, DirectoryTyped

\* A run goes on with nothing appended yet.
LEMMA RunGoesOn ==
  ASSUME SessionInv, UNCHANGED <<directory, reading, stops>>, CommandTyped', batches' \in Nat,
         cmd'.pc \in {"resolve", "run", "rows"}, cmd'.pc = "rows" => cmd'.batch > 0,
         cmd'.pc \in {"run", "rows"} => cmd'.k = 1,
         cmd.pc \in {"idle", "resolve", "run"},
         Loadable, cmd'.gen = state.generation, cmd'.gen < Generations,
         TrueMemory(cmd'.last, cmd'.gen)
  PROVE  SessionInv'
<1> DEFINE G == cmd'.gen
           M == cmd'.last
<1>1. RowsTyped' /\ BriefsTyped' /\ AgentsTyped' /\ AnswersToBriefs' /\ StateIsTrue' /\ NothingYet'
  BY OnlyLocalsChange
<1>2. UNCHANGED <<rows, genFile, brief, target, reading, config, state>>
  BY DEF directory
<1>3. StateTyped' /\ Loadable'
  BY <1>2 DEF SessionInv, DirectoryTyped, StateTyped, Loadable
<1>4. DuringInit' /\ AfterRun'
  BY DEF DuringInit, AfterRun
<1>5. CountedOnce'
  BY <1>2 DEF SessionInv, CountedOnce, Entries
<1>6. NoneToCome'
  BY <1>2 DEF SessionInv, NoneToCome, Entries
<1>7. G \in Nat
  BY PlacesFacts DEF CommandTyped
<1>8. \A stage \in {G}, k \in Places : cmd'.last[NameOf(k)] = LastWorking(NameOf(k), stage)'
  <2>1. HistoryKept(G)
    BY <1>2, FilesAlone DEF SessionInv, DirectoryTyped
  <2>2. \A stage \in {G}, known \in {M} : TrueMemory(known, stage)'
    BY <1>7, <2>1, TrueMemoryKept
  <2> QED BY <2>2 DEF TrueMemory
<1>9. \A k \in Places : ~ Appended(k)'
  <2> SUFFICES ASSUME NEW k \in Places PROVE ~ Appended(k)'
    OBVIOUS
  <2>1. k \in Nat /\ ~(k < 1)
    BY PlacesFacts
  <2>2. cmd'.pc = "rows" => ~(k < cmd'.k)
    BY <2>1
  <2> QED BY <2>2 DEF Appended
<1>10. DuringRun'
  BY <1>2, <1>3, <1>8, <1>9 DEF DuringRun
<1> QED BY <1>1, <1>3, <1>4, <1>5, <1>6, <1>10 DEF SessionInv, DirectoryTyped

LEMMA LoadKeeps == ASSUME SessionInv, Load PROVE SessionInv'
<1>1. /\ Loadable /\ ~state.done /\ cmd.pc = "idle" /\ UNCHANGED <<directory, reading, stops>> /\ batches' = batches
      /\ cmd' = [pc |-> "resolve", k |-> 1, gen |-> state.generation, resolved |-> <<>>, batch |-> 0,
                 last |-> state.last, done |-> FALSE]
  BY DEF Load, Idle
<1>2. /\ state.generation \in 0..Generations /\ (state.done <=> state.generation >= Generations)
      /\ state.last = [n \in SubjectNames |-> state.last[n]] /\ batches \in Nat
  BY <1>1 DEF SessionInv, DirectoryTyped, StateTyped
<1>3. state.generation < Generations
  BY <1>1, <1>2, PlacesFacts
<1>4. 1 \in Places
  BY PlacesFacts
<1>5. CommandTyped'
  BY <1>1, <1>2, <1>4 DEF CommandTyped
<1>6. TrueMemory(state.last, state.generation)
  BY <1>1 DEF SessionInv, StateIsTrue
<1>7. TrueMemory(cmd'.last, cmd'.gen)
  BY <1>1, <1>6
<1> QED BY <1>1, <1>2, <1>3, <1>5, <1>7, RunGoesOn

\* In a run up to its first line every memory is as it was loaded.
LEMMA BeforeTheRows ==
  ASSUME SessionInv, cmd.pc \in {"resolve", "run"}
  PROVE  Loadable /\ cmd.gen = state.generation /\ cmd.gen < Generations /\ TrueMemory(cmd.last, cmd.gen)
<1>1. \A k \in Places : ~ Appended(k)
  BY DEF Appended
<1> QED BY <1>1 DEF SessionInv, DuringRun, TrueMemory

LEMMA ResolveKeeps == ASSUME SessionInv, Resolve PROVE SessionInv'
<1>1. cmd.pc = "resolve" /\ UNCHANGED <<directory, reading, batches, stops>>
  BY DEF Resolve
<1>2. CommandTyped /\ batches \in Nat /\ stops \in Nat
  BY DEF SessionInv, DirectoryTyped, StateTyped
<1>3. PICK r : cmd' = IF r = Raised THEN Idle
                      ELSE [cmd EXCEPT !.resolved = Append(@, r),
                                       !.k = IF @ = Len(Subjects) THEN 1 ELSE @ + 1,
                                       !.pc = IF cmd.k = Len(Subjects) THEN "run" ELSE @]
  BY DEF Resolve
<1>4. CASE r = Raised
  BY <1>1, <1>2, <1>3, <1>4, EndKeeps
<1>5. CASE r # Raised
  <2>1. /\ cmd'.pc = (IF cmd.k = Len(Subjects) THEN "run" ELSE "resolve")
        /\ cmd'.k = (IF cmd.k = Len(Subjects) THEN 1 ELSE cmd.k + 1)
        /\ UNCHANGED <<cmd.gen, cmd.batch, cmd.last>>
        /\ cmd' = [pc |-> cmd'.pc, k |-> cmd'.k, gen |-> cmd'.gen, resolved |-> cmd'.resolved,
                   batch |-> cmd'.batch, last |-> cmd'.last, done |-> cmd'.done]
    BY <1>1, <1>2, <1>3, <1>5 DEF CommandTyped
  <2>2. cmd'.k \in Places
    BY <1>2, <2>1, PlacesFacts DEF CommandTyped
  <2>3. CommandTyped'
    BY <1>2, <2>1, <2>2 DEF CommandTyped
  <2>4. /\ cmd'.pc \in {"resolve", "run", "rows"} /\ cmd'.pc # "rows"
        /\ cmd'.pc = "run" => cmd'.k = 1
    BY <2>1
  <2>5. Loadable /\ cmd'.gen = state.generation /\ cmd'.gen < Generations /\ TrueMemory(cmd'.last, cmd'.gen)
    BY <1>1, <2>1, BeforeTheRows
  <2> QED BY <1>1, <1>2, <2>3, <2>4, <2>5, RunGoesOn
<1> QED BY <1>4, <1>5

LEMMA RunSessionsKeeps == ASSUME SessionInv, RunSessions PROVE SessionInv'
<1>1. cmd.pc = "run" /\ UNCHANGED <<directory, reading, stops>> /\ batches' = batches + 1
  BY DEF RunSessions
<1>2. CommandTyped /\ batches \in Nat
  BY DEF SessionInv, DirectoryTyped, StateTyped
<1>3. batches' \in Nat /\ batches' > 0
  BY <1>1, <1>2
<1>4. /\ cmd'.pc = "rows" /\ cmd'.batch = batches' /\ UNCHANGED <<cmd.k, cmd.gen, cmd.last>>
      /\ CommandTyped'
  BY <1>2, <1>3, <1>1 DEF RunSessions, CommandTyped
<1>5. cmd'.k = 1
  BY <1>1, <1>4 DEF SessionInv, DuringRun
<1>6. Loadable /\ cmd'.gen = state.generation /\ cmd'.gen < Generations /\ TrueMemory(cmd'.last, cmd'.gen)
  BY <1>1, <1>4, BeforeTheRows
<1> QED BY <1>1, <1>3, <1>4, <1>5, <1>6, RunGoesOn

----------------------------------------------------------------------------
(* A line is appended.                                                     *)

LEMMA LastWorkingNextThen ==
  ASSUME NEW n, NEW stage \in Nat
  PROVE  (LastWorking(n, stage + 1) = IF Shown(n, stage).ok THEN Shown(n, stage).spec ELSE LastWorking(n, stage))'
<1>1. LastWorking(n, stage + 1) = IF Shown(n, stage).ok THEN Shown(n, stage).spec ELSE LastWorking(n, stage)
  BY LastWorkingNext
<1> QED BY <1>1, PTL

LEMMA OneMore ==
  ASSUME NEW s, IsSequence(s), NEW e
  PROVE  s \o <<e>> = Append(s, e)
<1>1. PICK S : s \in Seq(S)
  BY DEF IsSequence
<1>2. s \in Seq(S \cup {e}) /\ e \in S \cup {e}
  BY <1>1
<1> QED BY <1>2

\* What is read of other subjects, and of other generations, does not change;
\* what is read of this one is the new line.
LEMMA LineAppended ==
  ASSUME RowsTyped, NEW r, rows' = Append(rows, r), r.generation \in Nat
  PROVE  /\ RowsTyped' /\ LinesKept
         /\ Entries(rows') = Entries(rows) \cup {Len(rows) + 1} /\ rows'[Len(rows) + 1] = r
         /\ \A n : n # r.subject => LinesOf(n)' = LinesOf(n)
         /\ \A n, g : n # r.subject \/ g # r.generation => Own(n, g)' = Own(n, g) /\ Shown(n, g)' = Shown(n, g)
         /\ LinesOf(r.subject)' # {} /\ Max(LinesOf(r.subject)') = Len(rows) + 1
         /\ Shown(r.subject, r.generation)' = r
<1> DEFINE m == Len(rows) + 1
<1>1. /\ IsSequence(rows) /\ IsSequence(rows') /\ Len(rows) \in Nat /\ Len(rows') = m
      /\ DOMAIN rows = Entries(rows) /\ DOMAIN rows' = Entries(rows')
      /\ rows'[m] = r /\ LinesKept
  BY AppendFacts, SeqFacts DEF RowsTyped, LinesKept
<1>2. Entries(rows') = Entries(rows) \cup {m} /\ m \notin Entries(rows) /\ m \in Nat
      /\ \A i \in Entries(rows') : i \in Nat /\ i <= m
  BY <1>1 DEF Entries
<1>3. RowsTyped'
  BY <1>1, <1>2 DEF RowsTyped, LinesKept
<1>4. \A n : LinesOf(n)' = IF n = r.subject THEN LinesOf(n) \cup {m} ELSE LinesOf(n)
  BY <1>1, <1>2 DEF LinesOf, LinesKept
<1>5. \A n : LinesOf(n) \subseteq Entries(rows)
  BY <1>1 DEF LinesOf
<1>6. \A n, g : Own(n, g)' = IF n = r.subject /\ g = r.generation THEN Own(n, g) \cup {m} ELSE Own(n, g)
  <2> SUFFICES ASSUME NEW n, NEW g
               PROVE  Own(n, g)' = IF n = r.subject /\ g = r.generation THEN Own(n, g) \cup {m} ELSE Own(n, g)
    OBVIOUS
  <2>1. Own(n, g)' = {i \in LinesOf(n)' : rows'[i].generation = g}
    BY DEF Own
  <2>2. \A i \in LinesOf(n) : rows'[i] = rows[i]
    BY <1>1, <1>5 DEF LinesKept
  <2> QED BY <1>1, <1>4, <2>1, <2>2 DEF Own
<1>7. \A n, g : n # r.subject \/ g # r.generation => Shown(n, g)' = Shown(n, g)
  <2> SUFFICES ASSUME NEW n, NEW g, Own(n, g)' = Own(n, g) PROVE Shown(n, g)' = Shown(n, g)
    BY <1>6
  <2> DEFINE T == Own(n, g)
  <2>1. T \in SUBSET Nat /\ T \subseteq Entries(rows) /\ \A i \in T : i <= m
    BY <1>2, <1>5 DEF Own
  <2>2. T # {} => Max(T) \in Entries(rows)
    <3> HIDE DEF T
    <3> QED BY <1>2, <2>1, Greatest
  <2>3. T # {} => rows'[Max(T)] = rows[Max(T)]
    <3> HIDE DEF T
    <3> QED BY <1>1, <2>2 DEF LinesKept
  <2> QED BY <2>3 DEF Shown
<1>8. LinesOf(r.subject)' # {} /\ Max(LinesOf(r.subject)') = m
  <2> DEFINE T == LinesOf(r.subject)'
  <2>1. m \in T /\ T \in SUBSET Nat /\ \A i \in T : i <= m
    BY <1>2, <1>4, <1>5
  <2> HIDE DEF T
  <2>2. Max(T) = m
    BY <2>1, MaxIs
  <2> QED BY <2>1, <2>2 DEF T
<1>9. Shown(r.subject, r.generation)' = r
  <2> DEFINE T == Own(r.subject, r.generation)'
  <2>1. Own(r.subject, r.generation) \subseteq Entries(rows)
    BY <1>5 DEF Own
  <2>2. m \in T /\ T \in SUBSET Nat /\ \A i \in T : i <= m
    BY <1>2, <1>6, <2>1
  <2>3. Shown(r.subject, r.generation)' = IF T = {} THEN None ELSE rows'[Max(T)]
    BY DEF Shown
  <2> HIDE DEF T
  <2>4. Max(T) = m
    BY <2>2, MaxIs
  <2> QED BY <1>1, <2>2, <2>3, <2>4
<1> QED BY <1>1, <1>2, <1>3, <1>4, <1>6, <1>7, <1>8, <1>9

\* The line of a subject: what its step of evaluate does to the files.
LineWritten(r, p, g) ==
  /\ p = cmd.k /\ p \in Places /\ g = cmd.gen /\ g \in 0..Generations /\ cmd.pc = "rows"
  /\ r.subject = NameOf(p) /\ r.generation = g /\ r.batch = cmd.batch
  /\ r.ok = cmd.resolved[p].ok /\ r.spec = cmd.resolved[p].spec
  /\ rows' = Append(rows, r)
  /\ UNCHANGED <<config, state, genFile, brief, target, reading, batches, stops>>
  /\ cmd'.last = IF r.ok THEN [cmd.last EXCEPT ![NameOf(p)] = r.spec] ELSE cmd.last
  /\ cmd'.k = IF p = Len(Subjects) THEN 1 ELSE p + 1
  /\ cmd'.pc = IF p = Len(Subjects) THEN "gen file" ELSE "rows"
  /\ UNCHANGED <<cmd.gen, cmd.batch, cmd.resolved>>
  /\ CommandTyped'

LEMMA AppendRowIs ==
  ASSUME SessionInv, AppendRow
  PROVE  LineWritten(Row(cmd.k), cmd.k, cmd.gen)
<1> DEFINE r == Row(cmd.k)
<1>1. CommandTyped /\ RowsTyped
  BY DEF SessionInv, DirectoryTyped
<1>2. /\ cmd.pc = "rows" /\ rows' = rows \o <<r>>
      /\ UNCHANGED <<config, state, genFile, brief, target, reading, batches, stops>>
  BY DEF AppendRow, Lines
<1>3. rows' = Append(rows, r)
  <2> HIDE DEF r
  <2> QED BY <1>1, <1>2, OneMore DEF RowsTyped
<1>4. /\ r.subject = NameOf(cmd.k) /\ r.generation = cmd.gen /\ r.batch = cmd.batch
      /\ r.ok = cmd.resolved[cmd.k].ok /\ r.spec = cmd.resolved[cmd.k].spec
  BY DEF Row, NameOf
<1>5. LastSpecs(cmd.k) = IF r.ok THEN [cmd.last EXCEPT ![NameOf(cmd.k)] = r.spec] ELSE cmd.last
  BY <1>4 DEF LastSpecs, NameOf
<1>6. LastSpecs(cmd.k) = [n \in SubjectNames |-> LastSpecs(cmd.k)[n]]
  BY <1>1 DEF LastSpecs, CommandTyped
<1> HIDE DEF r
<1>7. /\ cmd'.last = LastSpecs(cmd.k)
      /\ cmd'.k = IF cmd.k = Len(Subjects) THEN 1 ELSE cmd.k + 1
      /\ cmd'.pc = IF cmd.k = Len(Subjects) THEN "gen file" ELSE "rows"
      /\ UNCHANGED <<cmd.gen, cmd.batch, cmd.resolved>>
      /\ cmd' = [pc |-> cmd'.pc, k |-> cmd'.k, gen |-> cmd'.gen, resolved |-> cmd'.resolved,
                 batch |-> cmd'.batch, last |-> cmd'.last, done |-> cmd'.done]
  BY <1>1, <1>2 DEF AppendRow, CommandTyped
<1>8. cmd'.k \in Places
  <2>1. cmd.k \in Places
    BY <1>1 DEF CommandTyped
  <2> QED BY <1>7, <2>1, PlaceIs
<1>9. CommandTyped'
  BY <1>1, <1>6, <1>7, <1>8 DEF CommandTyped
<1>10. cmd.k \in Places /\ cmd.gen \in 0..Generations
  BY <1>1 DEF CommandTyped
<1>11. LineWritten(r, cmd.k, cmd.gen)
  BY <1>2, <1>3, <1>4, <1>5, <1>7, <1>9, <1>10 DEF LineWritten
<1> QED BY <1>11 DEF r

LEMMA LineWrittenFacts ==
  ASSUME SessionInv, NEW r, NEW p, NEW g, LineWritten(r, p, g)
  PROVE  /\ g \in Nat /\ Loadable /\ g = state.generation /\ g < Generations /\ cmd.batch > 0
         /\ ~ Appended(p) /\ cmd.last[NameOf(p)] = LastWorking(NameOf(p), g)
         /\ \A j \in Places : Appended(j)' <=> Appended(j) \/ j = p
         /\ \A j \in Places : j # p => NameOf(j) # NameOf(p)
         /\ HistoryKept(g)
<1>0. g \in 0..Generations /\ g = cmd.gen /\ p = cmd.k /\ p \in Places /\ cmd.pc = "rows"
  BY DEF LineWritten
<1>1. g \in Nat /\ p \in Nat /\ g = cmd.gen /\ p = cmd.k /\ p \in Places /\ Len(Subjects) \in Nat
  BY <1>0, PlaceIs
<1>2. ~ Appended(p)
  <2>1. ~(p < p)
    BY <1>1
  <2> QED BY <1>0, <2>1 DEF Appended
<1>3. Loadable /\ g = state.generation /\ g < Generations /\ cmd.batch > 0
  BY <1>1 DEF SessionInv, DuringRun, LineWritten
<1>4. cmd.last[NameOf(p)] = LastWorking(NameOf(p), g)
  BY <1>1, <1>2 DEF SessionInv, DuringRun, LineWritten
<1>5. \A j \in Places : Appended(j)' <=> Appended(j) \/ j = p
  <2> SUFFICES ASSUME NEW j \in Places PROVE Appended(j)' <=> Appended(j) \/ j = p
    OBVIOUS
  <2>1. j \in Nat /\ j <= Len(Subjects)
    BY PlaceIs
  <2>2. cmd.pc = "rows" /\ (Appended(j) <=> j < p)
    BY <1>0 DEF Appended
  <2>3. CASE p = Len(Subjects)
    <3>1. cmd'.pc = "gen file"
      BY <2>3 DEF LineWritten
    <3>2. j < p \/ j = p
      BY <1>1, <2>1, <2>3
    <3> QED BY <2>2, <3>1, <3>2 DEF Appended
  <2>4. CASE p # Len(Subjects)
    <3>1. cmd'.pc = "rows" /\ cmd'.k = p + 1
      BY <2>4 DEF LineWritten
    <3>2. j < p + 1 <=> j < p \/ j = p
      BY <1>1, <2>1
    <3> QED BY <2>2, <3>1, <3>2 DEF Appended
  <2> QED BY <2>3, <2>4
<1>6. \A j \in Places : j # p => NameOf(j) # NameOf(p)
  BY <1>1, PlacesFacts
<1>7. HistoryKept(g)
  <2>1. \A n, h : n # r.subject \/ h # r.generation => Own(n, h)' = Own(n, h) /\ Shown(n, h)' = Shown(n, h)
    BY <1>1, LineAppended DEF LineWritten, SessionInv, DirectoryTyped
  <2>2. \A h \in 0..(g - 1) : h # g
    BY <1>1
  <2> QED BY <2>1, <2>2 DEF HistoryKept, LineWritten
<1> QED BY <1>1, <1>2, <1>3, <1>4, <1>5, <1>6, <1>7

LEMMA RunAfterLine ==
  ASSUME SessionInv, NEW r, NEW p, NEW g, LineWritten(r, p, g)
  PROVE  DuringRun'
<1>1. /\ g \in Nat /\ Loadable /\ g = state.generation /\ g < Generations /\ cmd.batch > 0
      /\ ~ Appended(p) /\ cmd.last[NameOf(p)] = LastWorking(NameOf(p), g)
      /\ \A j \in Places : Appended(j)' <=> Appended(j) \/ j = p
      /\ \A j \in Places : j # p => NameOf(j) # NameOf(p)
      /\ HistoryKept(g)
  BY LineWrittenFacts
<1>2. /\ RowsTyped' /\ LinesKept /\ rows'[Len(rows) + 1] = r
      /\ \A n : n # r.subject => LinesOf(n)' = LinesOf(n)
      /\ \A n, h : n # r.subject \/ h # r.generation => Own(n, h)' = Own(n, h) /\ Shown(n, h)' = Shown(n, h)
      /\ LinesOf(r.subject)' # {} /\ Max(LinesOf(r.subject)') = Len(rows) + 1
      /\ Shown(r.subject, r.generation)' = r
  BY <1>1, LineAppended DEF LineWritten, SessionInv, DirectoryTyped
<1>3. /\ r.subject = NameOf(p) /\ r.generation = g /\ r.batch = cmd.batch
      /\ r.ok = cmd.resolved[p].ok /\ r.spec = cmd.resolved[p].spec
      /\ UNCHANGED <<cmd.gen, cmd.batch, cmd.resolved, state>> /\ g = cmd.gen
      /\ cmd.pc = "rows" /\ p \in Places
  BY DEF LineWritten
<1>4. /\ cmd'.pc \in {"rows", "gen file"} /\ (cmd'.pc = "gen file" => cmd'.k = 1)
  BY DEF LineWritten
<1>5. \A j \in Places : NameOf(j) \in SubjectNames
  BY PlacesFacts
<1>6. cmd.last = [n \in SubjectNames |-> cmd.last[n]]
  BY DEF SessionInv, DirectoryTyped, CommandTyped
<1>7. /\ cmd'.last[NameOf(p)] = IF r.ok THEN r.spec ELSE cmd.last[NameOf(p)]
      /\ \A j \in Places : j # p => cmd'.last[NameOf(j)] = cmd.last[NameOf(j)]
  BY <1>1, <1>3, <1>5, <1>6 DEF LineWritten
<1>8. \A j \in Places : LastWorking(NameOf(j), g)' = LastWorking(NameOf(j), g)
  <2>1. \A j \in Places : \A h \in 0..(g - 1) : Shown(NameOf(j), h)' = Shown(NameOf(j), h)
    BY <1>1 DEF HistoryKept
  <2> QED BY <1>1, <2>1, LastWorkingKept
<1>9. LineOfRun(p, g)' /\ cmd'.last[NameOf(p)] = LastWorking(NameOf(p), g + 1)'
  <2>1. rows'[Max(LinesOf(NameOf(p))')] = r
    BY <1>2, <1>3
  <2>2. LineOfRun(p, g)'
    BY <1>2, <1>3, <2>1 DEF LineOfRun
  <2>3. LastWorking(NameOf(p), g + 1)' = IF r.ok THEN r.spec ELSE LastWorking(NameOf(p), g)'
    BY <1>1, <1>2, <1>3, LastWorkingNextThen
  <2> QED BY <1>1, <1>3, <1>7, <1>8, <2>2, <2>3
<1>10. ASSUME NEW j \in Places, j # p, Appended(j)
       PROVE  LineOfRun(j, g)' /\ cmd'.last[NameOf(j)] = LastWorking(NameOf(j), g + 1)'
  <2> DEFINE n == NameOf(j)
             T == LinesOf(n)
  <2>1. LineOfRun(j, g) /\ cmd.last[n] = LastWorking(n, g + 1)
    BY <1>3, <1>10 DEF SessionInv, DuringRun
  <2>2. n # r.subject
    BY <1>1, <1>3, <1>10
  <2>3. T' = T /\ \A h : Shown(n, h)' = Shown(n, h)
    BY <1>2, <2>2
  <2>4. T # {} /\ T \subseteq Entries(rows) /\ Max(T) \in T
    BY <2>1, LinesFacts DEF LineOfRun, SessionInv, DirectoryTyped
  <2>5. rows'[Max(T)] = rows[Max(T)]
    BY <1>2, <2>4 DEF LinesKept
  <2>6. LineOfRun(j, g)'
    <3>1. Max(T)' = Max(T)
      BY <2>3
    <3> QED BY <1>3, <2>1, <2>3, <2>5, <3>1 DEF LineOfRun
  <2>7. g + 1 \in Nat
    BY <1>1
  <2>8. LastWorking(n, g + 1)' = LastWorking(n, g + 1)
    <3> HIDE DEF n
    <3> QED BY <2>3, <2>7, LastWorkingKept
  <2> QED BY <1>7, <1>10, <2>1, <2>6, <2>8
<1>11. ASSUME NEW j \in Places, j # p, ~ Appended(j)
       PROVE  cmd'.last[NameOf(j)] = LastWorking(NameOf(j), g)'
  <2>1. cmd.last[NameOf(j)] = LastWorking(NameOf(j), g)
    BY <1>3, <1>11 DEF SessionInv, DuringRun
  <2> QED BY <1>7, <1>8, <1>11, <2>1
<1>12. \A stage \in {g}, k \in Places :
         /\ Appended(k)' => LineOfRun(k, stage)' /\ cmd'.last[NameOf(k)] = LastWorking(NameOf(k), stage + 1)'
         /\ ~Appended(k)' => cmd'.last[NameOf(k)] = LastWorking(NameOf(k), stage)'
  BY <1>1, <1>9, <1>10, <1>11
<1>13. Loadable' /\ cmd'.gen = g /\ g = state'.generation /\ cmd'.batch > 0
  BY <1>1, <1>3 DEF Loadable
<1> QED BY <1>1, <1>4, <1>12, <1>13 DEF DuringRun

LEMMA AppendRowKeeps == ASSUME SessionInv, AppendRow PROVE SessionInv'
<1> SUFFICES ASSUME NEW r, NEW p, NEW g, LineWritten(r, p, g) PROVE SessionInv'
  BY AppendRowIs
<1>1. /\ g \in Nat /\ Loadable /\ g = state.generation /\ g < Generations /\ cmd.batch > 0
      /\ \A j \in Places : j # p => NameOf(j) # NameOf(p)
      /\ HistoryKept(g)
  BY LineWrittenFacts
<1>2. /\ RowsTyped /\ BriefsTyped /\ AgentsTyped /\ StateTyped /\ AnswersToBriefs /\ StateIsTrue
      /\ CountedOnce /\ NoneToCome /\ NothingYet
  BY DEF SessionInv, DirectoryTyped
<1>3. /\ RowsTyped' /\ LinesKept /\ rows'[Len(rows) + 1] = r
      /\ Entries(rows') = Entries(rows) \cup {Len(rows) + 1}
  BY <1>1, <1>2, LineAppended DEF LineWritten
<1>4. /\ r.subject = NameOf(p) /\ r.generation = g /\ g = cmd.gen /\ p = cmd.k /\ p \in Places /\ cmd.pc = "rows"
      /\ UNCHANGED <<config, state, genFile, brief, target, reading, batches, stops>> /\ cmd'.gen = g
      /\ CommandTyped'
  BY DEF LineWritten
<1>5. BriefsTyped' /\ AgentsTyped' /\ StateTyped' /\ AnswersToBriefs'
  BY <1>2, <1>3, <1>4 DEF BriefsTyped, IsTable, AgentsTyped, StateTyped, AnswersToBriefs, Loadable
<1>6. StateIsTrue'
  <2>1. \A stage \in {state.generation} : Quiet(stage)
    BY <1>1, <1>2 DEF StateIsTrue
  <2>2. \A stage \in {state.generation} : Quiet(stage)'
    BY <1>4, <2>1, QuietAlone
  <2> QED BY <1>1, <1>2, <1>3, <1>4, <2>2, StateStaysTrue
<1>7. DuringRun'
  BY RunAfterLine
<1>8. cmd'.pc \in {"rows", "gen file"}
  BY DEF LineWritten
<1>9. DuringInit' /\ AfterRun'
  BY <1>8 DEF DuringInit, AfterRun
<1>10. NothingYet'
  BY <1>1, <1>2, <1>4 DEF NothingYet, StateIsTrue
<1>11. ASSUME stops = 0, NEW i \in Entries(rows)
       PROVE  /\ \/ rows[i].generation < g
                 \/ rows[i].generation = g /\ \E k \in Places : k < p /\ rows[i].subject = NameOf(k)
              /\ rows'[i] = rows[i] /\ rows[i].generation \in Nat
  BY <1>2, <1>3, <1>4, <1>11 DEF NoneToCome, OfThisRun, RowsTyped, LinesKept
<1>12. ASSUME stops = 0, NEW i \in Entries(rows)
       PROVE  ~(rows[i].subject = r.subject /\ rows[i].generation = r.generation)
  <2>1. \A k \in Places : k < p => NameOf(k) # NameOf(p)
    <3>1. ~(p < p)
      BY <1>4, PlaceIs
    <3> QED BY <1>1, <3>1
  <2>2. rows[i].generation < g => rows[i].generation # g
    BY <1>1, <1>11, <1>12
  <2> QED BY <1>4, <1>11, <1>12, <2>1, <2>2
<1>13. CountedOnce'
  <2> SUFFICES ASSUME stops = 0, NEW i \in Entries(rows'), NEW j \in Entries(rows'),
                      rows'[i].subject = rows'[j].subject, rows'[i].generation = rows'[j].generation
               PROVE  i = j
    BY <1>4 DEF CountedOnce
  <2>1. i = j \/ i \in Entries(rows) \/ j \in Entries(rows)
    BY <1>3
  <2>2. CASE i \in Entries(rows) /\ j \in Entries(rows)
    BY <1>2, <1>11, <2>2 DEF CountedOnce
  <2>3. CASE i \in Entries(rows) /\ j = Len(rows) + 1
    BY <1>3, <1>11, <1>12, <2>3
  <2>4. CASE j \in Entries(rows) /\ i = Len(rows) + 1
    BY <1>3, <1>11, <1>12, <2>4
  <2> QED BY <1>3, <2>1, <2>2, <2>3, <2>4
<1>14. NoneToCome'
  <2> SUFFICES ASSUME stops = 0, NEW i \in Entries(rows')
               PROVE  /\ cmd'.pc = "rows" => rows'[i].generation < g \/ OfThisRun(i)'
                      /\ cmd'.pc = "gen file" => rows'[i].generation <= g
    BY <1>4, <1>8 DEF NoneToCome
  <2>1. rows'[i].generation \in Nat /\ (rows'[i].generation < g \/
          (rows'[i].generation = g /\ \E k \in Places : k <= p /\ rows'[i].subject = NameOf(k)))
    <3>1. p <= p /\ \A k \in Places : k < p => k <= p
      BY <1>4, PlaceIs
    <3>2. CASE i \in Entries(rows)
      BY <1>11, <3>1, <3>2
    <3>3. CASE i = Len(rows) + 1
      BY <1>1, <1>3, <1>4, <3>1, <3>3
    <3> QED BY <1>3, <3>2, <3>3
  <2>2. cmd'.pc = "rows" => \A k \in Places : k <= p => k < cmd'.k
    <3> SUFFICES ASSUME cmd'.pc = "rows", NEW k \in Places, k <= p PROVE k < cmd'.k
      OBVIOUS
    <3>1. cmd'.k = p + 1
      BY DEF LineWritten
    <3> QED BY <1>4, <3>1, PlaceIs
  <2>3. cmd'.pc = "rows" => rows'[i].generation < g \/ OfThisRun(i)'
    BY <1>4, <2>1, <2>2 DEF OfThisRun
  <2>4. rows'[i].generation <= g
    <3> DEFINE y == rows'[i].generation
    <3>1. y \in Nat /\ (y < g \/ y = g)
      BY <2>1
    <3> HIDE DEF y
    <3>2. y <= g
      BY <1>1, <3>1
    <3> QED BY <3>2 DEF y
  <2> QED BY <2>3, <2>4
<1> QED BY <1>3, <1>4, <1>5, <1>6, <1>7, <1>9, <1>10, <1>13, <1>14 DEF SessionInv, DirectoryTyped

----------------------------------------------------------------------------
(* The generation file and the briefs.                                     *)

LEMMA WriteGenFileKeeps == ASSUME SessionInv, WriteGenFile PROVE SessionInv'
<1> SUFFICES ASSUME NEW g, g = cmd.gen PROVE SessionInv'
  OBVIOUS
<1> DEFINE M == cmd.last
<1>1. UNCHANGED <<config, state, rows, brief, target, reading, batches, stops>> /\ cmd.pc = "gen file"
  BY DEF WriteGenFile
<1>2. /\ CommandTyped /\ RowsTyped /\ BriefsTyped /\ AgentsTyped /\ StateTyped /\ AnswersToBriefs /\ StateIsTrue
      /\ CountedOnce /\ NoneToCome /\ NothingYet /\ DuringRun
  BY DEF SessionInv, DirectoryTyped
<1>3. Loadable /\ g = state.generation /\ g < Generations /\ cmd.batch > 0 /\ cmd.k = 1 /\ g \in Nat
      /\ Generations \in Nat
  <2>1. g \in 0..Generations /\ Generations \in Nat
    BY <1>2, PlacesFacts DEF CommandTyped
  <2>2. Loadable /\ g = state.generation /\ g < Generations /\ cmd.batch > 0 /\ cmd.k = 1
    BY <1>1, <1>2 DEF DuringRun
  <2> QED BY <2>1, <2>2
<1>4. \A k \in Places : LineOfRun(k, g) /\ cmd.last[NameOf(k)] = LastWorking(NameOf(k), g + 1)
  BY <1>1, <1>2 DEF DuringRun, Appended
<1>5. /\ cmd'.pc = (IF g + 1 >= Generations THEN "truncate" ELSE "briefs")
      /\ cmd'.gen = g + 1 /\ (cmd'.done <=> g + 1 >= Generations)
      /\ UNCHANGED <<cmd.k, cmd.batch, cmd.last, cmd.resolved>>
      /\ cmd' = [pc |-> cmd'.pc, k |-> cmd'.k, gen |-> cmd'.gen, resolved |-> cmd'.resolved,
                 batch |-> cmd'.batch, last |-> cmd'.last, done |-> cmd'.done]
  BY <1>2 DEF WriteGenFile, AfterGenFile, CommandTyped
<1>6. CommandTyped'
  BY <1>2, <1>3, <1>5 DEF CommandTyped
<1>7. /\ RowsTyped' /\ LinesKept
      /\ \A n, h : Own(n, h)' = Own(n, h) /\ Shown(n, h)' = Shown(n, h)
  BY <1>1, <1>2, RowsAlone
<1>8. BriefsTyped' /\ AgentsTyped' /\ StateTyped' /\ AnswersToBriefs' /\ NothingYet' /\ Loadable'
  <2>1. BriefsTyped' /\ AgentsTyped'
    BY <1>1, <1>2 DEF BriefsTyped, IsTable, AgentsTyped
  <2>2. AnswersToBriefs' /\ NothingYet'
    BY <1>1, <1>2 DEF AnswersToBriefs, NothingYet
  <2>3. StateTyped' /\ Loadable'
    BY <1>1, <1>2, <1>3 DEF StateTyped, Loadable
  <2> QED BY <2>1, <2>2, <2>3
<1>9. /\ g \in DOMAIN genFile' /\ genFile'[g] = GenRecord
      /\ \A h \in DOMAIN genFile : h \in DOMAIN genFile' /\ (h # g => genFile'[h] = genFile[h])
  BY DEF WriteGenFile
<1>10. HistoryKept(g)
  <2>1. \A h \in 0..(g - 1) : h # g
    BY <1>3
  <2> QED BY <1>7, <1>9, <2>1 DEF HistoryKept
<1>11. config /\ Past(g) /\ Quiet(g)
  BY <1>2, <1>3 DEF StateIsTrue
<1>12. \A stage \in {g} : Quiet(stage)'
  BY <1>1, <1>11, QuietAlone
<1>13. StateIsTrue'
  BY <1>1, <1>2, <1>3, <1>7, <1>10, <1>12, StateStaysTrue
<1>14. Past(g + 1)'
  <2>1. Past(g)'
    BY <1>10, <1>11, PastKept
  <2>2. \A k \in Places : /\ Own(NameOf(k), g)' # {}
                          /\ Shown(NameOf(k), g)'.batch = genFile'[g].batch
                          /\ Shown(NameOf(k), g)'.spec = genFile'[g].specs[k]
    <3> SUFFICES ASSUME NEW k \in Places
                 PROVE  /\ Own(NameOf(k), g)' # {}
                        /\ Shown(NameOf(k), g)'.batch = genFile'[g].batch
                        /\ Shown(NameOf(k), g)'.spec = genFile'[g].specs[k]
      OBVIOUS
    <3> DEFINE n == NameOf(k)
    <3>1. /\ LinesOf(n) # {} /\ rows[Max(LinesOf(n))].generation = g
          /\ rows[Max(LinesOf(n))].batch = cmd.batch /\ rows[Max(LinesOf(n))].spec = cmd.resolved[k].spec
      BY <1>4 DEF LineOfRun
    <3>2. Own(n, g) # {} /\ Shown(n, g) = rows[Max(LinesOf(n))]
      BY <1>2, <3>1, LastLineIsShown
    <3>3. genFile'[g].batch = cmd.batch /\ genFile'[g].specs[k] = cmd.resolved[k].spec
      BY <1>9 DEF GenRecord, Places
    <3> QED BY <1>7, <3>1, <3>2, <3>3
  <2>3. \A h \in 0..((g + 1) - 1) : h \in 0..(g - 1) \/ h = g
    BY <1>3
  <2> QED BY <1>9, <2>1, <2>2, <2>3 DEF Past
<1>15. \A known \in {M} : TrueMemory(known, g + 1)'
  <2>1. \A k \in Places : LastWorking(NameOf(k), g + 1)' = LastWorking(NameOf(k), g + 1)
    <3>1. g + 1 \in Nat
      BY <1>3
    <3> QED BY <1>7, <3>1, LastWorkingKept
  <2> QED BY <1>4, <2>1 DEF TrueMemory
<1>16. \A k \in Places : LineOfRun(k, g)'
  BY <1>1, <1>2, <1>4, <1>5, LineOfRunKept
<1>17. \A k \in Places : cmd'.pc # "briefs" \/ k < cmd'.k => BriefTells(k, g + 1)'
  <2> SUFFICES ASSUME NEW k \in Places, cmd'.pc # "briefs" PROVE BriefTells(k, g + 1)'
    BY <1>3, <1>5, PlaceIs
  <2>1. ~(g + 1 < Generations)
    BY <1>3, <1>5
  <2> QED BY <2>1 DEF BriefTells
<1>18. AfterRun'
  <2>1. g + 1 > 0 /\ (cmd'.pc = "briefs" => g + 1 < Generations) /\ cmd'.pc \in {"briefs", "truncate"}
    BY <1>3, <1>5
  <2>2. genFile'[g].batch = cmd'.batch
    BY <1>5, <1>9 DEF GenRecord
  <2>3. \A stage \in {cmd'.gen} : stage = g + 1 /\ stage - 1 = g
    BY <1>3, <1>5
  <2>4. \A stage \in {cmd'.gen} :
          /\ Past(stage)' /\ Quiet(stage - 1)' /\ genFile'[stage - 1].batch = cmd'.batch
          /\ \A known \in {cmd'.last} : TrueMemory(known, stage)'
          /\ \A k \in Places :
               /\ LineOfRun(k, stage - 1)'
               /\ cmd'.pc # "briefs" \/ k < cmd'.k => BriefTells(k, stage)'
    BY <1>5, <1>12, <1>14, <1>15, <1>16, <1>17, <2>2, <2>3
  <2>5. state'.generation = cmd'.gen - 1
    <3>1. state'.generation = g
      BY <1>1, <1>3
    <3>2. cmd'.gen = g + 1 /\ g \in Nat
      BY <1>3, <1>5
    <3> QED BY <3>1, <3>2
  <2> QED BY <1>1, <1>5, <1>11, <2>1, <2>4, <2>5 DEF AfterRun
<1>19. DuringInit' /\ DuringRun'
  BY <1>3, <1>5 DEF DuringInit, DuringRun
<1>20. CountedOnce'
  BY <1>1, <1>2 DEF CountedOnce
<1>21. NoneToCome'
  <2>1. stops = 0 => \A i \in Entries(rows) : rows[i].generation \in Nat /\ rows[i].generation <= g
    BY <1>1, <1>2 DEF NoneToCome, RowsTyped
  <2>2. stops = 0 => \A i \in Entries(rows) : rows[i].generation < g + 1
    BY <1>3, <2>1
  <2>3. cmd'.pc \in {"briefs", "truncate"}
    BY <1>5
  <2> QED BY <1>1, <1>5, <2>2, <2>3 DEF NoneToCome
<1> QED BY <1>6, <1>7, <1>8, <1>13, <1>18, <1>19, <1>20, <1>21 DEF SessionInv, DirectoryTyped

Updated(t, h, m, b) == [t EXCEPT ![h][m] = b]

LEMMA TableUpdated ==
  ASSUME NEW t, IsTable(t), NEW h \in Gens, NEW m \in SubjectNames, NEW b, NEW u, u = Updated(t, h, m, b)
  PROVE  /\ IsTable(u)
         /\ \A g \in Gens, n \in SubjectNames : u[g][n] = IF g = h /\ n = m THEN b ELSE t[g][n]
<1>1. DOMAIN t = Gens /\ DOMAIN u = Gens /\ u = [g \in Gens |-> IF g = h THEN [t[h] EXCEPT ![m] = b] ELSE t[g]]
  BY DEF IsTable, Updated
<1>2. \A g \in Gens : t[g] = [n \in SubjectNames |-> t[g][n]]
  BY DEF IsTable
<1>3. [t[h] EXCEPT ![m] = b] = [n \in SubjectNames |-> IF n = m THEN b ELSE t[h][n]]
  BY <1>2
<1>4. \A g \in Gens, n \in SubjectNames : u[g][n] = IF g = h /\ n = m THEN b ELSE t[g][n]
  BY <1>1, <1>3
<1>5. \A g \in Gens : u[g] = [n \in SubjectNames |-> u[g][n]]
  <2> SUFFICES ASSUME NEW g \in Gens PROVE u[g] = [n \in SubjectNames |-> u[g][n]]
    OBVIOUS
  <2>1. CASE g = h
    BY <1>1, <1>3, <2>1
  <2>2. CASE g # h
    BY <1>1, <1>2, <2>2
  <2> QED BY <2>1, <2>2
<1>6. u = [g \in Gens |-> [n \in SubjectNames |-> u[g][n]]]
  <2> DEFINE v == [g \in Gens |-> [n \in SubjectNames |-> u[g][n]]]
  <2>1. u = [g \in Gens |-> u[g]]
    BY <1>1
  <2>2. \A g \in Gens : v[g] = u[g]
    BY <1>5
  <2>3. v = [g \in Gens |-> v[g]]
    OBVIOUS
  <2> HIDE DEF v
  <2>4. u = v
    BY <2>1, <2>2, <2>3
  <2> QED BY <2>4 DEF v
<1> QED BY <1>4, <1>6 DEF IsTable

\* The brief of a subject: what its step does to the files.
BriefWritten(p, g) ==
  /\ p = cmd.k /\ p \in Places /\ g = cmd.gen /\ g \in Gens /\ cmd.pc = "briefs"
  /\ UNCHANGED <<config, state, rows, genFile, target, reading, batches, stops>>
  /\ IsTable(brief)'
  /\ \A h \in Gens, n \in SubjectNames :
       brief'[h][n] = IF h = g /\ n = NameOf(p) THEN Brief(p) ELSE brief[h][n]
  /\ Brief(p) \in Briefs /\ Brief(p).lines \subseteq Entries(rows) /\ Brief(p) # None

LEMMA WriteBriefIs ==
  ASSUME SessionInv, WriteBrief, cmd.gen < Generations
  PROVE  BriefWritten(cmd.k, cmd.gen)
<1>1. CommandTyped /\ RowsTyped /\ BriefsTyped
  BY DEF SessionInv, DirectoryTyped
<1>2. cmd.k \in Places /\ cmd.gen \in 0..Generations /\ cmd.batch \in Nat
  BY <1>1 DEF CommandTyped
<1>3. cmd.gen \in Gens /\ NameOf(cmd.k) \in SubjectNames
  BY <1>2, PlacesFacts
<1>4. brief' = Updated(brief, cmd.gen, NameOf(cmd.k), Brief(cmd.k))
  BY DEF WriteBrief, NameOf, Updated
<1>5. /\ IsTable(brief')
      /\ \A h \in Gens, n \in SubjectNames :
           brief'[h][n] = IF h = cmd.gen /\ n = NameOf(cmd.k) THEN Brief(cmd.k) ELSE brief[h][n]
  <2>1. IsTable(brief)
    BY <1>1 DEF BriefsTyped
  <2> QED BY <1>3, <1>4, <2>1, TableUpdated
<1>6. LinesOf(NameOf(cmd.k)) \in SUBSET Nat /\ LinesOf(NameOf(cmd.k)) \subseteq Entries(rows)
  BY <1>1, LinesFacts
<1>7. Brief(cmd.k) \in Briefs /\ Brief(cmd.k).lines = LinesOf(NameOf(cmd.k))
  BY <1>2, <1>6 DEF Brief, Briefs, NameOf
<1>8. Brief(cmd.k) # None
  BY <1>7, BriefsAssumption
<1> QED BY <1>2, <1>3, <1>5, <1>6, <1>7, <1>8 DEF BriefWritten, WriteBrief, IsTable

\* Nobody has read the brief that is written, or answered it.
Unread(n, g) == target[g][n] = None /\ (reading[n] # None => reading[n].gen # g)

LEMMA BriefKeepsFiles ==
  ASSUME SessionInv, NEW p, NEW g, BriefWritten(p, g), Unread(NameOf(p), g),
         Loadable => state.generation = 0 \/ state.generation # g
  PROVE  /\ RowsTyped' /\ BriefsTyped' /\ AgentsTyped' /\ StateTyped' /\ AnswersToBriefs' /\ StateIsTrue'
         /\ CountedOnce' /\ NothingYet' /\ LinesKept
         /\ \A stage : HistoryKept(stage) /\ (Past(stage) => Past(stage)') /\ (Quiet(stage) => Quiet(stage)')
<1>1. /\ RowsTyped /\ BriefsTyped /\ AgentsTyped /\ StateTyped /\ AnswersToBriefs /\ StateIsTrue
      /\ CountedOnce /\ NothingYet
  BY DEF SessionInv, DirectoryTyped
<1>2. UNCHANGED <<config, state, rows, genFile, target, reading, batches, stops>> /\ IsTable(brief)' /\ g \in Gens
      /\ p \in Places
  BY DEF BriefWritten
<1>3. \A h \in Gens, n \in SubjectNames :
        brief'[h][n] = IF h = g /\ n = NameOf(p) THEN Brief(p) ELSE brief[h][n]
  BY DEF BriefWritten
<1>4. RowsTyped' /\ LinesKept
  BY <1>1, <1>2, RowsAlone
<1>5. BriefsTyped'
  BY <1>1, <1>2, <1>3 DEF BriefsTyped, BriefWritten
<1>6. AgentsTyped'
  BY <1>1, <1>2 DEF AgentsTyped, IsTable
<1>7. StateTyped'
  BY <1>1, <1>2 DEF StateTyped, Loadable
<1>8. CountedOnce' /\ NothingYet'
  BY <1>1, <1>2 DEF CountedOnce, NothingYet
<1>9. AnswersToBriefs'
  <2>1. \A n \in SubjectNames : reading[n] # None => reading[n].brief = brief'[reading[n].gen][n]
    BY <1>1, <1>3 DEF AnswersToBriefs, AgentsTyped, Unread
  <2>2. \A h \in Gens, n \in SubjectNames : target[h][n] # None => target[h][n].basis = brief'[h][n]
    BY <1>1, <1>3 DEF AnswersToBriefs, Unread
  <2> QED BY <1>2, <2>1, <2>2 DEF AnswersToBriefs
<1>10. \A stage : HistoryKept(stage) /\ (Past(stage) => Past(stage)') /\ (Quiet(stage) => Quiet(stage)')
  <2>1. \A stage : HistoryKept(stage)
    BY <1>1, <1>2, FilesAlone
  <2>2. \A stage : Past(stage) => Past(stage)'
    BY <2>1, PastKept
  <2>3. \A stage : Quiet(stage) => Quiet(stage)'
    BY <1>2, QuietAlone
  <2> QED BY <2>1, <2>2, <2>3
<1>11. StateIsTrue'
  <2> SUFFICES ASSUME Loadable
               PROVE  \A stage \in {state.generation} :
                        /\ HistoryKept(stage) /\ Quiet(stage)'
                        /\ 0 < stage /\ stage < Generations =>
                              \A k \in Places : brief'[stage][NameOf(k)] = brief[stage][NameOf(k)]
    BY <1>1, <1>2, <1>4, StateStaysTrue
  <2>1. \A stage \in {state.generation} : Quiet(stage)
    BY <1>1 DEF StateIsTrue
  <2>2. \A stage \in {state.generation} :
          0 < stage /\ stage < Generations => \A k \in Places : brief'[stage][NameOf(k)] = brief[stage][NameOf(k)]
    <3> SUFFICES ASSUME NEW stage, stage = state.generation, 0 < stage, stage < Generations, NEW k \in Places
                 PROVE  brief'[stage][NameOf(k)] = brief[stage][NameOf(k)]
      OBVIOUS
    <3>1. stage \in Gens /\ stage # g
      <4>1. stage \in 0..Generations
        BY <1>1 DEF StateTyped
      <4>2. stage # 0
        BY <4>1, PlacesFacts
      <4> QED BY <4>1, <4>2, PlacesFacts
    <3>2. NameOf(k) \in SubjectNames
      BY PlacesFacts
    <3> QED BY <1>3, <3>1, <3>2
  <2> QED BY <1>10, <2>1, <2>2
<1> QED BY <1>4, <1>5, <1>6, <1>7, <1>8, <1>9, <1>10, <1>11

LEMMA BriefOfInitKeeps == ASSUME SessionInv, WriteBrief, cmd.batch = 0 PROVE SessionInv'
<1> SUFFICES ASSUME NEW p, p = cmd.k PROVE SessionInv'
  OBVIOUS
<1>1. cmd.pc = "briefs" /\ CommandTyped
  BY DEF WriteBrief, SessionInv, DirectoryTyped
<1>2. /\ rows = <<>> /\ cmd.gen = 0 /\ cmd.done = FALSE /\ config
      /\ \A k \in Places : cmd.last[NameOf(k)] = None
      /\ Loadable => state.generation = 0
      /\ \A k \in Places : k >= p => Untouched(k)
  BY <1>1 DEF SessionInv, DuringInit
<1>3. p \in Places /\ p \in Nat /\ p <= Len(Subjects) /\ Len(Subjects) \in Nat /\ Untouched(p) /\ Generations > 0
      /\ 0 \in Gens /\ Generations \in Nat
  <2>1. p \in Places
    BY <1>1 DEF CommandTyped
  <2>2. p \in Nat /\ p >= p
    BY <2>1, PlaceIs
  <2>3. Untouched(p)
    BY <1>2, <2>1, <2>2
  <2> QED BY <2>1, <2>2, <2>3, PlaceIs, PlacesFacts
<1>4. BriefWritten(p, 0)
  <2>1. BriefWritten(cmd.k, cmd.gen)
    BY <1>2, <1>3, WriteBriefIs
  <2> QED BY <1>2, <2>1
<1>5. Unread(NameOf(p), 0)
  BY <1>3 DEF Untouched, Unread
<1>6. /\ RowsTyped' /\ BriefsTyped' /\ AgentsTyped' /\ StateTyped' /\ AnswersToBriefs' /\ StateIsTrue'
      /\ CountedOnce' /\ NothingYet'
  BY <1>2, <1>4, <1>5, BriefKeepsFiles
<1>7. /\ UNCHANGED <<config, state, rows, target, reading>>
      /\ \A n \in SubjectNames : n # NameOf(p) => brief'[0][n] = brief[0][n]
  BY <1>4 DEF BriefWritten
<1>8. NoneToCome'
  BY <1>2, <1>7, NoRows
<1>9. CASE p < Len(Subjects)
  <2>1. /\ cmd'.pc = "briefs" /\ cmd'.k = p + 1 /\ UNCHANGED <<cmd.gen, cmd.batch, cmd.last, cmd.done>>
        /\ cmd' = [pc |-> cmd'.pc, k |-> cmd'.k, gen |-> cmd'.gen, resolved |-> cmd'.resolved,
                   batch |-> cmd'.batch, last |-> cmd'.last, done |-> cmd'.done]
    BY <1>1, <1>9 DEF WriteBrief, CommandTyped
  <2>2. p + 1 \in Places
    BY <1>3, <1>9, PlaceIs
  <2>3. CommandTyped'
    BY <1>1, <2>1, <2>2 DEF CommandTyped
  <2>4. \A k \in Places : k >= p + 1 => Untouched(k)'
    <3> SUFFICES ASSUME NEW k \in Places, k >= p + 1 PROVE Untouched(k)'
      OBVIOUS
    <3>1. k >= p /\ k # p
      BY <1>3, PlaceIs
    <3>2. Untouched(k) /\ NameOf(k) \in SubjectNames /\ NameOf(k) # NameOf(p)
      BY <1>2, <1>3, <3>1, PlacesFacts
    <3> QED BY <1>7, <3>2 DEF Untouched
  <2>5. DuringInit'
    BY <1>2, <1>7, <2>1, <2>4 DEF DuringInit, Loadable
  <2>6. DuringRun' /\ AfterRun'
    BY <2>1 DEF DuringRun, AfterRun
  <2> QED BY <1>6, <1>8, <2>3, <2>5, <2>6 DEF SessionInv, DirectoryTyped
<1>10. CASE ~(p < Len(Subjects))
  <2>1. cmd' = Idle
    BY <1>10 DEF WriteBrief
  <2>2. CommandTyped' /\ cmd'.pc = "idle"
    BY <2>1, IdleCommand
  <2>3. DuringInit' /\ DuringRun' /\ AfterRun'
    BY <2>2 DEF DuringInit, DuringRun, AfterRun
  <2> QED BY <1>6, <1>8, <2>2, <2>3 DEF SessionInv, DirectoryTyped
<1> QED BY <1>9, <1>10

LEMMA BriefOfRunKeeps == ASSUME SessionInv, WriteBrief, cmd.batch # 0 PROVE SessionInv'
<1> SUFFICES ASSUME NEW p, p = cmd.k, NEW g, g = cmd.gen PROVE SessionInv'
  OBVIOUS
<1> DEFINE M == cmd.last
<1>1. cmd.pc = "briefs" /\ CommandTyped /\ RowsTyped /\ BriefsTyped
  BY DEF WriteBrief, SessionInv, DirectoryTyped
<1>2. cmd.batch > 0 /\ p \in Places /\ g \in 0..Generations
  BY <1>1 DEF CommandTyped
<1>3. /\ config /\ g > 0 /\ (cmd.done <=> g >= Generations) /\ g < Generations
      /\ Loadable => state.generation = g - 1
      /\ Past(g) /\ Quiet(g - 1) /\ genFile[g - 1].batch = cmd.batch /\ TrueMemory(M, g)
      /\ \A k \in Places : LineOfRun(k, g - 1) /\ (k < p => BriefTells(k, g))
  BY <1>1, <1>2 DEF SessionInv, AfterRun
<1>4. g \in Nat /\ g \in Gens /\ g - 1 # g /\ p \in Nat /\ p <= Len(Subjects) /\ Len(Subjects) \in Nat
  BY <1>2, <1>3, PlaceIs, PlacesFacts
<1>5. BriefWritten(p, g)
  BY <1>3, WriteBriefIs
<1>6. Unread(NameOf(p), g)
  <2>1. NameOf(p) \in SubjectNames /\ g > g - 1 /\ ~(g <= g - 1)
    BY <1>2, <1>4, PlacesFacts
  <2> QED BY <1>3, <1>4, <2>1 DEF Quiet, Unread
<1>7. /\ RowsTyped' /\ BriefsTyped' /\ AgentsTyped' /\ StateTyped' /\ AnswersToBriefs' /\ StateIsTrue'
      /\ CountedOnce' /\ NothingYet' /\ LinesKept
      /\ \A stage : HistoryKept(stage) /\ (Past(stage) => Past(stage)') /\ (Quiet(stage) => Quiet(stage)')
  BY <1>3, <1>4, <1>5, <1>6, BriefKeepsFiles
<1>8. /\ UNCHANGED <<config, state, rows, genFile, target, reading, stops>>
      /\ brief'[g][NameOf(p)] = Brief(p) /\ Brief(p) # None
      /\ \A k \in Places : k # p => brief'[g][NameOf(k)] = brief[g][NameOf(k)]
  <2>1. \A k \in Places : NameOf(k) \in SubjectNames /\ (k # p => NameOf(k) # NameOf(p))
    BY <1>2, PlacesFacts
  <2> QED BY <1>2, <1>4, <1>5, <2>1 DEF BriefWritten
<1>9. TellsTheRecord(brief[g][NameOf(p)], NameOf(p), g - 1)'
  <2> DEFINE n == NameOf(p)
             m == Max(LinesOf(n))
  <2>1. /\ LinesOf(n) # {} /\ rows[m].generation = g - 1 /\ rows[m].ok = cmd.resolved[p].ok
    BY <1>2, <1>3 DEF LineOfRun
  <2>2. Shown(n, g - 1) = rows[m]
    BY <1>1, <2>1, LastLineIsShown
  <2>3. /\ Brief(p).lines = LinesOf(n) /\ Brief(p).report = cmd.batch
        /\ Brief(p).failed = (cmd.batch # 0 /\ ~ cmd.resolved[p].ok)
    BY DEF Brief, NameOf
  <2>4. Shown(n, g - 1)' = Shown(n, g - 1)
    BY <1>1, <1>8, RowsAlone
  <2>5. Brief(p).failed = ~ Shown(n, g - 1).ok
    BY <1>2, <2>1, <2>2, <2>3
  <2> DEFINE b == brief'[g][n]
  <2>6. b # None /\ b.report = genFile'[g - 1].batch /\ b.lines # {} /\ rows'[Max(b.lines)] = Shown(n, g - 1)'
        /\ b.failed = ~ Shown(n, g - 1)'.ok
    <3>1. b = Brief(p)
      BY <1>8
    <3> HIDE DEF b
    <3> QED BY <1>3, <1>8, <2>1, <2>2, <2>3, <2>4, <2>5, <3>1
  <2> QED BY <2>6 DEF TellsTheRecord
<1>10. \A k \in Places : k < p => BriefTells(k, g)'
  <2> SUFFICES ASSUME NEW k \in Places, k < p PROVE BriefTells(k, g)'
    OBVIOUS
  <2>1. brief'[g][NameOf(k)] = brief[g][NameOf(k)]
    BY <1>4, <1>8
  <2> QED BY <1>1, <1>2, <1>3, <1>7, <2>1, BriefTellsKept
<1>11. BriefTells(p, g)'
  BY <1>9 DEF BriefTells
<1>12. \A known \in {M} : TrueMemory(known, g)'
  BY <1>3, <1>4, <1>7, TrueMemoryKept
<1>13. /\ cmd'.pc = (IF p < Len(Subjects) THEN "briefs" ELSE "truncate")
       /\ cmd'.k = (IF p < Len(Subjects) THEN p + 1 ELSE p)
       /\ UNCHANGED <<cmd.gen, cmd.batch, cmd.last, cmd.done, cmd.resolved>>
       /\ cmd' = [pc |-> cmd'.pc, k |-> cmd'.k, gen |-> cmd'.gen, resolved |-> cmd'.resolved,
                  batch |-> cmd'.batch, last |-> cmd'.last, done |-> cmd'.done]
  BY <1>1, <1>2 DEF WriteBrief, CommandTyped
<1>14. CommandTyped'
  <2>1. cmd'.k \in Places
    BY <1>2, <1>4, <1>13, PlaceIs
  <2> QED BY <1>1, <1>13, <2>1 DEF CommandTyped
<1>15. \A k \in Places : LineOfRun(k, g - 1)'
  BY <1>1, <1>3, <1>8, <1>13, LineOfRunKept
<1>16. \A k \in Places : cmd'.pc # "briefs" \/ k < cmd'.k => BriefTells(k, g)'
  <2> SUFFICES ASSUME NEW k \in Places, cmd'.pc # "briefs" \/ k < cmd'.k PROVE BriefTells(k, g)'
    OBVIOUS
  <2>1. k < p \/ k = p
    <3>1. k \in Nat /\ k <= Len(Subjects)
      BY PlaceIs
    <3>2. CASE p < Len(Subjects)
      BY <1>4, <1>13, <3>1, <3>2
    <3>3. CASE ~(p < Len(Subjects))
      BY <1>4, <3>1, <3>3
    <3> QED BY <3>2, <3>3
  <2> QED BY <1>10, <1>11, <2>1
<1>17. AfterRun'
  <2>1. \A stage \in {cmd'.gen} :
          /\ Past(stage)' /\ Quiet(stage - 1)' /\ genFile'[stage - 1].batch = cmd'.batch
          /\ \A known \in {cmd'.last} : TrueMemory(known, stage)'
          /\ \A k \in Places :
               /\ LineOfRun(k, stage - 1)'
               /\ cmd'.pc # "briefs" \/ k < cmd'.k => BriefTells(k, stage)'
    BY <1>3, <1>7, <1>8, <1>12, <1>13, <1>15, <1>16
  <2>2. cmd'.pc \in {"briefs", "truncate"} /\ cmd'.gen = g /\ (Loadable' => Loadable)
    BY <1>8, <1>13 DEF Loadable
  <2> QED BY <1>3, <1>8, <1>13, <2>1, <2>2 DEF AfterRun
<1>18. DuringInit' /\ DuringRun'
  BY <1>2, <1>13 DEF DuringInit, DuringRun
<1>19. NoneToCome'
  BY <1>1, <1>8, <1>13 DEF SessionInv, NoneToCome
<1> QED BY <1>7, <1>14, <1>17, <1>18, <1>19 DEF SessionInv, DirectoryTyped

----------------------------------------------------------------------------
(* The agents.                                                             *)

LEMMA GenerationNumbers == \A stage \in 0..Generations : stage \in Nat /\ stage + 1 \in Nat
BY PlacesFacts

\* What an agent does changes nothing of a run.
LEMMA RunAlone ==
  ASSUME CommandTyped, DuringRun, \A stage : HistoryKept(stage), UNCHANGED <<cmd, state>>,
         \A k \in Places : \A stage : LineOfRun(k, stage) => LineOfRun(k, stage)'
  PROVE  DuringRun'
<1> SUFFICES ASSUME cmd.pc \in {"resolve", "run", "rows", "gen file"} PROVE DuringRun'
  BY DEF DuringRun
<1>1. \A k \in Places : Appended(k)' <=> Appended(k)
  BY DEF Appended
<1>2. \A stage \in {cmd.gen} : stage \in Nat /\ stage + 1 \in Nat
  BY GenerationNumbers DEF CommandTyped
<1>3. \A k \in Places : \A stage \in Nat : LastWorking(NameOf(k), stage)' = LastWorking(NameOf(k), stage)
  <2>1. \A k \in Places : \A stage \in Nat : \A g \in 0..(stage - 1) : Shown(NameOf(k), g)' = Shown(NameOf(k), g)
    BY DEF HistoryKept
  <2> QED BY <2>1, LastWorkingKept
<1>4. \A stage \in {cmd.gen}, k \in Places :
       /\ Appended(k) => LineOfRun(k, stage) /\ cmd.last[NameOf(k)] = LastWorking(NameOf(k), stage + 1)
       /\ ~Appended(k) => cmd.last[NameOf(k)] = LastWorking(NameOf(k), stage)
  BY DEF DuringRun
<1>5. \A stage \in {cmd'.gen}, k \in Places :
       /\ Appended(k)' => LineOfRun(k, stage)' /\ cmd'.last[NameOf(k)] = LastWorking(NameOf(k), stage + 1)'
       /\ ~Appended(k)' => cmd'.last[NameOf(k)] = LastWorking(NameOf(k), stage)'
  BY <1>1, <1>2, <1>3, <1>4
<1> QED BY <1>5 DEF DuringRun, Loadable

LEMMA AfterRunAlone ==
  ASSUME CommandTyped, RowsTyped, BriefsTyped, LinesKept, AfterRun, \A stage : HistoryKept(stage),
         UNCHANGED <<config, state, genFile, brief, cmd>>,
         \A k \in Places : \A stage : LineOfRun(k, stage) => LineOfRun(k, stage)',
         cmd.batch > 0 /\ cmd.pc \in {"briefs", "truncate", "save"} => \A stage \in {cmd.gen} : Quiet(stage - 1)'
  PROVE  AfterRun'
<1> SUFFICES ASSUME cmd.pc \in {"briefs", "truncate", "save"}, cmd.batch > 0 PROVE AfterRun'
  BY DEF AfterRun
<1> DEFINE g == cmd.gen
           M == cmd.last
<1>1. /\ config /\ g > 0 /\ (cmd.done <=> g >= Generations) /\ (cmd.pc = "briefs" => g < Generations)
      /\ (Loadable => cmd.pc # "save" /\ state.generation = g - 1)
      /\ Past(g) /\ genFile[g - 1].batch = cmd.batch /\ TrueMemory(M, g)
      /\ \A k \in Places : LineOfRun(k, g - 1) /\ (cmd.pc # "briefs" \/ k < cmd.k => BriefTells(k, g))
  BY DEF AfterRun
<1>2. g \in Nat /\ g \in 0..Generations
  BY PlacesFacts DEF CommandTyped
<1>3. \A stage \in {g}, known \in {M} : Past(stage)' /\ TrueMemory(known, stage)'
  BY <1>1, <1>2, PastKept, TrueMemoryKept
<1>4. \A stage \in {g}, k \in Places : BriefTells(k, stage) => BriefTells(k, stage)'
  <2> SUFFICES ASSUME NEW stage \in {g}, NEW k \in Places, BriefTells(k, stage) PROVE BriefTells(k, stage)'
    OBVIOUS
  <2>1. stage \in 0..Generations /\ HistoryKept(stage) /\ Past(stage)
    BY <1>1, <1>2
  <2> QED BY <2>1, BriefTellsKept
<1>5. \A stage \in {cmd'.gen} :
        /\ Past(stage)' /\ Quiet(stage - 1)' /\ genFile'[stage - 1].batch = cmd'.batch
        /\ \A known \in {cmd'.last} : TrueMemory(known, stage)'
        /\ \A k \in Places :
             /\ LineOfRun(k, stage - 1)'
             /\ cmd'.pc # "briefs" \/ k < cmd'.k => BriefTells(k, stage)'
  BY <1>1, <1>3, <1>4
<1> QED BY <1>1, <1>5 DEF AfterRun, Loadable

LEMMA ReadBriefKeeps == ASSUME SessionInv, NEW n \in SubjectNames, ReadBrief(n) PROVE SessionInv'
<1> SUFFICES ASSUME NEW s, s = state.generation PROVE SessionInv'
  OBVIOUS
<1>1. /\ CommandTyped /\ RowsTyped /\ BriefsTyped /\ AgentsTyped /\ StateTyped /\ AnswersToBriefs /\ StateIsTrue
      /\ DuringInit /\ DuringRun /\ AfterRun /\ CountedOnce /\ NoneToCome /\ NothingYet
  BY DEF SessionInv, DirectoryTyped
<1>2. /\ UNCHANGED <<config, state, rows, genFile, brief, target, cmd, batches, stops>>
      /\ Loadable /\ ~state.done /\ reading[n] = None /\ target[s][n] = None /\ brief[s][n] # None
  BY DEF ReadBrief, directory
<1>3. s \in Gens /\ s \in Nat
  <2>1. s \in 0..Generations /\ ~(s >= Generations)
    BY <1>1, <1>2 DEF StateTyped
  <2> QED BY <2>1, PlacesFacts
<1>4. /\ reading' = [m \in SubjectNames |-> reading'[m]]
      /\ reading'[n].gen = s /\ reading'[n].brief = brief[s][n]
      /\ \A m \in SubjectNames : m # n => reading'[m] = reading[m]
  BY <1>1 DEF ReadBrief, AgentsTyped
<1>5. RowsTyped' /\ LinesKept
  BY <1>1, <1>2, RowsAlone
<1>6. BriefsTyped' /\ StateTyped' /\ CommandTyped'
  BY <1>1, <1>2 DEF BriefsTyped, IsTable, StateTyped, CommandTyped, Loadable
<1>7. AgentsTyped'
  BY <1>1, <1>2, <1>3, <1>4 DEF AgentsTyped, IsTable
<1>8. AnswersToBriefs'
  BY <1>1, <1>2, <1>4 DEF AnswersToBriefs
<1>9. \A stage : HistoryKept(stage)
  BY <1>1, <1>2, FilesAlone
<1>10. \A stage \in Nat : s <= stage /\ Quiet(stage) => Quiet(stage)'
  BY <1>2, <1>4 DEF Quiet
<1>11. StateIsTrue'
  <2>1. \A stage \in {state.generation} : Quiet(stage)
    BY <1>1, <1>2 DEF StateIsTrue
  <2>2. \A stage \in {state.generation} : Quiet(stage)'
    BY <1>3, <1>10, <2>1
  <2> QED BY <1>1, <1>2, <1>5, <1>9, <2>2, StateStaysTrue
<1>12. DuringInit'
  <2> SUFFICES ASSUME cmd.pc = "config" \/ (cmd.pc \in {"truncate", "save", "briefs"} /\ cmd.batch = 0)
               PROVE  DuringInit'
    BY <1>2 DEF DuringInit
  <2>1. cmd.pc = "briefs" /\ s = 0
    BY <1>1, <1>2 DEF DuringInit
  <2>2. \A k \in Places : k >= cmd.k => Untouched(k)'
    <3> SUFFICES ASSUME NEW k \in Places, k >= cmd.k PROVE Untouched(k)'
      OBVIOUS
    <3>1. Untouched(k) /\ NameOf(k) \in SubjectNames
      BY <1>1, <2>1, PlacesFacts DEF DuringInit
    <3>2. NameOf(k) # n
      BY <1>2, <2>1, <3>1 DEF Untouched
    <3> QED BY <1>2, <1>4, <3>1, <3>2 DEF Untouched
  <2> QED BY <1>1, <1>2, <2>1, <2>2 DEF DuringInit, Loadable
<1>13. \A k \in Places : \A stage : LineOfRun(k, stage) => LineOfRun(k, stage)'
  BY <1>1, <1>2, LineOfRunKept
<1>15. DuringRun'
  BY <1>1, <1>2, <1>9, <1>13, RunAlone
<1>16. AfterRun'
  <2> SUFFICES ASSUME cmd.batch > 0, cmd.pc \in {"briefs", "truncate", "save"}, NEW stage, stage = cmd.gen
               PROVE  Quiet(stage - 1)'
    BY <1>1, <1>2, <1>5, <1>9, <1>13, AfterRunAlone
  <2>1. Quiet(stage - 1) /\ stage > 0 /\ stage \in 0..Generations /\ s = stage - 1
    BY <1>1, <1>2 DEF AfterRun, CommandTyped
  <2>2. stage - 1 \in Nat /\ s <= stage - 1
    BY <1>3, <2>1
  <2> QED BY <1>10, <2>1, <2>2
<1>17. CountedOnce' /\ NoneToCome' /\ NothingYet'
  BY <1>1, <1>2 DEF CountedOnce, NoneToCome, NothingYet, OfThisRun, Loadable
<1> QED BY <1>5, <1>6, <1>7, <1>8, <1>11, <1>12, <1>15, <1>16, <1>17 DEF SessionInv, DirectoryTyped

LEMMA AnswerKeeps == ASSUME SessionInv, NEW n \in SubjectNames, Answer(n) PROVE SessionInv'
<1> SUFFICES ASSUME NEW h, h = reading[n].gen PROVE SessionInv'
  OBVIOUS
<1>1. /\ CommandTyped /\ RowsTyped /\ BriefsTyped /\ AgentsTyped /\ StateTyped /\ AnswersToBriefs /\ StateIsTrue
      /\ DuringInit /\ DuringRun /\ AfterRun /\ CountedOnce /\ NoneToCome /\ NothingYet
  BY DEF SessionInv, DirectoryTyped
<1>2. /\ UNCHANGED <<config, state, rows, genFile, brief, cmd, batches, stops>>
      /\ reading[n] # None /\ h \in Gens
  BY <1>1 DEF Answer, AgentsTyped
<1>3. PICK a \in Submissions[n] : target' = Updated(target, h, n, [a EXCEPT !.basis = reading[n].brief])
  BY DEF Answer, Updated
<1> DEFINE w == [a EXCEPT !.basis = reading[n].brief]
<1>4. w.basis = reading[n].brief
  BY SessionAssumption
<1>5. /\ IsTable(target')
      /\ \A g \in Gens, m \in SubjectNames : target'[g][m] = IF g = h /\ m = n THEN w ELSE target[g][m]
  <2> HIDE DEF w
  <2>1. IsTable(target) /\ target' = Updated(target, h, n, w)
    BY <1>1, <1>3 DEF AgentsTyped, w
  <2> QED BY <1>2, <2>1, TableUpdated
<1> HIDE DEF w
<1>6. /\ reading' = [m \in SubjectNames |-> reading'[m]] /\ reading'[n] = None
      /\ \A m \in SubjectNames : m # n => reading'[m] = reading[m]
  BY <1>1 DEF Answer, AgentsTyped
<1>7. RowsTyped' /\ LinesKept
  BY <1>1, <1>2, RowsAlone
<1>8. BriefsTyped' /\ StateTyped' /\ CommandTyped'
  BY <1>1, <1>2 DEF BriefsTyped, IsTable, StateTyped, CommandTyped, Loadable
<1>9. AgentsTyped'
  <2>1. \A m \in SubjectNames : reading'[m] # None => reading'[m].gen \in Gens
    BY <1>1, <1>6 DEF AgentsTyped
  <2> QED BY <1>5, <1>6, <2>1 DEF AgentsTyped, IsTable
<1>10. AnswersToBriefs'
  <2>1. \A m \in SubjectNames : reading'[m] # None => reading'[m].brief = brief[reading'[m].gen][m]
    BY <1>1, <1>6 DEF AnswersToBriefs
  <2>2. w.basis = brief[h][n]
    BY <1>1, <1>2, <1>4 DEF AnswersToBriefs
  <2>3. \A g \in Gens, m \in SubjectNames : target'[g][m] # None => target'[g][m].basis = brief[g][m]
    BY <1>1, <1>5, <2>2 DEF AnswersToBriefs
  <2> QED BY <1>2, <2>1, <2>3 DEF AnswersToBriefs
<1>11. \A stage : HistoryKept(stage)
  BY <1>1, <1>2, FilesAlone
<1>12. \A stage \in Nat : Quiet(stage) => Quiet(stage)'
  <2> SUFFICES ASSUME NEW stage \in Nat, Quiet(stage) PROVE Quiet(stage)'
    OBVIOUS
  <2>1. h <= stage /\ ~(h > stage)
    <3>1. h \in Nat /\ h <= stage
      BY <1>2, PlacesFacts DEF Quiet
    <3> QED BY <3>1
  <2>2. \A m \in SubjectNames : reading'[m] # None => reading'[m].gen <= stage
    BY <1>6 DEF Quiet
  <2>3. \A m \in SubjectNames : \A g \in Gens : g > stage => target'[g][m] = None
    BY <1>5, <2>1 DEF Quiet
  <2> QED BY <2>2, <2>3 DEF Quiet
<1>13. StateIsTrue'
  <2> SUFFICES ASSUME Loadable PROVE \A stage \in {state.generation} : Quiet(stage)'
    BY <1>1, <1>2, <1>7, <1>11, StateStaysTrue
  <2>1. \A stage \in {state.generation} : Quiet(stage)
    BY <1>1 DEF StateIsTrue
  <2>2. state.generation \in Nat
    BY <1>1, PlacesFacts DEF StateTyped
  <2> QED BY <1>12, <2>1, <2>2
<1>14. \A k \in Places : Untouched(k) => Untouched(k)'
  <2> SUFFICES ASSUME NEW k \in Places, Untouched(k) PROVE Untouched(k)'
    OBVIOUS
  <2>1. NameOf(k) # n /\ NameOf(k) \in SubjectNames /\ 0 \in Gens
    BY <1>2, PlacesFacts DEF Untouched
  <2> QED BY <1>2, <1>5, <1>6, <2>1 DEF Untouched
<1>15. DuringInit'
  <2>1. Quiet(0) => Quiet(0)'
    BY <1>12
  <2> QED BY <1>1, <1>2, <1>14, <2>1 DEF DuringInit, Loadable
<1>16. \A k \in Places : \A stage : LineOfRun(k, stage) => LineOfRun(k, stage)'
  BY <1>1, <1>2, LineOfRunKept
<1>17. DuringRun'
  BY <1>1, <1>2, <1>11, <1>16, RunAlone
<1>18. AfterRun'
  <2>1. cmd.batch > 0 /\ cmd.pc \in {"briefs", "truncate", "save"} =>
          \A stage \in {cmd.gen} : Quiet(stage - 1)'
    <3> SUFFICES ASSUME cmd.batch > 0, cmd.pc \in {"briefs", "truncate", "save"}, NEW stage, stage = cmd.gen
                 PROVE  Quiet(stage - 1)'
      OBVIOUS
    <3>1. Quiet(stage - 1) /\ stage > 0 /\ stage \in 0..Generations
      BY <1>1 DEF AfterRun, CommandTyped
    <3>2. stage - 1 \in Nat
      BY <3>1, PlacesFacts
    <3> QED BY <1>12, <3>1, <3>2
  <2> QED BY <1>1, <1>2, <1>7, <1>11, <1>16, <2>1, AfterRunAlone
<1>19. CountedOnce' /\ NoneToCome' /\ NothingYet'
  BY <1>1, <1>2 DEF CountedOnce, NoneToCome, NothingYet, OfThisRun, Loadable
<1> QED BY <1>7, <1>8, <1>9, <1>10, <1>13, <1>15, <1>17, <1>18, <1>19 DEF SessionInv, DirectoryTyped

LEMMA IdlingKeeps == ASSUME SessionInv, UNCHANGED sessionVars PROVE SessionInv'
<1>1. /\ UNCHANGED <<config, state, rows, genFile, brief, target, reading, cmd, batches, stops>>
      /\ UNCHANGED directory
  BY DEF sessionVars, directory
<1>2. RowsTyped' /\ BriefsTyped' /\ AgentsTyped' /\ AnswersToBriefs' /\ StateIsTrue' /\ NothingYet'
  BY <1>1, OnlyLocalsChange
<1>3. /\ CommandTyped /\ RowsTyped /\ BriefsTyped /\ StateTyped
      /\ DuringInit /\ DuringRun /\ AfterRun /\ CountedOnce /\ NoneToCome
  BY DEF SessionInv, DirectoryTyped
<1>4. CommandTyped' /\ StateTyped'
  BY <1>1, <1>3 DEF CommandTyped, StateTyped, Loadable
<1>5. \A stage : HistoryKept(stage) /\ (Quiet(stage) => Quiet(stage)')
  BY <1>1, <1>3, FilesAlone, QuietAlone
<1>6. \A k \in Places : \A stage : LineOfRun(k, stage) => LineOfRun(k, stage)'
  BY <1>1, <1>3, LineOfRunKept
<1>7. DuringInit'
  BY <1>1, <1>3, <1>5 DEF DuringInit, Untouched, Loadable
<1>8. DuringRun'
  BY <1>1, <1>3, <1>5, <1>6, RunAlone
<1>9. AfterRun'
  <2>1. cmd.batch > 0 /\ cmd.pc \in {"briefs", "truncate", "save"} => \A stage \in {cmd.gen} : Quiet(stage - 1)'
    BY <1>3, <1>5 DEF AfterRun
  <2>2. LinesKept
    BY <1>1, <1>3, RowsAlone
  <2> QED BY <1>1, <1>3, <1>5, <1>6, <2>1, <2>2, AfterRunAlone
<1>10. CountedOnce' /\ NoneToCome'
  BY <1>1, <1>3 DEF CountedOnce, NoneToCome, OfThisRun, Loadable
<1> QED BY <1>2, <1>4, <1>7, <1>8, <1>9, <1>10 DEF SessionInv, DirectoryTyped

LEMMA DirectoryStep == SessionInv /\ [SessionNext]_sessionVars => SessionInv'
<1> SUFFICES ASSUME SessionInv, [SessionNext]_sessionVars PROVE SessionInv'
  OBVIOUS
<1>1. CASE StartInit
  BY <1>1, StartInitKeeps
<1>2. CASE WriteConfig
  BY <1>2, WriteConfigKeeps
<1>3. CASE TruncateState
  BY <1>3, TruncateKeeps
<1>4. CASE SaveState
  BY <1>4, SaveOfInitKeeps, SaveOfRunKeeps
<1>5. CASE Load
  BY <1>5, LoadKeeps
<1>6. CASE Resolve
  BY <1>6, ResolveKeeps
<1>7. CASE RunSessions
  BY <1>7, RunSessionsKeeps
<1>8. CASE AppendRow
  BY <1>8, AppendRowKeeps
<1>9. CASE WriteGenFile
  BY <1>9, WriteGenFileKeeps
<1>10. CASE WriteBrief
  BY <1>10, BriefOfInitKeeps, BriefOfRunKeeps
<1>11. CASE Stop
  BY <1>11, StopKeeps
<1>12. ASSUME NEW n \in SubjectNames, ReadBrief(n) \/ Answer(n) PROVE SessionInv'
  BY <1>12, ReadBriefKeeps, AnswerKeeps
<1>13. CASE UNCHANGED sessionVars
  BY <1>13, IdlingKeeps
<1> QED
  BY <1>1, <1>2, <1>3, <1>4, <1>5, <1>6, <1>7, <1>8, <1>9, <1>10, <1>11, <1>12, <1>13
  DEF SessionNext, Command

LEMMA DirectoryHolds == SessionSpec => []SessionInv
BY InitialInv, DirectoryStep, PTL DEF SessionSpec

LEMMA PastIsRecorded ==
  ASSUME NEW stage \in 0..Generations, Past(stage), CountedOnce, RowsTyped
  PROVE  \A g \in 0..(stage - 1), k \in Places :
           /\ g \in GenFilesRead /\ Own(NameOf(k), g) # {}
           /\ Shown(NameOf(k), g).batch = genFile[g].batch /\ Shown(NameOf(k), g).spec = genFile[g].specs[k]
           /\ stops = 0 => Cardinality(Own(NameOf(k), g)) = 1
<1> SUFFICES ASSUME NEW g \in 0..(stage - 1), NEW k \in Places
             PROVE  /\ g \in GenFilesRead
                    /\ stops = 0 => Cardinality(Own(NameOf(k), g)) = 1
  BY DEF Past
<1>1. g \in GenFilesRead
  <2>1. 0..g \subseteq 0..(stage - 1) /\ g \in 0..(Generations - 1)
    BY PlacesFacts
  <2>2. 0..g \subseteq DOMAIN genFile
    BY <2>1 DEF Past
  <2> QED BY <2>1, <2>2, PlacesFacts DEF GenFilesRead
<1>2. ASSUME stops = 0
      PROVE  Cardinality(Own(NameOf(k), g)) = 1
  <2>1. PICK i : i \in Own(NameOf(k), g)
    BY DEF Past
  <2>2. \A j \in Own(NameOf(k), g) :
          j \in Entries(rows) /\ rows[j].subject = NameOf(k) /\ rows[j].generation = g
    BY LinesFacts DEF Own, LinesOf
  <2>3. Own(NameOf(k), g) = {i}
    BY <1>2, <2>1, <2>2 DEF CountedOnce
  <2> QED BY <2>3, FS_Singleton
<1> QED BY <1>1, <1>2

\* Whatever commands of agents/session.py were killed or failed, and whenever
\* the agents answered: a generation that state.json has left behind has its
\* gen file, no reader of the directory stops before it, its line of every
\* subject and the file speak of one and the same measurement, and where
\* nothing was stopped there is one such line.
THEOREM GenerationRecorded == SessionSpec => []Recorded
<1>1. SessionInv => Recorded
  <2> SUFFICES ASSUME SessionInv, Loadable, NEW G, G = state.generation
               PROVE  \A g \in 0..(G - 1), k \in Places :
                        /\ g \in GenFilesRead /\ Own(NameOf(k), g) # {}
                        /\ \E r \in {Shown(NameOf(k), g)} : r.batch = genFile[g].batch /\ r.spec = genFile[g].specs[k]
                        /\ stops = 0 => Cardinality(Own(NameOf(k), g)) = 1
    BY DEF Recorded, Places, NameOf
  <2>1. G \in 0..Generations /\ Past(G) /\ CountedOnce /\ RowsTyped
    BY DEF SessionInv, DirectoryTyped, StateTyped, StateIsTrue
  <2> QED BY <2>1, PastIsRecorded
<1> QED BY <1>1, DirectoryHolds, PTL

\* What evaluate falls back to when a proposal is missing or unusable is, for
\* every subject, the last of its specs that worked in a generation left
\* behind, also after a command that was stopped half way through its lines.
THEOREM FallsBackToWhatWorked == SessionSpec => []FallbackIsLastWorking
<1>1. SessionInv => FallbackIsLastWorking
  <2> SUFFICES ASSUME SessionInv, Loadable, NEW n \in SubjectNames
               PROVE  state.last[n] = LastWorking(n, state.generation)
    BY DEF FallbackIsLastWorking
  <2>1. PICK k \in Places : n = NameOf(k)
    BY PlacesFacts
  <2>2. \A k1 \in Places : state.last[NameOf(k1)] = LastWorking(NameOf(k1), state.generation)
    BY DEF SessionInv, StateIsTrue, TrueMemory
  <2> QED BY <2>1, <2>2
<1> QED BY <1>1, DirectoryHolds, PTL

\* Once state.json names a generation, write_brief has told every agent what
\* the generation before was recorded with, and an answer that evaluate will
\* read was written to the brief that lies in the directory.
THEOREM EveryoneBriefed == SessionSpec => []Briefed
<1>1. SessionInv => Briefed
  <2> SUFFICES ASSUME SessionInv, Loadable, ~state.done, NEW n \in SubjectNames, NEW G, G = state.generation
               PROVE  /\ G > 0 => TellsTheRecord(brief[G][n], n, G - 1)
                      /\ target[G][n] # None => target[G][n].basis = brief[G][n]
    BY DEF Briefed
  <2>1. G \in 0..Generations /\ ~(G >= Generations) /\ Generations \in Nat /\ AnswersToBriefs
        /\ \A k \in Places : BriefTells(k, G)
    BY PlacesFacts DEF SessionInv, DirectoryTyped, StateTyped, StateIsTrue
  <2>2. G < Generations /\ G \in Gens
    BY <2>1, PlacesFacts
  <2>3. PICK k \in Places : n = NameOf(k)
    BY PlacesFacts
  <2>4. G > 0 => TellsTheRecord(brief[G][n], n, G - 1)
    <3>1. 0 < G /\ G < Generations => TellsTheRecord(brief[G][n], n, G - 1)
      BY <2>1, <2>3 DEF BriefTells
    <3>2. G > 0 => 0 < G
      BY <2>1
    <3> QED BY <2>2, <3>1, <3>2
  <2> QED BY <2>1, <2>2, <2>4 DEF AnswersToBriefs
<1> QED BY <1>1, DirectoryHolds, PTL
=============================================================================
