------------------------- MODULE Experiments_proofs -------------------------
(***************************************************************************)
(* Proofs about the programs that measure.                                 *)
(*                                                                         *)
(* InfraExperiment: the held-out sessions of experiments/infra/run.py      *)
(* cannot influence the choice they are to judge, for every number of      *)
(* seeds, regimes and generations and however many commands stop half way; *)
(* nothing is measured but what was recorded; and the order of the         *)
(* sessions of a directory favours neither plugin.  The last is about      *)
(* positions.  The rows of a directory are the first sessions of one fixed *)
(* order (DirsPlanned), a pair of which shares a regime and a seed, and    *)
(* which of the two comes first is the parity of their sum: the pairs of a *)
(* regime are counted by counting parities.                                *)
(*                                                                         *)
(* MatrixRunner: for every list of cells, every number of rounds and each  *)
(* of the drivers, no cell is measured more often than another, and a pair *)
(* is of one round.  The order of a round has every cell at one place, so  *)
(* that a cell has its row of the round exactly when the position has      *)
(* passed that place (Measured); the rows of a cell then correspond to the *)
(* rounds, one to one.                                                     *)
(*                                                                         *)
(* inspect_micro, for every number of messages, producers and consumers:   *)
(* messages that arrive in order arrive once, so a consumer has no more of *)
(* them than it is to receive, and the consumers together have all of them *)
(* only if each has its share.  Sums over finite sets are those of         *)
(* Matching_proofs.                                                        *)
(***************************************************************************)
EXTENDS InfraExperiment, MatrixRunner, Matching_proofs, FunctionTheorems


LEMMA DivMod ==
  ASSUME NEW n \in Nat, n >= 2, NEW a \in Nat
  PROVE  a = n * (a \div n) + (a % n) /\ a \div n \in Int /\ a % n \in 0 .. (n - 1)
  BY SMTT(20)

----------------------------------------------------------------------------
(* InfraExperiment: the choice.                                            *)

Steps == {"idle", "config", "baseline", "mkdir", "build", "select", "verify", "run", "publish", "brief"}

TypeInv ==
  /\ out \in BOOLEAN /\ config \in BOOLEAN
  /\ cmd \in [pc : Steps, gen : Nat, final : BOOLEAN]
  /\ selection \in {NoFile} \cup [generation : Nat]

\* a directory comes before everything in it
InOut == (config \/ cmd.pc # "idle" \/ selection # NoFile) => out

\* which steps belong to finalize, and which never do
StepsOfFinalize ==
  /\ cmd.pc \in {"select", "verify"} => cmd.final
  /\ cmd.pc = "build" => ~cmd.final

\* a finalize that has checked its generation has not chosen yet
Choosing == cmd.pc \in {"mkdir", "select"} /\ cmd.final => selection = NoFile /\ Completed(cmd.gen)

\* one that has, has chosen that generation
Chosen == cmd.pc \in {"verify", "run"} /\ cmd.final => selection # NoFile /\ selection.generation = cmd.gen

\* after the choice nothing runs but finalize
OnlyFinalize == selection # NoFile => cmd.pc = "idle" \/ cmd.final

ChoiceCompleted == selection # NoFile => Completed(selection.generation)

MeasuredLater == heldout # NoFile /\ heldout.rows # <<>> => selection # NoFile

ChoiceInv ==
  /\ TypeInv /\ InOut /\ StepsOfFinalize
  /\ Choosing /\ Chosen /\ OnlyFinalize /\ ChoiceCompleted /\ MeasuredLater

\* No command runs.
LEMMA IdleCommand ==
  /\ Idle \in [pc : Steps, gen : Nat, final : BOOLEAN]
  /\ Idle.pc = "idle" /\ ~Idle.final
  BY DEF Idle, Steps

\* The invariant holds at the start: nothing exists and nothing runs.
LEMMA ChoiceInit == Init => ChoiceInv
<1> SUFFICES ASSUME Init PROVE ChoiceInv
  OBVIOUS
<1>1. TypeInv
  BY IdleCommand DEF Init, TypeInv
<1>2. cmd.pc = "idle" /\ ~cmd.final /\ selection = NoFile /\ heldout = NoFile /\ ~config
  BY IdleCommand DEF Init
<1> QED
  BY <1>1, <1>2 DEF ChoiceInv, InOut, StepsOfFinalize, Choosing, Chosen, OnlyFinalize,
                    ChoiceCompleted, MeasuredLater

\* The steps of init and the ends of evaluate touch neither choice nor
\* held-out rows.
LEMMA ChoiceStepElsewhere ==
  ASSUME ChoiceInv,
         MakeDirectory \/ WriteConfig \/ BuildBaseline \/ Publish \/ WriteBrief \/ Stop
           \/ (\E a \in {Host, Baseline} \cup {Candidate(g) : g \in Gens} : Change(a))
  PROVE  ChoiceInv'
<1> USE DEF ChoiceInv, TypeInv, InOut, StepsOfFinalize, Choosing, Chosen, OnlyFinalize,
            ChoiceCompleted, MeasuredLater, Completed, Gens, At, Goto, Steps
<1>1. CASE MakeDirectory BY <1>1 DEF MakeDirectory
<1>2. CASE WriteConfig BY <1>2 DEF WriteConfig
<1>3. CASE BuildBaseline BY <1>3 DEF BuildBaseline
<1>4. CASE Publish BY <1>4 DEF Publish
<1>5. CASE WriteBrief BY <1>5, IdleCommand DEF WriteBrief
<1>6. CASE Stop BY <1>6, IdleCommand DEF Stop
<1>7. CASE \E a \in {Host, Baseline} \cup {Candidate(g) : g \in Gens} : Change(a)
  BY <1>7 DEF Change
<1> QED BY <1>1, <1>2, <1>3, <1>4, <1>5, <1>6, <1>7

\* The number evaluate gives a generation is a natural number.
LEMMA CountIsNat == Cardinality(Gens) \in Nat
<1>1. IsFiniteSet(0 .. MaxGens - 1)
  BY InfraAssumption, FS_Interval DEF InfraAssumption
<1>2. IsFiniteSet(Gens)
  BY <1>1, FS_Subset DEF Gens
<1> QED BY <1>2, FS_CardinalityType

\* The steps of evaluate run only while nothing is chosen; those of finalize
\* choose once, and measure only then.
LEMMA ChoiceStep == ChoiceInv /\ [Next]_vars => ChoiceInv'
<1> SUFFICES ASSUME ChoiceInv, [Next]_vars PROVE ChoiceInv'
  OBVIOUS
<1> USE DEF TypeInv, InOut, StepsOfFinalize, Choosing, Chosen, OnlyFinalize,
            ChoiceCompleted, MeasuredLater, Completed, Gens, At, Goto, Steps
<1>1. CASE StartEvaluate
  BY <1>1, CountIsNat DEF StartEvaluate, MayStart, ChoiceInv
<1>2. CASE \E g \in 0 .. MaxGens - 1 : StartFinalize(g)
  BY <1>2, InfraAssumption DEF StartFinalize, MayStart, Selectable, ChoiceInv, InfraAssumption
<1>3. CASE MakeGeneration
  BY <1>3 DEF MakeGeneration, ChoiceInv
<1>4. CASE Build
  BY <1>4 DEF Build, ChoiceInv
<1>5. CASE MakeHeldout
  BY <1>5, IdleCommand DEF MakeHeldout, NewDir, ChoiceInv
<1>6. CASE Select
  BY <1>6, InfraAssumption DEF Select, ChoiceInv, InfraAssumption
<1>7. CASE Verify
  BY <1>7, IdleCommand DEF Verify, ChoiceInv
<1>8. CASE RunSession
  BY <1>8 DEF RunSession, SetDir, ChoiceInv
<1>9. CASE WriteFeedback
  BY <1>9, IdleCommand DEF WriteFeedback, SetDir, ChoiceInv
<1>10. CASE UNCHANGED vars
  BY <1>10 DEF vars, ChoiceInv
<1> QED BY <1>1, <1>2, <1>3, <1>4, <1>5, <1>6, <1>7, <1>8, <1>9, <1>10, ChoiceStepElsewhere DEF Next

LEMMA ChoiceInvariant == Spec => []ChoiceInv
  BY ChoiceInit, ChoiceStep, PTL DEF Spec

(* No held-out session before the choice, and none of another generation   *)
(* than the chosen one, whose training was measured to the end.            *)
THEOREM JudgedAfterChoice == Spec => []HeldoutAfterSelection
<1>1. ChoiceInv => HeldoutAfterSelection
  BY DEF ChoiceInv, HeldoutAfterSelection, Chosen, ChoiceCompleted, MeasuredLater, At
<1> QED BY <1>1, ChoiceInvariant, PTL

\* While a choice stands, no step adds to a generation.
LEMMA FrozenStep ==
  ASSUME ChoiceInv, [Next]_vars, selection # NoFile
  PROVE  selection' = selection /\ dirs' = dirs
<1> USE DEF ChoiceInv, StepsOfFinalize, Choosing, OnlyFinalize, At
<1>1. (~At("mkdir") /\ ~At("select")) \/ ~cmd.final
  OBVIOUS
<1>2. CASE MakeGeneration BY <1>2 DEF MakeGeneration
<1>3. CASE Build BY <1>3 DEF Build
<1>4. CASE Select BY <1>4 DEF Select
<1>5. CASE RunSession BY <1>5 DEF RunSession, SetDir
<1>6. CASE WriteFeedback BY <1>6 DEF WriteFeedback, SetDir
<1>7. CASE \/ MakeDirectory \/ WriteConfig \/ BuildBaseline \/ StartEvaluate
           \/ (\E g \in 0 .. MaxGens - 1 : StartFinalize(g))
           \/ MakeHeldout \/ Verify \/ Publish \/ WriteBrief \/ Stop
           \/ (\E a \in {Host, Baseline} \cup {Candidate(g) : g \in Gens} : Change(a))
  BY <1>7 DEF MakeDirectory, WriteConfig, BuildBaseline, StartEvaluate, StartFinalize,
              MakeHeldout, Verify, Publish, WriteBrief, Stop, Change
<1>8. CASE UNCHANGED vars BY <1>8 DEF vars
<1> QED BY <1>2, <1>3, <1>4, <1>5, <1>6, <1>7, <1>8 DEF Next

(* selection.json is written once, and ends all training for good.         *)
THEOREM ChoiceIsFinal == Spec => FrozenBySelection
<1>1. ChoiceInv /\ [Next]_vars => [selection # NoFile => selection' = selection /\ dirs' = dirs]_vars
  BY FrozenStep
<1> QED BY <1>1, ChoiceInvariant, PTL DEF Spec, FrozenBySelection

----------------------------------------------------------------------------
(* What is measured is what was recorded.  Artifacts change only between   *)
(* commands, and what a command measures is compared when it starts, the   *)
(* selected plugin once more by finalize, or is built by the command.      *)

Sound(d) == d \in Directories /\ \A p \in DOMAIN d.rows : d.rows[p].asFrozen

DirsSound ==
  /\ dirs \in [0 .. MaxGens - 1 -> {NoFile} \cup Directories]
  /\ \A g \in Gens : Sound(dirs[g])
  /\ heldout # NoFile => Sound(heldout)

\* only what exists can have changed
ChangedExists == changed \subseteq {Host, Baseline} \cup {Candidate(g) : g \in Gens}

\* the running command has its directory, and what it measures is as recorded
AtWork ==
  /\ cmd.pc \in {"mkdir", "build", "select", "verify", "run"} =>
       Host \notin changed /\ Baseline \notin changed
  /\ cmd.pc \in {"build", "run", "publish"} /\ ~cmd.final => cmd.gen \in Gens
  /\ cmd.pc = "mkdir" => cmd.gen \in 0 .. MaxGens - 1
  /\ cmd.pc \in {"build", "run"} => Candidate(cmd.gen) \notin changed
  /\ cmd.pc \in {"select", "verify", "run"} /\ cmd.final => heldout # NoFile

FrozenInv == TypeInv /\ StepsOfFinalize /\ DirsSound /\ ChangedExists /\ AtWork

LEMMA FrozenInit == Init => FrozenInv
<1> SUFFICES ASSUME Init PROVE FrozenInv
  OBVIOUS
<1>1. TypeInv
  BY IdleCommand DEF Init, TypeInv
<1>2. Gens = {}
  BY DEF Init, Gens
<1>3. DirsSound /\ ChangedExists
  BY <1>2 DEF Init, DirsSound, ChangedExists
<1>4. StepsOfFinalize /\ AtWork
  BY IdleCommand DEF Init, StepsOfFinalize, AtWork
<1> QED BY <1>1, <1>3, <1>4 DEF FrozenInv

\* A row is a row.
LEMMA RowType ==
  ASSUME TypeInv, NEW p \in Nat \ {0}, NEW valid \in BOOLEAN
  PROVE  Row(p, valid) \in Rows
<1>1. (p - 1) \div 2 \in Nat
  OBVIOUS
<1>2. \A n \in Nat : n \div Seeds \in Nat /\ n % Seeds \in Nat
  BY InfraAssumption DEF InfraAssumption
<1> QED BY <1>1, <1>2 DEF Row, Rows, RegimeOf, SeedOf, VariantOf

\* summarize returns a feedback.
LEMMA SummaryType ==
  ASSUME NEW s \in Seq(Rows)
  PROVE  summarize(s) \in Feedbacks
<1>1. IsFiniteSet(DOMAIN s)
  BY FS_Interval
<1>2. \A S \in SUBSET DOMAIN s : Cardinality(S) \in Nat
  BY <1>1, FS_Subset, FS_CardinalityType
<1>3. \A regime, variant :
        /\ Of(s, regime, variant) \in SUBSET DOMAIN s
        /\ {p \in Of(s, regime, variant) : s[p].valid} \in SUBSET DOMAIN s
  BY DEF Of
<1> QED BY <1>2, <1>3 DEF summarize, Feedbacks

\* A row appended to a sound directory is of recorded artifacts if they are
\* unchanged while it is measured.
LEMMA SoundAppend ==
  ASSUME NEW d, Sound(d), NEW r \in Rows, r.asFrozen
  PROVE  Sound([d EXCEPT !.rows = Append(@, r)])
  BY DEF Sound, Directories

\* A new directory has no rows.
LEMMA SoundNew == Sound(NewDir)
  BY DEF Sound, NewDir, Directories

\* The build and the summary of a directory leave its rows alone.
LEMMA SoundKept ==
  ASSUME NEW d, Sound(d)
  PROVE  /\ Sound([d EXCEPT !.feedback = summarize(d.rows)])
         /\ Sound([d EXCEPT !.built = TRUE])
<1>1. d.rows \in Seq(Rows)
  BY DEF Sound, Directories
<1>2. summarize(d.rows) \in Feedbacks
  BY <1>1, SummaryType
<1> QED BY <1>2 DEF Sound, Directories

\* One directory changes for another sound one.
LEMMA DirsSoundStep ==
  ASSUME DirsSound, NEW g \in 0 .. MaxGens - 1, NEW d, Sound(d),
         dirs' = [dirs EXCEPT ![g] = d], heldout' = heldout
  PROVE  DirsSound' /\ Gens' = Gens \cup {g}
<1>1. d \in Directories /\ d # NoFile
  BY InfraAssumption DEF Sound, InfraAssumption
<1> QED BY <1>1 DEF DirsSound, Gens

\* Artifacts are told apart by kind and generation.
LEMMA Distinct ==
  \A g, h : /\ Candidate(g) \notin {Host, Baseline}
            /\ Candidate(g) = Candidate(h) => g = h
  BY DEF Candidate, Host, Baseline, Artifact

\* While a command runs nothing changes, and what it adds is sound.
LEMMA FrozenInvStep == FrozenInv /\ [Next]_vars => FrozenInv'
<1> SUFFICES ASSUME FrozenInv, [Next]_vars PROVE FrozenInv'
  OBVIOUS
<1> USE DEF FrozenInv, TypeInv, StepsOfFinalize, ChangedExists, AtWork, At, Goto, Steps
<1>1. CASE MakeDirectory \/ WriteConfig \/ BuildBaseline \/ Publish \/ WriteBrief \/ Stop
  <2>1. CASE MakeDirectory
    BY <2>1, IdleCommand DEF MakeDirectory, DirsSound, Gens
  <2>2. CASE WriteConfig
    BY <2>2, IdleCommand DEF WriteConfig, DirsSound, Gens
  <2>3. CASE BuildBaseline
    BY <2>3, IdleCommand DEF BuildBaseline, DirsSound, Gens
  <2>4. CASE Publish
    BY <2>4, IdleCommand DEF Publish, DirsSound, Gens
  <2>5. CASE WriteBrief
    BY <2>5, IdleCommand DEF WriteBrief, DirsSound, Gens
  <2>6. CASE Stop
    BY <2>6, IdleCommand DEF Stop, DirsSound, Gens
  <2> QED BY <1>1, <2>1, <2>2, <2>3, <2>4, <2>5, <2>6
<1>2. CASE \E a \in {Host, Baseline} \cup {Candidate(g) : g \in Gens} : Change(a)
  BY <1>2 DEF Change, DirsSound, Gens
<1>3. CASE StartEvaluate
  BY <1>3, CountIsNat, InfraAssumption DEF StartEvaluate, MayStart, DirsSound, Gens, InfraAssumption
<1>4. CASE \E g \in 0 .. MaxGens - 1 : StartFinalize(g)
  BY <1>4, InfraAssumption DEF StartFinalize, MayStart, DirsSound, Gens, InfraAssumption
<1>5. CASE MakeGeneration
  <2>1. DirsSound' /\ Gens' = Gens \cup {cmd.gen}
    BY <1>5, SoundNew, DirsSoundStep DEF MakeGeneration
  <2>2. Candidate(cmd.gen) \notin changed
    BY <1>5, Distinct DEF MakeGeneration, Gens
  <2> QED BY <1>5, <2>1, <2>2 DEF MakeGeneration
<1>6. CASE Build
  <2>1. cmd.gen \in Gens /\ cmd.gen \in 0 .. MaxGens - 1 /\ ~cmd.final
    BY <1>6 DEF Build, Gens
  <2>2. Sound([dirs[cmd.gen] EXCEPT !.built = TRUE])
    BY <2>1, SoundKept DEF DirsSound
  <2>3. dirs' = [dirs EXCEPT ![cmd.gen] = [dirs[cmd.gen] EXCEPT !.built = TRUE]]
    BY <1>6 DEF Build
  <2>4. DirsSound' /\ Gens' = Gens \cup {cmd.gen}
    BY <1>6, <2>1, <2>2, <2>3, DirsSoundStep DEF Build
  <2> QED BY <1>6, <2>1, <2>4 DEF Build
<1>7. CASE MakeHeldout
  <2>1. DirsSound' /\ Gens' = Gens
    BY <1>7, SoundNew DEF MakeHeldout, DirsSound, Gens
  <2>2. heldout' # NoFile
    BY <1>7, SoundNew, InfraAssumption DEF MakeHeldout, Sound, InfraAssumption
  <2> QED BY <1>7, <2>1, <2>2, IdleCommand DEF MakeHeldout
<1>8. CASE Select \/ Verify
  <2>1. CASE Select
    BY <2>1, IdleCommand, InfraAssumption DEF Select, DirsSound, Gens, InfraAssumption
  <2>2. CASE Verify
    BY <2>2, IdleCommand, InfraAssumption DEF Verify, DirsSound, Gens, InfraAssumption
  <2> QED BY <1>8, <2>1, <2>2
<1>9. CASE RunSession
  <2> PICK valid \in BOOLEAN : SetDir([Dir EXCEPT !.rows = Append(@, Row(Len(@) + 1, valid))])
    BY <1>9 DEF RunSession
  <2> DEFINE d == [Dir EXCEPT !.rows = Append(@, Row(Len(@) + 1, valid))]
  <2>1. Sound(Dir)
    BY <1>9 DEF RunSession, Dir, DirsSound
  <2>2. Len(Dir.rows) + 1 \in Nat \ {0}
    BY <2>1 DEF Sound, Directories
  <2>3. Row(Len(Dir.rows) + 1, valid) \in Rows /\ Row(Len(Dir.rows) + 1, valid).asFrozen
    <3>1. Row(Len(Dir.rows) + 1, valid) \in Rows
      BY <2>2, RowType
    <3>2. Row(Len(Dir.rows) + 1, valid).asFrozen
      <4>1. Host \notin changed /\ Baseline \notin changed /\ Candidate(cmd.gen) \notin changed
        BY <1>9 DEF RunSession
      <4>2. \A v : {Host, IF v = "baseline" THEN Baseline ELSE Candidate(cmd.gen)}
                     \cap changed = {}
        BY <4>1
      <4> QED BY <4>2 DEF Row
    <3> QED BY <3>1, <3>2
  <2>4. Sound(d)
    BY <2>1, <2>3, SoundAppend
  <2>5. DirsSound' /\ Gens' = Gens
    BY <1>9, <2>4, DirsSoundStep, InfraAssumption DEF RunSession, SetDir, DirsSound, Gens
  <2>6. heldout # NoFile => heldout' # NoFile
    BY <1>9, <2>4, InfraAssumption DEF RunSession, SetDir, Sound, InfraAssumption
  <2> QED BY <1>9, <2>5, <2>6 DEF RunSession
<1>10. CASE WriteFeedback
  <2> DEFINE d == [Dir EXCEPT !.feedback = summarize(Dir.rows)]
  <2>1. Sound(Dir)
    BY <1>10 DEF WriteFeedback, Dir, DirsSound
  <2>2. Sound(d)
    BY <2>1, SoundKept
  <2>3. DirsSound' /\ Gens' = Gens
    BY <1>10, <2>2, DirsSoundStep DEF WriteFeedback, SetDir, DirsSound, Gens
  <2> QED BY <1>10, <2>3, IdleCommand DEF WriteFeedback
<1>11. CASE UNCHANGED vars
  BY <1>11 DEF vars, DirsSound, Gens
<1> QED BY <1>1, <1>2, <1>3, <1>4, <1>5, <1>6, <1>7, <1>8, <1>9, <1>10, <1>11 DEF Next

(* Whatever is rebuilt between two commands, every row of every directory  *)
(* was measured on the host, the baseline and the candidate on record.     *)
THEOREM MeasuresTheRecord == Spec => []MeasuredAsFrozen
<1>1. FrozenInv => MeasuredAsFrozen
  BY DEF FrozenInv, MeasuredAsFrozen, DirsSound, AllDirs, Sound
<1> QED BY <1>1, FrozenInit, FrozenInvStep, PTL DEF Spec

----------------------------------------------------------------------------
(* The order of the sessions.  The pair of a regime and a seed is two      *)
(* sessions in a row, and which of them a plugin gets is Place.            *)

Variants == {"baseline", "candidate"}

\* the sessions before a pair
Before(regime, seed) == 2 * (Seeds * regime + seed)

Place(regime, seed, variant) ==
  Before(regime, seed) + IF (variant = "candidate") = Reversed(regime, seed) THEN 1 ELSE 2

LEMMA QuotientUnique ==
  ASSUME NEW n \in Nat \ {0}, NEW q \in Nat, NEW r \in 0 .. n - 1, NEW a, a = n * q + r
  PROVE  a \in Nat /\ a \div n = q /\ a % n = r
<1>1. n * q \in Nat
  BY SMTT(20)
<1>2. a \in Nat
  BY <1>1
<1>3. a % n = r /\ a \div n = q
  BY <1>2, SMTT(20)
<1> QED BY <1>2, <1>3

LEMMA QuotientOf ==
  ASSUME NEW n \in Nat \ {0}, NEW a \in Nat
  PROVE  a = n * (a \div n) + (a % n) /\ a \div n \in Nat /\ a % n \in 0 .. n - 1
<1>1. CASE n >= 2
  <2>1. a = n * (a \div n) + (a % n) /\ a \div n \in Int /\ a % n \in 0 .. n - 1
    BY <1>1, DivMod
  <2>2. ASSUME NEW q \in Int, q < 0 PROVE n * q <= -n /\ n * q \in Int
    BY <2>2, SMTT(20)
  <2>3. ASSUME NEW q, q = a \div n PROVE q >= 0
    <3>1. q \in Int /\ a = n * q + (a % n) /\ a % n < n /\ a % n \in Int
      BY <2>1, <2>3
    <3> QED BY <1>1, <2>2, <3>1
  <2>4. a \div n >= 0
    BY <2>3
  <2> QED BY <2>1, <2>4
<1>2. CASE n = 1
  <2>1. a \div 1 = a
    OBVIOUS
  <2>2. a % 1 = 0
    OBVIOUS
  <2>3. 1 * a = a
    OBVIOUS
  <2>4. a \div n = a /\ a % n = 0 /\ n * a = a
    BY <1>2, <2>1, <2>2, <2>3, Zenon
  <2> QED BY <1>2, <2>4
<1> QED BY <1>1, <1>2

\* The two sessions of a pair.
LEMMA InPair ==
  ASSUME NEW regime \in 0 .. Regimes - 1, NEW seed \in 0 .. Seeds - 1, NEW k \in {1, 2},
         NEW p, p = Before(regime, seed) + k
  PROVE  /\ p \in 1 .. Sessions
         /\ RegimeOf(p) = regime /\ SeedOf(p) = seed
         /\ p % 2 = 1 <=> k = 1
         /\ VariantOf(p) = IF (k = 1) = Reversed(regime, seed) THEN "candidate" ELSE "baseline"
<1>1. Seeds \in Nat \ {0} /\ Regimes \in Nat \ {0} /\ regime \in Nat /\ seed \in Nat
  BY InfraAssumption DEF InfraAssumption
<1> DEFINE q == Seeds * regime + seed
<1>2. q \in Nat /\ q \div Seeds = regime /\ q % Seeds = seed
  BY <1>1, QuotientUnique
<1>3. q + 1 <= Seeds * Regimes /\ Seeds * Regimes \in Nat
  <2>1. Seeds * (regime + 1) <= Seeds * Regimes /\ Seeds * Regimes \in Nat
    BY <1>1, SMTT(20)
  <2>2. Seeds * (regime + 1) = Seeds * regime + Seeds /\ Seeds * regime \in Nat
    BY <1>1, SMTT(20)
  <2> QED BY <1>1, <2>1, <2>2
<1>4. Sessions = 2 * (Seeds * Regimes)
  BY <1>1, SMTT(20) DEF Sessions
<1>5. p = 2 * q + k
  BY DEF Before
<1> HIDE DEF q
<1>6. p \in 1 .. Sessions
  BY <1>2, <1>3, <1>4, <1>5
<1>7. (p - 1) \div 2 = q /\ (p % 2 = 1 <=> k = 1)
  BY <1>2, <1>5
<1>8. RegimeOf(p) = regime /\ SeedOf(p) = seed
  BY <1>2, <1>7 DEF RegimeOf, SeedOf
<1>9. VariantOf(p) = IF (k = 1) = Reversed(regime, seed) THEN "candidate" ELSE "baseline"
  BY <1>7, <1>8, Zenon DEF VariantOf
<1> QED BY <1>6, <1>7, <1>8, <1>9

\* Every session is of a pair.
LEMMA OfAPair ==
  ASSUME NEW p \in 1 .. Sessions
  PROVE  /\ RegimeOf(p) \in 0 .. Regimes - 1 /\ SeedOf(p) \in 0 .. Seeds - 1
         /\ \E k \in {1, 2} : p = Before(RegimeOf(p), SeedOf(p)) + k
<1>1. Seeds \in Nat \ {0} /\ Regimes \in Nat \ {0}
  BY InfraAssumption DEF InfraAssumption
<1>2. Sessions = 2 * (Seeds * Regimes) /\ Seeds * Regimes \in Nat
  BY <1>1, SMTT(20) DEF Sessions
<1>3. p \in Nat \ {0} /\ p <= 2 * (Seeds * Regimes)
  BY <1>2
<1> DEFINE q == (p - 1) \div 2
<1>4. q \in Nat /\ p \in {2 * q + 1, 2 * q + 2} /\ q < Seeds * Regimes
  BY <1>2, <1>3
<1> HIDE DEF q
<1> DEFINE r == q \div Seeds
           s == q % Seeds
<1>5. q = Seeds * r + s /\ r \in Nat /\ s \in 0 .. Seeds - 1
  BY <1>1, <1>4, QuotientOf
<1> HIDE DEF r, s
<1>6. r < Regimes
  <2> SUFFICES ASSUME r >= Regimes PROVE FALSE
    BY <1>1, <1>5
  <2>1. Seeds * r >= Seeds * Regimes
    BY <1>1, <1>5, SMTT(20)
  <2>2. Seeds * r \in Nat
    BY <1>1, <1>5, SMTT(20)
  <2> QED BY <1>2, <1>4, <1>5, <2>1, <2>2
<1>7. RegimeOf(p) = r /\ SeedOf(p) = s
  BY DEF RegimeOf, SeedOf, q, r, s
<1>8. \E k \in {1, 2} : p = Before(r, s) + k
  BY <1>4, <1>5 DEF Before
<1> QED BY <1>1, <1>5, <1>6, <1>7, <1>8

\* A regime's sessions with a plugin are the places of its seeds.
LEMMA PlacesOf ==
  ASSUME NEW regime \in 0 .. Regimes - 1, NEW variant \in Variants, NEW p
  PROVE  p \in 1 .. Sessions /\ RegimeOf(p) = regime /\ VariantOf(p) = variant
           <=> \E seed \in 0 .. Seeds - 1 : p = Place(regime, seed, variant)
<1>1. ASSUME NEW seed \in 0 .. Seeds - 1, p = Place(regime, seed, variant)
      PROVE  p \in 1 .. Sessions /\ RegimeOf(p) = regime /\ VariantOf(p) = variant
  <2> DEFINE k == IF (variant = "candidate") = Reversed(regime, seed) THEN 1 ELSE 2
  <2>1. k \in {1, 2} /\ p = Before(regime, seed) + k
    BY <1>1 DEF Place
  <2>2. /\ p \in 1 .. Sessions /\ RegimeOf(p) = regime
        /\ VariantOf(p) = IF (k = 1) = Reversed(regime, seed) THEN "candidate" ELSE "baseline"
    BY <2>1, InPair
  <2>3. Reversed(regime, seed) \in BOOLEAN
    BY DEF Reversed
  <2> QED BY <2>2, <2>3 DEF Variants
<1>2. ASSUME p \in 1 .. Sessions, RegimeOf(p) = regime, VariantOf(p) = variant
      PROVE  \E seed \in 0 .. Seeds - 1 : p = Place(regime, seed, variant)
  <2>1. PICK k \in {1, 2} : p = Before(regime, SeedOf(p)) + k
    BY <1>2, OfAPair
  <2>2. SeedOf(p) \in 0 .. Seeds - 1
    BY <1>2, OfAPair
  <2>3. VariantOf(p) = IF (k = 1) = Reversed(regime, SeedOf(p)) THEN "candidate" ELSE "baseline"
    BY <2>1, <2>2, InPair
  <2>4. Reversed(regime, SeedOf(p)) \in BOOLEAN
    BY DEF Reversed
  <2>5. p = Place(regime, SeedOf(p), variant)
    BY <1>2, <2>1, <2>3, <2>4 DEF Place, Variants
  <2> QED BY <2>2, <2>5
<1> QED BY <1>1, <1>2

LEMMA PlaceSeed ==
  ASSUME NEW regime \in 0 .. Regimes - 1, NEW variant, NEW seed \in 0 .. Seeds - 1
  PROVE  SeedOf(Place(regime, seed, variant)) = seed
<1> DEFINE k == IF (variant = "candidate") = Reversed(regime, seed) THEN 1 ELSE 2
<1>1. k \in {1, 2} /\ Place(regime, seed, variant) = Before(regime, seed) + k
  BY DEF Place
<1> QED BY <1>1, InPair

LEMMA BaselineLeads ==
  ASSUME NEW regime \in 0 .. Regimes - 1, NEW seed \in 0 .. Seeds - 1
  PROVE  Place(regime, seed, "baseline") % 2 = 1 <=> ~Reversed(regime, seed)
<1>1. Reversed(regime, seed) \in BOOLEAN
  BY DEF Reversed
<1> DEFINE k == IF Reversed(regime, seed) THEN 2 ELSE 1
<1>2. k \in {1, 2} /\ Place(regime, seed, "baseline") = Before(regime, seed) + k
  BY <1>1 DEF Place
<1>3. Place(regime, seed, "baseline") % 2 = 1 <=> k = 1
  BY <1>2, InPair
<1> QED BY <1>3

\* As many sessions of a regime with a plugin as seeds, and as many in the
\* lead as there are seeds of the right parity.
LEMMA ManyPlaces ==
  ASSUME NEW regime \in 0 .. Regimes - 1, NEW variant, NEW S \in SUBSET (0 .. Seeds - 1),
         NEW T, T = {Place(regime, seed, variant) : seed \in S}
  PROVE  Cardinality(T) = Cardinality(S)
<1> DEFINE f == [seed \in S |-> Place(regime, seed, variant)]
<1>1. IsFiniteSet(S)
  <2>1. IsFiniteSet(0 .. Seeds - 1)
    BY InfraAssumption, FS_Interval DEF InfraAssumption
  <2> QED BY <2>1, FS_Subset
<1>2. \A s, t \in S : f[s] = f[t] => s = t
  BY PlaceSeed
<1>3. f \in [S -> T] /\ \A t \in T : \E s \in S : f[s] = t
  OBVIOUS
<1> HIDE DEF f
<1>4. f \in Bijection(S, T)
  BY <1>2, <1>3 DEF Bijection, Injection, Surjection, IsInjective
<1>5. ExistsBijection(S, T)
  BY <1>4 DEF ExistsBijection
<1>6. Cardinality(T) = Cardinality(S)
  BY <1>1, <1>5, FS_Bijection
<1> QED BY <1>6

\* Half of the numbers below n are even, half odd.
LEMMA Parities ==
  ASSUME NEW n \in Nat, NEW odd \in {0, 1}
  PROVE  Cardinality({s \in 0 .. n - 1 : s % 2 = odd}) = (n + 1 - odd) \div 2
<1> DEFINE T == {s \in 0 .. n - 1 : s % 2 = odd}
           k == (n + 1 - odd) \div 2
           f == [i \in 0 .. k - 1 |-> 2 * i + odd]
<1>1. k \in Nat /\ 2 * k <= n + 1 - odd /\ n + 1 - odd <= 2 * k + 1
  OBVIOUS
<1> HIDE DEF k
<1>2. \A i \in 0 .. k - 1 : 2 * i + odd \in T
  BY <1>1
<1>3. \A t \in T : \E i \in 0 .. k - 1 : t = 2 * i + odd
  <2> SUFFICES ASSUME NEW t \in T PROVE \E i \in 0 .. k - 1 : t = 2 * i + odd
    OBVIOUS
  <2>1. t \div 2 \in 0 .. k - 1 /\ t = 2 * (t \div 2) + odd
    BY <1>1
  <2> QED BY <2>1
<1>4. f \in [0 .. k - 1 -> T]
  BY <1>2
<1>5. \A i, j \in 0 .. k - 1 : f[i] = f[j] => i = j
  BY <1>1
<1>6. \A t \in T : \E i \in 0 .. k - 1 : f[i] = t
  BY <1>3
<1> HIDE DEF f, T
<1>7. ExistsBijection(0 .. k - 1, T)
  BY <1>4, <1>5, <1>6 DEF ExistsBijection, Bijection, Injection, Surjection, IsInjective
<1>8. IsFiniteSet(0 .. k - 1) /\ Cardinality(0 .. k - 1) = k
  <2>1. 0 \in Int /\ k - 1 \in Int
    BY <1>1
  <2>2. IsFiniteSet(0 .. k - 1) /\ Cardinality(0 .. k - 1) = IF 0 > k - 1 THEN 0 ELSE k - 1 - 0 + 1
    BY <2>1, FS_Interval
  <2> QED BY <1>1, <2>2
<1>9. Cardinality(T) = k
  BY <1>7, <1>8, FS_Bijection
<1> QED BY <1>9 DEF T, k

----------------------------------------------------------------------------
(* A directory's rows are the first sessions of that order, and what is    *)
(* summarised are all of them.                                             *)

Planned(d) ==
  /\ d.rows \in Seq(Rows) /\ Len(d.rows) <= Sessions
  /\ \A p \in DOMAIN d.rows :
       /\ d.rows[p].regime = RegimeOf(p) /\ d.rows[p].seed = SeedOf(p)
       /\ d.rows[p].variant = VariantOf(p)
  /\ d.feedback # NoFile => Len(d.rows) = Sessions /\ d.feedback = summarize(d.rows)

DirsPlanned ==
  /\ \A g \in Gens : Planned(dirs[g])
  /\ heldout # NoFile => Planned(heldout)

\* how often the baseline goes first in a regime
LeadsIn(d, regime) == Cardinality({p \in Of(d.rows, regime, "baseline") : p % 2 = 1})

LEMMA SummarisedIsBalanced ==
  ASSUME NEW d, Planned(d), d.feedback # NoFile, NEW r \in 0 .. Regimes - 1
  PROVE  /\ \A v \in Variants : /\ d.feedback[r][v].sessions = Seeds
                                /\ {d.rows[p].seed : p \in Of(d.rows, r, v)} = 0 .. Seeds - 1
         /\ LeadsIn(d, r) = (Seeds + 1 - (r % 2)) \div 2
<1>1. /\ DOMAIN d.rows = 1 .. Sessions /\ d.feedback = summarize(d.rows)
      /\ \A p \in 1 .. Sessions : /\ d.rows[p].regime = RegimeOf(p)
                                  /\ d.rows[p].seed = SeedOf(p)
                                  /\ d.rows[p].variant = VariantOf(p)
  BY DEF Planned
<1>2. \A v \in Variants : Of(d.rows, r, v) = {Place(r, s, v) : s \in 0 .. Seeds - 1}
  <2> SUFFICES ASSUME NEW v \in Variants, NEW p
               PROVE  p \in Of(d.rows, r, v) <=> \E s \in 0 .. Seeds - 1 : p = Place(r, s, v)
    OBVIOUS
  <2>1. p \in Of(d.rows, r, v) <=> p \in 1 .. Sessions /\ RegimeOf(p) = r /\ VariantOf(p) = v
    BY <1>1 DEF Of
  <2> QED BY <2>1, PlacesOf
<1>3. Seeds \in Nat \ {0} /\ r \in Nat
  BY InfraAssumption DEF InfraAssumption
<1>4. IsFiniteSet(0 .. Seeds - 1) /\ Cardinality(0 .. Seeds - 1) = Seeds
  <2>1. 0 \in Int /\ Seeds - 1 \in Int
    BY <1>3
  <2> QED BY <1>3, <2>1, FS_Interval
<1>5. ASSUME NEW v \in Variants
      PROVE  d.feedback[r][v].sessions = Seeds
  <2> DEFINE S == 0 .. Seeds - 1
             T == Of(d.rows, r, v)
  <2>1. S \in SUBSET (0 .. Seeds - 1) /\ T = {Place(r, seed, v) : seed \in S}
    BY <1>2
  <2> HIDE DEF S, T
  <2>2. Cardinality(T) = Cardinality(S)
    BY <2>1, ManyPlaces
  <2> QED BY <1>1, <1>4, <2>2 DEF summarize, Variants, S, T
<1>6. ASSUME NEW v \in Variants
      PROVE  {d.rows[p].seed : p \in Of(d.rows, r, v)} = 0 .. Seeds - 1
  <2>1. \A s \in 0 .. Seeds - 1 :
          Place(r, s, v) \in 1 .. Sessions /\ SeedOf(Place(r, s, v)) = s
    BY PlaceSeed, PlacesOf
  <2>2. \A s \in 0 .. Seeds - 1 : d.rows[Place(r, s, v)].seed = s
    BY <1>1, <2>1
  <2> QED BY <1>2, <2>2
<1>7. {p \in Of(d.rows, r, "baseline") : p % 2 = 1}
        = {Place(r, s, "baseline") : s \in {s \in 0 .. Seeds - 1 : s % 2 = r % 2}}
  <2>1. \A s \in 0 .. Seeds - 1 : ~Reversed(r, s) <=> s % 2 = r % 2
    <3> SUFFICES ASSUME NEW s \in 0 .. Seeds - 1 PROVE (r + s) % 2 # 1 <=> s % 2 = r % 2
      BY DEF Reversed
    <3> QED BY <1>3
  <2>2. \A s \in 0 .. Seeds - 1 : Place(r, s, "baseline") % 2 = 1 <=> s % 2 = r % 2
    BY <2>1, BaselineLeads
  <2>3. Of(d.rows, r, "baseline") = {Place(r, s, "baseline") : s \in 0 .. Seeds - 1}
    BY <1>2 DEF Variants
  <2> HIDE DEF Of
  <2> QED BY <2>2, <2>3
<1>8. LeadsIn(d, r) = (Seeds + 1 - (r % 2)) \div 2
  <2>1. r % 2 \in {0, 1}
    BY <1>3
  <2>2. Seeds \in Nat
    BY <1>3
  <2>3. Cardinality({s \in 0 .. Seeds - 1 : s % 2 = r % 2}) = (Seeds + 1 - (r % 2)) \div 2
    BY <2>1, <2>2, Parities, Zenon
  <2> DEFINE S == {s \in 0 .. Seeds - 1 : s % 2 = r % 2}
             T == {p \in Of(d.rows, r, "baseline") : p % 2 = 1}
  <2>4. S \in SUBSET (0 .. Seeds - 1) /\ T = {Place(r, seed, "baseline") : seed \in S}
    BY <1>7
  <2> HIDE DEF S, T
  <2>5. Cardinality(T) = Cardinality(S)
    BY <2>4, ManyPlaces
  <2> QED BY <2>3, <2>5 DEF LeadsIn, S, T
<1> QED BY <1>5, <1>6, <1>8

LEMMA PlannedBalances == DirsPlanned => Counterbalanced
<1> SUFFICES ASSUME DirsPlanned, NEW d \in AllDirs, d.feedback # NoFile
             PROVE  /\ \A r \in 0 .. Regimes - 1, v \in {"baseline", "candidate"} :
                         /\ d.feedback[r][v].sessions = Seeds
                         /\ {d.rows[p].seed : p \in Of(d.rows, r, v)} = 0 .. Seeds - 1
                    /\ \E leads \in {[r \in 0 .. Regimes - 1 |-> LeadsIn(d, r)]} :
                         /\ \A r \in 0 .. Regimes - 1 : 2 * leads[r] \in Seeds - 1 .. Seeds + 1
                         /\ Regimes = 2 => leads[0] + leads[1] = Seeds
  BY DEF Counterbalanced, LeadsIn
<1>1. Planned(d)
  BY DEF DirsPlanned, AllDirs
<1>2. Seeds \in Nat \ {0} /\ Regimes \in Nat \ {0}
  BY InfraAssumption DEF InfraAssumption
<1> DEFINE leads == [r \in 0 .. Regimes - 1 |-> LeadsIn(d, r)]
<1>3. \A r \in 0 .. Regimes - 1 : leads[r] = (Seeds + 1 - (r % 2)) \div 2
  BY <1>1, SummarisedIsBalanced
<1>4. \A r \in 0 .. Regimes - 1 : 2 * leads[r] \in Seeds - 1 .. Seeds + 1
  <2> SUFFICES ASSUME NEW r \in 0 .. Regimes - 1 PROVE 2 * leads[r] \in Seeds - 1 .. Seeds + 1
    OBVIOUS
  <2>1. r % 2 \in {0, 1}
    BY <1>2
  <2>2. \A o \in {0, 1} : 2 * ((Seeds + 1 - o) \div 2) \in Seeds - 1 .. Seeds + 1
    BY <1>2
  <2> QED BY <1>3, <2>1, <2>2
<1>5. Regimes = 2 => leads[0] + leads[1] = Seeds
  <2> SUFFICES ASSUME Regimes = 2 PROVE leads[0] + leads[1] = Seeds
    OBVIOUS
  <2>1. leads[0] = (Seeds + 1) \div 2 /\ leads[1] = Seeds \div 2
    BY <1>2, <1>3
  <2>2. (Seeds + 1) \div 2 + Seeds \div 2 = Seeds
    BY <1>2
  <2> QED BY <2>1, <2>2
<1>6. \A r \in 0 .. Regimes - 1, v \in {"baseline", "candidate"} :
        /\ d.feedback[r][v].sessions = Seeds
        /\ {d.rows[p].seed : p \in Of(d.rows, r, v)} = 0 .. Seeds - 1
  BY <1>1, SummarisedIsBalanced DEF Variants
<1> QED BY <1>4, <1>5, <1>6

LEMMA PlannedNew == Planned(NewDir)
<1>1. Seeds \in Nat \ {0} /\ Regimes \in Nat \ {0}
  BY InfraAssumption DEF InfraAssumption
<1>2. Sessions \in Nat
  BY <1>1, SMTT(20) DEF Sessions
<1> QED BY <1>2 DEF Planned, NewDir

\* The next session of a directory that is not complete.
LEMMA PlannedAppend ==
  ASSUME TypeInv, NEW d, Planned(d), d \in Directories, Len(d.rows) < Sessions, NEW valid \in BOOLEAN,
         NEW e, e = [d EXCEPT !.rows = Append(@, Row(Len(@) + 1, valid))]
  PROVE  Planned(e)
<1>1. Seeds \in Nat \ {0} /\ Regimes \in Nat \ {0}
  BY InfraAssumption DEF InfraAssumption
<1>2. Sessions \in Nat
  BY <1>1, SMTT(20) DEF Sessions
<1> DEFINE p == Len(d.rows) + 1
           row == Row(p, valid)
<1>3. d.rows \in Seq(Rows) /\ Len(d.rows) \in Nat /\ p \in Nat \ {0}
  BY DEF Planned
<1>4. row \in Rows
  BY <1>3, RowType
<1>5. row.regime = RegimeOf(p) /\ row.seed = SeedOf(p) /\ row.variant = VariantOf(p)
  BY DEF Row
<1>6. e.rows = Append(d.rows, row) /\ e.feedback = d.feedback
  BY DEF Directories
<1> HIDE DEF row
<1>7. /\ e.rows \in Seq(Rows) /\ Len(e.rows) = p /\ DOMAIN e.rows = 1 .. p
      /\ e.rows[p] = row /\ \A i \in 1 .. Len(d.rows) : e.rows[i] = d.rows[i]
  BY <1>3, <1>4, <1>6
<1>8. \A i \in 1 .. p : i # p => i \in DOMAIN d.rows /\ i \in 1 .. Len(d.rows)
  BY <1>3
<1>9. d.feedback = NoFile
  BY <1>2, <1>3 DEF Planned
<1>10. p <= Sessions
  BY <1>2, <1>3
<1> HIDE DEF p
<1>11. \A i \in DOMAIN e.rows :
         /\ e.rows[i].regime = RegimeOf(i) /\ e.rows[i].seed = SeedOf(i)
         /\ e.rows[i].variant = VariantOf(i)
  BY <1>5, <1>7, <1>8 DEF Planned
<1> QED BY <1>6, <1>7, <1>9, <1>10, <1>11 DEF Planned

\* The build of a directory and its summary when it is complete.
LEMMA PlannedKept ==
  ASSUME NEW d, Planned(d), d \in Directories
  PROVE  /\ Planned([d EXCEPT !.built = TRUE])
         /\ Len(d.rows) = Sessions => Planned([d EXCEPT !.feedback = summarize(d.rows)])
  BY DEF Planned, Directories

LEMMA PlannedStep == FrozenInv /\ DirsPlanned /\ [Next]_vars => DirsPlanned'
<1> SUFFICES ASSUME FrozenInv, DirsPlanned, [Next]_vars PROVE DirsPlanned'
  OBVIOUS
<1> USE DEF FrozenInv, AtWork, At, Goto
<1>1. CASE MakeGeneration
  <2>1. cmd.gen \in DOMAIN dirs
    BY <1>1 DEF MakeGeneration, DirsSound
  <2> QED BY <1>1, <2>1, PlannedNew DEF MakeGeneration, DirsPlanned, Gens
<1>2. CASE Build
  <2>1. cmd.gen \in Gens /\ cmd.gen \in DOMAIN dirs
    BY <1>2 DEF Build, DirsSound, StepsOfFinalize, Gens
  <2>2. Planned([dirs[cmd.gen] EXCEPT !.built = TRUE])
    BY <2>1, PlannedKept DEF DirsPlanned, DirsSound, Sound
  <2>3. dirs' = [dirs EXCEPT ![cmd.gen] = [dirs[cmd.gen] EXCEPT !.built = TRUE]]
    BY <1>2 DEF Build
  <2> QED BY <1>2, <2>1, <2>2, <2>3 DEF Build, DirsPlanned, Gens
<1>3. CASE MakeHeldout
  BY <1>3, PlannedNew DEF MakeHeldout, DirsPlanned, Gens
<1>4. ASSUME NEW d, Planned(d), SetDir(d), At("run")
      PROVE  DirsPlanned'
  <2>1. ~cmd.final => cmd.gen \in Gens /\ cmd.gen \in DOMAIN dirs
    BY <1>4 DEF DirsSound, Gens
  <2>2. CASE cmd.final
    BY <1>4, <2>2 DEF SetDir, DirsPlanned, Gens
  <2>3. CASE ~cmd.final
    <3>1. dirs' = [dirs EXCEPT ![cmd.gen] = d] /\ heldout' = heldout
      BY <1>4, <2>3 DEF SetDir
    <3>2. \A g \in Gens' : dirs'[g] = d \/ (g \in Gens /\ dirs'[g] = dirs[g])
      BY <2>1, <2>3, <3>1 DEF Gens
    <3>3. \A g \in Gens' : Planned(dirs'[g])
      BY <1>4, <3>2 DEF DirsPlanned
    <3> QED BY <3>1, <3>3 DEF DirsPlanned
  <2> QED BY <2>2, <2>3
<1>5. ASSUME At("run")
      PROVE  Planned(Dir) /\ Dir \in Directories
  BY <1>5 DEF Dir, DirsPlanned, DirsSound, Sound
<1>6. CASE RunSession
  <2>1. PICK valid \in BOOLEAN : SetDir([Dir EXCEPT !.rows = Append(@, Row(Len(@) + 1, valid))])
    BY <1>6 DEF RunSession
  <2>2. At("run") /\ Len(Dir.rows) < Sessions
    BY <1>6 DEF RunSession
  <2>3. Planned([Dir EXCEPT !.rows = Append(@, Row(Len(@) + 1, valid))])
    BY <1>5, <2>2, PlannedAppend
  <2> QED BY <1>4, <2>1, <2>2, <2>3
<1>7. CASE WriteFeedback
  <2>1. /\ At("run") /\ Len(Dir.rows) = Sessions
        /\ SetDir([Dir EXCEPT !.feedback = summarize(Dir.rows)])
    BY <1>7 DEF WriteFeedback
  <2>2. Planned([Dir EXCEPT !.feedback = summarize(Dir.rows)])
    BY <1>5, <2>1, PlannedKept
  <2> QED BY <1>4, <2>1, <2>2
<1>8. CASE \/ MakeDirectory \/ WriteConfig \/ BuildBaseline \/ StartEvaluate
           \/ (\E g \in 0 .. MaxGens - 1 : StartFinalize(g))
           \/ Select \/ Verify \/ Publish \/ WriteBrief \/ Stop
           \/ (\E a \in {Host, Baseline} \cup {Candidate(g) : g \in Gens} : Change(a))
  <2>1. dirs' = dirs /\ heldout' = heldout
    BY <1>8 DEF MakeDirectory, WriteConfig, BuildBaseline, StartEvaluate, StartFinalize,
                Select, Verify, Publish, WriteBrief, Stop, Change
  <2> QED BY <2>1 DEF DirsPlanned, Gens
<1>9. CASE UNCHANGED vars
  BY <1>9 DEF vars, DirsPlanned, Gens
<1> QED BY <1>1, <1>2, <1>3, <1>6, <1>7, <1>8, <1>9 DEF Next

(* For every number of seeds and regimes, whatever stops and whatever is   *)
(* invalid: what summarize counts is every regime and seed once with each  *)
(* plugin, and the plugins lead equally often up to one pair in a regime,  *)
(* exactly over two (run.py: variants.reverse() by regime plus seed).      *)
THEOREM DriftFavoursNobody == Spec => []Counterbalanced
<1>1. Init => DirsPlanned
  BY DEF Init, DirsPlanned, Gens
<1>2. Spec => []FrozenInv
  BY FrozenInit, FrozenInvStep, PTL DEF Spec
<1> QED BY <1>1, <1>2, PlannedStep, PlannedBalances, PTL DEF Spec


----------------------------------------------------------------------------
(* MatrixRunner: the inductive invariant.                                  *)

Drivers == {strategy_threads, systems, architecture, latency_rerun}

Everywhere == ToSet(Cells) \cup {Sentinel}

RunnerRows ==
  [round : Nat, cell : Everywhere, outcome : {"valid", "zero", "invalid", "noReport", "rejected"}]

\* the sessions of a cell in a round
Runs(s, r, c) == {i \in DOMAIN s : s[i].round = r /\ s[i].cell = c}

One(S) == \E i : S = {i}

\* with the one that is appended
WithNext(s, r, c) == Runs(s, r, c) \cup {Len(s) + 1}

\* the order of a round: every cell once, and the sentinel at both ends
IsOrder(o) ==
  /\ o \in Seq(Everywhere) /\ o # <<>>
  /\ \A c \in ToSet(Cells) : \E i \in DOMAIN o : o[i] = c
  /\ \A i, j \in DOMAIN o : o[i] = o[j] /\ o[i] # Sentinel => i = j
  /\ driver.sentinel => o[1] = Sentinel /\ o[Len(o)] = Sentinel

RunnerTypes ==
  /\ driver \in Drivers /\ round \in 0 .. Rounds /\ pos \in Nat \ {0}
  /\ rows \in Seq(RunnerRows)
  /\ pc \in {"round", "session", "done", "failed"}
  /\ pc = "session" => IsOrder(order) /\ pos <= Len(order)
  /\ pc \in {"session", "failed"} => round < Rounds
  /\ pc = "done" => round = Rounds

\* in the rounds that are over a cell has been measured once, in the current
\* one when its turn has come
Measured(c) ==
  /\ \A r \in 0 .. round - 1 : One(Runs(rows, r, c))
  /\ \A r \in Nat : r > round => Runs(rows, r, c) = {}
  /\ pc \in {"round", "done"} => Runs(rows, round, c) = {}
  /\ pc = "session" => IF \E k \in 1 .. pos - 1 : order[k] = c THEN One(Runs(rows, round, c))
                                                              ELSE Runs(rows, round, c) = {}
  /\ pc = "failed" => One(Runs(rows, round, c)) \/ Runs(rows, round, c) = {}

\* a round that is over ended with a row of the sentinel, and the first row is one
Framed ==
  driver.sentinel =>
    /\ rows # <<>> => rows[1].cell = Sentinel
    /\ pc = "session" /\ rows = <<>> => pos = 1
    /\ pc \in {"round", "done"} /\ round > 0 => rows # <<>> /\ rows[Len(rows)].cell = Sentinel

\* raw.jsonl and the summary
Written ==
  /\ raw = IF driver.flushed THEN rows ELSE <<>>
  /\ summary = IF pc = "done" /\ driver.summary THEN rows ELSE None

RunnerInv ==
  /\ RunnerTypes
  /\ \A c \in ToSet(Cells) : Measured(c)
  /\ Framed
  /\ Written

LEMMA DriverFacts ==
  ASSUME NEW d \in Drivers
  PROVE  d.tolerant => d.flushed
<1>1. d = strategy_threads => d.flushed
  BY DEF strategy_threads
<1>2. d = systems => d.flushed
  BY DEF systems
<1>3. d = architecture => d.flushed
  BY DEF architecture
<1>4. d = latency_rerun => ~d.tolerant
  BY DEF latency_rerun
<1> QED BY <1>1, <1>2, <1>3, <1>4 DEF Drivers

LEMMA CellsListed ==
  /\ Cells \in Seq(ToSet(Cells)) /\ Cells # <<>>
  /\ \A c \in ToSet(Cells) : \E i \in DOMAIN Cells : Cells[i] = c
  /\ \A i, j \in DOMAIN Cells : Cells[i] = Cells[j] => i = j
  /\ \A i \in DOMAIN Cells : Cells[i] \in ToSet(Cells)
  /\ Rounds \in Nat \ {0} /\ Sentinel \notin ToSet(Cells)
  BY RunnerAssumption DEF ToSet, IsInjective

LEMMA RowsTyped ==
  ASSUME NEW s \in Seq(RunnerRows), NEW i \in DOMAIN s
  PROVE  s[i].round \in Nat
<1>1. s[i] \in RunnerRows
  OBVIOUS
<1> QED BY <1>1 DEF RunnerRows

LEMMA RunsAppended ==
  ASSUME NEW s \in Seq(RunnerRows), NEW row \in RunnerRows, NEW r, NEW c
  PROVE  /\ row.round = r /\ row.cell = c => Runs(Append(s, row), r, c) = WithNext(s, r, c)
         /\ ~(row.round = r /\ row.cell = c) => Runs(Append(s, row), r, c) = Runs(s, r, c)
<1>1. Len(s) \in Nat /\ DOMAIN s = 1 .. Len(s) /\ DOMAIN Append(s, row) = 1 .. (Len(s) + 1)
  BY AppendProperties
<1>2. \A i \in 1 .. Len(s) : Append(s, row)[i] = s[i]
  BY <1>1, AppendProperties
<1>3. Append(s, row)[Len(s) + 1] = row
  BY <1>1, AppendProperties
<1> QED BY <1>1, <1>2, <1>3 DEF Runs, WithNext

----------------------------------------------------------------------------
(* The order of a round.                                                   *)

\* A finite set is as large as the sequence that lists it once.
LEMMA CellsCounted == IsFiniteSet(ToSet(Cells)) /\ Cardinality(ToSet(Cells)) = Len(Cells)
<1>1. /\ Len(Cells) \in Nat /\ DOMAIN Cells = 1 .. Len(Cells)
      /\ Cells \in [1 .. Len(Cells) -> ToSet(Cells)]
  BY CellsListed
<1>2. ExistsBijection(1 .. Len(Cells), ToSet(Cells))
  <2>1. Cells \in Bijection(1 .. Len(Cells), ToSet(Cells))
    BY <1>1, CellsListed DEF Bijection, Injection, Surjection, IsInjective
  <2> QED BY <2>1 DEF ExistsBijection
<1>3. IsFiniteSet(1 .. Len(Cells)) /\ Cardinality(1 .. Len(Cells)) = Len(Cells)
  <2>1. 1 \in Int /\ Len(Cells) \in Int
    BY <1>1
  <2>2. IsFiniteSet(1 .. Len(Cells))
        /\ Cardinality(1 .. Len(Cells)) = IF 1 > Len(Cells) THEN 0 ELSE Len(Cells) - 1 + 1
    BY <2>1, FS_Interval
  <2> QED BY <1>1, <2>2
<1> QED BY <1>2, <1>3, FS_Bijection

\* A shuffled list has every cell at one place.
LEMMA ShuffleIsOrder ==
  ASSUME NEW o \in SetToSeqs(ToSet(Cells))
  PROVE  /\ o \in Seq(ToSet(Cells)) /\ o # <<>> /\ Len(o) = Len(Cells)
         /\ \A i, j \in DOMAIN o : o[i] = o[j] => i = j
         /\ \A c \in ToSet(Cells) : \E i \in DOMAIN o : o[i] = c
<1> DEFINE n == Len(Cells)
           D == 1 .. n
<1>1. n \in Nat /\ n >= 1
  BY CellsListed
<1>2. o \in [D -> ToSet(Cells)] /\ \A i, j \in D : i # j => o[i] # o[j]
  BY CellsCounted DEF SetToSeqs
<1>3. IsFiniteSet(D) /\ Cardinality(D) = n
  <2>1. IsFiniteSet(1 .. n) /\ Cardinality(1 .. n) = IF 1 > n THEN 0 ELSE n - 1 + 1
    <3>1. 1 \in Int /\ n \in Int
      BY <1>1
    <3> QED BY <3>1, FS_Interval
  <2> QED BY <1>1, <2>1
<1>4. o \in Injection(D, ToSet(Cells))
  BY <1>2 DEF Injection, IsInjective
<1>5. o \in Surjection(D, ToSet(Cells))
  BY <1>3, <1>4, CellsCounted, FS_Injection
<1>6. o \in Seq(ToSet(Cells)) /\ Len(o) = n /\ DOMAIN o = D
  BY <1>1, <1>2
<1>7. o # <<>>
  BY <1>1, <1>6
<1> QED BY <1>2, <1>5, <1>6, <1>7 DEF Surjection

\* So has the order of a round.
LEMMA RoundIsOrder ==
  ASSUME RunnerTypes, NEW o \in Orders
  PROVE  IsOrder(IF driver.sentinel THEN <<Sentinel>> \o o \o <<Sentinel>> ELSE o)
<1>1. /\ o \in Seq(ToSet(Cells)) /\ o # <<>>
      /\ \A i, j \in DOMAIN o : o[i] = o[j] => i = j
      /\ \A c \in ToSet(Cells) : \E i \in DOMAIN o : o[i] = c
  <2>1. CASE driver.shuffled
    BY <2>1, ShuffleIsOrder DEF Orders
  <2>2. CASE ~driver.shuffled
    BY <2>2, CellsListed DEF Orders
  <2> QED BY <2>1, <2>2
<1> DEFINE n == Len(o)
           w == <<Sentinel>> \o o \o <<Sentinel>>
<1>2. n \in Nat /\ n >= 1 /\ DOMAIN o = 1 .. n /\ \A i \in 1 .. n : o[i] \in ToSet(Cells)
  BY <1>1
<1>3. \A i \in 1 .. n : o[i] # Sentinel
  BY <1>2, CellsListed
<1>4. CASE ~driver.sentinel
  <2>1. o \in Seq(Everywhere)
    BY <1>1 DEF Everywhere
  <2> QED BY <1>1, <1>4, <2>1 DEF IsOrder
<1>5. CASE driver.sentinel
  <2>1. o \in Seq(Everywhere) /\ <<Sentinel>> \in Seq(Everywhere)
    BY <1>1 DEF Everywhere
  <2>2. /\ w \in Seq(Everywhere) /\ Len(w) = n + 2
        /\ \A i \in 1 .. n + 2 : w[i] = IF i = 1 \/ i = n + 2 THEN Sentinel ELSE o[i - 1]
    BY <1>2, <2>1
  <2>3. DOMAIN w = 1 .. n + 2
    BY <2>2
  <2>4. \A c \in ToSet(Cells) : \E i \in DOMAIN w : w[i] = c
    <3> SUFFICES ASSUME NEW c \in ToSet(Cells) PROVE \E i \in DOMAIN w : w[i] = c
      OBVIOUS
    <3>1. PICK i \in 1 .. n : o[i] = c
      BY <1>1, <1>2
    <3>2. i + 1 \in 1 .. n + 2 /\ i + 1 # 1 /\ i + 1 # n + 2 /\ i + 1 - 1 = i
      BY <1>2
    <3>3. w[i + 1] = c
      BY <2>2, <3>1, <3>2
    <3> QED BY <2>3, <3>2, <3>3
  <2>5. \A i, j \in DOMAIN w : w[i] = w[j] /\ w[i] # Sentinel => i = j
    <3> SUFFICES ASSUME NEW i \in 1 .. n + 2, NEW j \in 1 .. n + 2, w[i] = w[j], w[i] # Sentinel
                 PROVE  i = j
      BY <2>3
    <3> HIDE DEF w
    <3>1. i - 1 \in 1 .. n /\ j - 1 \in 1 .. n /\ w[i] = o[i - 1] /\ w[j] = o[j - 1]
      BY <1>2, <2>2
    <3>2. i - 1 = j - 1
      BY <1>1, <1>2, <3>1
    <3> QED BY <1>2, <3>2
  <2>6. w[1] = Sentinel /\ w[Len(w)] = Sentinel /\ w # <<>>
    BY <1>2, <2>2
  <2> HIDE DEF w
  <2>7. IsOrder(w)
    BY <2>2, <2>4, <2>5, <2>6 DEF IsOrder
  <2> QED BY <1>5, <2>7 DEF w
<1> QED BY <1>4, <1>5

----------------------------------------------------------------------------
(* The steps.                                                              *)

LEMMA RunnerStart == RunnerInit => RunnerInv
<1> SUFFICES ASSUME RunnerInit PROVE RunnerInv
  OBVIOUS
<1>1. rows = <<>> /\ raw = <<>> /\ round = 0 /\ pc = "round" /\ summary = None /\ pos = 1
  BY DEF RunnerInit
<1>2. RunnerTypes
  <2>1. driver \in Drivers
    BY DEF RunnerInit, Drivers
  <2>2. rows \in Seq(RunnerRows)
    BY <1>1
  <2> QED BY <1>1, <2>1, <2>2, CellsListed DEF RunnerTypes
<1>3. ASSUME NEW c \in ToSet(Cells) PROVE Measured(c)
  <2>1. \A r : Runs(rows, r, c) = {}
    <3>1. DOMAIN rows = {}
      BY <1>1
    <3> QED BY <3>1 DEF Runs
  <2> QED BY <1>1, <2>1 DEF Measured
<1>4. Framed
  BY <1>1 DEF Framed
<1>5. Written
  BY <1>1 DEF Written
<1> QED BY <1>2, <1>3, <1>4, <1>5 DEF RunnerInv

LEMMA StartRoundStep == RunnerInv /\ StartRound => RunnerInv'
<1> SUFFICES ASSUME RunnerInv, StartRound PROVE RunnerInv'
  OBVIOUS
<1>1. /\ pc = "round" /\ pc' = "session" /\ pos' = 1 /\ round < Rounds
      /\ driver' = driver /\ round' = round /\ rows' = rows /\ raw' = raw /\ summary' = summary
  BY DEF StartRound
<1>2. RunnerTypes'
  <2>1. PICK o \in Orders : order' = IF driver.sentinel THEN <<Sentinel>> \o o \o <<Sentinel>> ELSE o
    BY DEF StartRound
  <2>2. IsOrder(order')
    BY <2>1, RoundIsOrder DEF RunnerInv
  <2>3. IsOrder(order)'
    BY <1>1, <2>2 DEF IsOrder
  <2>4. order' \in Seq(Everywhere) /\ order' # <<>>
    BY <2>2 DEF IsOrder
  <2>5. 1 <= Len(order')
    BY <2>4
  <2> QED BY <1>1, <2>3, <2>5 DEF RunnerInv, RunnerTypes
<1>3. ASSUME NEW c \in ToSet(Cells) PROVE Measured(c)'
  <2>1. Measured(c)
    BY <1>3 DEF RunnerInv
  <2>2. ~\E k \in 1 .. pos' - 1 : order'[k] = c
    BY <1>1
  <2> QED BY <1>1, <2>1, <2>2 DEF Measured
<1>4. Framed'
  BY <1>1 DEF RunnerInv, Framed
<1>5. Written'
  BY <1>1 DEF RunnerInv, Written
<1>6. (\A c \in ToSet(Cells) : Measured(c))'
  BY <1>3
<1> QED BY <1>2, <1>4, <1>5, <1>6 DEF RunnerInv

LEMMA RowOfType ==
  ASSUME RunnerTypes, pc = "session", NEW outcome \in {"valid", "zero", "invalid", "noReport", "rejected"}
  PROVE  /\ RowOf(outcome) \in RunnerRows
         /\ RowOf(outcome).round = round /\ RowOf(outcome).cell = order[pos]
<1>1. pos \in 1 .. Len(order) /\ order \in Seq(Everywhere) /\ round \in Nat
  BY CellsListed DEF RunnerTypes, IsOrder
<1>2. order[pos] \in Everywhere
  BY <1>1
<1> QED BY <1>1, <1>2 DEF RowOf, RunnerRows

LEMMA SingleRun ==
  ASSUME RunnerTypes, NEW r, NEW c, Runs(rows, r, c) = {}
  PROVE  One(WithNext(rows, r, c))
BY DEF One, WithNext

LEMMA RecordStep ==
  ASSUME RunnerInv, pc = "session", UNCHANGED <<driver, order, summary>>,
         NEW outcome \in {"valid", "zero", "invalid", "noReport"}, Record(outcome)
  PROVE  RunnerInv'
<1> DEFINE row == RowOf(outcome)
<1>1. /\ RunnerTypes /\ Framed /\ Written
      /\ driver \in Drivers /\ round \in Nat /\ round < Rounds /\ Rounds \in Nat
      /\ IsOrder(order) /\ pos \in 1 .. Len(order) /\ Len(order) \in Nat
      /\ rows \in Seq(RunnerRows) /\ Len(rows) \in Nat
  BY CellsListed DEF RunnerInv, RunnerTypes, IsOrder
<1>2. row \in RunnerRows /\ row.round = round /\ row.cell = order[pos]
  BY <1>1, RowOfType
<1> HIDE DEF row
<1>3. /\ rows' = Append(rows, row) /\ pos' = pos + 1
      /\ raw' = IF driver.flushed THEN Append(raw, row) ELSE raw
      /\ driver' = driver /\ order' = order /\ summary' = summary
  BY DEF Record, NextPos, row
<1>4. \/ pos + 1 <= Len(order) /\ pc' = "session" /\ round' = round
      \/ pos = Len(order) /\ pc' = "round" /\ round' = round + 1
  BY <1>1 DEF Record, NextPos
<1>5. /\ rows' \in Seq(RunnerRows) /\ Len(rows') = Len(rows) + 1
      /\ rows'[Len(rows')] = row /\ rows' # <<>>
      /\ rows'[1] = IF rows = <<>> THEN row ELSE rows[1]
  BY <1>1, <1>2, <1>3, AppendProperties
<1>6. RunnerTypes'
  <2>1. IsOrder(order)'
    BY <1>1, <1>3 DEF IsOrder
  <2> QED BY <1>1, <1>3, <1>4, <1>5, <2>1 DEF RunnerTypes
<1>7. ASSUME NEW c \in ToSet(Cells) PROVE Measured(c)'
  <2>1. Measured(c)
    BY <1>7 DEF RunnerInv
  <2>2. \A r : r # round \/ c # order[pos] => Runs(rows', r, c) = Runs(rows, r, c)
    BY <1>1, <1>2, <1>3, RunsAppended
  <2>3. c = order[pos] => Runs(rows', round, c) = WithNext(rows, round, c)
    BY <1>1, <1>2, <1>3, RunsAppended
  <2>4. c # Sentinel
    BY <1>7, CellsListed
  \* the cell has had its turn when the position has passed it
  <2>5. IF \E k \in 1 .. pos : order[k] = c THEN One(Runs(rows', round, c))
                                           ELSE Runs(rows', round, c) = {}
    <3>1. CASE c = order[pos]
      <4>1. ~\E k \in 1 .. pos - 1 : order[k] = c
        <5> SUFFICES ASSUME NEW k \in 1 .. pos - 1, order[k] = c PROVE FALSE
          OBVIOUS
        <5>1. k \in DOMAIN order /\ pos \in DOMAIN order /\ k # pos
          BY <1>1 DEF IsOrder
        <5> QED BY <1>1, <2>4, <3>1, <5>1 DEF IsOrder
      <4>2. Runs(rows, round, c) = {}
        BY <1>1, <2>1, <4>1 DEF Measured
      <4>3. One(Runs(rows', round, c))
        BY <1>1, <2>3, <3>1, <4>2, SingleRun
      <4>4. pos \in 1 .. pos
        BY <1>1
      <4> QED BY <3>1, <4>3, <4>4
    <3>2. CASE c # order[pos]
      <4>1. (\E k \in 1 .. pos : order[k] = c) <=> (\E k \in 1 .. pos - 1 : order[k] = c)
        BY <1>1, <3>2
      <4>2. Runs(rows', round, c) = Runs(rows, round, c)
        BY <2>2, <3>2
      <4> QED BY <2>1, <4>1, <4>2 DEF Measured
    <3> QED BY <3>1, <3>2
  <2>6. CASE pc' = "session"
    <3>1. round' = round /\ pos' - 1 = pos
      BY <1>1, <1>3, <1>4, <2>6
    <3>2. \A r \in 0 .. round - 1 : Runs(rows', r, c) = Runs(rows, r, c)
      BY <1>1, <2>2
    <3>3. \A r \in Nat : r > round => Runs(rows', r, c) = Runs(rows, r, c)
      BY <1>1, <2>2
    <3> QED BY <1>3, <2>1, <2>5, <2>6, <3>1, <3>2, <3>3 DEF Measured
  <2>7. CASE pc' = "round"
    <3>1. round' = round + 1 /\ pos = Len(order)
      BY <1>4, <2>7
    <3>2. \E k \in 1 .. pos : order[k] = c
      BY <1>1, <3>1 DEF IsOrder
    <3>3. One(Runs(rows', round, c))
      BY <2>5, <3>2
    <3>4. \A r \in 0 .. round : One(Runs(rows', r, c))
      <4> SUFFICES ASSUME NEW r \in 0 .. round, r # round PROVE One(Runs(rows', r, c))
        BY <3>3
      <4>1. r \in 0 .. round - 1
        BY <1>1
      <4> QED BY <2>1, <2>2, <4>1 DEF Measured
    <3>5. \A r \in Nat : r > round => Runs(rows', r, c) = {}
      <4> SUFFICES ASSUME NEW r \in Nat, r > round PROVE Runs(rows', r, c) = {}
        OBVIOUS
      <4>1. r # round
        BY <1>1
      <4> QED BY <2>1, <2>2, <4>1 DEF Measured
    <3>6. round + 1 \in Nat /\ round + 1 > round /\ round + 1 - 1 = round
      BY <1>1
    <3>7. \A r \in 0 .. round' - 1 : One(Runs(rows', r, c))
      <4> SUFFICES ASSUME NEW r \in 0 .. round' - 1 PROVE One(Runs(rows', r, c))
        OBVIOUS
      <4>1. r \in 0 .. round
        BY <1>1, <3>1
      <4> QED BY <3>4, <4>1
    <3>8. \A r \in Nat : r > round' => Runs(rows', r, c) = {}
      <4> SUFFICES ASSUME NEW r \in Nat, r > round' PROVE Runs(rows', r, c) = {}
        OBVIOUS
      <4>1. r > round
        BY <1>1, <3>1
      <4> QED BY <3>5, <4>1
    <3>9. Runs(rows', round', c) = {}
      BY <3>1, <3>5, <3>6
    <3> QED BY <2>7, <3>7, <3>8, <3>9 DEF Measured
  <2> QED BY <1>4, <2>6, <2>7
<1>8. Framed'
  <2> SUFFICES ASSUME driver.sentinel
               PROVE  /\ rows'[1].cell = Sentinel
                      /\ pc' = "round" => rows'[Len(rows')].cell = Sentinel
    BY <1>3, <1>4, <1>5 DEF Framed
  <2>1. order[1] = Sentinel /\ order[Len(order)] = Sentinel
    BY <1>1 DEF IsOrder
  <2>2. CASE rows = <<>>
    <3>1. pos = 1
      BY <1>1, <2>2 DEF Framed
    <3> QED BY <1>2, <1>4, <1>5, <2>1, <2>2, <3>1
  <2>3. CASE rows # <<>>
    <3>1. rows[1].cell = Sentinel
      BY <1>1, <2>3 DEF Framed
    <3> QED BY <1>2, <1>4, <1>5, <2>1, <2>3, <3>1
  <2> QED BY <2>2, <2>3
<1>9. Written'
  <2>1. raw' = IF driver'.flushed THEN rows' ELSE <<>>
    BY <1>1, <1>3 DEF Written
  <2>2. pc' # "done" /\ summary' = None
    BY <1>1, <1>3, <1>4 DEF Written
  <2> QED BY <2>1, <2>2 DEF Written
<1>10. (\A c \in ToSet(Cells) : Measured(c))'
  BY <1>7
<1> QED BY <1>6, <1>8, <1>9, <1>10 DEF RunnerInv

\* A run that stops leaves the round where it is.
LEMMA GiveUpStep ==
  ASSUME RunnerInv, pc = "session", pc' = "failed", UNCHANGED <<driver, round, pos, order, rows, raw, summary>>
  PROVE  RunnerInv'
<1>1. RunnerTypes'
  BY DEF RunnerInv, RunnerTypes
<1>2. ASSUME NEW c \in ToSet(Cells) PROVE Measured(c)'
  <2>1. Measured(c)
    BY <1>2 DEF RunnerInv
  <2> QED BY <2>1 DEF Measured
<1>3. Framed'
  BY DEF RunnerInv, Framed
<1>4. Written'
  BY DEF RunnerInv, Written
<1>5. (\A c \in ToSet(Cells) : Measured(c))'
  BY <1>2
<1> QED BY <1>1, <1>3, <1>4, <1>5 DEF RunnerInv

LEMMA RejectedStep == RunnerInv /\ Rejected => RunnerInv'
<1> SUFFICES ASSUME RunnerInv, Rejected PROVE RunnerInv'
  OBVIOUS
<1> DEFINE row == RowOf("rejected")
<1>1. /\ RunnerTypes /\ Framed /\ Written /\ driver \in Drivers
      /\ round \in Nat /\ IsOrder(order) /\ pos \in 1 .. Len(order)
      /\ rows \in Seq(RunnerRows) /\ Len(rows) \in Nat /\ pc = "session"
  BY CellsListed DEF RunnerInv, RunnerTypes, IsOrder, Rejected
<1>2. row \in RunnerRows /\ row.round = round /\ row.cell = order[pos]
  BY <1>1, RowOfType
<1> HIDE DEF row
<1>3. /\ rows' = Append(rows, row) /\ raw' = Append(raw, row) /\ driver.tolerant
      /\ driver' = driver /\ order' = order /\ summary' = summary
      /\ pos' = pos /\ round' = round /\ pc' = "failed"
  BY DEF Rejected, row
<1>4. /\ rows' \in Seq(RunnerRows) /\ rows' # <<>>
      /\ rows'[1] = IF rows = <<>> THEN row ELSE rows[1]
  BY <1>1, <1>2, <1>3, AppendProperties
<1>5. RunnerTypes'
  BY <1>1, <1>3, <1>4 DEF RunnerTypes
<1>6. ASSUME NEW c \in ToSet(Cells) PROVE Measured(c)'
  <2>1. Measured(c)
    BY <1>6 DEF RunnerInv
  <2>2. \A r : r # round \/ c # order[pos] => Runs(rows', r, c) = Runs(rows, r, c)
    BY <1>1, <1>2, <1>3, RunsAppended
  <2>3. One(Runs(rows', round, c)) \/ Runs(rows', round, c) = {}
    <3>1. CASE c = order[pos]
      <4>1. ~\E k \in 1 .. pos - 1 : order[k] = c
        <5> SUFFICES ASSUME NEW k \in 1 .. pos - 1, order[k] = c PROVE FALSE
          OBVIOUS
        <5>1. k \in DOMAIN order /\ pos \in DOMAIN order /\ k # pos
          BY <1>1 DEF IsOrder
        <5>2. c # Sentinel
          BY <1>6, CellsListed
        <5> QED BY <1>1, <3>1, <5>1, <5>2 DEF IsOrder
      <4>2. Runs(rows, round, c) = {}
        BY <1>1, <2>1, <4>1 DEF Measured
      <4>3. Runs(rows', round, c) = WithNext(rows, round, c)
        BY <1>1, <1>2, <1>3, <3>1, RunsAppended
      <4> QED BY <1>1, <4>2, <4>3, SingleRun
    <3>2. CASE c # order[pos]
      BY <1>1, <2>1, <2>2, <3>2 DEF Measured
    <3> QED BY <3>1, <3>2
  <2>4. \A r \in 0 .. round - 1 : Runs(rows', r, c) = Runs(rows, r, c)
    BY <1>1, <2>2
  <2>5. \A r \in Nat : r > round => Runs(rows', r, c) = Runs(rows, r, c)
    BY <1>1, <2>2
  <2> QED BY <1>3, <2>1, <2>3, <2>4, <2>5 DEF Measured
<1>7. Framed'
  <2>1. driver.sentinel => rows'[1].cell = Sentinel
    <3> SUFFICES ASSUME driver.sentinel PROVE rows'[1].cell = Sentinel
      OBVIOUS
    <3>1. order[1] = Sentinel
      BY <1>1 DEF IsOrder
    <3>2. rows = <<>> => pos = 1
      BY <1>1 DEF Framed
    <3>3. rows # <<>> => rows[1].cell = Sentinel
      BY <1>1 DEF Framed
    <3> QED BY <1>2, <1>4, <3>1, <3>2, <3>3
  <2> QED BY <1>3, <2>1 DEF Framed
<1>8. Written'
  <2>1. driver.flushed
    BY <1>1, <1>3, DriverFacts
  <2>2. raw = rows /\ summary = None
    BY <1>1, <2>1 DEF Written
  <2> QED BY <1>3, <2>1, <2>2 DEF Written
<1>9. (\A c \in ToSet(Cells) : Measured(c))'
  BY <1>6
<1> QED BY <1>5, <1>7, <1>8, <1>9 DEF RunnerInv

LEMMA FinishStep == RunnerInv /\ Finish => RunnerInv'
<1> SUFFICES ASSUME RunnerInv, Finish PROVE RunnerInv'
  OBVIOUS
<1>1. /\ pc = "round" /\ pc' = "done" /\ round = Rounds
      /\ summary' = IF driver.summary THEN rows ELSE None
      /\ UNCHANGED <<driver, round, order, pos, rows, raw>>
  BY DEF Finish
<1>2. RunnerTypes'
  BY <1>1 DEF RunnerInv, RunnerTypes
<1>3. ASSUME NEW c \in ToSet(Cells) PROVE Measured(c)'
  <2>1. Measured(c)
    BY <1>3 DEF RunnerInv
  <2> QED BY <1>1, <2>1 DEF Measured
<1>4. Framed'
  BY <1>1 DEF RunnerInv, Framed
<1>5. Written'
  BY <1>1 DEF RunnerInv, Written
<1>6. (\A c \in ToSet(Cells) : Measured(c))'
  BY <1>3
<1> QED BY <1>2, <1>4, <1>5, <1>6 DEF RunnerInv

LEMMA RunnerStep == RunnerInv /\ [RunnerNext]_runnerVars => RunnerInv'
<1> SUFFICES ASSUME RunnerInv, [RunnerNext]_runnerVars PROVE RunnerInv'
  OBVIOUS
<1>1. CASE StartRound
  BY <1>1, StartRoundStep
<1>2. CASE Report
  <2>1. PICK outcome \in {"valid", "zero", "invalid"} : Record(outcome)
    BY <1>2 DEF Report
  <2> QED BY <1>2, <2>1, RecordStep DEF Report
<1>3. CASE NoReport
  <2>1. CASE driver.tolerant
    BY <1>3, <2>1, RecordStep DEF NoReport
  <2>2. CASE ~driver.tolerant
    BY <1>3, <2>2, GiveUpStep DEF NoReport
  <2> QED BY <2>1, <2>2
<1>4. CASE AssertFails
  BY <1>4, GiveUpStep DEF AssertFails
<1>5. CASE Rejected
  BY <1>5, RejectedStep
<1>6. CASE Finish
  BY <1>6, FinishStep
<1>7. CASE UNCHANGED runnerVars
  <2>1. UNCHANGED <<driver, round, order, pos, rows, raw, summary, pc>>
    BY <1>7 DEF runnerVars
  <2>2. RunnerTypes' /\ Framed' /\ Written'
    BY <2>1 DEF RunnerInv, RunnerTypes, IsOrder, Framed, Written
  <2>3. ASSUME NEW c \in ToSet(Cells) PROVE Measured(c)'
    <3>1. Measured(c)
      BY <2>3 DEF RunnerInv
    <3> QED BY <2>1, <3>1 DEF Measured
  <2>4. (\A c \in ToSet(Cells) : Measured(c))'
    BY <2>3
  <2> QED BY <2>2, <2>4 DEF RunnerInv
<1>8. CASE Ended
  BY <1>7, <1>8 DEF Ended
<1> QED BY <1>1, <1>2, <1>3, <1>4, <1>5, <1>6, <1>7, <1>8 DEF RunnerNext

LEMMA RunnerInvariant == RunnerSpec => []RunnerInv
BY RunnerStart, RunnerStep, PTL DEF RunnerSpec

----------------------------------------------------------------------------
(* What the invariant says of counts and of pairs.                         *)

\* A cell has been measured once in every round that is over, and at most
\* once more.
LEMMA MeasuredCount ==
  ASSUME RunnerInv, NEW c \in ToSet(Cells)
  PROVE  Count(c, rows) \in Nat /\ round <= Count(c, rows) /\ Count(c, rows) <= round + 1
<1> DEFINE S == {i \in DOMAIN rows : rows[i].cell = c}
           f == [i \in S |-> rows[i].round]
<1>1. /\ round \in Nat /\ rows \in Seq(RunnerRows) /\ Len(rows) \in Nat
      /\ DOMAIN rows = 1 .. Len(rows) /\ Measured(c)
  BY CellsListed DEF RunnerInv, RunnerTypes
<1>2. \A i \in DOMAIN rows : rows[i].round \in Nat
  BY <1>1, RowsTyped
<1>3. \A r \in 0 .. round : Runs(rows, r, c) = {} \/ One(Runs(rows, r, c))
  <2> SUFFICES ASSUME NEW r \in 0 .. round, r # round PROVE One(Runs(rows, r, c))
    <3>1. pc \in {"round", "session", "done", "failed"}
      BY DEF RunnerInv, RunnerTypes
    <3>2. Runs(rows, round, c) = {} \/ One(Runs(rows, round, c))
      BY <1>1, <3>1 DEF Measured
    <3> QED BY <3>2
  <2>1. r \in 0 .. round - 1
    BY <1>1
  <2> QED BY <1>1, <2>1 DEF Measured
<1>4. \A i \in S : f[i] \in 0 .. round
  <2> SUFFICES ASSUME NEW i \in S, ~(rows[i].round <= round) PROVE FALSE
    BY <1>1, <1>2
  <2>1. rows[i].round \in Nat /\ rows[i].round > round
    BY <1>1, <1>2
  <2>2. i \in Runs(rows, rows[i].round, c)
    BY DEF Runs
  <2> QED BY <1>1, <2>1, <2>2 DEF Measured
<1>5. \A i, j \in S : f[i] = f[j] => i = j
  <2> SUFFICES ASSUME NEW i \in S, NEW j \in S, rows[i].round = rows[j].round PROVE i = j
    OBVIOUS
  <2>1. rows[i].round \in 0 .. round
    BY <1>4
  <2>2. i \in Runs(rows, rows[i].round, c) /\ j \in Runs(rows, rows[i].round, c)
    BY DEF Runs
  <2> QED BY <1>3, <2>1, <2>2 DEF One
<1>6. \A r \in 0 .. round - 1 : \E i \in S : f[i] = r
  <2> SUFFICES ASSUME NEW r \in 0 .. round - 1 PROVE \E i \in S : f[i] = r
    OBVIOUS
  <2>1. PICK i : Runs(rows, r, c) = {i}
    BY <1>1 DEF Measured, One
  <2>2. i \in Runs(rows, r, c)
    BY <2>1
  <2> QED BY <2>2 DEF Runs
<1>7. /\ IsFiniteSet(0 .. round) /\ Cardinality(0 .. round) = round + 1
      /\ IsFiniteSet(0 .. round - 1) /\ Cardinality(0 .. round - 1) = round
  <2>1. 0 \in Int /\ round \in Int /\ round - 1 \in Int
    BY <1>1
  <2>2. IsFiniteSet(0 .. round) /\ Cardinality(0 .. round) = IF 0 > round THEN 0 ELSE round - 0 + 1
    BY <2>1, FS_Interval
  <2>3. /\ IsFiniteSet(0 .. round - 1)
        /\ Cardinality(0 .. round - 1) = IF 0 > round - 1 THEN 0 ELSE round - 1 - 0 + 1
    BY <2>1, FS_Interval
  <2> QED BY <1>1, <2>2, <2>3
<1>8. f \in Injection(S, 0 .. round)
  <2>1. f \in [S -> 0 .. round]
    BY <1>4
  <2> QED BY <1>5, <2>1 DEF Injection, IsInjective
<1>9. IsFiniteSet(S) /\ Cardinality(S) <= round + 1
  <2> HIDE DEF f, S
  <2> QED BY <1>7, <1>8, FS_Injection
<1>10. Cardinality(S) \in Nat
  <2> HIDE DEF S
  <2> QED BY <1>9, FS_CardinalityType
<1> DEFINE T == {i \in S : f[i] \in 0 .. round - 1}
           g == [i \in T |-> f[i]]
<1>11. g \in Surjection(T, 0 .. round - 1)
  <2>1. g \in [T -> 0 .. round - 1]
    OBVIOUS
  <2>2. \A r \in 0 .. round - 1 : \E i \in T : g[i] = r
    <3> HIDE DEF S, f
    <3> QED BY <1>6
  <2> HIDE DEF g, T
  <2> QED BY <2>1, <2>2 DEF Surjection
<1>12. T \subseteq S
  OBVIOUS
<1> HIDE DEF g, T, f, S
<1>13. IsFiniteSet(T) /\ Cardinality(T) <= Cardinality(S)
  BY <1>9, <1>12, FS_Subset
<1>14. round <= Cardinality(T)
  BY <1>7, <1>11, <1>13, FS_Surjection
<1>15. Cardinality(T) \in Nat
  BY <1>13, FS_CardinalityType
<1>16. round <= Cardinality(S)
  BY <1>1, <1>10, <1>13, <1>14, <1>15
<1> QED BY <1>9, <1>10, <1>16 DEF Count, S

LEMMA OnceCounts ==
  ASSUME NEW s, NEW r, NEW c, One(Runs(s, r, c))
  PROVE  Cardinality({i \in DOMAIN s : s[i].round = r /\ s[i].cell = c}) = 1
<1>1. PICK i : Runs(s, r, c) = {i}
  BY DEF One
<1>2. Cardinality({i}) = 1
  BY FS_Singleton
<1> QED BY <1>1, <1>2 DEF Runs

(* Drift favours no cell (run.py of strategy_threads and of systems,       *)
(* bench.py of architecture, latency_rerun): whenever a run ends, no cell  *)
(* has been measured more than once oftener than another, and one that was *)
(* not ended has every cell once in every round.                           *)
THEOREM EveryCellItsShare == RunnerSpec => []Balanced
<1>1. ASSUME RunnerInv PROVE Balanced
  <2>1. \A a, b \in ToSet(Cells) : Count(a, rows) <= Count(b, rows) + 1
    <3> SUFFICES ASSUME NEW a \in ToSet(Cells), NEW b \in ToSet(Cells)
                 PROVE  Count(a, rows) <= Count(b, rows) + 1
      OBVIOUS
    <3>1. Count(a, rows) \in Nat /\ Count(a, rows) <= round + 1
      BY <1>1, MeasuredCount
    <3>2. Count(b, rows) \in Nat /\ round <= Count(b, rows)
      BY <1>1, MeasuredCount
    <3>3. round \in Nat
      BY <1>1, CellsListed DEF RunnerInv, RunnerTypes
    <3> QED BY <3>1, <3>2, <3>3
  <2>2. driver.flushed => raw = rows
    BY <1>1 DEF RunnerInv, Written
  <2>3. ASSUME pc = "done", NEW c \in ToSet(Cells), NEW r \in 0 .. Rounds - 1
        PROVE  Cardinality({i \in DOMAIN rows : rows[i].round = r /\ rows[i].cell = c}) = 1
    <3>1. round = Rounds /\ Measured(c)
      BY <1>1, <2>3 DEF RunnerInv, RunnerTypes
    <3>2. One(Runs(rows, r, c))
      BY <2>3, <3>1 DEF Measured
    <3> QED BY <3>2, OnceCounts
  <2>4. pc = "done" /\ driver.sentinel => rows[1].cell = Sentinel /\ rows[Len(rows)].cell = Sentinel
    <3>1. pc = "done" => round > 0
      BY <1>1, CellsListed DEF RunnerInv, RunnerTypes
    <3> QED BY <1>1, <3>1 DEF RunnerInv, Framed
  <2>5. /\ pc = "done" /\ driver.summary => summary = rows
        /\ pc # "done" => summary = None
    BY <1>1 DEF RunnerInv, Written
  <2> QED BY <2>1, <2>2, <2>3, <2>4, <2>5 DEF Balanced
<1> QED BY <1>1, RunnerInvariant, PTL

\* In a round there is one session of a cell at most.
LEMMA OneSession ==
  ASSUME RunnerInv, NEW c \in ToSet(Cells), NEW i \in DOMAIN raw, NEW j \in DOMAIN raw,
         raw[i].cell = c, raw[j].cell = c, raw[i].round = raw[j].round
  PROVE  i = j /\ raw[i].round \in 0 .. Rounds - 1
<1>1. raw = rows /\ rows \in Seq(RunnerRows) /\ round \in 0 .. Rounds /\ Rounds \in Nat
  BY CellsListed DEF RunnerInv, Written, RunnerTypes
<1>2. Measured(c) /\ pc \in {"round", "session", "done", "failed"}
  BY DEF RunnerInv, RunnerTypes
<1> DEFINE r == rows[i].round
<1>3. r \in Nat /\ i \in Runs(rows, r, c) /\ j \in Runs(rows, r, c)
  BY <1>1, RowsTyped DEF Runs
<1> HIDE DEF r
<1>4. r <= round
  BY <1>1, <1>2, <1>3 DEF Measured
<1>5. CASE r = round
  <2>1. One(Runs(rows, r, c)) /\ pc \in {"session", "failed"}
    BY <1>2, <1>3, <1>5 DEF Measured
  <2>2. round < Rounds
    BY <2>1 DEF RunnerInv, RunnerTypes
  <2>3. i = j /\ r \in 0 .. Rounds - 1
    BY <1>1, <1>3, <1>4, <1>5, <2>1, <2>2 DEF One
  <2> QED BY <1>1, <2>3 DEF r
<1>6. CASE r # round
  <2>1. r \in 0 .. round - 1
    BY <1>1, <1>3, <1>4, <1>6
  <2>2. One(Runs(rows, r, c))
    BY <1>2, <2>1 DEF Measured
  <2>3. i = j /\ r \in 0 .. Rounds - 1
    BY <1>1, <1>3, <2>1, <2>2 DEF One
  <2> QED BY <1>1, <2>3 DEF r
<1> QED BY <1>5, <1>6

LEMMA TheRun ==
  ASSUME RunnerInv, NEW c \in ToSet(Cells), NEW r, by_round(r, c) # {}
  PROVE  /\ Max(by_round(r, c)) \in DOMAIN raw
         /\ by_round(r, c) = {Max(by_round(r, c))}
         /\ raw[Max(by_round(r, c))].round = r /\ raw[Max(by_round(r, c))].cell = c
         /\ raw[Max(by_round(r, c))].outcome \in {"valid", "zero"}
<1>1. PICK i : i \in by_round(r, c)
  OBVIOUS
<1>2. \A j \in by_round(r, c) : j = i
  BY <1>1, OneSession DEF by_round
<1>3. by_round(r, c) = {i}
  BY <1>1, <1>2
<1>4. i \in DOMAIN raw /\ raw[i].round = r /\ raw[i].cell = c /\ raw[i].outcome \in {"valid", "zero"}
  BY <1>1 DEF by_round, Usable
<1>5. i \in Nat
  <2>1. raw = rows \/ raw = <<>>
    BY DEF RunnerInv, Written
  <2>2. rows \in Seq(RunnerRows)
    BY DEF RunnerInv, RunnerTypes
  <2> QED BY <1>4, <2>1, <2>2
<1>6. Max({i}) = i
  BY <1>5 DEF Max
<1> QED BY <1>3, <1>4, <1>6

(* A paired comparison takes two valid sessions of one round, the first    *)
(* with a number to divide by, and a round at most once, and loses no      *)
(* round in which the cells have two such sessions (analyze.py: by_round   *)
(* and paired, on the rows of run.py).                                     *)
THEOREM PairsAreOfOneRound == RunnerSpec => []PairedWithinRound
<1>1. ASSUME RunnerInv PROVE PairedWithinRound
  <2> SUFFICES ASSUME NEW a \in ToSet(Cells), NEW b \in ToSet(Cells), a # b
               PROVE
      /\ \A p \in paired(a, b) :
           /\ raw[p[1]].round = raw[p[2]].round
           /\ raw[p[1]].outcome = "valid" /\ raw[p[2]].outcome \in {"valid", "zero"}
           /\ \A q \in paired(a, b) : raw[q[1]].round = raw[p[1]].round => q = p
      /\ \A i, j \in DOMAIN raw :
           raw[i] = [round |-> raw[j].round, cell |-> a, outcome |-> "valid"]
             /\ raw[j].cell = b /\ raw[j].outcome \in {"valid", "zero"} => <<i, j>> \in paired(a, b)
    BY DEF PairedWithinRound
  <2>1. ASSUME NEW p \in paired(a, b)
        PROVE  \E r : /\ by_round(r, a) # {} /\ by_round(r, b) # {} /\ Positive(r, a)
                      /\ p = <<Max(by_round(r, a)), Max(by_round(r, b))>>
    BY <2>1 DEF paired
  <2>2. ASSUME NEW p \in paired(a, b)
        PROVE  /\ raw[p[1]].round = raw[p[2]].round
               /\ raw[p[1]].outcome = "valid" /\ raw[p[2]].outcome \in {"valid", "zero"}
    <3>1. PICK r : /\ by_round(r, a) # {} /\ by_round(r, b) # {} /\ Positive(r, a)
                   /\ p = <<Max(by_round(r, a)), Max(by_round(r, b))>>
      BY <2>1, <2>2
    <3>2. p[1] = Max(by_round(r, a)) /\ p[2] = Max(by_round(r, b))
      BY <3>1
    <3>3. raw[Max(by_round(r, a))].round = r /\ raw[Max(by_round(r, a))].outcome = "valid"
      BY <1>1, <3>1, TheRun DEF Positive
    <3>4. raw[Max(by_round(r, b))].round = r /\ raw[Max(by_round(r, b))].outcome \in {"valid", "zero"}
      BY <1>1, <3>1, TheRun
    <3> QED BY <3>2, <3>3, <3>4
  <2>3. ASSUME NEW p \in paired(a, b), NEW q \in paired(a, b), raw[q[1]].round = raw[p[1]].round
        PROVE  q = p
    <3>1. PICK r : /\ by_round(r, a) # {}
                   /\ p = <<Max(by_round(r, a)), Max(by_round(r, b))>>
      BY <2>1, <2>3
    <3>2. PICK t : /\ by_round(t, a) # {}
                   /\ q = <<Max(by_round(t, a)), Max(by_round(t, b))>>
      BY <2>1, <2>3
    <3>3. raw[Max(by_round(r, a))].round = r /\ raw[Max(by_round(t, a))].round = t
      BY <1>1, <3>1, <3>2, TheRun
    <3>4. p[1] = Max(by_round(r, a)) /\ q[1] = Max(by_round(t, a))
      BY <3>1, <3>2
    <3>5. r = t
      BY <2>3, <3>3, <3>4
    <3> QED BY <3>1, <3>2, <3>5
  <2>4. ASSUME NEW i \in DOMAIN raw, NEW j \in DOMAIN raw,
               raw[i] = [round |-> raw[j].round, cell |-> a, outcome |-> "valid"],
               raw[j].cell = b, raw[j].outcome \in {"valid", "zero"}
        PROVE  <<i, j>> \in paired(a, b)
    <3> DEFINE r == raw[j].round
    <3>1. raw[i].round = r /\ raw[i].cell = a /\ raw[i].outcome = "valid"
      BY <2>4
    <3>2. i \in by_round(r, a) /\ j \in by_round(r, b)
      BY <2>4, <3>1 DEF by_round, Usable
    <3>3. r \in 0 .. Rounds - 1
      BY <1>1, <2>4, OneSession
    <3> HIDE DEF r
    <3>4. by_round(r, a) = {Max(by_round(r, a))} /\ by_round(r, b) = {Max(by_round(r, b))}
      BY <1>1, <3>2, TheRun
    <3>5. i = Max(by_round(r, a)) /\ j = Max(by_round(r, b))
      BY <3>2, <3>4
    <3>6. Positive(r, a)
      BY <3>1, <3>5 DEF Positive
    <3> QED BY <3>2, <3>3, <3>5, <3>6 DEF paired
  <2> QED BY <2>2, <2>3, <2>4
<1> QED BY <1>1, RunnerInvariant, PTL

----------------------------------------------------------------------------
(* What a valid report of a queue bench says.                              *)

LEMMA SumAtMost ==
  ASSUME NEW k \in Nat, NEW f, NEW S, IsFiniteSet(S), \A x \in S : f[x] \in Nat /\ f[x] <= k
  PROVE  SumFunctionOnSet(f, S) <= k * Cardinality(S)
<1> DEFINE B == {s \in SUBSET S : ~ (SumFunctionOnSet(f, s) <= k * Cardinality(s))}
<1>1. SUFFICES ASSUME B # {} PROVE FALSE
  <2>1. S \in SUBSET S
    OBVIOUS
  <2> QED BY <1>1, <2>1
<1>2. \A s \in B : IsFiniteSet(s)
  BY FS_Subset
<1>3. PICK s \in B : \A x \in s : s \ {x} \notin B
  <2> HIDE DEF B
  <2> QED BY <1>1, <1>2, OneLess
<1>4. s \in SUBSET S /\ IsFiniteSet(s) /\ \A x \in s : f[x] \in Nat /\ f[x] \in Int /\ f[x] <= k
  BY <1>2
<1>5. s # {}
  <2>1. SumFunctionOnSet(f, {}) = 0 /\ Cardinality({}) = 0
    BY SumZero, FS_EmptySet
  <2>2. SumFunctionOnSet(f, {}) <= k * Cardinality({})
    <3>1. k * 0 = 0 /\ 0 <= 0
      OBVIOUS
    <3> QED BY <2>1, <3>1
  <2>3. ~ (SumFunctionOnSet(f, s) <= k * Cardinality(s))
    OBVIOUS
  <2> QED BY <2>2, <2>3
<1>6. PICK x \in s : TRUE
  BY <1>5
<1>7. /\ IsFiniteSet(s \ {x}) /\ Cardinality(s \ {x}) = Cardinality(s) - 1
      /\ Cardinality(s) \in Nat /\ Cardinality(s \ {x}) \in Nat
  BY <1>4, <1>6, FS_RemoveElement, FS_CardinalityType
<1>8. SumFunctionOnSet(f, s) = f[x] + SumFunctionOnSet(f, s \ {x}) /\ SumFunctionOnSet(f, s \ {x}) \in Int
  BY <1>4, <1>6, <1>7, SumRemove, SumInt
<1>9. SumFunctionOnSet(f, s \ {x}) <= k * Cardinality(s \ {x})
  BY <1>3, <1>4
<1>10. SumFunctionOnSet(f, s) <= k * Cardinality(s)
  <2>1. \A a, b, c, d, n \in Int : a = b + c /\ c <= k * (n - 1) /\ b <= k => a <= k * n
    <3> SUFFICES ASSUME NEW a \in Int, NEW b \in Int, NEW c \in Int, NEW n \in Int,
                        a = b + c, c <= k * (n - 1), b <= k
                 PROVE  a <= k * n
      OBVIOUS
    <3>1. k * (n - 1) = k * n - k /\ k * n \in Int
      OBVIOUS
    <3> QED BY <3>1
  <2> QED BY <1>4, <1>6, <1>7, <1>8, <1>9, <2>1
<1> QED BY <1>10

\* If none exceeds k and they make up k for each, each is k.
LEMMA SumIsFull ==
  ASSUME NEW k \in Nat, NEW f, NEW S, IsFiniteSet(S), \A x \in S : f[x] \in Nat /\ f[x] <= k,
         SumFunctionOnSet(f, S) = k * Cardinality(S), NEW x \in S
  PROVE  f[x] = k
<1>1. /\ IsFiniteSet(S \ {x}) /\ Cardinality(S \ {x}) = Cardinality(S) - 1 /\ Cardinality(S) \in Nat
  BY FS_RemoveElement, FS_CardinalityType
<1>2. \A y \in S : f[y] \in Int
  OBVIOUS
<1>3. SumFunctionOnSet(f, S) = f[x] + SumFunctionOnSet(f, S \ {x}) /\ SumFunctionOnSet(f, S \ {x}) \in Int
  BY <1>1, <1>2, SumRemove, SumInt
<1>4. SumFunctionOnSet(f, S \ {x}) <= k * Cardinality(S \ {x})
  BY <1>1, SumAtMost
<1> DEFINE n == Cardinality(S)
           r == SumFunctionOnSet(f, S \ {x})
<1>5. n \in Nat /\ r \in Int /\ k * n = f[x] + r /\ r <= k * (n - 1) /\ f[x] \in Nat /\ f[x] <= k
  BY <1>1, <1>3, <1>4
<1> HIDE DEF n, r
<1>6. k * (n - 1) = k * n - k /\ k * n \in Int
  BY <1>5
<1> QED BY <1>5, <1>6

\* What arrives in order arrives once.
LEMMA InOrderIsOnce ==
  ASSUME NEW W, \A m \in W : m[1] \in Nat, NEW s \in Seq(W), ~ OutOfOrder(s)
  PROVE  /\ IsInjective(s)
         /\ ToSet(s) \in SUBSET W
         /\ IsFiniteSet(ToSet(s)) /\ Cardinality(ToSet(s)) = Len(s)
<1>1. Len(s) \in Nat /\ DOMAIN s = 1..Len(s) /\ \A i \in DOMAIN s : s[i] \in W
  OBVIOUS
<1>2. \A i, j \in DOMAIN s : s[i] = s[j] => i = j
  <2> SUFFICES ASSUME NEW i \in DOMAIN s, NEW j \in DOMAIN s, s[i] = s[j], i < j PROVE FALSE
    <3>1. \A i, j \in DOMAIN s : i \in Int /\ j \in Int /\ (i = j \/ i < j \/ j < i)
      BY <1>1
    <3> QED BY <3>1
  <2>1. s[j][1] <= s[i][1] /\ s[i][2] = s[j][2]
    <3>1. s[i][1] \in Nat /\ s[j] = s[i]
      BY <1>1
    <3> QED BY <3>1
  <2> QED BY <2>1 DEF OutOfOrder
<1>3. IsInjective(s)
  BY <1>2 DEF IsInjective
<1>4. ToSet(s) \in SUBSET W
  BY <1>1 DEF ToSet
<1>5. s \in Bijection(1..Len(s), ToSet(s))
  <2>1. s \in [1..Len(s) -> ToSet(s)]
    BY <1>1 DEF ToSet
  <2>2. \A t \in ToSet(s) : \E i \in 1..Len(s) : s[i] = t
    BY <1>1 DEF ToSet
  <2> QED BY <1>1, <1>2, <2>1, <2>2 DEF Bijection, Injection, Surjection, IsInjective
<1>6. IsFiniteSet(1..Len(s)) /\ Cardinality(1..Len(s)) = Len(s)
  BY <1>1, FS_Interval
<1>7. ExistsBijection(1..Len(s), ToSet(s))
  BY <1>5 DEF ExistsBijection
<1>8. IsFiniteSet(ToSet(s)) /\ Cardinality(ToSet(s)) = Len(s)
  BY <1>6, <1>7, FS_Bijection
<1> QED BY <1>3, <1>4, <1>8

Modes == {"pair", "orders", "fanout"}

\* the messages one consumer is to receive
Share(mode, n, count) == IF mode = "orders" THEN count * n ELSE count

LEMMA SharesAddUp ==
  ASSUME NEW mode \in Modes, NEW n \in Nat, NEW count \in Nat
  PROVE  /\ IsFiniteSet(Consumers(mode, n)) /\ Share(mode, n, count) \in Nat
         /\ Share(mode, n, count) * Cardinality(Consumers(mode, n)) = count * n
<1>1. IsFiniteSet(0..(n - 1)) /\ Cardinality(0..(n - 1)) = n
  BY FS_Interval
<1>2. IsFiniteSet({0}) /\ Cardinality({0}) = 1
  BY FS_Singleton
<1>3. count * n \in Nat /\ (count * n) * 1 = count * n
  OBVIOUS
<1>4. CASE mode = "orders"
  BY <1>2, <1>3, <1>4 DEF Consumers, Share
<1>5. CASE mode # "orders"
  BY <1>1, <1>5 DEF Consumers, Share
<1> QED BY <1>4, <1>5

LEMMA WantedCounted ==
  ASSUME NEW mode \in Modes, NEW n \in Nat, NEW count \in Nat, NEW c \in Consumers(mode, n)
  PROVE  /\ IsFiniteSet(Wanted(mode, n, count, c))
         /\ Cardinality(Wanted(mode, n, count, c)) = Share(mode, n, count)
         /\ \A m \in Wanted(mode, n, count, c) : m[1] \in Nat
<1>1. /\ IsFiniteSet(0..(count - 1)) /\ Cardinality(0..(count - 1)) = count
      /\ IsFiniteSet(0..(n - 1)) /\ Cardinality(0..(n - 1)) = n
  <2>1. IsFiniteSet(0..(count - 1)) /\ Cardinality(0..(count - 1)) = count
    BY FS_Interval
  <2>2. IsFiniteSet(0..(n - 1)) /\ Cardinality(0..(n - 1)) = n
    BY FS_Interval
  <2> QED BY <2>1, <2>2
<1>2. \A p : IsFiniteSet({p}) /\ Cardinality({p}) = 1
  BY FS_Singleton
<1>3. \A P : IsFiniteSet(P) =>
        IsFiniteSet(Messages(count, P)) /\ Cardinality(Messages(count, P)) = count * Cardinality(P)
  BY <1>1, FS_Product DEF Messages
<1>4. \A P : \A m \in Messages(count, P) : m[1] \in Nat
  BY DEF Messages
<1>5. CASE mode = "orders"
  <2>1. Wanted(mode, n, count, c) = Messages(count, 0..(n - 1)) /\ Share(mode, n, count) = count * n
    BY <1>5 DEF Wanted, Share
  <2> QED BY <1>1, <1>3, <1>4, <2>1
<1>6. CASE mode # "orders"
  <2>1. PICK p : Wanted(mode, n, count, c) = Messages(count, {p})
    BY <1>6 DEF Wanted, Modes
  <2>2. Share(mode, n, count) = count /\ count * 1 = count
    BY <1>6 DEF Share
  <2> QED BY <1>2, <1>3, <1>4, <2>1, <2>2
<1> QED BY <1>5, <1>6

\* A delivery: each consumer has messages that were meant for it, in any order
\* and number.
Delivery(mode, n, count, d) ==
  /\ DOMAIN d = Consumers(mode, n)
  /\ \A c \in Consumers(mode, n) : d[c] \in Seq(Wanted(mode, n, count, c))

\* inspect_micro of experiments/systems/run.py finds no reason against a report
\* only if every message was received once and in order, for every number of
\* producers and consumers, every number of messages, and whatever the queue
\* lost, repeated or put in another order.
THEOREM ValidReportsAreSound ==
  \A mode \in Modes, n \in Nat, count \in Nat :
    \A d : Delivery(mode, n, count, d) /\ ValidReport(mode, n, count, d) => Correct(mode, n, count, d)
<1> SUFFICES ASSUME NEW mode \in Modes, NEW n \in Nat, NEW count \in Nat,
                    NEW d, Delivery(mode, n, count, d), ValidReport(mode, n, count, d)
             PROVE  Correct(mode, n, count, d)
  OBVIOUS
<1> DEFINE C == Consumers(mode, n)
           W(c) == Wanted(mode, n, count, c)
           k == Share(mode, n, count)
           f == [c \in C |-> Len(d[c])]
<1>1. DOMAIN d = C /\ \A c \in C : d[c] \in Seq(W(c)) /\ ~ OutOfOrder(d[c])
  BY DEF Delivery, ValidReport
<1>2. SumFunction(f) = count * n /\ DOMAIN f = C
  BY <1>1 DEF ValidReport, Received
<1>3. IsFiniteSet(C) /\ k \in Nat /\ k * Cardinality(C) = count * n
  BY SharesAddUp
<1>4. \A c \in C : IsFiniteSet(W(c)) /\ Cardinality(W(c)) = k /\ \A m \in W(c) : m[1] \in Nat
  BY WantedCounted
<1>5. \A c \in C : f[c] = Len(d[c])
  OBVIOUS
<1> HIDE DEF C, W, k, f
<1>6. ASSUME NEW c \in C
      PROVE  /\ IsInjective(d[c]) /\ ToSet(d[c]) \in SUBSET W(c)
             /\ IsFiniteSet(ToSet(d[c])) /\ Cardinality(ToSet(d[c])) = Len(d[c])
  BY <1>1, <1>4, InOrderIsOnce
<1>7. \A c \in C : f[c] \in Nat /\ f[c] <= k
  <2> SUFFICES ASSUME NEW c \in C PROVE f[c] \in Nat /\ f[c] <= k
    OBVIOUS
  <2>1. Len(d[c]) \in Nat
    BY <1>1
  <2>2. Cardinality(ToSet(d[c])) <= k
    BY <1>4, <1>6, FS_Subset
  <2> QED BY <1>5, <1>6, <2>1, <2>2
<1>8. \A c \in C : f[c] = k
  BY <1>2, <1>3, <1>7, SumOn, SumIsFull
<1>9. ASSUME NEW c \in C PROVE ToSet(d[c]) = W(c)
  <2>1. Cardinality(W(c)) = Cardinality(ToSet(d[c]))
    BY <1>4, <1>5, <1>6, <1>8
  <2> QED BY <1>4, <1>6, <2>1, FS_Subset
<1>10. \A c \in DOMAIN d : ToSet(d[c]) = Wanted(mode, n, count, c) /\ IsInjective(d[c]) /\ ~ OutOfOrder(d[c])
  BY <1>1, <1>6, <1>9 DEF W
<1> QED BY <1>10 DEF Correct

\* The instance a run checks: what the systems driver counts as valid was
\* delivered (inspect_micro), over all deliveries of two messages of two.
THEOREM ValidIsDelivered == RunnerSpec => []ValidMeansDelivered
<1>1. InspectMicroSound
  <2> SUFFICES ASSUME NEW mode \in Modes, NEW d \in Deliveries(mode, 2, 2), ValidReport(mode, 2, 2, d)
               PROVE  Correct(mode, 2, 2, d)
    BY DEF InspectMicroSound, Modes
  <2>1. DOMAIN d = Consumers(mode, 2)
    BY DEF Deliveries
  <2>2. ASSUME NEW c \in Consumers(mode, 2) PROVE d[c] \in Seq(Wanted(mode, 2, 2, c))
    <3>1. PICK e \in Consumers(mode, 2) : d[c] \in Streams(Wanted(mode, 2, 2, e))
      BY DEF Deliveries
    <3>2. PICK len \in 0..Cardinality(Wanted(mode, 2, 2, e)) + 1 : d[c] \in [1..len -> Wanted(mode, 2, 2, e)]
      BY <3>1 DEF Streams
    <3>3. Cardinality(Wanted(mode, 2, 2, e)) \in Nat
      BY WantedCounted, FS_CardinalityType
    <3>4. len \in Nat /\ DOMAIN d[c] = 1..len
      BY <3>2, <3>3
    <3>5. ToSet(d[c]) \subseteq Wanted(mode, 2, 2, c)
      BY <2>1 DEF Deliveries
    <3>6. d[c] \in [1..len -> Wanted(mode, 2, 2, c)]
      BY <3>2, <3>4, <3>5 DEF ToSet
    <3> QED BY <3>4, <3>6
  <2>3. Delivery(mode, 2, 2, d)
    BY <2>1, <2>2 DEF Delivery
  <2> QED BY <2>3, ValidReportsAreSound
<1>2. ValidMeansDelivered
  BY <1>1 DEF ValidMeansDelivered
<1> QED BY <1>2, PTL
=============================================================================
