----------------------------- MODULE AdaptRules -----------------------------
(***************************************************************************)
(* The rules by which a subject of the generational loop turns its history *)
(* and its last report into its next proposal: HillClimb, Imitate and      *)
(* Bandit (agents/adapt.py), the proposers that write plugins              *)
(* (agents/codegen.py) and the one that asks a model for parameters        *)
(* (agents/proposer.py).  Each is the set of all it may return.            *)
(*                                                                         *)
(* A history is a sequence of entries with a proposal and a score.  A draw *)
(* of the random generator is a function from parameter names to factors   *)
(* in percent, with "fresh" for a parameter that is 0 and "window" for the *)
(* window of a mock plugin.                                                *)
(***************************************************************************)
EXTENDS Proposals, Sequences, FiniteSets, SequencesExt

CONSTANTS
  Draws,   \* the draws a rule may make
  Answers, \* what a model may answer: records of a strategy and its parameters
  Margin   \* how much better a rival must be to be copied (1.0 in Imitate)

\* The schema of an answer asks for a catalogue strategy and for numbers, of
\* which json.loads takes nan to be one.
ASSUME RulesAssumption ==
  /\ \A d \in Draws :
       /\ d.fresh \in Int
       /\ \A s \in Strategies : \A k \in DOMAIN Catalogue[s] : d[k] \in Int
  /\ \A a \in Answers :
       /\ a.strategy \in Strategies
       /\ \A k \in DOMAIN a.params \cap DOMAIN Catalogue[a.strategy] :
            a.params[k] \in Int \cup {NotANumber, NaN}

\* what propose returns: a proposal, what the proposer remembers, the files it wrote
Returned(p, mem, written) == [raised |-> FALSE, proposal |-> p, memory |-> mem, written |-> written]

NoFiles == [f \in {} |-> 0]

\* an exception that ends the loop
RaisedBy(mem) == [raised |-> TRUE, memory |-> mem]

\* a proposal of the catalogue from raw values; a whole number that is nan raises
Proposes(name, raw, mem) ==
  IF ClampRaises(name, Merged(name, raw)) THEN RaisedBy(mem)
  ELSE Returned(normalise(name, raw), mem, NoFiles)

\* parse_spec: values that are not numbers are skipped
parse_spec(spec) ==
  LET given == IF "params" \in DOMAIN spec THEN spec.params ELSE NoParams
  IN  [name |-> spec.name,
       params |-> [k \in {j \in DOMAIN given : given[j] # NotANumber} |-> given[k]]]

\* the first with the highest score of the entries at the indices given
BestIn(history, indices) ==
  history[CHOOSE i \in indices : \A j \in indices :
            history[j].score < history[i].score \/ (history[j].score = history[i].score /\ i <= j)]

best_entry(history) == BestIn(history, DOMAIN history)

\* nan is not 0, and a multiple of it is nan
perturb(params, draw) ==
  [k \in DOMAIN params |->
     IF params[k] = NaN THEN NaN
     ELSE IF params[k] = 0 THEN draw.fresh ELSE (params[k] \div 100) * draw[k]]

\* normalise(..., self.perturb(...)), of any of the bases
Around(bases, mem) ==
  UNION {{Proposes(base.strategy, raw, mem) : raw \in {perturb(base.params, d) : d \in Draws}} : base \in bases}

----------------------------------------------------------------------------
(* HillClimb, Imitate. *)

HillClimb(sub, history, mem) ==
  IF history = <<>>
  THEN {Proposes(sub.start, NoParams, mem)}
  ELSE Around({best_entry(history).proposal}, mem)

\* the first of the best, in the order of the rows
BestRival(others) ==
  CHOOSE o \in others : \A p \in others : p.mean < o.mean \/ (p.mean = o.mean /\ o.id <= p.id)

Copies(rival, mem) ==
  LET spec == parse_spec(rival.spec)
  IN  Around({Proposal(spec.name, Merged(spec.name, spec.params))}, mem)

\* a coin decides whether rivals are looked at
Imitate(sub, history, report, mem) ==
  LET others == IF report = None \/ sub.info # "rivals" THEN {}
                ELSE {o \in report.others : parse_spec(o.spec).name \in Strategies}
  IN  HillClimb(sub, history, mem) \cup
      IF /\ history # <<>> /\ others # {}
         /\ BestRival(others).mean > best_entry(history).score + Margin
      THEN Copies(BestRival(others), mem)
      ELSE {}

----------------------------------------------------------------------------
(* Bandit.  UCB1's bonus grows with the logarithm of all plays and shrinks *)
(* with an arm's own, by an amount that depends on the scores' scale: any  *)
(* arm may win that no arm beats in both mean and number of plays.         *)

Arms == <<"mm", "momentum", "meanrev">> \* the catalogue in its order

\* by_arm, as the places of an arm's entries in the history
ByArm(history, a) == {i \in DOMAIN history : history[i].proposal.strategy = a}

Untried(history) == {a \in Range(Arms) : ByArm(history, a) = {}}

SumScores(history, plays) == MapThenSumSet(LAMBDA i : history[i].score, plays)

\* on equal upper bounds max takes the earlier arm
Dominates(history, b, a) ==
  LET na == Cardinality(ByArm(history, a))
      nb == Cardinality(ByArm(history, b))
      ma == SumScores(history, ByArm(history, a)) * nb
      mb == SumScores(history, ByArm(history, b)) * na
  IN  /\ mb >= ma /\ nb <= na
      /\ mb > ma \/ nb < na \/ \E i, j \in DOMAIN Arms : i < j /\ Arms[i] = b /\ Arms[j] = a

Winners(history) == {a \in Range(Arms) : ~ \E b \in Range(Arms) : Dominates(history, b, a)}

Bandit(sub, history, mem) ==
  IF Untried(history) # {}
  THEN {Proposes(a, NoParams, mem) :
          a \in IF history = <<>> THEN {Arms[1]} ELSE Untried(history)}
  ELSE Around({BestIn(history, ByArm(history, a)).proposal : a \in Winners(history)}, mem)

----------------------------------------------------------------------------
(* Plugins.  A file's code is named by the generation, the attempt and the *)
(* window it was written with; a library is compiled under its name.       *)

\* mutant: every generation writes the same names
SourceNamedByTry(name, g, attempt) == [subject |-> name, attempt |-> attempt]

SourceFile(name, g, attempt) == [subject |-> name, generation |-> g, attempt |-> attempt]

PluginProposal(path, code) ==
  [strategy |-> "plugin", params |-> NoParams, spec |-> PluginSpec(path), code |-> code]

Code(g, attempt, window) == [generation |-> g, attempt |-> attempt, window |-> window]

MaxTries == 3
DefaultWindow == 300
LeastWindow == 20

\* up to three attempts; each may fail to compile or fail its smoke test, and a refusal raises
ClaudeCode(name, history, mem) ==
  LET g == Len(history)
      Tried(n) == [f \in {SourceFile(name, g, a) : a \in 0..(n - 1)} |-> Code(g, f.attempt, 0)]
  IN  {Returned(PluginProposal(SourceFile(name, g, n - 1), Code(g, n - 1, 0)), mem, Tried(n)) : n \in 1..MaxTries}
        \cup {RaisedBy(mem)}

Unscored == [window |-> DefaultWindow, score |-> None]

\* mutant: the best so far may be replaced by one that is as good
RememberTies(mem, history) ==
  IF history = <<>> THEN mem
  ELSE LET entry == history[Len(history)]
       IN  IF mem.score = None \/ entry.score >= mem.score
           THEN [window |-> entry.proposal.code.window, score |-> entry.score] ELSE mem

\* only the last entry is looked at
Remember(mem, history) ==
  IF history = <<>> THEN mem
  ELSE LET entry == history[Len(history)]
       IN  IF mem.score = None \/ entry.score > mem.score
           THEN [window |-> entry.proposal.code.window, score |-> entry.score] ELSE mem

MockCode(name, history, mem) ==
  LET g == Len(history)
      kept == Remember(mem, history)
      Drawn(d) == (kept.window * d.window) \div 100
      windows == IF g = 0 THEN {DefaultWindow}
                 ELSE {IF Drawn(d) < LeastWindow THEN LeastWindow ELSE Drawn(d) : d \in Draws}
      file == SourceFile(name, g, 0)
  IN  {Returned(PluginProposal(file, Code(g, 0, w)), kept, [f \in {file} |-> Code(g, 0, w)]) : w \in windows}
        \cup {RaisedBy(kept)}

----------------------------------------------------------------------------
(* ClaudeProposer: the schema admits only catalogue strategies; a refusal  *)
(* raises.                                                                 *)

ClaudeParams(mem) == {Proposes(a.strategy, a.params, mem) : a \in Answers} \cup {RaisedBy(mem)}

Rules == {"hillclimb", "imitate", "bandit", "mock-code", "llm-code", "llm"}

\* make_proposer and the propose it leads to
propose(sub, history, report, mem) ==
  CASE sub.rule = "hillclimb" -> HillClimb(sub, history, mem)
    [] sub.rule = "imitate" -> Imitate(sub, history, report, mem)
    [] sub.rule = "bandit" -> Bandit(sub, history, mem)
    [] sub.rule = "mock-code" -> MockCode(sub.name, history, mem)
    [] sub.rule = "llm-code" -> ClaudeCode(sub.name, history, mem)
    [] sub.rule = "llm" -> ClaudeParams(mem)

\* the engine spec of a proposal: its plugin if it carries one
spec_of(p) == IF "spec" \in DOMAIN p THEN p.spec ELSE to_spec(p.strategy, p.params)
=============================================================================
