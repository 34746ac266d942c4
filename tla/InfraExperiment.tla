-------------------------- MODULE InfraExperiment --------------------------
(***************************************************************************)
(* The infrastructure experiment of experiments/infra/run.py: init builds  *)
(* a baseline and freezes what candidates are measured against, evaluate   *)
(* builds one candidate and measures it against the baseline on the        *)
(* training seeds, finalize freezes the choice of a generation and         *)
(* measures it on the held-out seeds, once.  One command runs at a time.   *)
(* It can stop between any two steps: killed, or by the exception of a     *)
(* compiler, a sanitizer run or a session that fails or hangs.             *)
(*                                                                         *)
(* An artifact is the host (the sources and the engine binary fixed_hashes *)
(* covers) or a plugin, subject.so of the baseline or of a generation.  A  *)
(* hash differs from the recorded one exactly when the artifact has been   *)
(* changed since.                                                          *)
(***************************************************************************)
EXTENDS Naturals, Sequences, FiniteSets

CONSTANTS
  Seeds,       \* --seeds; there are as many training seeds as held-out ones
  Regimes,     \* the number of background populations
  MaxGens,     \* bound on the generations tried
  MaxStops,    \* bound on commands that stop half way
  MaxInvalid,  \* bound on sessions that break a validity rule
  MaxChanges,  \* bound on artifacts changed behind the runner's back
  NoFile         \* a file that does not exist

\* a line of raw.jsonl, a feedback.json, and a directory of a generation or of the held-out seeds
Rows == [regime : Nat, seed : Nat, variant : {"baseline", "candidate"}, valid : BOOLEAN, asFrozen : BOOLEAN]
Feedbacks == [0 .. Regimes - 1 -> [{"baseline", "candidate"} -> [sessions : Nat, valid : Nat]]]
Directories == [built : BOOLEAN, rows : Seq(Rows), feedback : {NoFile} \cup Feedbacks]

ASSUME InfraAssumption ==
  /\ Seeds \in Nat \ {0} /\ Regimes \in Nat \ {0}
  /\ MaxGens \in Nat /\ MaxStops \in Nat /\ MaxInvalid \in Nat /\ MaxChanges \in Nat
  /\ NoFile \notin [generation : Nat] /\ NoFile \notin Directories

VARIABLES
  out,       \* the experiment's directory exists
  config,    \* config.json exists
  baseline,  \* baseline/build.json exists, so all its checks passed
  dirs,      \* per generation: NoFile or what gen_<n> holds
  heldout,   \* NoFile or what heldout/ holds
  selection, \* selection.json: NoFile or the generation selected
  published, \* out/feedback.json and the generations brief.md lists
  changed,   \* artifacts whose content is no longer the recorded one
  cmd,       \* the running command: its step and its generation
  stops, invalid

vars == <<out, config, baseline, dirs, heldout, selection, published, changed, cmd, stops, invalid>>

Idle == [pc |-> "idle", gen |-> 0, final |-> FALSE]
At(pc) == cmd.pc = pc
Goto(pc) == cmd' = [cmd EXCEPT !.pc = pc]

Artifact(kind, g) == [kind |-> kind, gen |-> g]
Host == Artifact("host", 0)
Baseline == Artifact("baseline", 0)
Candidate(g) == Artifact("candidate", g)

NewDir == [built |-> FALSE, rows |-> <<>>, feedback |-> NoFile]
Gens == {g \in 0 .. MaxGens - 1 : dirs[g] # NoFile}
Completed(g) == g \in Gens /\ dirs[g].feedback # NoFile

Init ==
  /\ out = FALSE /\ config = FALSE /\ baseline = FALSE
  /\ dirs = [g \in 0 .. MaxGens - 1 |-> NoFile]
  /\ heldout = NoFile /\ selection = NoFile
  /\ published = [feedback |-> NoFile, listed |-> {}]
  /\ changed = {} /\ cmd = Idle /\ stops = 0 /\ invalid = 0

----------------------------------------------------------------------------
(* init.  mkdir(exist_ok=False): an init that stopped is not repeated.     *)

MakeDirectory ==
  /\ At("idle") /\ ~out
  /\ out' = TRUE
  /\ Goto("config")
  /\ UNCHANGED <<config, baseline, dirs, heldout, selection, published, changed, stops, invalid>>

WriteConfig ==
  /\ At("config")
  /\ config' = TRUE
  /\ Goto("baseline")
  /\ UNCHANGED <<out, baseline, dirs, heldout, selection, published, changed, stops, invalid>>

BuildBaseline ==
  /\ At("baseline")
  /\ baseline' = TRUE
  /\ Goto("brief")
  /\ UNCHANGED <<out, config, dirs, heldout, selection, published, changed, stops, invalid>>

----------------------------------------------------------------------------
(* What evaluate and finalize check before they begin.                     *)

\* mutant: the freeze is not looked at
MayStartUnfrozen == At("idle") /\ config /\ baseline /\ {Host, Baseline} \cap changed = {}

\* mutant: only the sources and the engine are compared, not the baseline's plugin
MayStartUnchecked == At("idle") /\ config /\ baseline /\ selection = NoFile /\ Host \notin changed

MayStart ==
  /\ At("idle") /\ config /\ baseline
  /\ selection = NoFile
  /\ {Host, Baseline} \cap changed = {}

\* the next number is the count of gen_* directories, failed ones included
StartEvaluate ==
  /\ MayStart
  /\ \E g \in {Cardinality(Gens)} :
       /\ g < MaxGens
       /\ cmd' = [pc |-> "mkdir", gen |-> g, final |-> FALSE]
  /\ UNCHANGED <<out, config, baseline, dirs, heldout, selection, published, changed, stops, invalid>>

\* mutant: a generation that was built will do
SelectableOnceBuilt(g) == g \in Gens /\ dirs[g].built

\* gen_<g>/feedback.json exists
Selectable(g) == Completed(g)

StartFinalize(g) ==
  /\ MayStart /\ Selectable(g)
  /\ cmd' = [pc |-> "mkdir", gen |-> g, final |-> TRUE]
  /\ UNCHANGED <<out, config, baseline, dirs, heldout, selection, published, changed, stops, invalid>>

----------------------------------------------------------------------------
(* evaluate: the candidate's directory, its build and its checks.          *)

MakeGeneration ==
  /\ At("mkdir") /\ ~cmd.final
  /\ dirs[cmd.gen] = NoFile
  /\ dirs' = [dirs EXCEPT ![cmd.gen] = NewDir]
  /\ Goto("build")
  /\ UNCHANGED <<out, config, baseline, heldout, selection, published, changed, stops, invalid>>

\* three compilations, then the reference and the host check under sanitizers
Build ==
  /\ At("build")
  /\ dirs' = [dirs EXCEPT ![cmd.gen].built = TRUE]
  /\ Goto("run")
  /\ UNCHANGED <<out, config, baseline, heldout, selection, published, changed, stops, invalid>>

(* finalize: the held-out directory, the freeze, and only then the check   *)
(* that the selected plugin is still the one that was built.               *)

\* mkdir() raises when a finalize has been here before
MakeHeldout ==
  /\ At("mkdir") /\ cmd.final
  /\ IF heldout = NoFile THEN heldout' = NewDir /\ Goto("select")
                       ELSE heldout' = heldout /\ cmd' = Idle
  /\ UNCHANGED <<out, config, baseline, dirs, selection, published, changed, stops, invalid>>

Select ==
  /\ At("select")
  /\ selection' = [generation |-> cmd.gen]
  /\ Goto("verify")
  /\ UNCHANGED <<out, config, baseline, dirs, heldout, published, changed, stops, invalid>>

Verify ==
  /\ At("verify")
  /\ IF Candidate(cmd.gen) \in changed THEN cmd' = Idle ELSE Goto("run")
  /\ UNCHANGED <<out, config, baseline, dirs, heldout, selection, published, changed, stops, invalid>>

----------------------------------------------------------------------------
(* The sessions: for every regime and seed a pair, one session with each   *)
(* plugin.  Session p of a command, counting from 1:                       *)

Sessions == 2 * Regimes * Seeds
RegimeOf(p) == ((p - 1) \div 2) \div Seeds
SeedOf(p) == ((p - 1) \div 2) % Seeds

\* mutant: the order alternates over the seeds only
ReversedBySeed(regime, seed) == seed % 2 = 1

\* variants.reverse()
Reversed(regime, seed) == (regime + seed) % 2 = 1

VariantOf(p) ==
  IF (p % 2 = 1) = Reversed(RegimeOf(p), SeedOf(p)) THEN "candidate" ELSE "baseline"

Row(p, valid) ==
  [regime |-> RegimeOf(p), seed |-> SeedOf(p), variant |-> VariantOf(p), valid |-> valid,
   asFrozen |-> {Host, IF VariantOf(p) = "baseline" THEN Baseline ELSE Candidate(cmd.gen)}
                  \cap changed = {}]

Dir == IF cmd.final THEN heldout ELSE dirs[cmd.gen]

SetDir(d) ==
  IF cmd.final THEN heldout' = d /\ dirs' = dirs
               ELSE dirs' = [dirs EXCEPT ![cmd.gen] = d] /\ heldout' = heldout

\* a session that ends, valid or not, is flushed to raw.jsonl
RunSession ==
  /\ At("run") /\ Len(Dir.rows) < Sessions
  /\ \E valid \in BOOLEAN :
       /\ valid \/ invalid < MaxInvalid
       /\ invalid' = IF valid THEN invalid ELSE invalid + 1
       /\ SetDir([Dir EXCEPT !.rows = Append(@, Row(Len(@) + 1, valid))])
  /\ UNCHANGED <<out, config, baseline, selection, published, changed, cmd, stops>>

Of(rows, regime, variant) ==
  {p \in DOMAIN rows : rows[p].regime = regime /\ rows[p].variant = variant}

\* summarize: invalid sessions are counted, and stay in the medians
summarize(rows) ==
  [regime \in 0 .. Regimes - 1 |-> [variant \in {"baseline", "candidate"} |->
     [sessions |-> Cardinality(Of(rows, regime, variant)),
      valid |-> Cardinality({p \in Of(rows, regime, variant) : rows[p].valid})]]]

WriteFeedback ==
  /\ At("run") /\ Len(Dir.rows) = Sessions
  /\ SetDir([Dir EXCEPT !.feedback = summarize(Dir.rows)])
  /\ IF cmd.final THEN cmd' = Idle ELSE Goto("publish")
  /\ UNCHANGED <<out, config, baseline, selection, published, changed, stops, invalid>>

\* the copy the proposer reads
Publish ==
  /\ At("publish")
  /\ published' = [published EXCEPT !.feedback = dirs[cmd.gen].feedback]
  /\ Goto("brief")
  /\ UNCHANGED <<out, config, baseline, dirs, heldout, selection, changed, stops, invalid>>

\* brief, of init and of evaluate: it lists every gen_* directory
WriteBrief ==
  /\ At("brief")
  /\ published' = [published EXCEPT !.listed = Gens]
  /\ cmd' = Idle
  /\ UNCHANGED <<out, config, baseline, dirs, heldout, selection, changed, stops, invalid>>

Stop ==
  /\ ~At("idle") /\ stops < MaxStops
  /\ stops' = stops + 1
  /\ cmd' = Idle
  /\ UNCHANGED <<out, config, baseline, dirs, heldout, selection, published, changed, invalid>>

\* between commands somebody rebuilds or edits an artifact
Change(a) ==
  /\ At("idle") /\ config /\ Cardinality(changed) < MaxChanges
  /\ changed' = changed \cup {a}
  /\ UNCHANGED <<out, config, baseline, dirs, heldout, selection, published, cmd, stops, invalid>>

Next ==
  \/ MakeDirectory \/ WriteConfig \/ BuildBaseline
  \/ StartEvaluate \/ MakeGeneration \/ Build
  \/ \E g \in 0 .. MaxGens - 1 : StartFinalize(g)
  \/ MakeHeldout \/ Select \/ Verify
  \/ RunSession \/ WriteFeedback \/ Publish \/ WriteBrief
  \/ Stop
  \/ \E a \in {Host, Baseline} \cup {Candidate(g) : g \in Gens} : Change(a)

Spec == Init /\ [][Next]_vars

----------------------------------------------------------------------------
(* Properties.                                                             *)

\* No held-out session runs before the choice is frozen, and the choice is a
\* generation whose training was measured to the end; a finalize that stopped
\* is not tried again with another generation, so all held-out rows are of one.
HeldoutAfterSelection ==
  /\ heldout # NoFile /\ heldout.rows # <<>> => selection # NoFile
  /\ selection # NoFile => Completed(selection.generation)
  /\ At("run") /\ cmd.final => selection # NoFile /\ selection.generation = cmd.gen

\* Once the choice is frozen no generation is added, measured or summarised
\* again and the choice never changes.
FrozenBySelection == [][selection # NoFile => selection' = selection /\ dirs' = dirs]_vars

AllDirs == {dirs[g] : g \in Gens} \cup (IF heldout = NoFile THEN {} ELSE {heldout})

\* What is summarised is complete (every regime and seed once with either
\* plugin), and drift cannot favour a plugin: within every regime they lead
\* equally often up to one pair, and over two regimes exactly.
Counterbalanced ==
  \A d \in AllDirs : d.feedback # NoFile =>
    /\ \A r \in 0 .. Regimes - 1, v \in {"baseline", "candidate"} :
         /\ d.feedback[r][v].sessions = Seeds
         /\ {d.rows[p].seed : p \in Of(d.rows, r, v)} = 0 .. Seeds - 1
    /\ \E leads \in {[r \in 0 .. Regimes - 1 |->
                       Cardinality({p \in Of(d.rows, r, "baseline") : p % 2 = 1})]} :
         /\ \A r \in 0 .. Regimes - 1 : 2 * leads[r] \in Seeds - 1 .. Seeds + 1
         /\ Regimes = 2 => leads[0] + leads[1] = Seeds

\* Every row was measured on the host, the baseline and the candidate that
\* were recorded, although they may be rebuilt between any two commands.
MeasuredAsFrozen == \A d \in AllDirs : \A p \in DOMAIN d.rows : d.rows[p].asFrozen
=============================================================================
