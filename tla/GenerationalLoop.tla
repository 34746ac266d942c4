-------------------------- MODULE GenerationalLoop --------------------------
(***************************************************************************)
(* agents/loop.py: every generation each subject proposes a strategy from  *)
(* its history and a report on the last generation (AdaptRules), the       *)
(* engine runs all subjects and a fixed background on several seeds, a few *)
(* sessions at a time (scripts/sweep.py), and the results are recorded.    *)
(*                                                                         *)
(* An agent's mean PnL stands for every statistic of its row.  A session   *)
(* pays its agents by one member of Payoffs.                               *)
(***************************************************************************)
EXTENDS AdaptRules

CONSTANTS
  CommandLines, \* records subjects, background, generations, seeds, parallel
  Payoffs       \* functions from the ids of the agents to their PnL

\* whether parse_spec finds numbers, nan among them, or what it skips
Readable(spec) ==
  spec.name \in Strategies /\ "params" \in DOMAIN spec =>
    \A k \in DOMAIN spec.params : spec.params[k] \in Int \cup {NotANumber, NaN}

ASSUME CommandLinesAssumption ==
  \A c \in CommandLines :
    /\ c.seeds \in Nat \ {0} /\ c.generations \in Nat \ {0}
    /\ c.subjects \in Seq(Range(c.subjects)) \ {<<>>}
    /\ IsInjective([i \in DOMAIN c.subjects |-> c.subjects[i].name])
    /\ \A i \in DOMAIN c.subjects : c.subjects[i].rule \in Rules /\ c.subjects[i].start \in Strategies
    /\ c.background \in Seq(Range(c.background))
    /\ \A k \in DOMAIN c.background : Readable(c.background[k])

ASSUME PayoffsAssumption ==
  \A p \in Payoffs, c \in CommandLines :
    \A k \in 1..(Len(c.background) + Len(c.subjects)) : p[k - 1] \in Int

VARIABLES
  args,       \* the command line
  pc,         \* where main is: "propose", "sessions", "failing", "failed", "done"
  gen, turn,  \* the generation, the next subject to propose
  proposals,  \* this generation's, by subject name
  shown,      \* the report each subject was last given
  memory,     \* what a proposer keeps between its proposals
  history,    \* entries by subject name
  last,       \* rows and specs of the last generation, or None
  specs,      \* what this generation's sessions run
  session,    \* by seed: a record with kind "waiting", "running", "failed", "cancelled" or "ended"
  collected,  \* the results pool.map has handed to main
  tmp,        \* the seeds whose temporary report file exists
  files,      \* the plugins on disk: path to the code they hold
  trajectory, \* trajectory.jsonl
  genFiles    \* gen_<k>.json in order of k

asking == <<turn, proposals, shown, memory, files>>
running == <<session, collected, tmp>>
records == <<history, last, trajectory, genFiles>>
vars == <<args, pc, gen, specs, asking, running, records>>

Names == {args.subjects[i].name : i \in DOMAIN args.subjects}
Turns == DOMAIN args.subjects
Seeds == 1..args.seeds
n_bg == Len(args.background)

\* mutant: the row of a subject is looked up as if there were no background
PositionOfSubject(i) == i - 1

\* the engine's id of the i-th subject: ids count from 0
IdOf(i) == n_bg + i - 1

----------------------------------------------------------------------------
(* Sessions and their summary. *)

\* --agent and --plugin go to the engine in the order of the specs, and ids follow it
Report(seed, payoff) ==
  [kind |-> "ended", seed |-> seed,
   agents |-> {[id |-> k - 1, spec |-> specs[k], pnl |-> payoff[k - 1]] : k \in DOMAIN specs}]

PnlOf(id, report) == (CHOOSE a \in report.agents : a.id = id).pnl

\* the sum of the first n values of a function
Total(values, n) ==
  LET sum[k \in 0..n] == IF k = 0 THEN 0 ELSE sum[k - 1] + values[k]
  IN  sum[n]

MeanPnl(id, reports) ==
  Total([s \in DOMAIN reports |-> PnlOf(id, reports[s])], Len(reports)) \div Len(reports)

\* grouped by id over all reports, sorted by it
summarise(reports) ==
  [k \in DOMAIN specs |-> [id |-> k - 1, mean |-> MeanPnl(k - 1, reports)]]

----------------------------------------------------------------------------
(* What a subject is told. *)

\* mutant: the specs are those about to run
SpecsAboutToRun ==
  args.background \o [i \in Turns |->
    LET name == args.subjects[i].name
    IN  IF i < turn THEN spec_of(proposals[name]) ELSE last.specs[IdOf(i) + 1]]

SpecsBehind == last.specs

Others(id) ==
  {[id |-> row.id, spec |-> SpecsBehind[row.id + 1], mean |-> row.mean] :
     row \in {r \in Range(last.rows) : r.id # id}}

build_report(i) ==
  LET you == last.rows[IdOf(i) + 1].mean
  IN  IF args.subjects[i].info = "rivals"
      THEN [you |-> you, others |-> Others(IdOf(i))]
      ELSE [you |-> you]

----------------------------------------------------------------------------
Init ==
  /\ args \in CommandLines
  /\ pc = "propose" /\ gen = 0 /\ turn = 1
  /\ proposals = [n \in Names |-> None] /\ shown = [n \in Names |-> None]
  /\ memory = [n \in Names |-> Unscored]
  /\ history = [n \in Names |-> <<>>]
  /\ last = None
  /\ specs = <<>> /\ session = <<>> /\ collected = 0 /\ tmp = {}
  /\ files = NoFiles
  /\ trajectory = <<>> /\ genFiles = <<>>

\* the next subject's proposer, with its history and its report
Propose ==
  /\ pc = "propose" /\ turn \in Turns
  /\ \E sub \in {args.subjects[turn]}, report \in {IF last = None THEN None ELSE build_report(turn)} :
       \E out \in propose(sub, history[sub.name], report, memory[sub.name]) :
           IF out.raised
           THEN /\ pc' = "failed"
                /\ UNCHANGED asking
           ELSE /\ proposals' = [proposals EXCEPT ![sub.name] = out.proposal]
                /\ memory' = [memory EXCEPT ![sub.name] = out.memory]
                /\ files' = [f \in DOMAIN files \cup DOMAIN out.written |->
                               IF f \in DOMAIN out.written THEN out.written[f] ELSE files[f]]
                /\ shown' = [shown EXCEPT ![sub.name] = report]
                /\ turn' = turn + 1
                /\ UNCHANGED pc
  /\ UNCHANGED <<args, gen, specs, running, records>>

\* all have proposed: the seeds are handed to the pool
Submit ==
  /\ pc = "propose" /\ turn \notin Turns
  /\ specs' = args.background \o [i \in Turns |-> spec_of(proposals[args.subjects[i].name])]
  /\ session' = [s \in Seeds |-> [kind |-> "waiting"]]
  /\ collected' = 0
  /\ pc' = "sessions"
  /\ UNCHANGED <<args, gen, asking, tmp, records>>

Workers == IF args.parallel > 1 THEN args.parallel ELSE 1

InState(kind) == {s \in DOMAIN session : session[s].kind = kind}

\* mutant: --parallel 0 gives a pool without workers
FreeWithZero == Cardinality(InState("running")) < args.parallel

FreeWorker == Cardinality(InState("running")) < Workers

\* run_one on a worker: seeds are taken in order
StartSession(s) ==
  /\ FreeWorker
  /\ s \in InState("waiting") /\ \A r \in InState("waiting") : s <= r
  /\ session' = [session EXCEPT ![s] = [kind |-> "running"]]
  /\ tmp' = tmp \cup {s}
  /\ UNCHANGED <<args, pc, gen, specs, collected, asking, records>>

\* mutant: the file is removed only when the session ended well
RemoveIfEnded(s, result) == IF result.kind = "ended" THEN tmp \ {s} ELSE tmp

\* the finally of run_one
RemoveTemporary(s, result) == tmp \ {s}

\* the engine exits with a report, or fails or times out; either way the file goes
EndSession(s) ==
  /\ s \in InState("running")
  /\ \E result \in {Report(s, payoff) : payoff \in Payoffs} \cup {[kind |-> "failed"]} :
       /\ session' = [session EXCEPT ![s] = result]
       /\ tmp' = RemoveTemporary(s, result)
  /\ UNCHANGED <<args, pc, gen, specs, collected, asking, records>>

\* pool.map hands over results in the order of the seeds, whatever order they came in
Collect ==
  /\ pc = "sessions"
  /\ collected + 1 \in InState("ended")
  /\ collected' = collected + 1
  /\ UNCHANGED <<args, pc, gen, specs, session, tmp, asking, records>>

\* the first failed result raises: what has not started is cancelled
Abandon ==
  /\ pc = "sessions"
  /\ collected + 1 \in InState("failed")
  /\ session' = [s \in DOMAIN session |->
                   IF s \in InState("waiting") THEN [kind |-> "cancelled"] ELSE session[s]]
  /\ pc' = "failing"
  /\ UNCHANGED <<args, gen, specs, collected, tmp, asking, records>>

\* the pool is left once its workers are done
LeavePool ==
  /\ pc = "failing" /\ InState("running") = {}
  /\ pc' = "failed"
  /\ UNCHANGED <<args, gen, specs, running, asking, records>>

Entry(i, rows) ==
  [proposal |-> proposals[args.subjects[i].name], score |-> rows[IdOf(i) + 1].mean]

\* history, trajectory.jsonl and gen_<k>.json, and what the next reports are built from
Record ==
  /\ pc = "sessions" /\ collected = args.seeds
  /\ \E rows \in {summarise(session)} :
     LET entry(name) == Entry(CHOOSE i \in Turns : args.subjects[i].name = name, rows)
     IN  /\ history' = [n \in Names |-> Append(history[n], entry(n))]
         /\ trajectory' = trajectory \o
              [i \in Turns |-> [generation |-> gen, subject |-> args.subjects[i].name, score |-> Entry(i, rows).score]]
         /\ genFiles' = Append(genFiles, [specs |-> specs, runs |-> session, rows |-> rows])
         /\ last' = [rows |-> rows, specs |-> specs]
  /\ gen' = gen + 1 /\ turn' = 1
  /\ pc' = IF gen + 1 < args.generations THEN "propose" ELSE "done"
  /\ UNCHANGED <<args, specs, proposals, shown, memory, files, running>>

Ended == pc \in {"done", "failed"} /\ UNCHANGED vars

Next ==
  \/ Propose \/ Submit \/ Collect \/ Abandon \/ LeavePool \/ Record
  \/ \E s \in DOMAIN session : StartSession(s) \/ EndSession(s)
  \/ Ended

\* main runs, the pool's workers are threads that run, and the engine's
\* sessions end by themselves or by the timeout of run_one
Fairness ==
  /\ WF_vars(Propose \/ Submit \/ Collect \/ Abandon \/ LeavePool \/ Record)
  /\ WF_vars(\E s \in DOMAIN session : StartSession(s))
  /\ WF_vars(\E s \in DOMAIN session : EndSession(s))

Spec == Init /\ [][Next]_vars /\ Fairness

----------------------------------------------------------------------------
(* Properties. *)

\* The evidence for a subject's g-th entry: the reports in gen_<g-1>.json.
RunsOf(g) == genFiles[g].runs

\* What is recorded is what happened: every entry of a subject's history and
\* its line of trajectory.jsonl give the mean of what the engine reported for
\* the agent that ran that very proposal, although sessions end in any order
\* and ids count the background; and a plugin an entry names still holds the
\* code that ran (agents/loop.py main, scripts/sweep.py).
RecordsWhatRan ==
  \A i \in Turns :
    LET name == args.subjects[i].name
    IN  \A g \in DOMAIN history[name] :
          LET entry == history[name][g]
              mine == {a \in UNION {RunsOf(g)[s].agents : s \in Seeds} : a.id = Len(args.background) + i - 1}
              line == (g - 1) * Len(args.subjects) + i
          IN  /\ \A a \in mine : a.spec = spec_of(entry.proposal)
              /\ entry.score = Total([s \in Seeds |-> (CHOOSE a \in RunsOf(g)[s].agents : a \in mine).pnl], args.seeds)
                                 \div args.seeds
              /\ trajectory[line] = [generation |-> g - 1, subject |-> name, score |-> entry.score]
              /\ "code" \in DOMAIN entry.proposal =>
                   files[entry.proposal.spec.path] = entry.proposal.code

\* A report tells the truth about the generation it is about: a subject's own
\* result is that of its last entry, it is not among its rivals, everyone else
\* is, and each rival's result stands beside the strategy that earned it, even
\* while other subjects have already moved on to their next proposal
\* (agents/loop.py build_report).
ReportTellsTheTruth ==
  \A i \in Turns :
    LET name == args.subjects[i].name
        report == shown[name]
        told == genFiles[gen]
        ran(id) == {a.spec : a \in {b \in told.runs[1].agents : b.id = id}}
    IN  report # None /\ i < turn =>
          /\ report.you = history[name][gen].score
          /\ args.subjects[i].info = "rivals" =>
               /\ {o.id : o \in report.others} = (0..(Len(told.specs) - 1)) \ {Len(args.background) + i - 1}
               /\ \A o \in report.others : ran(o.id) = {o.spec} /\ o.mean = told.rows[o.id + 1].mean

\* The rules build on the whole history although they keep little of it: a
\* mock plugin writer that only ever looks at the last entry knows the window
\* of the first of the best, and a bandit tries every class once before it
\* tries one again (agents/codegen.py, agents/adapt.py).
RulesLearn ==
  \A i \in Turns :
    LET sub == args.subjects[i]
        h == history[sub.name]
    IN  /\ sub.rule = "mock-code" /\ h # <<>> /\ i < turn =>
             memory[sub.name] = [window |-> best_entry(h).proposal.code.window, score |-> best_entry(h).score]
        /\ sub.rule = "bandit" =>
             \A j, k \in DOMAIN h : j < k /\ k <= 3 => h[j].proposal.strategy # h[k].proposal.strategy

\* the fractions of a spec that are nan
Nans(spec) ==
  {<<spec.name, k>> : k \in {j \in DOMAIN parse_spec(spec).params : parse_spec(spec).params[j] = NaN}}

\* what the agents other than the i-th subject have ever run with
RanBeside(i) ==
  {genFiles[g].specs[k] : g \in DOMAIN genFiles, k \in (1..(n_bg + Len(args.subjects))) \ {n_bg + i}}

NansAround(i) == UNION {Nans(spec) : spec \in RanBeside(i)}

\* the parameters the i-th subject may have a nan for: a model may answer one,
\* and an imitator may copy one
MayBeNaN(i, name, k) ==
  \/ args.subjects[i].rule = "llm"
  \/ /\ args.subjects[i].rule = "imitate" /\ args.subjects[i].info = "rivals"
     /\ <<name, k>> \in NansAround(i)

InBounds(name, k, v) == v \in Catalogue[name][k].lo .. Catalogue[name][k].hi

\* Whatever is perturbed, copied from a rival or answered by a model, what a
\* subject sends to the market has all the parameters of its strategy and no
\* others, its numbers are in the catalogue's bounds, whole where they must be,
\* and a trend follower's slow window is longer than its fast one.  A fraction
\* that is nan passes clamp_params and is the one exception: it is there only
\* if a model answered it, or if some other agent has run with a nan for that
\* very parameter of that strategy and the subject imitates rivals
\* (agents/catalogue.py clamp_params, agents/adapt.py).
StaysInCatalogue ==
  \A i \in Turns :
    LET p == proposals[args.subjects[i].name]
    IN  p # None /\ "spec" \notin DOMAIN p =>
          /\ DOMAIN p.params = DOMAIN Catalogue[p.strategy]
          /\ \A k \in DOMAIN p.params :
               IF p.params[k] = NaN
               THEN k \notin IntParams /\ MayBeNaN(i, p.strategy, k)
               ELSE /\ InBounds(p.strategy, k, p.params[k])
                    /\ k \in IntParams => p.params[k] % One = 0
          /\ p.strategy = "momentum" => p.params.slow > p.params.fast

\* What clamp_params says it does: every value of a proposal that is not a
\* plugin is within the bounds of the catalogue, nan or not
\* (agents/catalogue.py:75).
ClampedIntoBounds ==
  \A n \in Names :
    LET p == proposals[n]
    IN  p # None /\ "spec" \notin DOMAIN p =>
          \A k \in DOMAIN p.params : InBounds(p.strategy, k, p.params[k])

\* The loop ends, completed or with an error, with no temporary report left
\* behind, whatever sessions fail (agents/loop.py main, sweep.run_one).
FinishesClean == <>(pc \in {"done", "failed"} /\ tmp = {})
=============================================================================
