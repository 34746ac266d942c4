---------------------------- MODULE AgentSession ----------------------------
(***************************************************************************)
(* The experiment directory of agents/session.py: the commands init and    *)
(* evaluate, one file operation a step, and the outside agents who read    *)
(* their briefs and write their answers whenever they please.  A command   *)
(* can be killed, or end with an exception, between any two steps; what it *)
(* held in memory is gone and what it wrote stays.  The scripts that read  *)
(* the directory afterwards are operators on it.                           *)
(*                                                                         *)
(* A measurement (the reports of one batch of engine sessions and all that *)
(* is computed from them) is the number of the batch.  state.json is the   *)
(* one file whose truncation and writing are two steps: it is the one that *)
(* is read back before it has been written again.  One command runs at a   *)
(* time.                                                                   *)
(***************************************************************************)
EXTENDS Proposals, Sequences, SequencesExt, FiniteSets

CONSTANTS
  Subjects,    \* the subjects in the order of config.json: [name, mode, start]
  Submissions, \* per name, what the agent behind it may write into its file
  Generations, \* --generations
  MaxStops,    \* bound on commands killed or ended by a failing session
  Torn         \* a state.json that was truncated and not written

SubjectNames == {Subjects[k].name : k \in DOMAIN Subjects}

ASSUME SessionAssumption ==
  /\ Generations \in Nat \ {0} /\ MaxStops \in Nat
  /\ Subjects \in Seq(Range(Subjects)) \ {<<>>}
  /\ IsInjective([k \in DOMAIN Subjects |-> Subjects[k].name])
  /\ \A k \in DOMAIN Subjects : Subjects[k].mode \in {"params", "code"}
  /\ \A n \in SubjectNames : \A a \in Submissions[n] : "basis" \in DOMAIN a

\* a brief: the lines it shows, the measurement it reports, whether it tells of a failure
Briefs == [lines : SUBSET Nat, report : Nat, failed : BOOLEAN]

ASSUME BriefsAssumption == None \notin Briefs

VARIABLES
  config,     \* config.json exists
  state,      \* state.json: None, Torn or [generation, last, done]
  rows,       \* trajectory.jsonl, one row per line
  genFile,    \* gen_<g>.json, for the generations that have one
  brief,      \* gen_<g>/<name>/brief.md
  target,     \* gen_<g>/<name>/proposal.json or strategy.cpp
  reading,    \* what the agent behind a name has read and not yet answered
  cmd,        \* the running command, with its locals
  batches,    \* measurements taken so far
  stops       \* commands that were stopped

directory == <<config, state, rows, genFile, brief, target>>
sessionVars == <<config, state, rows, genFile, brief, target, reading, cmd, batches, stops>>

Gens == 0 .. Generations - 1
NoSpecs == [n \in SubjectNames |-> None]
Idle == [pc |-> "idle", k |-> 1, gen |-> 0, resolved |-> <<>>, batch |-> 0, last |-> NoSpecs, done |-> FALSE]
Loadable == state \notin {None, Torn}

\* load_history: the lines of a subject, and of a generation of it (trajectory.py load)
LinesOf(name) == {i \in DOMAIN rows : rows[i].subject = name}
Own(name, g) == {i \in LinesOf(name) : rows[i].generation = g}
Library(g, name) == <<g, name>> \* the path of the compiled plugin

NoneYet(gens) == [g \in gens |-> [n \in SubjectNames |-> None]]

SessionInit ==
  /\ config = FALSE /\ state = None /\ rows = <<>>
  /\ genFile = [g \in {} |-> None]
  /\ brief = NoneYet(Gens) /\ target = NoneYet(Gens)
  /\ reading = [n \in SubjectNames |-> None]
  /\ cmd = Idle /\ batches = 0 /\ stops = 0

----------------------------------------------------------------------------
(* session.py init.  With --force it wipes a directory that is not empty;  *)
(* the operator does that to an init that was stopped half way, with no    *)
(* agent at work.                                                          *)

HalfMade == config /\ rows = <<>> /\ \E n \in SubjectNames : brief[0][n] = None

StartInit ==
  /\ cmd.pc = "idle" /\ (~config \/ HalfMade)
  /\ \A n \in SubjectNames : reading[n] = None
  /\ config' = FALSE /\ state' = None
  /\ brief' = NoneYet(Gens) /\ target' = NoneYet(Gens)
  /\ cmd' = [Idle EXCEPT !.pc = "config"]
  /\ UNCHANGED <<rows, genFile, reading, batches, stops>>

WriteConfig ==
  /\ cmd.pc = "config"
  /\ config' = TRUE
  /\ cmd' = [cmd EXCEPT !.pc = "truncate"]
  /\ UNCHANGED <<state, rows, genFile, brief, target, reading, batches, stops>>

\* save_state opens state.json, which empties it, and then writes it
TruncateState ==
  /\ cmd.pc = "truncate"
  /\ state' = Torn
  /\ cmd' = [cmd EXCEPT !.pc = "save"]
  /\ UNCHANGED <<config, rows, genFile, brief, target, reading, batches, stops>>

SaveState ==
  /\ cmd.pc = "save"
  /\ state' = [generation |-> cmd.gen, last |-> cmd.last, done |-> cmd.done]
  /\ cmd' = IF cmd.batch = 0 THEN [cmd EXCEPT !.pc = "briefs", !.k = 1] ELSE Idle
  /\ UNCHANGED <<config, rows, genFile, brief, target, reading, batches, stops>>

----------------------------------------------------------------------------
(* session.py evaluate.                                                    *)

\* anything but a state.json that is there, whole and not done ends the command here
Load ==
  /\ cmd.pc = "idle" /\ config /\ Loadable /\ ~state.done
  /\ cmd' = [Idle EXCEPT !.pc = "resolve", !.gen = state.generation, !.last = state.last]
  /\ UNCHANGED <<directory, reading, batches, stops>>

\* the subjects in turn; the file is read, and compiled and tried, at this step
Resolve ==
  /\ cmd.pc = "resolve"
  /\ \E sub \in {Subjects[cmd.k]} :
     \E r \in resolve_proposal(sub, target[cmd.gen][sub.name], cmd.last[sub.name],
                               Library(cmd.gen, sub.name)) :
       cmd' = IF r = Raised THEN Idle
              ELSE [cmd EXCEPT !.resolved = Append(@, r),
                               !.k = IF @ = Len(Subjects) THEN 1 ELSE @ + 1,
                               !.pc = IF cmd.k = Len(Subjects) THEN "run" ELSE @]
  /\ UNCHANGED <<directory, reading, batches, stops>>

\* all subjects together over the generation's seeds
RunSessions ==
  /\ cmd.pc = "run"
  /\ batches' = batches + 1
  /\ cmd' = [cmd EXCEPT !.pc = "rows", !.batch = batches + 1]
  /\ UNCHANGED <<directory, reading, stops>>

Row(k) ==
  [subject |-> Subjects[k].name, generation |-> cmd.gen, ok |-> cmd.resolved[k].ok,
   spec |-> cmd.resolved[k].spec, batch |-> cmd.batch]

\* mutant: what ran is remembered, whether it was the agent's or the fallback
LastSpecsAlways(k) == [cmd.last EXCEPT ![Subjects[k].name] = cmd.resolved[k].spec]

LastSpecs(k) ==
  IF cmd.resolved[k].ok
  THEN [cmd.last EXCEPT ![Subjects[k].name] = cmd.resolved[k].spec]
  ELSE cmd.last

\* code_gallery.py collect: the last line of a generation wins
Shown(name, g) ==
  IF Own(name, g) = {} THEN None ELSE rows[Max(Own(name, g))]

\* mutant: a repeated evaluate leaves the lines that are already there
LinesOnce(k) == IF Own(Subjects[k].name, cmd.gen) = {} THEN <<Row(k)>> ELSE <<>>

\* what evaluate adds to trajectory.jsonl for a subject
Lines(k) == <<Row(k)>>

AppendRow ==
  /\ cmd.pc = "rows"
  /\ rows' = rows \o Lines(cmd.k)
  /\ cmd' = [cmd EXCEPT !.last = LastSpecs(cmd.k),
                        !.k = IF @ = Len(Subjects) THEN 1 ELSE @ + 1,
                        !.pc = IF cmd.k = Len(Subjects) THEN "gen file" ELSE @]
  /\ UNCHANGED <<config, state, genFile, brief, target, reading, batches, stops>>

\* the last generation writes no briefs
AfterGenFile(gen) ==
  [cmd EXCEPT !.gen = gen, !.done = (gen >= Generations),
              !.pc = IF gen >= Generations THEN "truncate" ELSE "briefs"]

GenRecord == [batch |-> cmd.batch, specs |-> [k \in DOMAIN Subjects |-> cmd.resolved[k].spec]]

WriteGenFile ==
  /\ cmd.pc = "gen file"
  /\ genFile' = [g \in DOMAIN genFile \cup {cmd.gen} |->
       IF g = cmd.gen THEN GenRecord ELSE genFile[g]]
  /\ cmd' = AfterGenFile(cmd.gen + 1)
  /\ UNCHANGED <<config, state, rows, brief, target, reading, batches, stops>>

\* mutant: the brief shows the history as it was when evaluate loaded it
StaleBrief(k) ==
  [lines |-> {i \in LinesOf(Subjects[k].name) : rows[i].batch < cmd.batch},
   report |-> cmd.batch, failed |-> cmd.batch # 0 /\ ~cmd.resolved[k].ok]

\* write_brief, for init (no history, no report) and for evaluate
Brief(k) ==
  [lines |-> LinesOf(Subjects[k].name), report |-> cmd.batch,
   failed |-> cmd.batch # 0 /\ ~cmd.resolved[k].ok]

WriteBrief ==
  /\ cmd.pc = "briefs"
  /\ brief' = [brief EXCEPT ![cmd.gen][Subjects[cmd.k].name] = Brief(cmd.k)]
  /\ cmd' = IF cmd.k < Len(Subjects) THEN [cmd EXCEPT !.k = @ + 1]
            ELSE IF cmd.batch = 0 THEN Idle
            ELSE [cmd EXCEPT !.pc = "truncate"]
  /\ UNCHANGED <<config, state, rows, genFile, target, reading, batches, stops>>

\* the process is killed, or a session it runs fails or times out
Stop ==
  /\ cmd.pc # "idle" /\ stops < MaxStops
  /\ stops' = stops + 1
  /\ cmd' = Idle
  /\ UNCHANGED <<directory, reading, batches>>

----------------------------------------------------------------------------
(* The agents.  status names the generation and the answers that are       *)
(* missing; an agent is sent to its brief then, and answers at any later   *)
(* time, or never.                                                         *)

ReadBrief(n) ==
  /\ Loadable /\ ~state.done /\ reading[n] = None
  /\ target[state.generation][n] = None /\ brief[state.generation][n] # None
  /\ reading' = [reading EXCEPT ![n] =
       [gen |-> state.generation, brief |-> brief[state.generation][n]]]
  /\ UNCHANGED <<directory, cmd, batches, stops>>

Answer(n) ==
  /\ reading[n] # None
  /\ \E a \in Submissions[n] :
       target' = [target EXCEPT ![reading[n].gen][n] = [a EXCEPT !.basis = reading[n].brief]]
  /\ reading' = [reading EXCEPT ![n] = None]
  /\ UNCHANGED <<config, state, rows, genFile, brief, cmd, batches, stops>>

Command == \/ StartInit \/ WriteConfig \/ TruncateState \/ SaveState
           \/ Load \/ Resolve \/ RunSessions \/ AppendRow \/ WriteGenFile \/ WriteBrief

SessionNext == Command \/ Stop \/ \E n \in SubjectNames : ReadBrief(n) \/ Answer(n)

\* the operator runs init and then evaluate until the experiment is done
SessionSpec == SessionInit /\ [][SessionNext]_sessionVars /\ WF_sessionVars(Command)

----------------------------------------------------------------------------
(* Readers of the directory.                                               *)

\* collect.py, latency_trajectory.py and latency_rerun.py stop at the first gen file missing
GenFilesRead == {g \in Gens : 0 .. g \subseteq DOMAIN genFile}

----------------------------------------------------------------------------
(* Properties.                                                             *)

\* Whatever commands were stopped, each generation the state has left behind
\* is recorded: its file is there, no reader stops before it, and for every
\* subject the trajectory and the file speak of one and the same measurement.
\* If nothing was stopped the readers count each generation once.
Recorded ==
  Loadable => \A g \in 0 .. state.generation - 1, k \in DOMAIN Subjects :
    /\ g \in GenFilesRead
    /\ Own(Subjects[k].name, g) # {}
    /\ \E r \in {Shown(Subjects[k].name, g)} :
         r.batch = genFile[g].batch /\ r.spec = genFile[g].specs[k]
    /\ stops = 0 => Cardinality(Own(Subjects[k].name, g)) = 1

\* the spec a subject showed in the last of its first gen generations that worked
LastWorking(n, gen) ==
  LET worked == {g \in 0 .. gen - 1 : Shown(n, g).ok}
  IN  IF worked = {} THEN None ELSE Shown(n, Max(worked)).spec

\* The fallback of a subject is the last of its specs that worked in a
\* generation left behind: never one of a generation that will be run again,
\* never a fallback taken for the agent's own.
FallbackIsLastWorking ==
  Loadable => \A n \in SubjectNames : state.last[n] = LastWorking(n, state.generation)

\* Once the state names a generation, everyone who is asked for an answer has
\* a brief that tells the measurement the generation before was recorded with,
\* and whether its own submission failed there.
TellsTheRecord(b, n, g) ==
  /\ b # None
  /\ b.report = genFile[g].batch
  /\ b.lines # {} /\ rows[Max(b.lines)] = Shown(n, g)
  /\ b.failed = ~Shown(n, g).ok

\* And an answer that evaluate will read was written to the brief that is in
\* the directory now: no stopped and repeated command changes a brief under an
\* agent that works on it.
Briefed ==
  Loadable /\ ~state.done => \A n \in SubjectNames : \E b \in {brief[state.generation][n]} :
    /\ state.generation > 0 => TellsTheRecord(b, n, state.generation - 1)
    /\ target[state.generation][n] # None => target[state.generation][n].basis = b

\* The experiment ends although an agent never answers, answers late or
\* answers nonsense, unless a stop left state.json empty or an answer is one
\* that makes every evaluate raise.
Unusable(n) ==
  /\ Loadable /\ ~state.done
  /\ \E k \in DOMAIN Subjects : Subjects[k].name = n /\
       target[state.generation][n] # None /\
       Raised \in resolve_proposal(Subjects[k], target[state.generation][n],
                                   state.last[n], Library(state.generation, n))

Finishes == <>[]( \/ Loadable /\ state.done
                  \/ state = Torn
                  \/ \E n \in SubjectNames : Unusable(n) )
=============================================================================
