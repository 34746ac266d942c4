---------------------------- MODULE MatrixRunner ----------------------------
(***************************************************************************)
(* The drivers that measure a matrix of cells over several rounds, one     *)
(* session at a time, and the summaries made of their rows.  They differ   *)
(* in six ways, and a driver is a record of these:                         *)
(*   shuffled  a round takes the cells in a random order, or as listed     *)
(*   sentinel  a round begins and ends with one more, fixed, cell          *)
(*   tolerant  a session without a usable report becomes a row, or ends    *)
(*             the run with an exception                                   *)
(*   judged    an invalid session is recorded as one, ends the run by an   *)
(*             assertion, or is not told from a valid one                  *)
(*   flushed   a row is in raw.jsonl as soon as it is measured, or all     *)
(*             rows stay in memory                                         *)
(*   summary   a summary is written at the end of the last round           *)
(***************************************************************************)
EXTENDS Matrices, Sequences, SequencesExt, FiniteSetsExt

CONSTANTS
  Cells,    \* the cells of the run, in the order they are listed
  Sentinel, \* the sentinel cell
  Rounds,   \* --repeats, or the seeds of latency_rerun
  MaxBad    \* bound on sessions that do not end well or measure 0

ASSUME RunnerAssumption ==
  /\ Rounds \in Nat \ {0} /\ MaxBad \in Nat
  /\ Cells \in Seq(ToSet(Cells)) \ {<<>>}
  /\ IsInjective(Cells) /\ Sentinel \notin ToSet(Cells)

strategy_threads ==
  [shuffled |-> TRUE, sentinel |-> FALSE, tolerant |-> TRUE, judged |-> "recorded", flushed |-> TRUE, summary |-> FALSE]
systems ==
  [shuffled |-> TRUE, sentinel |-> TRUE, tolerant |-> FALSE, judged |-> "recorded", flushed |-> TRUE, summary |-> TRUE]
architecture ==
  [shuffled |-> TRUE, sentinel |-> FALSE, tolerant |-> FALSE, judged |-> "asserted", flushed |-> TRUE, summary |-> FALSE]
latency_rerun ==
  [shuffled |-> FALSE, sentinel |-> FALSE, tolerant |-> FALSE, judged |-> "no", flushed |-> FALSE, summary |-> TRUE]

VARIABLES
  driver,  \* which program runs
  round, order, pos, \* the round, its order and the position in it
  rows,    \* the rows measured so far
  raw,     \* raw.jsonl
  summary, \* summary.json or what is printed: None or the rows it was made of
  pc, bad

runnerVars == <<driver, round, order, pos, rows, raw, summary, pc, bad>>

RunnerInit ==
  /\ driver \in {strategy_threads, systems, architecture, latency_rerun}
  /\ round = 0 /\ order = <<>> /\ pos = 1
  /\ rows = <<>> /\ raw = <<>> /\ summary = None
  /\ pc = "round" /\ bad = 0

----------------------------------------------------------------------------
(* The rounds.                                                             *)

Orders == IF driver.shuffled THEN SetToSeqs(ToSet(Cells)) ELSE {Cells}

StartRound ==
  /\ pc = "round" /\ round < Rounds
  /\ \E o \in Orders :
       order' = IF driver.sentinel THEN <<Sentinel>> \o o \o <<Sentinel>> ELSE o
  /\ pos' = 1 /\ pc' = "session"
  /\ UNCHANGED <<driver, round, rows, raw, summary, bad>>

RowOf(outcome) == [round |-> round, cell |-> order[pos], outcome |-> outcome]

\* mutant: the next session starts over at the head of the list after one that was lost
NextAfterLoss == IF rows # <<>> /\ rows[Len(rows)].outcome = "noReport" THEN pos ELSE pos + 1

\* position of the session after this one
NextPos == pos + 1

Record(outcome) ==
  /\ rows' = Append(rows, RowOf(outcome))
  /\ raw' = IF driver.flushed THEN Append(raw, RowOf(outcome)) ELSE raw
  /\ pos' = NextPos
  /\ IF NextPos <= Len(order) THEN pc' = "session" /\ round' = round
                              ELSE pc' = "round" /\ round' = round + 1

\* the session ran to its end; a validity rule, a dropped message or an assertion
\* may refuse it, and the metric that is compared may be 0 although it is valid
Report ==
  /\ pc = "session"
  /\ \E outcome \in {"valid", "zero", "invalid"} :
       /\ outcome = "valid" \/ (driver.judged = "recorded" /\ bad < MaxBad)
       /\ bad' = IF outcome = "valid" THEN bad ELSE bad + 1
       /\ Record(outcome)
  /\ UNCHANGED <<driver, order, summary>>

\* it crashed or ran into its timeout: there is no report
NoReport ==
  /\ pc = "session" /\ bad < MaxBad
  /\ bad' = bad + 1
  /\ IF driver.tolerant THEN Record("noReport")
     ELSE pc' = "failed" /\ UNCHANGED <<round, pos, rows, raw>>
  /\ UNCHANGED <<driver, order, summary>>

\* architecture's drivers assert that the session was correct
AssertFails ==
  /\ pc = "session" /\ driver.judged = "asserted" /\ bad < MaxBad
  /\ bad' = bad + 1 /\ pc' = "failed"
  /\ UNCHANGED <<driver, round, order, pos, rows, raw, summary>>

\* the bench refused its arguments (exit code 2): recorded, and the run ends
Rejected ==
  /\ pc = "session" /\ bad < MaxBad /\ driver.tolerant
  /\ bad' = bad + 1
  /\ rows' = Append(rows, RowOf("rejected")) /\ raw' = Append(raw, RowOf("rejected"))
  /\ pc' = "failed"
  /\ UNCHANGED <<driver, round, order, pos, summary>>

Finish ==
  /\ pc = "round" /\ round = Rounds
  /\ summary' = IF driver.summary THEN rows ELSE None
  /\ pc' = "done"
  /\ UNCHANGED <<driver, round, order, pos, rows, raw, bad>>

Ended == pc \in {"done", "failed"} /\ UNCHANGED runnerVars

RunnerNext == StartRound \/ Report \/ NoReport \/ AssertFails \/ Rejected \/ Finish \/ Ended

RunnerSpec == RunnerInit /\ [][RunnerNext]_runnerVars

----------------------------------------------------------------------------
(* analyze.py: by_round and paired.                                        *)

\* mutant: the pairs of every session that has a report
UsableWithReport(r) == r.outcome \in {"valid", "zero", "invalid"}

Usable(r) == r.outcome \in {"valid", "zero"}

\* the sessions compared: in a round the last usable row of a key counts
by_round(r, c) == {i \in DOMAIN raw : raw[i].round = r /\ raw[i].cell = c /\ Usable(raw[i])}

\* a ratio divides by it
Positive(r, c) == raw[Max(by_round(r, c))].outcome # "zero"

paired(a, b) ==
  {<<Max(by_round(r, a)), Max(by_round(r, b))>> :
     r \in {x \in 0 .. Rounds - 1 : by_round(x, a) # {} /\ by_round(x, b) # {} /\ Positive(x, a)}}

----------------------------------------------------------------------------
(* systems/run.py: inspect_micro.  A message is <<sequence, producer>>, a  *)
(* report has, per consumer, the sequence of messages it received.  The    *)
(* bench counts an error when a producer's sequence numbers do not         *)
(* increase.  The hash of a message is the xor of a term of its sequence   *)
(* number and a term of its producer, so a checksum is the set of terms    *)
(* that remain when equal ones have cancelled.                             *)

Terms(S, i) == {t \in {m[i] : m \in S} : Cardinality({m \in S : m[i] = t}) % 2 = 1}
checksum(S) == <<Terms(S, 1), Terms(S, 2)>>

Messages(count, producers) == (0 .. count - 1) \X producers

Wanted(mode, n, count, c) ==
  CASE mode = "orders" -> Messages(count, 0 .. n - 1)
    [] mode = "fanout" -> Messages(count, {0})
    [] OTHER -> Messages(count, {c})

Consumers(mode, n) == IF mode = "orders" THEN {0} ELSE 0 .. n - 1

OutOfOrder(s) == \E i, j \in DOMAIN s : i < j /\ s[i][2] = s[j][2] /\ s[j][1] <= s[i][1]

Received(received) == SumFunction([c \in DOMAIN received |-> Len(received[c])])

\* mutant: the order is not looked at
ValidUnordered(mode, n, count, received) ==
  /\ Received(received) = count * n
  /\ \A c \in DOMAIN received : checksum(ToSet(received[c])) = checksum(Wanted(mode, n, count, c))

\* no reason was found against the report
ValidReport(mode, n, count, received) ==
  /\ \A c \in DOMAIN received : ~OutOfOrder(received[c])
  /\ Received(received) = count * n
  /\ \A c \in DOMAIN received : checksum(ToSet(received[c])) = checksum(Wanted(mode, n, count, c))

----------------------------------------------------------------------------
(* Properties.                                                             *)

Count(c, s) == Cardinality({i \in DOMAIN s : s[i].cell = c})

\* Drift favours no cell: whenever a run ends, by itself or by a failure, no
\* cell has been measured more than once oftener than another, and a run that
\* was not ended has every cell in every round, with a row for every session,
\* the sentinel around each round, and its summary made of all of them.
Balanced ==
  /\ \A a, b \in ToSet(Cells) : Count(a, rows) <= Count(b, rows) + 1
  /\ driver.flushed => raw = rows
  /\ pc = "done" =>
       /\ \A c \in ToSet(Cells), r \in 0 .. Rounds - 1 :
            Cardinality({i \in DOMAIN rows : rows[i].round = r /\ rows[i].cell = c}) = 1
       /\ driver.sentinel => rows[1].cell = Sentinel /\ rows[Len(rows)].cell = Sentinel
       /\ driver.summary => summary = rows
  /\ pc # "done" => summary = None

\* A paired comparison takes two sessions of one round, both valid and the first
\* with a number to divide by, and takes a round at most once; it loses no round
\* in which the cells have two such sessions.
PairedWithinRound ==
  \A a, b \in ToSet(Cells) : a # b =>
    /\ \A p \in paired(a, b) :
         /\ raw[p[1]].round = raw[p[2]].round
         /\ raw[p[1]].outcome = "valid" /\ raw[p[2]].outcome \in {"valid", "zero"}
         /\ \A q \in paired(a, b) : raw[q[1]].round = raw[p[1]].round => q = p
    /\ \A i, j \in DOMAIN raw :
         raw[i] = [round |-> raw[j].round, cell |-> a, outcome |-> "valid"]
           /\ raw[j].cell = b /\ raw[j].outcome \in {"valid", "zero"} => <<i, j>> \in paired(a, b)

\* Over the matrices as they are: no two cells of a run share the label or the
\* id their numbers are filed under, and each comparison the report is after
\* finds both its cells among those the family runs.
LabelsAndComparisons ==
  \A family \in Families : \E keys \in {{key(c) : c \in Selected(family)}} :
    /\ Cardinality({label(k) : k \in keys}) = Cardinality(Selected(family))
    /\ \A p \in Comparisons(family, keys) : p[1] \in keys /\ p[2] \in keys

DistinctIds == Cardinality({Id(c) : c \in matrix}) = Cardinality(matrix)

AnalysisFindsItsCells ==
  /\ driver = strategy_threads => LabelsAndComparisons
  /\ driver = systems => DistinctIds

\* A report found valid is one where every message was delivered once and in
\* order to the consumer it was for, whatever a queue loses, repeats or swaps
\* (per queue at most one message more than was sent).
Streams(S) == UNION {[1 .. len -> S] : len \in 0 .. Cardinality(S) + 1}
Deliveries(mode, n, count) ==
  {d \in [Consumers(mode, n) -> UNION {Streams(Wanted(mode, n, count, c)) : c \in Consumers(mode, n)}] :
     \A c \in DOMAIN d : ToSet(d[c]) \subseteq Wanted(mode, n, count, c)}
Correct(mode, n, count, d) ==
  \A c \in DOMAIN d : ToSet(d[c]) = Wanted(mode, n, count, c) /\ IsInjective(d[c]) /\ ~OutOfOrder(d[c])

InspectMicroSound ==
  \A mode \in {"pair", "orders", "fanout"} : \A d \in Deliveries(mode, 2, 2) :
    ValidReport(mode, 2, 2, d) => Correct(mode, 2, 2, d)

ValidMeansDelivered == driver = systems => InspectMicroSound
=============================================================================
