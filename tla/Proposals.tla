----------------------------- MODULE Proposals -----------------------------
(***************************************************************************)
(* What an adaptive agent may propose and how a proposal becomes an engine *)
(* spec: the catalogue and its bounds (agents/catalogue.py), the check     *)
(* every proposal passes (normalise in agents/proposer.py) and the answers *)
(* of agents that write files (resolve_proposal in agents/session.py, with *)
(* the compiler and the smoke test of agents/codegen.py).                  *)
(*                                                                         *)
(* A number is an integer count of units of 0.00005.  The catalogue is cut *)
(* down to parameters that behave differently: those left out are whole    *)
(* numbers treated like "size" or fractions treated like "thr".            *)
(***************************************************************************)
EXTENDS Integers

CONSTANTS
  None,    \* Python's None, and a file that does not exist
  NaN,     \* the float nan, which json.loads and float() both accept
  NotANumber \* a value float() refuses

ASSUME ValuesAssumption == {None, NaN} \cap Int = {} /\ NotANumber # NaN

One == 20000 \* the number 1.0
Step == 2    \* the last decimal to_spec prints, 0.0001

Param(default, lo, hi) == [default |-> default, lo |-> lo, hi |-> hi]

IntParams == {"size", "fast", "slow"}

Catalogue ==
  [mm       |-> [spread |-> Param(2 * One, One, 20 * One),
                 skew   |-> Param(1000, 0, One)],
   momentum |-> [fast |-> Param(20 * One, 2 * One, 500 * One),
                 slow |-> Param(200 * One, 5 * One, 5000 * One),
                 thr  |-> Param(2 * One, 2000, 50 * One)],
   meanrev  |-> [thr  |-> Param(2 * One, 2000, 50 * One),
                 size |-> Param(5 * One, One, 50 * One)]]

Strategies == DOMAIN Catalogue

default_params(name) == [k \in DOMAIN Catalogue[name] |-> Catalogue[name][k].default]

NoParams == [k \in {} |-> 0]

----------------------------------------------------------------------------
(* clamp_params. *)

\* the nearest multiple of m, halves to the even one
RoundTo(v, m) ==
  LET q == v \div m
      r == v % m
  IN  IF 2 * r < m \/ (2 * r = m /\ q % 2 = 0) THEN q * m ELSE (q + 1) * m

\* every comparison with nan is false, so nan passes between the bounds
Bounded(v, p) ==
  IF v = NaN THEN NaN ELSE IF v < p.lo THEN p.lo ELSE IF v > p.hi THEN p.hi ELSE v

\* mutant: round first, clamp only what is too large
ClampedAboveOnly(v, p, isInt) ==
  LET x == IF v = NotANumber THEN p.default ELSE v
      y == IF x # NaN /\ x > p.hi THEN p.hi ELSE x
  IN  IF isInt /\ y # NaN THEN RoundTo(y, One) ELSE y

\* one value, against its entry p of the catalogue
Clamped(v, p, isInt) ==
  LET y == Bounded(IF v = NotANumber THEN p.default ELSE v, p)
  IN  IF isInt /\ y # NaN THEN RoundTo(y, One) ELSE y

\* int(round(nan)) raises ValueError, and nothing in clamp_params catches it
ClampRaises(name, params) ==
  \E k \in DOMAIN params \cap DOMAIN Catalogue[name] : k \in IntParams /\ params[k] = NaN

\* mutant: the slow window may be left behind the fast one
WindowsAsGiven(name, out) == out

\* slow <= fast is repaired after the bounds have been applied
WindowsOrdered(name, out) ==
  IF name = "momentum" /\ {"fast", "slow"} \subseteq DOMAIN out /\ out.slow <= out.fast
  THEN [out EXCEPT !.slow = 5 * out.fast]
  ELSE out

\* unknown keys are dropped
clamp_params(name, params) ==
  WindowsOrdered(name,
    [k \in DOMAIN params \cap DOMAIN Catalogue[name] |->
       Clamped(params[k], Catalogue[name][k], k \in IntParams)])

\* normalise: the defaults, overridden by what was proposed
Merged(name, raw) ==
  [k \in DOMAIN raw \cup DOMAIN Catalogue[name] |->
     IF k \in DOMAIN raw THEN raw[k] ELSE Catalogue[name][k].default]

Proposal(name, params) == [strategy |-> name, params |-> params]

normalise(name, raw) == Proposal(name, clamp_params(name, Merged(name, raw)))

----------------------------------------------------------------------------
(* Engine specs: a catalogue strategy with its parameters printed to four  *)
(* decimals, or the path of a compiled plugin.                             *)

to_spec(name, params) ==
  [name |-> name, params |-> [k \in DOMAIN params |->
     IF params[k] = NaN THEN NaN ELSE RoundTo(params[k], Step)]]

PluginSpec(path) == [name |-> "plugin", path |-> path]

----------------------------------------------------------------------------
(* resolve_proposal.  A subject has a mode, "params" or "code", and a      *)
(* start strategy; what its agent wrote is None or a record with a kind:   *)
(* "proposal" (with strategy and params), "notJson", "noStrategy" (a       *)
(* required key is missing) and "wrongShape" (JSON of another shape), or,  *)
(* for a source file, "source" (with what the compiler does with it).      *)

Failed(spec) == [ok |-> FALSE, spec |-> spec]
Works(spec) == [ok |-> TRUE, spec |-> spec]

\* an exception nobody catches: the command ends with a traceback
Raised == [ok |-> FALSE, spec |-> None]

fallback_spec(sub, lastSpec) ==
  IF lastSpec = None THEN to_spec(sub.start, NoParams) ELSE lastSpec

\* ValueError, KeyError and JSONDecodeError are caught, TypeError is not
ParamsOutcomes(sub, written, lastSpec) ==
  IF written.kind = "wrongShape" THEN {Raised}
  ELSE IF \/ written.kind \in {"notJson", "noStrategy"}
          \/ written.strategy \notin Strategies
          \/ ClampRaises(written.strategy, written.params)
       THEN {Failed(fallback_spec(sub, lastSpec))}
  ELSE LET p == normalise(written.strategy, written.params)
       IN  {Works(to_spec(p.strategy, p.params))}

\* a compiler that hangs past its timeout raises; a smoke test that does is a failure
CodeOutcomes(sub, written, lastSpec, path) ==
  CASE written.compiles = "hangs" -> {Raised}
    [] written.compiles = "error" -> {Failed(fallback_spec(sub, lastSpec))}
    [] OTHER -> {Failed(fallback_spec(sub, lastSpec)), Works(PluginSpec(path))}

\* mutant: a missing file is not an answer that failed but an error
MissingRaises(sub, written, lastSpec, path) ==
  IF written = None THEN {Raised}
  ELSE IF sub.mode = "params" THEN ParamsOutcomes(sub, written, lastSpec)
  ELSE CodeOutcomes(sub, written, lastSpec, path)

\* all that resolve_proposal may return for what was written
resolve_proposal(sub, written, lastSpec, path) ==
  IF written = None THEN {Failed(fallback_spec(sub, lastSpec))}
  ELSE IF sub.mode = "params" THEN ParamsOutcomes(sub, written, lastSpec)
  ELSE CodeOutcomes(sub, written, lastSpec, path)
=============================================================================
