--------------------------- MODULE MCAgentSession ---------------------------
(* Two subjects, one of each mode, over three generations.                 *)
EXTENDS AgentSession

MCSubjects == <<[name |-> "p", mode |-> "params", start |-> "momentum"],
                [name |-> "c", mode |-> "code", start |-> "mm"]>>

Params(strategy, params) == [kind |-> "proposal", strategy |-> strategy, params |-> params, basis |-> None]

MCSubmissions ==
  [n \in SubjectNames |->
     IF n = "p" THEN {Params("meanrev", [thr |-> 3 * One]),
                      [kind |-> "wrongShape", basis |-> None]}
                ELSE {[kind |-> "source", compiles |-> "yes", basis |-> None]}]
=============================================================================
