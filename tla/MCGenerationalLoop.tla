------------------------- MODULE MCGenerationalLoop -------------------------
(* The generational loop on command lines that bring out each rule.  Ids: 0 *)
(* is the background agent, 1 and 2 are the subjects.                       *)
EXTENDS GenerationalLoop

Sub(name, rule, info, start) == [name |-> name, rule |-> rule, info |-> info, start |-> start]

Against(background, subjects, generations, seeds, parallel) ==
  [subjects |-> subjects, background |-> <<background>>,
   generations |-> generations, seeds |-> seeds, parallel |-> parallel]

Line(subjects, generations, seeds, parallel) ==
  Against([name |-> "mm", params |-> NoParams], subjects, generations, seeds, parallel)

\* a background agent that cannot be copied: its whole number is nan
Unreadable == [name |-> "meanrev", params |-> [size |-> NaN, thr |-> One]]

MCCommandLines == {
  Line(<<Sub("solo", "imitate", "rivals", "momentum"), Sub("copycat", "hillclimb", "own", "meanrev")>>, 3, 2, 2),
  Line(<<Sub("solo", "mock-code", "own", "momentum"), Sub("copycat", "imitate", "rivals", "meanrev")>>, 3, 1, 0),
  Line(<<Sub("solo", "bandit", "own", "momentum")>>, 5, 1, 1),
  Line(<<Sub("solo", "llm-code", "own", "momentum"), Sub("copycat", "llm", "market", "meanrev")>>, 2, 2, 2),
  Against(Unreadable, <<Sub("solo", "imitate", "rivals", "momentum"), Sub("copycat", "llm", "own", "mm")>>, 3, 1, 1)}

Drawn(fast, other, fresh, window) ==
  [k \in {"spread", "skew", "fast", "slow", "thr", "size", "fresh", "window"} |->
     CASE k = "fast" -> fast [] k = "fresh" -> fresh [] k = "window" -> window [] OTHER -> other]

\* a small step; a large one that pushes parameters out of their bounds
MCDraws == {Drawn(110, 90, 0, 60), Drawn(3000, 3, 1500, 4)}

MCAnswers == {
  [strategy |-> "momentum", params |-> [fast |-> 400 * One, slow |-> 90 * One]],
  [strategy |-> "mm", params |-> [skew |-> 30 * One, size |-> One]],
  [strategy |-> "mm", params |-> [skew |-> NaN]],
  [strategy |-> "meanrev", params |-> [size |-> NaN]]}

Pay(a, b, c) == [id \in 0..2 |-> CASE id = 0 -> a [] id = 1 -> b [] id = 2 -> c]

MCPayoffs == {Pay(0, 0, 4), Pay(2, 4, 0), Pay(6, 2, 2)}
=============================================================================
