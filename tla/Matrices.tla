------------------------------ MODULE Matrices ------------------------------
(***************************************************************************)
(* The cells the two large measurement drivers run, and how the rows are   *)
(* told apart and paired afterwards: experiments/strategy_threads/run.py   *)
(* with analyze.py, and experiments/systems/run.py.                        *)
(***************************************************************************)
EXTENDS Integers, FiniteSets

CONSTANT None \* Python's None; also a key that a row does not have

----------------------------------------------------------------------------
(* strategy_threads/run.py.  A row without "queue" and "burner" (data path *)
(* and housekeeping cells do not have them) carries None there.            *)

Cell(family, topology, queue, burner, work, pattern, wait, hk, cost) ==
  [family |-> family, topology |-> topology, queue |-> queue, burner |-> burner,
   work |-> work, pattern |-> pattern, wait |-> wait, hk |-> hk, hk_cost |-> cost]

Patterns == {"smooth", "burst"}

DataPath(works, wait) ==
  {Cell("datapath", t, None, None, w, p, wait, "none", None) :
     t \in {"single", "forward", "split"}, w \in works, p \in Patterns}

Housekeeping ==
  {Cell("housekeeping", "single", None, None, 0, p, "spin", hk, c) :
     hk \in {"inline", "thread"}, c \in {"light", "heavy"}, p \in Patterns}

HANDOFF_ARRANGEMENTS ==
  {<<"single", "none", FALSE>>, <<"single", "none", TRUE>>}
    \cup {<<t, q, FALSE>> : t \in {"forward", "split"}, q \in {"spsc", "mutex_cv", "futex"}}

Handoff ==
  {Cell("handoff", a[1], a[2], a[3], w, p, "spin", "none", None) :
     a \in HANDOFF_ARRANGEMENTS, w \in {0, 16000}, p \in Patterns}

cells == DataPath({0, 4000, 16000}, "spin") \cup DataPath({0, 16000}, "yield")
           \cup Housekeeping \cup Handoff

Families == {"handoff", "datapath", "housekeeping"}

\* mutant: the housekeeping family without the cells it is compared with
SelectedAlone(family) == {c \in cells : c.family = family}

\* the cells one invocation runs; housekeeping takes its controls along
Selected(family) ==
  IF family # "housekeeping" THEN {c \in cells : c.family = family}
  ELSE {c \in cells : \/ c.family = "housekeeping"
                      \/ c.topology = "single" /\ c.work = 0 /\ c.wait = "spin"}

\* the options the bench is started with; without --queue and --burner it has its own defaults
command(c) ==
  [topology |-> c.topology, hk |-> c.hk, work |-> c.work, pattern |-> c.pattern, wait |-> c.wait,
   queue |-> IF c.queue \in {None, "none"} THEN None ELSE c.queue,
   burner |-> c.burner = TRUE,
   window |-> CASE c.hk_cost = "light" -> 1024 [] c.hk_cost = "heavy" -> 16384 [] OTHER -> None,
   every |-> CASE c.hk_cost = "light" -> 250 [] c.hk_cost = "heavy" -> 1000 [] OTHER -> None]

----------------------------------------------------------------------------
(* analyze.py.                                                             *)

\* cell_of and key: rows of before the handoff family ran the spsc queue
key(c) ==
  [c EXCEPT !.queue = IF @ # None THEN @ ELSE IF c.topology = "single" THEN "none" ELSE "spsc",
            !.burner = @ = TRUE]

arrangement(k) ==
  IF k.topology = "single" THEN <<IF k.burner THEN "single + burner" ELSE "single">>
  ELSE <<k.topology, k.queue>>

\* mutant: the label of a handoff cell without the queue
LabelByTopology(k) ==
  CASE k.family = "housekeeping" \/ k.hk # "none" -> <<"hk", k.hk, k.hk_cost, k.pattern>>
    [] k.family = "handoff" -> <<"handoff", <<k.topology>>, k.work, k.pattern>>
    [] OTHER -> <<"datapath", k.topology, k.work, k.pattern, k.wait>>

\* the heading a cell's numbers are filed under (the tag stands for the different layout)
label(k) ==
  CASE k.family = "housekeeping" \/ k.hk # "none" -> <<"hk", k.hk, k.hk_cost, k.pattern>>
    [] k.family = "handoff" -> <<"handoff", arrangement(k), k.work, k.pattern>>
    [] OTHER -> <<"datapath", k.topology, k.work, k.pattern, k.wait>>

\* the baseline of a key within its family
Single(k, burner) ==
  Cell(k.family, "single", "none", burner, k.work, k.pattern, k.wait, "none", None)

Hk(hk, cost, pattern) ==
  Cell("housekeeping", "single", "none", FALSE, 0, pattern, "spin", hk, cost)

NoHk(pattern) == Cell("datapath", "single", "none", FALSE, 0, pattern, "spin", "none", None)

\* compare(a, b): every comparison the report is after, whether or not both cells ran
DataPathComparisons(keys) ==
  {<<Single(k, FALSE), k>> : k \in {x \in keys : x.family = "datapath" /\ x.topology # "single"}}

HandoffComparisons(keys) ==
  {<<Single(k, FALSE), k>> :
     k \in {x \in keys : x.family = "handoff" /\ ~(x.topology = "single" /\ ~x.burner)}}
  \cup {<<Single(k, TRUE), k>> : k \in {x \in keys : x.family = "handoff" /\ x.topology # "single"}}

HousekeepingComparisons ==
  UNION {{<<NoHk(p), Hk("inline", c, p)>>, <<Hk("inline", c, p), Hk("thread", c, p)>>,
          <<NoHk(p), Hk("thread", c, p)>>} : c \in {"light", "heavy"}, p \in Patterns}

Comparisons(family, keys) ==
  CASE family = "datapath" -> DataPathComparisons(keys)
    [] family = "handoff" -> HandoffComparisons(keys)
    [] family = "housekeeping" -> HousekeepingComparisons

----------------------------------------------------------------------------
(* systems/run.py: matrix.  The parts an id is put together from are the   *)
(* id; an option a cell does not set is None.                              *)

MicroCell(family, mode, n, transport, wait, fanout) ==
  [family |-> family, mode |-> mode, n |-> n, transport |-> transport, wait |-> wait, fanout |-> fanout,
   batch |-> None, sort |-> None]

matrix ==
  {MicroCell("queue", "pair", n, tw[1], tw[2], None) : n \in {1, 4, 12},
     tw \in {<<"spsc", "yield">>, <<"mutex", "yield">>, <<"mutex_cv", "yield">>, <<"mutex_cv", "block">>}}
  \cup {MicroCell("waiting", "pair", n, None, w, None) : n \in {1, 4, 12}, w \in {"spin", "sleep"}}
  \cup {MicroCell("padding", "pair", n, "spsc_unpadded", "yield", None) : n \in {1, 4, 12}}
  \cup {MicroCell("fanout", "fanout", n, None, None, f) : n \in {1, 4, 12}, f \in {"spsc", "multicast"}}
  \cup {[MicroCell("batching", "orders", n, None, None, None) EXCEPT !.batch = b, !.sort = s] :
          n \in {4, 12}, b \in {1, 16, 256}, s \in {0, 1}}
  \cup {MicroCell("engine", "engine", n, x[1], x[3], x[2]) : n \in {4, 12},
          x \in {<<"spsc", "multicast", "yield">>, <<"spsc", "multicast", "spin">>,
                 <<"spsc", "spsc", "yield">>, <<"mutex", "spsc", "yield">>, <<"mutex_cv", "spsc", "yield">>}}

\* the id of a cell, by which summarize groups the rows
Id(c) ==
  CASE c.family = "queue" -> <<"queue", c.transport, c.wait, c.n>>
    [] c.family = "waiting" -> <<"wait", c.wait, c.n>>
    [] c.family = "padding" -> <<"padding", "unpadded", c.n>>
    [] c.family = "fanout" -> <<"fanout", c.fanout, c.n>>
    [] c.family = "batching" -> <<"orders", c.n, c.batch, c.sort>>
    [] c.family = "engine" -> <<"engine", c.transport, c.fanout, c.wait, c.n>>
=============================================================================
