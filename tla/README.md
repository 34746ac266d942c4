# A verification of the market engine

TLA+ models of the multi-agent market engine in this repository and of the
Python programs that run experiments with it. On the C++ side: the order book,
the lock-free queues, the broadcast ring, the threads of a session, the
processing of commands and the events about them, the logger and the replay of
its command log, and the threaded strategy of the experiments. On the Python
side: the experiment of outside agents, the generational loop with its rules,
the infrastructure experiment, and the drivers that measure matrices of cells.
TLC checks them on small instances; TLAPS proves facts about the order book, the
queues, the broadcast ring, the exchange, the session, the logger, the threaded
strategy, the generational loop, the infrastructure experiment and the drivers for
every value of the constants. All paths below are relative to the root of the
repository.

## The system

    agent thread i --Command--> queue i --> engine thread --> OrderBook
    agent thread i <--Event---- queue i <-- engine thread     (or a broadcast ring)
                                            engine thread --records--> logger thread --> CSV files

| component | state | operations | what makes it correct |
|---|---|---|---|
| order book (`src/order_book.cpp`) | level lists threaded through a node pool, free list, id index, cached best prices | `add`, `cancel` | the structures agree after every loop iteration; price-time priority with self-trade cancels; never crossed; no node leaked or reused while live |
| SPSC queue (`include/spsc_queue.h`) | two atomic indices, a plain buffer | `try_push`, `try_pop` | no data race, FIFO, bounded, no side refused for ever |
| multicast ring (`include/multicast_ring.h`) | slots with sequence numbers, `head_`, one cursor per reader | `publish`, `try_read` | no torn read, every loss counted and justified, readers catch up |
| transports (`include/transport.h`) | a channel per direction and agent | `push`, `pop`, `wait_pop` | same FIFO whatever the synchronisation; no lost wakeup |
| session (`src/engine.cpp`, `include/engine.h`) | threads, `running_`, `producers_done_`, `stop_requested_` | `run`, `engine_loop`, `agent_loop`, `request_stop` | each accepted command processed once, in its agent's order; drained at shutdown; `run` returns |
| command processing (`src/engine.cpp`) | book, accounts, fees, last broadcast top | `process`, `send`, `broadcast`, end of a batch | accounts conserve money; reports follow each other; every top-of-book change reaches the agents |
| agent context (`include/strategy.h`) | the agent's own position, cash, fees, top of book | `submit`, `cancel`, `poll`, `apply` | agrees with the engine once all events have arrived |
| logger (`src/logger.cpp`) | two record queues, a stop flag, files | `log_cmd`, `log_trade`, `start`, `stop` | no trade on file without its command; stop returns, and drains |
| replay (`tools/replay.cpp`) | a second book | read the log | the same book as the session |
| strategies (`src/strategies.cpp`), plugins | own quotes, timers | `on_event`, `on_idle` | own view of live quotes agrees with the book |
| threaded strategy (`experiments/strategy_threads/bench.cpp`) | reader, worker and housekeeper threads, a queue with a wait in three versions | `run`, `handle`, `push`, `wait_pop`, `close` | decides what the single-threaded one decides; no lost wakeup; nothing left behind; `run` returns |
| cached-index ring (`experiments/architecture/queues.h`) | an SPSC ring with copies of the remote indices | `push`, `pop` | as the SPSC queue |
| agent sessions (`agents/session.py`) | `config.json`, `state.json`, `trajectory.jsonl`, a file per generation, a brief and an answer per subject | `init`, `status`, `evaluate`, and the agents outside | a generation is recorded once for all readers; the fallback is the last strategy that worked; briefs tell what was recorded |
| generational loop (`agents/loop.py`, `adapt.py`, `proposer.py`, `codegen.py`, `catalogue.py`, `scripts/sweep.py`) | history per subject, specs and results of the last generation, what a proposer remembers, plugins on disk, a pool of sessions | propose, run, record | what is recorded and told is what ran; proposals stay in the catalogue; the loop ends clean |
| infrastructure experiment (`experiments/infra/run.py`) | an experiment directory: baseline, generations, held-out rows, the frozen choice, hashes | `init`, `evaluate`, `finalize` | held-out seeds judge one choice made before; the order of sessions favours nobody; measured is what was hashed |
| measurement drivers (`experiments/*/run*.py`, `scripts/latency_rerun.py`) and analyses (`analyze.py`, `systems/run.py`) | rows of a run, `raw.jsonl`, a summary | run a round, pair, compare, inspect a report | cells share a run evenly; pairs are of one round; every comparison finds its cells; valid means delivered |
| histogram, report, command line | counters | | pure functions and I/O |

The components meet in few places: an agent and the engine through one queue in
each direction (plus the ring), engine and logger through two more, main and
the others through three flags and joins. The Python programs run the engine
and meet each other, and the agents outside, in directories of files. Everything
else has one owner. What is hard is what happens on those edges: stale flags and indices, the order of
events against commands that are on their way, full queues, the order in
which threads stop.

`PROJECT.json` lists every component with its status, and under `hazards`
every place where a test would hardly find what goes wrong, with the
properties that watch it.

## Modules

| module | models | form |
|---|---|---|
| `Market` | sides, prices, commands (`include/types.h`) | vocabulary |
| `Matching` | what a call of `add` or `cancel` does to the queues of the book, as a closed formula | pure operators |
| `LimitBook` | the promise of the order book: one step per call | abstract specification |
| `OrderBook` | `src/order_book.cpp`: pool, lists, index, caches, one step per loop iteration | detailed specification |
| `OrderBookRefinement` | the mapping from lists to queues, and that `OrderBook` implements `LimitBook` | refinement |
| `Matching_proofs`, `OrderBook_proofs` | the loop in the formula of `Matching`; what is proved of the lists, and that they do what the queues promise | proofs |
| `BoundedFifo` | the promise of a channel | abstract specification |
| `RingSlots` | the slots of both rings | vocabulary |
| `SpscQueue` | `include/spsc_queue.h` under the C++ memory model; implements `BoundedFifo` | detailed specification |
| `MulticastRing` | `include/multicast_ring.h` under the C++ memory model | detailed specification |
| `Queues_proofs` | what is proved of `SpscQueue`, `CachedRing`, `MulticastRing` and `Logger` | proofs |
| `Session`, `Session_proofs` | the threads of `Engine::run` and how they stop; the queues are bounded FIFOs whose refusals may be stale | composition, proofs |
| `Logger` | `src/logger.cpp` with the engine and main threads that use it | composition |
| `Exchange`, `Exchange_proofs` | `Engine::process`, events, end of batch, `AgentContext::apply`, event queues that drop | composition, on top of `Matching`, proofs |
| `ExchangeReplay` | `Exchange` with the book that `tools/replay.cpp` rebuilds | composition |
| `CachedRing` | `ExperimentalRing`, with cached indices or without, on top of `SpscQueue` | detailed specification |
| `ThreadedStrategy`, `ThreadedStrategy_proofs` | `Probe` of the threaded strategy, with `SpinQueue`, `MutexCvQueue`, `FutexQueue` | composition, proofs |
| `Proposals` | `agents/catalogue.py`, `normalise`, `resolve_proposal`: what an agent may propose and what becomes of it | pure operators |
| `AgentSession` | `agents/session.py` one file operation a step, the agents outside, and the scripts that read the directory | composition, on top of `Proposals` |
| `AdaptRules` | the rules of `agents/adapt.py`, `codegen.py`, `proposer.py`, each as the set of what it may propose | pure operators, on top of `Proposals` |
| `GenerationalLoop` | `agents/loop.py` with the pool of sessions of `scripts/sweep.py` | composition, on top of `AdaptRules` |
| `Agents_proofs` | what is proved of `Proposals`, `AdaptRules`, `GenerationalLoop` and `AgentSession` | proofs |
| `InfraExperiment` | `experiments/infra/run.py` | detailed specification |
| `Matrices` | the cells of `experiments/strategy_threads/run.py` and `experiments/systems/run.py`, labels, keys and comparisons of `analyze.py` | pure operators |
| `MatrixRunner` | four drivers as one loop that differs in six ways, pairing, and the check of a queue bench report | composition, on top of `Matrices` |
| `Experiments_proofs` | what is proved of `InfraExperiment` and `MatrixRunner` | proofs |
| `MC*` | instances for TLC | |

`Exchange` uses `Matching` where the code uses `OrderBook`; the theorem
`MatchesByPriority` justifies that. `Session` and `Logger` use a bounded FIFO where
the code uses `SPSCQueue`; the run `spsc_queue` justifies that, and their
`OldViews` constant keeps the staleness that the FIFO view hides.

Reading a module against the code:

* **OrderBook.** The containers of the class are one record `book`, so that
  `Unlink` and `Rest` are functions from book to book. The locals and outputs
  of a call of `add` in progress are `call`. Node numbers count from 1 and 0 is
  `NIL`. A released node is poisoned (the code leaves its fields): any read
  through a stale number shows up as an order nobody submitted. The two
  accesses of a level that the code orders by side are one definition with the
  direction in `Better`.
* **SpscQueue, MulticastRing.** A store is named by its place in the single
  writer's order; a load may return any store not hidden by one that happens
  before the load or was read before. Acquire, release and the two fences are
  modelled by what they add to that happens-before view. A racy read of the
  SPSC buffer returns any value; the words of the ring are atomics and return
  a word of some publish. The payload of publish n is the number n in each
  word, so a torn value is one whose words differ.
* **CachedRing.** The template's parameter is the variable `CACHE`, which never
  changes, so that one run covers both rings; without it the ring is `SPSCQueue`.
  The copies are `seenTail` and `seenHead`, which only a load moves.
* **Session.** A command is its agent, its number and its timestamp. `accepted`
  and `processed` are history. A load of `running_` that returns the old value
  is an agent that goes on with its loop; the acquire load of `producers_done_`
  returns the old or the new value, and a pop may find a queue empty that is
  not, unless the flag was acquired as true. `InSubmitTime` is the stable sort by
  ranks: a command's place is the number of those it stands behind.
* **Exchange.** `pending` holds the events of the current step that the engine
  has not pushed yet: the engine takes its next command when it is empty, and
  agents poll in between. A push may be refused when the queue is full or was
  when the engine last saw it. `view` is the agent's context; `open` and `owed`
  in it are what can be known of the agent's orders from its events.
* **Logger.** A record is the number of its command. What the logger thread may
  miss in a queue depends on the newest command it has acquired a store of.
* **ThreadedStrategy.** The configuration is a variable that never changes, so
  that one run covers the topologies and the queues. `worker` is where the
  thread stands that owns the context: the worker of a pipeline, or the only
  thread. A store of the reader or the worker to an index or a flag waits in a
  store buffer before the other thread can see it; a fence waits for the buffer
  to be empty, which is what `dmb ish`, the release fence of the arm64 build,
  does. On x86 a release fence is no instruction: the mutant `FencedByName` is
  that build, and TLC finds the lost wakeup.
* **Proposals, AdaptRules.** A number is a count of units of 0.00005, so the
  four decimals of a spec and a draw in percent are whole numbers. `None`, `NaN`
  and a value `float()` refuses are model values. The catalogue is cut down to
  parameters that are treated differently. A random rule is the set of what it
  may return; the bandit may play any arm no other arm beats in both mean and
  number of plays, which covers its logarithmic bonus at every scale of scores.
* **AgentSession.** A measurement is the number of the batch of sessions that
  made it, so that rows, generation file and brief can be compared by it. `cmd`
  is the running command with its locals, lost when it stops. `basis` in an
  answer is the brief it was written to. `state.json` takes two steps to write.
* **GenerationalLoop.** A row's mean PnL stands for all its statistics. `shown`
  keeps the report a subject was given, `memory` what its proposer keeps; a
  plugin is the code that its path holds.
* **InfraExperiment.** `changed` holds the artifacts that are no longer the
  recorded ones, which is what a comparison of hashes tells. `asFrozen` in a row
  is history: whether what was measured was on record when the session ran.
* **MatrixRunner.** `driver` is a variable that never changes, so that one run
  covers the drivers. A checksum is the set of the terms that do not cancel.

## Runs

| run | instance | states | question |
|---|---|---|---|
| `order_book` | 3 resting ids and one sweeping taker, 2 agents, 2 prices, quantities 1 and 2, malformed orders | 135,569 | structures after every iteration, refinement of `LimitBook` |
| `spsc_queue` | 4 slots, 9 pushes, with and without cached indices | 1,025 | races, order, capacity, progress |
| `multicast_ring` | 2 slots of 2 words, 5 publishes | 11,148 | torn reads, accounting, progress |
| `session` | 2 agents, 2 commands each, queues of 1, batches of 2, stale views | 399,173 | once and in order, drained, returns |
| `logger` | 3 commands, 2 trades each, queues of 2, stale views | 16,594 | files agree, stop returns |
| `exchange` | 2 agents, 3 commands, batches of 2, event queues of 6, fees -2 and 3, a collar | 730,274 | the two ledgers, reports, conservation |
| `exchange_replay` | same, with the replayed book | violation | replay |
| `threaded_strategy` | 2 trades, queues of 1, a ring that laps, 8 configurations | 420,850 | decisions, wakeups, shutdown |
| `agent_session` | 2 subjects, one of each mode, 3 generations, one stop | 532,867 | records, fallbacks, briefs, the end |
| `infra_experiment` | 3 seeds, 2 regimes, 2 generations, 2 stops, one invalid session, one changed artifact | 248,422 | held-out discipline, balance, what was measured |
| `matrix_runner` | 4 drivers, 3 cells and a sentinel, 2 rounds, 2 sessions that end badly; the matrices as they are | 57,379 | balance, pairs, comparisons, validity |
| `generational_loop` | 5 command lines of 1 or 2 subjects, up to 5 generations, 3 payoffs, 2 draws | 295,905 | records, reports, rules, the end |

The type invariant of a module is the first conjunct of one of the invariants
its run checks (`StructureOK`, `Accounting`, `OncePerCommandInOrder`,
`TradesHaveCommands`, `OrdersAgree`, `InStep`), or the type part of a proof
(`TypeCorrect`, `TypeInv`).

Why the bounds are enough for what the runs ask. Two prices let a sweep empty
a level and move the best price; three resting orders give every position of a
node in a list (first, middle, last) and self-trade cancels between fills; two
agents are an owner and a stranger. The ring of four slots wraps twice. Five
publishes through two slots lap a reader twice during one copy. Two agents with
queues of one command make every pass choose between full, empty and stale.
Two trades and their Acks through a queue of one make the reader wait for the
worker, the worker for the reader and for the housekeeper, and the ring lap.
Three commands are a resting order, one that meets it, and one that races with
the outcome. Agents and resting ids are symmetric in `order_book`, which has no
liveness property and no ordering of model values in `OrderBook`. Three
generations are one to fail in, one to fall back in and one to be measured
again; three seeds are an odd number, where the order of the pairs cannot come
out even within a regime; two stops are a finalize that is stopped and tried
again. The command lines of `generational_loop` are chosen so that every rule
plays, five generations so that the bandit has tried its three classes and
chooses twice; one draw is a small step and one throws every parameter out of
its bounds. Two rounds and two sessions that end badly lose a cell in one
round and keep it in the other; a session that ends badly is invalid, or valid
with a measure of zero, by which no ratio can be taken. One command line of
`generational_loop` has a background agent with a nan beside an imitator, and one
of the answers has a nan for a fraction.

Named bounds: `MaxPush`, `MaxPub`, `MaxSubmit`, `MaxCommands`, `MaxTrades`,
`BatchMax`, `Steps`, `Usable`, `RingUsable`, `CmdUsable`, `HkUsable`, `LogUsable`, `EventUsable`, `MaxQty`, `Qtys`, `Generations`, `MaxStops`, `MaxGens`, `MaxInvalid`, `MaxChanges`, `Rounds`, `MaxBad`; `Answers`, `Submissions`, `CommandLines`, `Draws` and `Payoffs` are the inputs enumerated. Integers are
unbounded; the 32-bit sums of the code are listed as a hazard.

Deadlock is checked in every run but those of `Exchange`, `agent_session` and
`infra_experiment`: a market in which no agent submits any more and every event
has been read stands still; an experiment that is done, that was left with an
empty `state.json`, or whose bounds of generations and stops are used up has no
command left to run.

**Fairness.** `CachedRing` and `MulticastRing`: both sides poll, as the loops of
engine and agents do, and a store becomes visible in finite time, which C++
asks of atomics (a strong fairness on loads that return the newest store).
`Session`: threads are scheduled, the deadline passes; an agent is not forced to
submit, only to finish the call it is in and to leave its loop once it sees the
flag. `Logger`: the same for its thread. `ThreadedStrategy`: threads are
scheduled, stores become visible, a park has a timeout (`PARK_TIMEOUT_NS`); its
shutdown needs that timeout, because a worker that announces its park after
`close()` is woken by nobody. `AgentSession`: the operator repeats
`init` and `evaluate` until the experiment is done, and a command that runs goes
on; nothing makes an agent answer. `GenerationalLoop`: main runs, the threads of
the pool run, and a session ends by itself or by the timeout of `run_one`. The
other Python modules state no fairness, having no liveness property. The code
has no lock on these paths, or holds it
for one step (`MutexCvQueue`), so no fairness among contenders is assumed.

## Where the code and what is said of it differ

* `exchange_replay`: the collar refuses an order that the command log keeps and
  the replay accepts. (`docs/DESIGN.md`: the replay "must match the session's".)

Five more statements about the program are written as properties that the
models refute; their configurations stand beside the others and are run by hand:

* `MCExchangeTop.cfg` (module `MCExchange`, property `TopAgrees`): a batch that
  takes the whole top level and then rests an order of the same price and
  quantity ends with the top it started with, so no `BookUpdate` is sent, but
  the `Trade` in between has told every agent that the level is gone.
  (`docs/DESIGN.md`: the context "keeps the last top-of-book".)
* `MCGenerationalLoopNan.cfg` (`MCGenerationalLoop`, `ClampedIntoBounds`): a
  fraction that is nan passes both comparisons of `clamp_params`
  (`agents/catalogue.py:88`) and stays in the proposal that runs. A model may answer
  one, and an imitator copies one from a rival; `StaysInCatalogue` says that it gets
  there in no other way. (`agents/catalogue.py`: "clamp values into the catalogue
  bounds".)
* `MCLoggerDrains.cfg` (`Logger`, `DrainedByStop`): `stop()` may leave the last
  records in the queues. (`include/logger.h`: "drains, flushes, joins".)
* `MCSessionArrival.cfg` (`Session`, `ArrivalOrder`): timestamps order commands
  within a batch only. (`docs/DESIGN.md`: "arrival order is honoured".)
* `MCThreadedStrategyWakeups.cfg` (`MCThreadedStrategy`, `CountsLostWakeups`): an
  event that arrives between the timeout of a park and the `try_pop` after it
  counts as a lost wakeup and invalidates the session. (`bench.cpp`: "Slept the
  whole backstop with work waiting".)

## Proofs

Each theorem is about the specification a run checks, for every value of its
constants. (The first theorems of `Queues_proofs` are of `SpscQueue!Spec`, the ring that
loads each time; `CachedRefines` and `CachedKeeps` carry them to `RingSpec`, which
the run checks and which is that ring when `CACHE` is false.) Each proof gives an inductive invariant, shows that `Init` makes it
true and that every action keeps it, action by action, and ends in one temporal
step. No proof assumes more than the `ASSUME`s of the module it is about
(`CapAssumption`, `WordsAssumption`, `SessionAssumption`, `BriefsAssumption`, `LoggerAssumption`,
`StrategyAssumption`, `InfraAssumption`, `RunnerAssumption`, `RulesAssumption`,
`CommandLinesAssumption`, ...), which TLC evaluates on its run.

| theorem | property | why the property alone is not inductive |
|---|---|---|
| `OrderBook_proofs!StructureHolds` | `StructureOK` | an unlink in the middle of a walk touches two neighbours, a level, the index, the caches and the cursor |
| `OrderBook_proofs!NothingLeaks` | `NoLeaks` | that a list ends at all is a fact about every node in it |
| `OrderBook_proofs!MatchesByPriority` | `ImplementsLimitBook` | the abstract call is one formula, the walk many steps that each do a part of it |
| `Queues_proofs!RaceFree`, `DeliversInOrder` | `NoRace`, `InOrder` | what is copied depends on what each side has acquired |
| `Queues_proofs!ImplementsBoundedFifo` | `ImplementsFifo` | the refinement holds where the slots hold their values |
| `Queues_proofs!CachedRefines`, `CachedKeeps` | `ImplementsFifo` | a decision on a copy is one on a load that returned the same store again |
| `Queues_proofs!ReadsWhole` | `NoTear` | a word is right or wrong long before the second check |
| `Queues_proofs!LosesOnlyLapped` | `GivesUpOnlyLapped` | a slot found overwritten tells how far the writer is |
| `Queues_proofs!CountsEveryValue` | `Accounting` | a loss is counted many steps after the load that shows it |
| `Exchange_proofs!BooksAgree`, `StoryIsTrue` | `AccountsAgree`, `OrdersAgree` | what an agent will know depends on every report on its way and on all that one order does |
| `Exchange_proofs!NothingCreated` | `Conserved` | that a fill has two sides and both are of agents is a fact about every resting order |
| `Session_proofs!DrainsBeforeStopping` | `StopsDrained` | a pass takes many steps, in which agents run |
| `Session_proofs!EachOnceInOrder` | `OncePerCommandInOrder` | that a sort by time keeps an agent's order depends on every timestamp the agent took |
| `Queues_proofs!TradesAccountedFor` | `TradesHaveCommands` | two queues, drained one after the other |
| `ThreadedStrategy_proofs!NeverSleepsOnAnEvent` | `NoLostWakeup` | two announcements on their way through store buffers |
| `ThreadedStrategy_proofs!StaysInStep` | `InStep` | the next decision depends on events that are in the queue, with the worker and with the reader |
| `ThreadedStrategy_proofs!LeavesNothingBehind` | `NothingLeftBehind` | three threads leave in an order that two flags and a queue decide |
| `Agents_proofs!RecordsAreOfWhatRan` | `RecordsWhatRan` | the files, the histories and the pool hold the same markets at different places, and plugins are overwritten by nobody |
| `Agents_proofs!ReportsTellTheTruth` | `ReportTellsTheTruth` | a report is built from rows and specs kept since the generation before |
| `Agents_proofs!LearnFromEverything` | `RulesLearn` | what a proposer keeps is of all entries but the last until its turn comes |
| `Agents_proofs!ProposalsInCatalogue` | `StaysInCatalogue` | a proposal comes from older ones, a rival's spec or an answer, through four conversions |
| `Agents_proofs!GenerationRecorded` | `Recorded` | a command reads `state.json` once and writes four kinds of file before it writes it again; a stop in between leaves any prefix of that |
| `Agents_proofs!FallsBackToWhatWorked` | `FallbackIsLastWorking` | the memory runs ahead of the disk, line by line, and is thrown away by a stop |
| `Agents_proofs!EveryoneBriefed` | `Briefed` | a brief is written before the state that sends an agent to it, and read and answered many steps later |
| `Experiments_proofs!JudgedAfterChoice`, `ChoiceIsFinal`, `MeasuresTheRecord` | `HeldoutAfterSelection`, `FrozenBySelection`, `MeasuredAsFrozen` | a command checks once and acts many steps later |
| `Experiments_proofs!DriftFavoursNobody` | `Counterbalanced` | the balance shows only in a full directory, and depends on the place of every row |
| `Experiments_proofs!EveryCellItsShare` | `Balanced` | a cell's count is that of the rounds whose order has passed it, and each round has an order of its own |
| `Experiments_proofs!PairsAreOfOneRound` | `PairedWithinRound` | that a cell is measured once in a round is a fact about all rows |
| `Experiments_proofs!ValidReportsAreSound`, `ValidIsDelivered` | `ValidMeansDelivered` | not an invariant to strengthen: the run evaluates two messages of two, the first theorem has every number of both |

**Order book.** `BookInv` says that between two changes the book has `Shape`:
the links of each node and of its neighbours agree, a level's head and tail are
its ends, counts count, the cached best price is the best, and each list is a
chain, a numbering of the orders of the level along `next` (`Listed`). That there
is one is stronger than that links agree (two nodes may point at each other), and
it is what makes the walk of `add` and of `NoLeaks` end. `Unlink`, a fill and
`Rest` are first shown to do what a plain description says (`Unlinked`,
`Reduced`, `Rested`), then to keep each part of `Shape`. While a call is in
progress, its cursor is the head of the level being eaten, so that a level the
walk runs off is empty, and `Rest` leaves the book uncrossed. A level's quantity
is a sum over the set of its orders; the first lemmas of the module say how such
a sum changes with one element. `HistoryToo` carries both theorems to the
specification with the history variable of the refinement.

**Order book, the promise.** `Matching` has no loop: how much an incoming order
takes from a resting one is what is left of it after all that stands ahead and
belongs to others. `Matching_proofs` first finds the loop in that formula. If the
order takes or cancels all of the first order it faces, the match is that report,
followed by the match of the rest of the order with the rest of the queues
(`Peels`); it ends where the first order is more than what is wanted (`Exhausts`),
or where nothing is wanted or faced (`NothingToDo`). Then it reads the lists as
queues: the chain of a level is unique, so unlinking a node leaves its order out
of one queue and changes the order of no others (`DropQueues`), a fill trims an
order in its place (`TrimQueues`), and `Rest` appends (`RestQueues`). Two
invariants tie the walk to the formula. `AtBest`: the cursor stands at the best
opposite price, so its order is the first that is faced. `InProgress`: what the
call has reported, followed by the match of what it still wants with what the
book still holds, is the match of the whole order with the queues the call
started from. Each iteration moves one order from the second part to the first
while the abstract book stands still; the return of `add` is the step of the
abstract book (`LimitReturn`).

**SPSC queue.** The argument is about positions, the numbers of the stores to
the two indices. `QueueInv` says that the views bracket the occupied positions
(`seenTail <= popped <= seenHead <= pushed`), that the producer stays within a
ring of what it has acquired with one slot to spare (`WithinRing`), and that an
occupied position holds its value (`Stored`). The step that needs work is
`PushStart`: the test `(h + 1) % CAP # tail` compares remainders, and `NotFull`
turns it into a bound on positions, by `ModShift` (a whole ring apart is the
same slot). `PushWrite` does not disturb an occupied position because of
`ModDistinct` (less than a ring apart is a different slot). Under `QueueInv` the
occupied slots, read from position `popped` on, are the numbers
`popped + 1 .. pushed`, which is the mapping to `BoundedFifo`.

**Multicast ring.** `RingInv` follows one attempt of `try_read`. The load that
starts the copy orders the reader after the whole publish it is for
(`CopyStarted`), so that a word copied later is of that publish or of a later
one in the slot. A word of a later one brings the mark that was stored before it
along: to `pend` while the copy goes on, to `hb` at the fence (`WordsCopied`).
Then the second check cannot return the old sequence number (`CopyIsWhole`). For
losses, a slot holding another number holds one a whole round later
(`SamePlaceLater`), so `Lapped` bounds where the writer is, and the jump is
bounded by the head it was computed from (`OldestBound`). For `Accounting` a
jump and the count of what it skips are one sum, and the cursor stays within what
was published.

**Exchange.** What an agent has after a sequence of entries is a fold of `Learn`
(`Heard`), so it is enough to say what it has after each. For one accepted order
these are the cancels of self-trade prevention, the ack, and for each fill the
maker's report, the taker's and the trade. `Amid(q, c, k)` is the book as it would
be had the match stopped after `k` fills, `Owed(q, c, k)` what the taker has been
acked and not yet been told, and `Told` says that an agent then knows the books
folded so far, its orders in `Amid` and what it is owed. A report that continues
the one before leads from `Told` at `k - 1` to `Told` at `k`; the last one ends at
the book `Match` returns. That the sums come out uses that an order takes from the
front of what it faces (`FromTheFront`), so that it never gets more than it asks
for. `ExchangeInv` then says of every state that an agent that has lost no event
knows, once it has heard what is in its queue and what is pending, the engine's
books and its own resting orders (`Informed`), that ids are below the running
numbers (`Numbered`: an ack is of a new order), that no two resting orders share
an id, and that shares and cash add up. A push or a poll moves an entry from one
place to the next without changing what will have been heard; a refused push
makes the agent one that has lost an event.

**Session.** `FlagTrue`: once `producers_done_` is set, or has been read as set,
no agent can push. `SilentPass`: a pass that began after that and has popped
nothing has found every queue it has left empty. Passes begin at a different
queue each time; `ModReaches` says a whole pass has been everywhere.
For the order of commands, `Submitted`: the commands an agent's queue accepted
are in the order of issue, none older than the one before; `Placed`: the first of
them have been taken, in whatever order among other agents', and the rest are
the queue. A pop appends the oldest of a queue, later in issue than all taken of
its agent. The sort is a permutation (`Sorted`: a command's rank is the size of
the set it stands behind, and an injection into as many places is onto) under
which nothing passes a command that is not later; two of an agent that changed
places would be a later timestamp before an earlier one.

**Logger.** `AllPlaced`: every command is in the file, in the queue or lost.
`TradesSeen`: writing a trade record has acquired everything up to its command.
`OnlyNewerLeft`: when the command queue is left, what is still in it is newer
than anything acquired. A trade's command is not newer, so it is not left.
`Tally` counts accepted and refused commands for the type invariant.

**Threaded strategy.** `PushedVisible`: an event is invisible only until the
reader has passed its fence. `Announced`: if an event is there while the worker
is about to wait and announced, the reader has still to look. `StillAnnounced`:
the announcement of a parked worker is withdrawn only by a reader that goes on
to wake it, or that has left and pushes no more. `Settled`: between the worker's
fence and its park none of its stores is on the way. For `MutexCvQueue` the test
and the park are one step, so that nothing comes between them.
`InStep` and `NothingLeftBehind` share `RunInv`. An event is with the worker, in
the queue or with the reader; `InFlight` walks along these places with the number
of trades and the newest order acknowledged, and says that each event leads from
one such point to the next, from where the probe stands to where the reader
stands. So the event the probe handles next is the one the reference handles
next, and an Ack is of an order that still awaits one (`Awaited`), whichever of
trades and Acks overtook the other in the ring. `Ends` and `KeeperEnds` say which
thread may have left with what still to come, `Summaries` that the decisions are
those summarised, those in the housekeeper's queue and the one on its way there.

**Generational loop.** Of the catalogue only `Sound` matters: the bounds of a
whole-numbered parameter are whole, so that rounding does not leave them
(`RoundingStaysBetween`), and five times the smallest fast window is a slow one.
`NormaliseStaysIn` then says that whatever numbers are given, `normalise` returns
a proposal in the catalogue. A nan passes it if it is for a fraction, so the
lemmas about the rules carry a set `N` of the parameters that may be nan: given
values with nans only in `N`, a rule returns a proposal with nans only in `N`,
and raises where a whole number is nan. Each rule is shown to give such values:
the best entry exists because every score is a number (`BestIsALeader`), a rival's
spec is read back by `parse_spec` (`SpecIsReadable`). For the `i`-th subject `N` is
`NansFor(i)`: everything for one that asks a model, what the other agents have run
with for one that imitates rivals, nothing for any other. It grows with the
generation files, and what fitted a smaller set fits a larger one
(`MoreNaNsFit`). `RulesAssumption` says of an answer only that it is of the schema
and its values are numbers, nan, or not numbers at all. The proposers that write plugins name their files by subject and
generation (`Writes`), so that no later file replaces one a history names
(`MadeKept`). `LoopInv` has one part per record: `Proposed` for the proposals of
this generation before the turn and of the last one after it, `HistoriesKept` for the
histories, `OnFile` for the generation files and the lines of
`trajectory.jsonl`, which stand at `(g - 1) * subjects + i` (`LinePlaces`),
`LastRead` and `Informed` for what is told, `Remembered` and `Explored` for what
is learnt, `InPool` for the sessions: what has been collected is a prefix of the
seeds, and what has ended is a report on the specs that were handed over.
`RemembersTheBest` is the step of the mock writer: the better of the last entry
and the first best of those before is the first best of all.

**Agent sessions.** `SessionInv` says of each point of a command what it may rely
on. `StateIsTrue`: whenever `state.json` can be read, the generations before the
one it names are recorded (`Past`), its memory is that of the lines shown for
them (`TrueMemory`), their briefs tell them (`BriefTells`), and nobody has read or
answered a later one (`Quiet`). That last part is why a repeated `evaluate` may
write the briefs of the next generation again. `DuringInit`, `DuringRun` and
`AfterRun` say the same of what the command holds in memory, where `LineOfRun` has
the last line of a subject be of the batch that is being recorded. A repeated
generation appends lines that are later than all others, so what is shown of it
is the line of the last run, and what is shown of the generations before is as it
was (`HistoryKept`); the rest follows from that, file operation by file operation.
`CountedOnce` and `NoneToCome` are for `stops = 0`: a generation that is to come
has no line. `LastWorkingNext` is the step of the fallback, and `Greatest` gives
a bounded set of lines its last.

**Infrastructure experiment.** `ChoiceInv` says of the rows on disk and of the
command that is running that held-out work implies the recorded choice, and that
what a stopped command left is still in order. `FrozenInv` does the same for the
hashes compared when a command starts. `DirsPlanned`: the rows of a directory are
the first sessions of one fixed order, and what is summarised is all of them. The
rest is about places in that order: a pair is two neighbours, its regime and seed
are a quotient and a remainder of its number (`PlacesOf`), which of the two comes
first is the parity of their sum, and the pairs of a regime are counted by
parity (`Parities`).

**Matrix runner.** The order of a round has every cell at one place
(`RoundIsOrder`), so a cell has its row of the running round exactly when the
position has passed its place, and one row of each round before (`Measured`).
The rows of a cell then correspond to rounds, one to one (`MeasuredCount`,
`OnceCounts`), which is what `Balanced` counts, and two rows of a round and a
cell are the same row (`TheRun`), which is what pairing needs. `Framed` and
`Written` say the same of the sentinel's rows, the raw file and the summary.
A report of a queue bench: messages that arrive in order arrive once
(`InOrderIsOnce`), so a consumer has at most its share of what was sent, and the
total is reached only if each has all of it (`SumIsFull`); the checksum is not
needed as long as no queue makes up a message. `AnalysisFindsItsCells` is not
about behaviours: it is a closed formula over the matrices of the code, which
TLC's evaluation settles for good.

**Induction.** The prover cannot use an induction theorem that takes a
predicate as a parameter. Where one is needed over a finite set, `Matching_proofs`
has it as a least counterexample: a set of numbers that is not empty has a least
element (`Least`), so a claim about every size fails first at some size
(`Smallest`) and holds for the set with one element less (`OneLess`). Sums over
finite sets are developed in this way. That a walk does what the formula of
`Matching` says needs no induction of its own: it is the invariant `InProgress`.

What stays with TLC: liveness, `ENABLED` and fairness, which the prover cannot
handle (`Finishes` among them: that an experiment comes to its end); and the
closed formula `AnalysisFindsItsCells`.

## Plan

What is left, in the order of its use:

1. Strategies as actors of `Exchange`: the market maker's two quotes and cap
   against a full command queue, the one-order reservation of
   `experiments/infra/host.cpp`; the multicast fan-out, where private events
   overtake broadcasts.
2. Histogram buckets and percentiles against a reference definition.

## Not modelled

* Built-in strategies and the host of the infrastructure experiment: what they
  decide is arithmetic in floating point. That they act while their events are
  on the way is in `Exchange`, where an agent submits and cancels at any time.
* Transports: the SPSC channel is `SpscQueue`; the waiting of the mutex channel
  is that of `MutexCvQueue` in `ThreadedStrategy`.
* Histogram, report, command line, plugin loading: one thread, no state that
  outlives the call, or formatting.
* Pages and transport scripts: they render, or run fixed command lines one after
  the other.
* The engine's broadcast through the multicast ring as part of `Exchange`; the
  ring itself is `MulticastRing`.
* Statistics: means, medians, confidence intervals, and the text of briefs and
  prompts.
* Prices as money in floating point: `Exchange` counts in ticks. Thread
  priorities, pinning and idle policies: they change how fast, not what.
