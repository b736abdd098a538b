# Specifications of the hybrid planner

TLA+ specifications, TLC runs and TLAPS proofs for the LLM-assisted numeric
planner of this repository. The program is a Fast Downward derivative whose
best-first search asks a language model about selected states while it runs. It
consists of two processes. The planner (C++, `src/search`) searches and talks to
the controller over HTTP. The controller (Python, `hybrid_planner`) starts the
planner, builds prompts, queries a vLLM server, validates the answers, and keeps
records of the run; a batch controller runs many of these pairs. The
specifications cover what these add to upstream Fast Downward: the bridge, the
trigger rules, the search thread with its injected action chains, the anytime
loop, the protocol between planner and controller, the model client, the batch
controller and the trajectory scorer; and of the numeric task itself what all of
them rest on, the packed state, axioms and operators. Paths below are relative
to the repository root.

## 1. Inventory

| Component | State | Operations | Talks to | Specified in |
|---|---|---|---|---|
| `LLMBridge` (`src/search/search_engines/eager_search.cc` 486–912) | two FIFOs, counters, `stopping`; the set of open sockets; worker threads | `submit`, `poll_completed`, `stop`, `worker_loop`, `post_request_posix` | search thread (shared memory), controller (HTTP) | `LLMBridge`, `RequestLifecycle` |
| `EagerSearch`, `SearchSpace` (same file 2042–2700, `search_space.cc`, `search_engine.cc`) | status, g, real_g, parent and operator of each node; open list | `initialize`, `step`, `fetch_next_node`, `poll_llm_responses`, `inject_llm_action_chain` | monitor and bridge (calls) | `HybridSearch` |
| `LLMTriggerMonitor` (same file 924–2039) | layer table with windows and episodes, best h, spacing; requested, pending and suspended states | `record_open_state`, `record_expanded`, `submit_layer_candidates`, `should_check_ancestor`, `request_state`, `poll_bridge` | search thread, bridge | `TriggerRules`; limits and suspension in `HybridSearch` |
| `IteratedSearch` (`iterated_search.cc`) | phase, best bound, deadline | `step`, `create_phase`, `step_return_value` | child searches; stdout | `IteratedSearch` |
| `ActiveIterationRegistry` (`hybrid_planner/anytime.py`) | active iteration, registered futures | `accept_request`, `is_active`, `register_future`, `start_`/`end_iteration`, `close` | handlers, main thread | `AnytimePhases` |
| `AnytimeRunRecorder` (`anytime.py`) | one row per request, phases, incumbents | `request_received`, `request_finished`, `handle_planner_line`, `planner_stopped`, `close` | handlers, main thread | row status and `transport_ok` in `AnytimePhases` |
| HTTP handlers and `main` (`hybrid_planner/console.py`) | one handler thread per request | `do_POST`; read lines, shut down | planner (HTTP, stdout), registry, client | `AnytimePhases` |
| LLM client (`hybrid_planner/llm/client.py`) | event loop, semaphore, rate limiter, session, futures | `submit_many`, `generate`, `acquire`, retries, timeout, cancellation, `close` | handlers (futures), vLLM server (HTTP) | `LLMClient`; one future per request in `AnytimePhases` |
| batch controller (`hybrid_planner/batch_console.py`), vLLM launcher (`llm/vllm_service.py`) | futures, active children, service process; on disk a marker per job and the result table | `main`, `run_parallel_jobs`, `BatchJobRunner`, `partition_resumable_jobs`, `stop_all` | children (processes), disk | `BatchRuns` |
| trajectory scorer, action chain evaluator (`src/search/trajectory_scorer_main.cc`, `action_chain_evaluator.cc`) | one task, one state registry, counters | read a line, `evaluate`, answer, end | stdin, stdout, registry | `TrajectoryScorer` |
| response processor (`hybrid_planner/validation/response_processor.py`) | none | `process`, replay of a prefix | handlers, a simulator library | its verdict in `TrajectoryScorer` |
| state registry, int packer, axioms, operators, successor generator (`src/search`) | packed states and their ids, cost numbers | `get_initial_state`, `get_successor_state`, `evaluate`, `generate_applicable_ops` | search, scorer | `PlanningTask`, `TrajectoryScorer` |
| prompt builder | – | – | – | not modelled, section 8 |
| translator, preprocessor, heuristics, landmarks, LP, other engines, driver, scripts | – | – | – | out of scope, section 8 |

### How the parts interact

The search thread submits a request and goes on. A worker takes it, posts it
and puts the response in a second queue, which the search thread polls once
per step. In `skip` mode a state whose answer is pending is suspended instead
of expanded and put back when the answer comes. An answer is a set of action
chains: each is applied from the requested state, and every state on the way
enters the search space and the open list like a generated successor.

`IteratedSearch` runs one search after the other, each with the cost of the
best plan as its exclusive bound, and prints a line at the beginning and the
end of each phase. The controller's main thread reads these lines and
activates and ends the phase in the registry. The handlers of the phase's
requests, which arrive on another channel, ask the registry before each
costly step. The end of a phase cancels the phase's model futures.

### What is hard here

* Threads: the workers against `stop()`; the handlers against the end of
  their phase.
* Two channels without a common order: phase lines on stdout, requests on HTTP.
* Late answers: they reach a search space that has moved on.
* Waiting: an empty open list with answers pending, the join of the workers,
  the join of the handlers.
* Arithmetic: integer g values against double costs, adjusted against real
  cost, an exclusive bound.
* Ends: a deadline, a kill, a goal, each with requests in every stage.
* Cancellation: an asyncio task can be cancelled at each await while it holds a
  permit or a lock; `gather` gives up on siblings that go on.
* Bounded memory: a layer evicted from the table forgets when it was asked.
* Restarts: a batch killed between a child's end, its marker and the table is
  resumed from what is on disk.
* One state, many representations: a packed state, derived variables left from
  the predecessor, numeric effects applied in order, and two simulators that
  have to agree.

`PROJECT.json` lists each hazard at its line with the properties aimed at it.

## 2. Modules

| Module | Role |
|---|---|
| `RequestLifecycle` | abstract: the life of a request as the caller of the bridge sees it |
| `LLMBridge` | the bridge with its mutexes, condition variable, threads and sockets; implements `RequestLifecycle` |
| `HybridSearch` | the search thread, over the bridge's abstract behaviour |
| `HybridSearchProofs` | theorems about `HybridSearch` |
| `LLMBridgeProofs` | theorems about `LLMBridge`, with its refinement of `RequestLifecycle` |
| `IteratedSearch` | the anytime loop, over an abstract child search |
| `AnytimePhasesProofs` | theorems about `IteratedSearch` and, over them, about `AnytimePhases` |
| `TriggerRulesProofs`, `LLMClientProofs`, `BatchRunsProofs` | theorems about these three |
| `AnytimePhases` | composes `IteratedSearch` with a bridge, the two channels and the controller |
| `TriggerRules` | when the search asks the model |
| `LLMClient` | the model client's event loop |
| `BatchRuns` | runs of the batch controller on one output directory |
| `PlanningTask` | operators: packing, axioms, effects, costs, the generator's tree |
| `TrajectoryScorer` | the scorer process over `PlanningTask`, and the reference it is compared with |
| `PlanningTaskProofs` | lemmas on each operator of `PlanningTask`: what it computes for every well-formed task |
| `TrajectoryScorerProofs` | theorems about `TrajectoryScorer`, over those lemmas |
| `MC*` | instances for TLC |

The levels rest on each other. `HybridSearch` takes from `LLMBridge` that each
accepted request is answered once and that the end of a phase ends all of them.
`IteratedSearch` takes from `HybridSearch` that a child ends (`SearchEnds`) and
that its plan is below its bound when costs are exact (`PlanBeatsBound`).
`AnytimePhases` takes both, and from `LLMClient` that a future resolves or is
cancelled. `TriggerRules` fills in what `HybridSearch` leaves open, the moment
of a request. `PlanningTask` says what `HybridSearch` takes for granted, that a
state id is a state and that the operators found are the applicable ones: in the
scorer's registry, the same class of the code, both are proved
(`IdsStandForStates`, `GeneratorIsExact`). The steps from one level to the next
are by reading, except two that are proved: `LLMBridge` implements
`RequestLifecycle`, and every run of `AnytimePhases` is one of `IteratedSearch`
(`PhasesRunTheSearch`).

### LLMBridge

One action per critical section of `queue_mutex` or `socket_mutex` and one per
system call that can block. Variables have the names of the members; `wpc`,
`wreq`, `wfd`, `waddrs`, `wok` are the locals of the workers and `spc` is where
the search thread is in `submit()` or `stop()`. `sock` is the kernel's view of
each descriptor: a closed one is handed out again at once. `NotifyOne` is a
step of its own because `submit()` notifies after it has released the lock.
Spurious wake-ups are allowed. `rejected`, `dropped`, `delivered` and
`discarded` are the sets the caller sees.

### HybridSearch

One action per piece of `search()`, `step()` and `fetch_next_node()` between
two decisions of the code; `pc` says where the thread is. `Relax` is the
treatment of one operator, shared by expansion and injection as in the code:
dead end, new node, reopened node, node with a new parent, nothing. Abstracted:

* the order of the open list (any entry may be the minimum), so everything
  checked holds for every evaluator;
* when a trigger fires (for any expanded state, at any expansion);
* what the model answers (any applicable chain, of bounded length);
* heuristic values except "dead end".

`Stored` is the conversion to the `int` fields of `SearchNodeInfo`; `Unit` says
how many model units make one. `WaitForPending` polls like the code's loop
while the open list is empty and answers are pending.

### IteratedSearch

`ppc` follows `step()`: `StartPhase`/`NoPhase` up to the child's `search()`,
`EndPhase` when it returns, `SavePlan`, `Cleanup` (the child's
`print_statistics`, which stops its bridge), `Decide` (the return value, and
the deadline test of the outer loop). `Expire` and `Kill` may happen at any
point. `found` is a history variable. `exact = FALSE` stands for fractional
costs or another `cost_type`, where a child may return a plan that is not below
its bound (section 6); `trivial = TRUE` for a task whose initial state is a
goal, which a child solves at cost 0 under any bound.

### AnytimePhases

Extends `IteratedSearch`: each of its steps is a planner action conjoined with
what it writes to `stdout` and does to the requests. `life` is the request as
the bridge sees it (the stages of `RequestLifecycle`), `wire` holds requests
the controller has not received. `hpc`, `hstatus` and `future` are the handler
of each request: one action per check of the registry or lock of the recorder,
so the end of a phase can fall between any two of them. `rpc` is the main
thread: `ReadEnd` and `MarkStale` are two steps, as registry and recorder have
a lock each. `row` is the status column of the request's record, and `answer` the
status in the response, if the planner received one. `transport_ok` holds the
requests whose row got that field from the line the planner writes for a
completed exchange (`ReadCompleted`); an exchange the planner gave up leaves no
answer, though its handler may go on and record one. The status `ok` stands for
`ok` and `partial`; `unusable` for `parse_error`, `validation_error` and
`invalid_plan`; `error` for `prompt_error`, `llm_error` and `internal_error`. The
three differ in what the end of the phase does: `Marked` overwrites `unusable`
rows and leaves `ok` and `error` alone. One line stands for all exchanges that one
poll completes.

### TriggerRules

`Expand` is `record_expanded` up to its first request: the layer's counters, the
analysis of all layers when it is due (`UpdateWindow`: growing, calm, reset of
the episode), the stall test. Then one step per call of `request_state`, since
the bridge may refuse each: `ConsiderLayer(h)` for the candidates of the slot,
best first (`BestCandidate`); `EndSlot` with the fallback of a global stall; `CheckAncestor` in
`fetch_next_node`, with its deferral. `RecordOpen` puts an entry on the open
list and is where `best_h` improves and a full table evicts. Left to chance:
which h the search sees, whether a state comes back, whether ancestors are
stagnant. `log` is the history of the requests, `since` what a layer went
through since its last one, kept apart from the code's own counters, which
resets and evictions clear.

### LLMClient

The loop switches tasks only at an await, so an action is the run of a sample
from one await to the next; `pc` names the await. `Released` is what leaving the
`async with` blocks gives back. The timeout (`Expire`) and the cancellation of a
phase (`CancelFuture`, delivered later by `DeliverCancel`) reach a sample at any
await. Time is abstract: the limiter's clock may add any amount, after a sleep
at least what was slept for. `tokens` counts in parts of a token, so that a
bucket can hold less than a whole one.

### BatchRuns

`main` follows `main()`: service, pool, `stop_all`, `stop_service`, the rows,
the exit. `step` is each job's future and the worker that runs it, one action
per statement that can fail (`mkdir`, `Popen`, reading, the marker). `alive` are
the children by the run that started them: one survives a kill of its runner.
`Start` begins a run, with or without `--resume`, on what is on disk. Markers
and the table are written by `os.replace`, hence atomic.

### PlanningTask and TrajectoryScorer

`PlanningTask` translates the task's execution: `Packer` assigns bins as
`IntPacker` does (largest first), `Get` and `Put` are shift and mask;
`Evaluate` runs arithmetic and comparison axioms and the layers of logic
axioms with counters, a queue and negation as failure; effects are applied in
the code's order, each on the buffer the last one left; `SuccessorGenerator`
builds the decision tree and `Generated` walks it. Numbers are integers. Each
loop of the code is a `Fold`: its body as a step, and the number of rounds. A
`while` loop becomes as many rounds as it can need, those after its end doing
nothing (`ApplyHornRules`: a step for each variable). The decision tree is built
from the last variable to the first, for every queue that could reach a variable;
`construct_recursive` builds the same nodes top down, for the queues that do.

`WellFormed` says which tasks the search core is given. It is what the translator
(`src/translate/translate.py` 603–690) and the preprocessor (`causal_graph.cc`
314–400) write and what `globals.cc` and `state_registry.cc` assert: a variable
has at least two values and fits a bin; axioms come in layers, arithmetic before
comparisons before rules; rules are stratified and never assign the default; an
operator touches neither derived nor constant variables, its preconditions name a
variable once; nothing but the metric reads an instrumentation variable
(`Suffices`). TLC evaluates it on the tasks of the run.

`TrajectoryScorer` is the process over it: `ReadLine`, one step per action of
the chain (deadline, unknown name, precondition, the registry's limit, the new
state, the goal), the answer, the end after `--max-requests-per-process`. The
registry (`pool`, `info`) lives on between requests. The reference is what the
task means: `meaning` holds for each id the facts and numbers it stands for,
with derived facts as a least fixed point, and `Replay` runs a chain over these.
`Validate` and `Process` are the controller's own validation of the same chain.

## 3. Runs

| Run | Instance | States | Question |
|---|---|---|---|
| `LLMBridge` | 3 requests, 2 workers, queue of 1, 2 addresses | 541 thousand | safety, refinement of `RequestLifecycle`; `stop()` returns, requests move |
| `HybridSearch` | 6 states, 2 operators, all modes, 3 bounds | 48 thousand | bookkeeping, cost, completeness, end of the phase |
| `IteratedSearch` | 128 expressions, costs 0–2 | 185 thousand | plans improve, none lost, the run ends |
| `AnytimePhases` | 2 phases, 2 requests | 7.2 million (up to symmetry) | waits are cancelled, records tell what was used |
| `AnytimeLive` | 2 phases, 1 request | 90 thousand | the controller ends |
| `AnytimeEarly` | 2 phases, 1 request | violation | a request overtakes its phase line |
| `TriggerRules` | 3 h values, 2 tracked, 3 requests, 5 expansions | 3.7 million | spacing, one stall per episode, a layer's interval and evidence |
| `LLMClient` | 2 requests of 2 and 1 samples, 2 permits, 1 retry | 205 thousand | nothing leaks, futures resolve and tell the truth |
| `LLMClientSlowRate` | rate of half a request per second | violation | a positive rate serves |
| `BatchRuns` | 2 jobs, 1 live, 2 runs, 2 faults | 923 thousand | exit code, table and markers, the end |
| `BatchService` | the same | violation | the service outlives its live jobs |
| `TrajectoryScorer` | 4 tasks, chains of 4, 2 lines | 437 thousand | scores, state ids, applicable operators, the controller's verdict |

Six further configurations are kept beside the runs. Each finds the
disagreement with the documentation that section 6 describes, `tlc` ending with
a violation:

| Configuration | Module | Violated |
|---|---|---|
| `HybridSearchExhausted.cfg` (`reopen_closed=false`) | `MCHybridSearch` | `ExhaustedIsComplete` |
| `HybridSearchConstraint.cfg` | `MCHybridSearch` | `PlanKeepsConstraint` |
| `HybridSearchFraction.cfg` (half units) | `MCHybridSearch` | `PlanBeatsBound` |
| `HybridSearchCostType.cfg` (`cost_type=one`) | `MCHybridSearch` | `PlanBeatsBound` |
| `AnytimeDirect.cfg` (no phase lines) | `MCAnytimePhases` | `NoWaitAfterStop` |
| `AnytimeDirectRows.cfg` (no phase lines) | `MCAnytimePhases` | `OkMeansUsed` |

### The bounds and why they suffice

* Bridge: two workers are needed for one to be given the descriptor another has
  closed, and for a notification to wake the wrong one; three requests leave
  one queued while two are in flight; a queue of one is full at once. Two
  addresses exercise the retry over addresses. Safety and liveness share the
  run, which therefore does without symmetry.
* Search: the diamond has two ways to `s2`, the cheap one longer, so `s2` is
  closed, reopened or given another parent; behind it lie the goal and a dead
  end; a second way to the goal violates the constraint. The bounds 3, 4 and 7
  exclude the best plan, admit only it, and admit the dearer one. Two
  requests, both pending at a time, and chains of two actions let one answer
  change nodes below the state another answer is about.
* Iterated: two engines separate "an engine of its own" from "the last one
  again"; costs 0–2 allow three improvements. `MaxPhases` is six, more than any
  run with exact costs and a passed bound uses; the others may stop at it,
  which no property counts as an end.
* Anytime: two phases are one change of phase, with the reader up to a whole
  phase behind; two requests can belong to the same phase or to both. One
  request suffices for the liveness run: handlers do not wait for each other.
* Triggers: three h values on a table of two make a layer be evicted and come
  back; five expansions with a gap of two, a layer's interval of three and two
  requests per slot leave room for three requests, the third of which meets the
  gap of the slot before, a layer's own interval or a second stall.
* Client: two samples of one state are siblings, of which one can raise while
  the other goes on; a third, of another state, competes with them for two
  permits. One retry separates an attempt that may be repeated from the last.
* Batch: with two workers and two jobs one raises while the other runs, as a
  live job or not; a second run is needed to resume, and two faults let one of
  them hit each run. Three jobs on a pool of two, where one is queued while the
  batch ends, were checked for safety as well (12.2 million states).
* Scorer: bins of four bits hold two or three variables, so packing shares bins
  and opens new ones. The tasks differ in their axioms: a chain over one or two
  layers, a loop of rules that support only each other, a rule on a default, one
  without a condition. Chains of four reach the goal, repeat states and come
  back; two lines let the second chain run over the states of the first; six
  states are the registry's limit in the middle of a chain.

### Fairness

* `LLMBridge!Fairness`: threads run, and blocking calls end. The code sets
  `SO_RCVTIMEO`/`SO_SNDTIMEO`, and `shutdown()` ends an exchange; a signalled
  waiter takes the mutex.
* `HybridSearch!Fairness`: the thread runs, and each request in flight is
  answered in bounded time, which is what `RequestsMove` says of the bridge.
* `IteratedSearch!PlannerFairSpec`: one weak fairness for the planner's steps: a
  child ends (`SearchEnds`). Neither the deadline nor a kill is owed.
* `AnytimePhases!FairSpec`: planner, main thread and each handler. There is no
  fairness for `ModelDone`: the controller must end although the model never
  answers. Handlers are threads, and only `wait` depends on someone else.
* `LLMClient!FairSpec`: asyncio's sleeps end (`WakePaced`, `NextAttempt`), the
  budget of `wait_for` ends (`Expire`), results and cancellations are handed on.
  The server owes nothing. `PatientSpec` leaves the end of the budget out, to
  ask what the limiter does however long it is.
* `BatchRuns!FairSpec`: `main` and the workers run; a child ends, as its
  `--search-time-limit` makes it. Nobody owes a start, an interrupt or a kill.

Deadlock is checked except in `BatchRuns` and `BatchService`, where the
controller really stops once no further run is started. Elsewhere stuttering at
the end is an explicit action, and at a bound, too.

## 4. What the passing runs show

`LLMBridge`: each request is in one place (`EachRequestInOnePlace`); the sweep
of `stop()` hits only sockets of exchanges in progress, each with one owner
(`SweepHitsOwnSockets`), and none is registered after it
(`NothingEscapesSweep`); the numbers printed at the end of a phase add up
(`PhaseEndAccounting`); the whole implements `RequestLifecycle`. No wake-up is
lost (`RequestsMove`), and `stop()` returns (`StopReturns`).

`HybridSearch`: no open node is forgotten (`NoOpenNodeLost`), a suspended state
has an answer coming (`AnswersAwaited`), one request per state within both
limits (`RequestBudget`). Parent pointers lead back to the initial state at a
real cost of at most `real_g` (`ParentsCertifyG`), whatever is injected; tracing
the plan ends, and the plan is below the bound (`PlanBeatsBound`). With reopening, closed nodes stay
settled (`ClosedNodesSettled`), and exhaustion means there is no plan below the
bound (`ReopeningExhaustsAll`, against the reference `Cheapest`). The phase ends
(`SearchEnds`).

`IteratedSearch`: saved plans get cheaper (`IncumbentsImprove`) even with
children that ignore their bound; the best plan found is saved except inside
the few statements before `save_plan` (`BestPlanKept`); with exact costs a
solved phase improves, or finds the empty plan again (`SolvedPhaseImproves`),
and the run ends without a deadline (`RunEnds`), unless the initial state is a
goal (section 6).

`AnytimePhases`: a handler that waits for a running model is registered, and the
line or the close that cancels it is still to come (`WaitersAreReached`), so
none waits once the registry is closed, except in direct mode. The records
tell what the planner used, `OkMeansUsed`: an answer it took and could use is
recorded `ok`; when the run is over, a row is `ok` with `transport_ok` exactly if
its answer was used, kills included; and without a kill no request discarded
with its phase is left `ok`. The status alone does not say it: where the planner
gave the exchange up, the handler may still record `ok` (section 6). A stale row
never turns `ok` (`StaleStaysStale`); nothing changes after the last flush
(`FlushedIsFinal`); the controller ends after the planner (`ControllerEnds`).

`TriggerRules`: all rules share the gap, although later requests of a slot
bypass it, and an expansion makes no more than a slot's (`SharedSpacing`); a
stall is served once until a better h, also when a layer's request served it
(`StallOnce`); a layer is asked about again only after its interval, unless it
was quiet or evicted in between (`LayerInterval`), and always with new evidence
(`FreshEvidence`): what an eviction loses is the interval, never the evidence.

`LLMClient`: whatever is cancelled at whatever await, permits and lock are given
back (`NothingLeaked`), including those of a sample whose state already failed;
after the budget nothing is sent and no result changes (`BudgetIsFinal`); a
future's result or error is its samples' (`FutureTellsAll`); each future
resolves although the server never answers (`FuturesResolve`).

`BatchRuns`: exit code 0 means that each job has a marker a later run would
reuse, the table agrees and no child of this run is left (`ExitZeroIsTrue`); a
row is its job's marker through interrupts, kills and later runs
(`RowsAreMarkers`); a resumed run neither repeats nor overwrites what is
finished (`FinishedStaysFinished`); the batch ends (`BatchEnds`). Where the
properties stop:

* A run without `--resume` leaves the markers of earlier runs until it
  overwrites them. If it is killed first, a later `--resume` counts the old
  marker as this configuration's result.
* A worker that cannot read its child's output leaves the child running
  (`ReadRaises`); one between `Popen` and `_active.add` is missed by `stop_all`.
  The exit code is 1 or the run interrupted in both cases.
* When a job raises, jobs that finished before it have their marker, but are in
  no table of this run.

`TrajectoryScorer`: an answer is the replay of its own chain from the initial
state, whatever was scored before (`ScoreIsReplay`); a state id is one state,
derived variables included (`IdsAreStates`); the generator's tree finds exactly
the applicable operators (`GeneratorFindsApplicable`); controller and planner
agree on the legal prefix, the goal and the first illegal action
(`ProcessorAgrees`).

A plausible defect of the code is defined beside what it changes, as a
definition commented "Variant"; each property fails for at least one
(`PROJECT.json`, `mutants`).

## 5. What is proved

For every value of the constants, from the assumption each module names
(`SearchAssumption`, `BridgeAssumption`, `IteratedAssumption`, ...), which give
constants their types and, where sets are counted, finiteness; `ScorerAssumption`
is that the tasks are well-formed (section 2). Type correctness
is proved rather than run. A theorem that needs more says so in its statement.

| Theorem | Statement |
|---|---|
| **`HybridSearch`** | |
| `TypeCorrect` | `TypeOK`, with `PointOK` |
| `OpenNodesReachable`, `RequestsWithinBudget`, `SuspendedAreAwaited` | `NoOpenNodeLost`, `RequestBudget`, `AnswersAwaited` |
| `ParentsCertify`, `ClosedStaySettled` | `ParentsCertifyG`, `ClosedNodesSettled` |
| `NothingMissed` | with exact costs and reopening, a failed search misses no path of usable states to a goal below the bound |
| `TracedPlansBeatTheBound` | with exact costs, any path the parent pointers describe to the goal costs less than the bound |
| `TracesEndAlways` | finitely many states: `trace_path` ends from every state, at a node without an operator, whatever the costs |
| `PlansBeatTheBound`, `ReopeningExhausts` | finitely many states and exact costs: `PlanBeatsBound`, `ReopeningExhaustsAll` |
| **`LLMBridge`** | |
| `TypeCorrect` | `TypeOK`: `active_requests` never runs below zero |
| `EachRequestInOnePlaceAlways`, `SweepHitsOwnSocketsAlways`, `PhaseEndAccountingAlways` | the invariants of these names |
| `NothingEscapesSweepAlways` | no socket is registered once `stopping` is set |
| `ImplementsLifecycleAlways` | each step is one of `RequestLifecycle` or a stutter |
| **`IteratedSearch`** | |
| `PlannerTypeCorrect`, `SavedPlansImprove`, `NoPlanLost`, `PassedBoundImproves` | `PlannerTypeOK`, `IncumbentsImprove`, `BestPlanKept`, `SolvedPhaseImproves` |
| **`AnytimePhases`** | |
| `PhasesRunTheSearch` | every run is a run of `IteratedSearch`, so its theorems hold here |
| `AnytimeTypeCorrect` | `TypeOK` |
| `WaitersAreReachedAlways`, `OkMeansUsedAlways` | when the planner writes phase lines (`~Direct`): `WaitersAreReached`, `OkMeansUsed` |
| `StaleStaysStaleAlways`, `FlushedIsFinalAlways` | the action properties of these names, direct searches included |
| **`TriggerRules`** | |
| `TriggerTypeCorrect` | `TriggerTypeOK` |
| `SharedSpacingAlways`, `StallOnceAlways`, `LayerIntervalAlways`, `FreshEvidenceAlways` | the properties of these names |
| **`LLMClient`** | |
| `ClientTypeCorrect` | `ClientTypeOK` |
| `NothingLeakedAlways`, `FutureTellsAllAlways`, `BudgetIsFinalAlways` | the properties of these names |
| **`BatchRuns`** | |
| `BatchTypeCorrect` | `BatchTypeOK` |
| `RowsAreMarkersAlways`, `ExitZeroIsTrueAlways`, `FinishedStaysFinishedAlways` | the properties of these names |
| **`TrajectoryScorer`** | |
| `AnswersAreReplays` | `ScoreIsReplay` |
| `IdsStandForStates` | `IdsAreStates` |
| `GeneratorIsExact` | `GeneratorFindsApplicable` |
| `ProcessorIsRight` | `ProcessorAgrees` |

### HybridSearch

The invariants are built in layers, each inductive given those below it:

1. `TypeOK` with `PointOK` (what the cursor variables hold at each point);
2. `NoOpenNodeLost`, which the requeue in `FinishResponse` needs from `PointOK`;
3. `RequestsOK`: pending is exactly in flight or answered, each once, and all of
   it is finite, from which `RequestBudget` follows; then `AnswersAwaited`;
4. `ReachedOK`: the states the thread holds in its cursor, its requests and its
   batch are reached nodes. Without it an injected chain could start at a node
   without a parent;
5. `CostOK`: each reached node is certified by its parent. It is stable under
   changes of an ancestor because g only falls: the inequality between parent
   and child can only get slacker. This is the reason it is an inequality;
6. `ClosedNodesSettled` and `NothingLeft`: a closed node's operators are
   settled, and the initial state is reached; at failure nothing is open;
7. `PointersOK` and `NoCircle`, for all costs and cost types. A parent's g is
   not above its child's: `StoredWhole` says that cutting off a fraction does not
   take a sum below its first term. `NoCircle` says that every set of states has
   one whose parent is outside. It is kept because a set that a new pointer from
   t to p closes contains p, and its states with a g below the old g of t were
   closed under the old pointers, p among them. So zero-cost operators cause no
   circle, although g need not fall along the pointers.

`NothingMissed` follows by contradiction on a path: take the first position
whose state is not closed at a g of at most the path's prefix cost
(`LeastNat`); its predecessor is settled, so it is reached at such a g, and at
failure reached means closed. `TracedPlansBeatTheBound` adds the certificates
along a path. Both speak of paths as sequences and need no finiteness.

The invariants that the run checks evaluate the recursive functions `Traced` and
`Cheapest`. That these satisfy their defining equations (`TracedIs`,
`CheapestIs`) rests on `Iterates`: every step function has iterates, glued
together from finite beginnings, which exist and agree by least counterexample.
What is claimed of the k-th value is proved the same way. `TraceEnds` counts: the
states from which k steps of tracing have not ended get fewer with k, since a
set that does not shrink would be a circle.

### LLMBridge

`SocketInv` is inductive by itself: a worker holds a descriptor exactly between
`socket()` and `close()` (`WorkersOK`), no two hold the same, and one is open
exactly while held (`DescriptorsOK`); this gives the sweep. `RequestInv` says that
each place holds a request once and no two places share one (`NoDuplicates`,
`PlacesDisjoint`), and that `active_requests` counts the workers that hold one
(`CountOK`), which is why it stays above zero; it needs `WorkersOK` to know when a
worker holds a request. `PhaseOK` follows `stop()`: between the sweep and the last
poll, what is completed or active is what was counted, and it turns into what is
discarded. The refinement maps each action under `RequestInv`; without it a pop
could take an answer the abstract bridge does not hold.

### IteratedSearch

`IncumbentsImprove` is inductive only with `SavedOK` (no saved cost is below the
bound). `BestPlanKept` needs `FoundOK`, which says where the plan at hand is
between the child's return and `SavePlan`. `SolvedPhaseImproves` needs `PlanOK`:
the plan at hand is below the bound it will be compared with, or both are the
cost 0 of the empty plan.

### AnytimePhases

Two sources have no common order, the lines and the requests, so the invariant
says where each phase's lines are. `LinesOK`: the lines on `stdout` are in the
order the planner writes them (`Key`), none is ahead of the planner, and each is
true when read. `LinesTell`: as long as a phase is active, or its start is
unread, its end is still to be written or still unread (`PhasesOK`); a discarded
request is named by an unread line or can no longer become `ok` (`DiscardsOK`);
and `WaitersAreReached` itself. `RequestsOK`, `ReaderOK` and `RowsOK` tie the place
of a request in the bridge to its handler and its row. `AnswersOK` does the same for
`transport_ok`: it holds only answers the planner took, and each answer taken is
in it or in a line still unread. The lines of completed exchanges name no phase,
so the order of `LinesOK` leaves them out (`Placed`). `LinesTell` is claimed only
for `~Direct`: a direct search writes no phase lines, and there both properties
fail (section 6).

### TriggerRules

`LogOK` makes `last_request_expansion` the latest entry of the log, and `SlotOK`
counts the entries of the current slot: together they give `SharedSpacing`
although later requests of a slot bypass the gap. `SlotOK` also keeps the
candidates eligible until their turn. `StallOK`: while the episode is not yet
served, `best_h` is below that of every stall served before. `LayersOK` compares
the table with the history: a layer's counters never run ahead of what the layer
went through since it was asked about, and one that was not evicted remembers
its last request. The counters may lag, since resets clear them, hence the
inequalities.

### LLMClient

`PermitsOK` counts: the free permits and the samples at an await inside the
semaphore make up `MaxConcurrency`. `LockOK`: exactly the sample at the limiter's
sleep has the lock. `SamplesOK` says that an ended budget means a sample is done,
from which `BudgetIsFinal` follows, and that a sample between two attempts has
one left.

### BatchRuns

`JobsOK` says, job by job, when a result or a row may exist: only while no worker
is at the job, and equal to the marker. A kill may come between the marker, the
row and the exit code, so the invariant relates each pair, not the three.
`MainOK` ties the exit code to the rows written before it.

### PlanningTask

The lemmas hold for every well-formed task and every bin size. Each relates what
the code computes on a packed buffer to what the task means:

1. Packing (`PackerPlaces`): every variable gets a place, and no two places share
   a bit. With it a write changes its own variable and no other (`PutStored`), and
   a buffer is determined by what can be read from it (`StoredDetermined`). The
   last is where injectivity comes from: bits that belong to no variable are zero
   from `NoBits` on and stay so. Reading and writing fields with `\div` and `%`
   rests on `FieldIs` and `FieldPut`.
2. Numbers (`SumsAgree`, `AssignMeans`): arithmetic axioms and effects give the
   same values whether they start from the packed numbers or from the meaning,
   on every variable that is not only the metric's. A derived number is read only
   after its axiom wrote it, since the axioms come in order.
3. Rules (`LogicIs`): the evaluator's result is the stratified least model. The
   machine invariant (`Running`, `Following`) counts: the unsatisfied conditions of
   a rule are its conditions minus those literals that were popped (`seen`), the
   stack and `seen` together hold each true literal once, and what is true beyond
   the start is contained in every closed set. When the stack is empty, what is
   seen is closed (`LayerComplete`), hence least; the layer's defaults are then
   those the reference leaves (`DefaultsAre`). The rounds suffice because each
   pops a literal of another variable (`ModelSize`).
4. States (`InitialRepresents`, `SuccessorRepresents`): the initial buffer
   represents the initial meaning, and the successor of a buffer that represents
   s represents what the operator makes of s. `Represents` is: all facts as in the
   model, all regular numbers as meant, no other bit set.
5. The tree (`GeneratorIs`): by induction from the last variable, the tree at a
   variable generates, from a queue whose tests on earlier variables are done,
   the operators whose remaining conditions hold.

A loop's lemma needs the states between its rounds. For each loop there is a
lemma that gives them (`PackerRun`, `HornRun`, `AfterRun`, ...): a function F with
F[0] the base and F[k] the step from F[k-1]. They are alike, and would be one
lemma about `Fold`, but a lemma with an operator as parameter cannot be used by
these provers.

### TrajectoryScorer

`ScorerInv` is the inductive invariant. `Registry`: each buffer represents its
`meaning`, no buffer is stored twice, and the first is the initial state.
`Walked`: while a chain is evaluated, the ids on the path mean the states after
each of its actions, each action was legal, and no state before the last was a
goal. `Stops`: an answer's outcome is the reason why the walk ended. What the
registry did with a state seen before matters only to `info`, the metric's values,
which no representation reads: this is why the answer does not depend on the
lines before. `ScoreIsReplay` follows because a walk that ends for its reason is
the shortest prefix with an end (`ReplayIs`); `IdsAreStates` because two buffers
that represent the same are the same; `GeneratorFindsApplicable` from
`GeneratorIs`; `ProcessorAgrees` from the first by the cases of `Stops`. TLC has
checked `ScorerInv` on tasks like the run's with chains of three (60 thousand states).

## 6. Where code and documentation disagree

Each has a configuration that TLC finds violated. For the last three it is one
of the runs, and `PROJECT.json` quotes the lines; the others are the further
configurations of section 3.

* `ExhaustedIsComplete`: without reopening, "Completely explored state space"
  can be printed while a plan below the bound exists, because a closed node
  given a cheaper parent is not expanded again.
* `PlanKeepsConstraint`: injected chains run through states the search itself
  drops for violating the global constraint.
* `PlanBeatsBound` with fractional costs: `int` g values lose the fractions.
* `PlanBeatsBound` with `cost_type=one`: a parent with a lower adjusted g and a
  higher real cost takes over descendants that passed the bound test before.
* `NoWaitAfterStop` in a direct search: a late request activates the closed
  registry, and `server_close()` waits for its model. The wait is bounded by
  the client's own timeout, not by cancellation.
* `OkMeansUsed` in a direct search: the proof for phases did not carry over, and
  TLC shows why. After the last line was read and the registry closed, a
  connection that comes late sets its row, recorded as discarded, back to
  `received` (`anytime.py` 245–278), is accepted by the closed registry as above,
  and the row ends `ok` although the planner has discarded the answer.
* `ActivePhaseAccepted`: a request of the new phase may be handled before the
  line that activates it was read, and is answered `stale_iteration`. In the
  first phase it activates the phase itself.
* `LimiterServes`: `--llm-max-qps` is offered as a rate, but for one below 1 the
  bucket never holds the whole token a request needs. The request that waits for
  it keeps the limiter's lock until its timeout, and nothing is ever sent.
* `ServiceOutlivesLiveJobs`: a worker that raises ends the batch at once, and the
  vLLM service "shared by all live jobs in a batch" is stopped while another
  live job's child still plans with it.

Seen while translating, without a run:

* An exchange the planner gives up (its HTTP timeout, a broken connection) does
  not stop the handler, whose row may end `ok` although nobody took the answer.
  Only `transport_ok` tells; the counters of usable samples (`anytime.py` 533–595)
  are summed from `usable_sample_count` and count that answer, too.
* A row that ended `parse_error`, `validation_error` or `invalid_plan` becomes
  `stale_iteration` at the end of its phase (`anytime.py` 333–338), also if the
  planner had received that answer long before, and is counted as a stale
  request.
* `state_registry.cc` 310–324: two `if`/`else` in a row assign the metric of a
  state seen again, and the second overwrites the first, so the smaller old
  value of a minimised metric is not kept. Without a metric, index −1 is read.
* The metric's cost of an operator is computed once, in the initial state; an
  effect that depends on a variable is charged at its initial value.
* `-0.0` and `0.0` pack to different bits, hence to different state ids.
* `pack_bins` never ends on a variable with one value (`int_packer.cc` 136–140): it
  takes no bits, and `pack_one_bin` only places variables that take some. The
  proof of `PackerPlaces` needs ranges of at least two, which the preprocessor
  grants by removing such variables.
* `IdsStandForStates` needs `Suffices`: were a comparison to read an
  instrumentation variable, two buffers with different derived facts could mean
  the same state, since its value is kept beside the state and overwritten.
* The conditions of conditional numeric effects are not tested when the numeric
  successor is computed.
* An answer to a line that is too long carries no request id.
* The goal test of a search precedes every bound test (`eager_search.cc` 2428,
  2268, 2459), so a task whose initial state is a goal is solved at cost 0 under
  any bound. With `repeat_last` and `continue_on_solve`, as the controller sets
  them, such a run finds the empty plan again and again until its deadline.

## 7. What is only model-checked

All liveness (`StopReturns`, `RequestsMove`, `SearchEnds`, `RunEnds`,
`ControllerEnds`, `FuturesResolve`, `BatchEnds`): it needs fairness and ENABLED.
Every other property of a passing run is stated by a theorem of section 5.

## 8. What is not modelled, and why

* Multi-path dependence, operator pruning and preferred operators: off in the
  expressions the controller builds.
* The `log` mode's output, counters that are only printed, CSV columns.
* A wrap-around of the 30 bit g field: it needs costs near 2^29.
* The mixing of pieces of stdout lines of two threads.
* Floating point and division: numbers of a task are integers in `PlanningTask`, in
  `HybridSearch` multiples of a unit.
* Symmetric successors and `register_state` of the registry: neither the
  controller's expressions nor the scorer use them.
* The parsing of the model's Python text into calls, and the simulator library
  behind the response processor: the latter is taken to follow the task's
  semantics, which is what `ProcessorAgrees` compares the planner with.
* The prompt builder: text without state that outlives a call.
* Polling of `/v1/models` by the launcher, manifests, arguments, log text.
* Heuristics, landmarks, LP, abstractions, symmetries (with the vendored `bliss`
  and `ext/tree.hh`), translator, preprocessor, other engines, driver, scripts:
  upstream or vendored code. It is most of the source by size. To the modelled
  parts a heuristic is an order of the open list and a set of dead ends, both
  left open, so its algorithm changes nothing they promise; the heuristics'
  own correctness (LP bounds, cuts, floating point) is a different subject and
  not a state machine.

## 9. Plan

Done: the models of sections 2 to 4 and the theorems of section 5. To come:

1. A refinement: every state id of `HybridSearch` as a meaning of `PlanningTask`,
   its operators as `Meant`, on the lemmas of `PlanningTaskProofs`.
2. Safety halves of the liveness properties: in every state of a search that
   waits, of a bridge that stops, and of a controller that joins, the step that
   ends the wait is enabled or another's is, stated without ENABLED.
3. Division in arithmetic axioms, and numbers that are not integers.
