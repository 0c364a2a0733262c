# TLA+ models of Cellular Automaton Lab

Cellular Automaton Lab simulates cellular automata on regular and aperiodic
tilings. A Flask server keeps one simulation per browser session, steps it in
the background and saves it to a file; a browser client polls it, edits cells
and changes its configuration over HTTP, or runs the same service in a web
worker. A second workspace compares how one setup evolves on several tilings,
and forks single boards of the comparison into live ones.

These modules model the parts of the program whose correctness depends on the
order of things (threads, timers, locks, requests and responses, saves and
restarts), and the computation everything else is about: the rules, the regular
tilings and the evolution of a board. Paths below are relative to the
repository.

1. [The system](#1-the-system)
2. [Modules and the code](#2-modules-and-the-code)
3. [What the runs check](#3-what-the-runs-check)
4. [Disagreements and observations](#4-disagreements-and-observations)
5. [What is proved](#5-what-is-proved)
6. [What is not modelled](#6-what-is-not-modelled)
7. [Plan](#7-plan)
8. [Running the checks](#8-running-the-checks)

## 1. The system

| Part | Code | State it keeps | Operations |
| --- | --- | --- | --- |
| Simulation service | `backend/simulation/service*.py`, `transition_planner.py`, `state_restore.py` | `SimulationStateData`: configuration, rule, board, `running`, `generation`, `state_revision`, `state_epoch` | start, pause, resume, step, background step, reset, configure, toggle and set cells, replace on restore; each under one lock |
| Session persistence | `backend/simulation/coordinator*.py`, `persistence*.py` | pending timer, token, dirty flag, two locks; the file and its temporary file | immediate and deferred mutations, timer expiry, flush, save, load, shutdown |
| Background runtime | `backend/simulation/runtime.py` | one thread per session, a stop event | start, step and sleep, stop and join |
| Session registry | `backend/simulation/sessions.py`, `bootstrap.py` | least-recently-used map of coordinators | get (create, evict), shutdown at exit |
| Commands and routes | `backend/application_commands/`, `backend/web/` | none | one handler per command: mutate the session, then answer with a snapshot or a cell delta |
| HTTP backend | `frontend/api.ts`, `frontend/simulation-snapshot-cache.ts`, `frontend/state/polling.ts` | the cached snapshot, requests in flight, the poll timer | get state, post control, mutate cells; install, rehydrate, apply delta, refresh |
| Config sync | `frontend/config-sync/`, `frontend/mutation-runner.ts` | pending and syncing rule and speed, debounce timer, queue of mutations | choose rule or speed, run the queue, reconcile with a snapshot, recover |
| Editor | `frontend/editor-history.ts`, `frontend/interactions/` | undo and redo stacks, the queue it shares with config sync | edit, undo, redo, clear on a foreign change |
| Comparison wall | `frontend/compare/compare-panel-content.ts`, `latest-config-scheduler.ts`, `compare-wall-history.ts` | pending and active configuration, the wall shown, its history, live forks | change the setup or single boards, run, analyse, retry, undo, redo, fork, cancel |
| Pane sessions | `frontend/pane/`, `frontend/compare/compare-focus-pane.ts` | the pane's snapshot, poll timer, undo and redo stacks | seed, stroke, undo, redo, run, pause, step, dispose |
| Standalone runtime | `frontend/standalone-worker.ts`, `frontend/standalone/`, `backend/browser_runtime.py` | the same service in a web worker, a chain of tasks, a tick timer, browser storage | calls and ticks one at a time, saves, reloads |
| Rules and engine | `backend/rules/`, `backend/simulation/engine.py` | none | the next state of one cell; the next board in one pass |
| Topologies | `backend/simulation/topology*.py`, `aperiodic*`, `rule_context_frames.py` | none | cells and adjacency of every tiling; the directional frame |
| Comparison computation | `backend/simulation/seeding/` | the boards seen so far | evolve a seed, find its extinction or cycle, label the outcome |

How they meet. A request thread asks the registry for the coordinator of its
session, calls it, and is answered; the coordinator mutates the service under
the service lock and then asks for a save, at once or after a debounce. The
background thread of the session steps the same service with the engine and the
session's rule. A save reads the service again, so it may hold more than the
mutation that asked for it. On the client, responses come back to the cache in
any order; every snapshot that is applied also reconciles the rule and speed
controls, empties the editor's history if it no longer describes the board, and
starts or stops polling. The wall sends its configurations to the comparison
computation; a fork of one of its boards is a pane with a session and a cache of
its own.

What makes each part hard, and correct:

* **Persistence**: request threads, timer threads and the loop meet at three
  locks, and cancel, expiry and flush cross each other. Correct when an answered
  mutation is on file, the file never goes back, a requested save always happens,
  and a crash leaves a complete file.
* **Service**: rules, lattices and boards change separately and persisted boards
  are restored leniently. Correct when every cell is a state its rule knows, and
  the revision counts exactly the observable changes.
* **HTTP backend**: reordered, lost and partial responses, and a server that
  restarts. Correct when the cache is a state the server was in, never goes back,
  shows the client its own changes, and catches up.
* **Registry**: eviction finishes outside the lock that made it visible. Correct
  when no session loses an edit, no shut-down coordinator is handed out, and
  threads stay bounded.
* **Config sync**: choices overtake requests and snapshots report older choices.
  Correct when the last choice wins and no control stays "syncing".
* **Editor**: a command is computed from the board shown when the user acts and
  changes the stacks when its answer is applied; polls and other clients come in
  between. Correct when the stacks describe the board and every command ends.
* **Comparison wall**: runs are slow, aborts are only advice, and runs,
  restorations, imports and changes of the setup overlap. Correct when the wall
  asked for last is the one shown, undo starts from it, and the controls come
  free.
* **Pane sessions**: a write is up to three requests, nothing keeps two commands
  apart, and a poll falls between any two. Correct when the stacks describe the
  board, writes do not change whether the simulation runs, and the pane catches
  up.
* **Standalone**: ticks, calls and saves are ordered by a chain in the worker and
  by transactions in the page. Correct when what a caller was told is stored,
  storage stays current, calls settle and a running simulation ticks on.
* **Rules**: each is written twice, for a cell and for a board. Correct when both
  agree, boards keep to the rule's states, and a label tells how a board goes on.

The hazards, each at its line, and the properties that catch them are listed in
`PROJECT.json` under "hazards".

## 2. Modules and the code

`PROJECT.json` maps every definition to its lines; this is the outline.

**WriteBehind** is the abstract specification of a session's state file: memory
moves forward, the file follows it, never goes back, and is never behind what a
caller was told.

**SessionPersistence** is one `SimulationCoordinator` with its file. A state of
the simulation is the number of mutations behind it (`version`). `Clients` are
request threads; a timer is named by the token it carries, and its thread is one
more process. Sections under the service lock or the coordinator's `_lock` never
block and are one step each. What happens outside them is a step of its own:
cancelling the previous timer, starting the new one, waiting for
`_persist_lock`, taking the snapshot, opening, writing and replacing the
temporary file. A timer that has expired can no longer be cancelled. Any save
may raise, the process may die at any step, and the next one restores what the
file holds. `owed`, `acked` and `promised` are history.

**SimulationService** is the service's state and its operations, as operators
from state to state (`Stepped`, `Configured`, ...) and as actions. A topology is
a value with a family and a set of cells. The result of a step or of a random
reset is any board over the rule's states. `Restart` covers a new process and a
session built again: the initial state or what the restorer makes of any
payload, a rule that does not support the family included, since restore is
lenient. Epochs come from the wall clock, so `MayMint` only forbids an epoch
twice; `ClockMayGoBack` says whether a restart may mint an older one.

**HttpBackend** extends SimulationService with a client: its cache and
`Requests`, slots for calls in flight. A call is sent, taken by the server (a
control command in two steps, since the mutation and the snapshot it answers
with are two acquisitions of the lock), and received; a full refresh turns the
call into a second request. The cache compares object identities to see whether
it was assigned since the request was sent; every assignment stores a new
object, so one bit per call (`raced`) carries the same information. One slow
call and any number of faster ones need two slots, since a finished slot is
used again.

**SessionRegistry** is `SimulationSessionRegistry` with the coordinators it
creates. The critical section of `get` is one action (`Find`, `Create`); the
shutdown of the evicted coordinator is two more (`StopEvicted`, `FlushEvicted`).
A handler keeps the coordinator it was given, evicted or not. `Exit` is the
atexit shutdown, which empties the registry under its lock and then closes the
coordinators one by one (`CloseNext`); handlers that still run may look sessions
up and create coordinators until the process ends (`Reboot`), and nobody shuts
those down. A session holds the set of edits applied to it, so that a lost one
shows. The steps inside one save are SessionPersistence's subject; here a save is
one step.

**ConfigSync** is the rule and speed controls with the mutation queue: choices,
the debounce timer, the task at the head of the queue step by step, recovery
after a failure, polls, and another client of the session. `Apply` is the
application of a snapshot followed by `reconcile`, which run without an await in
between. That the applied snapshot is never an older one is taken from
`HttpBackend!CacheNeverRegresses`.

**EditorHistory** is edits, undos and redos in the same queue. `CommittedEdit`
compares the stroke with the board shown, `Submit` queues the command, `Serve`
and `Answered` are its request, `Refreshed` the recovery's own request after a
failure, and `ApplyExternal` what a foreign snapshot does to the stacks. Which
cells a brush or a shape covers is any set.

**LatestConfigScheduler** is the wall's scheduler: a record, and every call of
`latest-config-scheduler.ts` a function from one record to the next, so that a
handler of the panel can make several calls in one step. The code numbers
configurations and only asks whether the active one has the latest number;
`active.current` is that.

**CompareWall** is the panel around it. A wall is a set of boards and a setup. A
run is first short (too few boards to compare), asked or loading; its ticket is
`owned`. Beside runs go the restorations of undo and redo, including those that a
cleared history overtook and that still load, analyses, and forks being imported.

**PaneSession** is one live fork: the session, the backend's cache, the pane's
snapshot, and operations as chains of requests (`<<"pause", "cells", "resume">>`).
A handler of an answer sends the next request. Any two operations may be under
way together. The session's board may be left over from an earlier fork, since
sessions are named after boards. `CommitEarly` is a stroke that goes on while its
first cell is still making the fork. Of HttpBackend it keeps what its properties
say of one lifetime of the server: answers resolve to the newest state known.

**StandaloneRuntime** is the page, the worker and the storage. The worker's
`operationChain` and the messages to the page are sequences; saves are
transactions in the order they were asked for. A state is a version, whether it
runs, and the version of the reset that made its lattice. Ticks and saves may
fail, the worker may fail to start or report an error, and the page may close.

**RegularLattice** and **TopologyFrame** are the regular tilings and the
directional frame of square boards, where the code's angles and distances are
comparisons of integers. **Rules** has every rule of the registry as a value and
what it says of one cell; **RuleBatch** its pass over the board, as the engine
runs it. **Trajectory** is the evolution of one seeded board with its extinction,
cycle and label. `MCTrajectory` builds the boards, two of them on mixed tilings.

An operator whose name extends another's with an underscore (`Evict_Peeks`) is
a plausible mistake in that definition. `PROJECT.json` pairs each with the
property that must fail when it takes the definition's place.

## 3. What the runs check

| Run | Instance | Properties |
| --- | --- | --- |
| `persistence` | 2 request threads, 2 timers, 3 mutations, 1 failing save, 1 crash, fairness | `TimersConsistent`, `DurableAck`, `NoLostPersist`, `DiskNeverRegresses`, `ImplementsWriteBehind`, `EventuallySaved` |
| `service` | 3 topologies of 2 families, 3 rules, 2 speeds, 2 mutations per lifetime, 2 lifetimes with a clock that may go back, a client with 1 call in flight, fairness | `ServiceConsistent`, `RevisionCountsMutations`, `Converges` |
| `client` | 2 calls in flight, 2 mutations per lifetime, 2 lifetimes, a restart or a lost call, fairness | `ClientConsistent`, `CacheNeverRegresses`, `SeesOwnCall`, `Converges` |
| `registry` | 2 sessions, a cap of 1, 2 handlers, 3 coordinators, 1 edit, 1 exit at any moment, fairness | `RegistryConsistent`, `SerialSessionsKeepEdits`, `EvictedStop` |
| `registry_racing` | 3 sessions, a cap of 2, 2 handlers, 1 edit | `SessionsKeepEdits` is violated |
| `sync` | 3 choices among 2 speeds and 2 rules, 1 poll, 2 failures, 1 foreign change, fairness | `LastRuleWins`, `ControlsConsistent`, `ControlsSettle` |
| `sync_speed` | 2 speed choices, 1 poll | `LastSpeedWins` is violated |
| `editor` | 2 cells of 2 states, a history of 2, 3 commands, 1 foreign change, 1 failure, 1 poll, fairness | `EditorConsistent`, `CommandsEnd` |
| `wall` | 3 boards, 2 setups and a refused one, 1 fork, a history of 2, 4 acts of the user, 1 failure, fairness | `WallConsistent`, `LatestWallWins`, `HistoryDescribesWall`, `TimelyForksAreShown`, `ComesToRest` |
| `pane` | the seeding and 3 acts of the user, 2 operations under way, 1 cell of 2 states, 1 generation or failure, fairness | `PaneConsistent`, `WritesKeepRunState`, `PaneCatchesUp` |
| `standalone` | 2 calls in flight, 2 commands, 3 versions, 1 tick under way, 1 failure, 1 reload, fairness | `RunnerConsistent`, `ToldIsStored`, `PausedIsStored`, `StorageStaysCurrent`, `CallsSettle`, `RunGoesOn` |
| `rules` | 9 rules on 11 boards from every seed of a few cells, 8 generations | `BoardWellFormed`, `BatchAgrees`, `CyclesAreReal`, `LabelForetells`, `SourcesEmit` |

What they show:

* *Persistence.* `DurableAck`: a mutation answered as saved is on file, whatever
  saves of other threads, failures and crashes come after. `NoLostPersist`: while
  the file is behind a requested save, a thread or the pending timer is on its
  way to it, so no order of schedule, cancel, expiry and flush drops one;
  `EventuallySaved` adds that it arrives. `TimersConsistent`: no timer is left
  to fire whose work was superseded, although the old timer is cancelled and the
  new one started outside the lock: the one on record, or one that a thread is
  about to cancel, is all that can still expire. `ImplementsWriteBehind` is the
  refinement to WriteBehind.
* *Service.* `ServiceConsistent` crosses rule changes, resizes and restores:
  rules assume the states they declare, and an unknown one misbehaves silently.
  `RevisionCountsMutations` is what clients rest on (`docs/ARCHITECTURE.md:67`).
* *Client.* `CacheCoherent`, in `ClientConsistent`: a cached snapshot with the
  server's epoch and revision is the server's state, cell for cell, although it
  may have been put together from a full snapshot, compact updates and deltas.
  `SeesOwnCall`: a call that completes is visible in the cache, or something
  newer is; its exception is a call that failed. `Converges` needs no help from
  epochs being ordered, which `service` shows: there the process that starts may
  mint an epoch older than the one the client holds, and the client has one call in
  flight. A poll with nothing racing it is installed unconditionally.
* *Registry.* `SerialSessionsKeepEdits`: no edit is lost until two requests, or
  a request and the exit, overlap; for two requests `SessionsKeepEdits` then fails
  (section 4). `RegistryConsistent`: handed-out coordinators are alive in any case,
  after the exit has emptied the registry too, and loops above the cap are those of
  evictions under way and of coordinators the exit has yet to close. `EvictedStop`:
  these stop.
* *Controls.* `LastRuleWins` holds, the same for speeds does not (section 4).
  `ControlsConsistent` (no control shows "syncing" without a task that ends it)
  and `ControlsSettle` cover failures of requests and of the recovery's own
  refresh. They exclude a speed changed by another client, after which the code
  has nothing that ends the indicator.
* *Editor.* `EditorConsistent`: as long as each command met the board and the
  stack it was computed from, the stacks lead from the board shown back through
  the boards they were made on, whatever polls, foreign edits, steps and failures
  came in between. A snapshot that does not fit empties them; one that does keeps
  them. `CommandsEnd`: a command whose request and recovery both fail still lets
  the next one run.
* *Wall.* `LatestWallWins`: once the scheduler is idle the wall asked for last is
  the one shown, however late the runs it overtook. `HistoryDescribesWall`: undo
  and redo start from the wall shown. `TimelyForksAreShown`: a live fork is one
  its board shows, if it was not mounted in the middle of a run. `WallConsistent`
  holds `NeverStuckBusy`: no cancelled, overtaken or failed operation leaves the
  controls busy. `ComesToRest`: the queue empties.
* *Pane.* `WritesKeepRunState`: writes that overlap with each other, with polls
  and with late answers leave the session running or paused as the run button or
  a step last left it; that rests on the cache never showing an older state, and
  fails without it. `PaneCatchesUp`: neither does the pane stop polling a session
  that runs. `PaneConsistent` holds `HistoryFits` (the stacks describe the board
  of the session as long as only the pane's writes change it and one command ends
  before the next) and `ButtonsTellHistory`.
* *Standalone.* `ToldIsStored`: storage is never behind a state a caller was
  told. `StorageStaysCurrent`: saves of ticks and of calls never go back, with one
  exception (section 4). `PausedIsStored`: nothing is lost by pausing.
  `RunnerConsistent` and `RunGoesOn`: the run loop neither stops by itself nor is
  left stopped by a failed tick.
* *Rules.* `BatchAgrees`: the pass over the board gives each cell what the rule
  says of it. `CyclesAreReal`, `LabelForetells`: what a trajectory
  reports is what the evolution does from there on, however far it is continued
  (that an extinction is final is proved, section 5). `SourcesEmit`: a source of a whirlpool stays one and lights a cell
  where it can, at the edge, in a corner and in the eye too. The definitions were also compared
  with the repository's Python on random boards.

**Bounds.** Three mutations and two timers let two threads and a timer hold
three different snapshots of one file; the second mutation during a save and the
third after a crash are the cases the locks are for. (Three timers, 3.7 million
states, were checked once.) Revisions 0 to 2 give a delta an older, an equal and
a newer base, and two epochs give it another lifetime. The first process may have
either epoch, so that in `service` the restart may mint the older one. There one
call is in flight, which leaves room for three rules and three boards; two calls
with a clock that goes back, on one board of one cell (0.8 million states), were checked once
for `Converges`, and restarts together with lost calls too. Two
sessions over a cap of one evict each other; three coordinators let one be created
while another is evicted and a third held (two and three edits, the latter 1.9
million states, were checked once for safety). Three choices put two tasks in the
queue with a third choice debouncing. In the editor two queued commands and one
computed later, with a history of two, push an entry off the end. Four acts give
the wall a run overtaken by a second one with an undo and a fork on top; five and
six acts (0.7 and 3.3 million states) were checked once for safety. In the pane
the seeding and two writes overlap while a poll is outstanding; two cells with
two acts, and a session left running (1.6 million states), were checked once.
The standalone instance has a call, a refresh and a tick whose three saves cross;
three commands were checked once. Symmetry is used in `registry_racing` only,
over handlers and coordinator objects, which no definition tells apart; the other
symmetries the MC modules define are for larger safety instances, and no run with
a liveness property may use them.

**Fairness.** Threads that have begun an operation go on (the operating system
schedules them, and no lock is held forever), and a started timer expires or is
cancelled: weak fairness of those steps. Requests are taken and answered, unless
they fail, which is bounded; tasks of a queue or chain run one after the other;
imports and loading boards finish. Clients, users, crashes, failures and foreign
changes are never obliged. Poll timers have strong fairness: the browser's timer
does not wait for other calls to end, so when the slots of the model are all
taken by other calls, that is a bound of the model and not of the program.

**Deadlock** is checked in `persistence`, `service`, `client`, `registry`,
`sync`, `registry_racing` and `sync_speed`, where a stuttering action (such as
`AtRest` or `Quiet`) states exactly when the model may stop because its bounds are
spent, or a client can go on polling. In `editor`, `wall`, `pane`,
`standalone` and `rules` it is not: the user may simply stop, the page may close,
and a trajectory ends with its budget. That nothing hangs is what `CommandsEnd`,
`ComesToRest`, `PaneCatchesUp`, `CallsSettle` and `RunGoesOn` say there.

## 4. Disagreements and observations

Shown by a run:

* `registry_racing`: `SimulationSessionRegistry.get` releases its lock before the
  evicted coordinator is flushed (`backend/simulation/sessions.py:80-84`). A
  request for the evicted session that arrives in between is given a coordinator
  restored from the old file, without edits that were already answered, although
  the docstring says that such a session "resumes losslessly" (`sessions.py:36-38`).
  Whichever coordinator saves last decides what the file holds.
* `sync_speed`: a user moves the speed from slow to fast and, while that change is
  on its way, back to slow. A poll answered before the server took fast shows
  slow, and `reconcile` takes it for the confirmation of the new choice
  (`frontend/config-sync/state.ts:85-88`): the debounce is cancelled and slow is
  never sent. The session ends on fast. `docs/ARCHITECTURE.md:261` says that this
  layer "keeps backend-backed config changes serialized".

Met while modelling. The models do these things too, and the properties name
the condition that leaves them out:

* *Wall.* A run disposes of live forks when it begins and loads its result after
  an awaited request (`frontend/compare/compare-panel-content.ts:3143`, 3175-3196).
  A fork mounted in between loses its slot and stays in `forkedBoards`; two
  imports at once can exceed the limit, which is checked before the await. This is
  `late` in `TimelyForksAreShown`.
* *Wall.* Removing a board sets `filmstripKey` to the current configuration even
  if the idle wall was stale; opening the analysis while a wall waits replaces it
  in the queue; cancelling the pending configuration makes an older, possibly
  aborted run current again (`latest-config-scheduler.ts:172`). A run without an
  intent installs a wall that no entry of the history describes, and a
  restoration that was overtaken takes its move back on stacks that have changed.
  These are the cases `wanted` and `trusted` leave out.
* *Wall.* Only a run that ends while its configuration is the latest empties
  `lastFailed` (`latest-config-scheduler.ts:90-95`). A run that installs its wall
  while a newer configuration waits leaves it, and if that one is then refused
  (`:117-125`), a failed "add board" of before can be retried from a wall it was
  not made on. It enters the history with its old `before`
  (`compare-panel-content.ts:1100`, 3208-3215), so that undo skips the wall in
  between. Removing a board while an overtaken run still loads leaves a gap in the
  same way. `trusted` leaves both out.
* *Wall.* A restoration that ends frees the controls although a later run is
  under way, and "Retry" stays on offer after an analysis has emptied
  `lastFailed`.
* *Editor.* A command issued while another is under way is computed from a board
  that is about to change; the stacks may then describe boards that never were
  (`faithful`).
* *Pane.* A write whose cells were taken and whose `resume` failed, or whose
  answer was lost, is taken off the stacks all the same
  (`frontend/pane/pane-edit-history.ts:47`), and what a stroke cleared of the redo
  stack stays cleared when the stroke fails. The buttons are refreshed by
  snapshots only, and a rollback lands none, so after a failure they may offer an
  undo that does nothing (`compare-focus-pane.ts:209` says that every history
  mutation lands a snapshot). Two undos in quick succession send two chains of
  requests that the server may take in either order. A stroke before the seeding
  was answered is compared with whatever an earlier fork left in the session, and
  wiped by the reset.
* *Standalone.* A call that had to refresh saves a second time and may write a
  state older than a newer tick's (`again` in `StorageStaysCurrent`). A failed
  first save leaves the worker running, a reported worker error leaves it ticking,
  and a failing save rejects a command that was applied.
* *Config sync.* The failure of an earlier speed also clears the newer pending one
  (`speed-sync.ts:46`). When the pause before a rule change succeeds and the
  configuration fails, the simulation stays paused (`rule-sync.ts:27`).
* *Rules.* Even square boards have an eye of four cells, where the rule speaks of
  one or two. A filmstrip's extinction step leaves generation 0 out, the
  comparison counts it.

## 5. What is proved

With TLAPS, for all values of the constants under the assumptions named:

| Module | Theorem | Statement |
| --- | --- | --- |
| `SessionPersistence_proof` | `NoTimerIsStray` | `Spec => []TimersConsistent` |
| | `Durable` | `Spec => []DurableAck` |
| | `Monotone` | `Spec => DiskNeverRegresses` |
| | `Refinement` | `Spec => ImplementsWriteBehind` |
| | `NothingLost` | `Spec => []NoLostPersist` |
| `Simulation_proof` | `BoardStaysLegal` | `ServiceSpec => []ServiceConsistent` |
| | `RevisionsCount` | `ServiceSpec => RevisionCountsMutations` |
| | `ServiceUnderClients` | `Spec => ServiceSpec`: under any calls the service is the service |
| | `CacheIsAServerState` | `Spec => []ClientConsistent` |
| | `ViewNeverRegresses` | `Spec => CacheNeverRegresses`, if `~ClockMayGoBack` |
| | `CallsSeeThemselves` | `Spec => SeesOwnCall`, if `~ClockMayGoBack` |
| | `RegularAdjacencySymmetric` | on square, hexagonal and triangular boards of any size, adjacency is symmetric, irreflexive and stays on the board |
| | `BoardsHoldStates` | every rule of the registry keeps every cell in a declared state |
| | `BatchAgreesOnAdjacency` | the pass of every rule but the whirlpool is the rule cell by cell, on any finite topology |
| | `SquareFramesFit` | the frame of a square board of any size has one link for each neighbour, in strict clockwise order |
| | `BothStatementsAgree` | `TrajectorySpec => []BatchAgrees`, for every rule |
| | `SourcesKeepEmitting` | `TrajectorySpec => SourcesEmit` |
| | `RegularBoardsAreWellFormed` | `TrajectorySpec => []BoardWellFormed`, if every topology is a regular one |
| | `ReportedCyclesAreReal` | `TrajectorySpec => []CyclesAreReal` |
| | `LabelsForetell` | `TrajectorySpec => []LabelForetells` |
| | `ExtinctBoardsStayEmpty` | `TrajectorySpec => ExtinctionIsFinal` |
| `SessionRegistry_proof` | `RegistryIsSound` | `Spec => []RegistryConsistent` |
| | `SerialSessionsAreLossless` | `Spec => []SerialSessionsKeepEdits` |
| `ConfigSync_proof` | `TypeCorrect` | `Spec => []TypeOK` |
| | `LastRulePrevails` | `Spec => []LastRuleWins` |
| | `IndicatorsEnd` | `Spec => []ControlsConsistent` |
| `StandaloneRuntime_proof` | `RunnerIsConsistent` | `Spec => []RunnerConsistent` |
| | `WhatIsToldIsStored` | `Spec => []ToldIsStored` |
| | `StorageNeverGoesBack` | `Spec => StorageStaysCurrent` |
| | `WhatIsPausedIsStored` | `Spec => []PausedIsStored` |
| `CompareWall_proof` | `WallIsConsistent` | `Spec => []WallConsistent` |
| | `LatestWallPrevails` | `Spec => []LatestWallWins` |
| | `HistoryDescribesTheWall` | `Spec => []HistoryDescribesWall` |
| | `TimelyForksStayShown` | `Spec => []TimelyForksAreShown` |
| `EditorHistory_proof` | `HistoryDescribesBoard` | `Spec => []EditorConsistent` |
| `PaneSession_proof` | `PaneIsConsistent` | `Spec => []PaneConsistent` |
| | `WritesLeaveTheRun` | `Spec => []WritesKeepRunState` |

**Persistence.** For every number of request threads, every bound and both
settings of the debounce. The only assumption is `ConstantsAssumption`, which TLC
evaluates in the persistence run: the bounds are numbers, and threads, the free
lock and a torn file are different from numbers.

`DurableAck` is not inductive: what a caller is told rests on the snapshot its
thread took, and that snapshot on nobody else saving in the meantime. `IInv`
adds what is needed:

* `LockHeld`: a thread is between taking the snapshot and the replace exactly if
  it holds `_persist_lock`, so there is at most one;
* `SnapBetween`: that thread's snapshot is no older than the file and no newer
  than memory;
* `TempComplete`: what is about to replace the file is complete, and is that snapshot;
* `OwedCovered`: the mutation a request thread answers for is in memory, then in
  its snapshot, then on file;
* `DiskBehind` and `AckedOnFile`: the file is complete, not ahead of memory, and
  not behind an answer;
* `FreshTimers`: a token not yet given out has no thread.

The proof has a lemma per step of a save (`AcquireIInv`, `SnapshotIInv`,
`TempIInv`, `ReplaceIInv`, `SaveFailsIInv`, `ReturnIInv`), one for the crash, and
`OutsideStep` for everything that happens outside the lock; `Step` puts them
together. The refinement maps `version`, `disk` and `acked` to the abstract
register: a replace is `Save`, an answer is `Acknowledge`, a crash is `Restart`
and every other step is `Mutate` or a stutter.

`NoLostPersist` needs the protocol of the tokens on top of `IInv`. `PersistInv`
adds `PromisedInMemory`, `CancelsSuperseded` (a thread that still has to cancel a
timer holds one that was superseded, so that its late cancel never hits the timer
of a later request) and `Covered`: what was promised is on file, or the current
timer will fire, or a thread is before its snapshot, or past it with one that is
new enough.

`NoStrayTimer` is about what is left over: `TimersInv` adds `TimerCurrent`, that the
timer on record is the one with the current token. A flush or a new schedule takes
the old timer off the record under the lock and remembers it in the thread that will
cancel it, so that a timer still able to expire is one of the two; a cancel that
comes too late finds a timer that has expired, whose token no longer counts.

**Service and client.** For any topologies, rules, speeds and number of calls,
under `DomainAssumption` (every rule has a dead state 0 and a paint state of its
own, the initial pairing is supported) and `BackendAssumption`. The service's
invariant, `ServiceInv`, is that the board is one of its topology and rule and
that the epoch was minted; a lemma per operation says that it keeps a state legal
and either changes nothing or counts one revision. Since every step of
HttpBackend is one of the service or leaves it alone (`ServiceUnderClients`),
both hold under clients too.

`ClientConsistent` compares the cache with the server of now, but the cache was put
together from answers of long ago. `ClientInv` therefore says that there is a set
`Past` of legal states the server was in, no two with the same epoch and revision,
from which the cache and every answer under way were taken: a full snapshot of
one of them, its compact update, or the delta between two that an edit leads
between. A delta whose base is the cache's revision then meets the very board it was
computed from. `Past` is under an existential quantifier, so that the model needs no
history variable; a step adds the new state of the server to it.

The two action properties need `Ordered` as well: no answer is behind the newest
state its call had seen when it was sent, nor behind the cache unless its call was
overtaken, and an overtaken answer is compared before it is installed. They rest
on epochs growing with every process, which is what `~ClockMayGoBack` says.
The hypothesis is needed: with a clock set back between two restarts (three epochs,
two restarts) TLC finds a call that completes behind what it had seen, and only
`Converges` is left.

**Registry.** For any sessions, coordinators, cap of at least one and finite set
of handlers. `Alive` says that registered coordinators are of different sessions
and run, that the one an eviction is about to stop is no longer registered, nor
what the exit has yet to close, and that every running loop is registered or being
stopped by one of the two (`LoopsOwned`); the bound on threads is then a count of
three sets, the places of the registry, the handlers and what is left to close. `SerialSessionsKeepEdits` needs to know where the edits are in
between: `Carried` says that a session's acknowledged edits are in the one
coordinator that carries it (registered, being closed, or evicted and not yet
flushed), or in its file if none does, and that only carriers have a timer.
`Serial` is what "one at a time" gives: at most one handler is busy, and its
coordinator is registered; after the exit nobody is. Without it `Carried` is false, which is the finding of
`registry_racing`.

**Config sync.** For any speeds, rules and bounds under `SyncAssumption`.
`LastRuleWins` is inductive once the state says why a task may leave the queue
without having been applied: `FailureSeen`, a recovery was preceded by a failure.
For `ControlsConsistent`, `BothAwaited` says that a value shown as syncing has a
task in the queue that is not a failed one. That a task which ends also ends its
indicator rests on `Behind` (no answer is newer than the server, so that the one
that ends the task is applied) and `AppliedStays` (it still shows what the task
set, unless another client intervened).

**Standalone.** For any calls and bounds, under `StandaloneAssumption`. The four
properties share one invariant, `Sound`, as each needs facts of the others:

* `Phased`: a loading page is in one of three stages (the worker starts, its
  answer is under way, its first save is under way), in which nothing but ticks can
  be in the queues; an open page has a cache, a closed one has nothing under way;
* `Calling`: a call has one request or one answer under way while it is asked and
  one save while it is saving, and never two;
* `Ordered`: messages are in the order of their versions, saves too but for the
  second save of a call that refreshed (`again`), and no state under way to the
  page is behind what the page or the storage hold;
* `Agreed`: whoever knows the current version knows whether it runs;
* `Paused`: until the state of a paused simulation is stored, it is asked for
  again, on its way to the page, or last among the saves.

`Replaying`, the part of `Ordered` about saves, is why the exception of
`StorageStaysCurrent` is as narrow as it is stated. There is a lemma per step and
conjunct, `Sound` being 7 conjuncts over 16 kinds of step.

**Editor.** For any cells, boards, history limit and bounds, under
`EditorAssumption`. `EditorConsistent` says that there are boards which the stacks
lead through from the one shown; it is stated without recursion, by those boards,
so that it can be reasoned about for stacks of any depth. `EditorInv` is `Typed`,
`HistoryFits` (the property) and `Steady`, what the queue and the answers under way
may rely on:

* `Distinct`: revisions tell all snapshots that are known anywhere apart, and none
  is newer than the server's;
* `FromThePast`: the board a command was computed from is not newer than the one shown;
* `Undisturbed`: while the answer to a command served against its base is under way,
  that base is still shown, or something newer is, or a poll brought the answer's
  own board first and emptied the stacks;
* `InPlace`: an undo or redo computed from what is shown finds its entry where it
  took it, or both stacks empty.

An answered edit then pushes an entry that leads back to a board the stack already
leads from, and an answered undo moves one entry between two stacks that share
the board in between.

**Wall.** For any boards, setups, capacity, limits and bounds under
`WallAssumption`. The scheduler is a record, so there is a lemma per call that says
what it makes of a scheduler in order (`InOrder`: what waits has a debounce or waits
for the run it aborted, only the latest configuration is current, the status tells
what is under way or what failed last), and the actions of the panel rest on those
lemmas instead of on the calls' definitions. `Based` joins it to the panel: a run is
under way exactly while the scheduler has one, a change's entry starts from a wall
of the present epoch or an earlier one, an analysis waits only while the overlay is
open, and somebody will free busy controls. Each property then has its own part:

* `WantedComes`: the wall asked for last waits, or is on its way, or is there and
  nothing takes its place, or was displaced by an analysis or failed;
* `ForkInv`: a fork in time is in its slot, on the wall, with no other import beside;
* `HistInv`: the undo stack is a chain of walls that ends at the one shown and the
  redo stack one that begins there (`Links`), and an entry about to be made starts
  where the chain ends, for a run that loads (`Entering`) and for one that waits, is
  asked or has failed (`Starts`).

A chain of entries is needed although the property speaks of the newest ones: an
undo makes the second entry the newest.

**Pane.** For any cells, states, number of operations under way, leftover boards and
bounds, under `PaneAssumption`. Both properties speak of a pane at rest, and nothing
they say of it holds while requests are under way: a write takes a run down and
brings it back in separate requests, and the stacks change before the board does.
`PaneInv` says what holds in between:

* `Typed` and its `Chains`: what is left to send is one of few chains for each kind of
  operation, so that a step of a request is a step from chain to chain
  (`ChainFacts`, `ResumingFacts`, `TailFacts`);
* `Distinct`: no snapshot in the pane, its backend or an answer under way is newer than
  the session, and revisions tell them apart;
* `Alone`: what the history variables `apart` and `crossed` mean for the operations
  under way now; until something is shown, the seeding is there alone;
* `Shows`: the pane shows what its backend was told last;
* `Intended`: a control about to be served does what the user last asked for;
* `Running`: once it was served, a run that is meant is under way or some write will
  resume it. If none is meant, no write resumes one, and every known snapshot that
  shows one is `Overruled` by a newer one that the pane has or will be given first,
  so that no later write is built on it;
* `Told`: the buttons agree with the stacks while no command is under way;
* `Fresh`: a known snapshot with other cells than the session's is `Overtaken` in the
  same sense, unless the whole state is being asked for or nothing is shown yet; a
  stroke is therefore compared with the session's board;
* `Fitting`: the stacks fit the session's board, or, while a write is `Moving` (in
  the stacks and not yet on the board), the board it will make, and once rolled back
  the one it was asked on.

The last is what makes `HistoryFits` hold "whichever requests failed": a write may
fail at any of its requests. That undo and redo lead back and forth between the same boards
is `Reversal`, and how a stack's chain of boards grows and shrinks `LeadsPush` and
`LeadsPop`. Since a step of the model does many small things, `StepShapes` first sums
up what each does to what the invariant reads, in seven `Shapes` (an operation is
launched, served, asks again, receives, ends in a failure; the loop ticks; the rest),
and a lemma per conjunct goes through those.

**Rules and trajectories.** For every topology, rule of the registry, set of
seeds and budget, under `BudgetAssumption`, `RulesAssumption`,
`TopologyAssumption` and `SeedsAssumption`, which TLC evaluates in `rules`: the
budget is a number, the topology is finite and its links stay on it, seeds are
boards of the rule's states, and the frame of a whirlpool board numbers each
cell's neighbours once (`FrameFits`; `SquareFramesFit` says that the code's frame of
a square board of any width and height does). `BoardsHoldStates` is a lemma per
style of rule.

That a rule's two statements agree is, for most rules, a fact about counting, and
for the whirlpool one about order. Its pass over the board works from the sources
outwards and writes marks into tables; the statement for one cell walks the cell's
own links clockwise. `ClockwiseRank` turns the cell's walk into a minimum over ranks
of which no two are the same (`OrderDistinct`), `KeysAgree` says that both compare
candidates by the same key, `PulsesAgree` and `TallyCounts` that the tables hold what
the walk would count, and `WhirlpoolAgrees` puts them together. `SourcesKeepEmitting`
rests on a minimum of finitely many keys being attained, whatever the keys.
Induction over a number is done with sets there (`Induct`, by well-foundedness of
the naturals), as an operator cannot be a lemma's parameter.

`BoardWellFormed` is an invariant of regular boards, and its theorem has
`RegularTopology` as a hypothesis: on mixed tilings the symmetry of adjacency is a
property of a catalogue of geometry, which TLC checks for two of them.

`CyclesAreReal` speaks of the boards seen so far and of what the evolution does
after them. Its invariant has three parts: `Remembered` (the boards seen are the
evolution, each the generation of the one before), `Open` (until a repetition all
of them differ) and `Closed` (after it, every board is the one a period earlier).
Taking the first repetition, periodicity extends from one board to the next
because a generation is a function of the board; the arithmetic of the remainder
is in `DivMod`, `SameRest`, `RestOf` and `NextRest`. `LabelForetells` adds `KInv`, that a
trajectory stops at its first repetition or at its budget and not in between, and
`Follows`, that what a label speaks of is a function TLAPS can unfold step by step.
For `ExtinctionIsFinal`, which is proved and in no run, the invariant is that boards are the rule's and that an
extinct one is empty; that no rule lights a cell of an empty board is a lemma per
style.

**What the proofs corrected.** An invariant that resists is a question to the
model. In StandaloneRuntime the history variable `newest` followed the simulation
back when a command left it alone after a reload, so that two states could have one
version; the model now counts only changes. That a call's record and the bound
of a queue differ from "nothing" was used and not assumed; it is now part of
`StandaloneAssumption` and `RegistryAssumption`, which TLC evaluates. The same was
missing for the wall, and for the pane's snapshots and operations. On the wall,
`HistoryDescribesWall` as first stated was false: the proof stopped at a retry of a
change whose wall had been replaced meanwhile, and at a board removed while an
overtaken run still loads. Both need more acts than a run can have (eight and two
failures for the first), so that TLC had not met them; `trusted` now says so, and
section 4 tells what the code does. The pane's `HistoryFits` walked a stack by a
recursive function until it was restated by the boards passed through, as the
editor's was.

**Only model-checked:** the symmetry of adjacency on mixed tilings, and what is outside
this prover's reach: liveness (`EventuallySaved`, `Converges`, `EvictedStop`,
`ControlsSettle`, `CommandsEnd`, `ComesToRest`, `PaneCatchesUp`, `CallsSettle`,
`RunGoesOn`) and `ENABLED`.

## 6. What is not modelled

* Tilings other than the regular ones: mixed tilings are two instances in
  `MCTrajectory`, aperiodic ones are generated from tables of floating-point
  geometry, and frames of directions are modelled for square boards, where the
  code's comparisons are ones between integers. Rules for other mixed tilings than
  the two are covered by the theorems, which range over the registry, and not by
  a run. Generators, catalogues and their verification tools are most of the lines
  of the repository; they have no state and no order of steps.
* The strategies that choose seeds and traversals for a comparison: a run starts
  from every board of a set.
* Rendering, layout, theming, dialogs, playback of filmstrips, selection, the list
  of saved runs, share links, build scripts and tools: derived from the state of
  the client, or not part of the program that runs.
* Parsing and validation of requests: a command reaches the service well formed
  or is refused (`Refuse`).
* The time a save, a join or a debounce takes: any order of steps is allowed
  instead. Two consequences are hazards no property covers: a join that times out
  while a step is running (`backend/simulation/runtime.py:58`), and a stream of
  edits each of which starts the debounce again (`persistence_coordinator.py:56`).
* The kind of an I/O error on load, and disks that lie about a replace. A
  restore that fails in the standalone worker is swallowed there and not modelled.
* Another client of the session changes the speed in ConfigSync, never the rule.
* Steps of two coordinators of one session inside the same temporary file:
  SessionRegistry saves in one step.
* On the wall, configuration fields changed while `applyRunConfig` awaits the
  rules are one step with it. In the pane, the mutation and the snapshot of a
  control command are one step (HttpBackend has them apart), and a first stroke
  that outlives a pane disposed of during its seeding is left out.

The mapped lines are a small part of the repository's, for the first and third
reason above; of the code with state and concurrency most is mapped.

## 7. Plan

Done, in the order of the plan: WriteBehind and SessionPersistence with their
proofs, SimulationService, HttpBackend on it, SessionRegistry, ConfigSync,
EditorHistory, LatestConfigScheduler and CompareWall, StandaloneRuntime, the rules
with their proofs, PaneSession; then the proofs of HttpBackend and the service,
SessionRegistry, ConfigSync, StandaloneRuntime, EditorHistory, CompareWall,
Trajectory's remaining invariants and PaneSession. Every invariant and every safety
property of a step that a passing run checks is also a theorem, `BoardWellFormed` for
regular topologies.

Left, the most valuable first:

1. SessionRegistry with the steps of a save on one temporary file, and the
   runtime's threads with a join that times out.
2. Mixed tilings from their catalogue, for the symmetry of their adjacency.

Runs stay one per question, with the smallest instance in which two operations
overlap and one fails.

## 8. Running the checks

With TLC and the community modules on the library path:

    tlc -config SessionPersistence_all.cfg MCSessionPersistence.tla
    tlc -config SimulationService.cfg MCSimulationService.tla
    tlc -config HttpBackend.cfg MCHttpBackend.tla
    tlc -config SessionRegistry_registry.cfg MCSessionRegistry.tla
    tlc -config SessionRegistry_racing.cfg MCSessionRegistry.tla
    tlc -config ConfigSync_sync.cfg ConfigSync.tla
    tlc -config ConfigSync_speed.cfg ConfigSync.tla
    tlc -config EditorHistory.cfg MCEditorHistory.tla
    tlc -config CompareWall.cfg MCCompareWall.tla
    tlc -config PaneSession.cfg MCPaneSession.tla
    tlc -config StandaloneRuntime.cfg MCStandaloneRuntime.tla
    tlc -config Trajectory.cfg MCTrajectory.tla

The longest takes about three minutes on two cores. The proofs:

    tlapm SessionPersistence_proof.tla
    tlapm Simulation_proof.tla
    tlapm SessionRegistry_proof.tla
    tlapm ConfigSync_proof.tla
    tlapm StandaloneRuntime_proof.tla
    tlapm EditorHistory_proof.tla
    tlapm CompareWall_proof.tla
    tlapm PaneSession_proof.tla
