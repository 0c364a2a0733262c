--------------------------- MODULE CompareWall ---------------------------
(***************************************************************************)
(* The comparison wall (compare-panel-content.ts): boards that show how    *)
(* one setup evolves on several tilings.  Every change of the setup asks   *)
(* the scheduler for a run of the wall, an open analysis for one of the    *)
(* analysis; the runs ask the backend, install what it answers and wait    *)
(* for the boards to load.  Beside them go the wall's own undo and redo,   *)
(* whose restorations load boards too, and live forks of single boards,    *)
(* whose code is imported before they are mounted.                         *)
(*                                                                         *)
(* A setup stands for seed, rule, traversal, generations and grid.  The    *)
(* ticket of the operation coordinator is the flag "owned" of the run: only *)
(* one run is ever under way, so that an operation loses its ticket by     *)
(* cancel and invalidate alone.                                            *)
(***************************************************************************)
EXTENDS LatestConfigScheduler, Naturals, Sequences, FiniteSets

CONSTANTS
    Boards,       \* tilings that may be on the wall
    Setups,       \* setups that validate
    BadSetups,    \* setups the fields can hold and validation refuses
    Clamped,      \* [BadSetups -> Setups]: what currentRunConfig makes of them
    Capacity,     \* currentWallCapacity()
    MaxForks,     \* liveForks.maxConcurrent
    HistoryLimit, \* the limit of createCompareWallHistory
    MaxActs,      \* bound: what the user does
    MaxFailures   \* bound: requests that fail

MinWallTilings == 2 \* MIN_WALL_TILINGS

\* What the state is made of: a wall is what is on it, a snapshot of it also
\* what it is taken for; a run asks for a wall or an analysis, with what its
\* change enters in the history; an operation is a run under way.
Walls == [boards : {b \in SUBSET Boards : Cardinality(b) <= Capacity}, setup : Setups]
WallSnapshots == [film : Walls, key : Walls]
Intents == [before : WallSnapshots, epoch : Nat]
Runs == [kind : {"filmstrip", "analysis"},
         boards : {b \in SUBSET Boards : Cardinality(b) <= Capacity}, setup : Setups,
         intent : Intents \cup {Nothing}]
ActiveRuns == [config : Runs, current : BOOLEAN, aborted : BOOLEAN]
Operations == [phase : {"short", "asked", "loading"}, owned : BOOLEAN]

ASSUME WallAssumption ==
    /\ IsFiniteSet(Boards) /\ Setups # {}
    /\ Clamped \in [BadSetups -> Setups]
    /\ MinWallTilings <= Capacity /\ Capacity \in Nat
    /\ {HistoryLimit, MaxForks} \subseteq Nat \ {0}
    /\ {MaxActs, MaxFailures} \subseteq Nat
    /\ Nothing \notin {"filmstrip", "analysis", "undo", "redo"}
    /\ Nothing \notin Walls /\ Nothing \notin Intents
    /\ Nothing \notin Runs /\ Nothing \notin ActiveRuns /\ Nothing \notin Operations

VARIABLES
    sched,      \* workspaceScheduler
    run,        \* the run under way: [phase, owned]
    executing,  \* operation.executing, the busy state of the controls
    notice,     \* operation.wallUpdateFailed
    selected,   \* the tilings picked
    setup,      \* what the fields hold
    film,       \* results.filmstrip: [boards, setup] it was computed for
    key,        \* results.filmstripKey: what the workspace takes it for
    overlay,    \* analysisOverlayOpen
    history,    \* wallHistory: [undo, redo]
    epoch,      \* historyEpoch
    restore,    \* the restoration under way: "undo" or "redo"
    superseded, \* restorations that clearWallHistory overtook and that
                \* still load: how many of each direction
    importing,  \* forks whose code is loading
    forks,      \* forkedBoards
    overlaid,   \* boards whose slot shows a fork
    trusted,    \* the stacks saw every change of the wall (history)
    late,       \* a fork met a run or another fork (history)
    wanted,     \* the wall asked for last, unless something else was asked
                \* for in its place (history)
    used        \* what is spent of the bounds (history)

working == <<sched, run, executing>>
wall == <<selected, setup, film, key>>
wallHistory == <<history, epoch, restore, superseded>>
live == <<importing, forks, overlaid>>
ghosts == <<trusted, late, wanted>>
vars == <<working, notice, wall, overlay, wallHistory, live, ghosts, used>>

Spend(what, max) == used[what] < max /\ used' = [used EXCEPT ![what] = @ + 1]
Act == Spend("acts", MaxActs)

Empty == [undo |-> << >>, redo |-> << >>]

Init ==
    /\ sched = FreshScheduler
    /\ run = Nothing /\ executing = FALSE /\ notice = FALSE
    /\ selected \in {s \in SUBSET Boards : Cardinality(s) \in MinWallTilings..Capacity}
    /\ setup = CHOOSE s \in Setups : TRUE
    /\ key \in {Nothing, [boards |-> selected, setup |-> setup]}
    /\ film = key
    /\ overlay = FALSE
    /\ history = Empty /\ epoch = 0 /\ restore = Nothing /\ superseded = [undo |-> 0, redo |-> 0]
    /\ importing = {} /\ forks = {} /\ overlaid = {}
    /\ trusted = TRUE /\ late = FALSE /\ wanted = Nothing
    /\ used = [acts |-> 0, failures |-> 0]

---------------------------------------------------------------------------
(* What the handlers read. *)

Valid == setup \in Setups
CurrentConfig == [boards |-> selected,
                  setup |-> IF Valid THEN setup ELSE Clamped[setup]]
IsFilmstripCurrent == film # Nothing /\ key = CurrentConfig
CaptureWallSnapshot == [film |-> film, key |-> key]

FilmstripRun(config, intent) ==
    [kind |-> "filmstrip", boards |-> config.boards, setup |-> config.setup, intent |-> intent]
AnalysisRun(config) ==
    [kind |-> "analysis", boards |-> config.boards, setup |-> config.setup, intent |-> Nothing]

\* schedule, and runNow, validate the fields as they are
Schedule(s, config, valid) == IF valid THEN Scheduled(s, config) ELSE Refused(s)
Immediately(s, config) == IF Valid THEN RunNow(s, config) ELSE Refused(s)

Plain(config) == [boards |-> config.boards, setup |-> config.setup]

\* An analysis takes the place of a wall that has not been answered yet.
Displaced ==
    IF \E config \in {sched.pending} \cup {IF sched.active = Nothing THEN Nothing
                                          ELSE sched.active.config} :
           config # Nothing /\ config.kind = "filmstrip" /\ Plain(config) # key
    THEN Nothing ELSE wanted

---------------------------------------------------------------------------
(* Runs.  The scheduler calls performFilmstrip or performAnalysis when it   *)
(* launches a configuration, in the same step.                             *)

Operation(phase, owned) == [phase |-> phase, owned |-> owned]

\* An analysis that is cached and a wall of too few tilings end at once, with
\* no ticket; both take the forks down only for a wall.
Begins(config, busy) ==
    /\ \/ /\ config.kind = "analysis" \/ Cardinality(config.boards) < MinWallTilings
          /\ run' = Operation("short", FALSE)
          /\ executing' = busy
       \/ /\ config.kind = "analysis" \/ Cardinality(config.boards) >= MinWallTilings
          /\ run' = Operation("asked", TRUE)
          /\ executing' = TRUE

LeavesForks(config) == config.kind = "analysis"

\* next is the scheduler after the step, ended says whether the step ended the
\* run that was under way, busy is what the
\* controls are told before.
Proceed(next, ended, busy) ==
    LET launched == next.active # Nothing /\ (sched.active = Nothing \/ ended)
        freed == busy /\ ~(ended /\ run.owned)
    IN  /\ sched' = next
        /\ IF launched THEN Begins(next.active.config, freed)
           ELSE /\ run' = IF ended THEN Nothing ELSE run
                /\ executing' = freed
        /\ IF launched /\ ~LeavesForks(next.active.config)
           THEN forks' = {} /\ overlaid' = overlaid \ forks
           ELSE UNCHANGED <<forks, overlaid>>

\* operationCoordinator.invalidate, with what setRunning is told afterwards
Invalidated(busy) ==
    /\ run' = IF run = Nothing THEN run ELSE [run EXCEPT !.owned = FALSE]
    /\ executing' = busy

TimerExpires ==
    /\ sched.timer
    /\ Proceed(Expired(sched), FALSE, executing)
    /\ UNCHANGED <<notice, wall, overlay, wallHistory, importing, ghosts, used>>

\* The run goes on past an await only while it is neither aborted nor robbed of
\* its ticket.
Goes == run.owned /\ ~sched.active.aborted

Pushed(stack, entry) ==
    LET longer == Append(stack, entry)
    IN  IF Len(longer) > HistoryLimit THEN Tail(longer) ELSE longer

Record(before, after) ==
    history' = [undo |-> Pushed(history.undo, [before |-> before, after |-> after]),
                redo |-> << >>]

\* Answered with a wall: it is installed and its boards start to load, which
\* takes overlaid forks off their slots.
FilmstripArrives ==
    /\ run # Nothing /\ run.phase = "asked" /\ Goes
    /\ sched.active.config.kind = "filmstrip"
    /\ LET config == sched.active.config
           next == [boards |-> config.boards, setup |-> config.setup]
       IN  /\ film' = next /\ key' = next
           /\ trusted' = \/ history = Empty
                         \/ /\ trusted
                            /\ \/ config.intent # Nothing /\ config.intent.epoch = epoch
                               \/ CaptureWallSnapshot = [film |-> next, key |-> next]
    /\ run' = [run EXCEPT !.phase = "loading"]
    /\ overlaid' = {}
    /\ late' = (late \/ forks # {})
    /\ UNCHANGED <<sched, executing, notice, selected, setup, overlay, wallHistory,
                   importing, forks, wanted, used>>

\* The boards have loaded: the update that asked for it enters the history, and
\* an open analysis follows.
FilmstripLoaded ==
    LET intent == sched.active.config.intent
        follows == overlay /\ selected # {}
    IN  /\ run # Nothing /\ run.phase = "loading" /\ Goes
        /\ notice' = FALSE
        /\ IF intent # Nothing /\ intent.epoch = epoch
           THEN Record(intent.before, CaptureWallSnapshot)
           ELSE UNCHANGED history
        /\ Proceed(Settled(IF follows THEN Schedule(sched, AnalysisRun(CurrentConfig), Valid)
                           ELSE sched,
                           TRUE),
                   TRUE, executing)
        /\ wanted' = IF follows THEN Displaced ELSE wanted
        /\ UNCHANGED <<wall, overlay, epoch, restore, superseded, importing, trusted, late, used>>

\* An analysis, a short run, and whatever a run that may not go on is told: the
\* wall stays as it is.
RunEnds ==
    /\ run # Nothing
    /\ \/ run.phase = "short"
       \/ run.phase = "asked" /\ sched.active.config.kind = "analysis"
       \/ ~Goes
    /\ Proceed(Settled(sched, TRUE), TRUE, executing)
    /\ trusted' = (trusted /\ (run.phase = "loading" /\ run.owned => history = Empty))
    /\ UNCHANGED <<notice, wall, overlay, wallHistory, importing, late, wanted, used>>

\* The request fails: the previous wall stays, with a notice.
RunFails ==
    /\ run # Nothing /\ run.phase = "asked" /\ Goes
    /\ Spend("failures", MaxFailures)
    /\ notice' = IF sched.active.config.kind = "filmstrip" THEN film # Nothing ELSE notice
    /\ Proceed(Settled(sched, FALSE), TRUE, executing)
    /\ wanted' = IF sched.active.config.kind = "filmstrip" /\ sched.active.current THEN Nothing
                 ELSE wanted
    /\ UNCHANGED <<wall, overlay, wallHistory, importing, trusted, late>>

---------------------------------------------------------------------------
(* The setup and the tilings. *)

\* A bug: the history outlives the setup it was made in.
ClearWallHistory_KeepsEntries ==
    /\ epoch' = epoch + 1
    /\ UNCHANGED <<restore, superseded, history, trusted>>

\* clearWallHistory: a restoration under way is overtaken and the controls are
\* given back; the caller does the latter.
ClearWallHistory ==
    /\ epoch' = epoch + 1
    /\ restore' = Nothing
    /\ superseded' = IF restore = Nothing THEN superseded
                     ELSE [superseded EXCEPT ![restore] = @ + 1]
    /\ history' = Empty
    /\ trusted' = TRUE

\* A bug: an overtaken restoration leaves the controls busy.
Freed_StillBusy == executing

\* setRunning(false) of clearWallHistory before the run that follows begins
Freed == executing /\ restore = Nothing

\* A field, the picker or a painted seed: the wall is scheduled again.
ChangeWall(tilings, fields) ==
    /\ Act /\ ~overlay
    /\ selected' = tilings /\ setup' = fields
    /\ ClearWallHistory
    /\ LET config == [boards |-> tilings,
                      setup |-> IF fields \in Setups THEN fields ELSE Clamped[fields]]
       IN  /\ sched' = Schedule(sched, FilmstripRun(config, Nothing), fields \in Setups)
           /\ wanted' = IF fields \in Setups THEN config ELSE Nothing
    /\ executing' = Freed
    /\ UNCHANGED <<run, notice, film, key, overlay, live, late>>

ChangeSetup(fields) == fields # setup /\ ChangeWall(selected, fields)

\* The checklist and the chips
ToggleTiling(b) ==
    \/ b \in selected /\ ChangeWall(selected \ {b}, setup)
    \/ /\ b \notin selected /\ Cardinality(selected) < Capacity
       /\ ChangeWall(selected \cup {b}, setup)

\* applyRunConfig: a saved run or a link replaces the wall
ApplyRunConfig(tilings, fields) ==
    /\ Act
    /\ selected' = tilings /\ setup' = fields
    /\ film' = Nothing /\ key' = Nothing
    /\ notice' = FALSE
    /\ forks' = {} /\ overlaid' = {}
    /\ ClearWallHistory
    /\ Invalidated(FALSE)
    /\ sched' = Scheduled(sched, FilmstripRun([boards |-> tilings, setup |-> fields], Nothing))
    /\ wanted' = [boards |-> tilings, setup |-> fields]
    /\ UNCHANGED <<overlay, importing, late>>

\* The controls that change single boards
Manageable == film # Nothing /\ ~executing /\ ~notice /\ ~overlay

Queued == sched.status = "pending" \/ (sched.status = "updating" /\ ~executing)

\* replaceBoardOnWall and addBoardToWall run at once
Rearrange(tilings) ==
    /\ Act /\ Manageable
    /\ selected' = tilings
    /\ Proceed(Immediately(sched,
                   FilmstripRun([CurrentConfig EXCEPT !.boards = tilings],
                                [before |-> CaptureWallSnapshot, epoch |-> epoch])),
               FALSE, executing)
    /\ wanted' = IF Valid THEN [CurrentConfig EXCEPT !.boards = tilings] ELSE Nothing
    /\ UNCHANGED <<notice, setup, film, key, overlay, wallHistory, importing, trusted, late>>

ReplaceBoard(old, new) ==
    /\ old \in selected \ {new} /\ new \notin selected
    /\ Rearrange((selected \ {old}) \cup {new})

AddBoard(b) ==
    /\ b \notin selected /\ Cardinality(selected) < Capacity
    /\ Rearrange(selected \cup {b})

\* removeBoardFromWall is local: the frames of the others are at hand, and what
\* was queued is queued again for them.
RemoveBoard(b) ==
    LET survivors == [CurrentConfig EXCEPT !.boards = selected \ {b}]
        queuedKind == IF Queued THEN sched.kind ELSE Nothing
    IN  /\ Act /\ Manageable
        /\ b \in selected \cap film.boards
        /\ Cardinality(selected) > MinWallTilings
        /\ Cardinality(film.boards) > MinWallTilings
        /\ selected' = selected \ {b}
        /\ forks' = forks \ {b} /\ overlaid' = overlaid \ {b}
        /\ film' = [film EXCEPT !.boards = @ \ {b}]
        /\ key' = survivors
        /\ IF queuedKind = "filmstrip" THEN UNCHANGED history
           ELSE Record(CaptureWallSnapshot,
                       [film |-> [film EXCEPT !.boards = @ \ {b}], key |-> survivors])
        /\ trusted' = (trusted /\ (queuedKind = "filmstrip" \/ (run # Nothing /\ run.phase = "loading")
                                    => history = Empty))
        /\ wanted' = IF queuedKind = "filmstrip" /\ ~Valid THEN Nothing
                     ELSE IF wanted = Nothing THEN Nothing ELSE survivors
        /\ sched' = CASE queuedKind = "filmstrip" ->
                            Schedule(sched, FilmstripRun(survivors, Nothing), Valid)
                      [] queuedKind = "analysis" ->
                            Schedule(sched, AnalysisRun(survivors), Valid)
                      [] OTHER -> sched
        /\ UNCHANGED <<run, executing, notice, setup, overlay, epoch, restore, superseded,
                       importing, late>>

\* The run buttons, which wait for a run to end
RunWall ==
    /\ Act /\ ~executing /\ ~overlay /\ Valid
    /\ Cardinality(selected) >= MinWallTilings /\ ~IsFilmstripCurrent
    /\ Proceed(RunNow(sched, FilmstripRun(CurrentConfig, Nothing)), FALSE, executing)
    /\ wanted' = CurrentConfig
    /\ UNCHANGED <<notice, wall, overlay, wallHistory, importing, trusted, late>>

RunAnalysis ==
    /\ Act /\ overlay /\ ~executing /\ Valid /\ selected # {}
    /\ Proceed(RunNow(sched, AnalysisRun(CurrentConfig)), FALSE, executing)
    /\ wanted' = Displaced
    /\ UNCHANGED <<notice, wall, overlay, wallHistory, importing, trusted, late>>

\* What a change would enter in the history starts from the wall shown.
StartsHere(intent) ==
    intent # Nothing /\ intent.epoch = epoch => intent.before = CaptureWallSnapshot

\* The notice of a failed update offers a retry.
Retry ==
    /\ Act /\ notice /\ ~executing /\ ~overlay
    /\ Retried(sched) # Nothing
    /\ Proceed(Immediately(sched, Retried(sched)), FALSE, executing)
    /\ wanted' = IF ~Valid THEN Nothing
                 ELSE IF Retried(sched).kind = "filmstrip" THEN Plain(Retried(sched))
                 ELSE Displaced
    /\ trusted' = (trusted /\ StartsHere(Retried(sched).intent))
    /\ UNCHANGED <<notice, wall, overlay, wallHistory, importing, late>>

OpenAnalysisOverlay ==
    /\ Act /\ ~overlay
    /\ overlay' = TRUE
    /\ sched' = Schedule(sched, IF IsFilmstripCurrent THEN AnalysisRun(CurrentConfig)
                                ELSE FilmstripRun(CurrentConfig, Nothing),
                         Valid)
    /\ wanted' = IF ~Valid THEN Nothing ELSE IF IsFilmstripCurrent THEN Displaced ELSE CurrentConfig
    /\ UNCHANGED <<run, executing, notice, wall, wallHistory, live, trusted, late>>

\* A bug: closing the overlay cancels runs of the wall too.
IsAnalysis_Any(config) == TRUE

IsAnalysis(config) == config.kind = "analysis"

\* closeAnalysisOverlayIfOpen: only analyses are cancelled, their ticket too
CloseAnalysisOverlay ==
    LET owner == run # Nothing /\ run.owned /\ IsAnalysis(sched.active.config)
    IN  /\ Act /\ overlay
        /\ overlay' = FALSE
        /\ sched' = Cancelled(sched, {config \in Configs(sched) : IsAnalysis(config)})
        /\ run' = IF owner THEN [run EXCEPT !.owned = FALSE] ELSE run
        /\ executing' = (executing /\ ~owner)
        /\ UNCHANGED <<notice, wall, wallHistory, live, ghosts>>

---------------------------------------------------------------------------
(* Undo and redo of the wall. *)

Newest(stack) == stack[Len(stack)]
Popped(stack) == SubSeq(stack, 1, Len(stack) - 1)

Undone == [undo |-> Popped(history.undo), redo |-> Append(history.redo, Newest(history.undo))]
Redone == [redo |-> Popped(history.redo), undo |-> Pushed(history.undo, Newest(history.redo))]

\* restoreWallSnapshot up to its await: all work is cancelled, the fields, the
\* picker and the wall are the snapshot's, and its boards load.
Restore(direction, snapshot) ==
    /\ Act /\ restore = Nothing
    /\ restore' = direction
    /\ sched' = Emitted(Cancelled(sched, Configs(sched)), "idle", Nothing)
    /\ Invalidated(TRUE)
    /\ notice' = FALSE
    /\ forks' = {} /\ overlaid' = {}
    /\ selected' = snapshot.key.boards /\ setup' = snapshot.key.setup
    /\ film' = snapshot.film /\ key' = snapshot.key
    /\ wanted' = Nothing
    /\ UNCHANGED <<overlay, epoch, superseded, importing, trusted, late>>

UndoWallHistory ==
    /\ history.undo # << >>
    /\ history' = Undone
    /\ Restore("undo", Newest(history.undo).before)

RedoWallHistory ==
    /\ history.redo # << >>
    /\ history' = Redone
    /\ Restore("redo", Newest(history.redo).after)

Restored ==
    /\ restore # Nothing
    /\ restore' = Nothing
    /\ executing' = FALSE
    /\ UNCHANGED <<sched, run, notice, wall, overlay, history, epoch, superseded, live,
                   ghosts, used>>

\* An overtaken restoration takes its move back, in whatever the stacks are now.
SupersededEnds(direction) ==
    /\ superseded[direction] > 0
    /\ superseded' = [superseded EXCEPT ![direction] = @ - 1]
    /\ history' = IF direction = "undo"
                  THEN IF history.redo = << >> THEN history ELSE Redone
                  ELSE IF history.undo = << >> THEN history ELSE Undone
    /\ trusted' = (trusted /\ history' = history)
    /\ UNCHANGED <<working, notice, wall, overlay, epoch, restore, live, late, wanted, used>>

---------------------------------------------------------------------------
(* Live forks of single boards. *)

ForkBoardLive(b) ==
    /\ Act /\ ~executing /\ ~overlay
    /\ film # Nothing /\ b \in film.boards \ forks
    /\ Cardinality(forks) < MaxForks
    /\ importing' = importing \cup {b}
    /\ late' = (late \/ importing # {})
    /\ UNCHANGED <<working, notice, wall, overlay, wallHistory, forks, overlaid, trusted, wanted>>

\* A bug: the wall is not looked at again.
ForkMounts_Unchecked(b) ==
    /\ b \in importing
    /\ importing' = importing \ {b}
    /\ forks' = forks \cup {b} /\ overlaid' = overlaid \cup {b}
    /\ UNCHANGED <<working, notice, wall, overlay, wallHistory, ghosts, used>>

\* The code is there: the fork is mounted if its board still is.
ForkMounts(b) ==
    /\ b \in importing
    /\ importing' = importing \ {b}
    /\ IF film # Nothing /\ b \in film.boards \ forks
       THEN forks' = forks \cup {b} /\ overlaid' = overlaid \cup {b}
       ELSE UNCHANGED <<forks, overlaid>>
    /\ UNCHANGED <<working, notice, wall, overlay, wallHistory, ghosts, used>>

DiscardFork(b) ==
    /\ Act /\ ~overlay /\ b \in forks
    /\ forks' = forks \ {b} /\ overlaid' = overlaid \ {b}
    /\ UNCHANGED <<working, notice, wall, overlay, wallHistory, importing, ghosts>>

\* adoptForkStateAsSeed: the cells of a fork become the setup of the whole wall
RunWallFromFork(b, fields) ==
    /\ Act /\ ~overlay /\ b \in forks /\ film # Nothing /\ b \in film.boards
    /\ setup' = fields
    /\ ClearWallHistory
    /\ Proceed(RunNow(sched, FilmstripRun([boards |-> selected, setup |-> fields], Nothing)),
               FALSE, Freed)
    /\ wanted' = [boards |-> selected, setup |-> fields]
    /\ UNCHANGED <<notice, selected, film, key, overlay, importing, late>>

Next ==
    \/ TimerExpires \/ FilmstripArrives \/ FilmstripLoaded \/ RunEnds \/ RunFails
    \/ \E fields \in Setups \cup BadSetups : ChangeSetup(fields)
    \/ \E b \in Boards : \/ ToggleTiling(b) \/ AddBoard(b) \/ RemoveBoard(b)
                         \/ ForkBoardLive(b) \/ ForkMounts(b) \/ DiscardFork(b)
    \/ \E old, new \in Boards : ReplaceBoard(old, new)
    \/ \E tilings \in SUBSET Boards, fields \in Setups :
           Cardinality(tilings) \in MinWallTilings..Capacity /\ ApplyRunConfig(tilings, fields)
    \/ \E b \in Boards, fields \in Setups : RunWallFromFork(b, fields)
    \/ RunWall \/ RunAnalysis \/ Retry
    \/ OpenAnalysisOverlay \/ CloseAnalysisOverlay
    \/ UndoWallHistory \/ RedoWallHistory \/ Restored
    \/ \E direction \in {"undo", "redo"} : SupersededEnds(direction)

Spec == Init /\ [][Next]_vars

\* Debounces end, requests are answered or fail, boards load.
FairSpec ==
    /\ Spec
    /\ WF_vars(TimerExpires)
    /\ WF_vars(FilmstripArrives \/ FilmstripLoaded \/ RunEnds \/ RunFails)
    /\ WF_vars(Restored)

---------------------------------------------------------------------------
(* Properties. *)

\* The shape of the state.  The workspace and the scheduler agree on whether a
\* run is under way, and only a configuration that waits has a debounce.
WallTypeOK ==
    /\ run # Nothing <=> sched.active # Nothing
    /\ sched.timer => sched.pending # Nothing /\ ~sched.ready
    /\ run \in Operations \cup {Nothing}
    /\ {film, key, wanted} \subseteq Walls \cup {Nothing}
    /\ film = Nothing <=> key = Nothing
    /\ selected \subseteq Boards /\ Cardinality(selected) <= Capacity
    /\ Len(history.undo) <= HistoryLimit
    /\ restore \in {Nothing, "undo", "redo"}
    /\ forks \cup overlaid \cup importing \subseteq Boards

\* The controls are busy only while something that will free them is under way:
\* a run that holds its ticket or a restoration.  No cancelled, overtaken or
\* failed operation leaves "Running..." behind.
NeverStuckBusy ==
    executing => restore # Nothing \/ (run # Nothing /\ run.owned)

\* The workspace and its scheduler stay in step, and the controls come free.
WallConsistent == WallTypeOK /\ NeverStuckBusy

\* The latest configuration wins: once the scheduler is idle, the wall is the
\* one asked for last, however runs were aborted, answered late or cancelled in
\* between; unless it failed, was taken back by an undo or refused, has too few
\* boards, or an analysis took its place in the queue.
LatestWallWins ==
    Idle(sched) /\ wanted # Nothing =>
        key = wanted \/ Cardinality(wanted.boards) < MinWallTilings

\* Undo and redo start from the wall that is shown: the newest entry of undo
\* leads to it and the newest entry of redo from it, as long as the stacks were
\* told of every result, no overtaken restoration meddled with them and no failed
\* change was tried again from another wall than it was made on.  While boards
\* load the entry is not made yet.
HistoryDescribesWall ==
    (film # Nothing /\ trusted /\ restore = Nothing /\ (run # Nothing => run.phase # "loading")) =>
        /\ history.undo # << >> => Newest(history.undo).after = CaptureWallSnapshot
        /\ history.redo # << >> => Newest(history.redo).before = CaptureWallSnapshot

\* "The authoritative result owns each board slot, so any live forks are torn
\* down first" (compare-panel-content.ts:3142): a live fork is one that its
\* board shows, and there are no more than the limit, if no fork is mounted
\* while a run is under way and no two are imported at once.
TimelyForksAreShown ==
    ~late => /\ forks = overlaid
             /\ film # Nothing => forks \subseteq film.boards
             /\ Cardinality(forks) <= MaxForks

\* Whatever the user did, the workspace comes to rest: the queue empties (which
\* is what whenIdle waits for) and the controls are free.
ComesToRest == []<>(Idle(sched) /\ ~executing)
==========================================================================
