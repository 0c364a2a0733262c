---------------------------- MODULE PaneSession ----------------------------
(***************************************************************************)
(* A live fork's pane (pane-session.ts, pane-edit-history.ts and           *)
(* compare-focus-pane.ts): a board of its own session, edited while it may *)
(* run.  Every command of the user is a chain of requests, each sent when  *)
(* the one before it was answered, and nothing keeps two commands apart: a *)
(* write is pause, cells, resume, and polls, the run button or a second    *)
(* write fall in between.                                                  *)
(*                                                                         *)
(* Of the backend the model keeps what HttpBackend shows of one lifetime   *)
(* of the server: an answer resolves to the newest state known, and a cell *)
(* delta made from another state is replaced by a full one.                *)
(***************************************************************************)
EXTENDS Naturals, Sequences, Functions

CONSTANTS
    Cells, States,
    Slots,          \* operations under way together, polls included
    Nothing,        \* null
    Leftovers,      \* what an earlier fork of the board leaves: [running, cells]
    MaxActs,        \* bound: what the user does
    MaxEvents       \* bound: generations of the loop and failing requests, together

Boards == [Cells -> States]
Paints == UNION {[painted -> States] : painted \in SUBSET Cells}
Snapshots == [revision : Nat, generation : Nat, running : BOOLEAN, cells : Boards]

\* What is under way: requests of which the first was sent, or answered with a
\* snapshot made from the state of revision base.
Answers == [base : Nat, snapshot : Snapshots]
Changes == [before : Paints, after : Paints]
Operations ==
    [kind : {"seed", "commit", "undo", "redo", "step", "toggle", "poll"},
     requests : Seq({"state", "again", "full", "reset", "cells", "step", "pause", "start", "resume"}),
     phase : {"sent", "answered"}, answer : Answers \cup {Nothing}, entry : Changes \cup {Nothing}]

ASSUME PaneAssumption ==
    /\ 0 \in States
    /\ Slots # {}
    /\ Nothing \notin Snapshots /\ Nothing \notin Operations
    /\ Leftovers \subseteq [running : BOOLEAN, cells : [Cells -> States]]
    /\ {MaxActs, MaxEvents} \subseteq Nat

VARIABLES
    server,   \* the session's [revision, generation, running, cells]
    cache,    \* the newest snapshot the backend was told of
    shown,    \* the pane's snapshot
    buttons,  \* whether the undo and redo buttons are enabled
    disposed,
    ops,      \* ops[s]: an operation under way, or Nothing
    undo,     \* undoStack
    redo,     \* redoStack
    meant,    \* what the user last asked for: running or not (history)
    apart,    \* no two commands were under way together (history)
    crossed,  \* a command that is not a write and another one were (history)
    strayed,  \* the board changed and the stacks were not told (history)
    failed,   \* a request did (history)
    unheard,  \* the session changed and the pane was not told (history)
    used      \* what is spent of the bounds (history)

pane == <<cache, shown, buttons>>
stacks == <<undo, redo>>
ghosts == <<meant, apart, crossed, strayed, failed, unheard>>
vars == <<server, pane, disposed, ops, stacks, ghosts, used>>

Strokes == Paints \ {<<>>}
Patterns == UNION {[painted -> States \ {0}] : painted \in SUBSET Cells}

Overlaid(cells, board) == [c \in Cells |-> IF c \in DOMAIN cells THEN cells[c] ELSE board[c]]
Empty == [c \in Cells |-> 0]

\* PaneCellDiff[]: what the cells of a write were and what it makes of them
Entry(before, after) == [before |-> before, after |-> after]

Operation(kind, requests, entry) ==
    [kind |-> kind, requests |-> requests, phase |-> "sent", answer |-> Nothing, entry |-> entry]

\* seedFromPattern: the reset is followed by the pattern's cells, if it has any.
Seeding(pattern) ==
    Operation("seed", IF pattern = <<>> THEN <<"reset">> ELSE <<"reset", "cells">>,
              Entry(pattern, pattern))

\* mountFocusPane, on the session of its board's name: what an earlier fork of
\* the board left there is still running, or not.  A first stroke to apply
\* after the seeding is one of the user's.
Init ==
    /\ \E left \in Leftovers :
           server = [revision |-> 0, generation |-> 0, running |-> left.running, cells |-> left.cells]
    /\ cache = Nothing /\ shown = Nothing
    /\ buttons = [undo |-> FALSE, redo |-> FALSE]
    /\ disposed = FALSE
    /\ \E pattern \in Patterns :
           LET slot == CHOOSE s \in Slots : TRUE
           IN  ops = [s \in Slots |-> IF s = slot THEN Seeding(pattern) ELSE Nothing]
    /\ undo = <<>> /\ redo = <<>>
    /\ meant = FALSE /\ apart = TRUE /\ crossed = FALSE /\ strayed = FALSE /\ unheard = FALSE
    /\ used = [acts |-> 0, events |-> 0] /\ failed = FALSE

Spend(what, max) == used[what] < max /\ used' = [used EXCEPT ![what] = @ + 1]

Newest(stack) == stack[Len(stack)]
Popped(stack) == IF stack = <<>> THEN <<>> ELSE SubSeq(stack, 1, Len(stack) - 1)

WriteKinds == {"commit", "undo", "redo"}
Busy == {s \in Slots : ops[s] # Nothing}
Commands == {s \in Busy : ops[s].kind # "poll"}

\* Slots only count: the next operation takes any free one.
Launched(op) == [ops EXCEPT ![CHOOSE s \in Slots : ops[s] = Nothing] = op]

---------------------------------------------------------------------------
(* What the user does, and the poll. *)

\* A command begins; who is under way already is remembered.
Begin(op) ==
    /\ ~disposed
    /\ Busy # Slots
    /\ Spend("acts", MaxActs)
    /\ ops' = Launched(op)
    /\ apart' = (apart /\ Commands = {})
    /\ crossed' = (crossed \/ \E s \in Commands : {op.kind, ops[s].kind} \ WriteKinds # {})
    /\ UNCHANGED <<server, pane, disposed, strayed, failed, unheard>>

\* A bug: the run goes on from wherever the write finds it.
Writing_Resumed(snapshot) == <<"pause", "cells", "resume">>

\* writeCells, once there is a snapshot
Writing(snapshot) == IF snapshot.running THEN <<"pause", "cells", "resume">> ELSE <<"cells">>

Diffs(painted, snapshot) ==
    LET changed == {c \in DOMAIN painted : painted[c] # snapshot.cells[c]}
    IN  Entry(Restrict(snapshot.cells, changed), Restrict(painted, changed))

\* commit: a stroke that changes something is in the history before it is sent.
Commit(painted) ==
    LET entry == Diffs(painted, shown)
    IN  /\ shown # Nothing
        /\ entry.after # <<>>
        /\ undo' = Append(undo, entry) /\ redo' = <<>>
        /\ Begin(Operation("commit", Writing(shown), entry))
        /\ UNCHANGED meant

\* commit before the pane has a snapshot: applyCellEdit for a stroke that
\* goes on while its first cell is making the fork.
CommitEarly(painted) ==
    /\ shown = Nothing
    /\ Begin(Operation("commit", <<"state">>, Entry(<<>>, painted)))
    /\ UNCHANGED <<stacks, meant>>

Undo ==
    /\ buttons.undo /\ undo # <<>>
    /\ undo' = Popped(undo) /\ redo' = Append(redo, Newest(undo))
    /\ Begin(Operation("undo", Writing(shown), Newest(undo)))
    /\ UNCHANGED meant

Redo ==
    /\ buttons.redo /\ redo # <<>>
    /\ redo' = Popped(redo) /\ undo' = Append(undo, Newest(redo))
    /\ Begin(Operation("redo", Writing(shown), Newest(redo)))
    /\ UNCHANGED meant

StepOnce ==
    /\ Begin(Operation("step", <<"step">>, Nothing))
    /\ meant' = FALSE
    /\ UNCHANGED stacks

Toggling(snapshot) ==
    <<IF snapshot.running THEN "pause" ELSE IF snapshot.generation > 0 THEN "resume" ELSE "start">>

RunToggle ==
    /\ Begin(Operation("toggle", IF shown = Nothing THEN <<"state">> ELSE Toggling(shown), Nothing))
    /\ meant' = (shown = Nothing \/ ~shown.running)
    /\ UNCHANGED stacks

\* dispose: what is under way goes on, but the pane takes no more snapshots.
Dispose ==
    /\ ~disposed
    /\ Spend("acts", MaxActs)
    /\ disposed' = TRUE
    /\ UNCHANGED <<server, pane, ops, stacks, ghosts>>

\* syncPoll: the timer runs while the pane shows a running simulation.
Polling == ~disposed /\ shown # Nothing /\ shown.running

\* refresh, as the timer calls it.  Bound: one poll at a time.
Refresh ==
    /\ Polling
    /\ Busy # Slots /\ Busy = Commands
    /\ ops' = Launched(Operation("poll", <<"state">>, Nothing))
    /\ UNCHANGED <<server, pane, disposed, stacks, ghosts, used>>

---------------------------------------------------------------------------
(* The session's service, as SimulationService has it. *)

Bumped(s) == [s EXCEPT !.revision = @ + 1]
Evolved(s, board) == Bumped([s EXCEPT !.cells = board, !.generation = @ + 1])
Written(s, cells) ==
    IF Overlaid(cells, s.cells) = s.cells THEN s ELSE Bumped([s EXCEPT !.cells = Overlaid(cells, @)])

\* What a write sends: an undo sends the cells as they were.
Updates(op) == IF op.kind = "undo" THEN op.entry.before ELSE op.entry.after

Reads == {"state", "again", "full"}

\* The states a request may leave the service in
Outcomes(op) ==
    LET request == Head(op.requests)
    IN  CASE request \in Reads -> {server}
          [] request = "pause" -> {IF server.running THEN Bumped([server EXCEPT !.running = FALSE]) ELSE server}
          [] request \in {"start", "resume"} ->
                 {IF server.running THEN server ELSE Bumped([server EXCEPT !.running = TRUE])}
          [] request = "step" -> {Evolved([server EXCEPT !.running = FALSE], board) : board \in Boards}
          [] request = "cells" -> {Written(server, Updates(op))}
          [] request = "reset" ->
                 {Bumped([server EXCEPT !.running = FALSE, !.generation = 0, !.cells = Empty])}

\* The command and the snapshot or delta it is answered with are one step
\* (HttpBackend has them apart).
Serve(s) ==
    /\ ops[s] # Nothing /\ ops[s].phase = "sent"
    /\ \E next \in Outcomes(ops[s]) :
        /\ server' = next
        /\ ops' = [ops EXCEPT ![s].phase = "answered",
                              ![s].answer = [base |-> server.revision, snapshot |-> next]]
        /\ strayed' = (strayed \/ (ops[s].kind = "step" /\ next.cells # server.cells))
    /\ UNCHANGED <<pane, disposed, stacks, meant, apart, crossed, failed, unheard, used>>

\* The session's loop (step_if_running)
Tick ==
    /\ server.running
    /\ Spend("events", MaxEvents)
    /\ \E board \in Boards :
        /\ server' = Evolved(server, board)
        /\ strayed' = (strayed \/ board # server.cells)
    /\ UNCHANGED <<pane, disposed, ops, stacks, meant, apart, crossed, failed, unheard>>

---------------------------------------------------------------------------
(* Answers and failures. *)

\* A bug: an answer is taken as it comes.
Newer_Latest(snapshot) == snapshot

\* SimulationSnapshotCache.install
Newer(snapshot) ==
    IF cache # Nothing /\ snapshot.revision < cache.revision THEN cache ELSE snapshot

\* applySnapshot; the buttons follow the stacks of that moment.
Apply(snapshot, undos, redos) ==
    IF disposed THEN UNCHANGED <<shown, buttons>>
    ELSE shown' = snapshot /\ buttons' = [undo |-> undos # <<>>, redo |-> redos # <<>>]

\* A cell delta can only be applied to the state it was made from.
FitsCache(op) ==
    Head(op.requests) # "cells" \/ (cache # Nothing /\ op.answer.base = cache.revision)

Answerable(s) == ops[s] # Nothing /\ ops[s].phase = "answered" /\ FitsCache(ops[s])

Then(s, requests) ==
    ops' = [ops EXCEPT ![s] =
        IF requests = <<>> THEN Nothing ELSE Operation(@.kind, requests, @.entry)]

\* reconcileDelta: the whole state is asked for in place of the delta.
Refetch(s) ==
    /\ ops[s] # Nothing /\ ops[s].phase = "answered" /\ ~FitsCache(ops[s])
    /\ Then(s, <<"full">> \o Tail(ops[s].requests))
    /\ UNCHANGED <<server, pane, disposed, stacks, ghosts, used>>

\* The pattern's reset was answered: the history is cleared, and the board is
\* shown once its cells are on it.
Reseeded(s) ==
    /\ Answerable(s) /\ Head(ops[s].requests) = "reset"
    /\ cache' = Newer(ops[s].answer.snapshot)
    /\ undo' = <<>> /\ redo' = <<>>
    /\ IF Len(ops[s].requests) > 1 THEN UNCHANGED <<shown, buttons>> ELSE Apply(cache', <<>>, <<>>)
    /\ Then(s, Tail(ops[s].requests))
    /\ UNCHANGED <<server, disposed, ghosts, used>>

\* The run button, or a stroke on a pane disposed of, asked for a snapshot first.
Asked(s) ==
    /\ Answerable(s)
    /\ <<ops[s].kind, Head(ops[s].requests)>> \in {<<"toggle", "state">>, <<"commit", "again">>}
    /\ cache' = Newer(ops[s].answer.snapshot)
    /\ Apply(cache', undo, redo)
    /\ Then(s, IF ops[s].kind = "toggle" THEN Toggling(cache') ELSE Writing(cache'))
    /\ UNCHANGED <<server, disposed, stacks, ghosts, used>>

\* A stroke asked for a snapshot first; its write does so again when the pane
\* was disposed of before it had one to show.
Compared(s) ==
    LET entry == Diffs(ops[s].entry.after, cache')
    IN  /\ Answerable(s) /\ ops[s].kind = "commit" /\ Head(ops[s].requests) = "state"
        /\ cache' = Newer(ops[s].answer.snapshot)
        /\ Apply(cache', undo, redo)
        /\ IF entry.after = <<>>
           THEN UNCHANGED stacks /\ Then(s, <<>>)
           ELSE /\ undo' = Append(undo, entry) /\ redo' = <<>>
                /\ ops' = [ops EXCEPT ![s] =
                        Operation("commit", IF shown' = Nothing THEN <<"again">> ELSE Writing(shown'),
                                  entry)]
        /\ UNCHANGED <<server, disposed, ghosts, used>>

Answered(s) ==
    /\ Answerable(s)
    /\ Head(ops[s].requests) \notin {"reset", "again"}
    /\ Head(ops[s].requests) = "state" => ops[s].kind = "poll"
    /\ cache' = Newer(ops[s].answer.snapshot)
    /\ Apply(cache', undo, redo)
    /\ Then(s, Tail(ops[s].requests))
    /\ UNCHANGED <<server, disposed, stacks, ghosts, used>>

\* A bug: a rejected undo leaves its entry among those to redo.
RolledBack_Kept(kind, entry) ==
    IF kind = "commit" THEN undo' = Popped(undo) /\ UNCHANGED redo ELSE UNCHANGED stacks

\* The catch blocks: the move between the stacks is taken back, on the stacks
\* as they are by now; what a stroke cleared of the redo stack stays cleared.
RolledBack(kind, entry) ==
    CASE kind = "commit" -> undo' = Popped(undo) /\ UNCHANGED redo
      [] kind = "undo" -> redo' = Popped(redo) /\ undo' = Append(undo, entry)
      [] kind = "redo" -> undo' = Popped(undo) /\ redo' = Append(redo, entry)
      [] OTHER -> UNCHANGED stacks

\* A request is not served, or its answer is lost: the operation ends there.
\* A write whose cells were served is rolled back all the same.
Fails(s) ==
    LET op == ops[s]
        request == Head(op.requests)
        wasServed == op.phase = "answered"
        cellsWritten == request \in {"full", "resume"} \/ (request = "cells" /\ wasServed)
        comparing == op.kind = "commit" /\ request = "state"
    IN  /\ op # Nothing
        /\ Spend("events", MaxEvents)
        /\ IF comparing THEN UNCHANGED stacks ELSE RolledBack(op.kind, op.entry)
        /\ Then(s, <<>>)
        /\ failed' = TRUE
        /\ strayed' = (strayed \/ (op.kind \in WriteKinds /\ cellsWritten))
        /\ unheard' = (unheard \/ op.kind = "seed" \/ request = "full"
                               \/ (wasServed /\ request \notin Reads))
        /\ UNCHANGED <<server, pane, disposed, meant, apart, crossed>>

---------------------------------------------------------------------------

\* The user may simply stop.
Next ==
    \/ \E painted \in Strokes : Commit(painted) \/ CommitEarly(painted)
    \/ Undo \/ Redo \/ StepOnce \/ RunToggle \/ Dispose \/ Refresh \/ Tick
    \/ \E s \in Slots :
        \/ Serve(s) \/ Refetch(s)
        \/ Reseeded(s) \/ Asked(s) \/ Compared(s) \/ Answered(s)
        \/ Fails(s)

Spec == Init /\ [][Next]_vars

\* Requests are served and answered unless they fail; the browser's timer
\* fires while there is something to poll.  Strong, since a slot taken by
\* another operation is a bound of the model.
FairSpec ==
    /\ Spec
    /\ \A s \in Slots :
        WF_vars(Serve(s) \/ Refetch(s)
                \/ Reseeded(s) \/ Asked(s) \/ Compared(s) \/ Answered(s))
    /\ SF_vars(Refresh)

---------------------------------------------------------------------------
(* Properties. *)

Entries == {entry \in Changes : DOMAIN entry.before = DOMAIN entry.after}

TypeOK ==
    /\ server \in Snapshots
    /\ {cache, shown} \subseteq Snapshots \union {Nothing}
    /\ buttons \in [undo : BOOLEAN, redo : BOOLEAN]
    /\ undo \in Seq(Entries) /\ redo \in Seq(Entries)
    /\ ops \in [Slots -> Operations \cup {Nothing}]

AtRest == Busy = {}

\* At rest the undo and redo buttons tell whether there is something to undo
\* and redo, as long as no request failed: "Every history mutation lands a
\* snapshot" (compare-focus-pane.ts:209).
ButtonsTellHistory ==
    AtRest /\ ~disposed /\ ~failed =>
        buttons = [undo |-> undo # <<>>, redo |-> redo # <<>>]

\* The entries of a stack, newest first, lead from the board back through boards
\* each of which the next entry fits.
Leads(stack, board, from, to) ==
    LET entry(k) == stack[Len(stack) - k]
    IN  \E passed \in [0..Len(stack) -> Boards] :
            /\ passed[0] = board
            /\ \A k \in 0..Len(stack) - 1 :
                /\ Overlaid(entry(k)[from], passed[k]) = passed[k]
                /\ passed[k + 1] = Overlaid(entry(k)[to], passed[k])

\* While the board changes by the pane's writes only and no two commands were
\* under way together, both stacks describe the board of the session,
\* whichever requests failed.
HistoryFits ==
    AtRest /\ apart /\ ~strayed =>
        /\ Leads(undo, server.cells, "after", "before")
        /\ Leads(redo, server.cells, "before", "after")

PaneConsistent == TypeOK /\ ButtonsTellHistory /\ HistoryFits

\* Writes interrupt a run and never change whether there is one: however many
\* of them and polls overlap, the session ends up running or paused as the
\* run button or a step last left it.  Excluded are commands that overlap with
\* one that starts or stops the run, and failures.
WritesKeepRunState ==
    AtRest /\ ~crossed /\ ~failed => server.running = meant

\* The pane comes back to the session's state over and over, unless an answer
\* about a change was lost or it is disposed of.
PaneCatchesUp == []<>(shown = server \/ unheard \/ disposed)
===========================================================================
