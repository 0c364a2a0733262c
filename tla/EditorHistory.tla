-------------------------- MODULE EditorHistory --------------------------
(***************************************************************************)
(* Editing with undo and redo (editor-history.ts and the interactions that *)
(* use it).  A command is computed from the board the client shows when    *)
(* the user acts, waits in the mutation queue for the commands before it,  *)
(* is sent, and changes the stacks only once its answer is applied.  All   *)
(* the while polls apply what other clients and the simulation did, which  *)
(* empties the stacks when the board is no longer the one they describe.   *)
(***************************************************************************)
EXTENDS Integers, Sequences, Functions

CONSTANTS
    Cells, States,
    MaxEditorHistory, \* MAX_EDITOR_HISTORY
    Nothing,          \* null
    Sent,             \* a poll the server has yet to answer
    MaxCommands,      \* bound: commands of the user
    MaxForeign,       \* bound: changes by others and steps of the simulation
    MaxFailures,      \* bound: commands that fail
    MaxPolls          \* bound: polls the client starts on its own

Snapshots == [revision : Nat, generation : Nat, cells : [Cells -> States]]

ASSUME EditorAssumption ==
    /\ States # {}
    /\ MaxEditorHistory \in Nat \ {0}
    /\ {MaxCommands, MaxForeign, MaxFailures, MaxPolls} \subseteq Nat
    /\ Nothing # Sent /\ Nothing \notin Snapshots /\ Sent \notin Snapshots

VARIABLES
    server,   \* the session's [revision, generation, cells]
    shown,    \* the snapshot the client applied last
    undo,     \* state.undoStack
    redo,     \* state.redoStack
    queue,    \* tasks of the mutation runner, the running one first
    stage,    \* the running task: its request is "sent", "answered",
              \* or failed and "refreshing" or "refreshed"
    response, \* [before, snapshot]: what the request was served against and gave
    poll,     \* Nothing, Sent or the snapshot that answers
    faithful, \* every command in the stacks met the board and the stack
              \* it was computed from (history)
    used      \* what is spent of the bounds (history)

stacks == <<undo, redo>>
runner == <<queue, stage, response>>
vars == <<server, shown, stacks, runner, poll, faithful, used>>

Spend(what, max) == used[what] < max /\ used' = [used EXCEPT ![what] = @ + 1]

Board(snapshot) == <<snapshot.generation, snapshot.cells>>

Init ==
    /\ server = [revision |-> 0, generation |-> 0,
                 cells |-> [c \in Cells |-> CHOOSE s \in States : TRUE]]
    /\ shown = server
    /\ undo = << >> /\ redo = << >>
    /\ queue = << >> /\ stage = "sent" /\ response = Nothing
    /\ poll = Nothing
    /\ faithful = TRUE
    /\ used = [commands |-> 0, foreign |-> 0, failures |-> 0, polls |-> 0]

Newest(stack) == stack[Len(stack)]
Popped(stack) == SubSeq(stack, 1, Len(stack) - 1)

\* slice(-limit): the oldest entries give way
Pushed(stack, entry) ==
    LET longer == Append(stack, entry)
        excess == Len(longer) - MaxEditorHistory
    IN  IF excess > 0 THEN SubSeq(longer, excess + 1, Len(longer)) ELSE longer

---------------------------------------------------------------------------
(* What the user does. *)

\* buildCommittedEdit: the cells that change, and what they change from
CommittedEdit(painted) ==
    LET changed == {c \in DOMAIN painted : painted[c] # shown.cells[c]}
    IN  [forward |-> Restrict(painted, changed),
         inverse |-> Restrict(shown.cells, changed)]

\* runStateMutation queues the request; base and stack are only remembered to
\* state the properties.
Submit(kind, entry, cells, stack) ==
    /\ Spend("commands", MaxCommands)
    /\ queue' = Append(queue, [kind |-> kind, entry |-> entry, cells |-> cells,
                               base |-> shown, stack |-> stack])
    /\ UNCHANGED <<server, shown, stacks, stage, response, poll, faithful>>

\* commitEditorCells, paintCell and the end of a drag: an edit that changes
\* nothing is not sent.  A drag sends every cell it touched, the others only
\* the ones that change.
Edit(kind, painted) ==
    LET edit == CommittedEdit(painted)
    IN  /\ DOMAIN edit.forward # {}
        /\ Submit(kind, edit, IF kind = "drag" THEN painted ELSE edit.forward, Nothing)

Undo ==
    /\ undo # << >>
    /\ Submit("undo", Newest(undo), Newest(undo).inverse, undo)

Redo ==
    /\ redo # << >>
    /\ Submit("redo", Newest(redo), Newest(redo).forward, redo)

---------------------------------------------------------------------------
(* The server and others who change its board. *)

Overlaid(cells, board) ==
    [c \in Cells |-> IF c \in DOMAIN cells THEN cells[c] ELSE board[c]]

WithCells(cells) ==
    IF Overlaid(cells, server.cells) = server.cells THEN server
    ELSE [server EXCEPT !.cells = Overlaid(cells, @), !.revision = @ + 1]

Serve ==
    /\ queue # << >> /\ stage = "sent"
    /\ server' = WithCells(Head(queue).cells)
    /\ response' = [before |-> server, snapshot |-> server']
    /\ stage' = "answered"
    /\ UNCHANGED <<shown, stacks, queue, poll, faithful, used>>

OtherClientEdits(c, s) ==
    /\ Spend("foreign", MaxForeign)
    /\ server.cells[c] # s
    /\ server' = WithCells([x \in {c} |-> s])
    /\ UNCHANGED <<shown, stacks, runner, poll, faithful>>

\* Another client runs the simulation for a generation that leaves the cells
\* as they are (any other changes cells, as above).
OtherClientSteps ==
    /\ Spend("foreign", MaxForeign)
    /\ server' = [server EXCEPT !.generation = @ + 1, !.revision = @ + 1]
    /\ UNCHANGED <<shown, stacks, runner, poll, faithful>>

---------------------------------------------------------------------------
(* Applying a snapshot. *)

\* The cache resolves an older snapshot to the one it holds.
Newer(snapshot) == IF snapshot.revision < shown.revision THEN shown ELSE snapshot

\* A bug: the cells of the snapshot are not looked at.
Describes_Generation(snapshot) == snapshot.generation = shown.generation

\* shouldClearHistoryForSimulationUpdate, negated: the generation and the
\* cells are those the stacks describe
Describes(snapshot) == Board(snapshot) = Board(shown)

ApplyExternal(snapshot) ==
    /\ shown' = Newer(snapshot)
    /\ IF Describes(Newer(snapshot)) THEN UNCHANGED <<undo, redo, faithful>>
       ELSE undo' = << >> /\ redo' = << >> /\ faithful' = TRUE

PushUndoEntry(entry) ==
    /\ undo' = Pushed(undo, entry)
    /\ redo' = << >>

\* commitUndoSuccess and commitRedoSuccess move whatever is on top by now
CommitUndo ==
    IF undo = << >> THEN UNCHANGED stacks
    ELSE /\ undo' = Popped(undo)
         /\ redo' = Pushed(redo, Newest(undo))

CommitRedo ==
    IF redo = << >> THEN UNCHANGED stacks
    ELSE /\ redo' = Popped(redo)
         /\ undo' = Pushed(undo, Newest(redo))

\* The command was computed from the board it was served against and commits to
\* the stack it looked at, and nothing newer was shown meanwhile.
MetItsBoard(task) ==
    /\ response.before = task.base
    /\ Newer(response.snapshot) = response.snapshot
    /\ task.kind = "undo" => undo \in {task.stack, << >>}
    /\ task.kind = "redo" => redo \in {task.stack, << >>}

NextTask ==
    /\ queue' = Tail(queue)
    /\ stage' = "sent"
    /\ response' = Nothing

\* The answer is applied as the editor's own, which clears no history, and the
\* stacks follow.
Answered ==
    LET task == Head(queue)
    IN  /\ queue # << >> /\ stage = "answered"
        /\ shown' = Newer(response.snapshot)
        /\ CASE task.kind = "undo" -> CommitUndo
             [] task.kind = "redo" -> CommitRedo
             [] OTHER -> PushUndoEntry(task.entry)
        /\ faithful' = (MetItsBoard(task) /\ (stacks = <<<< >>, << >>>> \/ faithful))
        /\ NextTask
        /\ UNCHANGED <<server, poll, used>>

\* The request is lost before the server sees it, or its answer is.  A painted
\* cell is forgotten, every other command refreshes before the queue goes on.
Fails ==
    /\ queue # << >> /\ stage \in {"sent", "answered"}
    /\ Spend("failures", MaxFailures)
    /\ IF Head(queue).kind = "paint" THEN NextTask
       ELSE stage' = "refreshing" /\ response' = Nothing /\ UNCHANGED queue
    /\ UNCHANGED <<server, shown, stacks, poll, faithful>>

ServeRefresh ==
    /\ stage = "refreshing"
    /\ stage' = "refreshed"
    /\ response' = [before |-> server, snapshot |-> server]
    /\ UNCHANGED <<server, shown, stacks, queue, poll, faithful, used>>

\* A bug: the failed task stays at the head of the queue and is sent again.
Refreshed_Retries ==
    /\ stage = "refreshed"
    /\ ApplyExternal(response.snapshot)
    /\ stage' = "refreshing" /\ UNCHANGED <<queue, response>>
    /\ UNCHANGED <<server, poll, used>>

Refreshed ==
    /\ stage = "refreshed"
    /\ ApplyExternal(response.snapshot)
    /\ NextTask
    /\ UNCHANGED <<server, poll, used>>

\* refreshState reports its own failure and the task still ends.  (There are as
\* many refreshes as failures, so that the bound need not count theirs.)
RefreshFails ==
    /\ stage \in {"refreshing", "refreshed"}
    /\ NextTask
    /\ UNCHANGED <<server, shown, stacks, poll, faithful, used>>

StartPoll ==
    /\ poll = Nothing
    /\ Spend("polls", MaxPolls)
    /\ poll' = Sent
    /\ UNCHANGED <<server, shown, stacks, runner, faithful>>

ServePoll ==
    /\ poll = Sent
    /\ poll' = server
    /\ UNCHANGED <<server, shown, stacks, runner, faithful, used>>

PollArrives ==
    /\ poll \notin {Nothing, Sent}
    /\ ApplyExternal(poll)
    /\ poll' = Nothing
    /\ UNCHANGED <<server, runner, used>>

Paintings == UNION {[changed -> States] : changed \in (SUBSET Cells) \ {{}}}

Next ==
    \/ \E kind \in {"shape", "drag"}, painted \in Paintings : Edit(kind, painted)
    \/ \E c \in Cells, s \in States : Edit("paint", [x \in {c} |-> s])
    \/ Undo \/ Redo
    \/ Serve \/ Answered \/ Fails \/ ServeRefresh \/ Refreshed \/ RefreshFails
    \/ StartPoll \/ ServePoll \/ PollArrives
    \/ \E c \in Cells, s \in States : OtherClientEdits(c, s)
    \/ OtherClientSteps

Spec == Init /\ [][Next]_vars

\* A request is served or fails, and what is answered is applied.
FairSpec == Spec /\ WF_vars(Serve) /\ WF_vars(Answered)
                 /\ WF_vars(ServeRefresh) /\ WF_vars(Refreshed)

---------------------------------------------------------------------------
Entries == [forward : Paintings, inverse : Paintings]

\* The shape of the state; the stacks respect their limit.
EditorTypeOK ==
    /\ \A snapshot \in {server, shown} : snapshot.cells \in [Cells -> States]
    /\ \A stack \in {undo, redo} :
        /\ Len(stack) <= MaxEditorHistory
        /\ Range(stack) \subseteq Entries
    /\ stage \in {"sent", "answered", "refreshing", "refreshed"}
    /\ faithful \in BOOLEAN

Agrees(cells, board) == \A c \in DOMAIN cells : board[c] = cells[c]

NthNewest(stack, i) == stack[Len(stack) - i + 1]

\* Boards that a stack leads through from the given one: the i newest entries,
\* one by one, find the cells as they left them and set them back.
LeadsThrough(boards, stack, left, back, board) ==
    /\ boards[0] = board
    /\ \A i \in 1 .. Len(stack) :
        /\ Agrees(NthNewest(stack, i)[left], boards[i - 1])
        /\ boards[i] = Overlaid(NthNewest(stack, i)[back], boards[i - 1])

Fits(stack, left, back, board) ==
    \E boards \in [0 .. Len(stack) -> [Cells -> States]] :
        LeadsThrough(boards, stack, left, back, board)

\* The stacks describe the board shown: every entry of undo, once the newer
\* ones are taken back, finds the cells as it left them, and every entry of
\* redo finds them as they were before it; so undo and redo restore boards the
\* user has seen.  Whatever others do, whatever fails and however polls come
\* in, this holds as long as each command was served against the board and
\* committed to the stack it was computed from (the condition the code does
\* not enforce: see the README on commands issued while one is under way).
HistoryFits ==
    faithful =>
        /\ Fits(undo, "forward", "inverse", shown.cells)
        /\ Fits(redo, "inverse", "forward", shown.cells)

\* The stacks are well formed, within their limit, and describe the board.
EditorConsistent == EditorTypeOK /\ HistoryFits

\* Every command ends, served or failed: no failure holds up the queue.
CommandsEnd == []<>(queue = << >>)
==========================================================================
