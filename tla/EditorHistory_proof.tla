------------------------- MODULE EditorHistory_proof -------------------------
(***************************************************************************)
(* Theorems about EditorHistory, for any cells, states, limit of the       *)
(* stacks and bounds.                                                      *)
(***************************************************************************)
EXTENDS EditorHistory, TLAPS

(***************************************************************************)
(* Stacks: entries by their place from the newest, and the boards they     *)
(* lead through.                                                           *)
(***************************************************************************)

\* A pushed entry is the newest; the others move back, the oldest may go.
LEMMA PushIs ==
  ASSUME NEW S, NEW stack \in Seq(S), NEW e \in S, Len(stack) <= MaxEditorHistory
  PROVE  /\ Pushed(stack, e) \in Seq(S)
         /\ Len(Pushed(stack, e)) \in 1 .. MaxEditorHistory
         /\ Len(Pushed(stack, e)) <= Len(stack) + 1
         /\ NthNewest(Pushed(stack, e), 1) = e
         /\ \A i \in 1 .. Len(Pushed(stack, e)) :
              i = 1 \/ (i - 1 \in 1 .. Len(stack)
                        /\ NthNewest(Pushed(stack, e), i) = NthNewest(stack, i - 1))
<1> DEFINE n == Len(stack)
           longer == Append(stack, e)
<1>1. /\ n \in Nat /\ MaxEditorHistory \in Nat \ {0}
      /\ longer \in Seq(S) /\ Len(longer) = n + 1 /\ longer[n + 1] = e
      /\ \A i \in 1 .. n : longer[i] = stack[i]
  BY EditorAssumption
<1>2. CASE n + 1 - MaxEditorHistory > 0
  <2>1. n = MaxEditorHistory
    BY <1>1, <1>2
  <2>2. Pushed(stack, e) = SubSeq(longer, 2, n + 1)
    BY <1>1, <1>2, <2>1 DEF Pushed
  <2>3. PICK p : p = SubSeq(longer, 2, n + 1)
    OBVIOUS
  <2>4. /\ p \in Seq(S) /\ Len(p) = n /\ n >= 1
        /\ \A i \in 1 .. n : p[i] = longer[i + 1]
    BY <1>1, <2>1, <2>3
  <2>5. NthNewest(p, 1) = e
    BY <1>1, <2>4 DEF NthNewest
  <2>6. ASSUME NEW i \in 1 .. n, i # 1
        PROVE  i - 1 \in 1 .. n /\ NthNewest(p, i) = NthNewest(stack, i - 1)
    <3>1. /\ i - 1 \in 1 .. n /\ n - i + 1 \in 1 .. n /\ n - i + 2 \in 1 .. n
          /\ (n - i + 1) + 1 = n - i + 2 /\ n - (i - 1) + 1 = n - i + 2
      BY <1>1, <2>6
    <3>2. p[n - i + 1] = longer[n - i + 2] /\ longer[n - i + 2] = stack[n - i + 2]
      BY <1>1, <2>4, <3>1
    <3>3. QED
      BY <2>4, <3>1, <3>2 DEF NthNewest
  <2>7. QED
    BY <1>1, <2>1, <2>2, <2>3, <2>4, <2>5, <2>6
<1>3. CASE ~(n + 1 - MaxEditorHistory > 0)
  <2>1. Pushed(stack, e) = longer
    BY <1>1, <1>3 DEF Pushed
  <2>2. NthNewest(longer, 1) = e
    BY <1>1 DEF NthNewest
  <2>3. ASSUME NEW i \in 1 .. n + 1, i # 1
        PROVE  i - 1 \in 1 .. n /\ NthNewest(longer, i) = NthNewest(stack, i - 1)
    <3>1. /\ i - 1 \in 1 .. n /\ n - i + 2 \in 1 .. n
          /\ (n + 1) - i + 1 = n - i + 2 /\ n - (i - 1) + 1 = n - i + 2
      BY <1>1, <2>3
    <3>2. QED
      BY <1>1, <3>1 DEF NthNewest
  <2>4. n + 1 \in 1 .. MaxEditorHistory
    BY <1>1, <1>3
  <2>5. QED
    BY <1>1, <2>1, <2>2, <2>3, <2>4
<1>4. QED
  BY <1>2, <1>3

\* What is left when the newest entry is taken.
LEMMA PopIs ==
  ASSUME NEW S, NEW stack \in Seq(S), stack # << >>
  PROVE  /\ Popped(stack) \in Seq(S) /\ Len(stack) \in Nat \ {0}
         /\ Len(Popped(stack)) = Len(stack) - 1
         /\ Newest(stack) \in S /\ NthNewest(stack, 1) = Newest(stack)
         /\ \A i \in 1 .. Len(stack) - 1 : NthNewest(Popped(stack), i) = NthNewest(stack, i + 1)
<1> DEFINE n == Len(stack)
<1>1. n \in Nat \ {0} /\ stack[n] \in S /\ n - 1 + 1 = n
  OBVIOUS
<1>2. PICK p : p = SubSeq(stack, 1, n - 1)
  OBVIOUS
<1>3. p \in Seq(S) /\ Len(p) = n - 1 /\ \A i \in 1 .. n - 1 : p[i] = stack[i]
  BY <1>1, <1>2
<1>4. ASSUME NEW i \in 1 .. n - 1
      PROVE  NthNewest(p, i) = NthNewest(stack, i + 1)
  <2>1. n - 1 - i + 1 \in 1 .. n - 1 /\ n - (i + 1) + 1 = n - 1 - i + 1
    BY <1>1
  <2>2. QED
    BY <1>3, <2>1 DEF NthNewest
<1>5. QED
  BY <1>1, <1>2, <1>3, <1>4 DEF Popped, Newest, NthNewest

LEMMA OverlayType ==
  ASSUME NEW cells \in Paintings, NEW board \in [Cells -> States]
  PROVE  Overlaid(cells, board) \in [Cells -> States] /\ DOMAIN cells \subseteq Cells
BY DEF Paintings, Overlaid

LEMMA EmptyFits ==
  ASSUME NEW board \in [Cells -> States], NEW left, NEW back
  PROVE  Fits(<< >>, left, back, board)
<1> DEFINE boards == [i \in 0 .. 0 |-> board]
<1>1. boards \in [0 .. Len(<< >>) -> [Cells -> States]]
  OBVIOUS
<1>2. LeadsThrough(boards, << >>, left, back, board)
  BY DEF LeadsThrough
<1>3. QED
  BY <1>1, <1>2 DEF Fits

\* An entry that leads from a board to one the stack fits, fits on top of it.
LEMMA PushFits ==
  ASSUME NEW S, NEW stack \in Seq(S), NEW e \in S, Len(stack) <= MaxEditorHistory,
         NEW left, NEW back,
         NEW before \in [Cells -> States], NEW board \in [Cells -> States],
         Fits(stack, left, back, before),
         Agrees(e[left], board), Overlaid(e[back], board) = before
  PROVE  Fits(Pushed(stack, e), left, back, board)
<1>1. PICK boards \in [0 .. Len(stack) -> [Cells -> States]] :
          LeadsThrough(boards, stack, left, back, before)
  BY DEF Fits
<1>2. PICK p : p = Pushed(stack, e)
  OBVIOUS
<1>3. /\ p \in Seq(S) /\ Len(p) \in 1 .. MaxEditorHistory /\ Len(p) <= Len(stack) + 1
      /\ NthNewest(p, 1) = e /\ Len(stack) \in Nat
      /\ \A i \in 1 .. Len(p) : i = 1 \/ (i - 1 \in 1 .. Len(stack)
                                          /\ NthNewest(p, i) = NthNewest(stack, i - 1))
  <2>1. /\ Pushed(stack, e) \in Seq(S)
        /\ Len(Pushed(stack, e)) \in 1 .. MaxEditorHistory
        /\ Len(Pushed(stack, e)) <= Len(stack) + 1
        /\ NthNewest(Pushed(stack, e), 1) = e
        /\ \A i \in 1 .. Len(Pushed(stack, e)) :
              i = 1 \/ (i - 1 \in 1 .. Len(stack)
                        /\ NthNewest(Pushed(stack, e), i) = NthNewest(stack, i - 1))
    BY PushIs
  <2>2. Len(stack) \in Nat
    OBVIOUS
  <2>3. QED
    BY <1>2, <2>1, <2>2, Zenon
<1> DEFINE longer == [i \in 0 .. Len(p) |-> IF i = 0 THEN board ELSE boards[i - 1]]
<1>4. longer \in [0 .. Len(p) -> [Cells -> States]]
  BY <1>3
<1>5. longer[0] = board /\ \A i \in 1 .. Len(p) : longer[i] = boards[i - 1]
  BY <1>3
<1>6. boards[0] = before
  BY <1>1 DEF LeadsThrough
<1> HIDE DEF longer
<1>7. ASSUME NEW i \in 1 .. Len(p)
      PROVE  /\ Agrees(NthNewest(p, i)[left], longer[i - 1])
             /\ longer[i] = Overlaid(NthNewest(p, i)[back], longer[i - 1])
  <2>1. CASE i = 1
    <3>1. longer[i - 1] = board /\ longer[i] = before /\ NthNewest(p, i) = e
      BY <1>3, <1>5, <1>6, <2>1
    <3>2. QED
      BY <3>1
  <2>2. CASE i # 1
    <3>1. i - 1 \in 1 .. Len(stack) /\ i - 1 \in 1 .. Len(p) /\ NthNewest(p, i) = NthNewest(stack, i - 1)
      BY <1>3, <2>2
    <3>2. longer[i - 1] = boards[i - 1 - 1] /\ longer[i] = boards[i - 1]
      BY <1>5, <3>1
    <3>3. /\ Agrees(NthNewest(stack, i - 1)[left], boards[i - 1 - 1])
          /\ boards[i - 1] = Overlaid(NthNewest(stack, i - 1)[back], boards[i - 1 - 1])
      BY <1>1, <3>1 DEF LeadsThrough
    <3>4. QED
      BY <3>1, <3>2, <3>3
  <2>3. QED
    BY <2>1, <2>2
<1>8. LeadsThrough(longer, p, left, back, board)
  BY <1>5, <1>7 DEF LeadsThrough
<1>9. QED
  BY <1>2, <1>4, <1>8 DEF Fits

\* Taking the newest entry back leads to a board the others fit.
LEMMA PopFits ==
  ASSUME NEW S, NEW stack \in Seq(S), stack # << >>, NEW left, NEW back, NEW board,
         Fits(stack, left, back, board)
  PROVE  /\ Agrees(Newest(stack)[left], board)
         /\ Fits(Popped(stack), left, back, Overlaid(Newest(stack)[back], board))
<1>1. PICK boards \in [0 .. Len(stack) -> [Cells -> States]] :
          LeadsThrough(boards, stack, left, back, board)
  BY DEF Fits
<1>2. PICK p : p = Popped(stack)
  OBVIOUS
<1>3. /\ Len(stack) \in Nat \ {0} /\ Len(p) = Len(stack) - 1 /\ NthNewest(stack, 1) = Newest(stack)
      /\ \A i \in 1 .. Len(stack) - 1 : NthNewest(p, i) = NthNewest(stack, i + 1)
  BY <1>2, PopIs
<1>4. /\ boards[0] = board
      /\ Agrees(NthNewest(stack, 1)[left], boards[1 - 1])
      /\ boards[1] = Overlaid(NthNewest(stack, 1)[back], boards[1 - 1])
  <2>1. 1 \in 1 .. Len(stack)
    BY <1>3
  <2>2. QED
    BY <1>1, <2>1 DEF LeadsThrough
<1>5. /\ Agrees(Newest(stack)[left], board)
      /\ boards[1] = Overlaid(Newest(stack)[back], board)
  BY <1>3, <1>4
<1> DEFINE shorter == [i \in 0 .. Len(p) |-> boards[i + 1]]
<1>6. shorter \in [0 .. Len(p) -> [Cells -> States]]
  BY <1>3
<1>7. shorter[0] = boards[1] /\ \A i \in 0 .. Len(p) : shorter[i] = boards[i + 1]
  BY <1>3
<1> HIDE DEF shorter
<1>8. ASSUME NEW i \in 1 .. Len(p)
      PROVE  /\ Agrees(NthNewest(p, i)[left], shorter[i - 1])
             /\ shorter[i] = Overlaid(NthNewest(p, i)[back], shorter[i - 1])
  <2>1. i + 1 \in 1 .. Len(stack) /\ i - 1 \in 0 .. Len(p) /\ i \in 0 .. Len(p)
        /\ i \in 1 .. Len(stack) - 1 /\ i - 1 + 1 = i /\ i + 1 - 1 = i
    BY <1>3
  <2>2. /\ Agrees(NthNewest(stack, i + 1)[left], boards[i + 1 - 1])
        /\ boards[i + 1] = Overlaid(NthNewest(stack, i + 1)[back], boards[i + 1 - 1])
    BY <1>1, <2>1 DEF LeadsThrough
  <2>3. shorter[i - 1] = boards[i] /\ shorter[i] = boards[i + 1]
    BY <1>7, <2>1
  <2>4. NthNewest(p, i) = NthNewest(stack, i + 1)
    BY <1>3, <2>1
  <2>5. QED
    BY <2>1, <2>2, <2>3, <2>4
<1>9. LeadsThrough(shorter, p, left, back, Overlaid(Newest(stack)[back], board))
  BY <1>5, <1>7, <1>8 DEF LeadsThrough
<1>10. QED
  BY <1>2, <1>5, <1>6, <1>9 DEF Fits
(***************************************************************************)
(* Types.  A command remembers the snapshot and the stack it was computed  *)
(* from; its cells take the board of that snapshot where it wants to go.   *)
(***************************************************************************)

\* An entry changes each of its cells, and back.
Reversible ==
    {e \in Entries : /\ DOMAIN e.forward = DOMAIN e.inverse
                     /\ \A c \in DOMAIN e.forward : e.forward[c] # e.inverse[c]}

Stacks == {stack \in Seq(Reversible) : Len(stack) <= MaxEditorHistory}

Steps == {"undo", "redo"}
Edits == {"shape", "drag", "paint"}

\* What a command sends follows from what it was computed from.
Computed(task) ==
    /\ task.kind \in Steps => /\ task.stack \in Stacks /\ task.stack # << >>
                              /\ task.entry = Newest(task.stack)
    /\ task.kind = "undo" => task.cells = task.entry.inverse
    /\ task.kind = "redo" => task.cells = task.entry.forward
    /\ task.kind \in Edits =>
         /\ Overlaid(task.cells, task.base.cells) = Overlaid(task.entry.forward, task.base.cells)
         /\ Agrees(task.entry.inverse, task.base.cells)

Tasks ==
    {task \in [kind : Steps \cup Edits, entry : Reversible, cells : Paintings,
               base : Snapshots, stack : Stacks \cup {Nothing}] : Computed(task)}

\* The request in flight and what it was served against.
Served(task, answer) ==
    /\ answer.snapshot.cells = Overlaid(task.cells, answer.before.cells)
    /\ answer.snapshot = answer.before
         \/ (/\ answer.snapshot.revision = answer.before.revision + 1
             /\ answer.snapshot.cells # answer.before.cells)

Typed ==
    /\ server \in Snapshots /\ shown \in Snapshots
    /\ undo \in Stacks /\ redo \in Stacks
    /\ queue \in Seq(Tasks)
    /\ stage \in {"sent", "answered", "refreshing", "refreshed"}
    /\ stage # "sent" => queue # << >>
    /\ stage \in {"answered", "refreshed"} => response \in [before : Snapshots, snapshot : Snapshots]
    /\ stage = "answered" => Served(Head(queue), response)
    /\ poll \in Snapshots \cup {Nothing, Sent}
    /\ faithful \in BOOLEAN

(***************************************************************************)
(* Revisions tell snapshots apart, and a command that met its board still  *)
(* does when it is applied: unless the board went on, the snapshot it was  *)
(* computed from is shown and its stack is in place.                       *)
(***************************************************************************)

\* Every snapshot that is still around.
Known ==
    {server, shown} \cup ({poll} \ {Nothing, Sent})
        \cup {queue[i].base : i \in DOMAIN queue}
        \cup (IF stage \in {"answered", "refreshed"}
              THEN {response.before, response.snapshot} ELSE {})

Distinct ==
    /\ \A x \in Known : x.revision <= server.revision
    /\ \A x, y \in Known : x.revision = y.revision => x = y

Emptied == undo = << >> /\ redo = << >>

\* A command is computed from what was shown at the time.
FromThePast == \A i \in DOMAIN queue : queue[i].base.revision <= shown.revision

\* While the answer is on its way, a poll may bring its board, which empties the
\* stacks, or a later one; undo and redo of an empty stack are not offered.
Undisturbed ==
    stage = "answered" /\ response.before = Head(queue).base =>
        \/ shown = response.before
        \/ shown.revision > response.snapshot.revision
        \/ /\ shown = response.snapshot /\ Emptied
           /\ \A i \in DOMAIN queue :
                queue[i].kind \in Steps => queue[i].base.revision < shown.revision

\* Until the board changes, so do the stacks only by a command that did not meet
\* its own.
InPlace ==
    \A i \in DOMAIN queue :
        faithful /\ queue[i].base.revision = shown.revision =>
            /\ queue[i].kind = "undo" => undo = queue[i].stack \/ Emptied
            /\ queue[i].kind = "redo" => redo = queue[i].stack \/ Emptied

Steady == Distinct /\ FromThePast /\ Undisturbed /\ InPlace

EditorInv == Typed /\ Steady /\ HistoryFits

LEMMA EntryIs ==
  ASSUME NEW e \in Reversible
  PROVE  /\ e.forward \in Paintings /\ e.inverse \in Paintings
         /\ DOMAIN e.forward = DOMAIN e.inverse /\ DOMAIN e.forward \subseteq Cells
         /\ DOMAIN e.forward # {}
         /\ \A c \in DOMAIN e.forward : e.forward[c] # e.inverse[c]
<1>1. e.forward \in Paintings /\ e.inverse \in Paintings
  BY DEF Reversible, Entries
<1>2. DOMAIN e.forward \subseteq Cells /\ DOMAIN e.forward # {}
  <2>1. PICK S \in (SUBSET Cells) \ {{}} : e.forward \in [S -> States]
    BY <1>1 DEF Paintings
  <2>2. QED
    BY <2>1
<1>3. QED
  BY <1>1, <1>2 DEF Reversible

LEMMA StackIs ==
  ASSUME NEW stack \in Stacks
  PROVE  /\ stack \in Seq(Reversible) /\ Len(stack) <= MaxEditorHistory
         /\ \A e \in Reversible : Pushed(stack, e) \in Stacks
         /\ stack # << >> => Popped(stack) \in Stacks /\ Newest(stack) \in Reversible
         /\ << >> \in Stacks
<1>1. stack \in Seq(Reversible) /\ Len(stack) <= MaxEditorHistory
  BY DEF Stacks
<1>2. ASSUME NEW e \in Reversible
      PROVE  Pushed(stack, e) \in Stacks
  <2>1. Pushed(stack, e) \in Seq(Reversible) /\ Len(Pushed(stack, e)) \in 1 .. MaxEditorHistory
    BY <1>1, PushIs
  <2>2. QED
    BY <2>1, EditorAssumption DEF Stacks
<1>3. ASSUME stack # << >>
      PROVE  Popped(stack) \in Stacks /\ Newest(stack) \in Reversible
  <2>1. Popped(stack) \in Seq(Reversible) /\ Len(stack) \in Nat \ {0}
        /\ Len(Popped(stack)) = Len(stack) - 1 /\ Newest(stack) \in Reversible
    BY <1>1, <1>3, PopIs
  <2>2. QED
    BY <1>1, <2>1, EditorAssumption DEF Stacks
<1>4. << >> \in Stacks
  BY EditorAssumption DEF Stacks
<1>5. QED
  BY <1>1, <1>2, <1>3, <1>4

LEMMA QueueIs ==
  ASSUME queue \in Seq(Tasks)
  PROVE  /\ \A i \in DOMAIN queue : queue[i] \in Tasks
         /\ queue # << >> =>
              /\ Head(queue) \in Tasks /\ Head(queue) = queue[1] /\ 1 \in DOMAIN queue
              /\ Tail(queue) \in Seq(Tasks)
              /\ \A i \in DOMAIN Tail(queue) : i + 1 \in DOMAIN queue /\ Tail(queue)[i] = queue[i + 1]
         /\ \A task \in Tasks :
              /\ Append(queue, task) \in Seq(Tasks) /\ Append(queue, task) # << >>
              /\ \A i \in DOMAIN Append(queue, task) :
                   Append(queue, task)[i] = task
                     \/ (i \in DOMAIN queue /\ Append(queue, task)[i] = queue[i])
              /\ queue # << >> => Head(Append(queue, task)) = Head(queue)
OBVIOUS

LEMMA TaskIs ==
  ASSUME NEW task \in Tasks
  PROVE  /\ task.kind \in Steps \cup Edits /\ task.entry \in Reversible /\ task.cells \in Paintings
         /\ task.base \in Snapshots /\ Computed(task)
BY DEF Tasks

\* An edit sets the painted cells that differ.
LEMMA EditIs ==
  ASSUME NEW painted \in Paintings, shown \in Snapshots,
         DOMAIN CommittedEdit(painted).forward # {}, NEW kind \in Edits
  PROVE  LET edit == CommittedEdit(painted)
         IN  [kind |-> kind, entry |-> edit,
              cells |-> IF kind = "drag" THEN painted ELSE edit.forward,
              base |-> shown, stack |-> Nothing] \in Tasks
<1> DEFINE D == {c \in DOMAIN painted : painted[c] # shown.cells[c]}
           edit == CommittedEdit(painted)
<1>1. /\ edit.forward = [c \in D |-> painted[c]] /\ edit.inverse = [c \in D |-> shown.cells[c]]
      /\ edit = [forward |-> edit.forward, inverse |-> edit.inverse]
  BY DEF CommittedEdit, Restrict
<1>2. shown.cells \in [Cells -> States] /\ D \subseteq Cells /\ D # {}
      /\ \A c \in D : painted[c] \in States /\ shown.cells[c] \in States
  <2>1. PICK S \in SUBSET Cells : painted \in [S -> States]
    BY DEF Paintings
  <2>2. D \subseteq Cells /\ \A c \in D : painted[c] \in States
    BY <2>1
  <2>3. shown.cells \in [Cells -> States]
    BY DEF Snapshots
  <2>4. D # {}
    BY <1>1
  <2>5. QED
    BY <2>2, <2>3, <2>4
<1>3. edit.forward \in Paintings /\ edit.inverse \in Paintings
  <2>1. PICK S : S = D
    OBVIOUS
  <2>2. S \in (SUBSET Cells) \ {{}}
    BY <1>2, <2>1
  <2>3. edit.forward \in [S -> States] /\ edit.inverse \in [S -> States]
    BY <1>1, <1>2, <2>1
  <2>4. QED
    BY <2>2, <2>3 DEF Paintings
<1>5. edit \in Reversible
  BY <1>1, <1>3 DEF Reversible, Entries
<1>6. Agrees(edit.inverse, shown.cells)
  BY <1>1 DEF Agrees
<1>7. Overlaid(painted, shown.cells) = Overlaid(edit.forward, shown.cells)
  BY <1>1 DEF Overlaid
<1> HIDE DEF edit, D
<1> DEFINE task == [kind |-> kind, entry |-> edit,
                    cells |-> IF kind = "drag" THEN painted ELSE edit.forward,
                    base |-> shown, stack |-> Nothing]
<1>8. Computed(task)
  BY <1>6, <1>7 DEF Computed, Steps, Edits
<1>9. task \in Tasks
  BY <1>3, <1>5, <1>8 DEF Tasks, Edits
<1>10. QED
  BY <1>9 DEF edit

LEMMA ServedIs ==
  ASSUME server \in Snapshots, NEW cells \in Paintings
  PROVE  /\ WithCells(cells) \in Snapshots
         /\ WithCells(cells).cells = Overlaid(cells, server.cells)
         /\ \/ WithCells(cells) = server
            \/ /\ WithCells(cells).revision = server.revision + 1
               /\ WithCells(cells).cells # server.cells
<1>1. Overlaid(cells, server.cells) \in [Cells -> States]
  BY OverlayType DEF Snapshots
<1>2. PICK board \in [Cells -> States] : board = Overlaid(cells, server.cells)
  BY <1>1
<1>3. PICK next \in Nat : next = server.revision + 1
  BY DEF Snapshots
<1>4. PICK after : after = [server EXCEPT !.cells = board, !.revision = next]
  OBVIOUS
<1>5. after \in Snapshots /\ after.cells = board /\ after.revision = next
  BY <1>4 DEF Snapshots
<1>6. WithCells(cells) = IF board = server.cells THEN server ELSE after
  BY <1>2, <1>3, <1>4 DEF WithCells
<1>7. QED
  BY <1>2, <1>3, <1>5, <1>6

LEMMA NewerIs ==
  ASSUME NEW snapshot \in Snapshots, shown \in Snapshots
  PROVE  /\ Newer(snapshot) \in {shown, snapshot} /\ Newer(snapshot) \in Snapshots
         /\ Newer(snapshot).revision >= shown.revision
         /\ Newer(snapshot).revision >= snapshot.revision
BY DEF Newer, Snapshots

\* A snapshot of others: the stacks stay with their board or are emptied.
LEMMA ExternalIs ==
  ASSUME NEW snapshot \in Snapshots, Typed, ApplyExternal(snapshot)
  PROVE  /\ shown' = Newer(snapshot) /\ shown' \in Snapshots
         /\ undo' \in Stacks /\ redo' \in Stacks /\ faithful' \in BOOLEAN
         /\ \/ UNCHANGED <<undo, redo, faithful>> /\ shown'.cells = shown.cells
            \/ undo' = << >> /\ redo' = << >> /\ Board(shown') # Board(shown)
<1>1. shown' = Newer(snapshot) /\ shown' \in Snapshots
  BY NewerIs DEF ApplyExternal, Typed
<1>2. undo \in Stacks /\ redo \in Stacks /\ faithful \in BOOLEAN /\ << >> \in Stacks
  BY StackIs DEF Typed
<1>3. CASE Describes(Newer(snapshot))
  <2>1. UNCHANGED <<undo, redo, faithful>> /\ shown'.cells = shown.cells
    BY <1>1, <1>3 DEF ApplyExternal, Describes, Board
  <2>2. QED
    BY <1>1, <1>2, <2>1
<1>4. CASE ~Describes(Newer(snapshot))
  BY <1>1, <1>2, <1>4 DEF ApplyExternal, Describes
<1>5. QED
  BY <1>3, <1>4

LEMMA TypedInit == Init => Typed
<1> SUFFICES ASSUME Init PROVE Typed
  OBVIOUS
<1>1. server \in Snapshots /\ shown \in Snapshots
  <2>1. (CHOOSE s \in States : TRUE) \in States
    BY EditorAssumption
  <2>2. QED
    BY <2>1 DEF Init, Snapshots
<1>2. << >> \in Stacks
  BY EditorAssumption DEF Stacks
<1>3. QED
  BY <1>1, <1>2 DEF Init, Typed

\* A command of the user, whichever it is, is queued as it was computed.
LEMMA SubmitIs ==
  ASSUME Typed,
         \/ \E kind \in {"shape", "drag"}, painted \in Paintings : Edit(kind, painted)
         \/ \E c \in Cells, s \in States : Edit("paint", [x \in {c} |-> s])
         \/ Undo \/ Redo
  PROVE  /\ \E task \in Tasks :
              /\ queue' = Append(queue, task) /\ task.base = shown
              /\ task.kind = "undo" => task.stack = undo /\ undo # << >>
              /\ task.kind = "redo" => task.stack = redo /\ redo # << >>
         /\ UNCHANGED <<server, shown, undo, redo, stage, response, poll, faithful>>
<1>1. shown \in Snapshots /\ undo \in Stacks /\ redo \in Stacks
  BY DEF Typed
<1>2. ASSUME NEW kind \in Edits, NEW painted \in Paintings, Edit(kind, painted)
      PROVE  /\ \E task \in Tasks : /\ queue' = Append(queue, task) /\ task.base = shown
                                    /\ task.kind \in Edits
             /\ UNCHANGED <<server, shown, undo, redo, stage, response, poll, faithful>>
  <2>1. PICK edit : edit = CommittedEdit(painted)
    OBVIOUS
  <2>2. PICK task : task = [kind |-> kind, entry |-> edit,
                            cells |-> IF kind = "drag" THEN painted ELSE edit.forward,
                            base |-> shown, stack |-> Nothing]
    OBVIOUS
  <2>3. DOMAIN edit.forward # {} /\ queue' = Append(queue, task)
        /\ UNCHANGED <<server, shown, undo, redo, stage, response, poll, faithful>>
    BY <1>2, <2>1, <2>2 DEF Edit, Submit, stacks
  <2>4. task \in Tasks
    BY <1>1, <2>1, <2>2, <2>3, EditIs
  <2>5. task.base = shown /\ task.kind \in Edits
    BY <2>2
  <2>6. QED
    BY <2>3, <2>4, <2>5
<1>3. \A c \in Cells, s \in States : [x \in {c} |-> s] \in Paintings
  <2>1. SUFFICES ASSUME NEW c \in Cells, NEW s \in States PROVE [x \in {c} |-> s] \in Paintings
    OBVIOUS
  <2>2. PICK S \in (SUBSET Cells) \ {{}} : S = {c}
    OBVIOUS
  <2>3. [x \in {c} |-> s] \in [S -> States]
    BY <2>2
  <2>4. QED
    BY <2>3 DEF Paintings
<1>4. CASE Undo
  <2>1. undo # << >> /\ Newest(undo) \in Reversible
    BY <1>1, <1>4, StackIs DEF Undo
  <2>2. Newest(undo).inverse \in Paintings
    BY <2>1, EntryIs
  <2>3. PICK task : task = [kind |-> "undo", entry |-> Newest(undo), cells |-> Newest(undo).inverse,
                            base |-> shown, stack |-> undo]
    OBVIOUS
  <2>4. Computed(task)
    BY <1>1, <2>1, <2>3 DEF Computed, Steps, Edits
  <2>5. task \in Tasks
    BY <1>1, <2>1, <2>2, <2>3, <2>4 DEF Tasks, Steps
  <2>6. queue' = Append(queue, task)
        /\ UNCHANGED <<server, shown, undo, redo, stage, response, poll, faithful>>
    BY <1>4, <2>3 DEF Undo, Submit, stacks
  <2>7. QED
    BY <2>1, <2>3, <2>5, <2>6
<1>5. CASE Redo
  <2>1. redo # << >> /\ Newest(redo) \in Reversible
    BY <1>1, <1>5, StackIs DEF Redo
  <2>2. Newest(redo).forward \in Paintings
    BY <2>1, EntryIs
  <2>3. PICK task : task = [kind |-> "redo", entry |-> Newest(redo), cells |-> Newest(redo).forward,
                            base |-> shown, stack |-> redo]
    OBVIOUS
  <2>4. Computed(task)
    BY <1>1, <2>1, <2>3 DEF Computed, Steps, Edits
  <2>5. task \in Tasks
    BY <1>1, <2>1, <2>2, <2>3, <2>4 DEF Tasks, Steps
  <2>6. queue' = Append(queue, task)
        /\ UNCHANGED <<server, shown, undo, redo, stage, response, poll, faithful>>
    BY <1>5, <2>3 DEF Redo, Submit, stacks
  <2>7. QED
    BY <2>1, <2>3, <2>5, <2>6
<1>6. "undo" \notin Edits /\ "redo" \notin Edits /\ {"shape", "drag", "paint"} \subseteq Edits
  BY DEF Edits
<1>7. QED
  BY <1>2, <1>3, <1>4, <1>5, <1>6

\* What a served command leads the client to.
LEMMA AnsweredIs ==
  ASSUME Typed, Answered
  PROVE  /\ queue # << >> /\ stage = "answered" /\ Head(queue) \in Tasks
         /\ Served(Head(queue), response) /\ response \in [before : Snapshots, snapshot : Snapshots]
         /\ shown' = Newer(response.snapshot) /\ shown' \in Snapshots
         /\ queue' = Tail(queue) /\ stage' = "sent" /\ UNCHANGED <<server, poll>>
         /\ faithful' = (MetItsBoard(Head(queue)) /\ (Emptied \/ faithful))
         /\ Head(queue).kind = "undo" => CommitUndo
         /\ Head(queue).kind = "redo" => CommitRedo
         /\ Head(queue).kind \in Edits => PushUndoEntry(Head(queue).entry)
         /\ undo' \in Stacks /\ redo' \in Stacks
<1>1. /\ queue # << >> /\ stage = "answered" /\ Head(queue) \in Tasks
      /\ Served(Head(queue), response) /\ response \in [before : Snapshots, snapshot : Snapshots]
  BY QueueIs DEF Answered, Typed
<1>2. /\ shown' = Newer(response.snapshot) /\ queue' = Tail(queue) /\ stage' = "sent"
      /\ UNCHANGED <<server, poll>>
      /\ faithful' = (MetItsBoard(Head(queue)) /\ (stacks = <<<< >>, << >>>> \/ faithful))
  BY DEF Answered, NextTask
<1>3. shown' \in Snapshots
  BY <1>1, <1>2, NewerIs DEF Typed
<1>4. (stacks = <<<< >>, << >>>>) <=> Emptied
  BY DEF stacks, Emptied
<1>5. /\ Head(queue).kind = "undo" => CommitUndo
      /\ Head(queue).kind = "redo" => CommitRedo
      /\ Head(queue).kind \in Edits => PushUndoEntry(Head(queue).entry)
  BY DEF Answered, Edits
<1>6. /\ Head(queue).kind \in Steps \cup Edits /\ Head(queue).entry \in Reversible
      /\ undo \in Stacks /\ redo \in Stacks /\ << >> \in Stacks
  BY <1>1, TaskIs, StackIs DEF Typed
<1>7. undo' \in Stacks /\ redo' \in Stacks
  <2>1. CASE Head(queue).kind = "undo"
    BY <1>5, <1>6, <2>1, StackIs DEF CommitUndo, stacks
  <2>2. CASE Head(queue).kind = "redo"
    BY <1>5, <1>6, <2>2, StackIs DEF CommitRedo, stacks
  <2>3. CASE Head(queue).kind \in Edits
    BY <1>5, <1>6, <2>3, StackIs DEF PushUndoEntry
  <2>4. QED
    BY <1>6, <2>1, <2>2, <2>3 DEF Steps
<1>8. QED
  BY <1>1, <1>2, <1>3, <1>4, <1>5, <1>7

LEMMA TypedStep == Typed /\ [Next]_vars => Typed'
<1> SUFFICES ASSUME Typed, [Next]_vars PROVE Typed'
  OBVIOUS
<1>0. /\ server \in Snapshots /\ shown \in Snapshots /\ undo \in Stacks /\ redo \in Stacks
      /\ queue \in Seq(Tasks) /\ poll \in Snapshots \cup {Nothing, Sent} /\ faithful \in BOOLEAN
  BY DEF Typed
<1>1. ASSUME \/ \E kind \in {"shape", "drag"}, painted \in Paintings : Edit(kind, painted)
             \/ \E c \in Cells, s \in States : Edit("paint", [x \in {c} |-> s])
             \/ Undo \/ Redo
      PROVE  Typed'
  <2>1. PICK task \in Tasks : queue' = Append(queue, task)
    BY <1>1, SubmitIs
  <2>2. UNCHANGED <<server, shown, undo, redo, stage, response, poll, faithful>>
    BY <1>1, SubmitIs
  <2>3. queue' \in Seq(Tasks) /\ queue' # << >> /\ (queue # << >> => Head(queue') = Head(queue))
    BY <1>0, <2>1, QueueIs
  <2>4. QED
    BY <2>2, <2>3 DEF Typed, Served
<1>2. CASE Serve
  <2>1. Head(queue) \in Tasks /\ Head(queue).cells \in Paintings
    BY <1>0, <1>2, QueueIs, TaskIs DEF Serve
  <2>2. /\ server' \in Snapshots /\ server'.cells = Overlaid(Head(queue).cells, server.cells)
        /\ \/ server' = server
           \/ server'.revision = server.revision + 1 /\ server'.cells # server.cells
    BY <1>0, <1>2, <2>1, ServedIs DEF Serve
  <2>3. response' \in [before : Snapshots, snapshot : Snapshots] /\ Served(Head(queue), response')
    BY <1>0, <1>2, <2>2 DEF Serve, Served
  <2>4. QED
    BY <1>2, <2>2, <2>3 DEF Typed, Serve, stacks
<1>3. ASSUME NEW c \in Cells, NEW s \in States, OtherClientEdits(c, s) PROVE Typed'
  <2>1. [x \in {c} |-> s] \in Paintings
    <3>1. PICK S \in (SUBSET Cells) \ {{}} : S = {c}
      OBVIOUS
    <3>2. [x \in {c} |-> s] \in [S -> States]
      BY <3>1
    <3>3. QED
      BY <3>2 DEF Paintings
  <2>2. server' \in Snapshots
    BY <1>0, <1>3, <2>1, ServedIs DEF OtherClientEdits
  <2>3. UNCHANGED <<shown, undo, redo, queue, stage, response, poll, faithful>>
    BY <1>3 DEF OtherClientEdits, stacks, runner
  <2>4. QED
    BY <2>2, <2>3 DEF Typed, Served
<1>4. CASE OtherClientSteps
  <2>1. server' \in Snapshots
    <3>1. PICK g \in Nat, r \in Nat : g = server.generation + 1 /\ r = server.revision + 1
      BY <1>0 DEF Snapshots
    <3>2. server' = [server EXCEPT !.generation = g, !.revision = r]
      BY <1>4, <3>1 DEF OtherClientSteps
    <3>3. QED
      BY <1>0, <3>2 DEF Snapshots
  <2>2. QED
    BY <1>4, <2>1 DEF Typed, OtherClientSteps, stacks, runner, Served
<1>5. CASE Answered
  <2>1. faithful' \in BOOLEAN
    BY <1>5, AnsweredIs
  <2>2. Tail(queue) \in Seq(Tasks)
    BY <1>0, <1>5, QueueIs DEF Answered
  <2>3. QED
    BY <1>0, <1>5, <2>1, <2>2, AnsweredIs DEF Typed
<1>6. CASE Fails
  <2>1. CASE Head(queue).kind = "paint"
    BY <1>0, <1>6, <2>1, QueueIs DEF Typed, Fails, NextTask, stacks
  <2>2. CASE Head(queue).kind # "paint"
    BY <1>0, <1>6, <2>2 DEF Typed, Fails, stacks
  <2>3. QED
    BY <2>1, <2>2
<1>7. CASE ServeRefresh
  BY <1>0, <1>7 DEF Typed, ServeRefresh, stacks
<1>8. CASE Refreshed
  <2>1. response.snapshot \in Snapshots /\ queue # << >>
    BY <1>8 DEF Refreshed, Typed
  <2>2. shown' \in Snapshots /\ undo' \in Stacks /\ redo' \in Stacks /\ faithful' \in BOOLEAN
    BY <1>8, <2>1, ExternalIs DEF Refreshed
  <2>3. QED
    BY <1>0, <1>8, <2>1, <2>2, QueueIs DEF Typed, Refreshed, NextTask
<1>9. CASE RefreshFails
  BY <1>0, <1>9, QueueIs DEF Typed, RefreshFails, NextTask, stacks
<1>10. CASE StartPoll \/ ServePoll
  BY <1>0, <1>10 DEF Typed, StartPoll, ServePoll, stacks, runner, Served
<1>11. CASE PollArrives
  <2>1. poll \in Snapshots
    BY <1>0, <1>11 DEF PollArrives
  <2>2. shown' \in Snapshots /\ undo' \in Stacks /\ redo' \in Stacks /\ faithful' \in BOOLEAN
    BY <1>11, <2>1, ExternalIs DEF PollArrives
  <2>3. QED
    BY <1>0, <1>11, <2>2 DEF Typed, PollArrives, runner, Served
<1>12. CASE UNCHANGED vars
  BY <1>12 DEF Typed, vars, stacks, runner, Served
<1>13. QED
  BY <1>1, <1>2, <1>3, <1>4, <1>5, <1>6, <1>7, <1>8, <1>9, <1>10, <1>11, <1>12 DEF Next

(***************************************************************************)
(* Revisions tell snapshots apart.                                         *)
(***************************************************************************)

LEMMA KnownIs ==
  ASSUME Typed
  PROVE  Known \subseteq Snapshots
<1>1. \A i \in DOMAIN queue : queue[i].base \in Snapshots
  BY QueueIs, TaskIs DEF Typed
<1>2. QED
  BY <1>1 DEF Typed, Known

LEMMA DistinctKept ==
  ASSUME Typed, Distinct, server' \in Snapshots, Known' \subseteq Known \cup {server'},
         server' = server \/ server'.revision = server.revision + 1
  PROVE  Distinct'
<1>1. server \in Known /\ Known \subseteq Snapshots
  BY KnownIs DEF Known
<1>2. server.revision \in Nat /\ server'.revision \in Nat /\ \A x \in Known : x.revision \in Nat
  BY <1>1 DEF Snapshots
<1>3. CASE server' = server
  BY <1>1, <1>3 DEF Distinct
<1>4. CASE server'.revision = server.revision + 1
  <2>1. \A x \in Known : x.revision < server'.revision
    BY <1>2, <1>4 DEF Distinct
  <2>2. \A x \in Known' : x = server' \/ (x \in Known /\ x.revision < server'.revision)
    BY <2>1
  <2>3. QED
    BY <1>2, <2>2 DEF Distinct
<1>5. QED
  BY <1>3, <1>4

\* A step that only takes tasks and answers away.
LEMMA KnownShrinks ==
  ASSUME Typed, UNCHANGED server, shown' \in Known, poll' \in {Nothing, Sent} \cup Known,
         \A i \in DOMAIN queue' : queue'[i].base \in Known,
         stage' \in {"answered", "refreshed"} => response'.before \in Known /\ response'.snapshot \in Known
  PROVE  Known' \subseteq Known \cup {server'}
<1>1. server \in Known
  BY DEF Known
<1>2. QED
  BY <1>1 DEF Known

LEMMA KnownHas ==
  /\ server \in Known /\ shown \in Known
  /\ poll \notin {Nothing, Sent} => poll \in Known
  /\ \A i \in DOMAIN queue : queue[i].base \in Known
  /\ stage \in {"answered", "refreshed"} => response.before \in Known /\ response.snapshot \in Known
BY DEF Known

LEMMA DistinctStep == Typed /\ Distinct /\ [Next]_vars => Distinct'
<1> SUFFICES ASSUME Typed, Distinct, [Next]_vars PROVE Distinct'
  OBVIOUS
<1>0. /\ server \in Snapshots /\ queue \in Seq(Tasks)
      /\ server' \in Snapshots /\ shown \in Snapshots
      /\ stage \in {"answered", "refreshed"} => response.snapshot \in Snapshots
      /\ Nothing \notin Snapshots /\ Sent \notin Snapshots
  BY TypedStep, EditorAssumption DEF Typed
<1>has. /\ server \in Known /\ shown \in Known
        /\ poll \notin {Nothing, Sent} => poll \in Known
        /\ \A i \in DOMAIN queue : queue[i].base \in Known
        /\ stage \in {"answered", "refreshed"} => response.before \in Known /\ response.snapshot \in Known
  BY KnownHas
<1>tail. queue # << >> => \A i \in DOMAIN Tail(queue) : Tail(queue)[i].base \in Known
  BY <1>0, <1>has, QueueIs
<1>1. ASSUME \/ \E kind \in {"shape", "drag"}, painted \in Paintings : Edit(kind, painted)
             \/ \E c \in Cells, s \in States : Edit("paint", [x \in {c} |-> s])
             \/ Undo \/ Redo
      PROVE  Distinct'
  <2>1. PICK task \in Tasks : queue' = Append(queue, task) /\ task.base = shown
    BY <1>1, SubmitIs
  <2>2. UNCHANGED <<server, shown, undo, redo, stage, response, poll, faithful>>
    BY <1>1, SubmitIs
  <2>3. \A i \in DOMAIN queue' : queue'[i].base \in Known
    BY <1>0, <1>has, <2>1, QueueIs
  <2>4. Known' \subseteq Known \cup {server'}
    BY <1>has, <2>2, <2>3, KnownShrinks
  <2>5. QED
    BY <1>0, <2>2, <2>4, DistinctKept
<1>2. CASE Serve
  <2>1. Head(queue).cells \in Paintings
    BY <1>0, <1>2, QueueIs, TaskIs DEF Serve
  <2>2. server' = server \/ server'.revision = server.revision + 1
    BY <1>0, <1>2, <2>1, ServedIs DEF Serve
  <2>3. UNCHANGED <<shown, queue, poll>> /\ response' = [before |-> server, snapshot |-> server']
    BY <1>2 DEF Serve
  <2>4. Known' \subseteq Known \cup {server'}
    BY <1>has, <2>3 DEF Known
  <2>5. QED
    BY <1>0, <2>2, <2>4, DistinctKept
<1>3. ASSUME NEW c \in Cells, NEW s \in States, OtherClientEdits(c, s) PROVE Distinct'
  <2>1. [x \in {c} |-> s] \in Paintings
    <3>1. PICK S \in (SUBSET Cells) \ {{}} : S = {c}
      OBVIOUS
    <3>2. [x \in {c} |-> s] \in [S -> States]
      BY <3>1
    <3>3. QED
      BY <3>2 DEF Paintings
  <2>2. server' = server \/ server'.revision = server.revision + 1
    BY <1>0, <1>3, <2>1, ServedIs DEF OtherClientEdits
  <2>3. UNCHANGED <<shown, queue, stage, response, poll>>
    BY <1>3 DEF OtherClientEdits, runner
  <2>4. Known' \subseteq Known \cup {server'}
    BY <2>3 DEF Known
  <2>5. QED
    BY <1>0, <2>2, <2>4, DistinctKept
<1>4. CASE OtherClientSteps
  <2>2. server'.revision = server.revision + 1
    BY <1>0, <1>4 DEF OtherClientSteps, Snapshots
  <2>3. UNCHANGED <<shown, queue, stage, response, poll>>
    BY <1>4 DEF OtherClientSteps, runner
  <2>4. Known' \subseteq Known \cup {server'}
    BY <2>3 DEF Known
  <2>5. QED
    BY <1>0, <2>2, <2>4, DistinctKept
<1>5. CASE Answered
  <2>1. shown' = Newer(response.snapshot) /\ queue # << >> /\ stage = "answered"
        /\ queue' = Tail(queue) /\ stage' = "sent" /\ UNCHANGED <<server, poll>>
    BY <1>5, AnsweredIs
  <2>2. shown' \in Known
    BY <1>0, <1>has, <2>1, NewerIs
  <2>3. Known' \subseteq Known \cup {server'}
    BY <1>has, <1>tail, <2>1, <2>2, KnownShrinks
  <2>4. QED
    BY <1>0, <2>1, <2>3, DistinctKept
<1>6. CASE Fails
  <2>1. UNCHANGED <<server, shown, poll>> /\ queue # << >> /\ stage' \notin {"answered", "refreshed"}
        /\ queue' \in {queue, Tail(queue)}
    BY <1>6 DEF Fails, NextTask
  <2>2. Known' \subseteq Known \cup {server'}
    BY <1>has, <1>tail, <2>1, KnownShrinks
  <2>3. QED
    BY <1>0, <2>1, <2>2, DistinctKept
<1>7. CASE ServeRefresh
  <2>1. UNCHANGED <<server, shown, queue, poll>> /\ response' = [before |-> server, snapshot |-> server]
    BY <1>7 DEF ServeRefresh
  <2>2. Known' \subseteq Known \cup {server'}
    BY <1>has, <2>1, KnownShrinks
  <2>3. QED
    BY <1>0, <2>1, <2>2, DistinctKept
<1>8. CASE Refreshed
  <2>1. shown' = Newer(response.snapshot) /\ queue # << >> /\ stage = "refreshed"
        /\ queue' = Tail(queue) /\ stage' = "sent" /\ UNCHANGED <<server, poll>>
    BY <1>8 DEF Refreshed, ApplyExternal, NextTask, Typed
  <2>2. shown' \in Known
    BY <1>0, <1>has, <2>1, NewerIs
  <2>3. Known' \subseteq Known \cup {server'}
    BY <1>has, <1>tail, <2>1, <2>2, KnownShrinks
  <2>4. QED
    BY <1>0, <2>1, <2>3, DistinctKept
<1>9. CASE RefreshFails
  <2>1. UNCHANGED <<server, shown, poll>> /\ queue # << >> /\ stage' = "sent" /\ queue' = Tail(queue)
    BY <1>9 DEF RefreshFails, NextTask, Typed
  <2>2. Known' \subseteq Known \cup {server'}
    BY <1>has, <1>tail, <2>1, KnownShrinks
  <2>3. QED
    BY <1>0, <2>1, <2>2, DistinctKept
<1>10. CASE StartPoll \/ ServePoll
  <2>1. UNCHANGED <<server, shown, queue, stage, response>> /\ poll' \in {Sent, server}
    BY <1>10 DEF StartPoll, ServePoll, runner
  <2>2. Known' \subseteq Known \cup {server'}
    BY <1>has, <2>1, KnownShrinks
  <2>3. QED
    BY <1>0, <2>1, <2>2, DistinctKept
<1>11. CASE PollArrives
  <2>1. shown' = Newer(poll) /\ poll \in Snapshots /\ poll' = Nothing
        /\ UNCHANGED <<server, queue, stage, response>>
    BY <1>11 DEF PollArrives, ApplyExternal, runner, Typed
  <2>2. shown' \in Known
    BY <1>0, <1>has, <2>1, NewerIs
  <2>3. Known' \subseteq Known \cup {server'}
    BY <1>has, <2>1, <2>2, KnownShrinks
  <2>4. QED
    BY <1>0, <2>1, <2>3, DistinctKept
<1>12. CASE UNCHANGED vars
  BY <1>12 DEF Distinct, Known, vars, runner
<1>13. QED
  BY <1>1, <1>2, <1>3, <1>4, <1>5, <1>6, <1>7, <1>8, <1>9, <1>10, <1>11, <1>12 DEF Next

(***************************************************************************)
(* A command that met its board still does when it is applied.             *)
(***************************************************************************)

\* No entry leaves a board as it is.
LEMMA EntriesChange ==
  ASSUME NEW e \in Reversible, NEW board \in [Cells -> States]
  PROVE  /\ ~(Agrees(e.forward, board) /\ Overlaid(e.inverse, board) = board)
         /\ ~(Agrees(e.inverse, board) /\ Overlaid(e.forward, board) = board)
<1>1. PICK c \in Cells : c \in DOMAIN e.forward /\ c \in DOMAIN e.inverse
                         /\ e.forward[c] # e.inverse[c]
  BY EntryIs
<1>2. Overlaid(e.inverse, board)[c] = e.inverse[c] /\ Overlaid(e.forward, board)[c] = e.forward[c]
  BY <1>1 DEF Overlaid
<1>3. QED
  BY <1>1, <1>2 DEF Agrees

\* When a command that met its board is applied: the board is still shown, or it
\* came with a poll before and no undo or redo of it is waiting.
LEMMA MetIs ==
  ASSUME Typed, Steady, Answered, faithful'
  PROVE  /\ shown' = response.snapshot /\ response.before = Head(queue).base
         /\ Emptied \/ faithful
         /\ Head(queue).kind = "undo" => undo \in {Head(queue).stack, << >>}
         /\ Head(queue).kind = "redo" => redo \in {Head(queue).stack, << >>}
         /\ shown'.cells = Overlaid(Head(queue).cells, response.before.cells)
         /\ \/ shown = response.before
            \/ /\ shown = response.snapshot /\ Emptied
               /\ \A i \in DOMAIN queue :
                    queue[i].kind \in Steps => queue[i].base.revision < shown.revision
<1>1. /\ shown' = Newer(response.snapshot) /\ MetItsBoard(Head(queue)) /\ (Emptied \/ faithful)
      /\ response \in [before : Snapshots, snapshot : Snapshots] /\ Served(Head(queue), response)
      /\ stage = "answered"
  BY AnsweredIs
<1>2. /\ shown' = response.snapshot /\ response.before = Head(queue).base
      /\ Head(queue).kind = "undo" => undo \in {Head(queue).stack, << >>}
      /\ Head(queue).kind = "redo" => redo \in {Head(queue).stack, << >>}
  BY <1>1 DEF MetItsBoard
<1>3. shown \in Snapshots /\ response.snapshot \in Snapshots
  BY <1>1 DEF Typed
<1>4. ~(shown.revision > response.snapshot.revision)
  <2>1. shown.revision \in Nat /\ response.snapshot.revision \in Nat
    BY <1>3 DEF Snapshots
  <2>2. Newer(response.snapshot) = response.snapshot
    BY <1>1, <1>2
  <2>3. Newer(response.snapshot).revision >= shown.revision
    BY <1>3, NewerIs
  <2>4. QED
    BY <2>1, <2>2, <2>3
<1>5. QED
  BY <1>1, <1>2, <1>4 DEF Steady, Undisturbed, Served

\* Undo and redo move the entry they were asked for, from the stack they were
\* asked on, or find both stacks empty.
LEMMA UndoIs ==
  ASSUME Typed, Steady, Answered, faithful', Head(queue).kind = "undo"
  PROVE  \/ Emptied /\ Emptied'
         \/ /\ faithful /\ undo # << >> /\ shown = response.before
            /\ shown'.cells = Overlaid(Newest(undo).inverse, shown.cells)
            /\ undo' = Popped(undo) /\ redo' = Pushed(redo, Newest(undo))
<1>1. /\ shown' = response.snapshot /\ response.before = Head(queue).base
      /\ Emptied \/ faithful
      /\ undo \in {Head(queue).stack, << >>}
      /\ shown'.cells = Overlaid(Head(queue).cells, response.before.cells)
      /\ shown = response.before \/ Emptied
  BY MetIs
<1>2. queue # << >> /\ Head(queue) \in Tasks /\ Head(queue) = queue[1] /\ 1 \in DOMAIN queue
  BY AnsweredIs, QueueIs DEF Typed
<1>3. Head(queue).stack # << >> /\ Head(queue).entry = Newest(Head(queue).stack)
      /\ Head(queue).cells = Head(queue).entry.inverse
  BY <1>2, TaskIs DEF Computed, Steps
<1>4. CommitUndo
  BY AnsweredIs
<1>5. CASE Emptied
  BY <1>4, <1>5 DEF CommitUndo, Emptied, stacks
<1>6. CASE ~Emptied
  <2>1. faithful /\ shown = response.before
    BY <1>1, <1>6
  <2>2. undo = Head(queue).stack
    BY <1>1, <1>2, <1>6, <2>1 DEF Steady, InPlace
  <2>3. QED
    BY <1>1, <1>3, <1>4, <2>1, <2>2 DEF CommitUndo
<1>7. QED
  BY <1>5, <1>6

LEMMA RedoIs ==
  ASSUME Typed, Steady, Answered, faithful', Head(queue).kind = "redo"
  PROVE  \/ Emptied /\ Emptied'
         \/ /\ faithful /\ redo # << >> /\ shown = response.before
            /\ shown'.cells = Overlaid(Newest(redo).forward, shown.cells)
            /\ redo' = Popped(redo) /\ undo' = Pushed(undo, Newest(redo))
<1>1. /\ shown' = response.snapshot /\ response.before = Head(queue).base
      /\ Emptied \/ faithful
      /\ redo \in {Head(queue).stack, << >>}
      /\ shown'.cells = Overlaid(Head(queue).cells, response.before.cells)
      /\ shown = response.before \/ Emptied
  BY MetIs
<1>2. queue # << >> /\ Head(queue) \in Tasks /\ Head(queue) = queue[1] /\ 1 \in DOMAIN queue
  BY AnsweredIs, QueueIs DEF Typed
<1>3. Head(queue).stack # << >> /\ Head(queue).entry = Newest(Head(queue).stack)
      /\ Head(queue).cells = Head(queue).entry.forward
  BY <1>2, TaskIs DEF Computed, Steps
<1>4. CommitRedo
  BY AnsweredIs
<1>5. CASE Emptied
  BY <1>4, <1>5 DEF CommitRedo, Emptied, stacks
<1>6. CASE ~Emptied
  <2>1. faithful /\ shown = response.before
    BY <1>1, <1>6
  <2>2. redo = Head(queue).stack
    BY <1>1, <1>2, <1>6, <2>1 DEF Steady, InPlace
  <2>3. QED
    BY <1>1, <1>3, <1>4, <2>1, <2>2 DEF CommitRedo
<1>7. QED
  BY <1>5, <1>6

\* An edit that met its board changes it.
LEMMA EditMet ==
  ASSUME Typed, Steady, Answered, faithful', Head(queue).kind \in Edits
  PROVE  LET entry == Head(queue).entry
         IN  /\ entry \in Reversible
             /\ Agrees(entry.inverse, response.before.cells)
             /\ shown'.cells = Overlaid(entry.forward, response.before.cells)
<1>1. response.before = Head(queue).base
      /\ shown'.cells = Overlaid(Head(queue).cells, response.before.cells)
  BY MetIs
<1>2. Head(queue) \in Tasks
  BY AnsweredIs
<1>3. QED
  BY <1>1, <1>2, TaskIs DEF Computed

\* What is shown has changed, or the stacks have been emptied, whenever a command
\* that met its board is applied.
LEMMA CommandsChange ==
  ASSUME Typed, Steady, HistoryFits, Answered, faithful', shown = response.before
  PROVE  shown' # shown \/ Emptied'
<1>1. shown.cells \in [Cells -> States] /\ undo \in Stacks /\ redo \in Stacks
  BY DEF Typed, Snapshots
<1>2. Head(queue).kind \in Steps \cup Edits
  BY AnsweredIs, TaskIs
<1>3. CASE Head(queue).kind = "undo"
  <2>1. SUFFICES ASSUME ~Emptied' PROVE shown' # shown
    OBVIOUS
  <2>2. faithful /\ undo # << >> /\ shown'.cells = Overlaid(Newest(undo).inverse, shown.cells)
    BY <1>3, <2>1, UndoIs
  <2>3. Fits(undo, "forward", "inverse", shown.cells) /\ undo \in Seq(Reversible)
        /\ Newest(undo) \in Reversible
    BY <1>1, <2>2, StackIs DEF HistoryFits
  <2>4. Agrees(Newest(undo)["forward"], shown.cells)
    BY <2>2, <2>3, PopFits
  <2>5. Agrees(Newest(undo).forward, shown.cells)
    BY <2>4
  <2>6. QED
    BY <1>1, <2>2, <2>3, <2>5, EntriesChange
<1>4. CASE Head(queue).kind = "redo"
  <2>1. SUFFICES ASSUME ~Emptied' PROVE shown' # shown
    OBVIOUS
  <2>2. faithful /\ redo # << >> /\ shown'.cells = Overlaid(Newest(redo).forward, shown.cells)
    BY <1>4, <2>1, RedoIs
  <2>3. Fits(redo, "inverse", "forward", shown.cells) /\ redo \in Seq(Reversible)
        /\ Newest(redo) \in Reversible
    BY <1>1, <2>2, StackIs DEF HistoryFits
  <2>4. Agrees(Newest(redo)["inverse"], shown.cells)
    BY <2>2, <2>3, PopFits
  <2>5. Agrees(Newest(redo).inverse, shown.cells)
    BY <2>4
  <2>6. QED
    BY <1>1, <2>2, <2>3, <2>5, EntriesChange
<1>5. CASE Head(queue).kind \in Edits
  BY <1>1, <1>5, EditMet, EntriesChange
<1>6. QED
  BY <1>2, <1>3, <1>4, <1>5 DEF Steps

LEMMA ShownRises ==
  ASSUME Typed, [Next]_vars
  PROVE  shown.revision \in Nat /\ shown'.revision \in Nat /\ shown'.revision >= shown.revision
<1>1. shown \in Snapshots /\ shown' \in Snapshots
  BY TypedStep DEF Typed
<1>2. shown.revision \in Nat /\ shown'.revision \in Nat
  BY <1>1 DEF Snapshots
<1>3. CASE Answered
  <2>1. PICK s \in Snapshots : shown' = Newer(s)
    BY <1>3, AnsweredIs
  <2>2. Newer(s).revision >= shown.revision
    BY <1>1, <2>1, NewerIs
  <2>3. QED
    BY <1>2, <2>1, <2>2
<1>4. CASE Refreshed
  <2>1. PICK s \in Snapshots : shown' = Newer(s)
    BY <1>4 DEF Refreshed, ApplyExternal, Typed
  <2>2. Newer(s).revision >= shown.revision
    BY <1>1, <2>1, NewerIs
  <2>3. QED
    BY <1>2, <2>1, <2>2
<1>5. CASE PollArrives
  <2>1. PICK s \in Snapshots : shown' = Newer(s)
    BY <1>5 DEF PollArrives, ApplyExternal, Typed
  <2>2. Newer(s).revision >= shown.revision
    BY <1>1, <2>1, NewerIs
  <2>3. QED
    BY <1>2, <2>1, <2>2
<1>6. ASSUME ~Answered, ~Refreshed, ~PollArrives
      PROVE  shown' = shown
  BY <1>6 DEF Next, Edit, Undo, Redo, Submit, Serve, Fails, ServeRefresh, RefreshFails,
     StartPoll, ServePoll, OtherClientEdits, OtherClientSteps, vars
<1>7. QED
  BY <1>2, <1>3, <1>4, <1>5, <1>6

\* The queue only loses its head or gains a command computed now.
LEMMA QueueMoves ==
  ASSUME Typed, [Next]_vars
  PROVE  \A i \in DOMAIN queue' :
            \/ \E j \in DOMAIN queue : queue'[i] = queue[j]
            \/ /\ queue'[i].base = shown
               /\ queue'[i].kind = "undo" => queue'[i].stack = undo /\ undo # << >>
               /\ queue'[i].kind = "redo" => queue'[i].stack = redo /\ redo # << >>
               /\ UNCHANGED <<server, shown, undo, redo, stage, response, poll, faithful>>
<1>0. queue \in Seq(Tasks)
  BY DEF Typed
<1>1. CASE \/ \E kind \in {"shape", "drag"}, painted \in Paintings : Edit(kind, painted)
           \/ \E c \in Cells, s \in States : Edit("paint", [x \in {c} |-> s])
           \/ Undo \/ Redo
  <2>1. PICK task \in Tasks : /\ queue' = Append(queue, task) /\ task.base = shown
                              /\ task.kind = "undo" => task.stack = undo /\ undo # << >>
                              /\ task.kind = "redo" => task.stack = redo /\ redo # << >>
    BY <1>1, SubmitIs
  <2>2. UNCHANGED <<server, shown, undo, redo, stage, response, poll, faithful>>
    BY <1>1, SubmitIs
  <2>3. \A i \in DOMAIN queue' : queue'[i] = task \/ (i \in DOMAIN queue /\ queue'[i] = queue[i])
    BY <1>0, <2>1, QueueIs
  <2>4. QED
    BY <2>1, <2>2, <2>3
<1>2. ASSUME queue # << >>, queue' = Tail(queue)
      PROVE  \A i \in DOMAIN queue' : \E j \in DOMAIN queue : queue'[i] = queue[j]
  BY <1>0, <1>2, QueueIs
<1>3. CASE Answered \/ Fails \/ Refreshed \/ RefreshFails
  <2>1. queue # << >> /\ queue' \in {queue, Tail(queue)}
    BY <1>3 DEF Answered, Fails, Refreshed, RefreshFails, NextTask, Typed
  <2>2. QED
    BY <1>2, <2>1
<1>4. CASE \/ Serve \/ ServeRefresh \/ StartPoll \/ ServePoll \/ PollArrives \/ OtherClientSteps
           \/ UNCHANGED vars \/ \E c \in Cells, s \in States : OtherClientEdits(c, s)
  <2>1. queue' = queue
    BY <1>4 DEF Serve, ServeRefresh, StartPoll, ServePoll, PollArrives, OtherClientSteps,
       OtherClientEdits, vars, runner
  <2>2. QED
    BY <2>1
<1>5. QED
  BY <1>1, <1>3, <1>4 DEF Next

LEMMA PastStep == Typed /\ Steady /\ [Next]_vars => FromThePast'
<1> SUFFICES ASSUME Typed, Steady, [Next]_vars, NEW i \in DOMAIN queue'
             PROVE  queue'[i].base.revision <= shown'.revision
  BY DEF FromThePast
<1>1. shown.revision \in Nat /\ shown'.revision \in Nat /\ shown'.revision >= shown.revision
  BY ShownRises
<1>2. \A j \in DOMAIN queue : queue[j].base.revision \in Nat /\ queue[j].base.revision <= shown.revision
  BY QueueIs, TaskIs DEF Typed, Steady, FromThePast, Snapshots
<1>3. queue'[i].base = shown \/ \E j \in DOMAIN queue : queue'[i] = queue[j]
  BY QueueMoves
<1>4. QED
  BY <1>1, <1>2, <1>3

\* A snapshot of others keeps the stacks with what is shown, or empties them.
LEMMA SnapshotIs ==
  ASSUME Typed, Steady, Refreshed \/ PollArrives
  PROVE  /\ shown' = shown => UNCHANGED <<undo, redo, faithful>>
         /\ \/ UNCHANGED <<undo, redo, faithful>> /\ shown'.cells = shown.cells
            \/ undo' = << >> /\ redo' = << >>
<1>1. PICK s \in Snapshots : ApplyExternal(s)
  BY DEF Refreshed, PollArrives, Typed
<1>2. QED
  BY <1>1, ExternalIs

LEMMA UndisturbedStep == Typed /\ Steady /\ [Next]_vars => Undisturbed'
<1> SUFFICES ASSUME Typed, Steady, [Next]_vars, stage' = "answered",
                    response'.before = Head(queue').base
             PROVE  \/ shown' = response'.before
                    \/ shown'.revision > response'.snapshot.revision
                    \/ /\ shown' = response'.snapshot /\ Emptied'
                       /\ \A i \in DOMAIN queue' :
                            queue'[i].kind \in Steps => queue'[i].base.revision < shown'.revision
  BY DEF Undisturbed
<1>typed. /\ shown \in Snapshots /\ shown' \in Snapshots /\ server \in Snapshots
          /\ shown.revision \in Nat /\ shown'.revision \in Nat
  BY TypedStep DEF Typed, Snapshots
<1>1. CASE Serve
  <2>1. response'.before = server /\ queue' = queue /\ queue # << >> /\ shown' = shown
    BY <1>1 DEF Serve
  <2>2. Head(queue).base.revision <= shown.revision
    BY <2>1, QueueIs DEF Typed, Steady, FromThePast
  <2>3. server.revision = shown.revision
    <3>1. shown.revision <= server.revision
      BY DEF Steady, Distinct, Known
    <3>2. QED
      BY <1>typed, <2>1, <2>2, <3>1 DEF Snapshots
  <2>4. server = shown
    BY <2>3 DEF Steady, Distinct, Known
  <2>5. QED
    BY <2>1, <2>4
<1>2. CASE PollArrives
  <2>1. /\ UNCHANGED <<queue, stage, response>> /\ queue # << >>
        /\ response.before = Head(queue).base
    BY <1>2 DEF PollArrives, runner, Typed
  <2>2. CASE shown' = shown
    <3>1. UNCHANGED <<undo, redo, faithful>>
      BY <1>2, <2>2, SnapshotIs
    <3>2. QED
      BY <2>1, <2>2, <3>1 DEF Steady, Undisturbed, Emptied
  <2>3. CASE shown' # shown
    <3>1. shown' \in Known /\ shown'.revision > shown.revision
      <4>1. shown' \in Known' /\ shown \in Known /\ poll \in Known
        BY <1>2 DEF Known, PollArrives
      <4>2. shown' \in Known
        <5>1. PICK s \in Snapshots : s = poll /\ shown' = Newer(s)
          BY <1>2 DEF PollArrives, ApplyExternal, Typed
        <5>2. QED
          BY <1>typed, <4>1, <5>1, NewerIs
      <4>3. shown'.revision >= shown.revision
        BY ShownRises
      <4>4. shown'.revision # shown.revision
        BY <2>3, <4>1, <4>2 DEF Steady, Distinct
      <4>5. QED
        BY <1>typed, <4>2, <4>3, <4>4
    <3>2. /\ response.before \in Known /\ response.snapshot \in Known
          /\ response.before.revision \in Nat /\ response.snapshot.revision \in Nat
          /\ Served(Head(queue), response)
      BY <2>1 DEF Known, Typed, Snapshots
    <3>3. CASE shown.revision > response.snapshot.revision
      BY <1>typed, <2>1, <3>1, <3>2, <3>3
    <3>4. CASE shown = response.snapshot
      BY <1>typed, <2>1, <3>1, <3>2, <3>4
    <3>5. CASE shown = response.before
      <4>1. CASE response.snapshot = response.before
        BY <1>typed, <2>1, <3>1, <3>5, <4>1
      <4>2. CASE response.snapshot # response.before
        <5>1. response.snapshot.revision = response.before.revision + 1
              /\ response.snapshot.cells # response.before.cells
          BY <3>2, <4>2 DEF Served
        <5>2. CASE shown'.revision > response.snapshot.revision
          BY <2>1, <5>2
        <5>3. CASE ~(shown'.revision > response.snapshot.revision)
          <6>1. shown'.revision = response.snapshot.revision
            BY <1>typed, <3>1, <3>2, <3>5, <5>1, <5>3
          <6>2. shown' = response.snapshot
            BY <3>1, <3>2, <6>1 DEF Steady, Distinct
          <6>3. Emptied'
            BY <1>2, <3>5, <5>1, <6>2, SnapshotIs DEF Emptied
          <6>4. \A i \in DOMAIN queue : queue[i].base.revision < shown'.revision
            <7>1. \A i \in DOMAIN queue : queue[i].base.revision \in Nat
                                          /\ queue[i].base.revision <= shown.revision
              BY QueueIs, TaskIs DEF Typed, Steady, FromThePast, Snapshots
            <7>2. QED
              BY <1>typed, <3>1, <7>1
          <6>5. QED
            BY <2>1, <6>2, <6>3, <6>4
        <5>4. QED
          BY <5>2, <5>3
      <4>3. QED
        BY <4>1, <4>2
    <3>6. QED
      BY <2>1, <3>3, <3>4, <3>5 DEF Steady, Undisturbed
  <2>4. QED
    BY <2>2, <2>3
<1>3. CASE ~Serve /\ ~PollArrives
  <2>1. UNCHANGED <<shown, undo, redo, stage, response>> /\ queue # << >>
        /\ Head(queue') = Head(queue)
    <3>1. CASE \/ \E kind \in {"shape", "drag"}, painted \in Paintings : Edit(kind, painted)
               \/ \E c \in Cells, s \in States : Edit("paint", [x \in {c} |-> s])
               \/ Undo \/ Redo
      <4>1. PICK task \in Tasks : queue' = Append(queue, task)
        BY <3>1, SubmitIs
      <4>2. UNCHANGED <<shown, undo, redo, stage, response>>
        BY <3>1, SubmitIs
      <4>3. QED
        BY <4>1, <4>2, QueueIs DEF Typed
    <3>2. CASE StartPoll \/ ServePoll \/ OtherClientSteps \/ UNCHANGED vars
               \/ \E c \in Cells, s \in States : OtherClientEdits(c, s)
      <4>1. UNCHANGED <<shown, undo, redo, stage, response, queue>>
        BY <3>2 DEF StartPoll, ServePoll, OtherClientSteps, OtherClientEdits, vars, runner, stacks
      <4>2. QED
        BY <4>1 DEF Typed
    <3>3. CASE Answered \/ Fails \/ ServeRefresh \/ Refreshed \/ RefreshFails
      BY <3>3 DEF Answered, Fails, ServeRefresh, Refreshed, RefreshFails, NextTask
    <3>4. QED
      BY <1>3, <3>1, <3>2, <3>3 DEF Next
  <2>2. ASSUME shown = response.snapshot, Emptied,
               \A i \in DOMAIN queue : queue[i].kind \in Steps => queue[i].base.revision < shown.revision
        PROVE  \A i \in DOMAIN queue' :
                 queue'[i].kind \in Steps => queue'[i].base.revision < shown'.revision
    <3>1. \A i \in DOMAIN queue' : \/ \E j \in DOMAIN queue : queue'[i] = queue[j]
                                   \/ queue'[i].kind \notin Steps
      BY <2>2, QueueMoves DEF Emptied, Steps
    <3>2. QED
      BY <2>1, <2>2, <3>1
  <2>3. QED
    BY <2>1, <2>2 DEF Steady, Undisturbed, Emptied
<1>4. QED
  BY <1>1, <1>2, <1>3

LEMMA InPlaceStep == Typed /\ Steady /\ HistoryFits /\ [Next]_vars => InPlace'
<1> SUFFICES ASSUME Typed, Steady, HistoryFits, [Next]_vars, NEW i \in DOMAIN queue', faithful',
                    queue'[i].base.revision = shown'.revision
             PROVE  /\ queue'[i].kind = "undo" => undo' = queue'[i].stack \/ Emptied'
                    /\ queue'[i].kind = "redo" => redo' = queue'[i].stack \/ Emptied'
  BY DEF InPlace
<1>1. shown.revision \in Nat /\ shown'.revision \in Nat /\ shown'.revision >= shown.revision
  BY ShownRises
<1>2. ASSUME UNCHANGED <<shown, undo, redo, faithful>>
      PROVE  /\ queue'[i].kind = "undo" => undo' = queue'[i].stack \/ Emptied'
             /\ queue'[i].kind = "redo" => redo' = queue'[i].stack \/ Emptied'
  <2>1. CASE \E j \in DOMAIN queue : queue'[i] = queue[j]
    BY <1>2, <2>1 DEF Steady, InPlace, Emptied
  <2>2. CASE ~ \E j \in DOMAIN queue : queue'[i] = queue[j]
    BY <1>2, <2>2, QueueMoves
  <2>3. QED
    BY <2>1, <2>2
<1>3. CASE Answered
  <2>1. PICK j \in DOMAIN queue : queue'[i] = queue[j]
    <3>1. queue # << >> /\ queue' = Tail(queue)
      BY <1>3, AnsweredIs
    <3>2. QED
      BY <3>1, QueueIs DEF Typed
  <2>2. queue[j].base.revision \in Nat /\ queue[j].base.revision <= shown.revision
    BY QueueIs, TaskIs DEF Typed, Steady, FromThePast, Snapshots
  <2>3. shown'.revision = shown.revision
    BY <1>1, <2>1, <2>2
  <2>4. shown' = shown
    <3>1. shown' = response.snapshot /\ stage = "answered"
      BY <1>3, MetIs, AnsweredIs
    <3>2. response.snapshot \in Known /\ shown \in Known
      BY <3>1 DEF Known
    <3>3. QED
      BY <2>3, <3>1, <3>2 DEF Steady, Distinct
  <2>5. CASE shown = response.before
    BY <1>3, <2>4, <2>5, CommandsChange
  <2>6. CASE shown # response.before
    <3>1. queue[j].kind \in Steps => queue[j].base.revision < shown.revision
      BY <1>3, <2>6, MetIs
    <3>2. queue[j].kind \notin Steps
      BY <1>1, <2>1, <2>2, <2>3, <3>1
    <3>3. QED
      BY <2>1, <3>2 DEF Steps
  <2>7. QED
    BY <2>5, <2>6
<1>4. CASE Refreshed \/ PollArrives
  <2>1. CASE shown' = shown
    BY <1>2, <1>4, <2>1, SnapshotIs
  <2>2. CASE undo' = << >> /\ redo' = << >>
    BY <2>2 DEF Emptied
  <2>3. CASE shown' # shown /\ ~(undo' = << >> /\ redo' = << >>)
    <3>1. PICK j \in DOMAIN queue : queue'[i] = queue[j]
      BY <1>4, <2>3, QueueMoves
    <3>2. queue[j].base.revision \in Nat /\ queue[j].base.revision <= shown.revision
      BY QueueIs, TaskIs DEF Typed, Steady, FromThePast, Snapshots
    <3>3. shown'.revision = shown.revision
      BY <1>1, <3>1, <3>2
    <3>4. shown' \in Known /\ shown \in Known
      <4>1. response.snapshot \in Known \/ PollArrives
        BY <1>4 DEF Known, Refreshed
      <4>2. poll \in Known \/ Refreshed
        BY <1>4 DEF Known, PollArrives
      <4>3. PICK s \in Snapshots : s \in Known /\ shown' = Newer(s)
        BY <1>4, <4>1, <4>2 DEF Refreshed, PollArrives, ApplyExternal, Typed
      <4>4. shown \in Known /\ shown \in Snapshots
        BY DEF Known, Typed
      <4>5. QED
        BY <4>3, <4>4, NewerIs
    <3>5. QED
      BY <2>3, <3>3, <3>4 DEF Steady, Distinct
  <2>4. QED
    BY <2>1, <2>2, <2>3
<1>5. CASE ~Answered /\ ~Refreshed /\ ~PollArrives
  <2>1. UNCHANGED <<shown, undo, redo, faithful>>
    BY <1>5 DEF Next, Edit, Undo, Redo, Submit, Serve, Fails, ServeRefresh, RefreshFails,
       StartPoll, ServePoll, OtherClientEdits, OtherClientSteps, vars, stacks
  <2>2. QED
    BY <1>2, <2>1
<1>6. QED
  BY <1>3, <1>4, <1>5

(***************************************************************************)
(* The stacks describe the board.                                          *)
(***************************************************************************)

\* An entry sets its cells, and its other side sets them back.
LEMMA ThereAndBack ==
  ASSUME NEW e \in Reversible, NEW board \in [Cells -> States]
  PROVE  /\ Agrees(e.forward, board) =>
              /\ Agrees(e.inverse, Overlaid(e.inverse, board))
              /\ Overlaid(e.forward, Overlaid(e.inverse, board)) = board
         /\ Agrees(e.inverse, board) =>
              /\ Agrees(e.forward, Overlaid(e.forward, board))
              /\ Overlaid(e.inverse, Overlaid(e.forward, board)) = board
<1>1. DOMAIN e.forward = DOMAIN e.inverse /\ DOMAIN e.forward \subseteq Cells
  BY EntryIs
<1>2. QED
  BY <1>1 DEF Agrees, Overlaid

LEMMA EmptiedFits ==
  ASSUME shown.cells \in [Cells -> States], Emptied
  PROVE  HistoryFits
BY EmptyFits DEF Emptied, HistoryFits

LEMMA FitsStep == Typed /\ Steady /\ HistoryFits /\ [Next]_vars => HistoryFits'
<1> SUFFICES ASSUME Typed, Steady, HistoryFits, [Next]_vars, faithful'
             PROVE  /\ Fits(undo', "forward", "inverse", shown'.cells)
                    /\ Fits(redo', "inverse", "forward", shown'.cells)
  BY DEF HistoryFits
<1>0. /\ shown.cells \in [Cells -> States] /\ shown'.cells \in [Cells -> States]
      /\ undo \in Seq(Reversible) /\ redo \in Seq(Reversible)
      /\ Len(undo) <= MaxEditorHistory /\ Len(redo) <= MaxEditorHistory
  BY TypedStep, StackIs DEF Typed, Snapshots
<1>1. CASE undo' = << >> /\ redo' = << >>
  BY <1>0, <1>1, EmptyFits
<1>2. CASE UNCHANGED <<undo, redo, faithful>> /\ shown'.cells = shown.cells
  BY <1>2 DEF HistoryFits
<1>3. CASE Answered
  <2>1. CASE Head(queue).kind = "undo" /\ ~Emptied'
    <3>1. /\ faithful /\ undo # << >>
          /\ shown'.cells = Overlaid(Newest(undo).inverse, shown.cells)
          /\ undo' = Popped(undo) /\ redo' = Pushed(redo, Newest(undo))
      BY <1>3, <2>1, UndoIs
    <3>2. Newest(undo) \in Reversible
      BY <3>1, StackIs DEF Typed
    <3>3. Fits(undo, "forward", "inverse", shown.cells) /\ Fits(redo, "inverse", "forward", shown.cells)
      BY <3>1 DEF HistoryFits
    <3>4. /\ Agrees(Newest(undo)["forward"], shown.cells)
          /\ Fits(Popped(undo), "forward", "inverse", Overlaid(Newest(undo)["inverse"], shown.cells))
      BY <1>0, <3>1, <3>3, PopFits
    <3>5. /\ Agrees(Newest(undo)["inverse"], shown'.cells)
          /\ Overlaid(Newest(undo)["forward"], shown'.cells) = shown.cells
      BY <1>0, <3>1, <3>2, <3>4, ThereAndBack
    <3>6. Fits(Pushed(redo, Newest(undo)), "inverse", "forward", shown'.cells)
      BY <1>0, <3>2, <3>3, <3>5, PushFits
    <3>7. QED
      BY <3>1, <3>4, <3>6
  <2>2. CASE Head(queue).kind = "redo" /\ ~Emptied'
    <3>1. /\ faithful /\ redo # << >>
          /\ shown'.cells = Overlaid(Newest(redo).forward, shown.cells)
          /\ redo' = Popped(redo) /\ undo' = Pushed(undo, Newest(redo))
      BY <1>3, <2>2, RedoIs
    <3>2. Newest(redo) \in Reversible
      BY <3>1, StackIs DEF Typed
    <3>3. Fits(undo, "forward", "inverse", shown.cells) /\ Fits(redo, "inverse", "forward", shown.cells)
      BY <3>1 DEF HistoryFits
    <3>4. /\ Agrees(Newest(redo)["inverse"], shown.cells)
          /\ Fits(Popped(redo), "inverse", "forward", Overlaid(Newest(redo)["forward"], shown.cells))
      BY <1>0, <3>1, <3>3, PopFits
    <3>5. /\ Agrees(Newest(redo)["forward"], shown'.cells)
          /\ Overlaid(Newest(redo)["inverse"], shown'.cells) = shown.cells
      BY <1>0, <3>1, <3>2, <3>4, ThereAndBack
    <3>6. Fits(Pushed(undo, Newest(redo)), "forward", "inverse", shown'.cells)
      BY <1>0, <3>2, <3>3, <3>5, PushFits
    <3>7. QED
      BY <3>1, <3>4, <3>6
  <2>3. CASE Head(queue).kind \in Edits
    <3> DEFINE e == Head(queue).entry
               before == response.before.cells
    <3>1. /\ e \in Reversible /\ Agrees(e.inverse, before)
          /\ shown'.cells = Overlaid(e.forward, before)
      BY <1>3, <2>3, EditMet
    <3>2. before \in [Cells -> States] /\ undo' = Pushed(undo, e) /\ redo' = << >>
      BY <1>3, <2>3, AnsweredIs DEF PushUndoEntry, Snapshots
    <3>3. Fits(undo, "forward", "inverse", before)
      <4>1. CASE Emptied
        BY <3>2, <4>1, EmptyFits DEF Emptied
      <4>2. CASE ~Emptied
        <5>1. faithful /\ shown = response.before
          BY <1>3, <4>2, MetIs
        <5>2. QED
          BY <5>1 DEF HistoryFits
      <4>3. QED
        BY <4>1, <4>2
    <3>4. Agrees(e["forward"], shown'.cells) /\ Overlaid(e["inverse"], shown'.cells) = before
      BY <3>1, <3>2, ThereAndBack
    <3> HIDE DEF e, before
    <3>5. Fits(Pushed(undo, e), "forward", "inverse", shown'.cells)
      BY <1>0, <3>1, <3>2, <3>3, <3>4, PushFits
    <3>6. QED
      BY <1>0, <3>2, <3>5, EmptyFits
  <2>4. Head(queue).kind \in Steps \cup Edits
    BY <1>3, AnsweredIs, TaskIs
  <2>5. QED
    BY <1>1, <2>1, <2>2, <2>3, <2>4 DEF Steps, Emptied
<1>4. CASE Refreshed \/ PollArrives
  BY <1>1, <1>2, <1>4, SnapshotIs
<1>5. CASE ~Answered /\ ~Refreshed /\ ~PollArrives
  <2>1. UNCHANGED <<shown, undo, redo, faithful>>
    BY <1>5 DEF Next, Edit, Undo, Redo, Submit, Serve, Fails, ServeRefresh, RefreshFails,
       StartPoll, ServePoll, OtherClientEdits, OtherClientSteps, vars, stacks
  <2>2. QED
    BY <1>2, <2>1
<1>6. QED
  BY <1>3, <1>4, <1>5

LEMMA EditorInvInit == Init => EditorInv
<1> SUFFICES ASSUME Init PROVE EditorInv
  OBVIOUS
<1>1. Typed
  BY TypedInit
<1>2. queue = << >> /\ stage = "sent" /\ poll = Nothing /\ shown = server /\ Emptied
  BY DEF Init, Emptied
<1>3. Known = {server} /\ server.revision \in Nat
  BY <1>1, <1>2 DEF Known, Typed, Snapshots
<1>4. Distinct
  BY <1>3 DEF Distinct
<1>5. FromThePast /\ Undisturbed /\ InPlace
  BY <1>2 DEF FromThePast, Undisturbed, InPlace
<1>6. HistoryFits
  BY <1>1, <1>2, EmptiedFits DEF Typed, Snapshots
<1>7. QED
  BY <1>1, <1>4, <1>5, <1>6 DEF EditorInv, Steady

LEMMA EditorInvStep == EditorInv /\ [Next]_vars => EditorInv'
BY TypedStep, DistinctStep, PastStep, UndisturbedStep, InPlaceStep, FitsStep DEF EditorInv, Steady

\* The stacks are well formed, within their limit, and describe the board shown
\* (EditorHistory!EditorConsistent), for boards of any cells and states, histories
\* of any length and any number of commands, polls, failures and changes by others:
\* as long as each command met the board and the stack it was computed from, undo and
\* redo lead through boards the user has seen.
THEOREM HistoryDescribesBoard == Spec => []EditorConsistent
<1>1. EditorInv => EditorConsistent
  <2> SUFFICES ASSUME EditorInv PROVE EditorTypeOK
    BY DEF EditorInv, EditorConsistent
  <2>1. /\ undo \in Seq(Reversible) /\ redo \in Seq(Reversible)
        /\ Len(undo) <= MaxEditorHistory /\ Len(redo) <= MaxEditorHistory
    BY StackIs DEF EditorInv, Typed
  <2>2. \A stack \in Seq(Reversible) : Range(stack) \subseteq Entries
    BY DEF Range, Reversible
  <2>3. QED
    BY <2>1, <2>2 DEF EditorInv, Typed, Snapshots, EditorTypeOK
<1>2. QED
  BY <1>1, EditorInvInit, EditorInvStep, PTL DEF Spec

==============================================================================
