--------------------------- MODULE Simulation_proof ---------------------------
(***************************************************************************)
(* Theorems about the backend's simulation: the service and its clients    *)
(* behind the snapshot cache (SimulationService, HttpBackend), and the     *)
(* evolution of a board under a rule (Trajectory, with the rules and the   *)
(* regular tilings), each for all values of its constants.                 *)
(***************************************************************************)
EXTENDS HttpBackend, Trajectory, FiniteSetTheorems, WellFoundedInduction, TLAPS

(***************************************************************************)
(* The service and its clients.                                            *)
(***************************************************************************)

(***************************************************************************)
(* The service: a state is legal when its board is over the cells of its   *)
(* topology and holds states of its rule.                                  *)
(***************************************************************************)

Legal(s) == s \in StateRecords /\ s.cells \in Boards(s.topology, s.rule)

\* A state is its fields.
LEMMA SameState ==
  ASSUME NEW s \in StateRecords, NEW q \in StateRecords,
         s.epoch = q.epoch, s.revision = q.revision, s.running = q.running,
         s.generation = q.generation, s.topology = q.topology, s.cells = q.cells,
         s.rule = q.rule, s.speed = q.speed
  PROVE  s = q
<1>1. ASSUME NEW x \in StateRecords
      PROVE  x = [epoch |-> x.epoch, revision |-> x.revision, running |-> x.running,
                  generation |-> x.generation, topology |-> x.topology, cells |-> x.cells,
                  rule |-> x.rule, speed |-> x.speed]
  BY <1>1 DEF StateRecords
<1>2. QED
  BY <1>1

LEMMA BoardTypes ==
  ASSUME NEW t \in Topologies, NEW r \in Rules, NEW u \in Topologies, NEW q \in Rules,
         NEW grid \in Boards(t, r)
  PROVE  /\ Transferred(grid, u) \in Boards(u, r)
         /\ Coerced(grid, q) \in Boards(t, q)
BY DomainAssumption DEF Boards, Transferred, Coerced

\* The type of the cells in a state does not depend on its rule.
LEMMA BoardInType ==
  ASSUME NEW t \in Topologies, NEW r \in Rules, NEW grid \in Boards(t, r)
  PROVE  grid \in UNION {[CellsOf[u] -> CellStates] : u \in Topologies}
<1>1. StatesOf[r] \subseteq CellStates
  BY DEF CellStates
<1>2. grid \in [CellsOf[t] -> CellStates]
  BY <1>1 DEF Boards
<1>3. QED
  BY <1>2

LEMMA BumpedLegal ==
  ASSUME NEW s, Legal(s), s.revision < MaxRevision
  PROVE  Legal(Bumped(s))
BY DomainAssumption DEF Legal, Bumped, StateRecords, Epochs
\* What a call does to a state: nothing, or a change and one revision more.
Counts(s, next) ==
    next = s \/ (next.epoch = s.epoch /\ next.revision = s.revision + 1)

LEMMA StartedLegal ==
  ASSUME NEW s, Legal(s), s.revision < MaxRevision
  PROVE  Legal(Started(s)) /\ Counts(s, Started(s))
<1>1. Legal([s EXCEPT !.running = TRUE])
  BY DEF Legal, StateRecords
<1>2. QED
  BY <1>1, BumpedLegal DEF Started, Counts, Bumped, Legal, StateRecords

LEMMA PausedLegal ==
  ASSUME NEW s, Legal(s), s.revision < MaxRevision
  PROVE  Legal(Paused(s)) /\ Counts(s, Paused(s))
<1>1. Legal([s EXCEPT !.running = FALSE])
  BY DEF Legal, StateRecords
<1>2. QED
  BY <1>1, BumpedLegal DEF Paused, Counts, Bumped, Legal, StateRecords

LEMMA StepBoardLegal ==
  ASSUME NEW s, Legal(s), NEW grid \in Boards(s.topology, s.rule)
  PROVE  Legal(StepBoard(s, grid)) /\ StepBoard(s, grid).epoch = s.epoch
         /\ StepBoard(s, grid).revision = s.revision
<1>1. s \in StateRecords /\ s.topology \in Topologies /\ s.rule \in Rules
      /\ s.generation \in Nat
  BY DEF Legal, StateRecords
<1>2. PICK g \in Nat : g = s.generation + 1
  BY <1>1
<1>3. StepBoard(s, grid) = [s EXCEPT !.cells = grid, !.generation = g]
  BY <1>1, <1>2 DEF StepBoard, StateRecords
<1>4. grid \in UNION {[CellsOf[u] -> CellStates] : u \in Topologies}
  BY <1>1, BoardInType
<1>5. [s EXCEPT !.cells = grid, !.generation = g] \in StateRecords
  BY <1>1, <1>2, <1>4 DEF StateRecords
<1>6. LET n == [s EXCEPT !.cells = grid, !.generation = g]
      IN  n.epoch = s.epoch /\ n.revision = s.revision /\ n.topology = s.topology
          /\ n.rule = s.rule /\ n.cells = grid
  BY <1>1 DEF StateRecords
<1>7. QED
  BY <1>3, <1>5, <1>6 DEF Legal

LEMMA SteppedLegal ==
  ASSUME NEW s, Legal(s), s.revision < MaxRevision, NEW grid \in Boards(s.topology, s.rule)
  PROVE  /\ Legal(Stepped(s, grid)) /\ Counts(s, Stepped(s, grid))
         /\ Legal(SteppedIfRunning(s, grid)) /\ Counts(s, SteppedIfRunning(s, grid))
<1> DEFINE p == [s EXCEPT !.running = FALSE]
<1>1. Legal(p) /\ p.epoch = s.epoch /\ p.revision = s.revision
      /\ p.topology = s.topology /\ p.rule = s.rule
  BY DEF Legal, StateRecords
<1>2. Legal(StepBoard(p, grid)) /\ StepBoard(p, grid).epoch = s.epoch
      /\ StepBoard(p, grid).revision = s.revision
  BY <1>1, StepBoardLegal
<1>3. Legal(StepBoard(s, grid)) /\ StepBoard(s, grid).epoch = s.epoch
      /\ StepBoard(s, grid).revision = s.revision
  BY StepBoardLegal
<1>4. Legal(Bumped(StepBoard(p, grid))) /\ Legal(Bumped(StepBoard(s, grid)))
  BY <1>2, <1>3, BumpedLegal
<1>5. Counts(s, Bumped(StepBoard(p, grid))) /\ Counts(s, Bumped(StepBoard(s, grid)))
  BY <1>2, <1>3 DEF Counts, Bumped, Legal, StateRecords
<1>6. QED
  BY <1>4, <1>5 DEF Stepped, SteppedIfRunning, Counts

LEMMA ResetLegal ==
  ASSUME NEW s, Legal(s), s.revision < MaxRevision, NEW t \in Topologies, NEW r \in Rules,
         NEW speed \in Speeds, NEW grid \in Boards(t, r)
  PROVE  Legal(ResetTo(s, t, r, speed, grid)) /\ Counts(s, ResetTo(s, t, r, speed, grid))
<1> DEFINE n == [s EXCEPT !.running = FALSE, !.generation = 0, !.rule = r,
                          !.topology = t, !.cells = grid, !.speed = speed]
<1>1. s \in StateRecords
  BY DEF Legal
<1>2. grid \in UNION {[CellsOf[u] -> CellStates] : u \in Topologies}
  BY BoardInType
<1>3. n \in StateRecords
  BY <1>1, <1>2 DEF StateRecords
<1>4. n.epoch = s.epoch /\ n.revision = s.revision /\ n.topology = t
      /\ n.rule = r /\ n.cells = grid
  BY <1>1 DEF StateRecords
<1>5. Legal(n)
  BY <1>3, <1>4 DEF Legal
<1>6. QED
  BY <1>1, <1>3, <1>4, <1>5, BumpedLegal DEF ResetTo, Counts, Bumped, StateRecords

LEMMA ReconfiguredLegal ==
  ASSUME NEW s, Legal(s), NEW t \in Topologies, NEW r \in Rules, NEW speed \in Speeds
  PROVE  LET next == Reconfigured(s, t, r, speed)
         IN  /\ Legal(next) /\ next.epoch = s.epoch /\ next.revision = s.revision
             /\ (t = s.topology /\ r = s.rule /\ speed = s.speed) => next = s
             /\ next.topology = t /\ next.rule = r /\ next.speed = speed
<1> DEFINE resized == IF t # s.topology THEN Transferred(s.cells, t) ELSE s.cells
           cells == IF r # s.rule THEN Coerced(resized, r) ELSE resized
<1>1. /\ s \in StateRecords /\ s.cells \in Boards(s.topology, s.rule)
      /\ s.topology \in Topologies /\ s.rule \in Rules /\ s.running \in BOOLEAN
  BY DEF Legal, StateRecords
<1>2. resized \in Boards(t, s.rule)
  BY <1>1, BoardTypes
<1>3. PICK c \in Boards(t, r) : c = cells
  BY <1>1, <1>2, BoardTypes
<1>4. PICK running \in BOOLEAN : running = (s.running /\ t = s.topology)
  BY Zenon
<1> DEFINE n == [s EXCEPT !.running = running, !.cells = c,
                          !.topology = t, !.rule = r, !.speed = speed]
<1>5. Reconfigured(s, t, r, speed) = n
  <2>1. Reconfigured(s, t, r, speed) =
          [s EXCEPT !.running = @ /\ t = s.topology, !.cells = c,
                    !.topology = t, !.rule = r, !.speed = speed]
    BY <1>3 DEF Reconfigured
  <2>2. QED
    BY <1>1, <1>4, <2>1 DEF StateRecords
<1>6. c \in UNION {[CellsOf[u] -> CellStates] : u \in Topologies}
  BY <1>3, BoardInType
<1>7. n \in StateRecords
  BY <1>1, <1>6 DEF StateRecords
<1>8. /\ n.epoch = s.epoch /\ n.revision = s.revision /\ n.topology = t
      /\ n.rule = r /\ n.cells = c /\ n.running = running /\ n.speed = speed
      /\ n.generation = s.generation
  BY <1>1 DEF StateRecords
<1>9. Legal(n)
  BY <1>3, <1>7, <1>8 DEF Legal
<1>10. ASSUME t = s.topology, r = s.rule, speed = s.speed
       PROVE  n = s
  <2>1. c = s.cells
    BY <1>3, <1>10
  <2>2. running = s.running
    BY <1>1, <1>4, <1>10
  <2>3. QED
    BY <1>1, <1>7, <1>8, <1>10, <2>1, <2>2, SameState
<1>11. QED
  BY <1>5, <1>8, <1>9, <1>10

LEMMA ConfiguredLegal ==
  ASSUME NEW s, Legal(s), s.revision < MaxRevision, NEW t \in Topologies, NEW r \in Rules,
         NEW speed \in Speeds
  PROVE  Legal(Configured(s, t, r, speed)) /\ Counts(s, Configured(s, t, r, speed))
<1>1. PICK next : next = Reconfigured(s, t, r, speed)
  OBVIOUS
<1>2. /\ Legal(next) /\ next.epoch = s.epoch /\ next.revision = s.revision
      /\ (t = s.topology /\ r = s.rule /\ speed = s.speed) => next = s
      /\ next.topology = t /\ next.rule = r /\ next.speed = speed
  BY <1>1, ReconfiguredLegal
<1>3. Configured(s, t, r, speed) = Bumped(next) \/ Configured(s, t, r, speed) = s
  BY <1>1, <1>2 DEF Configured, ConfigOf
<1>4. QED
  BY <1>2, <1>3, BumpedLegal DEF Counts, Bumped, Legal, StateRecords

\* An edit changes cells only, and its delta is the difference.
LEMMA EditedLegal ==
  ASSUME NEW s, Legal(s), s.revision < MaxRevision,
         NEW grid \in Boards(s.topology, s.rule), NEW next, next = [s EXCEPT !.cells = grid]
  PROVE  LET after == Edited(s, next)
         IN  /\ Legal(after) /\ Counts(s, after)
             /\ after = [s EXCEPT !.cells = after.cells, !.revision = after.revision]
             /\ DOMAIN after.cells = DOMAIN s.cells
<1>1. /\ s \in StateRecords /\ s.cells \in Boards(s.topology, s.rule)
      /\ s.topology \in Topologies /\ s.rule \in Rules
  BY DEF Legal, StateRecords
<1>2. grid \in UNION {[CellsOf[u] -> CellStates] : u \in Topologies}
  BY <1>1, BoardInType
<1>3. next \in StateRecords
  BY <1>1, <1>2 DEF StateRecords
<1>4. /\ next.epoch = s.epoch /\ next.revision = s.revision /\ next.topology = s.topology
      /\ next.rule = s.rule /\ next.cells = grid /\ next.running = s.running
      /\ next.speed = s.speed /\ next.generation = s.generation
  BY <1>1 DEF StateRecords
<1>5. Legal(next)
  BY <1>3, <1>4 DEF Legal
<1>6. Legal(Bumped(next))
  BY <1>4, <1>5, BumpedLegal
<1>7. PICK after : after = Edited(s, next)
  OBVIOUS
<1>8. after = s \/ after = Bumped(next)
  BY <1>7 DEF Edited
<1>9. /\ after.epoch = s.epoch /\ after.topology = s.topology
      /\ after.rule = s.rule /\ after.running = s.running /\ after.speed = s.speed
      /\ after.generation = s.generation
  BY <1>3, <1>4, <1>8 DEF Bumped, StateRecords
<1>10. Legal(after) /\ Counts(s, after)
  BY <1>3, <1>4, <1>6, <1>8 DEF Bumped, StateRecords, Counts
<1>11. DOMAIN after.cells = DOMAIN s.cells
  BY <1>1, <1>9, <1>10 DEF Legal, Boards
<1>12. after \in StateRecords
  BY <1>10 DEF Legal
<1>13. PICK c \in UNION {[CellsOf[u] -> CellStates] : u \in Topologies} : c = after.cells
  BY <1>12 DEF StateRecords
<1>14. PICK revision \in 0 .. MaxRevision : revision = after.revision
  BY <1>12 DEF StateRecords
<1>15. PICK n : n = [s EXCEPT !.cells = c, !.revision = revision]
  OBVIOUS
<1>16. n \in StateRecords
  BY <1>1, <1>15 DEF StateRecords
<1>17. /\ n.epoch = s.epoch /\ n.revision = revision /\ n.topology = s.topology
       /\ n.rule = s.rule /\ n.cells = c /\ n.running = s.running
       /\ n.speed = s.speed /\ n.generation = s.generation
  BY <1>1, <1>15 DEF StateRecords
<1>18. after = n
  BY <1>9, <1>12, <1>13, <1>14, <1>16, <1>17, SameState
<1>19. QED
  BY <1>7, <1>10, <1>11, <1>13, <1>14, <1>15, <1>18
\* An effective edit: cells of the state are changed, nothing else is.
EditOf(s, after) ==
    /\ Legal(after) /\ Counts(s, after)
    /\ after = [s EXCEPT !.cells = after.cells, !.revision = after.revision]
    /\ DOMAIN after.cells = DOMAIN s.cells

LEMMA EditStep ==
  ASSUME Legal(state), ToggleCell \/ SetCells
  PROVE  EditOf(state, state') /\ epochs' = epochs
<1>1. /\ state.cells \in [CellsOf[state.topology] -> StatesOf[state.rule]]
      /\ state.topology \in Topologies /\ state.rule \in Rules /\ state.revision < MaxRevision
      /\ PaintOf[state.rule] \in StatesOf[state.rule] /\ 0 \in StatesOf[state.rule]
  BY DomainAssumption DEF Legal, Boards, StateRecords, ToggleCell, SetCells, Unbounded
<1>2. ASSUME NEW toggled PROVE EditOf(state, Edited(state, WithToggled(state, toggled)))
  <2>1. PICK grid : grid = [c \in DOMAIN state.cells |->
                                IF c \notin toggled THEN state.cells[c]
                                ELSE IF state.cells[c] # 0 THEN 0 ELSE PaintOf[state.rule]]
    OBVIOUS
  <2>2. grid \in Boards(state.topology, state.rule)
    BY <1>1, <2>1 DEF Boards
  <2>3. PICK next : next = [state EXCEPT !.cells = grid]
    OBVIOUS
  <2>4. WithToggled(state, toggled) = next
    BY <2>1, <2>3 DEF WithToggled
  <2>5. EditOf(state, Edited(state, next))
    BY <1>1, <2>2, <2>3, EditedLegal DEF EditOf
  <2>6. QED
    BY <2>4, <2>5
<1>3. ASSUME NEW ids, NEW updates \in [ids -> CellStates], MaySetCells(state, updates)
      PROVE  EditOf(state, Edited(state, WithCells(state, updates)))
  <2>1. PICK grid : grid = [c \in DOMAIN state.cells |->
                                IF c \in DOMAIN updates THEN updates[c] ELSE state.cells[c]]
    OBVIOUS
  <2>2. \A c \in DOMAIN updates : updates[c] \in StatesOf[state.rule]
    BY <1>3 DEF MaySetCells, Range
  <2>3. grid \in Boards(state.topology, state.rule)
    BY <1>1, <2>1, <2>2 DEF Boards
  <2>4. PICK next : next = [state EXCEPT !.cells = grid]
    OBVIOUS
  <2>5. WithCells(state, updates) = next
    BY <2>1, <2>4 DEF WithCells
  <2>6. EditOf(state, Edited(state, next))
    BY <1>1, <2>3, <2>4, EditedLegal DEF EditOf
  <2>7. QED
    BY <2>5, <2>6
<1>4. QED
  BY <1>2, <1>3 DEF ToggleCell, SetCells

LEMMA CommandStep ==
  ASSUME Legal(state), Start \/ Pause \/ Step \/ StepIfRunning \/ Reset \/ UpdateConfig
  PROVE  Legal(state') /\ Counts(state, state') /\ epochs' = epochs
<1>1. state.revision < MaxRevision
  BY DEF Start, Pause, Step, StepIfRunning, Reset, UpdateConfig, Unbounded,
         Legal, StateRecords
<1>2. CASE Start
  BY <1>1, <1>2, StartedLegal DEF Start
<1>3. CASE Pause
  BY <1>1, <1>3, PausedLegal DEF Pause
<1>4. CASE Step \/ StepIfRunning
  BY <1>1, <1>4, SteppedLegal DEF Step, StepIfRunning
<1>5. CASE Reset
  BY <1>1, <1>5, ResetLegal DEF Reset
<1>6. CASE UpdateConfig
  BY <1>1, <1>6, ConfiguredLegal DEF UpdateConfig
<1>7. QED
  BY <1>2, <1>3, <1>4, <1>5, <1>6

LEMMA FreshLegal ==
  ASSUME NEW epoch \in Epochs
  PROVE  Legal(FreshState(epoch)) /\ FreshState(epoch).epoch = epoch
         /\ FreshState(epoch).revision = 0
<1>1. EmptyBoard(Initial.topology) \in Boards(Initial.topology, Initial.rule)
  BY DomainAssumption DEF EmptyBoard, Boards
<1>2. EmptyBoard(Initial.topology) \in UNION {[CellsOf[u] -> CellStates] : u \in Topologies}
  BY <1>1, BoardInType, DomainAssumption
<1>3. QED
  BY <1>1, <1>2, DomainAssumption DEF FreshState, Legal, StateRecords

LEMMA RestartStep ==
  ASSUME Legal(state), Restart
  PROVE  /\ Legal(state') /\ state'.revision = 0 /\ MayMint(state'.epoch)
         /\ state'.epoch \in Epochs /\ epochs' = epochs \cup {state'.epoch}
<1>1. PICK epoch \in Epochs :
        /\ MayMint(epoch) /\ epochs' = epochs \cup {epoch}
        /\ \/ state' = FreshState(epoch)
           \/ \E payload \in Payloads : state' = RestoredState(epoch, payload)
  BY DEF Restart
<1>2. CASE state' = FreshState(epoch)
  BY <1>1, <1>2, FreshLegal
<1>3. ASSUME NEW payload \in Payloads, state' = RestoredState(epoch, payload)
      PROVE  Legal(state') /\ state'.epoch = epoch /\ state'.revision = 0
  <2>1. /\ payload.generation \in Nat /\ payload.topology \in Topologies
        /\ payload.rule \in Rules /\ payload.speed \in Speeds
    BY DEF Payloads, Legal, StateRecords
  <2>2. PICK grid : grid =
               Coerced(Transferred(payload.cells, payload.topology), payload.rule)
    OBVIOUS
  <2>3. grid \in Boards(payload.topology, payload.rule)
    BY <2>1, <2>2, DomainAssumption DEF Coerced, Transferred, Boards
  <2>4. grid \in UNION {[CellsOf[u] -> CellStates] : u \in Topologies}
    BY <2>1, <2>3, BoardInType
  <2>5. PICK q : q = [epoch |-> epoch, revision |-> 0, running |-> FALSE,
             generation |-> payload.generation, topology |-> payload.topology,
             cells |-> grid, rule |-> payload.rule, speed |-> payload.speed]
    OBVIOUS
  <2>6. q \in StateRecords
    BY <2>1, <2>4, <2>5, DomainAssumption DEF StateRecords
  <2>7. q.topology = payload.topology /\ q.rule = payload.rule /\ q.cells = grid
        /\ q.epoch = epoch /\ q.revision = 0
    BY <2>5
  <2>8. state' = q
    BY <1>3, <2>2, <2>5 DEF RestoredState
  <2>9. QED
    BY <2>3, <2>6, <2>7, <2>8 DEF Legal
<1>4. QED
  BY <1>1, <1>2, <1>3

\* What the service keeps: a legal state, of a lifetime it minted.
ServiceInv == Legal(state) /\ epochs \subseteq Epochs /\ state.epoch \in epochs

LEMMA ServiceInvInit == ServiceInit => ServiceInv
<1> SUFFICES ASSUME ServiceInit PROVE ServiceInv
  OBVIOUS
<1>1. PICK epoch \in Epochs : state = FreshState(epoch) /\ epochs = {epoch}
  BY DEF ServiceInit
<1>2. QED
  BY <1>1, FreshLegal DEF ServiceInv

LEMMA ServiceInvStep == ServiceInv /\ [ServiceNext]_serviceVars => ServiceInv'
<1> SUFFICES ASSUME ServiceInv, [ServiceNext]_serviceVars PROVE ServiceInv'
  OBVIOUS
<1>1. CASE ToggleCell \/ SetCells
  BY <1>1, EditStep DEF ServiceInv, EditOf, Counts
<1>2. CASE Start \/ Pause \/ Step \/ StepIfRunning \/ Reset \/ UpdateConfig
  BY <1>2, CommandStep DEF ServiceInv, Counts
<1>3. CASE Restart
  BY <1>3, RestartStep DEF ServiceInv
<1>4. CASE Spent \/ UNCHANGED serviceVars
  BY <1>4 DEF Spent, serviceVars, ServiceInv, Legal
<1>5. QED
  BY <1>1, <1>2, <1>3, <1>4 DEF ServiceNext, Mutate

LEMMA ServiceInvMeans == ServiceInv => ServiceConsistent
BY DEF ServiceInv, ServiceConsistent, ServiceTypeOK, StatesLegal, Legal, Boards

\* The board of the service is always over the cells of its topology and legal
\* for its rule (SimulationService!ServiceConsistent), whatever sequence of
\* commands, edits, steps, resizes, restarts and restores led to it.
THEOREM BoardStaysLegal == ServiceSpec => []ServiceConsistent
BY ServiceInvInit, ServiceInvStep, ServiceInvMeans, PTL DEF ServiceSpec

\* Within a lifetime the revision advances by one with every observable change
\* and never otherwise (SimulationService!RevisionCountsMutations).
THEOREM RevisionsCount == ServiceSpec => RevisionCountsMutations
<1>1. ASSUME ServiceInv, [ServiceNext]_serviceVars
      PROVE  [state'.epoch = state.epoch =>
                 /\ state'.revision \in {state.revision, state.revision + 1}
                 /\ View(state') # View(state) =>
                       state'.revision = state.revision + 1]_serviceVars
  <2>1. CASE ToggleCell \/ SetCells
    BY <1>1, <2>1, EditStep DEF ServiceInv, EditOf, Counts
  <2>2. CASE Start \/ Pause \/ Step \/ StepIfRunning \/ Reset \/ UpdateConfig
    BY <1>1, <2>2, CommandStep DEF ServiceInv, Counts
  <2>3. CASE Restart
    BY <1>1, <2>3, RestartStep DEF ServiceInv, MayMint
  <2>4. CASE Spent \/ UNCHANGED serviceVars
    BY <2>4 DEF Spent
  <2>5. QED
    BY <1>1, <2>1, <2>2, <2>3, <2>4 DEF ServiceNext, Mutate
<1>2. QED
  BY <1>1, ServiceInvInit, ServiceInvStep, PTL DEF ServiceSpec, RevisionCountsMutations

(***************************************************************************)
(* The client: types.                                                      *)
(***************************************************************************)

\* The client changes the service by its operations only.
LEMMA ServiceMoves == [Next]_vars => [ServiceNext]_serviceVars
BY DEF Next, Tick, RestartServer, GetState, PostControl, MutateCells, Send, Serve, Receive,
       ServeState, ServeControl, ServeSnapshot, ServeCells, Refuse, Fail, ReceiveSnapshot,
       ReceiveUpdate, ReceiveDelta, ServiceNext, Mutate, vars, serviceVars, clientVars

LEMMA ResponseTypes ==
  ASSUME NEW s, Legal(s)
  PROVE  /\ FullSnapshot(s) \in Snapshots /\ CompactUpdate(s) \in Updates
         /\ \A after : EditOf(s, after) => Delta(s, after) \in Deltas
<1>1. /\ s \in StateRecords /\ s.epoch \in Epochs /\ s.revision \in Nat
      /\ s.topology \in Topologies /\ s.rule \in Rules /\ s.generation \in Nat
      /\ s.cells \in [CellsOf[s.topology] -> StatesOf[s.rule]]
  BY DomainAssumption DEF Legal, StateRecords, Boards
<1>2. FullSnapshot(s) \in Snapshots /\ CompactUpdate(s) \in Updates
  BY <1>1 DEF FullSnapshot, CompactUpdate, Snapshots, Updates
<1>3. ASSUME NEW after, EditOf(s, after) PROVE Delta(s, after) \in Deltas
  <2>1. /\ after.revision \in Nat /\ after.topology \in Topologies /\ after.rule \in Rules
        /\ after.cells \in [CellsOf[after.topology] -> StatesOf[after.rule]]
        /\ DOMAIN after.cells = CellsOf[s.topology]
    BY <1>1, <1>3, DomainAssumption DEF EditOf, Legal, StateRecords, Boards
  <2>2. \A c \in CellsOf[s.topology] : after.cells[c] \in CellStates
    BY <2>1 DEF CellStates
  <2>3. PICK ids : ids = {c \in DOMAIN s.cells : after.cells[c] # s.cells[c]}
    OBVIOUS
  <2>4. ids \subseteq CellsOf[s.topology]
    BY <1>1, <2>3
  <2>5. ids \in SUBSET UNION Range(CellsOf)
    BY <1>1, <2>4, DomainAssumption DEF Range
  <2>6. UpdatesBetween(s, after) \in [ids -> CellStates]
    BY <2>2, <2>3, <2>4 DEF UpdatesBetween, Restrict
  <2>7. PICK updates : updates = UpdatesBetween(s, after)
    OBVIOUS
  <2>8. updates \in UNION {[i -> CellStates] : i \in SUBSET UNION Range(CellsOf)}
    BY <2>5, <2>6, <2>7
  <2>9. QED
    BY <1>1, <2>1, <2>7, <2>8 DEF Delta, Deltas
<1>4. QED
  BY <1>2, <1>3

Phases == {"idle", "state", "control", "snapshot", "cells", "answered"}

\* The part of TypeOK about the calls.
CallsTyped ==
    /\ phase \in [Requests -> Phases] /\ full \in [Requests -> BOOLEAN]
    /\ raced \in [Requests -> BOOLEAN]
    /\ answer \in [Requests -> Responses \cup {NoAnswer}]
    /\ floor \in [Requests -> Nat \X Nat]
    /\ \A r \in Requests : (phase[r] = "answered") = (answer[r] # NoAnswer)

LEMMA SendType ==
  ASSUME CallsTyped, NEW r \in Requests, NEW kind \in {"state", "control", "cells"},
         NEW wants \in BOOLEAN, Send(r, kind, wants)
  PROVE  CallsTyped'
BY DEF CallsTyped, Send, Idle, Phases

LEMMA AnswerType ==
  ASSUME CallsTyped, NEW r \in Requests, NEW response \in Responses,
         NEW stamp \in Nat \X Nat, Answer(r, response, stamp), full' = full, raced' = raced
  PROVE  CallsTyped'
BY BackendAssumption DEF CallsTyped, Answer, Phases

LEMMA FinishType ==
  ASSUME CallsTyped, NEW ended, Finish(ended), raced' \in [Requests -> BOOLEAN]
  PROVE  CallsTyped'
<1>1. phase' \in [Requests -> Phases] /\ answer' \in [Requests -> Responses \cup {NoAnswer}]
  BY DEF Finish, CallsTyped, Phases
<1>2. floor' \in [Requests -> Nat \X Nat]
  BY DEF Finish, CallsTyped, Origin
<1>3. full' \in [Requests -> BOOLEAN]
  BY DEF Finish
<1>4. \A r \in Requests : (phase'[r] = "answered") = (answer'[r] # NoAnswer)
  BY DEF Finish, CallsTyped
<1>5. QED
  BY <1>1, <1>2, <1>3, <1>4 DEF CallsTyped

LEMMA DroppedType ==
  ASSUME CallsTyped, NEW ended, Dropped(ended)
  PROVE  CallsTyped'
<1>1. Finish(ended) /\ raced' \in [Requests -> BOOLEAN]
  BY DEF Dropped
<1>2. QED
  BY <1>1, FinishType

LEMMA RefreshType ==
  ASSUME CallsTyped, NEW r \in Requests, Refresh(r)
  PROVE  CallsTyped'
BY DEF CallsTyped, Refresh, Phases

LEMMA RacedType ==
  ASSUME CallsTyped, NEW r \in Requests, NEW next, Assign(r, next) \/ Keep(r)
  PROVE  raced' \in [Requests -> BOOLEAN]
BY DEF CallsTyped, Assign, Keep

LEMMA StampType ==
  ASSUME NEW s, Legal(s)
  PROVE  Stamp(s) \in Nat \X Nat /\ Stamp(s)[1] = s.epoch /\ Stamp(s)[2] = s.revision
BY DomainAssumption DEF Stamp, Legal, StateRecords, Epochs

\* What serving a call answers with, and the stamp the call has seen.
LEMMA Served ==
  ASSUME ServiceInv, NEW r \in Requests, ServeState(r) \/ ServeSnapshot(r)
  PROVE  \E response \in {FullSnapshot(state), CompactUpdate(state)} :
            /\ response \in Responses /\ Answer(r, response, Stamp(state))
            /\ UNCHANGED <<serviceVars, cache, full, raced, faults>>
<1>1. Legal(state)
  BY DEF ServiceInv
<1>2. FullSnapshot(state) \in Responses /\ CompactUpdate(state) \in Responses
  BY <1>1, ResponseTypes DEF Responses
<1>3. QED
  BY <1>2 DEF ServeState, ServeSnapshot

LEMMA CellsServed ==
  ASSUME ServiceInv, NEW r \in Requests, ServeCells(r)
  PROVE  /\ EditOf(state, state') /\ epochs' = epochs
         /\ Delta(state, state') \in Responses
         /\ Answer(r, Delta(state, state'), Stamp(state'))
         /\ UNCHANGED <<cache, full, raced, faults>>
<1>1. Legal(state)
  BY DEF ServiceInv
<1>2. EditOf(state, state') /\ epochs' = epochs
  BY <1>1, EditStep DEF ServeCells
<1>3. QED
  BY <1>1, <1>2, ResponseTypes DEF Responses, ServeCells

LEMMA CallsTypedStep ==
  ASSUME ServiceInv, CallsTyped, [Next]_vars
  PROVE  CallsTyped'
<1>1. ASSUME NEW r \in Requests, GetState(r) \/ PostControl(r) \/ MutateCells(r)
      PROVE  CallsTyped'
  BY <1>1, SendType DEF GetState, PostControl, MutateCells
<1>2. ASSUME NEW r \in Requests, ServeState(r) \/ ServeSnapshot(r) PROVE CallsTyped'
  <2>1. Stamp(state) \in Nat \X Nat
    BY StampType DEF ServiceInv
  <2>2. QED
    BY <1>2, <2>1, Served, AnswerType
<1>3. ASSUME NEW r \in Requests, ServeCells(r) PROVE CallsTyped'
  <2>1. PICK q : q = state'
    OBVIOUS
  <2>2. Stamp(q) \in Nat \X Nat
    BY <1>3, <2>1, CellsServed, StampType DEF EditOf
  <2>3. QED
    BY <1>3, <2>1, <2>2, CellsServed, AnswerType
<1>4. ASSUME NEW r \in Requests, ServeControl(r) PROVE CallsTyped'
  <2>1. Legal(state')
    BY <1>4, CommandStep DEF ServiceInv, ServeControl
  <2>2. PICK q : q = state'
    OBVIOUS
  <2>3. Stamp(q) \in Nat \X Nat
    BY <2>1, <2>2, StampType
  <2>4. QED
    BY <1>4, <2>2, <2>3 DEF ServeControl, CallsTyped, Phases
<1>5. ASSUME NEW r \in Requests, ReceiveSnapshot(r) \/ ReceiveUpdate(r) \/ ReceiveDelta(r)
      PROVE  CallsTyped'
  <2>1. \/ Refresh(r)
        \/ Finish({r}) /\ \E next : Assign(r, next) \/ Keep(r)
    BY <1>5 DEF ReceiveSnapshot, ReceiveUpdate, ReceiveDelta, Install
  <2>2. QED
    BY <2>1, RefreshType, RacedType, FinishType
<1>6. CASE RestartServer \/ \E r \in Requests : Refuse(r) \/ Fail(r)
  BY <1>6, DroppedType DEF RestartServer, Refuse, Fail
<1>7. CASE Tick \/ UNCHANGED vars
  BY <1>7 DEF Tick, vars, clientVars, CallsTyped
<1>8. QED
  BY <1>1, <1>2, <1>3, <1>4, <1>5, <1>6, <1>7 DEF Next, Serve, Receive

LEMMA FaultsStep ==
  ASSUME faults \in 0 .. MaxFaults, [Next]_vars
  PROVE  faults' \in 0 .. MaxFaults
<1>1. faults' = faults \/ (faults < MaxFaults /\ faults' = faults + 1)
  BY DEF Next, Tick, RestartServer, GetState, PostControl, MutateCells, Send, Serve, Receive,
       ServeState, ServeControl, ServeSnapshot, ServeCells, Refuse, Fail, ReceiveSnapshot,
       ReceiveUpdate, ReceiveDelta, vars, clientVars
<1>2. QED
  BY <1>1, BackendAssumption

(***************************************************************************)
(* The client: every state it holds is one the server was in.  Past is a   *)
(* set of such states: the present one and all the client has or may be    *)
(* answered with, no two with the same stamp.                              *)
(***************************************************************************)

ServerPast(Past) ==
    /\ state \in Past
    /\ \A s \in Past : /\ Legal(s) /\ s.epoch \in epochs
                       /\ s.epoch = state.epoch => s.revision <= state.revision
    /\ \A s, q \in Past : Stamp(s) = Stamp(q) => s = q

AnswersFrom(Past, response) ==
    \/ \E s \in Past : response = FullSnapshot(s)
    \/ \E s \in Past : response = CompactUpdate(s)
    \/ \E s, after \in Past : EditOf(s, after) /\ response = Delta(s, after)

CachedFrom(Past) ==
    cache = NoSnapshot \/ \E s \in Past : cache = FullSnapshot(s)

ClientPast(Past) ==
    /\ CachedFrom(Past)
    /\ \A r \in Requests : answer[r] # NoAnswer => AnswersFrom(Past, answer[r])

\* A step of the service adds its new state to the past.
LEMMA PastGrows ==
  ASSUME ServiceInv, ServiceInv', [ServiceNext]_serviceVars, NEW Past, ServerPast(Past)
  PROVE  \E Later : Past \subseteq Later /\ ServerPast(Later)'
<1>1. Legal(state') /\ state'.epoch \in epochs' /\ epochs \subseteq epochs'
  BY EditStep, CommandStep, RestartStep
     DEF ServiceInv, ServiceNext, Mutate, Spent, serviceVars, EditOf
<1>2. \/ Counts(state, state')
      \/ state'.epoch \notin epochs
  BY EditStep, CommandStep, RestartStep
     DEF ServiceInv, ServiceNext, Mutate, Spent, serviceVars, EditOf, Counts, MayMint
<1>3. PICK Later : Later = Past \cup {state'}
  OBVIOUS
<1>4. \A s \in Past : s.revision \in Int /\ s.epoch \in Int
  BY DomainAssumption DEF ServerPast, Legal, StateRecords, Epochs
<1>5. state'.revision \in Int /\ state.revision \in Int
  BY <1>1, DomainAssumption DEF ServiceInv, Legal, StateRecords
<1>6. ASSUME NEW s \in Past, s.epoch = state'.epoch
      PROVE  state'.epoch = state.epoch /\ s.revision <= state'.revision
             /\ (s.revision = state'.revision => s = state')
  <2>1. s.epoch \in epochs
    BY DEF ServerPast
  <2>2. Counts(state, state')
    BY <1>2, <1>6, <2>1
  <2>3. state'.epoch = state.epoch /\ s.revision <= state.revision
    BY <1>6, <2>2 DEF Counts, ServerPast
  <2>4. CASE state' = state
    BY <1>6, <2>3, <2>4 DEF ServerPast, Stamp
  <2>5. CASE state'.revision = state.revision + 1
    BY <1>4, <1>5, <2>3, <2>5
  <2>6. QED
    BY <2>2, <2>3, <2>4, <2>5 DEF Counts
<1>7. \A s \in Later : /\ Legal(s) /\ s.epoch \in epochs'
                       /\ s.epoch = state'.epoch => s.revision <= state'.revision
  BY <1>1, <1>3, <1>5, <1>6 DEF ServerPast
<1>8. \A s, q \in Later : Stamp(s) = Stamp(q) => s = q
  <2>1. \A s, q : Stamp(s) = Stamp(q) => s.epoch = q.epoch /\ s.revision = q.revision
    BY DEF Stamp
  <2>2. QED
    BY <1>3, <1>6, <2>1 DEF ServerPast
<1>9. QED
  BY <1>3, <1>7, <1>8 DEF ServerPast

\* An update that fits, or a delta that applies, rebuilds a state of the past.
LEMMA RehydratedFrom ==
  ASSUME NEW Past, CachedFrom(Past), NEW s, CanRehydrate(CompactUpdate(s))
  PROVE  Rehydrated(CompactUpdate(s)) = FullSnapshot(s)
BY DEF CachedFrom, CanRehydrate, CompactUpdate, Rehydrated, FullSnapshot

LEMMA PatchedFrom ==
  ASSUME NEW Past, ServerPast(Past), CachedFrom(Past), NEW s \in Past, NEW after \in Past,
         EditOf(s, after), DeltaApplies(Delta(s, after))
  PROVE  /\ cache = FullSnapshot(s)
         /\ Patched(Delta(s, after)) = FullSnapshot(after)
<1>1. PICK c \in Past : cache = FullSnapshot(c)
  BY DEF CachedFrom, DeltaApplies
<1>2. cache.state = c
  BY <1>1 DEF FullSnapshot
<1>3. s.epoch = c.epoch /\ s.revision = c.revision
  BY <1>2 DEF DeltaApplies, Delta
<1>4. c = s
  BY <1>1, <1>3 DEF ServerPast, Stamp
<1>5. PICK d : d = Delta(s, after)
  OBVIOUS
<1>6. d.updates = UpdatesBetween(s, after) /\ d.revision = after.revision
  BY <1>5 DEF Delta
<1>7. s \in StateRecords /\ Legal(s) /\ Legal(after)
  BY DEF ServerPast, Legal
<1>8. DOMAIN after.cells = DOMAIN s.cells
  BY DEF EditOf
<1>9. [x \in DOMAIN s.cells |-> IF x \in DOMAIN d.updates THEN d.updates[x] ELSE s.cells[x]]
        = after.cells
  <2>1. /\ DOMAIN d.updates = {x \in DOMAIN s.cells : after.cells[x] # s.cells[x]}
        /\ \A x \in DOMAIN d.updates : d.updates[x] = after.cells[x]
    BY <1>6 DEF UpdatesBetween, Restrict
  <2>2. after.cells = [x \in DOMAIN after.cells |-> after.cells[x]]
    BY <1>7 DEF Legal, Boards
  <2>3. QED
    BY <1>8, <2>1, <2>2
<1>10. WithCells(s, d.updates) = [s EXCEPT !.cells = after.cells]
  BY <1>9 DEF WithCells
<1>11. [WithCells(s, d.updates) EXCEPT !.revision = d.revision] = after
  BY <1>6, <1>10 DEF EditOf
<1>12. after.topology = s.topology
  <2>1. PICK cells, revision : after = [s EXCEPT !.cells = cells, !.revision = revision]
    BY DEF EditOf
  <2>2. QED
    BY <1>7, <2>1 DEF StateRecords
<1>13. Patched(d) = [cache EXCEPT !.state = after]
  BY <1>2, <1>4, <1>11 DEF Patched
<1>14. QED
  BY <1>1, <1>4, <1>5, <1>12, <1>13 DEF FullSnapshot

\* What a received response does to the cache.
Received(r, Past) ==
    \/ Refresh(r)
    \/ /\ Finish({r})
       /\ \E s \in Past :
             \/ answer[r] \in {FullSnapshot(s), CompactUpdate(s)} /\ Install(r, FullSnapshot(s))
             \/ \E before \in Past :
                   /\ EditOf(before, s) /\ answer[r] = Delta(before, s)
                   /\ DeltaApplies(answer[r]) /\ cache = FullSnapshot(before)
                   /\ Assign(r, FullSnapshot(s))

LEMMA ReceivedFrom ==
  ASSUME CallsTyped, NEW Past, ServerPast(Past), ClientPast(Past), NEW r \in Requests, Receive(r)
  PROVE  Received(r, Past)
<1>1. AnswersFrom(Past, answer[r])
  BY DEF Receive, ReceiveSnapshot, ReceiveUpdate, ReceiveDelta, CallsTyped, ClientPast
<1>2. \A s, after : /\ FullSnapshot(s).kind = "snapshot" /\ CompactUpdate(s).kind = "update"
                    /\ Delta(s, after).kind = "delta"
  BY DEF FullSnapshot, CompactUpdate, Delta
<1>3. CASE ReceiveSnapshot(r)
  <2>1. PICK s \in Past : answer[r] = FullSnapshot(s)
    BY <1>1, <1>2, <1>3 DEF AnswersFrom, ReceiveSnapshot
  <2>2. QED
    BY <1>3, <2>1 DEF ReceiveSnapshot, Received
<1>4. CASE ReceiveUpdate(r)
  <2>1. PICK s \in Past : answer[r] = CompactUpdate(s)
    BY <1>1, <1>2, <1>4 DEF AnswersFrom, ReceiveUpdate
  <2>2. CASE Refresh(r)
    BY <2>2 DEF Received
  <2>3. CASE CanRehydrate(answer[r]) /\ Install(r, Rehydrated(answer[r])) /\ Finish({r})
    BY <2>1, <2>3, RehydratedFrom DEF Received, ClientPast
  <2>4. QED
    BY <1>4, <2>2, <2>3 DEF ReceiveUpdate
<1>5. CASE ReceiveDelta(r)
  <2>1. PICK s \in Past, after \in Past : EditOf(s, after) /\ answer[r] = Delta(s, after)
    BY <1>1, <1>2, <1>5 DEF AnswersFrom, ReceiveDelta
  <2>2. CASE Refresh(r)
    BY <2>2 DEF Received
  <2>3. CASE DeltaApplies(answer[r]) /\ Assign(r, Patched(answer[r])) /\ Finish({r})
    BY <2>1, <2>3, PatchedFrom DEF Received, ClientPast
  <2>4. QED
    BY <1>5, <2>2, <2>3 DEF ReceiveDelta
<1>6. QED
  BY <1>3, <1>4, <1>5 DEF Receive

\* What a step does to the responses under way.
LEMMA AnswerStep ==
  ASSUME ServiceInv, CallsTyped, [Next]_vars, NEW Past, ServerPast(Past), ClientPast(Past),
         NEW r \in Requests
  PROVE  \/ answer'[r] \in {answer[r], NoAnswer}
         \/ answer'[r] \in {FullSnapshot(state), CompactUpdate(state)}
         \/ EditOf(state, state') /\ answer'[r] = Delta(state, state')
<1>1. ASSUME NEW q \in Requests, GetState(q) \/ PostControl(q) \/ MutateCells(q)
      PROVE  answer' = answer
  BY <1>1 DEF GetState, PostControl, MutateCells, Send
<1>2. ASSUME NEW q \in Requests, ServeState(q) \/ ServeSnapshot(q)
      PROVE  answer'[r] \in {answer[r], FullSnapshot(state), CompactUpdate(state)}
  BY <1>2, Served DEF Answer, CallsTyped
<1>3. ASSUME NEW q \in Requests, ServeCells(q)
      PROVE  EditOf(state, state') /\ answer'[r] \in {answer[r], Delta(state, state')}
  <2>1. EditOf(state, state') /\ Answer(q, Delta(state, state'), Stamp(state'))
    BY <1>3, CellsServed
  <2>2. QED
    BY <2>1 DEF Answer, CallsTyped
<1>4. ASSUME NEW q \in Requests, ServeControl(q) PROVE answer' = answer
  BY <1>4 DEF ServeControl
<1>5. ASSUME NEW q \in Requests, Receive(q) PROVE answer'[r] \in {answer[r], NoAnswer}
  BY <1>5, ReceivedFrom DEF Received, Refresh, Finish, CallsTyped
<1>6. CASE RestartServer \/ \E q \in Requests : Refuse(q) \/ Fail(q)
  BY <1>6 DEF RestartServer, Refuse, Fail, Dropped, Finish
<1>7. CASE Tick \/ UNCHANGED vars
  BY <1>7 DEF Tick, vars, clientVars
<1>8. QED
  BY <1>1, <1>2, <1>3, <1>4, <1>5, <1>6, <1>7 DEF Next, Serve

\* What a step does to the cache: only received responses change it.
LEMMA CacheStep ==
  ASSUME [Next]_vars
  PROVE  cache' = cache \/ \E r \in Requests : Receive(r)
BY DEF Next, Tick, RestartServer, GetState, PostControl, MutateCells, Send, Serve,
       ServeState, ServeControl, ServeSnapshot, ServeCells, Refuse, Fail, vars, clientVars

LEMMA ClientPastStep ==
  ASSUME ServiceInv, CallsTyped, CallsTyped', [Next]_vars, NEW Past, ServerPast(Past), ClientPast(Past),
         NEW Later, Past \subseteq Later, ServerPast(Later)'
  PROVE  ClientPast(Later)'
<1>1. state \in Later /\ state' \in Later
  BY DEF ServerPast
<1>2. CachedFrom(Later)'
  <2>1. CASE cache' = cache
    BY <2>1 DEF ClientPast, CachedFrom
  <2>2. ASSUME NEW r \in Requests, Receive(r) PROVE CachedFrom(Later)'
    <3>1. Received(r, Past)
      BY <2>2, ReceivedFrom
    <3>2. cache' = cache \/ \E s \in Past : cache' = FullSnapshot(s)
      BY <3>1 DEF Received, Refresh, Install, Assign, Keep
    <3>3. QED
      BY <3>2 DEF ClientPast, CachedFrom
  <2>3. QED
    BY <2>1, <2>2, CacheStep
<1>3. ASSUME NEW r \in Requests, answer'[r] # NoAnswer PROVE AnswersFrom(Later, answer'[r])
  <2>1. CASE answer'[r] = answer[r]
    BY <1>3, <2>1 DEF ClientPast, AnswersFrom
  <2>2. CASE answer'[r] # answer[r]
    BY <1>1, <1>3, <2>2, AnswerStep DEF AnswersFrom
  <2>3. QED
    BY <2>1, <2>2
<1>4. QED
  BY <1>2, <1>3 DEF ClientPast

ClientInv ==
    /\ ServiceInv /\ CallsTyped /\ faults \in 0 .. MaxFaults
    /\ \E Past : ServerPast(Past) /\ ClientPast(Past)

LEMMA ClientInvInit == Init => ClientInv
<1> SUFFICES ASSUME Init PROVE ClientInv
  OBVIOUS
<1>1. ServiceInv
  BY ServiceInvInit DEF Init
<1>2. CallsTyped /\ faults \in 0 .. MaxFaults
  BY BackendAssumption DEF Init, CallsTyped, Phases, Origin
<1>3. ServerPast({state})
  BY <1>1, DomainAssumption DEF ServerPast, ServiceInv, Legal, StateRecords
<1>4. ClientPast({state})
  BY DEF Init, ClientPast, CachedFrom
<1>5. QED
  BY <1>1, <1>2, <1>3, <1>4 DEF ClientInv

LEMMA ClientInvStep == ClientInv /\ [Next]_vars => ClientInv'
<1> SUFFICES ASSUME ClientInv, [Next]_vars PROVE ClientInv'
  OBVIOUS
<1>1. ServiceInv /\ [ServiceNext]_serviceVars
  BY ServiceMoves DEF ClientInv
<1>2. ServiceInv'
  BY <1>1, ServiceInvStep
<1>3. CallsTyped'
  BY CallsTypedStep DEF ClientInv
<1>4. faults' \in 0 .. MaxFaults
  BY FaultsStep DEF ClientInv
<1>5. PICK Past : ServerPast(Past) /\ ClientPast(Past)
  BY DEF ClientInv
<1>6. PICK Later : Past \subseteq Later /\ ServerPast(Later)'
  BY <1>1, <1>2, <1>5, PastGrows
<1>7. ClientPast(Later)'
  BY <1>1, <1>3, <1>5, <1>6, ClientPastStep DEF ClientInv
<1>8. QED
  BY <1>2, <1>3, <1>4, <1>6, <1>7 DEF ClientInv

\* The client's bookkeeping is well-formed, its snapshot is drawn on its own
\* lattice, and one that carries the server's epoch and revision is the
\* server's state, however polls, edits, commands and restarts were interleaved
\* (HttpBackend!ClientConsistent).
THEOREM CacheIsAServerState == Spec => []ClientConsistent
<1>1. ClientInv => ClientConsistent
  <2> SUFFICES ASSUME ClientInv PROVE TypeOK /\ CacheCoherent
    BY DEF ClientConsistent
  <2>1. PICK Past : ServerPast(Past) /\ ClientPast(Past)
    BY DEF ClientInv
  <2>2. ServiceTypeOK
    BY ServiceInvMeans DEF ClientInv, ServiceConsistent
  <2>3. CASE cache = NoSnapshot
    BY <2>2, <2>3 DEF ClientInv, TypeOK, CallsTyped, Phases, CacheCoherent
  <2>4. CASE cache # NoSnapshot
    <3>1. PICK s \in Past : cache = FullSnapshot(s)
      BY <2>1, <2>4 DEF ClientPast, CachedFrom
    <3>2. Legal(s) /\ cache \in Snapshots
      BY <2>1, <3>1, ResponseTypes DEF ServerPast
    <3>3. cache.state = s /\ cache.layout = s.topology
      BY <3>1 DEF FullSnapshot
    <3>4. Stamp(s) = Stamp(state) => s = state
      BY <2>1 DEF ServerPast
    <3>5. DOMAIN s.cells = CellsOf[s.topology]
      BY <3>2 DEF Legal, Boards
    <3>6. CacheCoherent
      BY <3>3, <3>4, <3>5 DEF CacheCoherent
    <3>7. QED
      BY <2>2, <3>2, <3>6 DEF ClientInv, TypeOK, CallsTyped, Phases
  <2>5. QED
    BY <2>3, <2>4
<1>2. QED
  BY <1>1, ClientInvInit, ClientInvStep, PTL DEF Spec

\* The client only uses the operations of the service: what holds of the service
\* alone holds of it here.
THEOREM ServiceUnderClients == Spec => ServiceSpec
BY ServiceMoves, PTL DEF Spec, Init, ServiceSpec

(***************************************************************************)
(* The client: order.  While the clock does not go back, stamps are ordered *)
(* as states follow each other, and the client keeps to that order: the     *)
(* server is ahead of all the client holds, a response is not behind what    *)
(* its call has seen, and one whose base is still the cache not behind it.  *)
(***************************************************************************)

LEMMA OlderOrder ==
  ASSUME NEW a \in Nat \X Nat, NEW b \in Nat \X Nat, NEW c \in Nat \X Nat
  PROVE  /\ ~Older(a, a)
         /\ Older(a, b) => ~Older(b, a)
         /\ ~Older(b, a) /\ ~Older(c, b) => ~Older(c, a)
BY DEF Older

\* The stamp a response takes the client to.
Reach(response) ==
    IF response.kind = "delta" THEN <<response.epoch, response.revision>>
    ELSE Stamp(response.state)

LEMMA ReachOf ==
  ASSUME NEW s
  PROVE  /\ Reach(FullSnapshot(s)) = Stamp(s) /\ Reach(CompactUpdate(s)) = Stamp(s)
         /\ \A after : Counts(s, after) => Reach(Delta(s, after)) = Stamp(after)
BY DEF Reach, FullSnapshot, CompactUpdate, Delta, Counts, Stamp

\* What one call knows is not behind what it has seen.
InOrder(r) ==
    /\ ~Older(Stamp(state), floor[r])
    /\ answer[r] # NoAnswer =>
          /\ ~Older(Reach(answer[r]), floor[r])
          /\ ~raced[r] /\ cache # NoSnapshot => ~Older(Reach(answer[r]), Stamp(cache.state))

Ordered ==
    /\ \A e \in epochs : e <= state.epoch
    /\ \A r \in Requests : InOrder(r)

LEMMA ServerGoesOn ==
  ASSUME ~ClockMayGoBack, ServiceInv, Ordered, [ServiceNext]_serviceVars
  PROVE  ~Older(Stamp(state'), Stamp(state)) /\ \A e \in epochs' : e <= state'.epoch
<1>1. state.epoch \in Int /\ state.revision \in Int
  BY DomainAssumption DEF ServiceInv, Legal, StateRecords, Epochs
<1>2. CASE Restart
  <2>1. state'.epoch \in Int /\ MayMint(state'.epoch) /\ epochs' = epochs \cup {state'.epoch}
    BY <1>2, RestartStep DEF ServiceInv, Epochs
  <2>2. \A e \in epochs : e < state'.epoch
    BY <2>1 DEF MayMint
  <2>3. state.epoch < state'.epoch
    BY <2>2 DEF ServiceInv
  <2>4. \A e \in epochs' : e <= state'.epoch
    BY <2>1, <2>2 DEF ServiceInv, Epochs
  <2>5. PICK q : q = state'
    OBVIOUS
  <2>6. ~Older(Stamp(q), Stamp(state))
    BY <1>1, <2>1, <2>3, <2>5 DEF Older, Stamp
  <2>7. QED
    BY <2>4, <2>5, <2>6
<1>3. CASE ~Restart
  <2>1. Counts(state, state') /\ epochs' = epochs
    BY <1>3, EditStep, CommandStep
       DEF ServiceInv, ServiceNext, Mutate, Spent, serviceVars, EditOf, Counts
  <2>2. QED
    BY <1>1, <2>1 DEF Counts, Older, Stamp, Ordered
<1>4. QED
  BY <1>2, <1>3

\* The present state is the newest of the past.
LEMMA PastIsOlder ==
  ASSUME ServiceInv, Ordered, NEW Past, ServerPast(Past), NEW s \in Past
  PROVE  Stamp(s) \in Nat \X Nat /\ ~Older(Stamp(state), Stamp(s))
<1>1. s.epoch \in Nat /\ s.revision \in Nat /\ state.epoch \in Nat /\ state.revision \in Nat
  BY DomainAssumption DEF ServerPast, ServiceInv, Legal, StateRecords, Epochs
<1>2. s.epoch <= state.epoch /\ (s.epoch = state.epoch => s.revision <= state.revision)
  BY DEF ServerPast, Ordered
<1>3. QED
  BY <1>1, <1>2 DEF Older, Stamp

\* A call that is being answered.
LEMMA AnswerInOrder ==
  ASSUME CallsTyped, NEW r \in Requests, InOrder(r), NEW response, NEW s, NEW q, NEW before,
         Stamp(s) \in Nat \X Nat, Stamp(before) \in Nat \X Nat, Stamp(q) \in Nat \X Nat,
         state = before, state' = s, ~Older(Stamp(s), Stamp(before)), ~Older(Stamp(before), Stamp(q)),
         Answer(r, response, Stamp(s)), Reach(response) = Stamp(s),
         cache' = cache, cache = NoSnapshot \/ cache.state = q
  PROVE  InOrder(r)'
<1>1. floor[r] \in Nat \X Nat
  BY DEF CallsTyped
<1>2. ~Older(Stamp(s), floor[r])
  BY <1>1, OlderOrder DEF InOrder
<1>3. floor'[r] \in {floor[r], Stamp(s)} /\ answer'[r] = response
  BY DEF Answer, CallsTyped
<1>4. ~Older(Stamp(s), floor'[r])
  BY <1>1, <1>2, <1>3, OlderOrder
<1>5. ~Older(Stamp(s), Stamp(q))
  BY OlderOrder
<1>6. cache' # NoSnapshot => ~Older(Reach(answer'[r]), Stamp(cache'.state))
  BY <1>3, <1>5
<1>7. PICK n : n = answer'[r] /\ n = response
  BY <1>3
<1>8. ~Older(Reach(n), floor'[r])
  BY <1>4, <1>7
<1>9. QED
  BY <1>4, <1>6, <1>7, <1>8 DEF InOrder

\* A call the step leaves alone, or ends.
LEMMA StaysInOrder ==
  ASSUME CallsTyped, NEW r \in Requests, InOrder(r), NEW s, NEW before,
         Stamp(s) \in Nat \X Nat, Stamp(before) \in Nat \X Nat,
         state = before, state' = s, ~Older(Stamp(s), Stamp(before)),
         \/ floor'[r] = floor[r]
         \/ floor'[r] \in {Origin, Stamp(s)} /\ answer'[r] = NoAnswer,
         \/ answer'[r] = NoAnswer
         \/ answer'[r] = answer[r] /\ (raced'[r] \/ (cache' = cache /\ raced'[r] = raced[r]))
  PROVE  InOrder(r)'
<1>1. floor[r] \in Nat \X Nat /\ Origin \in Nat \X Nat
  BY DEF CallsTyped, Origin
<1>2. ~Older(Stamp(s), floor[r]) /\ ~Older(Stamp(s), Origin)
  BY <1>1, OlderOrder DEF InOrder, Older, Origin
<1>3. ~Older(Stamp(s), floor'[r])
  BY <1>2, OlderOrder
<1>4. CASE answer'[r] = NoAnswer
  BY <1>3, <1>4 DEF InOrder
<1>5. CASE answer'[r] # NoAnswer
  <2>1. answer'[r] = answer[r] /\ floor'[r] = floor[r]
        /\ (raced'[r] \/ (cache' = cache /\ raced'[r] = raced[r]))
    BY <1>5
  <2>2. PICK a : a = answer[r]
    OBVIOUS
  <2>3. ~Older(Reach(a), floor'[r])
    BY <1>5, <2>1, <2>2 DEF InOrder
  <2>4. ~raced'[r] /\ cache' # NoSnapshot => ~Older(Reach(a), Stamp(cache'.state))
    BY <1>5, <2>1, <2>2 DEF InOrder
  <2>5. QED
    BY <1>3, <2>1, <2>2, <2>3, <2>4 DEF InOrder
<1>6. QED
  BY <1>4, <1>5

LEMMA CacheStamp ==
  ASSUME ServiceInv, Ordered, NEW Past, ServerPast(Past), ClientPast(Past), cache # NoSnapshot
  PROVE  Stamp(cache.state) \in Nat \X Nat /\ ~Older(Stamp(state), Stamp(cache.state))
<1>1. PICK s \in Past : cache = FullSnapshot(s)
  BY DEF ClientPast, CachedFrom
<1>2. cache.state = s
  BY <1>1 DEF FullSnapshot
<1>3. QED
  BY <1>2, PastIsOlder

LEMMA OrderedStep ==
  ASSUME ~ClockMayGoBack, ClientInv, Ordered, [Next]_vars, NEW r \in Requests
  PROVE  InOrder(r)'
<1>1. ServiceInv /\ CallsTyped /\ CallsTyped' /\ [ServiceNext]_serviceVars /\ InOrder(r)
  BY CallsTypedStep, ServiceMoves DEF ClientInv, Ordered
<1>2. ServiceInv'
  BY <1>1, ServiceInvStep
<1>3. PICK Past : ServerPast(Past) /\ ClientPast(Past)
  BY DEF ClientInv
<1>4. PICK before, s : state = before /\ state' = s
  OBVIOUS
<1>5. Stamp(s) \in Nat \X Nat /\ Stamp(before) \in Nat \X Nat
  BY <1>1, <1>2, <1>4, StampType DEF ServiceInv
<1>6. ~Older(Stamp(s), Stamp(before))
  BY <1>1, <1>4, ServerGoesOn
<1>7. PICK q : /\ Stamp(q) \in Nat \X Nat /\ ~Older(Stamp(before), Stamp(q))
               /\ cache = NoSnapshot \/ cache.state = q
  <2>1. CASE cache = NoSnapshot
    BY <1>5, <2>1, OlderOrder
  <2>2. CASE cache # NoSnapshot
    BY <1>1, <1>3, <1>4, <2>2, CacheStamp
  <2>3. QED
    BY <2>1, <2>2
<1>8. /\ floor[r] \in Nat \X Nat /\ answer[r] = NoAnswer <=> phase[r] # "answered"
  BY <1>1 DEF CallsTyped
<1>9. ASSUME NEW c \in Requests, GetState(c) \/ PostControl(c) \/ MutateCells(c)
      PROVE  InOrder(r)'
  <2>1. /\ floor' = floor /\ answer' = answer /\ cache' = cache
        /\ c # r => raced'[r] = raced[r]
        /\ c = r => answer[r] = NoAnswer
    BY <1>1, <1>9 DEF GetState, PostControl, MutateCells, Send, CallsTyped, Idle
  <2>2. QED
    BY <1>1, <1>4, <1>5, <1>6, <2>1, StaysInOrder
<1>10. ASSUME NEW c \in Requests, ServeState(c) \/ ServeSnapshot(c) PROVE InOrder(r)'
  <2>1. PICK response \in {FullSnapshot(state), CompactUpdate(state)} :
            /\ response \in Responses /\ Answer(c, response, Stamp(state))
            /\ UNCHANGED <<serviceVars, cache, full, raced, faults>>
    BY <1>1, <1>10, Served
  <2>2. Reach(response) = Stamp(s) /\ s = before
    BY <1>4, <2>1, ReachOf DEF serviceVars
  <2>3. CASE c = r
    BY <1>1, <1>4, <1>5, <1>6, <1>7, <2>1, <2>2, <2>3, AnswerInOrder
  <2>4. CASE c # r
    <3>1. floor'[r] = floor[r] /\ answer'[r] = answer[r]
      BY <1>1, <2>1, <2>4 DEF Answer, CallsTyped
    <3>2. QED
      BY <1>1, <1>4, <1>5, <1>6, <2>1, <3>1, StaysInOrder
  <2>5. QED
    BY <2>3, <2>4
<1>11. ASSUME NEW c \in Requests, ServeCells(c) PROVE InOrder(r)'
  <2>1. /\ EditOf(before, s) /\ Answer(c, Delta(before, s), Stamp(s))
        /\ UNCHANGED <<cache, full, raced, faults>>
    BY <1>1, <1>4, <1>11, CellsServed
  <2>2. Reach(Delta(before, s)) = Stamp(s)
    BY <2>1, ReachOf DEF EditOf
  <2>3. CASE c = r
    BY <1>1, <1>4, <1>5, <1>6, <1>7, <2>1, <2>2, <2>3, AnswerInOrder
  <2>4. CASE c # r
    <3>1. floor'[r] = floor[r] /\ answer'[r] = answer[r]
      BY <1>1, <2>1, <2>4 DEF Answer, CallsTyped
    <3>2. QED
      BY <1>1, <1>4, <1>5, <1>6, <2>1, <3>1, StaysInOrder
  <2>5. QED
    BY <2>3, <2>4
<1>12. ASSUME NEW c \in Requests, ServeControl(c) PROVE InOrder(r)'
  <2>1. /\ answer' = answer /\ cache' = cache /\ raced' = raced
        /\ c # r => floor'[r] = floor[r]
        /\ c = r => answer[r] = NoAnswer /\ floor'[r] = Stamp(s)
    BY <1>1, <1>4, <1>12 DEF ServeControl, CallsTyped
  <2>2. QED
    BY <1>1, <1>4, <1>5, <1>6, <2>1, StaysInOrder
<1>13. ASSUME NEW c \in Requests, Receive(c) PROVE InOrder(r)'
  <2>1. Received(c, Past) /\ answer[c] # NoAnswer
    BY <1>1, <1>3, <1>13, ReceivedFrom
       DEF Receive, ReceiveSnapshot, ReceiveUpdate, ReceiveDelta, CallsTyped
  <2>2. c = r => answer'[r] = NoAnswer /\ floor'[r] \in {floor[r], Origin}
    BY <1>1, <2>1 DEF Received, Refresh, Finish, CallsTyped
  <2>3. c # r => answer'[r] = answer[r] /\ floor'[r] = floor[r]
    BY <1>1, <2>1 DEF Received, Refresh, Finish, CallsTyped
  <2>4. ASSUME c # r, answer[r] # NoAnswer
        PROVE  raced'[r] \/ (cache' = cache /\ raced'[r] = raced[r])
    <3>1. phase[r] = "answered"
      BY <1>8, <2>4
    <3>2. Refresh(c) \/ Keep(c) \/ \E next : Assign(c, next)
      BY <2>1 DEF Received, Install
    <3>3. QED
      BY <1>1, <2>4, <3>1, <3>2 DEF Refresh, Keep, Assign, CallsTyped
  <2>5. QED
    BY <1>1, <1>4, <1>5, <1>6, <2>2, <2>3, <2>4, StaysInOrder
<1>14. CASE RestartServer \/ \E c \in Requests : Refuse(c) \/ Fail(c)
  <2>1. cache' = cache /\ \E ended : Dropped(ended)
    BY <1>14 DEF RestartServer, Refuse, Fail
  <2>2. \/ answer'[r] = NoAnswer /\ floor'[r] = Origin
        \/ answer'[r] = answer[r] /\ floor'[r] = floor[r] /\ raced'[r] = raced[r]
    BY <1>1, <2>1 DEF Dropped, Finish, CallsTyped
  <2>3. QED
    BY <1>1, <1>4, <1>5, <1>6, <2>1, <2>2, StaysInOrder
<1>15. CASE Tick \/ UNCHANGED vars
  <2>1. answer' = answer /\ floor' = floor /\ raced' = raced /\ cache' = cache
    BY <1>15 DEF Tick, vars, clientVars
  <2>2. QED
    BY <1>1, <1>4, <1>5, <1>6, <2>1, StaysInOrder
<1>16. QED
  BY <1>9, <1>10, <1>11, <1>12, <1>13, <1>14, <1>15 DEF Next, Serve

\* What the cache holds after a step, against what it held and what a call that
\* ends has seen.
LEMMA CacheGoesOn ==
  ASSUME ClientInv, Ordered, NEW r \in Requests, Receive(r), ~Refresh(r)
  PROVE  /\ cache' # NoSnapshot /\ ~Older(Stamp(cache'.state), floor[r])
         /\ cache # NoSnapshot => ~Older(Stamp(cache'.state), Stamp(cache.state))
<1>1. ServiceInv /\ CallsTyped /\ InOrder(r) /\ floor[r] \in Nat \X Nat
  BY DEF ClientInv, Ordered, CallsTyped
<1>2. PICK Past : ServerPast(Past) /\ ClientPast(Past)
  BY DEF ClientInv
<1>3. Received(r, Past) /\ answer[r] # NoAnswer
  BY <1>1, <1>2, ReceivedFrom
     DEF Receive, ReceiveSnapshot, ReceiveUpdate, ReceiveDelta, CallsTyped
<1>4. PICK s \in Past :
        \/ answer[r] \in {FullSnapshot(s), CompactUpdate(s)} /\ Install(r, FullSnapshot(s))
        \/ \E before \in Past :
              /\ EditOf(before, s) /\ answer[r] = Delta(before, s)
              /\ cache = FullSnapshot(before) /\ Assign(r, FullSnapshot(s))
  BY <1>3 DEF Received
<1>5. Legal(s) /\ Stamp(s) \in Nat \X Nat
  BY <1>2, StampType DEF ServerPast
<1>6. Reach(answer[r]) = Stamp(s)
  BY <1>4, ReachOf DEF EditOf
<1>7. ~Older(Stamp(s), floor[r])
  BY <1>1, <1>3, <1>6 DEF InOrder
<1>8. FullSnapshot(s).state = s /\ FullSnapshot(s) # NoSnapshot
  BY <1>5, ResponseTypes, BackendAssumption DEF FullSnapshot
<1>9. CASE Keep(r) /\ IsStale(r, FullSnapshot(s))
  <2>1. cache' = cache /\ cache # NoSnapshot /\ Older(Stamp(s), Stamp(cache.state))
    BY <1>8, <1>9 DEF Keep, IsStale
  <2>2. Stamp(cache.state) \in Nat \X Nat
    BY <1>1, <1>2, <2>1, CacheStamp
  <2>3. ~Older(Stamp(cache.state), floor[r]) /\ ~Older(Stamp(cache.state), Stamp(cache.state))
    BY <1>1, <1>5, <1>7, <2>1, <2>2, OlderOrder
  <2>4. QED
    BY <2>1, <2>3
<1>10. ASSUME Assign(r, FullSnapshot(s)),
              cache # NoSnapshot => ~Older(Stamp(s), Stamp(cache.state))
       PROVE  /\ cache' # NoSnapshot /\ ~Older(Stamp(cache'.state), floor[r])
              /\ cache # NoSnapshot => ~Older(Stamp(cache'.state), Stamp(cache.state))
  BY <1>7, <1>8, <1>10 DEF Assign
<1>11. CASE Assign(r, FullSnapshot(s)) /\ ~IsStale(r, FullSnapshot(s))
  <2>1. raced[r] /\ cache # NoSnapshot => ~Older(Stamp(s), Stamp(cache.state))
    BY <1>8, <1>11 DEF IsStale
  <2>2. ~raced[r] /\ cache # NoSnapshot => ~Older(Stamp(s), Stamp(cache.state))
    BY <1>1, <1>3, <1>6 DEF InOrder
  <2>3. QED
    BY <1>10, <1>11, <2>1, <2>2
<1>12. ASSUME NEW before \in Past, EditOf(before, s), cache = FullSnapshot(before),
              Assign(r, FullSnapshot(s))
       PROVE  cache # NoSnapshot => ~Older(Stamp(s), Stamp(cache.state))
  <2>1. cache.state = before
    BY <1>12 DEF FullSnapshot
  <2>2. Counts(before, s) /\ before.epoch \in Nat /\ before.revision \in Nat
    BY <1>2, <1>12, DomainAssumption DEF EditOf, ServerPast, Legal, StateRecords, Epochs
  <2>3. QED
    BY <2>1, <2>2 DEF Counts, Older, Stamp
<1>13. QED
  BY <1>4, <1>9, <1>10, <1>11, <1>12 DEF Install

LEMMA OrderedInvStep ==
  ASSUME ~ClockMayGoBack, ClientInv, Ordered, [Next]_vars
  PROVE  Ordered'
<1>1. ServiceInv /\ [ServiceNext]_serviceVars
  BY ServiceMoves DEF ClientInv
<1>2. \A e \in epochs' : e <= state'.epoch
  BY <1>1, ServerGoesOn
<1>3. QED
  BY <1>2, OrderedStep DEF Ordered

LEMMA OrderedInit == Init => Ordered
<1> SUFFICES ASSUME Init PROVE Ordered
  OBVIOUS
<1>1. PICK epoch \in Epochs : state = FreshState(epoch) /\ epochs = {epoch}
  BY DEF Init, ServiceInit
<1>2. state.epoch = epoch /\ state.revision = 0 /\ epoch \in Nat \ {0}
  BY <1>1, DomainAssumption DEF FreshState, Epochs
<1>3. \A e \in epochs : e <= state.epoch
  BY <1>1, <1>2
<1>4. \A r \in Requests : InOrder(r)
  BY <1>2 DEF Init, InOrder, Stamp, Older, Origin
<1>5. QED
  BY <1>3, <1>4 DEF Ordered

\* While the clock does not go back, what the client shows never goes back to an
\* older state, whatever answers overtake each other
\* (HttpBackend!CacheNeverRegresses).
THEOREM ViewNeverRegresses ==
  ASSUME ~ClockMayGoBack
  PROVE  Spec => CacheNeverRegresses
<1>1. ASSUME ClientInv, Ordered, [Next]_vars
      PROVE  [cache # NoSnapshot =>
                cache' # NoSnapshot /\ ~Older(Stamp(cache'.state), Stamp(cache.state))]_vars
  <2>1. SUFFICES ASSUME cache # NoSnapshot
        PROVE  cache' # NoSnapshot /\ ~Older(Stamp(cache'.state), Stamp(cache.state))
    OBVIOUS
  <2>2. PICK Past : ServerPast(Past) /\ ClientPast(Past)
    BY <1>1 DEF ClientInv
  <2>3. CASE cache' = cache
    <3>1. Stamp(cache.state) \in Nat \X Nat
      BY <1>1, <2>1, <2>2, CacheStamp DEF ClientInv
    <3>2. QED
      BY <2>1, <2>3, <3>1, OlderOrder
  <2>4. ASSUME cache' # cache
        PROVE  cache' # NoSnapshot /\ ~Older(Stamp(cache'.state), Stamp(cache.state))
    <3>1. PICK r \in Requests : Receive(r)
      BY <1>1, <2>4, CacheStep
    <3>2. ~Refresh(r)
      BY <2>4 DEF Refresh
    <3>3. QED
      BY <1>1, <2>1, <3>1, <3>2, CacheGoesOn
  <2>5. QED
    BY <2>3, <2>4
<1>2. QED
  BY <1>1, ClientInvInit, ClientInvStep, OrderedInit, OrderedInvStep, PTL
     DEF Spec, CacheNeverRegresses

\* When a command or edit completes, the client shows its effect or something
\* newer, whatever else was in flight (HttpBackend!SeesOwnCall).
THEOREM CallsSeeThemselves ==
  ASSUME ~ClockMayGoBack
  PROVE  Spec => SeesOwnCall
<1>1. ASSUME ClientInv, Ordered, [Next]_vars
      PROVE  [\A r \in Requests :
                 phase[r] = "answered" /\ phase'[r] = "idle" /\ faults' = faults =>
                    ~Older(Stamp(cache'.state), floor[r])]_vars
  <2>1. SUFFICES ASSUME NEW r \in Requests,
                        phase[r] = "answered", phase'[r] = "idle", faults' = faults
                 PROVE  ~Older(Stamp(cache'.state), floor[r])
    OBVIOUS
  <2>2. Receive(r) /\ ~Refresh(r)
    <3>1. CallsTyped /\ faults \in Nat
      BY <1>1, BackendAssumption DEF ClientInv
    <3>2. ASSUME NEW c \in Requests, Receive(c) PROVE c = r
      <4>1. Refresh(c) \/ Finish({c})
        BY <3>2 DEF Receive, ReceiveSnapshot, ReceiveUpdate, ReceiveDelta
      <4>2. QED
        BY <2>1, <3>1, <4>1 DEF Refresh, Finish, CallsTyped
    <3>3. \E c \in Requests : Receive(c)
      <4>1. ASSUME NEW c \in Requests, GetState(c) \/ PostControl(c) \/ MutateCells(c)
            PROVE  FALSE
        BY <2>1, <3>1, <4>1 DEF GetState, PostControl, MutateCells, Send, Idle, CallsTyped
      <4>2. ASSUME NEW c \in Requests, Serve(c) PROVE FALSE
        <5>1. CASE Refuse(c)
          <6>1. Finish({c}) /\ phase[c] # "answered"
            BY <5>1 DEF Refuse, Dropped
          <6>2. QED
            BY <2>1, <3>1, <6>1 DEF Finish, CallsTyped
        <5>2. CASE ~Refuse(c)
          <6>1. \E p \in {"answered", "snapshot"} : phase' = [phase EXCEPT ![c] = p]
            BY <4>2, <5>2 DEF Serve, ServeState, ServeControl, ServeSnapshot, ServeCells, Answer
          <6>2. QED
            BY <2>1, <3>1, <6>1 DEF CallsTyped
        <5>3. QED
          BY <5>1, <5>2
      <4>3. CASE Tick \/ UNCHANGED vars
        BY <2>1, <4>3 DEF Tick, vars, clientVars
      <4>4. CASE RestartServer \/ \E c \in Requests : Fail(c)
        <5>1. faults' = faults + 1
          BY <4>4, Zenon DEF RestartServer, Fail
        <5>2. QED
          BY <2>1, <3>1, <5>1
      <4>5. QED
        BY <1>1, <4>1, <4>2, <4>3, <4>4 DEF Next
    <3>4. ~Refresh(r)
      BY <2>1, <3>1 DEF Refresh, CallsTyped
    <3>5. QED
      BY <3>2, <3>3, <3>4
  <2>3. QED
    BY <1>1, <2>2, CacheGoesOn
<1>2. QED
  BY <1>1, ClientInvInit, ClientInvStep, OrderedInit, OrderedInvStep, PTL
     DEF Spec, SeesOwnCall

-------------------------------------------------------------------------------
(***************************************************************************)
(* A board evolving. A cycle reported by iter_trajectory is the            *)
(* evolution's, whatever Generation does: the first proof looks only at    *)
(* the bookkeeping around it.                                              *)
(***************************************************************************)

(* A filmstrip that goes on past the repetition reads the cycle modulo its  *)
(* period: what division with rest is.                                     *)

LEMMA DivMod ==
    ASSUME NEW a \in Nat, NEW p \in Nat \ {0}
    PROVE  a % p \in 0 .. p - 1 /\ a = p * (a \div p) + (a % p) /\ a \div p \in Int
  OBVIOUS

\* A rest is unique.
LEMMA SameRest ==
    ASSUME NEW q1 \in Int, NEW q2 \in Int, NEW p \in Nat \ {0},
           NEW r1 \in 0 .. p - 1, NEW r2 \in 0 .. p - 1, p * q1 + r1 = p * q2 + r2
    PROVE  r1 = r2
  <1>1. CASE q1 = q2 BY <1>1
  <1>2. CASE q1 > q2
    <2>1. q1 >= q2 + 1 BY <1>2
    <2>2. p * q1 >= p * (q2 + 1) BY <2>1
    <2> QED BY <2>2
  <1>3. CASE q1 < q2
    <2>1. q2 >= q1 + 1 BY <1>3
    <2>2. p * q2 >= p * (q1 + 1) BY <2>1
    <2> QED BY <2>2
  <1> QED BY <1>1, <1>2, <1>3

LEMMA RestOf ==
    ASSUME NEW a \in Nat, NEW p \in Nat \ {0}, NEW q \in Int, NEW r \in 0 .. p - 1,
           a = p * q + r
    PROVE  a % p = r
  <1> DEFINE q2 == a \div p  r2 == a % p
  <1>1. r2 \in 0 .. p - 1 /\ a = p * q2 + r2 /\ q2 \in Int BY DivMod
  <1>2. p * q + r = p * q2 + r2 BY <1>1
  <1> HIDE DEF q2, r2
  <1>3. r = r2 BY <1>1, <1>2, SameRest
  <1> QED BY <1>3 DEF r2

\* The next generation is the next of the cycle, or its first.
LEMMA NextRest ==
    ASSUME NEW a \in Nat, NEW p \in Nat \ {0}
    PROVE  (a + 1) % p = IF a % p = p - 1 THEN 0 ELSE (a % p) + 1
  <1> DEFINE q == a \div p  r == a % p
  <1>1. r \in 0 .. p - 1 /\ a = p * q + r /\ q \in Int BY DivMod
  <1> HIDE DEF q, r
  <1>2. CASE r = p - 1
    <2>1. a + 1 = p * (q + 1) + 0 BY <1>1, <1>2
    <2>2. (a + 1) % p = 0 BY <1>1, <2>1, RestOf
    <2> QED BY <2>2, <1>2 DEF r
  <1>3. CASE r # p - 1
    <2>1. a + 1 = p * q + (r + 1) /\ r + 1 \in 0 .. p - 1 BY <1>1, <1>3
    <2>2. (a + 1) % p = r + 1 BY <1>1, <2>1, RestOf
    <2> QED BY <2>2, <1>3 DEF r
  <1> QED BY <1>2, <1>3

-------------------------------------------------------------------------------
After(b) == Generation(Rule[case], Here, b)

\* The generation of the last board remembered.
Last == IF period = None THEN generation ELSE cycleStart + period - 1

\* What is remembered is the evolution, generation by generation, no board twice.
Remembered ==
    /\ generation \in Nat
    /\ DOMAIN seen = 0 .. Last
    /\ \A g \in DOMAIN seen : g + 1 \in DOMAIN seen => seen[g + 1] = After(seen[g])
    /\ \A g, h \in DOMAIN seen : seen[g] = seen[h] => g = h

\* Before a repetition the board is the last one remembered.
Open == period = None => cycleStart = None /\ seen[generation] = board

\* After it, the board after the last one is the one the cycle starts with.
Closed ==
    period # None =>
      /\ period \in Nat \ {0} /\ cycleStart \in Nat
      /\ generation >= cycleStart + period
      /\ After(seen[Last]) = seen[cycleStart]
      /\ board = seen[cycleStart + ((generation - cycleStart) % period)]

IInv == Remembered /\ Open /\ Closed

LEMMA InitIInv == TrajectoryInit => IInv
  <1> SUFFICES ASSUME TrajectoryInit PROVE IInv OBVIOUS
  <1>1. /\ DOMAIN seen = 0 .. 0 /\ seen[0] = board
    BY DEF TrajectoryInit
  <1>2. generation = 0 /\ period = None /\ cycleStart = None
    BY DEF TrajectoryInit
  <1>3. Remembered BY <1>1, <1>2 DEF Remembered, Last
  <1> QED BY <1>1, <1>2, <1>3 DEF IInv, Open, Closed

\* SeenAt gives the generation of the board, if it was seen.
LEMMA SeenAtIs ==
    ASSUME NEW b, generation \in Nat, DOMAIN seen = 0 .. generation
    PROVE  /\ SeenAt(b) = None => \A g \in DOMAIN seen : seen[g] # b
           /\ SeenAt(b) # None => SeenAt(b) \in DOMAIN seen /\ seen[SeenAt(b)] = b
  <1> DEFINE at == {g \in DOMAIN seen : seen[g] = b}
  <1>1. CASE at = {}
    <2>1. SeenAt(b) = None BY <1>1 DEF SeenAt
    <2> QED BY <1>1, <2>1
  <1>2. CASE at # {}
    <2>1. SeenAt(b) = CHOOSE g \in at : TRUE BY <1>2 DEF SeenAt
    <2>2. SeenAt(b) \in at BY <1>2, <2>1
    <2>3. SeenAt(b) # None BY <2>2 DEF None
    <2> QED BY <2>2, <2>3
  <1> QED BY <1>1, <1>2

LEMMA StepIInv == IInv /\ Advance => IInv'
  <1> SUFFICES ASSUME IInv, Advance PROVE IInv' OBVIOUS
  <1>1. /\ board' = After(board) /\ generation' = generation + 1
        /\ Measure(board', generation') /\ generation \in Nat
    BY DEF Advance, IInv, Remembered, After
  <1>2. \A b : After(b)' = Generation(Rule[case], Here, b')
    BY DEF Advance, After, Here
  <1>s. ASSUME NEW g PROVE After(seen[g])' = Generation(Rule[case], Here, seen'[g])
    BY DEF Advance, After, Here
  <1>3. CASE period # None
    <2>1. UNCHANGED <<seen, cycleStart, period>> BY <1>1, <1>3 DEF Measure
    <2>2. /\ period \in Nat \ {0} /\ cycleStart \in Nat
          /\ generation >= cycleStart + period
          /\ After(seen[Last]) = seen[cycleStart]
          /\ board = seen[cycleStart + ((generation - cycleStart) % period)]
          /\ Last = cycleStart + period - 1 /\ DOMAIN seen = 0 .. Last
      BY <1>3 DEF IInv, Closed, Remembered, Last
    <2>3. Last' = Last BY <1>3, <2>1 DEF Last
    <2>4. Remembered'
      BY <1>1, <1>s, <2>1, <2>3 DEF IInv, Remembered, After
    <2>5. board' = seen[cycleStart + ((generation + 1 - cycleStart) % period)]
      <3> DEFINE a == generation - cycleStart  r == a % period
      <3>1. a \in Nat /\ generation + 1 - cycleStart = a + 1 BY <1>1, <2>2
      <3>2. r \in 0 .. period - 1 BY <3>1, <2>2, DivMod
      <3>3. (a + 1) % period = IF r = period - 1 THEN 0 ELSE r + 1
        BY <3>1, <2>2, NextRest
      <3>4. board = seen[cycleStart + r] BY <2>2
      <3> HIDE DEF a, r
      <3>5. CASE r = period - 1
        <4>1. cycleStart + r = Last /\ cycleStart + 0 = cycleStart BY <3>5, <2>2
        <4>2. board' = seen[cycleStart] BY <1>1, <2>2, <3>4, <4>1
        <4> QED BY <3>1, <3>3, <3>5, <4>1, <4>2
      <3>6. CASE r # period - 1
        <4>1. /\ cycleStart + r \in DOMAIN seen
              /\ cycleStart + r + 1 \in DOMAIN seen
              /\ cycleStart + (r + 1) = cycleStart + r + 1
          BY <3>2, <3>6, <2>2
        <4>2. seen[cycleStart + r + 1] = After(seen[cycleStart + r])
          BY <4>1 DEF IInv, Remembered
        <4> QED BY <1>1, <3>1, <3>3, <3>4, <3>6, <4>1, <4>2
      <3> QED BY <3>5, <3>6
    <2>6. Closed'
      BY <1>1, <1>s, <2>1, <2>2, <2>3, <2>5 DEF Closed, After
    <2> QED BY <1>3, <2>1, <2>4, <2>6 DEF IInv, Open
  <1>4. CASE period = None
    <2>1. /\ DOMAIN seen = 0 .. generation /\ Last = generation
          /\ cycleStart = None /\ seen[generation] = board
      BY <1>4 DEF IInv, Remembered, Open, Last
    <2>2. /\ SeenAt(board') = None => \A g \in DOMAIN seen : seen[g] # board'
          /\ SeenAt(board') # None =>
                SeenAt(board') \in DOMAIN seen /\ seen[SeenAt(board')] = board'
      BY <1>1, <2>1, SeenAtIs
    <2>3. CASE SeenAt(board') = None
      <3>1. /\ seen' = [n \in DOMAIN seen \cup {generation'} |->
                          IF n = generation' THEN board' ELSE seen[n]]
            /\ UNCHANGED <<cycleStart, period>>
        BY <1>1, <1>4, <2>3 DEF Measure
      <3>2. /\ DOMAIN seen' = 0 .. generation' /\ seen'[generation'] = board'
            /\ \A g \in DOMAIN seen : seen'[g] = seen[g]
        <4>1. generation' \notin DOMAIN seen BY <1>1, <2>1
        <4>2. DOMAIN seen' = DOMAIN seen \cup {generation'} BY <3>1
        <4>3. 0 .. generation' = (0 .. generation) \cup {generation'} BY <1>1
        <4>4. \A g \in DOMAIN seen : seen'[g] = seen[g] BY <3>1, <4>1
        <4>5. seen'[generation'] = board' BY <3>1, <4>1
        <4> QED BY <2>1, <4>2, <4>3, <4>4, <4>5
      <3>3. Last' = generation' BY <1>4, <3>1 DEF Last
      <3>4. ASSUME NEW g \in DOMAIN seen', g + 1 \in DOMAIN seen'
            PROVE  seen'[g + 1] = Generation(Rule[case], Here, seen'[g])
        <4>1. g \in DOMAIN seen BY <1>1, <2>1, <3>2, <3>4
        <4>2. CASE g = generation BY <1>1, <2>1, <3>2, <4>1, <4>2 DEF After
        <4>3. CASE g # generation
          <5>1. g + 1 \in DOMAIN seen BY <1>1, <2>1, <3>2, <3>4, <4>1, <4>3
          <5>2. seen[g + 1] = After(seen[g]) BY <4>1, <5>1 DEF IInv, Remembered
          <5> QED BY <3>2, <4>1, <5>1, <5>2 DEF After
        <4> QED BY <4>2, <4>3
      <3>5. \A g, h \in DOMAIN seen' : seen'[g] = seen'[h] => g = h
        <4> SUFFICES ASSUME NEW g \in DOMAIN seen', NEW h \in DOMAIN seen', seen'[g] = seen'[h]
                     PROVE g = h
          OBVIOUS
        <4>1. CASE g \in DOMAIN seen /\ h \in DOMAIN seen
          BY <4>1, <3>2 DEF IInv, Remembered
        <4>2. CASE g \notin DOMAIN seen \/ h \notin DOMAIN seen
          <5>1. \A k \in DOMAIN seen' : k \notin DOMAIN seen => k = generation'
            BY <1>1, <2>1, <3>2
          <5> QED BY <4>2, <5>1, <2>2, <2>3, <3>2
        <4> QED BY <4>1, <4>2
      <3>6. Remembered'
        BY <1>1, <1>s, <3>2, <3>3, <3>4, <3>5 DEF Remembered
      <3> QED BY <1>4, <2>1, <3>1, <3>2, <3>6 DEF IInv, Open, Closed
    <2>4. CASE SeenAt(board') # None
      <3> DEFINE s == SeenAt(board')
      <3>1. cycleStart' = s /\ period' = generation' - s /\ seen' = seen
        BY <1>1, <1>4, <2>4 DEF Measure
      <3>2. s \in 0 .. generation /\ seen[s] = board' BY <2>1, <2>2, <2>4
      <3> HIDE DEF s
      <3>3. period' \in Nat \ {0} /\ cycleStart' \in Nat /\ period' # None
        BY <1>1, <3>1, <3>2 DEF None
      <3>4. Last' = generation BY <1>1, <3>1, <3>2, <3>3 DEF Last
      <3>5. Remembered'
        BY <1>1, <1>s, <2>1, <3>1, <3>4 DEF IInv, Remembered, After
      <3>6. After(seen[Last])' = seen'[cycleStart']
        BY <1>1, <1>s, <2>1, <3>1, <3>2, <3>4 DEF After
      <3>7. (generation' - cycleStart') % period' = 0
        <4>1. generation' - cycleStart' = period' * 1 + 0 BY <1>1, <3>1, <3>2, <3>3
        <4> QED BY <3>3, <4>1, RestOf
      <3>8. Closed'
        BY <1>1, <3>1, <3>2, <3>3, <3>6, <3>7 DEF Closed
      <3> QED BY <3>3, <3>5, <3>8 DEF IInv, Open
    <2> QED BY <2>3, <2>4
  <1> QED BY <1>3, <1>4

LEMMA NextIInv == IInv /\ [TrajectoryNext]_trajectoryVars => IInv'
  <1> SUFFICES ASSUME IInv, [TrajectoryNext]_trajectoryVars PROVE IInv' OBVIOUS
  <1>1. CASE Advance BY <1>1, StepIInv
  <1>2. CASE UNCHANGED trajectoryVars
    BY <1>2 DEF trajectoryVars, IInv, Remembered, Open, Closed, Last, After, Here
  <1> QED BY <1>1, <1>2 DEF TrajectoryNext

(***************************************************************************)
(* iter_trajectory reports only real cycles: from cycleStart on, the board *)
(* of each generation is the one seen that far round the cycle, and no     *)
(* board was remembered twice.                                             *)
(***************************************************************************)
THEOREM ReportedCyclesAreReal == TrajectorySpec => []CyclesAreReal
  <1>1. IInv => CyclesAreReal
    BY DEF IInv, Remembered, Open, Closed, CyclesAreReal, Last
  <1> QED BY <1>1, InitIInv, NextIInv, PTL DEF TrajectorySpec

-------------------------------------------------------------------------------
(* The two statements of a rule. *)

\* The pass over the board gives each cell what the rule says of it alone,
\* for the rules that only look at adjacency.
THEOREM BatchAgreesOnAdjacency ==
    ASSUME NEW rule \in Registry \ {Whirlpool}, NEW topology,
           NEW b \in [topology.cells -> rule.states],
           NEW c \in topology.cells, topology.adjacent[c] \subseteq topology.cells
    PROVE  Generation(rule, topology, b)[c] = NextState(rule, topology, b, c)
  <1>1. CASE rule.style = "life"
    <2>1. rule.states = 0 .. 1 BY <1>1 DEF Registry, Conway, HighLife, HexLife, TriLife,
            LifeB2S23, LifeRule, KagomeLife, ArchLife488, ArchLife31212, ArchLife3464,
            ArchLife4612, ArchLife33434, ArchLife33344, KindRule, WireWorld, Excitable
    <2> QED BY <1>1, <2>1 DEF Generation, NextState, BinaryLifeBatch, ApplyBinaryLife
  <1>2. CASE rule.style = "kind"
    BY <1>2 DEF Generation, NextState, BinaryLifeBatch, ApplyBinaryLife
  <1>3. CASE rule = WireWorld
    <2>1. rule.style = "wireworld" /\ b[c] \in 0 .. 3 BY <1>3 DEF WireWorld
    <2> QED BY <2>1 DEF Generation, NextState, WireWorldBatch, WireNext
  <1>4. CASE rule = Excitable
    <2>1. rule.style = "excitable" /\ b[c] \in 0 .. 3 BY <1>4 DEF Excitable
    <2> DEFINE lit == {n \in topology.cells : b[n] = Excited}
               found == \E n \in topology.adjacent[c] : b[n] = Excited
    <2>2. (topology.adjacent[c] \cap lit # {}) <=> found OBVIOUS
    <2>3. Generation(rule, topology, b)[c] =
            CASE b[c] = Excited -> Trailing [] b[c] = Trailing -> Refractory
              [] b[c] = Refractory -> Resting
              [] OTHER -> IF topology.adjacent[c] \cap lit # {} THEN Excited ELSE Resting
      BY <2>1 DEF Generation, ExcitableBatch
    <2>4. NextState(rule, topology, b, c) = ExcitableNext(topology, b, c)
      BY <2>1 DEF NextState
    <2> HIDE DEF lit
    <2> QED BY <2>1, <2>2, <2>3, <2>4 DEF ExcitableNext, Resting, Excited, Trailing, Refractory
  <1> QED BY <1>1, <1>2, <1>3, <1>4 DEF Registry, Conway, HighLife, HexLife, TriLife,
            LifeB2S23, LifeRule, KagomeLife, ArchLife488, ArchLife31212, ArchLife3464,
            ArchLife4612, ArchLife33434, ArchLife33344, KindRule

\* What the rules of the registry are, by style.
LEMMA RegistryStyles ==
    ASSUME NEW rule \in Registry
    PROVE  \/ rule.style = "life" /\ rule.states = 0 .. 1 /\ 0 \notin rule.births
           \/ /\ rule.style = "kind" /\ rule.states = 0 .. 1
              /\ \A k : 0 \notin rule.births[ResolveKind(rule, k)]
           \/ rule = WireWorld \/ rule = Excitable \/ rule = Whirlpool
  <1>1. \/ rule.style = "life" /\ rule.states = 0 .. 1 /\ 0 \notin rule.births
        \/ rule \in {KagomeLife, ArchLife488, ArchLife31212, ArchLife3464, ArchLife4612,
                    ArchLife33434, ArchLife33344}
        \/ rule = WireWorld \/ rule = Excitable \/ rule = Whirlpool
    BY DEF Registry, Conway, HighLife, HexLife, TriLife, LifeB2S23, LifeRule
  <1>2. ASSUME rule \in {KagomeLife, ArchLife488, ArchLife31212, ArchLife3464, ArchLife4612,
                        ArchLife33434, ArchLife33344}
        PROVE  /\ rule.style = "kind" /\ rule.states = 0 .. 1
               /\ \A k \in DOMAIN rule.births : 0 \notin rule.births[k]
               /\ rule.default \in DOMAIN rule.births
    <2>1. CASE rule = KagomeLife BY <2>1 DEF KagomeLife, KindRule
    <2>2. CASE rule = ArchLife488 BY <2>2 DEF ArchLife488, KindRule
    <2>3. CASE rule = ArchLife31212 BY <2>3 DEF ArchLife31212, KindRule
    <2>4. CASE rule = ArchLife3464 BY <2>4 DEF ArchLife3464, KindRule
    <2>5. CASE rule = ArchLife4612 BY <2>5 DEF ArchLife4612, KindRule
    <2>6. CASE rule = ArchLife33434 BY <2>6 DEF ArchLife33434, KindRule
    <2>7. CASE rule = ArchLife33344 BY <2>7 DEF ArchLife33344, KindRule
    <2> QED BY <1>2, <2>1, <2>2, <2>3, <2>4, <2>5, <2>6, <2>7
  <1>3. ASSUME NEW k, rule.default \in DOMAIN rule.births
        PROVE  ResolveKind(rule, k) \in DOMAIN rule.births
    BY <1>3 DEF ResolveKind
  <1> QED BY <1>1, <1>2, <1>3

\* The next board holds states of the rule.
LEMMA GenerationTyped ==
    ASSUME NEW rule \in Registry, NEW topology, NEW b \in [topology.cells -> rule.states]
    PROVE  Generation(rule, topology, b) \in [topology.cells -> rule.states]
  <1>1. CASE rule.style = "life" /\ rule.states = 0 .. 1
    BY <1>1 DEF Generation, BinaryLifeBatch
  <1>2. CASE rule.style = "kind" /\ rule.states = 0 .. 1
    BY <1>2 DEF Generation, BinaryLifeBatch
  <1>3. CASE rule = WireWorld
    <2>1. rule.style = "wireworld" /\ rule.states = 0 .. 3 BY <1>3 DEF WireWorld
    <2> QED BY <2>1 DEF Generation, WireWorldBatch
  <1>4. CASE rule = Excitable
    <2>1. rule.style = "excitable" /\ rule.states = 0 .. 3 BY <1>4 DEF Excitable
    <2>2. \A c \in topology.cells : Generation(rule, topology, b)[c] \in 0 .. 3
      BY <2>1 DEF Generation, ExcitableBatch, Resting, Excited, Trailing, Refractory
    <2>3. Generation(rule, topology, b) = ExcitableBatch(topology, b) BY <2>1 DEF Generation
    <2> QED BY <2>1, <2>2, <2>3 DEF ExcitableBatch
  <1>5. CASE rule = Whirlpool
    <2>1. rule.style = "whirlpool" /\ rule.states = 0 .. 4 BY <1>5 DEF Whirlpool
    <2>2. Generation(rule, topology, b) = WhirlpoolBatch(topology, b) BY <2>1 DEF Generation
    <2>3. \A c \in topology.cells : WhirlpoolBatch(topology, b)[c] \in 0 .. 4
      <3> SUFFICES ASSUME NEW c \in topology.cells
                   PROVE  WhirlpoolBatch(topology, b)[c] \in 0 .. 4
        OBVIOUS
      <3>1. b[c] \in {Source, Excited, Trailing, Refractory, Resting}
        BY <2>1 DEF Resting, Excited, Trailing, Refractory, Source
      <3>2. WhirlpoolBatch(topology, b)[c] \in {Source, Excited, Trailing, Refractory, Resting}
        BY <3>1 DEF WhirlpoolBatch
      <3> QED BY <3>2 DEF Resting, Excited, Trailing, Refractory, Source
    <2> QED BY <2>1, <2>2, <2>3 DEF WhirlpoolBatch
  <1> QED BY <1>1, <1>2, <1>3, <1>4, <1>5, RegistryStyles

\* Nothing is born on a board without a live cell.
LEMMA NothingFromNothing ==
    ASSUME NEW rule \in Registry, NEW topology,
           NEW b, \A n \in topology.cells : b[n] = 0,
           NEW c \in topology.cells, topology.adjacent[c] \subseteq topology.cells,
           rule = Whirlpool => \A l \in topology.frame[c].links : l.cell \in topology.cells
    PROVE  Generation(rule, topology, b)[c] = 0
  <1>1. CountLive(topology, b, c) = 0
    <2>1. {n \in topology.adjacent[c] : b[n] # 0} = {} OBVIOUS
    <2> QED BY <2>1, FS_EmptySet DEF CountLive
  <1>2. CASE rule.style = "life" /\ rule.states = 0 .. 1 /\ 0 \notin rule.births
    BY <1>1, <1>2 DEF Generation, BinaryLifeBatch
  <1>3. CASE rule.style = "kind" /\ \A k : 0 \notin rule.births[ResolveKind(rule, k)]
    BY <1>1, <1>3 DEF Generation, BinaryLifeBatch
  <1>4. CASE rule = WireWorld
    BY <1>4 DEF Generation, WireWorldBatch, WireWorld
  <1>5. CASE rule = Excitable
    <2>1. rule.style = "excitable" BY <1>5 DEF Excitable
    <2>2. {n \in topology.cells : b[n] = Excited} = {} BY DEF Excited
    <2>3. Generation(rule, topology, b) = ExcitableBatch(topology, b) BY <2>1 DEF Generation
    <2> QED BY <2>2, <2>3 DEF ExcitableBatch, Resting, Excited, Trailing, Refractory
  <1>6. CASE rule = Whirlpool
    <2>1. Generation(rule, topology, b) = WhirlpoolBatch(topology, b)
      BY <1>6 DEF Whirlpool, Generation
    <2> DEFINE tally == Tally(topology, b)
    <2>2. tally[c].inward = 0 /\ tally[c].clockwise = 0 /\ tally[c].total = 0
          /\ tally[c].wakeIn = 0 /\ tally[c].wakeClock = 0
      <3> DEFINE links == topology.frame[c].links
                 lies(s, r) == Cardinality({l \in links : b[l.cell] = s /\ l.radial = r})
                 turns(s, t) == Cardinality({l \in links : b[l.cell] = s /\ l.turn = t})
      <3>1. \A l \in links : b[l.cell] = 0 BY <1>6
      <3>2. ASSUME NEW s, NEW r, s # 0 PROVE lies(s, r) = 0
        <4>1. {l \in links : b[l.cell] = s /\ l.radial = r} = {} BY <3>1, <3>2
        <4> QED BY <4>1, FS_EmptySet
      <3>3. ASSUME NEW s, NEW t, s # 0 PROVE turns(s, t) = 0
        <4>1. {l \in links : b[l.cell] = s /\ l.turn = t} = {} BY <3>1, <3>3
        <4> QED BY <4>1, FS_EmptySet
      <3>4. CountNeighbors(topology, b, c, Excited) = 0
        <4>1. {n \in topology.adjacent[c] : b[n] = Excited} = {} BY DEF Excited
        <4> QED BY <4>1, FS_EmptySet DEF CountNeighbors
      <3>5. \A f : Tabulated(f) = f BY DEF Tabulated
      <3>6. tally[c] = TallyOf(topology, b, c) BY <3>5 DEF Tally
      <3>7. /\ TallyOf(topology, b, c).inward = lies(Excited, "inward")
            /\ TallyOf(topology, b, c).clockwise = turns(Excited, "clockwise")
            /\ TallyOf(topology, b, c).total = CountNeighbors(topology, b, c, Excited)
            /\ TallyOf(topology, b, c).wakeIn = lies(Trailing, "inward")
            /\ TallyOf(topology, b, c).wakeClock = turns(Trailing, "clockwise")
        BY DEF TallyOf
      <3> HIDE DEF tally, lies, turns
      <3>8. lies(Excited, "inward") = 0 /\ lies(Trailing, "inward") = 0
        BY <3>2 DEF Excited, Trailing
      <3>9. turns(Excited, "clockwise") = 0 /\ turns(Trailing, "clockwise") = 0
        BY <3>3 DEF Excited, Trailing
      <3> QED BY <3>4, <3>6, <3>7, <3>8, <3>9
    <2>3. c \notin Pulsed(topology, b, tally)
      <3> HIDE DEF tally
      <3>1. {s \in topology.cells : b[s] = Source} = {} BY DEF Source
      <3> QED BY <3>1 DEF Pulsed
    <2> HIDE DEF tally
    <2>4. ~EyeLit(topology, tally[c], c) BY <2>2 DEF EyeLit
    <2>5. \A zone : ~ShouldExciteFrom(zone, tally[c]) BY <2>2 DEF ShouldExciteFrom, Least
    <2>6. ~Lights(topology, tally[c], c) BY <2>4, <2>5 DEF Lights
    <2> QED BY <2>1, <2>3, <2>6 DEF WhirlpoolBatch, tally,
              Resting, Excited, Trailing, Refractory, Source
  <1> QED BY <1>2, <1>3, <1>4, <1>5, <1>6, RegistryStyles

\* A board that is kept to the states of its rule, and empty for good once an
\* extinction was recorded.
BoardOfRule == case \in Cases /\ board \in [Here.cells -> Rule[case].states]
Extinct == extinction # None => \A c \in Here.cells : board[c] = 0

QInv == BoardOfRule /\ Extinct

\* On a finite board no population means no live cell.
LEMMA NoPopulation ==
    ASSUME NEW n \in Cases, NEW b, DOMAIN b = Topology[n].cells
    PROVE  Population(b) = 0 <=> \A c \in Topology[n].cells : b[c] = 0
  <1> DEFINE alive == {c \in DOMAIN b : b[c] # 0}
  <1>1. IsFiniteSet(DOMAIN b) BY TopologyAssumption
  <1>2. IsFiniteSet(alive) BY <1>1, FS_Subset
  <1>3. Cardinality(alive) = 0 <=> alive = {} BY <1>2, FS_EmptySet
  <1>4. Population(b) = Cardinality(alive) BY DEF Population
  <1> QED BY <1>3, <1>4

LEMMA InitQInv == TrajectoryInit => QInv
  <1> SUFFICES ASSUME TrajectoryInit PROVE QInv OBVIOUS
  <1>1. BoardOfRule BY SeedsAssumption DEF TrajectoryInit, BoardOfRule, Here
  <1>2. DOMAIN board = Topology[case].cells /\ case \in Cases
    BY <1>1 DEF BoardOfRule, Here
  <1>3. extinction # None => Population(board) = 0 BY DEF TrajectoryInit
  <1>4. Extinct BY <1>2, <1>3, NoPopulation DEF Extinct, Here
  <1> QED BY <1>1, <1>4 DEF QInv

LEMMA StepQInv == QInv /\ Advance => QInv'
  <1> SUFFICES ASSUME QInv, Advance PROVE QInv' OBVIOUS
  <1>1. case \in Cases /\ case' = case /\ Here' = Here
    BY DEF Advance, QInv, BoardOfRule, Here
  <1>2. board' = Generation(Rule[case], Here, board) BY DEF Advance
  <1>3. board \in [Here.cells -> Rule[case].states] /\ Rule[case] \in Registry
    BY <1>1, RulesAssumption DEF QInv, BoardOfRule
  <1>4. board' \in [Here.cells -> Rule[case].states]
    BY <1>2, <1>3, GenerationTyped
  <1>5. BoardOfRule' BY <1>1, <1>4 DEF BoardOfRule
  <1>6. CASE extinction # None
    <2>1. \A c \in Here.cells : board[c] = 0 BY <1>6 DEF QInv, Extinct
    <2>2. \A c \in Here.cells : Here.adjacent[c] \subseteq Here.cells
      BY <1>1, TopologyAssumption DEF Here
    <2>3. Rule[case] = Whirlpool =>
            \A c \in Here.cells : \A l \in Here.frame[c].links : l.cell \in Here.cells
      <3>1. Rule[case] = Whirlpool => FrameFits(Here)
        BY <1>1, TopologyAssumption DEF Here
      <3> QED BY <2>2, <3>1 DEF FrameFits
    <2>4. \A c \in Here.cells : Generation(Rule[case], Here, board)[c] = 0
      BY <1>3, <2>1, <2>2, <2>3, NothingFromNothing
    <2> QED BY <1>1, <1>2, <1>5, <2>4 DEF QInv, Extinct
  <1>7. CASE extinction = None
    <2>1. extinction' # None => Population(board') = 0 BY <1>7 DEF Advance, Measure
    <2>2. DOMAIN board' = Topology[case].cells BY <1>4 DEF Here
    <2>3. Extinct'
      BY <1>1, <2>1, <2>2, NoPopulation DEF Extinct, Here
    <2> QED BY <1>5, <2>3 DEF QInv
  <1> QED BY <1>6, <1>7

LEMMA NextQInv == QInv /\ [TrajectoryNext]_trajectoryVars => QInv'
  <1>1. QInv /\ UNCHANGED trajectoryVars => QInv'
    BY DEF trajectoryVars, QInv, BoardOfRule, Extinct, Here
  <1> QED BY <1>1, StepQInv DEF TrajectoryNext

(***************************************************************************)
(* Whatever the rule of the registry and the board, every board of the     *)
(* evolution holds states of its rule.                                     *)
(***************************************************************************)
THEOREM BoardsHoldStates == TrajectorySpec => [](board \in [Here.cells -> Rule[case].states])
  <1>1. QInv => board \in [Here.cells -> Rule[case].states] BY DEF QInv, BoardOfRule
  <1> QED BY <1>1, InitQInv, NextQInv, PTL DEF TrajectorySpec

(***************************************************************************)
(* Extinction is final for every rule of the registry, on every finite     *)
(* topology: extinction_step never needs correcting.                       *)
(***************************************************************************)
THEOREM ExtinctBoardsStayEmpty == TrajectorySpec => ExtinctionIsFinal
  <1>1. ASSUME QInv, QInv', [TrajectoryNext]_trajectoryVars
        PROVE  [extinction # None => Population(board') = 0]_trajectoryVars
    <2> SUFFICES ASSUME Advance, extinction # None PROVE Population(board') = 0
      BY <1>1 DEF TrajectoryNext
    <2>1. extinction' # None BY DEF Advance, Measure, None
    <2>2. /\ case' \in Cases /\ DOMAIN board' = Topology[case'].cells
          /\ \A c \in Topology[case'].cells : board'[c] = 0
      BY <1>1, <2>1 DEF QInv, BoardOfRule, Extinct, Here
    <2> QED BY <2>2, NoPopulation
  <1> QED BY <1>1, InitQInv, NextQInv, PTL DEF TrajectorySpec, ExtinctionIsFinal

(***************************************************************************)
(* The regular tilings that rules run on (RegularLattice): adjacency is    *)
(* symmetric and irreflexive for every size of the board.  The hexagonal   *)
(* and triangular tables depend on the parity of the row and of the        *)
(* column, so this is a fact about each pair of tables.                    *)
(***************************************************************************)

\* The offset from n back to c undoes the offset from c to n.
LEMMA SquareBack ==
    ASSUME NEW dx \in Int, NEW dy \in Int, <<dx, dy>> \in SquareOffsets
    PROVE  <<0 - dx, 0 - dy>> \in SquareOffsets
  BY DEF SquareOffsets

\* On hexagons the rows on both sides of a row use the other table.
LEMMA HexBack ==
    ASSUME NEW y \in Int, NEW dx \in Int, NEW dy \in Int,
           <<dx, dy>> \in HexOffsets(y)
    PROVE  <<0 - dx, 0 - dy>> \in HexOffsets(y + dy)
  <1>1. dy \in -1 .. 1
    BY DEF HexOffsets, HexOffsetsOddRow, HexOffsetsEvenRow
  <1>2. CASE y % 2 = 1
    <2>1. <<dx, dy>> \in HexOffsetsOddRow
      BY <1>2 DEF HexOffsets
    <2>2. CASE dy = 0
      BY <1>2, <2>1, <2>2 DEF HexOffsets, HexOffsetsOddRow
    <2>3. CASE dy # 0
      <3>1. (y + dy) % 2 # 1
        BY <1>1, <1>2, <2>3
      <3>2. <<0 - dx, 0 - dy>> \in HexOffsetsEvenRow
        BY <2>1, <2>3 DEF HexOffsetsOddRow, HexOffsetsEvenRow
      <3> QED BY <3>1, <3>2 DEF HexOffsets
    <2> QED BY <2>2, <2>3
  <1>3. CASE y % 2 # 1
    <2>1. <<dx, dy>> \in HexOffsetsEvenRow
      BY <1>3 DEF HexOffsets
    <2>2. CASE dy = 0
      BY <1>3, <2>1, <2>2 DEF HexOffsets, HexOffsetsEvenRow
    <2>3. CASE dy # 0
      <3>1. (y + dy) % 2 = 1
        BY <1>1, <1>3, <2>3
      <3>2. <<0 - dx, 0 - dy>> \in HexOffsetsOddRow
        BY <2>1, <2>3 DEF HexOffsetsOddRow, HexOffsetsEvenRow
      <3> QED BY <3>1, <3>2 DEF HexOffsets
    <2> QED BY <2>2, <2>3
  <1> QED BY <1>2, <1>3

\* A triangle points up exactly when its coordinates have the same parity.
LEMMA TriangleOrientation ==
    ASSUME NEW x \in Int, NEW y \in Int
    PROVE  TriangleOffsets(x, y) =
             IF (x + y) % 2 = 0 THEN TriangleOffsetsUp ELSE TriangleOffsetsDown
  <1>1. CASE y % 2 = 0 /\ x % 2 = 0
    <2>1. (x + y) % 2 = 0 BY <1>1
    <2> QED BY <1>1, <2>1 DEF TriangleOffsets
  <1>2. CASE y % 2 # 0 /\ x % 2 # 0
    <2>1. (x + y) % 2 = 0 BY <1>2
    <2> QED BY <1>2, <2>1 DEF TriangleOffsets
  <1>3. CASE y % 2 = 0 /\ x % 2 # 0
    <2>1. (x + y) % 2 # 0 BY <1>3
    <2> QED BY <1>3, <2>1 DEF TriangleOffsets
  <1>4. CASE y % 2 # 0 /\ x % 2 = 0
    <2>1. (x + y) % 2 # 0 BY <1>4
    <2> QED BY <1>4, <2>1 DEF TriangleOffsets
  <1> QED BY <1>1, <1>2, <1>3, <1>4

LEMMA TriangleBack ==
    ASSUME NEW x \in Int, NEW y \in Int, NEW dx \in Int, NEW dy \in Int,
           <<dx, dy>> \in TriangleOffsets(x, y)
    PROVE  <<0 - dx, 0 - dy>> \in TriangleOffsets(x + dx, y + dy)
  <1>. DEFINE up == (x + y) % 2 = 0
              upThere == ((x + dx) + (y + dy)) % 2 = 0
  <1>1. /\ TriangleOffsets(x, y) = IF up THEN TriangleOffsetsUp ELSE TriangleOffsetsDown
        /\ TriangleOffsets(x + dx, y + dy) =
             IF upThere THEN TriangleOffsetsUp ELSE TriangleOffsetsDown
    BY TriangleOrientation
  <1>2. dx \in -2 .. 2 /\ dy \in -1 .. 1
    BY <1>1 DEF TriangleOffsetsUp, TriangleOffsetsDown
  <1>3. CASE (dx + dy) % 2 = 0
    <2>1. up <=> upThere
      BY <1>2, <1>3
    <2>2. CASE up
      BY <1>1, <1>2, <1>3, <2>1, <2>2 DEF TriangleOffsetsUp
    <2>3. CASE ~up
      BY <1>1, <1>2, <1>3, <2>1, <2>3 DEF TriangleOffsetsDown
    <2> QED BY <2>2, <2>3
  <1>4. CASE (dx + dy) % 2 # 0
    <2>1. up <=> ~upThere
      BY <1>2, <1>4
    <2>2. CASE up
      <3>1. <<dx, dy>> \in TriangleOffsetsUp
        BY <1>1, <2>2
      <3>2. <<0 - dx, 0 - dy>> \in TriangleOffsetsDown
        BY <1>2, <1>4, <3>1 DEF TriangleOffsetsUp, TriangleOffsetsDown
      <3> QED BY <1>1, <2>1, <2>2, <3>2
    <2>3. CASE ~up
      <3>1. <<dx, dy>> \in TriangleOffsetsDown
        BY <1>1, <2>3
      <3>2. <<0 - dx, 0 - dy>> \in TriangleOffsetsUp
        BY <1>2, <1>4, <3>1 DEF TriangleOffsetsUp, TriangleOffsetsDown
      <3> QED BY <1>1, <2>1, <2>3, <3>2
    <2> QED BY <2>2, <2>3
  <1> QED BY <1>3, <1>4

(***************************************************************************)
(* For every board size, a cell is a neighbour of each of its neighbours   *)
(* and never its own (build_square_cells, build_hex_cells and              *)
(* build_triangle_cells): what a rule counts around one cell, the other    *)
(* cell counts back.                                                       *)
(***************************************************************************)
THEOREM RegularAdjacencySymmetric ==
    ASSUME NEW geometry \in RegularGeometries, NEW width \in Nat, NEW height \in Nat,
           NEW c \in Coordinates(width, height),
           NEW n \in Neighbors(geometry, width, height, c)
    PROVE  /\ c \in Neighbors(geometry, width, height, n)
           /\ n # c
  <1>. DEFINE dx == n[1] - c[1]
              dy == n[2] - c[2]
  <1>1. /\ c[1] \in Int /\ c[2] \in Int /\ n[1] \in Int /\ n[2] \in Int
        /\ n \in Coordinates(width, height)
        /\ <<dx, dy>> \in Offsets(geometry, c)
    BY DEF Coordinates, Neighbors
  <1>2. /\ dx \in Int /\ dy \in Int
        /\ c[1] - n[1] = 0 - dx /\ c[2] - n[2] = 0 - dy
        /\ n[1] = c[1] + dx /\ n[2] = c[2] + dy
    BY <1>1
  <1>. HIDE DEF dx, dy
  <1>3. CASE geometry = "square"
    <2>1. <<dx, dy>> \in SquareOffsets
      BY <1>1, <1>3 DEF Offsets
    <2>2. <<0 - dx, 0 - dy>> \in SquareOffsets /\ <<dx, dy>> # <<0, 0>>
      BY <1>2, <2>1, SquareBack DEF SquareOffsets
    <2>3. <<c[1] - n[1], c[2] - n[2]>> \in Offsets(geometry, n)
      BY <1>2, <1>3, <2>2 DEF Offsets
    <2>4. n # c
      BY <1>1, <1>2, <2>2
    <2> QED BY <2>3, <2>4 DEF Neighbors
  <1>4. CASE geometry = "hex"
    <2>1. <<dx, dy>> \in HexOffsets(c[2])
      BY <1>1, <1>4 DEF Offsets
    <2>2. <<0 - dx, 0 - dy>> \in HexOffsets(n[2])
      BY <1>1, <1>2, <2>1, HexBack
    <2>3. <<c[1] - n[1], c[2] - n[2]>> \in Offsets(geometry, n)
      BY <1>2, <1>4, <2>2 DEF Offsets
    <2>4. <<dx, dy>> # <<0, 0>>
      BY <2>1 DEF HexOffsets, HexOffsetsOddRow, HexOffsetsEvenRow
    <2>5. n # c
      BY <1>1, <1>2, <2>4
    <2> QED BY <2>3, <2>5 DEF Neighbors
  <1>5. CASE geometry = "triangle"
    <2>1. <<dx, dy>> \in TriangleOffsets(c[1], c[2])
      BY <1>1, <1>5 DEF Offsets
    <2>2. <<0 - dx, 0 - dy>> \in TriangleOffsets(n[1], n[2])
      BY <1>1, <1>2, <2>1, TriangleBack
    <2>3. <<c[1] - n[1], c[2] - n[2]>> \in Offsets(geometry, n)
      BY <1>2, <1>5, <2>2 DEF Offsets
    <2>4. <<dx, dy>> # <<0, 0>>
      BY <1>1, <2>1, TriangleOrientation DEF TriangleOffsetsUp, TriangleOffsetsDown
    <2>5. n # c
      BY <1>1, <1>2, <2>4
    <2> QED BY <2>3, <2>5 DEF Neighbors
  <1> QED BY <1>3, <1>4, <1>5 DEF RegularGeometries

-------------------------------------------------------------------------------
(* Induction over the natural numbers, with a set in place of a formula. *)

LEMMA NatMin ==
  ASSUME NEW T \in SUBSET Nat, T # {}
  PROVE \E x \in T : \A y \in T : x <= y
<1>1. PICK R : R = OpToRel(<, Nat)
  OBVIOUS
<1>2. IsWellFoundedOn(R, Nat)
  BY <1>1, NatLessThanWellFounded
<1>3. \E x \in T : \A y \in T : ~(<<y, x>> \in R)
  BY <1>2, WFMin
<1>4. ASSUME NEW x \in Nat, NEW y \in Nat, x < y PROVE <<x, y>> \in R
  BY <1>1, <1>4 DEF OpToRel
<1>5. PICK x \in T : \A y \in T : ~(<<y, x>> \in R)
  BY <1>3
<1>6. ASSUME NEW y \in T PROVE x <= y
  <2>1. ~(<<y, x>> \in R) /\ x \in Nat /\ y \in Nat
    BY <1>5
  <2>2. QED
    BY <2>1, <1>4
<1>7. QED
  BY <1>6

LEMMA Induct ==
  ASSUME NEW T, 0 \in T, \A n \in Nat : n \in T => n + 1 \in T
  PROVE Nat \subseteq T
<1>1. SUFFICES ASSUME Nat \ T # {} PROVE FALSE
  OBVIOUS
<1>2. PICK x \in Nat \ T : \A y \in Nat \ T : x <= y
  BY <1>1, NatMin
<1>3. x # 0
  BY <1>2
<1>4. x - 1 \in Nat /\ x - 1 + 1 = x /\ ~(x <= x - 1)
  BY <1>3
<1>5. QED
  BY <1>2, <1>4

-------------------------------------------------------------------------------
(* The whirlpool: the keys by which a source chooses its neighbour. *)

Keys == Int \X Int \X Int \X Int \X Int

LEMMA TupleOrder ==
    ASSUME NEW a \in Keys, NEW b \in Keys
    PROVE  TupleBefore(a, b) <=>
             \/ a[1] < b[1]
             \/ a[1] = b[1] /\ a[2] < b[2]
             \/ a[1] = b[1] /\ a[2] = b[2] /\ a[3] < b[3]
             \/ a[1] = b[1] /\ a[2] = b[2] /\ a[3] = b[3] /\ a[4] < b[4]
             \/ a[1] = b[1] /\ a[2] = b[2] /\ a[3] = b[3] /\ a[4] = b[4] /\ a[5] < b[5]
  <1>1. DOMAIN a = {1, 2, 3, 4, 5}
    BY DEF Keys
  <1>2. /\ 1 .. 1 - 1 = {} /\ 1 .. 2 - 1 = {1} /\ 1 .. 3 - 1 = {1, 2} /\ 1 .. 4 - 1 = {1, 2, 3}
        /\ 1 .. 5 - 1 = {1, 2, 3, 4}
    OBVIOUS
  <1>3. ASSUME NEW i \in {1, 2, 3, 4, 5}
        PROVE (a[i] < b[i] /\ \A j \in 1 .. i - 1 : a[j] = b[j]) <=>
             \/ i = 1 /\ a[1] < b[1]
             \/ i = 2 /\ a[1] = b[1] /\ a[2] < b[2]
             \/ i = 3 /\ a[1] = b[1] /\ a[2] = b[2] /\ a[3] < b[3]
             \/ i = 4 /\ a[1] = b[1] /\ a[2] = b[2] /\ a[3] = b[3] /\ a[4] < b[4]
             \/ i = 5 /\ a[1] = b[1] /\ a[2] = b[2] /\ a[3] = b[3] /\ a[4] = b[4] /\ a[5] < b[5]
    <2>1. CASE i = 1 BY <1>2, <2>1
    <2>2. CASE i = 2 BY <1>2, <2>2
    <2>3. CASE i = 3 BY <1>2, <2>3
    <2>4. CASE i = 4 BY <1>2, <2>4
    <2>5. CASE i = 5 BY <1>2, <2>5
    <2> QED BY <2>1, <2>2, <2>3, <2>4, <2>5
  <1> QED BY <1>1, <1>3 DEF TupleBefore

LEMMA TupleOrderStrict ==
    ASSUME NEW a \in Keys, NEW b \in Keys, NEW c \in Keys
    PROVE  /\ ~TupleBefore(a, a)
           /\ TupleBefore(a, b) /\ TupleBefore(b, c) => TupleBefore(a, c)
           /\ a[5] # b[5] => TupleBefore(a, b) \/ TupleBefore(b, a)
  <1>1. \A k \in Keys : k[1] \in Int /\ k[2] \in Int /\ k[3] \in Int /\ k[4] \in Int /\ k[5] \in Int
    BY DEF Keys
  <1> QED BY <1>1, TupleOrder

\* Some member of a finite set comes before or beside all others.
LEMMA FirstOf ==
    ASSUME NEW S, IsFiniteSet(S), S # {}, NEW key, \A l \in S : key[l] \in Keys
    PROVE  \E l \in S : \A m \in S : ~TupleBefore(key[m], key[l])
  <1> DEFINE before(l) == {m \in S : TupleBefore(key[m], key[l])}
             T == {Cardinality(before(l)) : l \in S}
  <1>1. \A l \in S : IsFiniteSet(before(l)) /\ Cardinality(before(l)) \in Nat
    BY FS_Subset, FS_CardinalityType
  <1>2. T \in SUBSET Nat /\ T # {}
    BY <1>1
  <1>3. PICK x \in T : \A y \in T : x <= y
    BY <1>2, NatMin
  <1>4. PICK l \in S : x = Cardinality(before(l))
    OBVIOUS
  <1>5. ASSUME NEW m \in S, TupleBefore(key[m], key[l]) PROVE FALSE
    <2>1. before(m) \subseteq before(l)
      BY <1>5, TupleOrderStrict
    <2>2. m \in before(l) /\ m \notin before(m)
      BY <1>5, TupleOrderStrict
    <2>3. /\ Cardinality(before(m)) <= Cardinality(before(l))
          /\ Cardinality(before(m)) # Cardinality(before(l))
      BY <1>1, <2>1, <2>2, FS_Subset
    <2>4. Cardinality(before(l)) <= Cardinality(before(m))
      BY <1>3, <1>4
    <2> QED BY <1>1, <2>3, <2>4
  <1> QED BY <1>5

\* A topology on which a whirlpool may run.
Framed(t) ==
    /\ IsFiniteSet(t.cells) /\ FrameFits(t)
    /\ \A c \in t.cells : t.adjacent[c] \subseteq t.cells

LinksTo(t, b, c, s) == {l \in t.frame[c].links : b[l.cell] = s}

\* A cell's links are its neighbours, one for one.
LEMMA LinksAreNeighbours ==
    ASSUME NEW t, Framed(t), NEW c \in t.cells, NEW b, NEW s
    PROVE  /\ IsFiniteSet(t.frame[c].links) /\ IsFiniteSet(t.adjacent[c])
           /\ Cardinality(LinksTo(t, b, c, s)) = CountNeighbors(t, b, c, s)
  <1> DEFINE links == t.frame[c].links
  <1>1. /\ {l.cell : l \in links} = t.adjacent[c]
        /\ \A l, m \in links : l.cell = m.cell => l = m
    BY DEF Framed, FrameFits
  <1>2. IsFiniteSet(t.adjacent[c])
    BY FS_Subset DEF Framed
  <1> HIDE DEF links
  <1>3. IsFiniteSet(links)
    <2> DEFINE f == [l \in links |-> l.cell]
    <2>1. f \in Injection(links, t.adjacent[c])
      BY <1>1 DEF Injection, IsInjective
    <2> QED BY <1>2, <2>1, FS_Injection
  <1>4. Cardinality({l \in links : b[l.cell] = s}) = Cardinality({n \in t.adjacent[c] : b[n] = s})
    <2> DEFINE S == {l \in links : b[l.cell] = s}  N == {n \in t.adjacent[c] : b[n] = s}
               f == [l \in S |-> l.cell]
    <2>1. f \in Injection(S, N)
      BY <1>1 DEF Injection, IsInjective
    <2>2. \A n \in N : \E l \in S : f[l] = n
      BY <1>1
    <2>3. f \in Bijection(S, N)
      BY <2>1, <2>2 DEF Bijection, Surjection, Injection
    <2>4. ExistsBijection(S, N) /\ IsFiniteSet(S)
      BY <1>3, <2>3, FS_Subset DEF ExistsBijection
    <2> QED BY <2>4, FS_Bijection
  <1> QED BY <1>2, <1>3, <1>4 DEF links, LinksTo, CountNeighbors

\* The tables of the batch hold what the contexts of the cells count.
LEMMA TallyCounts ==
    ASSUME NEW t, Framed(t), NEW b, NEW c \in t.cells
    PROVE  LET n == Tally(t, b)[c]
               x == DirectionalCounts(t, b, c, Excited)
               w == WakeCounts(t, b, c)
           IN  /\ n.outward = x.outward /\ n.inward = x.inward /\ n.clockwise = x.clockwise
               /\ n.counter = x.counterclockwise /\ n.total = x.total
               /\ n.wakeIn = w.inward /\ n.wakeClock = w.clockwise
               /\ n.resistance = w.resistance /\ w.support = w.clockwise + w.inward
               /\ {n.outward, n.inward, n.clockwise, n.counter, n.total, n.wakeIn, n.wakeClock,
                   n.resistance} \subseteq Nat
  <1> DEFINE links == t.frame[c].links
             lies(s, radial) == Cardinality({l \in links : b[l.cell] = s /\ l.radial = radial})
             turns(s, turn) == Cardinality({l \in links : b[l.cell] = s /\ l.turn = turn})
  <1>1. /\ IsFiniteSet(links) /\ IsFiniteSet(t.adjacent[c])
        /\ \A s : Cardinality(LinksTo(t, b, c, s)) = CountNeighbors(t, b, c, s)
    BY LinksAreNeighbours
  <1>2. \A s, r : lies(s, r) \in Nat /\ turns(s, r) \in Nat
    BY <1>1, FS_Subset, FS_CardinalityType
  <1>3. CountNeighbors(t, b, c, Excited) \in Nat
    BY <1>1, FS_Subset, FS_CardinalityType DEF CountNeighbors
  <1>4. ASSUME NEW s
        PROVE  DirectionalCounts(t, b, c, s) =
                 [outward |-> lies(s, "outward"), inward |-> lies(s, "inward"),
                  clockwise |-> turns(s, "clockwise"), counterclockwise |-> turns(s, "counterclockwise"),
                  total |-> CountNeighbors(t, b, c, s)]
    <2> DEFINE found == {l \in links : b[l.cell] = s}
    <2>1. \A r : {l \in found : l.radial = r} = {l \in links : b[l.cell] = s /\ l.radial = r}
      OBVIOUS
    <2>2. \A r : {l \in found : l.turn = r} = {l \in links : b[l.cell] = s /\ l.turn = r}
      OBVIOUS
    <2>3. Cardinality(found) = CountNeighbors(t, b, c, s)
      BY <1>1 DEF LinksTo
    <2> QED BY <2>1, <2>2, <2>3 DEF DirectionalCounts
  <1>5. /\ Tally(t, b)[c] = TallyOf(t, b, c)
        /\ TallyOf(t, b, c) =
             [outward |-> lies(Excited, "outward"), inward |-> lies(Excited, "inward"),
              clockwise |-> turns(Excited, "clockwise"),
              counter |-> turns(Excited, "counterclockwise"),
              total |-> CountNeighbors(t, b, c, Excited),
              wakeIn |-> lies(Trailing, "inward"),
              wakeClock |-> turns(Trailing, "clockwise"),
              resistance |-> turns(Refractory, "counterclockwise") + lies(Refractory, "outward")]
    <2>1. \A f : Tabulated(f) = f BY DEF Tabulated
    <2>2. Tally(t, b) = [d \in t.cells |-> TallyOf(t, b, d)] BY <2>1 DEF Tally
    <2>3. Tally(t, b)[c] = TallyOf(t, b, c) BY <2>2
    <2> QED BY <2>3 DEF TallyOf
  <1>6. WakeCounts(t, b, c) =
          [support |-> turns(Trailing, "clockwise") + lies(Trailing, "inward"),
           resistance |-> turns(Refractory, "counterclockwise") + lies(Refractory, "outward"),
           clockwise |-> turns(Trailing, "clockwise"), inward |-> lies(Trailing, "inward")]
    <2> HIDE DEF lies, turns
    <2> QED BY <1>4 DEF WakeCounts
  <1> HIDE DEF lies, turns, links
  <1> QED BY <1>2, <1>3, <1>4, <1>5, <1>6

LEMMA KeysAgree ==
    ASSUME NEW t, Framed(t), NEW b, NEW source \in t.cells, NEW l \in t.frame[source].links
    PROVE  /\ CandidateKey(l, Tally(t, b)) = EmissionKey(t, b, l)
           /\ EmissionKey(t, b, l) \in Keys /\ EmissionKey(t, b, l)[5] = l.order
           /\ SourceSelectionTier(l.radial, l.turn) >= 0
           /\ l.cell \in t.cells /\ l.cell \in t.adjacent[source]
  <1>1. l.cell \in t.cells /\ l.cell \in t.adjacent[source]
        /\ {l.nearness, l.swing, l.order} \subseteq Int
    BY DEF Framed, FrameFits
  <1> DEFINE n == Tally(t, b)[l.cell]  w == WakeCounts(t, b, l.cell)
  <1>2. /\ n.wakeIn = w.inward /\ n.wakeClock = w.clockwise
        /\ n.resistance = w.resistance /\ w.support = w.clockwise + w.inward
        /\ n.wakeIn \in Nat /\ n.wakeClock \in Nat /\ n.resistance \in Nat
    BY <1>1, TallyCounts
  <1> HIDE DEF n, w
  <1>3. SourceSelectionTier(l.radial, l.turn) \in 0 .. 3
    BY DEF SourceSelectionTier
  <1>4. 0 - (w.support - w.resistance) = n.resistance - (n.wakeClock + n.wakeIn)
        /\ 0 - (w.support - w.resistance) \in Int
    BY <1>2
  <1>5. EmissionKey(t, b, l) = <<SourceSelectionTier(l.radial, l.turn), 0 - (w.support - w.resistance),
            0 - l.nearness, 0 - l.swing, l.order>>
    BY DEF EmissionKey, WakeScore, w
  <1>6. CandidateKey(l, Tally(t, b)) = <<SourceSelectionTier(l.radial, l.turn),
            n.resistance - (n.wakeClock + n.wakeIn), 0 - l.nearness, 0 - l.swing, l.order>>
    BY DEF CandidateKey, n
  <1> QED BY <1>1, <1>3, <1>4, <1>5, <1>6 DEF Keys

\* The neighbour a source marks is the one next_state finds for it.
LEMMA PulsesAgree ==
    ASSUME NEW t, Framed(t), NEW b, NEW c \in t.cells, b[c] = Resting
    PROVE  c \in Pulsed(t, b, Tally(t, b)) <=> HasIncomingSourcePulse(t, b, c)
  <1> DEFINE open(source) == {l \in t.frame[source].links :
                 b[l.cell] = Resting /\ SourceSelectionTier(l.radial, l.turn) >= 0}
             tally == Tally(t, b)
             best(source) == {l \in open(source) : \A m \in open(source) :
                           ~TupleBefore(CandidateKey(m, tally), CandidateKey(l, tally))}
  <1>1. Pulsed(t, b, tally) = {l.cell : l \in UNION {best(source) :
                                 source \in {d \in t.cells : b[d] = Source}}}
    BY DEF Pulsed
  <1>2. \A source, x : IsEmissionTarget(t, b, source, x) <=>
            \E l \in t.frame[source].links :
                /\ l.cell = x /\ l \in open(source)
                /\ \A m \in open(source) \ {l} : TupleBefore(EmissionKey(t, b, l), EmissionKey(t, b, m))
    BY DEF IsEmissionTarget
  <1>3. ASSUME NEW source \in t.cells, NEW l \in open(source)
        PROVE  l \in best(source) <=>
                 \A m \in open(source) \ {l} : TupleBefore(EmissionKey(t, b, l), EmissionKey(t, b, m))
    <2>1. ASSUME NEW m \in open(source)
          PROVE  ~TupleBefore(CandidateKey(m, tally), CandidateKey(l, tally)) <=>
                   (m # l => TupleBefore(EmissionKey(t, b, l), EmissionKey(t, b, m)))
      <3>1. /\ CandidateKey(l, tally) = EmissionKey(t, b, l) /\ EmissionKey(t, b, l) \in Keys
            /\ CandidateKey(m, tally) = EmissionKey(t, b, m) /\ EmissionKey(t, b, m) \in Keys
            /\ EmissionKey(t, b, l)[5] = l.order /\ EmissionKey(t, b, m)[5] = m.order
        BY KeysAgree
      <3>2. m # l => m.order # l.order
        BY DEF Framed, FrameFits
      <3> DEFINE k == EmissionKey(t, b, l)  h == EmissionKey(t, b, m)
      <3>3. k \in Keys /\ h \in Keys /\ (m # l => k[5] # h[5])
        BY <3>1, <3>2
      <3> HIDE DEF k, h
      <3>4. /\ ~TupleBefore(k, k)
            /\ TupleBefore(k, h) => ~TupleBefore(h, k)
            /\ m # l => TupleBefore(k, h) \/ TupleBefore(h, k)
        BY <3>3, TupleOrderStrict
      <3>5. m = l => h = k
        BY DEF h, k
      <3>6. ~TupleBefore(h, k) <=> (m # l => TupleBefore(k, h))
        BY <3>4, <3>5
      <3> QED BY <3>1, <3>6 DEF h, k
    <2> HIDE DEF open, tally
    <2> QED BY <2>1
  <1>4. ASSUME NEW source \in t.cells
        PROVE  (\E l \in best(source) : l.cell = c) <=> IsEmissionTarget(t, b, source, c)
    <2>1. \A l \in best(source) : l \in open(source)
      OBVIOUS
    <2>2. \A l \in open(source) : l \in t.frame[source].links
      OBVIOUS
    <2> HIDE DEF best, open
    <2> QED BY <1>2, <1>3, <2>1, <2>2
  <1>5. ASSUME NEW source \in t.cells, IsEmissionTarget(t, b, source, c)
        PROVE  \E l \in t.frame[c].links : l.cell = source
    <2>1. PICK l \in t.frame[source].links : l.cell = c
      BY <1>2, <1>5
    <2>2. source \in t.adjacent[c]
      BY <2>1 DEF Framed, FrameFits
    <2> QED BY <2>2 DEF Framed, FrameFits
  <1>6. \A l \in t.frame[c].links : l.cell \in t.cells
    BY DEF Framed, FrameFits
  <1>7. c \in Pulsed(t, b, tally) <=>
          \E source \in t.cells : b[source] = Source /\ \E l \in best(source) : l.cell = c
    <2> HIDE DEF best
    <2> QED BY <1>1
  <1>8. HasIncomingSourcePulse(t, b, c) <=>
          \E source \in t.cells : b[source] = Source /\ IsEmissionTarget(t, b, source, c)
    BY <1>5, <1>6 DEF HasIncomingSourcePulse
  <1> HIDE DEF best, tally
  <1> QED BY <1>4, <1>7, <1>8 DEF tally

\* The two statements of the whirlpool.
LEMMA WhirlpoolAgrees ==
    ASSUME NEW t, Framed(t), NEW b \in [t.cells -> Whirlpool.states], NEW c \in t.cells
    PROVE  WhirlpoolBatch(t, b)[c] = WhirlpoolNext(t, b, c)
  <1> DEFINE n == Tally(t, b)[c]  x == DirectionalCounts(t, b, c, Excited)
             w == WakeCounts(t, b, c)  zone == ZoneOf(t.frame[c])
  <1>1. /\ n.outward = x.outward /\ n.inward = x.inward /\ n.clockwise = x.clockwise
        /\ n.counter = x.counterclockwise /\ n.total = x.total
        /\ n.wakeIn = w.inward /\ n.wakeClock = w.clockwise
        /\ n.resistance = w.resistance /\ w.support = w.clockwise + w.inward
        /\ {n.outward, n.inward, n.clockwise, n.counter, n.total, n.wakeIn, n.wakeClock,
            n.resistance} \subseteq Nat
    BY TallyCounts
  <1>2. zone \in {"eye", "inner", "shear", "outer", "rim"}
    BY DEF ZoneOf
  <1>3. Lights(t, n, c) <=> EyeHasExcitedSupport(t, c, x) \/ ShouldExciteResting(zone, x, w)
    <2> HIDE DEF n, x, w, zone
    <2>1. EyeLit(t, n, c) <=> EyeHasExcitedSupport(t, c, x)
      BY <1>1 DEF EyeLit, EyeHasExcitedSupport
    <2>2. ShouldExciteFrom(zone, n) <=> ShouldExciteResting(zone, x, w)
      <3>1. CASE zone = "eye"
        BY <1>1, <3>1 DEF ShouldExciteFrom, ShouldExciteResting
      <3>2. CASE zone = "inner"
        BY <1>1, <3>2 DEF ShouldExciteFrom, ShouldExciteResting, GuidedSwirl, WakeScore
      <3>3. CASE zone = "shear"
        BY <1>1, <3>3 DEF ShouldExciteFrom, ShouldExciteResting, Least
      <3>4. CASE zone = "outer"
        BY <1>1, <3>4 DEF ShouldExciteFrom, ShouldExciteResting, Least, GuidedSwirl, WakeScore,
                          TangentialRelay
      <3>5. CASE zone = "rim"
        BY <1>1, <3>5 DEF ShouldExciteFrom, ShouldExciteResting, Least, GuidedSwirl, WakeScore
      <3> QED BY <1>2, <3>1, <3>2, <3>3, <3>4, <3>5
    <2> QED BY <2>1, <2>2 DEF Lights, zone
  <1>4. Rejoins(t, n, c) <=> RejoinsRefractory(t, c, x, w)
    <2> HIDE DEF n, x, w
    <2>1. EyeLit(t, n, c) <=> EyeHasExcitedSupport(t, c, x)
      BY <1>1 DEF EyeLit, EyeHasExcitedSupport
    <2>2. OuterGuidedRelayFrom(n) <=> HasOuterGuidedRelay(x, w)
      BY <1>1 DEF OuterGuidedRelayFrom, HasOuterGuidedRelay, TangentialRelay, GuidedSwirl, WakeScore, Least
    <2> QED BY <1>1, <2>1, <2>2 DEF Rejoins, RejoinsRefractory
  <1>5. b[c] = Resting => (c \in Pulsed(t, b, Tally(t, b)) <=> HasIncomingSourcePulse(t, b, c))
    BY PulsesAgree
  <1>6. b[c] \in {Source, Excited, Trailing, Refractory, Resting}
    BY DEF Resting, Excited, Trailing, Refractory, Source, Whirlpool
  <1>7. WhirlpoolBatch(t, b)[c] =
            CASE b[c] = Source     -> Source
              [] b[c] = Excited    -> Trailing
              [] b[c] = Trailing   -> Refractory
              [] b[c] = Refractory -> IF Rejoins(t, n, c) THEN Excited ELSE Resting
              [] b[c] = Resting    ->
                   IF c \in Pulsed(t, b, Tally(t, b)) \/ Lights(t, n, c) THEN Excited ELSE Resting
    BY DEF WhirlpoolBatch
  <1>8. WhirlpoolNext(t, b, c) =
            CASE b[c] = Source     -> Source
              [] b[c] = Excited    -> Trailing
              [] b[c] = Trailing   -> Refractory
              [] b[c] = Refractory -> IF RejoinsRefractory(t, c, x, w) THEN Excited ELSE Resting
              [] b[c] = Resting    ->
                   IF \/ HasIncomingSourcePulse(t, b, c)
                      \/ EyeHasExcitedSupport(t, c, x)
                      \/ ShouldExciteResting(zone, x, w) THEN Excited ELSE Resting
    BY DEF WhirlpoolNext
  <1> HIDE DEF n, x, w, zone
  <1> QED BY <1>3, <1>4, <1>5, <1>6, <1>7, <1>8
            DEF Resting, Excited, Trailing, Refractory, Source

\* The eight directions in clockwise order from straight up.
Directions == (-1 .. 1) \X (-1 .. 1) \ {<<0, 0>>}
Rank(v) ==
    IF v[1] > 0 THEN 2 - v[2]
    ELSE IF v[1] < 0 THEN 6 + v[2]
    ELSE IF v[2] > 0 THEN 0 ELSE 4

LEMMA ClockwiseRank ==
    ASSUME NEW u \in Directions, NEW v \in Directions
    PROVE  /\ ClockwiseBefore(u, v) <=> Rank(u) < Rank(v)
           /\ Rank(u) = Rank(v) => u = v
           /\ Rank(u) \in 0 .. 7
  <1>1. ASSUME NEW w \in Directions
        PROVE  \/ (w[1] = -1 /\ w[2] = -1) \/ (w[1] = -1 /\ w[2] = 0) \/ (w[1] = -1 /\ w[2] = 1)
               \/ (w[1] = 0 /\ w[2] = -1) \/ (w[1] = 0 /\ w[2] = 1)
               \/ (w[1] = 1 /\ w[2] = -1) \/ (w[1] = 1 /\ w[2] = 0) \/ (w[1] = 1 /\ w[2] = 1)
    BY DEF Directions
  <1>2. u[1] = v[1] /\ u[2] = v[2] => u = v
    BY DEF Directions
  <1>3. u[1] \in {-1, 0, 1} /\ u[2] \in {-1, 0, 1} /\ v[1] \in {-1, 0, 1} /\ v[2] \in {-1, 0, 1}
    BY DEF Directions
  <1> DEFINE before == u[1] > 0 \/ (u[1] = 0 /\ u[2] > 0)
             there  == v[1] > 0 \/ (v[1] = 0 /\ v[2] > 0)
  <1>4. ClockwiseBefore(u, v) <=> \/ before /\ ~there
                                  \/ (before <=> there) /\ u[1] * v[2] - u[2] * v[1] < 0
    BY DEF ClockwiseBefore, Cross
  <1>5. Rank(u) = IF u[1] > 0 THEN 2 - u[2] ELSE IF u[1] < 0 THEN 6 + u[2] ELSE IF u[2] > 0 THEN 0 ELSE 4
    BY DEF Rank
  <1>6. Rank(v) = IF v[1] > 0 THEN 2 - v[2] ELSE IF v[1] < 0 THEN 6 + v[2] ELSE IF v[2] > 0 THEN 0 ELSE 4
    BY DEF Rank
  <1>7. ClockwiseBefore(u, v) <=> Rank(u) < Rank(v)
    <2>1. CASE u[1] = -1 /\ u[2] = -1 BY <1>1, <1>3, <1>4, <1>5, <1>6, <2>1
    <2>2. CASE u[1] = -1 /\ u[2] = 0 BY <1>1, <1>3, <1>4, <1>5, <1>6, <2>2
    <2>3. CASE u[1] = -1 /\ u[2] = 1 BY <1>1, <1>3, <1>4, <1>5, <1>6, <2>3
    <2>4. CASE u[1] = 0 /\ u[2] = -1 BY <1>1, <1>3, <1>4, <1>5, <1>6, <2>4
    <2>5. CASE u[1] = 0 /\ u[2] = 1 BY <1>1, <1>3, <1>4, <1>5, <1>6, <2>5
    <2>6. CASE u[1] = 1 /\ u[2] = -1 BY <1>1, <1>3, <1>4, <1>5, <1>6, <2>6
    <2>7. CASE u[1] = 1 /\ u[2] = 0 BY <1>1, <1>3, <1>4, <1>5, <1>6, <2>7
    <2>8. CASE u[1] = 1 /\ u[2] = 1 BY <1>1, <1>3, <1>4, <1>5, <1>6, <2>8
    <2> QED BY <1>1, <2>1, <2>2, <2>3, <2>4, <2>5, <2>6, <2>7, <2>8
  <1>8. Rank(u) = Rank(v) => u[1] = v[1] /\ u[2] = v[2]
    BY <1>1, <1>3, <1>5, <1>6
  <1>9. Rank(u) \in 0 .. 7
    BY <1>3, <1>5
  <1> QED BY <1>2, <1>7, <1>8, <1>9

LEMMA CoordinatesFinite ==
    ASSUME NEW width \in Nat, NEW height \in Nat
    PROVE  IsFiniteSet(Coordinates(width, height))
  <1>1. IsFiniteSet(0 .. width - 1) /\ IsFiniteSet(0 .. height - 1)
    BY FS_Interval
  <1> QED BY <1>1, FS_Product DEF Coordinates

\* The neighbours of c that come before n in clockwise order.
Earlier(width, height, c, n) ==
    {m \in Neighbors("square", width, height, c) :
        ClockwiseBefore(<<m[1] - c[1], c[2] - m[2]>>, <<n[1] - c[1], c[2] - n[2]>>)}

\* Links to different neighbours have different places.
LEMMA OrderDistinct ==
    ASSUME NEW width \in Nat, NEW height \in Nat, NEW c \in Coordinates(width, height),
           NEW p \in Neighbors("square", width, height, c), NEW q \in Neighbors("square", width, height, c)
    PROVE  LET place(n) == Cardinality(Earlier(width, height, c, n))
           IN  place(p) \in Nat /\ (place(p) = place(q) => p = q)
  <1> DEFINE around == Neighbors("square", width, height, c)
             step(n) == <<n[1] - c[1], c[2] - n[2]>>
             before(n) == {m \in around : ClockwiseBefore(step(m), step(n))}
  <1>1. \A n \in around : step(n) \in Directions
    BY DEF Coordinates, Neighbors, Offsets, SquareOffsets, Directions
  <1>2. around \subseteq Coordinates(width, height)
    BY DEF Neighbors
  <1>3. IsFiniteSet(around)
    BY <1>2, CoordinatesFinite, FS_Subset
  <1>4. ASSUME NEW m \in around, NEW n \in around, step(m) = step(n) PROVE m = n
    BY <1>2, <1>4 DEF Coordinates
  <1>5. \A n : Earlier(width, height, c, n) = before(n)
    BY DEF Earlier
  <1> HIDE DEF around, step
  <1>6. \A n \in around : IsFiniteSet(before(n)) /\ Cardinality(before(n)) \in Nat
    BY <1>3, FS_Subset, FS_CardinalityType
  <1>7. ASSUME NEW m \in around, NEW n \in around, Rank(step(m)) < Rank(step(n))
        PROVE  Cardinality(before(m)) < Cardinality(before(n))
    <2>1. ASSUME NEW k \in around, ClockwiseBefore(step(k), step(m))
          PROVE  ClockwiseBefore(step(k), step(n))
      <3>1. Rank(step(k)) < Rank(step(m)) /\ Rank(step(k)) \in 0 .. 7 /\ Rank(step(m)) \in 0 .. 7
            /\ Rank(step(n)) \in 0 .. 7
        BY <1>1, <2>1, ClockwiseRank
      <3> QED BY <1>1, <1>7, <3>1, ClockwiseRank
    <2>2. ClockwiseBefore(step(m), step(n)) /\ ~ClockwiseBefore(step(m), step(m))
      <3>1. Rank(step(m)) \in 0 .. 7
        BY <1>1, ClockwiseRank
      <3> QED BY <1>1, <1>7, <3>1, ClockwiseRank
    <2>3. before(m) \subseteq before(n) /\ m \in before(n) /\ m \notin before(m)
      BY <2>1, <2>2
    <2>4. /\ Cardinality(before(m)) <= Cardinality(before(n))
          /\ Cardinality(before(m)) # Cardinality(before(n))
      BY <1>6, <2>3, FS_Subset
    <2> HIDE DEF before
    <2> QED BY <1>6, <2>4
  <1>8. p \in around /\ q \in around
    BY DEF around
  <1> HIDE DEF before
  <1>9. Rank(step(p)) \in 0 .. 7 /\ Rank(step(q)) \in 0 .. 7
    BY <1>1, <1>8, ClockwiseRank
  <1>10. CASE Rank(step(p)) = Rank(step(q))
    BY <1>1, <1>4, <1>5, <1>6, <1>8, <1>10, ClockwiseRank
  <1>11. CASE Rank(step(p)) < Rank(step(q)) \/ Rank(step(q)) < Rank(step(p))
    BY <1>5, <1>6, <1>7, <1>8, <1>11
  <1> QED BY <1>9, <1>10, <1>11

(***************************************************************************)
(* The frame of a square board of any size has a link for each neighbour   *)
(* and for nothing else, in strict clockwise order (topology_frame_for):   *)
(* what the two statements of the whirlpool, and its sources, rely on.     *)
(***************************************************************************)
THEOREM SquareFramesFit ==
    ASSUME NEW width \in Nat, NEW height \in Nat, NEW t,
           t.cells = Coordinates(width, height),
           t.adjacent = [c \in t.cells |-> Neighbors("square", width, height, c)],
           t.frame = DirectionalFrame(width, height)
    PROVE  Framed(t)
  <1>1. /\ IsFiniteSet(t.cells) /\ \A c \in t.cells : t.adjacent[c] \subseteq t.cells
    <2>1. IsFiniteSet(t.cells)
      BY CoordinatesFinite
    <2>2. \A c \in t.cells : Neighbors("square", width, height, c) \subseteq t.cells
      BY DEF Neighbors
    <2> QED BY <2>1, <2>2
  <1>2. ASSUME NEW c \in t.cells
        PROVE  LET links == t.frame[c].links
               IN  /\ {l.cell : l \in links} = t.adjacent[c]
                   /\ \A l, m \in links : l.cell = m.cell \/ l.order = m.order => l = m
                   /\ \A l \in links : /\ {l.nearness, l.swing, l.order} \subseteq Int
                                       /\ c \in t.adjacent[l.cell]
    <2> DEFINE shell == Shells(width, height)
               vector(d) == FromCentre(width, height, d)
               turns(d, n) == Turn(Heading(vector(d)), Heading(vector(n)))
               nearer(d, n) == Max({0, Distance2(vector(d)) - Distance2(vector(n))})
               swung(d, n) == {m \in Neighbors("square", width, height, d) :
                               /\ turns(d, m) = "clockwise"
                               /\ Cross(Heading(vector(m)), Heading(vector(n))) < 0}
               swings(d, n) == IF turns(d, n) # "clockwise" THEN 0 ELSE 1 + Cardinality(swung(d, n))
               linked(d, n) ==
                  [cell |-> n,
                   radial |-> IF shell[n] < shell[d] THEN "inward"
                              ELSE IF shell[n] > shell[d] THEN "outward" ELSE "level",
                   turn |-> turns(d, n), nearness |-> nearer(d, n), swing |-> swings(d, n),
                   order |-> Cardinality(Earlier(width, height, d, n))]
               far == Max({Distance2(vector(d)) : d \in Coordinates(width, height)})
               frame(d) == [shell |-> shell[d], radius2 |-> Distance2(vector(d)), farthest2 |-> far,
                            links |-> {linked(d, n) : n \in Neighbors("square", width, height, d)}]
               around == Neighbors("square", width, height, c)
               links == t.frame[c].links
               nearness(n) == nearer(c, n)
               swing(n) == swings(c, n)
               place(n) == Cardinality(Earlier(width, height, c, n))
               link(n) == linked(c, n)
    <2>1. t.frame[c].links = {link(n) : n \in around}
      <3>1. t.frame = [d \in Coordinates(width, height) |-> frame(d)]
        BY DEF DirectionalFrame, Earlier
      <3> HIDE DEF linked
      <3>2. frame(c).links = {link(n) : n \in around}
        OBVIOUS
      <3> HIDE DEF frame
      <3>3. t.frame[c] = frame(c)
        BY <3>1
      <3> QED BY <3>2, <3>3
    <2>2. IsFiniteSet(around)
      <3>1. around \subseteq Coordinates(width, height)
        BY DEF Neighbors
      <3> QED BY <3>1, CoordinatesFinite, FS_Subset
    <2>3. ASSUME NEW n \in around PROVE nearness(n) \in Int /\ swing(n) \in Int
      <3>1. \A d \in Coordinates(width, height) : Distance2(vector(d)) \in Int
        BY DEF Distance2, FromCentre, Coordinates
      <3>2. Distance2(vector(c)) \in Int /\ Distance2(vector(n)) \in Int
        BY <3>1 DEF Neighbors
      <3>3. \A x \in Int : Max({0, x}) \in Int
        <4> SUFFICES ASSUME NEW x \in Int PROVE Max({0, x}) \in Int
          OBVIOUS
        <4>1. \E y \in {0, x} : \A z \in {0, x} : y >= z
          BY 0 <= x \/ x <= 0
        <4> QED BY <4>1 DEF Max
      <3>4. nearness(n) \in Int
        BY <3>2, <3>3
      <3>5. Cardinality(swung(c, n)) \in Nat
        BY <2>2, FS_Subset, FS_CardinalityType
      <3> HIDE DEF swung, turns
      <3>6. swing(n) \in Int
        BY <3>5
      <3> QED BY <3>4, <3>6
    <2>4. ASSUME NEW p \in around, NEW q \in around
          PROVE  place(p) \in Int /\ (place(p) = place(q) => p = q)
      BY OrderDistinct
    <2>5. \A n \in around : c \in t.adjacent[n]
      BY RegularAdjacencySymmetric DEF RegularGeometries, Neighbors
    <2>6. t.adjacent[c] = around
      OBVIOUS
    <2>7. \A n \in around : /\ link(n).cell = n /\ link(n).order = place(n)
                            /\ link(n).nearness = nearness(n) /\ link(n).swing = swing(n)
      OBVIOUS
    <2> HIDE DEF around, place, link, nearness, swing
    <2>8. links = {link(n) : n \in around}
      BY <2>1
    <2> HIDE DEF links
    <2>9. {l.cell : l \in links} = t.adjacent[c]
      BY <2>6, <2>7, <2>8
    <2>10. \A l, m \in links : l.cell = m.cell \/ l.order = m.order => l = m
      BY <2>4, <2>7, <2>8
    <2>11. \A l \in links : /\ {l.nearness, l.swing, l.order} \subseteq Int
                            /\ c \in t.adjacent[l.cell]
      BY <2>3, <2>4, <2>5, <2>7, <2>8
    <2> QED BY <2>9, <2>10, <2>11 DEF links
  <1> QED BY <1>1, <1>2 DEF Framed, FrameFits

LEMMA RuleRuns ==
    ASSUME QInv
    PROVE  /\ case \in Cases /\ Rule[case] \in Registry
           /\ board \in [Here.cells -> Rule[case].states]
           /\ IsFiniteSet(Here.cells) /\ \A c \in Here.cells : Here.adjacent[c] \subseteq Here.cells
           /\ Rule[case] = Whirlpool => Framed(Here)
  <1>1. case \in Cases
    BY DEF QInv, BoardOfRule
  <1> QED BY <1>1, RulesAssumption, TopologyAssumption DEF QInv, BoardOfRule, Framed, Here

(***************************************************************************)
(* The two statements of every rule of the registry agree on every board   *)
(* of every evolution (next_state, next_states).                           *)
(***************************************************************************)
THEOREM BothStatementsAgree == TrajectorySpec => []BatchAgrees
  <1>1. ASSUME QInv PROVE BatchAgrees
    <2> SUFFICES ASSUME NEW c \in Here.cells
                 PROVE  Generation(Rule[case], Here, board)[c] = NextState(Rule[case], Here, board, c)
      BY DEF BatchAgrees
    <2>1. CASE Rule[case] = Whirlpool
      <3>1. board \in [Here.cells -> Whirlpool.states] /\ Framed(Here)
        BY <1>1, <2>1, RuleRuns
      <3>2. WhirlpoolBatch(Here, board)[c] = WhirlpoolNext(Here, board, c)
        BY <3>1, WhirlpoolAgrees
      <3>3. Rule[case].style = "whirlpool"
        BY <2>1 DEF Whirlpool
      <3> QED BY <3>2, <3>3 DEF Generation, NextState
    <2>2. CASE Rule[case] # Whirlpool
      BY <1>1, <2>2, RuleRuns, BatchAgreesOnAdjacency
    <2> QED BY <2>1, <2>2
  <1> QED BY <1>1, InitQInv, NextQInv, PTL DEF TrajectorySpec

LEMMA SourceMarks ==
    ASSUME NEW t, Framed(t), NEW b, NEW s \in t.cells, b[s] = Source,
           NEW n \in t.adjacent[s], b[n] = Resting
    PROVE  \E m \in t.adjacent[s] : m \in t.cells /\ b[m] = Resting /\ m \in Pulsed(t, b, Tally(t, b))
  <1> DEFINE tally == Tally(t, b)
             open(source) == {l \in t.frame[source].links :
                 b[l.cell] = Resting /\ SourceSelectionTier(l.radial, l.turn) >= 0}
             best(source) == {l \in open(source) : \A m \in open(source) :
                           ~TupleBefore(CandidateKey(m, tally), CandidateKey(l, tally))}
             key == [l \in open(s) |-> CandidateKey(l, tally)]
  <1>1. Pulsed(t, b, tally) = {l.cell : l \in UNION {best(source) :
                                 source \in {d \in t.cells : b[d] = Source}}}
    BY DEF Pulsed
  <1>2. PICK l \in t.frame[s].links : l.cell = n
    BY DEF Framed, FrameFits
  <1>3. open(s) # {}
    BY <1>2, KeysAgree
  <1>4. IsFiniteSet(open(s))
    BY LinksAreNeighbours, FS_Subset
  <1>5. \A m \in open(s) : key[m] \in Keys
    BY KeysAgree
  <1>6. PICK first \in open(s) : \A m \in open(s) : ~TupleBefore(key[m], key[first])
    BY <1>3, <1>4, <1>5, FirstOf
  <1>7. first \in best(s)
    BY <1>6
  <1>8. b[first.cell] = Resting /\ first.cell \in t.adjacent[s] /\ first.cell \in t.cells
    BY KeysAgree
  <1>9. first.cell \in Pulsed(t, b, tally)
    <2> HIDE DEF best
    <2> QED BY <1>1, <1>7
  <1> QED BY <1>8, <1>9

(***************************************************************************)
(* A whirlpool source stays one and, next to a resting cell, always        *)
(* excites one: among finitely many candidates one is marked, whatever     *)
(* their keys.                                                             *)
(***************************************************************************)
THEOREM SourcesKeepEmitting == TrajectorySpec => SourcesEmit
  <1>1. ASSUME QInv, [TrajectoryNext]_trajectoryVars
        PROVE  [Rule[case] = Whirlpool =>
                 \A s \in Here.cells : board[s] = Source =>
                    /\ board'[s] = Source
                    /\ (\E n \in Here.adjacent[s] : board[n] = Resting)
                         => \E n \in Here.adjacent[s] : board[n] = Resting /\ board'[n] = Excited]_trajectoryVars
    <2> SUFFICES ASSUME Advance, Rule[case] = Whirlpool, NEW s \in Here.cells, board[s] = Source
                 PROVE  /\ board'[s] = Source
                        /\ (\E n \in Here.adjacent[s] : board[n] = Resting)
                             => \E m \in Here.adjacent[s] : board[m] = Resting /\ board'[m] = Excited
      BY <1>1 DEF TrajectoryNext
    <2>1. Framed(Here)
      BY <1>1, RuleRuns
    <2>2. board' = WhirlpoolBatch(Here, board)
      BY DEF Advance, Generation, Whirlpool
    <2>3. board'[s] = Source
      <3>1. WhirlpoolBatch(Here, board)[s] = Source
        BY DEF WhirlpoolBatch, Resting, Excited, Trailing, Refractory, Source
      <3> QED BY <2>2, <3>1
    <2>4. ASSUME NEW n \in Here.adjacent[s], board[n] = Resting
          PROVE  \E m \in Here.adjacent[s] : board[m] = Resting /\ board'[m] = Excited
      <3>1. PICK m \in Here.adjacent[s] : /\ m \in Here.cells /\ board[m] = Resting
                                         /\ m \in Pulsed(Here, board, Tally(Here, board))
        BY <2>1, <2>4, SourceMarks
      <3>2. WhirlpoolBatch(Here, board)[m] = Excited
        BY <3>1 DEF WhirlpoolBatch, Resting, Excited, Trailing, Refractory, Source
      <3> QED BY <2>2, <3>1, <3>2
    <2> QED BY <2>3, <2>4
  <1> QED BY <1>1, InitQInv, NextQInv, PTL DEF TrajectorySpec, SourcesEmit

\* A regular tiling of some size.
RegularTopology(t) ==
    \E geometry \in RegularGeometries, width \in Nat, height \in Nat :
        /\ t.cells = Coordinates(width, height)
        /\ \A c \in t.cells : t.adjacent[c] = Neighbors(geometry, width, height, c)

\* What the labels and the bounds need besides: the boards remembered are the
\* rule's, and a comparison stops at the first repetition.
KInv ==
    /\ generation <= MaxSteps
    /\ extinction \in {None} \cup 0 .. generation
    /\ \A g \in DOMAIN seen : seen[g] \in [Here.cells -> Rule[case].states]
    /\ stopOnCycle /\ period # None => generation = cycleStart + period

LEMMA InitKInv == TrajectoryInit => KInv
  <1> SUFFICES ASSUME TrajectoryInit PROVE KInv OBVIOUS
  <1>1. board \in [Here.cells -> Rule[case].states]
    BY SeedsAssumption DEF TrajectoryInit, Here
  <1>2. generation = 0 /\ 0 <= MaxSteps /\ 0 \in 0 .. 0
    BY BudgetAssumption DEF TrajectoryInit
  <1>3. \A g \in DOMAIN seen : seen[g] = board
    BY DEF TrajectoryInit
  <1>4. period = None /\ extinction \in {None, 0}
    BY DEF TrajectoryInit
  <1> QED BY <1>1, <1>2, <1>3, <1>4 DEF KInv

LEMMA StepKInv == IInv /\ QInv /\ QInv' /\ KInv /\ Advance => KInv'
  <1> SUFFICES ASSUME IInv, QInv, QInv', KInv, Advance PROVE KInv' OBVIOUS
  <1>1. /\ generation \in Nat /\ generation' = generation + 1 /\ ~Finished
        /\ case' = case /\ stopOnCycle' = stopOnCycle /\ Here' = Here
        /\ Measure(board', generation')
    BY DEF Advance, IInv, Remembered, Here
  <1>2. generation' <= MaxSteps
    BY <1>1, BudgetAssumption DEF KInv, Finished
  <1>3. extinction' \in {None} \cup 0 .. generation'
    BY <1>1 DEF KInv, Measure
  <1>4. board' \in [Here.cells -> Rule[case].states]
    BY <1>1 DEF QInv, BoardOfRule
  <1>5. \A g \in DOMAIN seen' : seen'[g] \in [Here.cells -> Rule[case].states]
    <2>1. CASE UNCHANGED seen
      BY <2>1 DEF KInv
    <2>2. CASE seen' = [n \in DOMAIN seen \cup {generation'} |-> IF n = generation' THEN board' ELSE seen[n]]
      BY <1>4, <2>2 DEF KInv
    <2> QED BY <1>1, <2>1, <2>2 DEF Measure
  <1>6. stopOnCycle' /\ period' # None => generation' = cycleStart' + period'
    <2> SUFFICES ASSUME stopOnCycle', period' # None PROVE generation' = cycleStart' + period'
      OBVIOUS
    <2>1. period = None
      BY <1>1 DEF Finished
    <2>2. SeenAt(board') # None /\ cycleStart' = SeenAt(board') /\ period' = generation' - SeenAt(board')
      BY <1>1, <2>1 DEF Measure
    <2>3. SeenAt(board') \in Int
      BY <1>1, <2>1, <2>2, SeenAtIs DEF IInv, Remembered, Last
    <2> QED BY <1>1, <2>2, <2>3
  <1> QED BY <1>1, <1>2, <1>3, <1>5, <1>6 DEF KInv

LEMMA NextKInv == IInv /\ QInv /\ QInv' /\ KInv /\ [TrajectoryNext]_trajectoryVars => KInv'
  <1>1. KInv /\ UNCHANGED trajectoryVars => KInv'
    BY DEF trajectoryVars, KInv, Here
  <1> QED BY <1>1, StepKInv DEF TrajectoryNext

(***************************************************************************)
(* Boards hold states of their rule and the bookkeeping is consistent.     *)
(***************************************************************************)
THEOREM TrajectoryTyped == TrajectorySpec => []TrajectoryTypeOK
  <1>1. ASSUME IInv, QInv, KInv PROVE TrajectoryTypeOK
    <2>1. board \in [Here.cells -> Rule[case].states]
      BY <1>1 DEF QInv, BoardOfRule
    <2>2. generation \in 0 .. MaxSteps /\ extinction \in {None} \cup 0 .. generation
      BY <1>1, BudgetAssumption DEF IInv, Remembered, KInv
    <2>3. DOMAIN seen = 0 .. Last /\ generation \in Nat
      BY <1>1 DEF IInv, Remembered
    <2>4. CASE period = None
      BY <1>1, <2>1, <2>2, <2>3, <2>4 DEF IInv, Open, Last, TrajectoryTypeOK
    <2>5. CASE period # None
      <3>1. /\ period \in Nat \ {0} /\ cycleStart \in Nat
            /\ generation >= cycleStart + period /\ Last = cycleStart + period - 1
        BY <1>1, <2>5 DEF IInv, Closed, Last
      <3>2. cycleStart # None /\ cycleStart \in 0 .. Last /\ 0 .. Last \subseteq 0 .. generation
        BY <2>3, <3>1 DEF None
      <3> QED BY <2>1, <2>2, <2>3, <2>5, <3>2 DEF TrajectoryTypeOK
    <2> QED BY <2>4, <2>5
  <1> QED BY <1>1, InitIInv, NextIInv, InitQInv, NextQInv, InitKInv, NextKInv, PTL DEF TrajectorySpec

(***************************************************************************)
(* On regular tilings of any size the board run is well formed: its states *)
(* are the rule's and adjacency is mutual.                                 *)
(***************************************************************************)
THEOREM RegularBoardsAreWellFormed ==
    ASSUME \A n \in Cases : RegularTopology(Topology[n])
    PROVE  TrajectorySpec => []BoardWellFormed
  <1>1. ASSUME QInv PROVE AdjacencyMutual
    <2>1. PICK geometry \in RegularGeometries, width \in Nat, height \in Nat :
              /\ Here.cells = Coordinates(width, height)
              /\ \A c \in Here.cells : Here.adjacent[c] = Neighbors(geometry, width, height, c)
      BY <1>1 DEF QInv, BoardOfRule, Here, RegularTopology
    <2> SUFFICES ASSUME NEW c \in Here.cells, NEW n \in Here.adjacent[c]
                 PROVE  n # c /\ n \in Here.cells /\ c \in Here.adjacent[n]
      BY DEF AdjacencyMutual
    <2>2. n \in Neighbors(geometry, width, height, c) /\ n \in Here.cells
      BY <2>1 DEF Neighbors
    <2> QED BY <2>1, <2>2, RegularAdjacencySymmetric
  <1> QED BY <1>1, InitQInv, NextQInv, TrajectoryTyped, PTL DEF TrajectorySpec, BoardWellFormed

\* The boards to come, as LabelForetells has them.
Later(b, M) == CHOOSE f : f = [n \in 0 .. M + 1 |-> IF n = 0 THEN b ELSE After(f[n - 1])]

\* Boards that come round after p of them.
ComesRound(round, p) ==
    \A n \in 0 .. p - 1 : After(round[n]) = round[IF n = p - 1 THEN 0 ELSE n + 1]

\* A board that is its own successor, or that is followed round a cycle.
LEMMA Follows ==
    ASSUME NEW M \in Nat, NEW b, NEW round, NEW p \in Nat \ {0},
           round[0] = b, ComesRound(round, p)
    PROVE  \A n \in 0 .. M + 1 : Later(b, M)[n] = round[n % p]
  <1> DEFINE S == 0 .. M + 1
             Is(f) == f = [n \in S |-> IF n = 0 THEN b ELSE After(f[n - 1])]
             later == Later(b, M)
             walk == [n \in S |-> round[n % p]]
  <1>1. ASSUME NEW n \in Nat PROVE After(round[n % p]) = round[(n + 1) % p]
    <2>1. n % p \in 0 .. p - 1
      BY DivMod
    <2>2. (n + 1) % p = IF n % p = p - 1 THEN 0 ELSE (n % p) + 1
      BY NextRest
    <2> QED BY <2>1, <2>2 DEF ComesRound
  <1>2. 0 % p = 0
    BY RestOf, p * 0 + 0 = 0
  <1>3. Is(walk)
    <2>1. ASSUME NEW n \in S PROVE walk[n] = IF n = 0 THEN b ELSE After(walk[n - 1])
      <3>1. CASE n = 0
        BY <1>2, <3>1
      <3>2. CASE n # 0
        <4>1. n - 1 \in Nat /\ n - 1 \in S /\ n - 1 + 1 = n
          BY <3>2
        <4>2. After(round[(n - 1) % p]) = round[n % p]
          BY <1>1, <4>1
        <4> QED BY <3>2, <4>1, <4>2
      <3> QED BY <3>1, <3>2
    <2>2. walk = [n \in S |-> walk[n]]
      OBVIOUS
    <2> HIDE DEF walk, S
    <2> QED BY <2>1, <2>2
  <1>4. Is(later)
    <2> HIDE DEF walk
    <2>1. \E f : Is(f)
      BY <1>3
    <2>2. later = CHOOSE f : Is(f)
      BY DEF Later
    <2> HIDE DEF Is, later
    <2> QED BY <2>1, <2>2
  <1> HIDE DEF later
  <1>5. ASSUME NEW n \in S PROVE later[n] = IF n = 0 THEN b ELSE After(later[n - 1])
    <2> HIDE DEF S
    <2> QED BY <1>4
  <1> DEFINE T == {n \in Nat : n \in S => later[n] = round[n % p]}
  <1>6. 0 \in T
    <2>1. 0 \in S
      OBVIOUS
    <2> QED BY <1>2, <1>5, <2>1
  <1>7. ASSUME NEW n \in Nat, n \in T PROVE n + 1 \in T
    <2>1. SUFFICES ASSUME n + 1 \in S PROVE later[n + 1] = round[(n + 1) % p]
      OBVIOUS
    <2>2. n \in S /\ n + 1 # 0 /\ n + 1 - 1 = n
      BY <2>1
    <2>3. later[n] = round[n % p]
      BY <1>7, <2>2
    <2>4. later[n + 1] = After(later[n])
      <3> HIDE DEF S
      <3>1. PICK k : k = n + 1
        OBVIOUS
      <3>2. k \in S /\ k # 0 /\ k - 1 = n
        BY <2>1, <2>2, <3>1
      <3>3. later[k] = After(later[k - 1])
        BY <1>5, <3>2
      <3> QED BY <3>1, <3>2, <3>3
    <2> QED BY <1>1, <2>3, <2>4
  <1>8. Nat \subseteq T
    <2> HIDE DEF T
    <2> QED BY <1>6, <1>7, Induct
  <1> QED BY <1>8 DEF later

(***************************************************************************)
(* The label of a comparison tells how the board would go on, for every    *)
(* rule of the registry, topology, first board and budget.                 *)
(***************************************************************************)
THEOREM LabelsForetell == TrajectorySpec => []LabelForetells
  <1>1. ASSUME IInv, QInv, KInv PROVE LabelForetells
    <2> DEFINE S == 0 .. MaxSteps + 1
               Is(f) == f = [n \in S |-> IF n = 0 THEN board ELSE Generation(Rule[case], Here, f[n - 1])]
               later == CHOOSE f : Is(f)
               label == Classify(Population(board), period)
               Told(f) ==
                  CASE label = "extinct"    -> Population(board) = 0 /\ f[1] = board
                    [] label = "still-life" -> Population(board) > 0 /\ f[1] = board
                    [] label = "oscillator" ->
                         /\ f[period] = board
                         /\ \A n \in 1 .. period - 1 : f[n] # board /\ Population(f[n]) > 0
                    [] label = "unsettled"  -> generation = MaxSteps /\ Cardinality(DOMAIN seen) = MaxSteps + 1
    <2>1. LabelForetells <=> (Finished /\ stopOnCycle => Told(later))
      BY DEF LabelForetells
    <2>2. SUFFICES ASSUME Finished, stopOnCycle PROVE Told(later)
      BY <2>1
    <2>3. /\ MaxSteps \in Nat /\ generation \in 0 .. MaxSteps
          /\ case \in Cases /\ board \in [Here.cells -> Rule[case].states]
          /\ \A g \in DOMAIN seen : seen[g] \in [Here.cells -> Rule[case].states]
      BY <1>1, BudgetAssumption DEF IInv, QInv, KInv, Remembered, BoardOfRule
    \* An empty board is its own successor.
    <2>4. ASSUME NEW b \in [Here.cells -> Rule[case].states], Population(b) = 0
          PROVE  After(b) = b
      <3>1. \A c \in Here.cells : b[c] = 0
        BY <2>3, <2>4, NoPopulation DEF Here
      <3>2. /\ Rule[case] \in Registry
            /\ \A c \in Here.cells : Here.adjacent[c] \subseteq Here.cells
            /\ Rule[case] = Whirlpool =>
                 \A c \in Here.cells : \A l \in Here.frame[c].links : l.cell \in Here.cells
        BY <1>1, RuleRuns DEF Framed, FrameFits
      <3>3. \A c \in Here.cells : After(b)[c] = 0
        BY <3>1, <3>2, NothingFromNothing DEF After
      <3>4. After(b) \in [Here.cells -> Rule[case].states]
        BY <3>2, GenerationTyped DEF After
      <3> QED BY <3>1, <3>3, <3>4
    <2>5. ASSUME NEW b \in [Here.cells -> Rule[case].states] PROVE Population(b) \in Nat
      <3>1. IsFiniteSet({c \in DOMAIN b : b[c] # 0})
        BY <1>1, RuleRuns, FS_Subset
      <3> QED BY <3>1, FS_CardinalityType DEF Population
    <2>6. later = Later(board, MaxSteps)
      BY DEF Later, After
    <2> HIDE DEF later, label
    <2>7. ASSUME After(board) = board PROVE later[1] = board
      <3> DEFINE round == [n \in {0} |-> board]
      <3>1. ComesRound(round, 1)
        BY <2>7 DEF ComesRound
      <3>2. round[0] = board /\ 1 \in Nat \ {0} /\ 1 \in 0 .. MaxSteps + 1
        BY <2>3
      <3>3. \A n \in 0 .. MaxSteps + 1 : later[n] = round[n % 1]
        <4> HIDE DEF round
        <4> QED BY <2>3, <2>6, <3>1, <3>2, Follows
      <3>4. 1 % 1 = 0
        BY RestOf, 1 = 1 * 1 + 0
      <3> QED BY <3>2, <3>3, <3>4
    <2>8. CASE Population(board) = 0
      <3>1. label = "extinct"
        BY <2>8 DEF label, Classify
      <3>2. later[1] = board
        BY <2>3, <2>4, <2>7, <2>8
      <3> QED BY <2>8, <3>1, <3>2
    <2>9. CASE Population(board) # 0 /\ period = None
      <3>1. label = "unsettled"
        BY <2>9 DEF label, Classify, None
      <3>2. generation = MaxSteps /\ DOMAIN seen = 0 .. MaxSteps
        BY <1>1, <2>2, <2>9 DEF Finished, IInv, Remembered, Last
      <3>3. Cardinality(DOMAIN seen) = MaxSteps + 1
        BY <2>3, <3>2, FS_Interval
      <3> QED BY <3>1, <3>2, <3>3
    <2>10. CASE Population(board) # 0 /\ period # None
      <3>1. /\ period \in Nat \ {0} /\ cycleStart \in Nat /\ generation = cycleStart + period
            /\ DOMAIN seen = 0 .. cycleStart + period - 1
            /\ After(seen[cycleStart + period - 1]) = seen[cycleStart]
            /\ board = seen[cycleStart + ((generation - cycleStart) % period)]
        BY <1>1, <2>2, <2>10 DEF IInv, Remembered, Closed, Last, KInv
      <3>2. generation - cycleStart = period * 1 + 0 /\ generation - cycleStart \in Nat /\ period <= MaxSteps
        <4>1. generation - cycleStart = period
          BY <3>1
        <4>2. period * 1 + 0 = period
          BY <3>1
        <4>3. period <= MaxSteps
          BY <2>3, <3>1
        <4> QED BY <3>1, <4>1, <4>2, <4>3
      <3>3. (generation - cycleStart) % period = 0 /\ period % period = 0
        BY <3>1, <3>2, RestOf
      <3>4. board = seen[cycleStart]
        BY <3>1, <3>3
      <3> DEFINE round == [n \in 0 .. period - 1 |-> seen[cycleStart + n]]
      <3>5. ASSUME NEW n \in 0 .. period - 1
            PROVE  /\ round[n] = seen[cycleStart + n] /\ cycleStart + n \in DOMAIN seen
                   /\ After(round[n]) = round[IF n = period - 1 THEN 0 ELSE n + 1]
        <4>1. round[n] = seen[cycleStart + n] /\ cycleStart + n \in DOMAIN seen
          BY <3>1
        <4>2. CASE n = period - 1
          <5>1. cycleStart + n = cycleStart + period - 1 /\ cycleStart + 0 = cycleStart /\ 0 \in 0 .. period - 1
            BY <3>1, <4>2
          <5> QED BY <3>1, <4>1, <4>2, <5>1
        <4>3. CASE n # period - 1
          <5>1. n + 1 \in 0 .. period - 1 /\ cycleStart + n + 1 \in DOMAIN seen
                /\ cycleStart + n + 1 = cycleStart + (n + 1)
            BY <3>1, <4>3
          <5>2. seen[cycleStart + n + 1] = After(seen[cycleStart + n])
            BY <1>1, <4>1, <5>1 DEF IInv, Remembered
          <5> QED BY <4>1, <4>3, <5>1, <5>2
        <4> QED BY <4>1, <4>2, <4>3
      <3>6. round[0] = board
        BY <3>1, <3>4, <3>5
      <3> HIDE DEF round
      <3>7a. ComesRound(round, period)
        BY <3>5 DEF ComesRound
      <3>7. \A n \in 0 .. MaxSteps + 1 : later[n] = round[n % period]
        BY <2>3, <2>6, <3>1, <3>7a, <3>6, Follows
      <3>8. later[period] = board /\ later[1] = round[1 % period]
        <4>1. period \in 0 .. MaxSteps + 1 /\ 1 \in 0 .. MaxSteps + 1
          BY <2>3, <3>1, <3>2
        <4>2. later[period] = round[period % period] /\ later[1] = round[1 % period]
          BY <3>7, <4>1
        <4> QED BY <3>3, <3>6, <4>2
      <3>9. CASE period = 1
        <4>1. label = "still-life" /\ Population(board) > 0
          BY <2>3, <2>5, <2>10, <3>9 DEF label, Classify
        <4> QED BY <3>8, <3>9, <4>1
      <3>10. CASE period > 1
        <4>1. label = "oscillator"
          BY <2>10, <3>10 DEF label, Classify
        <4>2. ASSUME NEW n \in 1 .. period - 1
              PROVE  later[n] # board /\ Population(later[n]) > 0
          <5>1. n \in 0 .. period - 1 /\ n \in 0 .. MaxSteps + 1 /\ n = period * 0 + n /\ n \in Nat
            BY <2>3, <3>1, <3>2
          <5>2. later[n] = round[n]
            <6>1. n % period = n
              BY <3>1, <5>1, RestOf
            <6> QED BY <3>7, <5>1, <6>1
          <5>3. ASSUME NEW m \in 0 .. period - 1, round[m] = round[n] PROVE m = n
            <6>1. seen[cycleStart + m] = seen[cycleStart + n]
              BY <3>5, <5>1, <5>3
            <6>2. cycleStart + m = cycleStart + n
              BY <1>1, <3>5, <5>1, <6>1 DEF IInv, Remembered
            <6>3. m \in Nat /\ n \in Nat /\ cycleStart \in Nat
              BY <3>1, <5>1
            <6> QED BY <6>2, <6>3
          <5>4. round[n] # board
            <6>1. 0 \in 0 .. period - 1 /\ n # 0
              BY <3>1, <5>1
            <6> QED BY <3>6, <5>3, <6>1
          <5>5. round[n] \in [Here.cells -> Rule[case].states]
            BY <2>3, <3>5, <5>1
          <5>6. Population(round[n]) # 0
            <6> SUFFICES ASSUME Population(round[n]) = 0 PROVE FALSE
              OBVIOUS
            <6>1. After(round[n]) = round[n]
              BY <2>4, <5>5
            <6>2. (IF n = period - 1 THEN 0 ELSE n + 1) \in 0 .. period - 1
              BY <3>1, <5>1
            <6>3. (IF n = period - 1 THEN 0 ELSE n + 1) # n
              BY <3>1, <5>1
            <6> QED BY <3>5, <5>1, <5>3, <6>1, <6>2, <6>3
          <5> QED BY <2>5, <5>2, <5>4, <5>5, <5>6
        <4> QED BY <3>8, <4>1, <4>2
      <3>11. period = 1 \/ period > 1
        BY <3>1
      <3> QED BY <3>9, <3>10, <3>11
    <2> QED BY <2>8, <2>9, <2>10
  <1> QED BY <1>1, InitIInv, NextIInv, InitQInv, NextQInv, InitKInv, NextKInv, PTL DEF TrajectorySpec

===============================================================================
