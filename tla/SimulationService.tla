------------------------ MODULE SimulationService ------------------------
(***************************************************************************)
(* One SimulationService (src/backend/simulation/service.py): the state of *)
(* a running automaton and every operation on it.  Each operation takes    *)
(* the service lock for its whole body, so each is one action here.  The   *)
(* operators named after a result (Stepped, Configured, ...) map the state *)
(* before the operation to the state after it, so that a module that calls *)
(* the service from a request handler can reuse them.                      *)
(*                                                                         *)
(* A value of Topologies stands for a topology specification together with *)
(* the lattice built from it; its name is the topology_revision.  What a   *)
(* rule computes is left open: a step installs any board the rule's states *)
(* allow.                                                                  *)
(***************************************************************************)
EXTENDS Integers, Functions

CONSTANTS
    Topologies,     \* topology specifications with the lattice each builds
    Families,       \* tiling families (geometry keys)
    FamilyOf,       \* [Topologies -> Families]
    ViewportSynced, \* the families whose size a config patch may change
    CellsOf,        \* [Topologies -> sets of cell ids]
    Rules,
    StatesOf,       \* [Rules -> sets of cell states, each containing 0]
    PaintOf,        \* [Rules -> the rule's default_paint_state]
    Supported,      \* [Rules -> the families the rule supports]
    Speeds,
    Initial,        \* what build_initial_state chooses: [topology, rule, speed]
    MaxRevision,    \* bound: mutations of one state lifetime
    MaxEpoch,       \* bound: state lifetimes (epochs minted)
    ClockMayGoBack  \* whether the wall clock may be set back between processes

CellStates == UNION {StatesOf[r] : r \in Rules}
Boards(t, r) == [CellsOf[t] -> StatesOf[r]]
Epochs == 1 .. MaxEpoch

ASSUME DomainAssumption ==
    /\ FamilyOf \in [Topologies -> Families]
    /\ ViewportSynced \subseteq Families
    /\ DOMAIN CellsOf = Topologies
    /\ DOMAIN StatesOf = Rules
    /\ \A r \in Rules : StatesOf[r] \subseteq Nat /\ 0 \in StatesOf[r]
    /\ DOMAIN PaintOf = Rules
    /\ \A r \in Rules : PaintOf[r] \in StatesOf[r] \ {0}
    /\ Supported \in [Rules -> SUBSET Families]
    /\ Initial \in [topology : Topologies, rule : Rules, speed : Speeds]
    /\ FamilyOf[Initial.topology] \in Supported[Initial.rule]
    /\ MaxRevision \in Nat /\ MaxEpoch \in Nat \ {0}
    /\ ClockMayGoBack \in BOOLEAN

VARIABLES
    state,   \* SimulationStateData
    epochs   \* every state_epoch minted so far (history)

serviceVars == <<state, epochs>>

---------------------------------------------------------------------------
(* Boards. *)

EmptyBoard(t) == [c \in CellsOf[t] |-> 0]

\* Cells that exist in both lattices keep their state.
Transferred(board, t) ==
    [c \in CellsOf[t] |-> IF c \in DOMAIN board THEN board[c] ELSE 0]

\* States the next rule does not know become 0.
Coerced(board, r) ==
    [c \in DOMAIN board |-> IF board[c] \in StatesOf[r] THEN board[c] ELSE 0]

---------------------------------------------------------------------------
(* The state after each operation. *)

Bumped(s) == [s EXCEPT !.revision = @ + 1]

\* start and resume: the same function
Started(s) == IF s.running THEN s ELSE Bumped([s EXCEPT !.running = TRUE])

Paused(s) == IF s.running THEN Bumped([s EXCEPT !.running = FALSE]) ELSE s

\* service_boards.step_board with the board the engine returned
StepBoard(s, board) == [s EXCEPT !.cells = board, !.generation = @ + 1]

Stepped(s, board) == Bumped(StepBoard([s EXCEPT !.running = FALSE], board))

SteppedIfRunning(s, board) == IF s.running THEN Bumped(StepBoard(s, board)) ELSE s

ResetTo(s, t, r, speed, board) ==
    Bumped([s EXCEPT !.running = FALSE, !.generation = 0, !.rule = r,
                     !.topology = t, !.cells = board, !.speed = speed])

\* The pairings plan_reset_transition lets through.
MayReset(t, r) == FamilyOf[t] \in Supported[r]

\* A config patch resizes inside the family, and only a viewport-synced one;
\* the effective rule must support the family even when it does not change.
MayConfigure(s, t, r) ==
    /\ FamilyOf[t] = FamilyOf[s.topology]
    /\ t # s.topology => FamilyOf[t] \in ViewportSynced
    /\ FamilyOf[s.topology] \in Supported[r]

\* A bug: the rule is coerced onto the old lattice only when it is not resized.
Reconfigured_SkipsCoercion(s, t, r, speed) ==
    [s EXCEPT !.running = @ /\ t = s.topology,
              !.cells = IF t # s.topology THEN Transferred(@, t)
                        ELSE IF r # s.rule THEN Coerced(@, r) ELSE @,
              !.topology = t, !.rule = r, !.speed = speed]

\* apply_config_transition
Reconfigured(s, t, r, speed) ==
    LET resized == IF t # s.topology THEN Transferred(s.cells, t) ELSE s.cells
    IN  [s EXCEPT !.running = @ /\ t = s.topology,
                  !.cells = IF r # s.rule THEN Coerced(resized, r) ELSE resized,
                  !.topology = t, !.rule = r, !.speed = speed]

ConfigOf(s) == <<s.topology, s.speed>>

\* A bug: only the configuration is compared, so a rule change is not counted.
Configured_IgnoresRule(s, t, r, speed) ==
    LET next == Reconfigured(s, t, r, speed)
    IN  IF ConfigOf(next) # ConfigOf(s) THEN Bumped(next) ELSE next

Configured(s, t, r, speed) ==
    LET next == Reconfigured(s, t, r, speed)
    IN  IF ConfigOf(next) # ConfigOf(s) \/ next.rule # s.rule THEN Bumped(next) ELSE next

\* set_cells_by_id: cells the topology lacks are skipped.
WithCells(s, updates) ==
    [s EXCEPT !.cells = [c \in DOMAIN @ |-> IF c \in DOMAIN updates THEN updates[c] ELSE @[c]]]

\* toggle_cells_by_id
WithToggled(s, toggled) ==
    [s EXCEPT !.cells = [c \in DOMAIN @ |-> IF c \notin toggled THEN @[c]
                                            ELSE IF @[c] # 0 THEN 0 ELSE PaintOf[s.rule]]]

\* The cells an edit effectively changed, with their new states.
UpdatesBetween(before, after) ==
    Restrict(after.cells, {c \in DOMAIN before.cells : after.cells[c] # before.cells[c]})

\* Only an effective edit advances the revision.
Edited(s, next) == IF UpdatesBetween(s, next) = << >> THEN s ELSE Bumped(next)

\* validate_state_values
MaySetCells(s, updates) == Range(updates) \subseteq StatesOf[s.rule]

---------------------------------------------------------------------------
(* State lifetimes. *)

FreshState(epoch) ==
    [epoch |-> epoch, revision |-> 0, running |-> FALSE, generation |-> 0,
     topology |-> Initial.topology, cells |-> EmptyBoard(Initial.topology),
     rule |-> Initial.rule, speed |-> Initial.speed]

\* next_state_epoch: strictly increasing within a process, wall clock across.
MayMint(epoch) ==
    /\ epoch \notin epochs
    /\ ClockMayGoBack \/ \A e \in epochs : e < epoch

\* What the restorer makes of a persisted payload: paused, revision 0, unknown
\* cell states dropped, and (leniently) any pairing of rule and family.
RestoredState(epoch, payload) ==
    [epoch |-> epoch, revision |-> 0, running |-> FALSE,
     generation |-> payload.generation, topology |-> payload.topology,
     cells |-> Coerced(Transferred(payload.cells, payload.topology), payload.rule),
     rule |-> payload.rule, speed |-> payload.speed]

\* The first process mints whatever its clock says.
ServiceInit == \E epoch \in Epochs : state = FreshState(epoch) /\ epochs = {epoch}

---------------------------------------------------------------------------
(* Actions.  MaxRevision bounds the mutations of a lifetime. *)

Unbounded == state.revision < MaxRevision

Start == Unbounded /\ state' = Started(state) /\ UNCHANGED epochs

Pause == Unbounded /\ state' = Paused(state) /\ UNCHANGED epochs

Step ==
    /\ Unbounded
    /\ \E board \in Boards(state.topology, state.rule) : state' = Stepped(state, board)
    /\ UNCHANGED epochs

\* SimulationRuntimeController.run_once
StepIfRunning ==
    /\ Unbounded
    /\ \E board \in Boards(state.topology, state.rule) :
          state' = SteppedIfRunning(state, board)
    /\ UNCHANGED epochs

Reset ==
    /\ Unbounded
    /\ \E t \in Topologies, r \in Rules, speed \in Speeds :
          /\ MayReset(t, r)
          /\ \E board \in Boards(t, r) : state' = ResetTo(state, t, r, speed, board)
    /\ UNCHANGED epochs

UpdateConfig ==
    /\ Unbounded
    /\ \E t \in Topologies, r \in Rules, speed \in Speeds :
          /\ MayConfigure(state, t, r)
          /\ state' = Configured(state, t, r, speed)
    /\ UNCHANGED epochs

\* toggle_cell_by_id: one id, known to the topology or not
ToggleCell ==
    /\ Unbounded
    /\ \E c \in UNION Range(CellsOf) : state' = Edited(state, WithToggled(state, {c}))
    /\ UNCHANGED epochs

\* set_cell_state_by_id and set_cells_by_id
SetCells ==
    /\ Unbounded
    /\ \E ids \in SUBSET UNION Range(CellsOf) : \E updates \in [ids -> CellStates] :
          /\ MaySetCells(state, updates)
          /\ state' = Edited(state, WithCells(state, updates))
    /\ UNCHANGED epochs

\* The process restarts (or the session is evicted and built again).  The new
\* state is the initial one or is restored from a payload, which an earlier
\* life of this session, or an older version of the program, has written.
Payloads ==
    UNION {[generation : {0, state.generation}, topology : {t}, rule : Rules, speed : Speeds,
            cells : [CellsOf[t] -> CellStates]] : t \in Topologies}

Restart ==
    \E epoch \in Epochs :
        /\ MayMint(epoch)
        /\ epochs' = epochs \cup {epoch}
        /\ \/ state' = FreshState(epoch)
           \/ \E payload \in Payloads : state' = RestoredState(epoch, payload)

\* The bounds are spent.
Spent == ~Unbounded /\ (\A e \in Epochs : ~MayMint(e)) /\ UNCHANGED serviceVars

Mutate == Start \/ Pause \/ Step \/ Reset \/ UpdateConfig \/ ToggleCell \/ SetCells

ServiceNext == Mutate \/ StepIfRunning \/ Restart \/ Spent

ServiceSpec == ServiceInit /\ [][ServiceNext]_serviceVars

---------------------------------------------------------------------------
(* Properties. *)

StateRecords ==
    [epoch : Epochs, revision : 0 .. MaxRevision, running : BOOLEAN, generation : Nat,
     topology : Topologies, cells : UNION {[CellsOf[t] -> CellStates] : t \in Topologies},
     rule : Rules, speed : Speeds]

\* The state has the shape of SimulationStateData and its board is over the
\* cells of its topology.
ServiceTypeOK ==
    /\ state \in StateRecords
    /\ DOMAIN state.cells = CellsOf[state.topology]
    /\ epochs \subseteq Epochs
    /\ state.epoch \in epochs

\* Every cell holds a state the current rule declares, whatever sequence of
\* rule changes, resizes, edits, resets and restores led here (rules index
\* tables with the states they are given).
StatesLegal == \A c \in DOMAIN state.cells : state.cells[c] \in StatesOf[state.rule]

\* Both: the board is over the cells of its topology and legal for its rule.
ServiceConsistent == ServiceTypeOK /\ StatesLegal

\* What a client can observe of a state.
View(s) == <<s.running, s.generation, s.topology, s.cells, s.rule, s.speed>>

\* Within one lifetime the revision never goes back, no operation advances it
\* by more than one, and every observable change advances it: two snapshots
\* with the same epoch and revision are the same state
\* (docs/ARCHITECTURE.md on state_revision).
RevisionCountsMutations ==
    [][state'.epoch = state.epoch =>
          /\ state'.revision \in {state.revision, state.revision + 1}
          /\ View(state') # View(state) => state'.revision = state.revision + 1]_serviceVars
==========================================================================
