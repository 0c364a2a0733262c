--------------------------- MODULE HttpBackend ---------------------------
(***************************************************************************)
(* A browser client of one session over HTTP: createHttpSimulationBackend  *)
(* (src/frontend/api.ts) with its SimulationSnapshotCache, against the     *)
(* SimulationService of the session.  Polls, control commands and cell     *)
(* edits are in flight at the same time; the server takes them in any      *)
(* order, the background loop and other clients change the state between   *)
(* them, answers come back in any order or never, and the server may       *)
(* restart with a new state lifetime.                                      *)
(*                                                                         *)
(* A request keeps no reference to the snapshot it started from: the cache *)
(* stores a new object at every assignment, so "this.snapshot !== the base *)
(* of the request" is "the cache was assigned since the request", raced.   *)
(***************************************************************************)
EXTENDS SimulationService

CONSTANTS
    Requests,     \* calls of the backend that may be in flight together
    NoSnapshot,   \* null
    NoAnswer,     \* no response yet
    MaxFaults     \* bound: lost calls and server restarts, together

VARIABLES
    cache,     \* SimulationSnapshotCache.snapshot
    phase,     \* phase[r]: where call r stands
    full,      \* full[r]: r asked for the topology
    raced,     \* raced[r]: the cache was assigned since r's base was read
    answer,    \* answer[r]: the response in flight to the client
    floor,     \* floor[r]: newest state r has seen the server in (history)
    faults     \* lost calls and restarts so far (history)

clientVars == <<cache, phase, full, raced, answer, floor, faults>>
vars == <<serviceVars, clientVars>>

Idle(r) == phase[r] = "idle"

\* The lifetime and revision of a snapshot, and their order.
Stamp(s) == <<s.epoch, s.revision>>
Origin == <<0, 0>>
Older(a, b) == a[1] < b[1] \/ (a[1] = b[1] /\ a[2] < b[2])

\* Responses: a full snapshot carries the lattice (layout), an update does not.
FullSnapshot(s) == [kind |-> "snapshot", state |-> s, layout |-> s.topology]
CompactUpdate(s) == [kind |-> "update", state |-> s]
Delta(s, next) ==
    [kind |-> "delta", epoch |-> s.epoch, base |-> s.revision, revision |-> next.revision,
     topology |-> s.topology, generation |-> s.generation, updates |-> UpdatesBetween(s, next)]

Snapshots == [kind : {"snapshot"}, state : StateRecords, layout : Topologies]
Updates == [kind : {"update"}, state : StateRecords]
Deltas ==
    [kind : {"delta"}, epoch : Epochs, base : Nat, revision : Nat, topology : Topologies,
     generation : Nat, updates : UNION {[ids -> CellStates] : ids \in SUBSET UNION Range(CellsOf)}]
Responses == Snapshots \cup Updates \cup Deltas

ASSUME BackendAssumption ==
    MaxFaults \in Nat /\ NoSnapshot \notin Snapshots /\ NoAnswer \notin Responses

Init ==
    /\ ServiceInit
    /\ cache = NoSnapshot
    /\ phase = [r \in Requests |-> "idle"]
    /\ full = [r \in Requests |-> FALSE]
    /\ raced = [r \in Requests |-> FALSE]
    /\ answer = [r \in Requests |-> NoAnswer]
    /\ floor = [r \in Requests |-> Origin]
    /\ faults = 0

---------------------------------------------------------------------------
(* Sending.  What a command asks for is chosen when the server takes it.   *)

Send(r, kind, wantsTopology) ==
    /\ Idle(r)
    /\ phase' = [phase EXCEPT ![r] = kind]
    /\ full' = [full EXCEPT ![r] = wantsTopology]
    /\ raced' = [raced EXCEPT ![r] = FALSE]
    /\ UNCHANGED <<serviceVars, cache, answer, floor, faults>>

GetState(r) == Send(r, "state", cache = NoSnapshot)
PostControl(r) == Send(r, "control", TRUE)
MutateCells(r) == Send(r, "cells", FALSE)

---------------------------------------------------------------------------
(* The server.  Every access to the service is one lock acquisition.       *)

Answer(r, response, stamp) ==
    /\ phase' = [phase EXCEPT ![r] = "answered"]
    /\ answer' = [answer EXCEPT ![r] = response]
    /\ floor' = [floor EXCEPT ![r] = IF Older(@, stamp) THEN stamp ELSE @]

ServeState(r) ==
    /\ phase[r] = "state"
    /\ Answer(r, IF full[r] THEN FullSnapshot(state) ELSE CompactUpdate(state), Stamp(state))
    /\ UNCHANGED <<serviceVars, cache, full, raced, faults>>

\* A control command changes the state in one lock acquisition ...
ServeControl(r) ==
    /\ phase[r] = "control"
    /\ Start \/ Pause \/ Step \/ Reset \/ UpdateConfig
    /\ phase' = [phase EXCEPT ![r] = "snapshot"]
    /\ floor' = [floor EXCEPT ![r] = Stamp(state')]
    /\ UNCHANGED <<cache, full, raced, answer, faults>>

\* ... and reads the snapshot it answers with in another.
ServeSnapshot(r) ==
    /\ phase[r] = "snapshot"
    /\ Answer(r, FullSnapshot(state), Stamp(state))
    /\ UNCHANGED <<serviceVars, cache, full, raced, faults>>

ServeCells(r) ==
    /\ phase[r] = "cells"
    /\ ToggleCell \/ SetCells
    /\ Answer(r, Delta(state, state'), Stamp(state'))
    /\ UNCHANGED <<cache, full, raced, faults>>

\* The background loop.
Tick == StepIfRunning /\ UNCHANGED clientVars

\* These calls are over.
Finish(calls) ==
    /\ phase' = [r \in Requests |-> IF r \in calls THEN "idle" ELSE phase[r]]
    /\ full' = [r \in Requests |-> r \notin calls /\ full[r]]
    /\ answer' = [r \in Requests |-> IF r \in calls THEN NoAnswer ELSE answer[r]]
    /\ floor' = [r \in Requests |-> IF r \in calls THEN Origin ELSE floor[r]]

Dropped(calls) ==
    /\ Finish(calls)
    /\ raced' = [r \in Requests |-> r \notin calls /\ raced[r]]

\* A new process drops the commands the old one was half-way through.
RestartServer ==
    /\ faults < MaxFaults
    /\ faults' = faults + 1
    /\ Restart
    /\ Dropped({r \in Requests : phase[r] = "snapshot"})
    /\ UNCHANGED cache

\* The server refuses a command (a 400 response) and changes nothing.
Refuse(r) ==
    /\ phase[r] \in {"control", "cells"}
    /\ Dropped({r})
    /\ UNCHANGED <<serviceVars, cache, faults>>

\* The request or the response is lost.
Fail(r) ==
    /\ ~Idle(r) /\ faults < MaxFaults
    /\ faults' = faults + 1
    /\ Dropped({r})
    /\ UNCHANGED <<serviceVars, cache>>

---------------------------------------------------------------------------
(* Receiving.  Everything up to the next await is one action.              *)

\* this.snapshot = next, seen by every other call whose base is older.
Assign(r, next) ==
    /\ cache' = next
    /\ raced' = [q \in Requests |-> q # r /\ phase[q] # "idle"]

Keep(r) == cache' = cache /\ raced' = [raced EXCEPT ![r] = FALSE]

\* SimulationSnapshotCache.install
IsStale(r, next) ==
    /\ raced[r] /\ cache # NoSnapshot
    /\ Older(Stamp(next.state), Stamp(cache.state))

\* A bug: a response that lands is installed whatever landed before it.
Install_Always(r, next) == Assign(r, next)

\* A bug: an older snapshot is refused whether or not another one landed since
\* its request was sent.
Install_NeverOlder(r, next) ==
    IF cache # NoSnapshot /\ Older(Stamp(next.state), Stamp(cache.state))
    THEN Keep(r) ELSE Assign(r, next)

\* A bug: revisions are compared without the epoch.
Install_RevisionOnly(r, next) ==
    IF raced[r] /\ cache # NoSnapshot /\ next.state.revision < cache.state.revision
    THEN Keep(r) ELSE Assign(r, next)

Install(r, next) == IF IsStale(r, next) THEN Keep(r) ELSE Assign(r, next)

\* The compact update fits the lattice the cache holds.
CanRehydrate(update) == cache # NoSnapshot /\ cache.state.topology = update.state.topology

Rehydrated(update) == [kind |-> "snapshot", state |-> update.state, layout |-> cache.layout]

\* A bug: a delta is taken on any revision of its lifetime.
DeltaApplies_AnyBase(d) ==
    /\ cache # NoSnapshot
    /\ d.epoch = cache.state.epoch
    /\ d.topology = cache.state.topology

\* applyCellMutationDelta returns a snapshot
DeltaApplies(d) ==
    /\ cache # NoSnapshot
    /\ d.epoch = cache.state.epoch
    /\ d.base = cache.state.revision
    /\ d.topology = cache.state.topology
    /\ d.generation = cache.state.generation
    /\ d.revision = IF d.updates = << >> THEN d.base ELSE d.base + 1
    /\ DOMAIN d.updates \subseteq CellsOf[cache.layout]

Patched(d) ==
    [cache EXCEPT !.state = [WithCells(@, d.updates) EXCEPT !.revision = d.revision]]

\* A bug: what does not fit the cache is dropped.
Refresh_Dropped(r) == Finish({r}) /\ Keep(r)

\* A full refresh: a new request from the cache as it stands.
Refresh(r) ==
    /\ phase' = [phase EXCEPT ![r] = "state"]
    /\ full' = [full EXCEPT ![r] = TRUE]
    /\ raced' = [raced EXCEPT ![r] = FALSE]
    /\ answer' = [answer EXCEPT ![r] = NoAnswer]
    /\ UNCHANGED <<cache, floor>>

ReceiveSnapshot(r) ==
    /\ phase[r] = "answered" /\ answer[r].kind = "snapshot"
    /\ Install(r, answer[r])
    /\ Finish({r})
    /\ UNCHANGED <<serviceVars, faults>>

\* reconcileUpdate
ReceiveUpdate(r) ==
    /\ phase[r] = "answered" /\ answer[r].kind = "update"
    /\ \/ CanRehydrate(answer[r]) /\ Install(r, Rehydrated(answer[r])) /\ Finish({r})
       \/ ~CanRehydrate(answer[r]) /\ Refresh(r)
    /\ UNCHANGED <<serviceVars, faults>>

\* reconcileDelta
ReceiveDelta(r) ==
    /\ phase[r] = "answered" /\ answer[r].kind = "delta"
    /\ \/ DeltaApplies(answer[r]) /\ Assign(r, Patched(answer[r])) /\ Finish({r})
       \/ ~DeltaApplies(answer[r]) /\ Refresh(r)
    /\ UNCHANGED <<serviceVars, faults>>

---------------------------------------------------------------------------
Serve(r) ==
    ServeState(r) \/ ServeControl(r) \/ ServeSnapshot(r) \/ ServeCells(r) \/ Refuse(r)
Receive(r) == ReceiveSnapshot(r) \/ ReceiveUpdate(r) \/ ReceiveDelta(r)

Next ==
    \/ Tick \/ RestartServer
    \/ \E r \in Requests :
          \/ GetState(r) \/ PostControl(r) \/ MutateCells(r)
          \/ Serve(r) \/ Receive(r) \/ Fail(r)

Spec == Init /\ [][Next]_vars

\* The browser runs its poll timer while the cached snapshot says running, the
\* server takes every request and each response reaches the client; commands,
\* edits, ticks and faults are under no obligation.  The timer does
\* not wait for other calls to end: where they leave no free call in Requests
\* it is a bound of the model, so fairness of the timer is strong.
Poll == cache # NoSnapshot /\ cache.state.running /\ \E r \in Requests : GetState(r)

FairSpec ==
    /\ Spec
    /\ SF_vars(Poll)
    /\ \A r \in Requests : WF_vars(Serve(r)) /\ WF_vars(Receive(r))

---------------------------------------------------------------------------
(* Properties. *)

TypeOK ==
    /\ ServiceTypeOK
    /\ cache \in Snapshots \cup {NoSnapshot}
    /\ phase \in [Requests -> {"idle", "state", "control", "snapshot", "cells", "answered"}]
    /\ full \in [Requests -> BOOLEAN] /\ raced \in [Requests -> BOOLEAN]
    /\ answer \in [Requests -> Responses \cup {NoAnswer}] /\ floor \in [Requests -> Nat \X Nat]
    /\ \A r \in Requests : (phase[r] = "answered") = (answer[r] # NoAnswer)
    /\ faults \in 0 .. MaxFaults

\* A cached snapshot is one the server was in: it is drawn on the lattice of
\* its own topology revision, and when it carries the server's epoch and
\* revision it is the server's state, cell for cell, however the polls, edits
\* and commands that built it were interleaved.
CacheCoherent ==
    cache # NoSnapshot =>
        /\ cache.layout = cache.state.topology
        /\ DOMAIN cache.state.cells = CellsOf[cache.layout]
        /\ Stamp(cache.state) = Stamp(state) => cache.state = state

\* Both: the client's bookkeeping is well-formed and its cache coherent.
ClientConsistent == TypeOK /\ CacheCoherent

\* What the client shows never goes back to an older state (docs/ARCHITECTURE.md:
\* "older in-flight refreshes cannot replace a newer installed snapshot").
CacheNeverRegresses ==
    [][cache # NoSnapshot =>
          cache' # NoSnapshot /\ ~Older(Stamp(cache'.state), Stamp(cache.state))]_vars

\* When a command or edit completes, the client shows its effect or something
\* newer, whatever else was in flight.
SeesOwnCall ==
    [][\A r \in Requests :
          phase[r] = "answered" /\ phase'[r] = "idle" /\ faults' = faults =>
              ~Older(Stamp(cache'.state), floor[r])]_vars

\* A client that goes on polling ends up with the state of the server, even
\* when epochs are minted out of order (ClockMayGoBack; models.py:424).
Converges == <>[](cache = NoSnapshot \/ ~cache.state.running \/ cache.state = state)
=============================================================================
