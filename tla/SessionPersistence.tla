-------------------------- MODULE SessionPersistence --------------------------
(***************************************************************************)
(* One SimulationCoordinator and its state file                            *)
(* (backend/simulation/coordinator*.py, persistence_coordinator.py,        *)
(* persistence.py).                                                        *)
(*                                                                         *)
(* Request threads mutate the simulation and then persist it, at once      *)
(* (run_immediate) or through a debounce timer (run_deferred); timer       *)
(* threads run _flush_deferred; the background loop steps a running        *)
(* simulation and persists nothing; the process may die at any step and    *)
(* restart from the file.                                                  *)
(*                                                                         *)
(* The simulation's state is abstracted to a version number: every         *)
(* effective mutation makes a new one (see SimulationService).             *)
(* The service lock and the coordinator's _lock guard sections that never  *)
(* block, so each such section is one step; _persist_lock is held across   *)
(* several steps and is a variable.                                        *)
(***************************************************************************)
EXTENDS Integers, FiniteSets

CONSTANTS
  Clients,      \* request threads
  Free,         \* "nobody holds the lock"
  Torn,         \* the content of a file that is not completely written
  Debounced,    \* is persistence_debounce_ms positive?
  MaxTokens,    \* bound: tokens (and so timers) in the life of a process
  MaxVersion,   \* bound: mutations that raise the version
  MaxFaults,    \* bound: saves that raise
  MaxCrashes    \* bound: deaths of the process

Timers == 1..MaxTokens          \* a timer is named by the token it carries
Procs  == Clients \cup Timers   \* every timer has a thread of its own

ASSUME ConstantsAssumption ==
  /\ MaxTokens \in Nat /\ MaxVersion \in Nat
  /\ MaxFaults \in Nat /\ MaxCrashes \in Nat
  /\ Debounced \in BOOLEAN
  /\ Clients \cap Int = {}
  /\ Free \notin Procs
  /\ Torn \notin Int

VARIABLES
  version,      \* service._state, as the number of mutations behind it
  running,      \* service._state.running
  loop,         \* the background loop's thread
  token,        \* _token
  dirty,        \* _dirty
  timer,        \* _timer: the token of the pending timer, 0 for None
  persistLock,  \* the holder of _persist_lock, or Free
  pc,           \* where each request or timer thread is
  previous,     \* each request thread's local timer to cancel, 0 for None
  own,          \* each request thread's local timer to start
  snap,         \* the snapshot a saving thread has taken
  temp,         \* the .json.tmp file
  disk,         \* the .json file (a missing file restores version 0)
  owed,         \* history: the version each request thread must see saved
  acked,        \* history: the newest version a caller was told is on file
  promised,     \* history: the newest version some caller asked to persist
  faults,       \* saves that raised so far
  crashes       \* deaths so far

memory  == <<version, running, loop>>
coord   == <<token, dirty, timer, persistLock>>
threads == <<pc, previous, own, snap>>
files   == <<temp, disk>>
history == <<owed, acked, promised>>
limits  == <<faults, crashes>>
vars    == <<memory, coord, threads, files, history, limits>>

\* run_immediate and flush_immediately, schedule_deferred_persist, the timer
\* thread's own life, and _persist with the save under it.
FlushPC    == {"flush", "cancel"}
SchedulePC == {"schedule", "cancelPrevious", "startTimer"}
TimerPC    == {"none", "new", "armed", "expired", "dead"}
HoldingPC  == {"snapshot", "open", "dump", "replace"}
SavingPC   == {"persist"} \cup HoldingPC
ClientPC   == {"idle", "return"} \cup FlushPC \cup SchedulePC \cup SavingPC

TypeOK ==
  /\ version \in Nat /\ running \in BOOLEAN
  /\ loop \in {"on", "stopping", "off"}
  /\ token \in 0..MaxTokens /\ timer \in 0..MaxTokens /\ dirty \in BOOLEAN
  /\ persistLock \in Procs \cup {Free}
  /\ pc \in [Procs -> ClientPC \cup TimerPC]
  /\ \A c \in Clients : pc[c] \in ClientPC
  /\ \A k \in Timers : pc[k] \in TimerPC \cup SavingPC
  /\ previous \in [Clients -> 0..MaxTokens] /\ own \in [Clients -> 0..MaxTokens]
  /\ snap \in [Procs -> Nat]
  /\ temp \in Nat \cup {Torn} /\ disk \in Nat \cup {Torn}
  /\ owed \in [Clients -> Nat] /\ acked \in Nat /\ promised \in Nat
  /\ faults \in Nat /\ crashes \in Nat

FreshPC == [p \in Procs |-> IF p \in Clients THEN "idle" ELSE "none"]

NoTimer == [c \in Clients |-> 0]

Init ==
  /\ version = 0 /\ running = FALSE /\ loop = "on"
  /\ token = 0 /\ dirty = FALSE /\ timer = 0 /\ persistLock = Free
  /\ pc = FreshPC
  /\ previous = NoTimer /\ own = NoTimer
  /\ snap = [p \in Procs |-> 0]
  /\ temp = 0 /\ disk = 0
  /\ owed = [c \in Clients |-> 0] /\ acked = 0 /\ promised = 0
  /\ faults = 0 /\ crashes = 0

Goto(p, label) == pc' = [pc EXCEPT ![p] = label]

\* A token is left for every operation under way: an operation that has begun
\* is never stopped by the bound.
TokenLeft ==
  token + Cardinality({c \in Clients : pc[c] \in {"flush", "schedule"}}) < MaxTokens

-----------------------------------------------------------------------------
(* Mutations: each one is atomic under the service's lock.                 *)

\* What a persisting mutation leaves: a new version, or, when it changed
\* nothing (a pause of a paused simulation, an unknown cell), the same one.
\* Whatever it did, the caller then persists.
Mutated(c) ==
  /\ version' \in {version, version + 1}
  /\ version' <= MaxVersion
  /\ owed' = [owed EXCEPT ![c] = version']
  /\ promised' = version'

\* pause, step, reset, update_config: the first half of run_immediate.
RunImmediate(c) ==
  /\ pc[c] = "idle" /\ TokenLeft
  /\ Mutated(c)
  /\ running' \in {running, FALSE}
  /\ Goto(c, "flush")
  /\ UNCHANGED <<loop, coord, previous, own, snap, files, acked, limits>>

\* toggle, set_cell, set_cells: the first half of run_deferred.
RunDeferred(c) ==
  /\ pc[c] = "idle" /\ TokenLeft
  /\ Mutated(c)
  /\ Goto(c, "schedule")
  /\ UNCHANGED <<running, loop, coord, previous, own, snap, files, acked, limits>>

\* start and resume go to the service directly: nothing is persisted.
Start(c) ==
  /\ pc[c] = "idle" /\ ~running /\ version < MaxVersion
  /\ running' = TRUE
  /\ version' = version + 1
  /\ UNCHANGED <<loop, coord, threads, files, history, limits>>

\* step_if_running in the background loop: nothing is persisted.  A loop told
\* to stop may be in the middle of its last iteration.
BackgroundStep ==
  /\ loop # "off" /\ running /\ version < MaxVersion
  /\ version' = version + 1
  /\ loop' = IF loop = "stopping" THEN "off" ELSE loop
  /\ UNCHANGED <<running, coord, threads, files, history, limits>>

\* A loop that sees its stop event.
LoopExit ==
  /\ loop = "stopping"
  /\ loop' = "off"
  /\ UNCHANGED <<version, running, coord, threads, files, history, limits>>

\* SimulationCoordinator.shutdown: the stop event is set, the join waits at
\* most its timeout, then the state is flushed, whether or not the loop ended.
Shutdown(c) ==
  /\ pc[c] = "idle" /\ TokenLeft
  /\ loop' = IF loop = "on" THEN "stopping" ELSE loop
  /\ owed' = [owed EXCEPT ![c] = version]
  /\ promised' = version
  /\ Goto(c, "flush")
  /\ UNCHANGED <<version, running, coord, previous, own, snap, files, acked, limits>>

-----------------------------------------------------------------------------
(* The debounced persistence: PersistenceCoordinator.                      *)

\* schedule_deferred_persist, under _lock: a new timer replaces the pending
\* one.  Without a debounce the call is a flush.
Schedule(c) ==
  /\ pc[c] = "schedule"
  /\ IF Debounced
     THEN /\ token < MaxTokens
          /\ token' = token + 1
          /\ dirty' = TRUE
          /\ timer' = token + 1
          /\ previous' = [previous EXCEPT ![c] = timer]
          /\ own' = [own EXCEPT ![c] = token + 1]
          /\ pc' = [pc EXCEPT ![c] = "cancelPrevious", ![token + 1] = "new"]
     ELSE /\ Goto(c, "flush")
          /\ UNCHANGED <<token, dirty, timer, previous, own>>
  /\ UNCHANGED <<memory, persistLock, snap, files, history, limits>>

\* Mutant: the field _timer is read again after _lock is released, in place of
\* the local that was read under it.
Cancel_Field(c, label) ==
  /\ previous' = [previous EXCEPT ![c] = 0]
  /\ pc' = [p \in Procs |->
              IF p = c THEN label
              ELSE IF p = timer /\ pc[p] \in {"new", "armed"} THEN "dead" ELSE pc[p]]

\* Timer.cancel: a timer that has not expired never will, started or not; one
\* whose callback has begun goes on.
Cancel(c, label) ==
  /\ previous' = [previous EXCEPT ![c] = 0]
  /\ pc' = [p \in Procs |->
              IF p = c THEN label
              ELSE IF p = previous[c] /\ pc[p] \in {"new", "armed"} THEN "dead" ELSE pc[p]]

CancelPrevious(c) ==
  /\ pc[c] = "cancelPrevious"
  /\ Cancel(c, "startTimer")
  /\ UNCHANGED <<memory, coord, own, snap, files, history, limits>>

\* timer.start() on the timer this call made; one that another thread has
\* cancelled meanwhile never calls back.
StartTimer(c) ==
  /\ pc[c] = "startTimer"
  /\ pc' = [p \in Procs |->
              IF p = c THEN "idle"
              ELSE IF p = own[c] /\ pc[p] = "new" THEN "armed" ELSE pc[p]]
  /\ own' = [own EXCEPT ![c] = 0]
  /\ owed' = [owed EXCEPT ![c] = 0]
  /\ UNCHANGED <<memory, coord, previous, snap, files, acked, promised, limits>>

\* The debounce delay of a timer is over: its callback is about to run.
Expire(k) ==
  /\ pc[k] = "armed"
  /\ Goto(k, "expired")
  /\ UNCHANGED <<memory, coord, previous, own, snap, files, history, limits>>

\* _flush_deferred, under _lock: a callback that has been superseded, or finds
\* nothing to save, ends; the other one takes the pending save.
FlushDeferred(k) ==
  /\ pc[k] = "expired"
  /\ IF k # token \/ ~dirty
     THEN /\ Goto(k, "dead")
          /\ UNCHANGED <<timer, dirty>>
     ELSE /\ timer' = 0
          /\ dirty' = FALSE
          /\ Goto(k, "persist")
  /\ UNCHANGED <<memory, token, persistLock, previous, own, snap, files, history, limits>>

\* Mutant: _timer is cleared before it is read, and nothing is cancelled.
FlushImmediately_ClearsFirst(c) ==
  /\ pc[c] = "flush" /\ token < MaxTokens
  /\ token' = token + 1
  /\ timer' = 0
  /\ previous' = [previous EXCEPT ![c] = timer']
  /\ dirty' = FALSE
  /\ Goto(c, "cancel")
  /\ UNCHANGED <<memory, persistLock, own, snap, files, history, limits>>

\* flush_immediately, under _lock: it supersedes every pending callback.
FlushImmediately(c) ==
  /\ pc[c] = "flush" /\ token < MaxTokens
  /\ token' = token + 1
  /\ previous' = [previous EXCEPT ![c] = timer]
  /\ timer' = 0
  /\ dirty' = FALSE
  /\ Goto(c, "cancel")
  /\ UNCHANGED <<memory, persistLock, own, snap, files, history, limits>>

CancelPending(c) ==
  /\ pc[c] = "cancel"
  /\ Cancel(c, "persist")
  /\ UNCHANGED <<memory, coord, own, snap, files, history, limits>>

-----------------------------------------------------------------------------
(* The save: _persist, save_to_store and SimulationStateStore.save.        *)

\* Mutant: _persist without its lock.
AcquirePersistLock_None(p) ==
  /\ pc[p] = "persist"
  /\ persistLock' = p
  /\ Goto(p, "snapshot")
  /\ UNCHANGED <<memory, token, dirty, timer, previous, own, snap, files, history, limits>>

AcquirePersistLock(p) ==
  /\ pc[p] = "persist" /\ persistLock = Free
  /\ persistLock' = p
  /\ Goto(p, "snapshot")
  /\ UNCHANGED <<memory, token, dirty, timer, previous, own, snap, files, history, limits>>

\* get_state: an atomic copy under the service's lock.
TakeSnapshot(p) ==
  /\ pc[p] = "snapshot"
  /\ snap' = [snap EXCEPT ![p] = version]
  /\ Goto(p, "open")
  /\ UNCHANGED <<memory, coord, previous, own, files, history, limits>>

\* Mutant: the state file itself is opened and written.
OpenTemp_InPlace(p) ==
  /\ pc[p] = "open"
  /\ disk' = Torn
  /\ Goto(p, "dump")
  /\ UNCHANGED <<memory, coord, previous, own, snap, temp, history, limits>>

\* temp_path.open("w") truncates the temporary file.
OpenTemp(p) ==
  /\ pc[p] = "open"
  /\ temp' = Torn
  /\ Goto(p, "dump")
  /\ UNCHANGED <<memory, coord, previous, own, snap, disk, history, limits>>

\* json.dump and the close of the handle.
DumpTemp(p) ==
  /\ pc[p] = "dump"
  /\ temp' = snap[p]
  /\ Goto(p, "replace")
  /\ UNCHANGED <<memory, coord, previous, own, snap, disk, history, limits>>

\* Where a thread goes when its save is done.
Saved(p) == IF p \in Clients THEN "return" ELSE "dead"

\* Mutant: dirty is cleared when the save is done, not when it is taken on.
ReplaceFile_ClearsDirty(p) ==
  /\ pc[p] = "replace"
  /\ disk' = temp
  /\ persistLock' = Free
  /\ dirty' = FALSE
  /\ snap' = [snap EXCEPT ![p] = 0]
  /\ Goto(p, Saved(p))
  /\ UNCHANGED <<memory, token, timer, previous, own, temp, history, limits>>

\* temp_path.replace(path), atomic; then _persist_lock is released.
ReplaceFile(p) ==
  /\ pc[p] = "replace"
  /\ disk' = temp
  /\ persistLock' = Free
  /\ snap' = [snap EXCEPT ![p] = 0]
  /\ Goto(p, Saved(p))
  /\ UNCHANGED <<memory, token, dirty, timer, previous, own, temp, history, limits>>

\* The save raises: save_to_store logs it, and the caller goes on as if the
\* state were on file.  Nobody retries: dirty was cleared before.
SaveFails(p) ==
  /\ pc[p] \in {"open", "dump", "replace"} /\ faults < MaxFaults
  /\ faults' = faults + 1
  /\ persistLock' = Free
  /\ snap' = [snap EXCEPT ![p] = 0]
  /\ owed' = [c \in Clients |-> IF c = p THEN 0 ELSE owed[c]]
  /\ Goto(p, IF p \in Clients THEN "idle" ELSE "dead")
  /\ UNCHANGED <<memory, token, dirty, timer, previous, own, files, acked, promised, crashes>>

\* The caller of a flush gets its answer.
Return(c) ==
  /\ pc[c] = "return"
  /\ acked' = IF owed[c] > acked THEN owed[c] ELSE acked
  /\ owed' = [owed EXCEPT ![c] = 0]
  /\ Goto(c, "idle")
  /\ UNCHANGED <<memory, coord, previous, own, snap, files, promised, limits>>

-----------------------------------------------------------------------------
(* The process dies, between any two steps, and a new one restores the     *)
(* session: restore_state.  A file it cannot read leaves the default state.*)

\* Mutant: a new coordinator does not load its file.
Restored_Default == 0

\* What the new process starts from.
Restored == IF disk = Torn THEN 0 ELSE disk

CrashAndRestore ==
  /\ crashes < MaxCrashes
  /\ crashes' = crashes + 1
  /\ version' = Restored
  /\ running' = FALSE /\ loop' = "on"
  /\ token' = 0 /\ dirty' = FALSE /\ timer' = 0 /\ persistLock' = Free
  /\ pc' = FreshPC
  /\ previous' = NoTimer /\ own' = NoTimer
  /\ snap' = [p \in Procs |-> 0]
  /\ owed' = [c \in Clients |-> 0]
  /\ promised' = version'
  /\ UNCHANGED <<files, acked, faults>>

-----------------------------------------------------------------------------
ClientStep(c) ==
  \/ Schedule(c) \/ CancelPrevious(c) \/ StartTimer(c)
  \/ FlushImmediately(c) \/ CancelPending(c) \/ Return(c)

TimerStep(k) == Expire(k) \/ FlushDeferred(k)

SaveStep(p) ==
  \/ AcquirePersistLock(p) \/ TakeSnapshot(p)
  \/ OpenTemp(p) \/ DumpTemp(p) \/ ReplaceFile(p)

Request(c) == RunImmediate(c) \/ RunDeferred(c) \/ Start(c) \/ Shutdown(c)

\* Nothing is under way: the service waits for a request.
Quiet ==
  /\ \A c \in Clients : pc[c] = "idle"
  /\ \A k \in Timers : pc[k] \in {"none", "dead"}
AtRest == Quiet /\ UNCHANGED vars

Next ==
  \/ \E c \in Clients : Request(c) \/ ClientStep(c)
  \/ \E k \in Timers : TimerStep(k)
  \/ \E p \in Procs : SaveStep(p) \/ SaveFails(p)
  \/ BackgroundStep \/ LoopExit
  \/ CrashAndRestore
  \/ AtRest

Spec == Init /\ [][Next]_vars

\* A thread that has something to do goes on, and a timer's delay ends.
\* Nothing obliges a caller to come, a save to fail or the process to die.
Fairness ==
  /\ \A c \in Clients : WF_vars(ClientStep(c))
  /\ \A k \in Timers : WF_vars(TimerStep(k))
  /\ \A p \in Procs : WF_vars(SaveStep(p))

FairSpec == Spec /\ Fairness

-----------------------------------------------------------------------------
(* Properties.                                                             *)

\* Thread c has taken over the pending timer k and is about to cancel it.
WillCancel(c, k) == previous[c] = k /\ pc[c] \in {"cancel", "cancelPrevious"}

\* No timer is left to run when its work was superseded: one that may still
\* expire is the pending one, or a thread that replaced it or flushed in its
\* stead is on its way to cancel it.  A flush, and so a shutdown, leaves none
\* of the timers made before it, in whatever order the calls of several
\* threads are taken (persistence_coordinator.py:54-66, 76-87).
NoStrayTimer ==
  \A k \in Timers : pc[k] \in {"new", "armed"} =>
    timer = k \/ \E c \in Clients : WillCancel(c, k)

\* Both: the component's types, and no stray timer.
TimersConsistent == TypeOK /\ NoStrayTimer

\* Once a caller of an immediate mutation (coordinator_mutations.py:22-30) or
\* of shutdown has its answer, what it did, and everything before it, is on
\* file, unless that save raised: no slower save of another thread puts an
\* older snapshot over it.
DurableAck == disk # Torn /\ acked <= disk

\* The file never goes back to an older state: snapshots taken by several
\* threads reach it in the order they were taken.
DiskNeverRegresses == [][disk' # Torn /\ disk' >= disk]_disk

\* Thread p is going to save the newest promised state: it has yet to take
\* its snapshot, or the one it took is new enough.
WillSave(p) ==
  \/ pc[p] \in FlushPC \cup {"schedule", "persist", "snapshot"}
  \/ pc[p] \in {"open", "dump", "replace"} /\ snap[p] >= promised

\* The pending timer is going to call back and find its token current: it
\* waits for its delay, or the thread that made it has yet to start it.
TimerWillFire ==
  /\ dirty /\ timer = token /\ timer \in Timers
  /\ \/ pc[timer] \in {"armed", "expired"}
     \/ /\ pc[timer] = "new"
        /\ \E c \in Clients : own[c] = timer /\ pc[c] \in {"cancelPrevious", "startTimer"}

\* No schedule, flush, cancel or expiry, in any order, loses a save somebody
\* asked for: while the file is behind it, a thread or the pending timer is
\* on its way to save it (save errors excepted: nothing retries them).
NoLostPersist ==
  faults = 0 => \/ promised <= disk
                \/ TimerWillFire
                \/ \E p \in Procs : WillSave(p)

\* A persist that was asked for reaches the file, if no save raises and the
\* process lives.
EventuallySaved ==
  \A v \in 1..MaxVersion : promised >= v ~> (disk >= v \/ promised < v \/ faults > 0)

\* The session's file is the write-behind register of WriteBehind.
Register == INSTANCE WriteBehind WITH current <- version, saved <- disk
ImplementsWriteBehind == Register!Spec

=============================================================================
