------------------------ MODULE StandaloneRuntime ------------------------
(***************************************************************************)
(* The standalone host: the page's backend (standalone/worker-client.ts),  *)
(* the worker that runs the Python service and its run loop                *)
(* (standalone-worker.ts, browser_runtime.py) and the browser's storage    *)
(* (standalone/persistence.ts).  Messages keep their order; the worker       *)
(* works off one chain of tasks, which a message reaches before the next   *)
(* tick is due (20 ms at least); storage takes its transactions in the     *)
(* order they were asked for.                                              *)
(*                                                                         *)
(* A state of the simulation is a version, whether it runs, and its        *)
(* lattice: the version of the reset that made it.  Versions go on across  *)
(* reloads, so that they say which of two states came later.               *)
(***************************************************************************)
EXTENDS Naturals, Sequences, FiniteSets, SequencesExt

CONSTANTS
    Calls,          \* calls of the backend that may be under way together
    Nothing,        \* null
    MaxVersion,     \* bound: commands past it are refused, ticks not told apart
    MaxTicks,       \* bound: ticks under way
    MaxCommands,    \* bound: calls other than polls
    MaxFailures,    \* bound: failing ticks, saves, starts and crashes
    MaxReloads      \* bound: times the page closes

States == [version : 0..MaxVersion, running : BOOLEAN, lattice : 0..(MaxVersion + 1)]
CallStates ==
    [kind : {"control", "cells", "read", "state"}, phase : {"asked", "saving"}, refreshing : BOOLEAN]

ASSUME StandaloneAssumption ==
    /\ {MaxVersion, MaxTicks, MaxCommands, MaxFailures, MaxReloads} \subseteq Nat
    /\ Nothing \notin States \cup CallStates \cup Calls \cup {"boot"}
    /\ "boot" \notin Calls

VARIABLES
    sim,      \* the service's state: [version, running, lattice]
    newest,   \* the newest version there ever was (history)
    ready,    \* initialized
    running,  \* the worker's own notion of running
    timer,    \* tickTimer runs
    chain,    \* operationChain: tasks that wait
    outbox,   \* messages to the page
    page,     \* "loading", "open", "failed" or "closed"
    fatal,    \* fatalError
    cache,    \* SimulationSnapshotCache.snapshot
    calls,    \* calls[c]: [kind, phase, refreshing] or Nothing
    saves,    \* transactions under way: [state, caller]
    store,    \* what storage holds
    shown,    \* the page was told last that the simulation runs
    told,     \* the newest version a caller was told of (history)
    used      \* what is spent of the bounds (history)

service == <<sim, newest>>
loop == <<service, ready, running, timer>>
client == <<page, fatal, cache, calls, shown, told>>
storage == <<saves, store>>
vars == <<loop, chain, outbox, client, storage, used>>

Spend(what, max) == used[what] < max /\ used' = [used EXCEPT ![what] = @ + 1]
Failure == Spend("failures", MaxFailures)

Tick == [kind |-> "tick"]
InitTask(loaded) == [kind |-> "init", state |-> loaded]
Request(c, kind) == [kind |-> kind, caller |-> c]

FirstState == [version |-> 0, running |-> FALSE, lattice |-> 0]

\* createStandaloneEnvironment: the worker is asked to start from what is saved
Loading ==
    /\ page' = "loading" /\ chain' = <<InitTask(store)>>
    /\ fatal' = FALSE /\ cache' = Nothing /\ shown' = FALSE

Init ==
    /\ sim = FirstState /\ newest = 0
    /\ ready = FALSE /\ running = FALSE /\ timer = FALSE
    /\ chain = <<InitTask(Nothing)>>
    /\ outbox = << >>
    /\ page = "loading" /\ fatal = FALSE /\ cache = Nothing
    /\ calls = [c \in Calls |-> Nothing]
    /\ saves = << >> /\ store = Nothing
    /\ shown = FALSE /\ told = 0
    /\ used = [commands |-> 0, failures |-> 0, reloads |-> 0]

---------------------------------------------------------------------------
(* The worker.  Nothing else touches the service while a task runs, so that *)
(* a task is one step; messages and the timer only append to the chain.     *)

\* Ticks that wait, and their states on the way to storage
TicksUnderWay ==
    Len(SelectSeq(chain, LAMBDA task : task = Tick))
    + Len(SelectSeq(outbox, LAMBDA message : message.kind = "persist"))
    + Len(SelectSeq(saves, LAMBDA save : save.caller = Nothing))

TimerFires ==
    /\ timer /\ TicksUnderWay < MaxTicks
    /\ timer' = FALSE /\ chain' = Append(chain, Tick)
    /\ UNCHANGED <<service, ready, running, outbox, client, storage, used>>

NextTask(kind) == chain # << >> /\ Head(chain).kind = kind /\ chain' = Tail(chain)

\* syncSnapshotState and scheduleTickLoop
Synced(state) == running' = state.running /\ timer' = state.running

Post(message) == outbox' = Append(outbox, message)
Respond(kind, state) ==
    Post([kind |-> kind, caller |-> Head(chain).caller, state |-> state, base |-> sim.version])

RunInit ==
    /\ NextTask("init")
    /\ \/ LET restored == Head(chain).state
          IN  /\ sim' = IF restored = Nothing THEN FirstState
                        ELSE [restored EXCEPT !.lattice = newest + 1]
              /\ Synced(sim')
              /\ ready' = TRUE
              /\ Post([kind |-> "ready", state |-> sim'])
              /\ UNCHANGED used
       \/ /\ Failure \* Pyodide or the bundle cannot be loaded
          /\ Post([kind |-> "ready", state |-> Nothing])
          /\ UNCHANGED <<sim, ready, running, timer>>
    /\ UNCHANGED <<newest, client, storage>>

\* What a control command makes of the state: start, resume, pause, step,
\* reset and the configuration; some change nothing.
Controlled ==
    LET next == newest + 1
    IN  {sim}
        \cup {[sim EXCEPT !.version = next, !.running = ~@]}
        \cup {[sim EXCEPT !.version = next, !.running = FALSE]}
        \cup {[sim EXCEPT !.version = next]}
        \cup {[version |-> next, running |-> FALSE, lattice |-> next]}
        \cup {[sim EXCEPT !.version = next, !.lattice = next]}

RunCommand ==
    /\ NextTask("control") /\ newest < MaxVersion
    /\ sim' \in Controlled
    /\ newest' = IF sim' = sim THEN newest ELSE newest + 1
    /\ Synced(sim')
    /\ Respond("snapshot", sim')
    /\ UNCHANGED <<ready, client, storage, used>>

\* A bug: reading the state does not look at the run loop.
RunState_Unsynced ==
    /\ NextTask("state") \/ NextTask("full")
    /\ Respond(IF Head(chain).kind = "full" THEN "snapshot" ELSE "update", sim)
    /\ UNCHANGED <<loop, client, storage, used>>

\* /api/state, whole or without the topology
RunState ==
    /\ NextTask("state") \/ NextTask("full")
    /\ Synced(sim)
    /\ Respond(IF Head(chain).kind = "full" THEN "snapshot" ELSE "update", sim)
    /\ UNCHANGED <<service, ready, client, storage, used>>

\* A cell command answers with a delta, which carries no running flag: the loop
\* is armed for what the worker believed before.
RunCells ==
    /\ NextTask("cells") /\ newest < MaxVersion
    /\ sim' \in {sim, [sim EXCEPT !.version = newest + 1]}
    /\ newest' = IF sim' = sim THEN newest ELSE newest + 1
    /\ timer' = running
    /\ Respond("delta", sim')
    /\ UNCHANGED <<ready, running, client, storage, used>>

\* Rules, comparisons, filmstrips and previews
RunRead ==
    /\ NextTask("read")
    /\ timer' = running
    /\ Respond("plain", Nothing)
    /\ UNCHANGED <<service, ready, running, client, storage, used>>

\* A bug: a command that fails is not answered.
Refuse_Silent ==
    /\ NextTask("control") \/ NextTask("cells") \/ NextTask("read")
    /\ UNCHANGED <<loop, outbox, client, storage, used>>

\* A command that fails leaves the timer as it is.
Refuse ==
    /\ NextTask("control") \/ NextTask("cells") \/ NextTask("read")
    /\ Respond("error", Nothing)
    /\ UNCHANGED <<service, ready, running, timer, client, storage, used>>

\* A bug: a tick does not arm the next one.
RunTick_OneShot ==
    /\ NextTask("tick")
    /\ IF running /\ sim.running
       THEN /\ newest' = IF newest < MaxVersion THEN newest + 1 ELSE newest
            /\ sim' = [sim EXCEPT !.version = newest']
            /\ Post([kind |-> "persist", state |-> sim'])
       ELSE UNCHANGED <<service, outbox>>
    /\ timer' = FALSE
    /\ UNCHANGED <<ready, running, client, storage, used>>

\* executeTick
RunTick ==
    /\ NextTask("tick")
    /\ IF running /\ sim.running
       THEN /\ newest' = IF newest < MaxVersion THEN newest + 1 ELSE newest
            /\ sim' = [sim EXCEPT !.version = newest']
            /\ Post([kind |-> "persist", state |-> sim'])
       ELSE UNCHANGED <<service, outbox>>
    /\ timer' = running
    /\ UNCHANGED <<ready, running, client, storage, used>>

\* The loop stops until a snapshot says that the simulation runs.
TickFails ==
    /\ NextTask("tick") /\ running /\ sim.running /\ Failure
    /\ running' = FALSE /\ timer' = FALSE
    /\ UNCHANGED <<service, ready, outbox, client, storage>>

---------------------------------------------------------------------------
(* The page asks and is answered.                                           *)

Call(kind) == [kind |-> kind, phase |-> "asked", refreshing |-> FALSE]

\* The calls of the backend.  Once the worker is taken for dead they throw.
Ask(c, kind) ==
    /\ page = "open" /\ ~fatal /\ calls[c] = Nothing
    /\ calls' = [calls EXCEPT ![c] = Call(kind)]
    /\ chain' = Append(chain, Request(c, kind))
    /\ UNCHANGED <<loop, outbox, page, fatal, cache, shown, told, storage>>

Command(c, kind) == Ask(c, kind) /\ Spend("commands", MaxCommands)

\* The page polls while it shows a running simulation.
Poll ==
    /\ shown
    /\ \E c \in Calls : Ask(c, "state")
    /\ UNCHANGED used

Save(state, caller) == [state |-> state, caller |-> caller, again |-> FALSE]
\* A bug: the newest transaction is done first.
Persist_Overtakes(state, caller) == saves' = <<Save(state, caller)>> \o saves

Persist(state, caller) == saves' = Append(saves, Save(state, caller))

\* The answers of one worker come in the order of its states, so that install
\* never finds an older one; it is the newer of the two all the same.
Installed(state) ==
    IF cache # Nothing /\ state.version < cache.version THEN cache ELSE state

\* A bug: a caller is told as soon as its snapshot is installed.
Accept_Unsaved(c, state) ==
    /\ cache' = state
    /\ calls' = [calls EXCEPT ![c] = Nothing]
    /\ Persist(state, Nothing)
    /\ shown' = state.running /\ told' = IF state.version > told THEN state.version ELSE told
    /\ UNCHANGED chain

\* The snapshot is in the cache; the call goes on when it is saved.
Accept(c, state) ==
    /\ cache' = state
    /\ calls' = [calls EXCEPT ![c].phase = "saving"]
    /\ Persist(state, c)
    /\ UNCHANGED <<chain, shown, told>>

\* fetchFullState for a call whose answer does not fit the cache
Refresh(c) ==
    /\ calls' = [calls EXCEPT ![c].refreshing = TRUE]
    /\ chain' = Append(chain, Request(c, "full"))
    /\ UNCHANGED <<cache, shown, told, saves>>

Over(c) ==
    /\ calls' = [calls EXCEPT ![c] = Nothing]
    /\ UNCHANGED <<chain, cache, shown, told, saves>>

Fits(answer) ==
    CASE answer.kind = "update" -> cache.lattice = answer.state.lattice
      [] answer.kind = "delta" -> cache.version = answer.base /\ cache.lattice = answer.state.lattice
      [] OTHER -> TRUE

Receive(kind) == outbox # << >> /\ Head(outbox).kind = kind /\ outbox' = Tail(outbox)

ReceiveAnswer ==
    LET answer == Head(outbox)
        c == answer.caller
    IN  /\ \E kind \in {"snapshot", "update", "delta", "plain", "error"} : Receive(kind)
        /\ IF calls[c] = Nothing THEN UNCHANGED <<chain, cache, calls, shown, told, saves>>
           ELSE \/ answer.kind \in {"plain", "error"} /\ Over(c)
                \/ /\ answer.kind \in {"snapshot", "update", "delta"}
                   /\ IF Fits(answer) THEN Accept(c, Installed(answer.state))
                      ELSE IF fatal THEN Over(c)
                      ELSE Refresh(c)
        /\ UNCHANGED <<loop, page, fatal, store, used>>

\* A tick's state goes to storage and nowhere else.
ReceivePersist ==
    /\ Receive("persist")
    /\ Persist(Head(outbox).state, Nothing)
    /\ UNCHANGED <<loop, chain, client, store, used>>

\* The worker has started: the page waits for its first state to be saved.  One
\* that cannot start is disposed of.
ReceiveReady ==
    LET state == Head(outbox).state
    IN  /\ Receive("ready")
        /\ IF state = Nothing
           THEN /\ page' = "failed"
                /\ UNCHANGED saves
           ELSE /\ Persist(state, "boot")
                /\ UNCHANGED page
        /\ UNCHANGED <<loop, chain, fatal, cache, calls, shown, told, store, used>>

\* The worker reports an uncaught error: all calls that wait for it are
\* rejected.  It may go on all the same.
WorkerError ==
    /\ page = "open" /\ ~fatal /\ Failure
    /\ fatal' = TRUE
    /\ calls' = [c \in Calls |-> IF calls[c] # Nothing /\ calls[c].phase = "asked" THEN Nothing
                                 ELSE calls[c]]
    /\ UNCHANGED <<loop, chain, outbox, page, cache, shown, told, storage>>

---------------------------------------------------------------------------
(* Storage.                                                                 *)

Tell(state) ==
    /\ shown' = state.running
    /\ told' = IF state.version > told THEN state.version ELSE told

\* What the one who asked for the transaction does when it is done.  A call
\* that refreshed returns to its own reconciliation and saves once more.
Proceeds(state, caller) ==
    \/ /\ caller = Nothing
       /\ saves' = Tail(saves)
       /\ UNCHANGED <<page, cache, calls, shown, told>>
    \/ /\ caller = "boot"
       /\ saves' = Tail(saves)
       /\ page' = "open" /\ cache' = state /\ Tell(state)
       /\ UNCHANGED calls
    \/ /\ caller \in Calls /\ calls[caller].refreshing
       /\ saves' = Append(Tail(saves), [Save(Installed(state), caller) EXCEPT !.again = TRUE])
       /\ calls' = [calls EXCEPT ![caller].refreshing = FALSE]
       /\ UNCHANGED <<page, cache, shown, told>>
    \/ /\ caller \in Calls /\ ~calls[caller].refreshing
       /\ saves' = Tail(saves)
       /\ calls' = [calls EXCEPT ![caller] = Nothing]
       /\ Tell(state)
       /\ UNCHANGED <<page, cache>>

Commit ==
    /\ saves # << >>
    /\ store' = Head(saves).state
    /\ Proceeds(Head(saves).state, Head(saves).caller)
    /\ UNCHANGED <<loop, chain, outbox, fatal, used>>

\* The transaction aborts.  The call fails, although its command was applied;
\* a page that was loading gives up and leaves its worker alone.
SaveFails ==
    LET caller == Head(saves).caller
    IN  /\ saves # << >> /\ Failure
        /\ saves' = Tail(saves)
        /\ page' = IF caller = "boot" THEN "failed" ELSE page
        /\ calls' = IF caller \in Calls THEN [calls EXCEPT ![caller] = Nothing] ELSE calls
        /\ UNCHANGED <<loop, chain, outbox, fatal, cache, shown, told, store>>

---------------------------------------------------------------------------
(* The page goes: the worker is terminated, and of the transactions under    *)
(* way the first few still happen.                                           *)

Close ==
    /\ page # "closed" /\ Spend("reloads", MaxReloads)
    /\ page' = "closed"
    /\ ready' = FALSE /\ running' = FALSE /\ timer' = FALSE /\ chain' = << >>
    /\ outbox' = << >>
    /\ calls' = [c \in Calls |-> Nothing]
    /\ saves' = << >>
    /\ store' \in {store} \cup {saves[i].state : i \in DOMAIN saves}
    /\ UNCHANGED <<service, fatal, cache, shown, told>>

Reopen ==
    /\ page = "closed" /\ Loading
    /\ UNCHANGED <<loop, outbox, calls, told, storage, used>>

---------------------------------------------------------------------------
Work == RunInit \/ RunCommand \/ RunState \/ RunCells \/ RunRead \/ Refuse \/ RunTick \/ TickFails

Next ==
    \/ TimerFires \/ Work
    \/ \E c \in Calls, kind \in {"control", "cells", "read"} : Command(c, kind)
    \/ Poll
    \/ ReceiveAnswer \/ ReceivePersist \/ ReceiveReady \/ WorkerError
    \/ Commit \/ SaveFails \/ Close \/ Reopen

Spec == Init /\ [][Next]_vars

\* The worker works, its messages arrive, storage answers, the timer fires; commands
\* and failures are under no obligation.  The polls' interval does not wait for
\* a free call, which is a bound of the model.
FairSpec ==
    /\ Spec
    /\ WF_vars(TimerFires) /\ WF_vars(Work)
    /\ WF_vars(ReceiveAnswer \/ ReceivePersist \/ ReceiveReady)
    /\ WF_vars(Commit \/ SaveFails)
    /\ SF_vars(Poll)

---------------------------------------------------------------------------
(* Properties. *)

\* The shape of the state; what waits for storage waits in the order of calls.
StandaloneTypeOK ==
    /\ sim \in States /\ newest \in 0..MaxVersion
    /\ {ready, running, timer, fatal, shown} \subseteq BOOLEAN
    /\ {cache, store} \subseteq States \cup {Nothing}
    /\ page \in {"loading", "open", "failed", "closed"}
    /\ calls \in [Calls -> CallStates \cup {Nothing}]
    /\ \A c \in Calls :
           (calls[c] # Nothing /\ calls[c].phase = "saving") <=>
               \E i \in DOMAIN saves : saves[i].caller = c
    /\ told <= newest

\* A call that succeeds has saved what it returns: storage never falls behind
\* a state the page was told, whatever the ticks, other calls, failed
\* transactions and reloads in between.
ToldIsStored == told > 0 => store # Nothing /\ told <= store.version

\* The run loop does not stop by itself: while the worker takes the simulation
\* for running, its timer runs or a tick waits in the chain.
RunningIsTicking == running => timer \/ \E i \in DOMAIN chain : chain[i] = Tick

\* The worker and the page stay in step, and the run loop does not run dry.
RunnerConsistent == StandaloneTypeOK /\ RunningIsTicking

\* Nothing is lost by pausing: when nothing is under way and the simulation is
\* paused, storage holds its very state, unless something failed.
PausedIsStored ==
    (/\ page = "open" /\ ready /\ ~sim.running /\ used.failures = 0
     /\ chain = << >> /\ outbox = << >> /\ saves = << >>) =>
        store.version = sim.version /\ store.running = sim.running

\* Storage stays current: it never goes back to an older state, whichever of
\* ticks, answers and starts saves, but for the second save of a call that had
\* to refresh, which may come after a newer tick's.
StorageStaysCurrent ==
    [][\/ store' = store \/ store = Nothing
       \/ store'.version >= store.version
       \/ \E i \in DOMAIN saves : saves[i].again /\ saves[i].state = store']_vars

\* Every call is answered or rejected, even by a worker that failed.
CallsSettle == \A c \in Calls : calls[c] # Nothing ~> calls[c] = Nothing

\* A simulation that runs on an open page goes on running: a tick comes up
\* again and again, and a failed one is made good by the polls.
RunGoesOn ==
    []<>(\/ page # "open" \/ fatal \/ ~sim.running
         \/ chain # << >> /\ Head(chain) = Tick /\ running)
==========================================================================
