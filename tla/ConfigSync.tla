--------------------------- MODULE ConfigSync ----------------------------
(***************************************************************************)
(* The speed and rule controls of a client (src/frontend/config-sync): the *)
(* choice is shown at once, a speed is sent after a debounce, a rule right *)
(* away, and both go through the mutation queue, one task at a time, while *)
(* polls report what the server has.  reconcile, called with every         *)
(* snapshot the client applies, ends what the snapshot confirms.           *)
(*                                                                         *)
(* Snapshots carry a revision; that the client never applies an older one  *)
(* after a newer one is HttpBackend!CacheNeverRegresses, used here.        *)
(***************************************************************************)
EXTENDS Integers, Sequences

CONSTANTS
    Speeds,
    Rules,
    Nothing,     \* null
    Sent,        \* a poll the server has yet to answer
    MaxChoices,  \* bound: choices the user makes
    MaxPolls,    \* bound: polls and refreshes the client starts on its own
    MaxFailures, \* bound: requests that fail
    MaxOthers    \* bound: speed changes by other clients of the session

ASSUME SyncAssumption ==
    /\ Speeds # {} /\ Rules # {} /\ Nothing \notin Speeds \cup Rules
    /\ {MaxChoices, MaxPolls, MaxFailures, MaxOthers} \subseteq Nat

VARIABLES
    speed,    \* syncState: [pending, syncing] speed
    rule,     \* syncState: [pending, syncing] rule
    timer,    \* speedSyncTimer is set
    queue,    \* tasks of the mutation runner, the running one first
    stage,    \* where the running task stands
    server,   \* the session's [revision, speed, rule, running]
    response, \* response of the running task, in flight
    shown,    \* the snapshot the client applied last
    poll,     \* the poll in flight: Nothing, Sent or its response
    chosen,   \* [speed, rule] the user chose last (history)
    used      \* what is spent of the bounds (history)

controls == <<speed, rule, timer>>
runner == <<queue, stage, response>>
vars == <<controls, runner, server, shown, poll, chosen, used>>

Start == [revision |-> 0, speed |-> CHOOSE v \in Speeds : TRUE,
          rule |-> CHOOSE r \in Rules : TRUE, running |-> TRUE]
Settled == [pending |-> Nothing, syncing |-> Nothing]

Init ==
    /\ speed = Settled /\ rule = Settled /\ timer = FALSE
    /\ queue = << >> /\ stage = "ready" /\ response = Nothing
    /\ server = Start /\ shown = Start /\ poll = Nothing
    /\ chosen = [speed |-> Start.speed, rule |-> Start.rule]
    /\ used = [choices |-> 0, polls |-> 0, failures |-> 0, others |-> 0]

Spend(what, max) == used[what] < max /\ used' = [used EXCEPT ![what] = @ + 1]

---------------------------------------------------------------------------
(* The user. *)

\* scheduleSpeedSync: the newest choice waits, the debounce starts again
ChooseSpeed(v) ==
    /\ Spend("choices", MaxChoices)
    /\ speed' = [speed EXCEPT !.pending = v]
    /\ timer' = TRUE
    /\ chosen' = [chosen EXCEPT !.speed = v]
    /\ UNCHANGED <<rule, runner, server, shown, poll>>

\* A bug: tasks that have not started give way to the newest.
Enqueue_Coalesces(kind, value) ==
    queue' = Append(IF stage = "ready" THEN << >> ELSE <<Head(queue)>>,
                    [kind |-> kind, value |-> value, pause |-> shown.running])

Enqueue(kind, value) ==
    queue' = Append(queue, [kind |-> kind, value |-> value, pause |-> shown.running])

\* The debounce ends: beginSpeedSync and a task for the queue.
TimerFires ==
    /\ timer
    /\ timer' = FALSE
    /\ IF speed.pending = Nothing THEN UNCHANGED <<speed, queue>>
       ELSE /\ speed' = [pending |-> Nothing, syncing |-> speed.pending]
            /\ Enqueue("speed", speed.pending)
    /\ UNCHANGED <<rule, stage, response, server, shown, poll, chosen, used>>

\* requestRuleSync: no debounce, the task is queued at once
ChooseRule(r) ==
    /\ Spend("choices", MaxChoices)
    /\ rule' = [pending |-> Nothing, syncing |-> r]
    /\ Enqueue("rule", r)
    /\ chosen' = [chosen EXCEPT !.rule = r]
    /\ UNCHANGED <<speed, timer, stage, response, server, shown, poll>>

---------------------------------------------------------------------------
(* Applying a snapshot. *)

\* A bug: only the debounced choice is compared with the snapshot.
Reconciled_KeepsSyncing(control, value) ==
    [control EXCEPT !.pending = IF @ = value THEN Nothing ELSE @]

Reconciled(control, value) ==
    [pending |-> IF control.pending = value THEN Nothing ELSE control.pending,
     syncing |-> IF control.syncing = value THEN Nothing ELSE control.syncing]

Newer(snapshot) == IF snapshot.revision < shown.revision THEN shown ELSE snapshot

\* stateManager.reconcile, from SimulationReconciler.apply: a snapshot with the
\* debounced speed ends the debounce as well.
Apply(snapshot) ==
    /\ shown' = Newer(snapshot)
    /\ speed' = Reconciled(speed, Newer(snapshot).speed)
    /\ rule' = Reconciled(rule, Newer(snapshot).rule)
    /\ timer' = (timer /\ speed.pending # Newer(snapshot).speed)

---------------------------------------------------------------------------
(* The mutation queue: the next task starts when this one has ended. *)

Task == Head(queue)

Begin ==
    /\ queue # << >> /\ stage = "ready"
    /\ stage' = IF Task.kind = "rule" /\ Task.pause THEN "pause" ELSE "config"
    /\ UNCHANGED <<controls, queue, response, server, shown, poll, chosen, used>>

Changed(next) == IF next = server THEN server ELSE [next EXCEPT !.revision = @ + 1]

\* A running simulation is paused before its rule is changed ...
ServePause ==
    /\ stage = "pause"
    /\ server' = Changed([server EXCEPT !.running = FALSE])
    /\ stage' = "pausing"
    /\ UNCHANGED <<controls, queue, response, shown, poll, chosen, used>>

ReceivePaused ==
    /\ stage = "paused"
    /\ Apply(response)
    /\ response' = Nothing /\ stage' = "config"
    /\ UNCHANGED <<queue, server, poll, chosen, used>>

\* ... then the configuration is posted.
ServeConfig ==
    /\ stage = "config"
    /\ server' = Changed([server EXCEPT ![Task.kind] = Task.value])
    /\ stage' = "snapshot"
    /\ UNCHANGED <<controls, queue, response, shown, poll, chosen, used>>

\* The snapshot a request answers with is read under a second hold of the lock.
ServeSnapshot ==
    /\ stage \in {"pausing", "snapshot"}
    /\ response' = server
    /\ stage' = IF stage = "pausing" THEN "paused" ELSE "answered"
    /\ UNCHANGED <<controls, queue, server, shown, poll, chosen, used>>

Ended == stage' = "ready" /\ queue' = Tail(queue) /\ response' = Nothing

ReceiveConfig ==
    /\ stage \in {"answered", "refetched"}
    /\ Apply(response)
    /\ Ended
    /\ UNCHANGED <<server, poll, chosen, used>>

\* A request of the running task fails, before or after the server took it:
\* onFailure forgets every choice of its kind and the state is fetched.
FailTask ==
    /\ stage \in {"pause", "pausing", "paused", "config", "snapshot", "answered"}
    /\ Spend("failures", MaxFailures)
    /\ IF Task.kind = "speed" THEN speed' = Settled /\ timer' = FALSE /\ UNCHANGED rule
                              ELSE rule' = Settled /\ UNCHANGED <<speed, timer>>
    /\ response' = Nothing /\ stage' = "refetch"
    /\ UNCHANGED <<queue, server, shown, poll, chosen>>

Refetch ==
    /\ stage = "refetch"
    /\ response' = server /\ stage' = "refetched"
    /\ UNCHANGED <<controls, queue, server, shown, poll, chosen, used>>

\* refreshState reports its own failure and goes on.
FailRefetch ==
    /\ stage \in {"refetch", "refetched"}
    /\ Spend("failures", MaxFailures)
    /\ Ended
    /\ UNCHANGED <<controls, server, shown, poll, chosen>>

---------------------------------------------------------------------------
(* Polls, and other clients of the session. *)

PollSend ==
    /\ poll = Nothing /\ Spend("polls", MaxPolls)
    /\ poll' = Sent
    /\ UNCHANGED <<controls, runner, server, shown, chosen>>

PollServe ==
    /\ poll = Sent
    /\ poll' = server
    /\ UNCHANGED <<controls, runner, server, shown, chosen, used>>

PollReceive ==
    /\ poll \notin {Nothing, Sent}
    /\ Apply(poll)
    /\ poll' = Nothing
    /\ UNCHANGED <<runner, server, chosen, used>>

OtherClient(v) ==
    /\ Spend("others", MaxOthers)
    /\ server' = Changed([server EXCEPT !.speed = v])
    /\ UNCHANGED <<controls, runner, shown, poll, chosen>>

---------------------------------------------------------------------------
Proceed ==
    \/ Begin \/ ServePause \/ ReceivePaused \/ ServeConfig \/ ServeSnapshot
    \/ ReceiveConfig \/ Refetch

\* Nothing is left to happen.
Quiet ==
    /\ ~timer /\ queue = << >> /\ poll = Nothing
    /\ UNCHANGED vars

Next ==
    \/ \E v \in Speeds : ChooseSpeed(v) \/ OtherClient(v)
    \/ \E r \in Rules : ChooseRule(r)
    \/ TimerFires \/ Proceed \/ FailTask \/ FailRefetch
    \/ PollSend \/ PollServe \/ PollReceive
    \/ Quiet

Spec == Init /\ [][Next]_vars

\* Timers fire, the queue advances and responses arrive; choices, failures,
\* polls and other clients are under no obligation.
FairSpec ==
    /\ Spec
    /\ WF_vars(TimerFires) /\ WF_vars(Proceed) /\ WF_vars(PollServe \/ PollReceive)

---------------------------------------------------------------------------
(* Properties. *)

Controls(values) == [pending : values \cup {Nothing}, syncing : values \cup {Nothing}]
ServerStates == [revision : Nat, speed : Speeds, rule : Rules, running : BOOLEAN]
Tasks == [kind : {"speed"}, value : Speeds, pause : BOOLEAN]
         \cup [kind : {"rule"}, value : Rules, pause : BOOLEAN]

TypeOK ==
    /\ speed \in Controls(Speeds) /\ rule \in Controls(Rules) /\ timer \in BOOLEAN
    /\ queue \in Seq(Tasks)
    /\ stage # "ready" => queue # << >>
    /\ server \in ServerStates /\ shown \in ServerStates
    /\ IF stage \in {"paused", "answered", "refetched"} THEN response \in ServerStates
                                                      ELSE response = Nothing
    /\ poll \in ServerStates \cup {Nothing, Sent}
    /\ chosen \in [speed : Speeds, rule : Rules]

\* The tasks of a kind the queue has yet to apply to the server.
Unapplied(kind) ==
    {i \in DOMAIN queue : /\ queue[i].kind = kind
                          /\ i = 1 => stage \notin {"snapshot", "answered"}}

\* The server ends up with this value: the last task of its kind sets it.
Prevails(kind, value) ==
    IF Unapplied(kind) = {} THEN server[kind] = value
    ELSE \E last \in Unapplied(kind) :
            /\ queue[last].value = value
            /\ \A i \in Unapplied(kind) : i <= last

\* While no request fails, the user's last rule is the last rule task of the
\* queue, or what the server has: no snapshot, poll or speed change makes it
\* lose to an earlier choice.
LastRuleWins == used.failures = 0 => Prevails("rule", chosen.rule)

\* The same of the speed: debounced, queued, or on the server
\* (docs/ARCHITECTURE.md:261: the layer "keeps backend-backed config changes
\* serialized").
LastSpeedWins ==
    IF timer THEN speed.pending = chosen.speed ELSE Prevails("speed", chosen.speed)

\* A control that shows a change being synced has a task that will end it, unless
\* another client has changed what the task set before its answer was read.
NoOrphanIndicator ==
    \A sync \in {[kind |-> "speed", value |-> speed.syncing],
                 [kind |-> "rule", value |-> rule.syncing]} :
        used.others = 0 /\ sync.value # Nothing =>
            \E i \in DOMAIN queue : queue[i].kind = sync.kind /\ queue[i].value = sync.value

\* Both: the stages of the task fit its response, and no indicator is orphaned.
ControlsConsistent == TypeOK /\ NoOrphanIndicator

\* Once the user stops, both controls settle, failed requests included; the
\* rule settles whatever other clients do to the speed.
ControlsSettle == <>[](rule = Settled /\ (used.others = 0 => speed = Settled))
==========================================================================
