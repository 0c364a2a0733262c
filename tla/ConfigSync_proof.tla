--------------------------- MODULE ConfigSync_proof ---------------------------
(***************************************************************************)
(* Theorems about ConfigSync, for any sets of speeds and rules and any     *)
(* number of choices, polls, failures and other clients' changes.          *)
(***************************************************************************)
EXTENDS ConfigSync, TLAPS

(***************************************************************************)
(* Types.                                                                  *)
(***************************************************************************)

Stages == {"ready", "pause", "pausing", "paused", "config", "snapshot", "answered",
           "refetch", "refetched"}
Bounds == {"choices", "polls", "failures", "others"}

\* TypeOK with what it leaves open.
Typed == TypeOK /\ stage \in Stages /\ used \in [Bounds -> Nat]

LEMMA InitTyped == Init => Typed
<1> SUFFICES ASSUME Init PROVE Typed
  OBVIOUS
<1>1. Start \in ServerStates
  BY SyncAssumption DEF Start, ServerStates
<1>2. Settled \in Controls(Speeds) /\ Settled \in Controls(Rules)
  BY DEF Settled, Controls
<1>3. queue \in Seq(Tasks)
  BY DEF Init
<1>4. chosen \in [speed : Speeds, rule : Rules]
  BY <1>1 DEF Init, ServerStates
<1>5. used \in [Bounds -> Nat]
  BY DEF Init, Bounds
<1>6. QED
  BY <1>1, <1>2, <1>3, <1>4, <1>5 DEF Init, Typed, TypeOK, Stages

\* The task that runs is the first of the queue.
LEMMA TaskFacts ==
  ASSUME Typed, queue # << >>
  PROVE  /\ Task \in Tasks /\ Task = queue[1] /\ 1 \in DOMAIN queue
         /\ Tail(queue) \in Seq(Tasks)
BY DEF Typed, TypeOK, Task

LEMMA TaskTypes ==
  ASSUME NEW t \in Tasks
  PROVE  /\ t.kind \in {"speed", "rule"} /\ t.pause \in BOOLEAN
         /\ t.kind = "speed" => t.value \in Speeds
         /\ t.kind = "rule" => t.value \in Rules
BY DEF Tasks

LEMMA SpendType ==
  ASSUME Typed, NEW what \in Bounds, NEW max, Spend(what, max)
  PROVE  /\ used' \in [Bounds -> Nat] /\ used'[what] = used[what] + 1
         /\ \A other \in Bounds \ {what} : used'[other] = used[other]
BY DEF Typed, Spend

LEMMA ChangedType ==
  ASSUME NEW s \in ServerStates, NEW t \in ServerStates, server = s
  PROVE  Changed(t) \in ServerStates
BY DEF Changed, ServerStates

LEMMA ReconciledType ==
  ASSUME NEW values, NEW control \in Controls(values), NEW value
  PROVE  Reconciled(control, value) \in Controls(values)
BY DEF Reconciled, Controls

LEMMA ApplyType ==
  ASSUME Typed, NEW snapshot \in ServerStates, Apply(snapshot)
  PROVE  /\ shown' \in ServerStates /\ timer' \in BOOLEAN
         /\ speed' \in Controls(Speeds) /\ rule' \in Controls(Rules)
<1>1. Newer(snapshot) \in ServerStates
  BY DEF Newer, Typed, TypeOK
<1>2. QED
  BY <1>1, ReconciledType DEF Apply, Typed, TypeOK

LEMMA EnqueueAppends ==
  ASSUME Typed, NEW kind, NEW value,
         \/ kind = "speed" /\ value \in Speeds
         \/ kind = "rule" /\ value \in Rules,
         Enqueue(kind, value)
  PROVE  \E task \in Tasks : queue' = Append(queue, task)
BY DEF Enqueue, Tasks, Typed, TypeOK, ServerStates

LEMMA EnqueueType ==
  ASSUME Typed, NEW kind, NEW value,
         \/ kind = "speed" /\ value \in Speeds
         \/ kind = "rule" /\ value \in Rules,
         Enqueue(kind, value)
  PROVE  queue' \in Seq(Tasks) /\ queue' # << >>
<1>1. [kind |-> kind, value |-> value, pause |-> shown.running] \in Tasks
  BY DEF Tasks, Typed, TypeOK, ServerStates
<1>2. QED
  BY <1>1 DEF Enqueue, Typed, TypeOK

LEMMA TypedStep == Typed /\ [Next]_vars => Typed'
<1> SUFFICES ASSUME Typed, [Next]_vars PROVE Typed'
  OBVIOUS
<1>0. {"choices", "polls", "failures", "others"} \subseteq Bounds
  BY DEF Bounds
<1> USE DEF Stages
<1>1. ASSUME NEW v \in Speeds, ChooseSpeed(v) PROVE Typed'
  BY <1>0, <1>1, SpendType DEF ChooseSpeed, Typed, TypeOK, Controls, runner
<1>2. ASSUME NEW v \in Speeds, OtherClient(v) PROVE Typed'
  <2>1. [server EXCEPT !.speed = v] \in ServerStates
    BY DEF Typed, TypeOK, ServerStates
  <2>2. server' \in ServerStates
    BY <1>2, <2>1, ChangedType DEF OtherClient, Typed, TypeOK
  <2>3. QED
    BY <1>0, <1>2, <2>2, SpendType DEF OtherClient, Typed, TypeOK, controls, runner
<1>3. ASSUME NEW r \in Rules, ChooseRule(r) PROVE Typed'
  <2>1. queue' \in Seq(Tasks) /\ queue' # << >>
    BY <1>3, EnqueueType DEF ChooseRule
  <2>2. rule' \in Controls(Rules) /\ chosen' \in [speed : Speeds, rule : Rules]
    BY <1>3 DEF ChooseRule, Typed, TypeOK, Controls
  <2>3. QED
    BY <1>0, <1>3, <2>1, <2>2, SpendType DEF ChooseRule, Typed, TypeOK
<1>4. CASE TimerFires
  <2>1. CASE speed.pending = Nothing
    BY <1>4, <2>1 DEF TimerFires, Typed, TypeOK
  <2>2. CASE speed.pending # Nothing
    <3>1. speed.pending \in Speeds
      BY <2>2 DEF Typed, TypeOK, Controls
    <3>2. queue' \in Seq(Tasks) /\ queue' # << >>
      BY <1>4, <2>2, <3>1, EnqueueType DEF TimerFires
    <3>3. speed' \in Controls(Speeds)
      BY <1>4, <2>2, <3>1 DEF TimerFires, Controls
    <3>4. QED
      BY <1>4, <3>2, <3>3 DEF TimerFires, Typed, TypeOK
  <2>3. QED
    BY <2>1, <2>2
<1>5. CASE Begin
  BY <1>5 DEF Begin, Typed, TypeOK, controls
<1>6. CASE ServePause
  <2>1. [server EXCEPT !.running = FALSE] \in ServerStates
    BY DEF Typed, TypeOK, ServerStates
  <2>2. server' \in ServerStates
    BY <1>6, <2>1, ChangedType DEF ServePause, Typed, TypeOK
  <2>3. QED
    BY <1>6, <2>2 DEF ServePause, Typed, TypeOK, controls
<1>7. CASE ReceivePaused
  <2>1. response \in ServerStates
    BY <1>7 DEF ReceivePaused, Typed, TypeOK
  <2>2. QED
    BY <1>7, <2>1, ApplyType DEF ReceivePaused, Typed, TypeOK
<1>8. CASE ServeConfig
  <2>1. queue # << >>
    BY <1>8 DEF ServeConfig, Typed, TypeOK
  <2>2. [server EXCEPT ![Task.kind] = Task.value] \in ServerStates
    BY <2>1, TaskFacts, TaskTypes DEF Typed, TypeOK, ServerStates
  <2>3. server' \in ServerStates
    BY <1>8, <2>2, ChangedType DEF ServeConfig, Typed, TypeOK
  <2>4. QED
    BY <1>8, <2>3 DEF ServeConfig, Typed, TypeOK, controls
<1>9. CASE ServeSnapshot
  BY <1>9 DEF ServeSnapshot, Typed, TypeOK, controls
<1>10. CASE ReceiveConfig
  <2>1. response \in ServerStates /\ queue # << >>
    BY <1>10 DEF ReceiveConfig, Typed, TypeOK
  <2>2. QED
    BY <1>10, <2>1, ApplyType, TaskFacts DEF ReceiveConfig, Ended, Typed, TypeOK
<1>11. CASE FailTask
  <2>1. \/ speed' = Settled /\ timer' = FALSE /\ rule' = rule
        \/ rule' = Settled /\ speed' = speed /\ timer' = timer
    BY <1>11, Zenon DEF FailTask
  <2>2. speed' \in Controls(Speeds) /\ rule' \in Controls(Rules)
    BY <2>1 DEF Settled, Controls, Typed, TypeOK
  <2>3. timer' \in BOOLEAN
    BY <2>1 DEF Typed, TypeOK
  <2>4. used' \in [Bounds -> Nat]
    BY <1>0, <1>11, SpendType DEF FailTask
  <2>5. /\ response' = Nothing /\ stage' = "refetch" /\ queue # << >>
        /\ queue' = queue /\ server' = server /\ shown' = shown /\ poll' = poll
        /\ chosen' = chosen
    BY <1>11 DEF FailTask, Typed, TypeOK
  <2>6. QED
    BY <2>2, <2>3, <2>4, <2>5 DEF Typed, TypeOK
<1>12. CASE Refetch
  BY <1>12 DEF Refetch, Typed, TypeOK, controls
<1>13. CASE FailRefetch
  <2>1. queue # << >>
    BY <1>13 DEF FailRefetch, Typed, TypeOK
  <2>2. QED
    BY <1>0, <1>13, <2>1, TaskFacts, SpendType DEF FailRefetch, Ended, Typed, TypeOK, controls
<1>14. CASE PollSend
  BY <1>0, <1>14, SpendType DEF PollSend, Typed, TypeOK, controls, runner
<1>15. CASE PollServe
  BY <1>15 DEF PollServe, Typed, TypeOK, controls, runner
<1>16. CASE PollReceive
  <2>1. poll \in ServerStates
    BY <1>16 DEF PollReceive, Typed, TypeOK
  <2>2. QED
    BY <1>16, <2>1, ApplyType DEF PollReceive, Typed, TypeOK, runner
<1>17. CASE Quiet \/ UNCHANGED vars
  BY <1>17 DEF Quiet, vars, controls, runner, Typed, TypeOK
<1>18. QED
  BY <1>1, <1>2, <1>3, <1>4, <1>5, <1>6, <1>7, <1>8, <1>9, <1>10, <1>11, <1>12, <1>13,
     <1>14, <1>15, <1>16, <1>17 DEF Next, Proceed

\* Every variable keeps its type.
THEOREM TypeCorrect == Spec => []TypeOK
<1>1. Typed => TypeOK
  BY DEF Typed
<1>2. QED
  BY <1>1, InitTyped, TypedStep, PTL DEF Spec

(***************************************************************************)
(* The last rule wins.  A failing task leaves the queue without having     *)
(* been applied, so that the invariant needs that a refresh under way was  *)
(* preceded by a failure.                                                  *)
(***************************************************************************)

FailureSeen == stage \in {"refetch", "refetched"} => used["failures"] > 0

RuleInv == Typed /\ FailureSeen /\ LastRuleWins

\* A rule task at the end of the queue prevails.
LEMMA EnqueuedPrevails ==
  ASSUME Typed, NEW r \in Rules, Enqueue("rule", r), stage' = stage
  PROVE  Prevails("rule", r)'
<1> DEFINE task == [kind |-> "rule", value |-> r, pause |-> shown.running]
           last == Len(queue) + 1
<1>1. queue' = Append(queue, task) /\ queue \in Seq(Tasks) /\ task \in Tasks
  BY DEF Enqueue, Typed, TypeOK, Tasks, ServerStates
<1>2. DOMAIN queue' = 1 .. last /\ queue'[last] = task
  BY <1>1
<1>3. last = 1 => stage = "ready"
  BY <1>1 DEF Typed, TypeOK
<1>4. last \in Unapplied("rule")'
  BY <1>1, <1>2, <1>3 DEF Unapplied
<1>5. \A i \in Unapplied("rule")' : i <= last
  BY <1>2 DEF Unapplied
<1>6. QED
  BY <1>2, <1>4, <1>5 DEF Prevails

\* Tasks of the other kind do not matter.
LEMMA OtherEnqueued ==
  ASSUME Typed, NEW v \in Speeds, Enqueue("speed", v), stage' = stage, server' = server,
         NEW r, Prevails("rule", r)
  PROVE  Prevails("rule", r)'
<1> DEFINE task == [kind |-> "speed", value |-> v, pause |-> shown.running]
<1>1. queue' = Append(queue, task) /\ queue \in Seq(Tasks) /\ task \in Tasks
  BY DEF Enqueue, Typed, TypeOK, Tasks, ServerStates
<1>2. /\ DOMAIN queue' = DOMAIN queue \cup {Len(queue) + 1}
      /\ \A i \in DOMAIN queue : queue'[i] = queue[i]
      /\ queue'[Len(queue) + 1].kind # "rule"
  BY <1>1
<1>3. Unapplied("rule")' = Unapplied("rule")
  BY <1>2 DEF Unapplied
<1>4. \A i \in Unapplied("rule") : queue'[i] = queue[i]
  BY <1>2 DEF Unapplied
<1>5. QED
  BY <1>3, <1>4 DEF Prevails

\* The first task of the queue has been applied and leaves it.
LEMMA TailPrevails ==
  ASSUME Typed, stage = "answered", queue' = Tail(queue), stage' = "ready", server' = server,
         NEW r, Prevails("rule", r)
  PROVE  Prevails("rule", r)'
<1>1. queue \in Seq(Tasks) /\ queue # << >>
  BY DEF Typed, TypeOK
<1>2. /\ DOMAIN queue' = 1 .. Len(queue) - 1 /\ DOMAIN queue = 1 .. Len(queue)
      /\ \A i \in DOMAIN queue' : queue'[i] = queue[i + 1]
  BY <1>1
<1>3. \A i \in Unapplied("rule") : i > 1 /\ i - 1 \in Unapplied("rule")'
  BY <1>2 DEF Unapplied
<1>4. \A i \in Unapplied("rule")' : i + 1 \in Unapplied("rule")
  BY <1>2 DEF Unapplied
<1>5. CASE Unapplied("rule") = {}
  BY <1>4, <1>5 DEF Prevails
<1>6. CASE Unapplied("rule") # {}
  <2>1. PICK last \in Unapplied("rule") :
          queue[last].value = r /\ \A i \in Unapplied("rule") : i <= last
    BY <1>6 DEF Prevails
  <2>2. last \in DOMAIN queue /\ last \in Int
    BY <1>2 DEF Unapplied
  <2>3. last - 1 \in Unapplied("rule")' /\ queue'[last - 1].value = r
    BY <1>2, <1>3, <2>1, <2>2
  <2>4. \A i \in Unapplied("rule")' : i \in Int /\ i <= last - 1
    BY <1>2, <1>4, <2>1, <2>2 DEF Unapplied
  <2>5. QED
    BY <2>3, <2>4 DEF Prevails
<1>7. QED
  BY <1>5, <1>6

\* The running task is applied to the server.
LEMMA ServedPrevails ==
  ASSUME Typed, ServeConfig, NEW r, Prevails("rule", r)
  PROVE  Prevails("rule", r)'
<1>1. /\ stage = "config" /\ stage' = "snapshot" /\ queue' = queue /\ queue # << >>
      /\ queue \in Seq(Tasks) /\ server \in ServerStates
  BY DEF ServeConfig, Typed, TypeOK
<1>2. Task \in Tasks /\ Task = queue[1] /\ 1 \in DOMAIN queue
  BY <1>1, TaskFacts
<1>3. server'.rule = IF Task.kind = "rule" THEN Task.value ELSE server.rule
  BY <1>1, <1>2, TaskTypes DEF ServeConfig, Changed, ServerStates
<1>4. Unapplied("rule")' = Unapplied("rule") \ {1}
  BY <1>1 DEF Unapplied
<1>5. \A i \in Unapplied("rule") : i \in Nat /\ i >= 1
  BY <1>1 DEF Unapplied
<1>6. CASE Task.kind = "speed"
  <2>1. 1 \notin Unapplied("rule")
    BY <1>2, <1>6 DEF Unapplied
  <2>2. QED
    BY <1>1, <1>3, <1>4, <1>6, <2>1 DEF Prevails
<1>7. CASE Task.kind = "rule"
  <2>1. 1 \in Unapplied("rule")
    BY <1>1, <1>2, <1>7 DEF Unapplied
  <2>2. PICK last \in Unapplied("rule") :
          queue[last].value = r /\ \A i \in Unapplied("rule") : i <= last
    BY <2>1 DEF Prevails
  <2>3. CASE last = 1
    <3>1. \A i \in Unapplied("rule") : i = 1
      BY <1>5, <2>2, <2>3
    <3>2. Unapplied("rule")' = {}
      BY <1>4, <3>1
    <3>3. QED
      BY <1>2, <1>3, <1>7, <2>2, <2>3, <3>2 DEF Prevails
  <2>4. CASE last # 1
    BY <1>1, <1>4, <2>2, <2>4 DEF Prevails
  <2>5. QED
    BY <2>3, <2>4
<1>8. QED
  BY <1>2, <1>6, <1>7, TaskTypes

\* A step that leaves the queue, what is applied of it and the rule alone.
LEMMA SamePrevails ==
  ASSUME queue' = queue, server'.rule = server.rule, NEW r, Prevails("rule", r),
         stage' \in {"snapshot", "answered"} <=> stage \in {"snapshot", "answered"}
  PROVE  Prevails("rule", r)'
<1>1. Unapplied("rule")' = Unapplied("rule")
  BY DEF Unapplied
<1>2. QED
  BY <1>1 DEF Prevails

LEMMA RuleInvStep == RuleInv /\ [Next]_vars => RuleInv'
<1> SUFFICES ASSUME RuleInv, [Next]_vars PROVE RuleInv'
  OBVIOUS
<1>1. Typed /\ Typed'
  BY TypedStep DEF RuleInv
<1>2. used'["failures"] >= used["failures"]
  <2>1. \A what \in Bounds : \A max : Spend(what, max) => used'["failures"] >= used["failures"]
    BY <1>1, SpendType DEF Bounds, Typed
  <2>2. used' = used \/ \E what \in Bounds : \E max : Spend(what, max)
    BY DEF Next, Proceed, ChooseSpeed, ChooseRule, OtherClient, TimerFires, FailTask,
           FailRefetch, PollSend, PollServe, PollReceive, Quiet, Begin, ServePause,
           ReceivePaused, ServeConfig, ServeSnapshot, ReceiveConfig, Refetch, Bounds, vars
  <2>3. QED
    BY <1>1, <2>1, <2>2 DEF Typed, Bounds
<1>3. FailureSeen'
  <2>1. CASE FailTask
    BY <1>1, <2>1, SpendType DEF FailTask, FailureSeen, Typed, Bounds
  <2>2. CASE ~FailTask
    <3>1. stage' \in {"refetch", "refetched"} => stage \in {"refetch", "refetched"}
      BY <2>2 DEF Next, Proceed, ChooseSpeed, ChooseRule, OtherClient, TimerFires,
           FailRefetch, PollSend, PollServe, PollReceive, Quiet, Begin, ServePause,
           ReceivePaused, ServeConfig, ServeSnapshot, ReceiveConfig, Refetch, Ended,
           vars, runner
    <3>2. QED
      BY <1>1, <1>2, <3>1 DEF RuleInv, FailureSeen, Typed, Bounds
  <2>3. QED
    BY <2>1, <2>2
<1>4. ASSUME used'["failures"] = 0 PROVE Prevails("rule", chosen.rule)'
  <2>1. used["failures"] = 0 /\ Prevails("rule", chosen.rule)
    BY <1>1, <1>2, <1>4 DEF RuleInv, LastRuleWins, Typed, Bounds
  <2>2. PICK r : r = chosen'.rule
    OBVIOUS
  <2>3. SUFFICES Prevails("rule", r)'
    BY <2>2 DEF Prevails
  <2>4. ASSUME NEW v \in Rules, ChooseRule(v) PROVE Prevails("rule", r)'
    <3>1. r = v
      BY <1>1, <2>2, <2>4 DEF ChooseRule, Typed, TypeOK
    <3>2. QED
      BY <1>1, <2>4, <3>1, EnqueuedPrevails DEF ChooseRule
  <2>5. ASSUME chosen'.rule = chosen.rule PROVE Prevails("rule", r)
    BY <2>1, <2>2, <2>5
  <2>6. CASE TimerFires
    <3>1. Prevails("rule", r)
      BY <2>5, <2>6 DEF TimerFires
    <3>2. CASE speed.pending = Nothing
      BY <2>6, <3>1, <3>2, SamePrevails DEF TimerFires
    <3>3. CASE speed.pending # Nothing
      <4>1. speed.pending \in Speeds
        BY <1>1, <3>3 DEF Typed, TypeOK, Controls
      <4>2. Enqueue("speed", speed.pending) /\ stage' = stage /\ server' = server
        BY <2>6, <3>3 DEF TimerFires
      <4>3. QED
        BY <1>1, <3>1, <4>1, <4>2, OtherEnqueued
    <3>4. QED
      BY <3>2, <3>3
  <2>7. CASE ServeConfig
    BY <1>1, <2>5, <2>7, ServedPrevails DEF ServeConfig
  <2>8. CASE ReceiveConfig
    <3>1. stage = "answered" /\ Prevails("rule", r)
      BY <1>1, <2>1, <2>5, <2>8 DEF ReceiveConfig, RuleInv, FailureSeen, Typed, Bounds
    <3>2. QED
      BY <1>1, <2>8, <3>1, TailPrevails DEF ReceiveConfig, Ended
  <2>9. CASE FailTask \/ FailRefetch
    BY <1>1, <1>4, <2>9, SpendType DEF FailTask, FailRefetch, Typed, Bounds
  <2>10. ASSUME NEW v \in Speeds, ChooseSpeed(v) \/ OtherClient(v)
         PROVE  Prevails("rule", r)'
    <3>1. chosen'.rule = chosen.rule /\ queue' = queue /\ stage' = stage
      BY <1>1, <2>10 DEF ChooseSpeed, OtherClient, runner, Typed, TypeOK
    <3>2. server'.rule = server.rule
      BY <1>1, <2>10 DEF ChooseSpeed, OtherClient, Changed, Typed, TypeOK, ServerStates
    <3>3. QED
      BY <2>5, <3>1, <3>2, SamePrevails
  <2>11. CASE \/ Begin \/ ServePause \/ ReceivePaused \/ ServeSnapshot \/ Refetch
              \/ PollSend \/ PollServe \/ PollReceive \/ Quiet \/ UNCHANGED vars
    <3>1. chosen' = chosen /\ queue' = queue
      BY <2>11 DEF Begin, ServePause, ReceivePaused, ServeSnapshot, Refetch, PollSend,
           PollServe, PollReceive, Quiet, vars, runner
    <3>2. server'.rule = server.rule
      <4>1. server' = server \/ ServePause
        BY <2>11 DEF Begin, ReceivePaused, ServeSnapshot, Refetch, PollSend,
             PollServe, PollReceive, Quiet, vars
      <4>2. QED
        BY <1>1, <4>1 DEF ServePause, Changed, Typed, TypeOK, ServerStates
    <3>3. stage' \in {"snapshot", "answered"} <=> stage \in {"snapshot", "answered"}
      BY <2>11 DEF Begin, ServePause, ReceivePaused, ServeSnapshot, Refetch, PollSend,
           PollServe, PollReceive, Quiet, vars, runner
    <3>4. QED
      BY <2>5, <3>1, <3>2, <3>3, SamePrevails
  <2>12. QED
    BY <2>4, <2>6, <2>7, <2>8, <2>9, <2>10, <2>11 DEF Next, Proceed
<1>5. QED
  BY <1>1, <1>3, <1>4 DEF RuleInv, LastRuleWins

\* Whatever the choices, polls, speed changes and other clients: while no
\* request fails, the user's last rule is queued last or on the server.
THEOREM LastRulePrevails == Spec => []LastRuleWins
<1>1. Init => RuleInv
  BY InitTyped DEF Init, RuleInv, FailureSeen, LastRuleWins, Prevails, Unapplied
<1>2. RuleInv => LastRuleWins
  BY DEF RuleInv
<1>3. QED
  BY <1>1, <1>2, RuleInvStep, PTL DEF Spec

(***************************************************************************)
(* A control that shows a change being synced has a task that will end it. *)
(***************************************************************************)

\* Nothing the client holds is newer than the server.
Behind ==
  /\ shown.revision <= server.revision
  /\ stage \in {"paused", "answered", "refetched"} => response.revision <= server.revision
  /\ poll \notin {Nothing, Sent} => poll.revision <= server.revision

\* Without other clients, what a task has set is there until its answer is
\* received, and the answer is the server's state.
AppliedStays ==
  used["others"] = 0 =>
    /\ stage \in {"snapshot", "answered"} => server[Task.kind] = Task.value
    /\ stage = "answered" => response = server

Shows(kind) == IF kind = "speed" THEN speed.syncing ELSE rule.syncing

\* A failed task has cleared its control, so what is synced since has a task of
\* its own.
First(kind) == IF stage \in {"refetch", "refetched"} /\ Task.kind = kind THEN 2 ELSE 1

Awaits(kind) ==
  {i \in DOMAIN queue : i >= First(kind) /\ queue[i].kind = kind /\ queue[i].value = Shows(kind)}

BothAwaited ==
  used["others"] = 0 =>
    \A kind \in {"speed", "rule"} : Shows(kind) # Nothing => Awaits(kind) # {}

IndicatorInv == Typed /\ Behind /\ AppliedStays /\ BothAwaited

LEMMA ChangedFacts ==
  ASSUME NEW t \in ServerStates, server \in ServerStates, t.revision = server.revision
  PROVE  /\ Changed(t).revision >= server.revision
         /\ Changed(t).speed = t.speed /\ Changed(t).rule = t.rule
BY DEF Changed, ServerStates

\* No state goes back, and other clients are counted.
LEMMA ServerForward ==
  ASSUME Typed, [Next]_vars
  PROVE  /\ server'.revision >= server.revision
         /\ used'["others"] >= used["others"]
         /\ used'["others"] = 0 => server' = server \/ ServePause \/ ServeConfig
<1>1. CASE server' = server /\ used' = used
  BY <1>1 DEF Typed, TypeOK, ServerStates, Bounds
<1>2. ASSUME NEW what \in Bounds, NEW max, Spend(what, max)
      PROVE  used'["others"] >= used["others"]
  BY <1>2, SpendType DEF Bounds, Typed
<1>3. ASSUME NEW v \in Speeds, OtherClient(v)
      PROVE  /\ server'.revision >= server.revision
             /\ used'["others"] >= used["others"] /\ used'["others"] # 0
  <2>1. [server EXCEPT !.speed = v] \in ServerStates
    BY DEF Typed, TypeOK, ServerStates
  <2>2. server'.revision >= server.revision
    BY <1>3, <2>1, ChangedFacts DEF OtherClient, Typed, TypeOK, ServerStates
  <2>3. used'["others"] = used["others"] + 1
    BY <1>3, SpendType DEF OtherClient, Bounds
  <2>4. QED
    BY <2>2, <2>3 DEF Typed, Bounds
<1>4. CASE ServePause
  <2>1. [server EXCEPT !.running = FALSE] \in ServerStates
    BY DEF Typed, TypeOK, ServerStates
  <2>2. server'.revision >= server.revision
    BY <1>4, <2>1, ChangedFacts DEF ServePause, Typed, TypeOK, ServerStates
  <2>3. used' = used
    BY <1>4 DEF ServePause
  <2>4. QED
    BY <1>4, <2>2, <2>3 DEF Typed, Bounds
<1>5. CASE ServeConfig
  <2>1. queue # << >>
    BY <1>5 DEF ServeConfig, Typed, TypeOK
  <2>2. /\ [server EXCEPT ![Task.kind] = Task.value] \in ServerStates
        /\ [server EXCEPT ![Task.kind] = Task.value].revision = server.revision
    BY <2>1, TaskFacts, TaskTypes DEF Typed, TypeOK, ServerStates
  <2>3. server'.revision >= server.revision
    BY <1>5, <2>2, ChangedFacts DEF ServeConfig, Typed, TypeOK, ServerStates
  <2>4. used' = used
    BY <1>5 DEF ServeConfig
  <2>5. QED
    BY <1>5, <2>3, <2>4 DEF Typed, Bounds
<1>6. \/ server' = server /\ used' = used
      \/ server' = server /\ \E what \in Bounds : \E max : Spend(what, max)
      \/ \E v \in Speeds : OtherClient(v)
      \/ ServePause \/ ServeConfig
  BY DEF Next, Proceed, ChooseSpeed, ChooseRule, TimerFires, FailTask,
         FailRefetch, PollSend, PollServe, PollReceive, Quiet, Begin,
         ReceivePaused, ServeSnapshot, ReceiveConfig, Refetch, Bounds, vars
<1>7. QED
  BY <1>1, <1>2, <1>3, <1>4, <1>5, <1>6 DEF Typed, TypeOK, ServerStates

\* What a step does to the queue.
LEMMA QueueStep ==
  ASSUME Typed, [Next]_vars
  PROVE  \/ queue' = queue
         \/ queue' = Tail(queue) /\ Ended /\ queue # << >>
         \/ \E task \in Tasks : queue' = Append(queue, task) /\ stage' = stage
<1>1. ASSUME NEW r \in Rules, ChooseRule(r) PROVE stage' = stage /\ Enqueue("rule", r)
  BY <1>1 DEF ChooseRule
<1>2. CASE TimerFires
  <2>1. stage' = stage
    BY <1>2 DEF TimerFires
  <2>2. queue' = queue \/ (speed.pending \in Speeds /\ Enqueue("speed", speed.pending))
    BY <1>2 DEF TimerFires, Typed, TypeOK, Controls
  <2>3. QED
    BY EnqueueAppends, <2>1, <2>2
<1>3. CASE ReceiveConfig \/ FailRefetch
  BY <1>3 DEF ReceiveConfig, FailRefetch, Ended, Typed, TypeOK
<1>4. \/ queue' = queue \/ TimerFires \/ ReceiveConfig \/ FailRefetch
      \/ \E r \in Rules : ChooseRule(r)
  BY DEF Next, Proceed, ChooseSpeed, OtherClient, FailTask,
         PollSend, PollServe, PollReceive, Quiet, Begin, ServePause, ServeConfig,
         ReceivePaused, ServeSnapshot, Refetch, vars, runner
<1>5. QED
  BY EnqueueAppends, <1>1, <1>2, <1>3, <1>4

LEMMA BehindStep ==
  ASSUME Typed, Behind, [Next]_vars
  PROVE  Behind'
<1>1. server'.revision >= server.revision
  BY ServerForward
<1>2. Typed /\ Typed'
  BY TypedStep
<1>3. /\ stage' \in {"paused", "answered", "refetched"} =>
            \/ response' = server /\ server' = server
            \/ response' = response /\ stage \in {"paused", "answered", "refetched"}
      /\ poll' \in {poll, Nothing, Sent} \/ (poll' = server /\ server' = server)
  BY DEF Next, Proceed, ChooseSpeed, ChooseRule, OtherClient, TimerFires, FailTask,
         FailRefetch, PollSend, PollServe, PollReceive, Quiet, Begin, ServePause,
         ReceivePaused, ServeConfig, ServeSnapshot, ReceiveConfig, Refetch, Ended, vars, runner
<1>4. \/ shown' = shown
      \/ \E s \in {response, poll} : s \in ServerStates /\ shown' = Newer(s)
                                     /\ s.revision <= server.revision
  <2>1. CASE ReceivePaused \/ ReceiveConfig
    <3>1. response \in ServerStates /\ stage \in {"paused", "answered", "refetched"}
      BY <1>2, <2>1 DEF ReceivePaused, ReceiveConfig, Typed, TypeOK
    <3>2. QED
      BY <2>1, <3>1 DEF ReceivePaused, ReceiveConfig, Apply, Behind
  <2>2. CASE PollReceive
    BY <1>2, <2>2 DEF PollReceive, Apply, Behind, Typed, TypeOK
  <2>3. CASE ~ReceivePaused /\ ~ReceiveConfig /\ ~PollReceive
    BY <2>3 DEF Next, Proceed, ChooseSpeed, ChooseRule, OtherClient, TimerFires, FailTask,
         FailRefetch, PollSend, PollServe, Quiet, Begin, ServePause,
         ServeConfig, ServeSnapshot, Refetch, vars
  <2>4. QED
    BY <2>1, <2>2, <2>3
<1>5. shown'.revision <= server'.revision
  BY <1>1, <1>2, <1>4 DEF Newer, Behind, Typed, TypeOK, ServerStates
<1>6. stage' \in {"paused", "answered", "refetched"} => response'.revision <= server'.revision
  BY <1>1, <1>2, <1>3 DEF Behind, Typed, TypeOK, ServerStates
<1>7. poll' \notin {Nothing, Sent} => poll'.revision <= server'.revision
  BY <1>1, <1>2, <1>3 DEF Behind, Typed, TypeOK, ServerStates
<1>8. QED
  BY <1>5, <1>6, <1>7 DEF Behind

LEMMA AppliedStep ==
  ASSUME Typed, AppliedStays, [Next]_vars
  PROVE  AppliedStays'
<1> SUFFICES ASSUME used'["others"] = 0
             PROVE  /\ stage' \in {"snapshot", "answered"} => server'[Task'.kind] = Task'.value
                    /\ stage' = "answered" => response' = server'
  BY DEF AppliedStays
<1>1. used["others"] = 0 /\ (server' = server \/ ServePause \/ ServeConfig)
  BY ServerForward DEF Typed, Bounds
<1>2. CASE ServeConfig
  <2>1. queue # << >> /\ queue' = queue /\ stage' = "snapshot"
    BY <1>2 DEF ServeConfig, Typed, TypeOK
  <2>2. Task \in Tasks /\ Task' = Task
    BY <2>1, TaskFacts DEF Task
  <2>3. server'[Task.kind] = Task.value
    BY <1>2, <2>2, TaskTypes DEF ServeConfig, Changed, Typed, TypeOK, ServerStates
  <2>4. QED
    BY <2>1, <2>2, <2>3
<1>3. CASE ServePause
  BY <1>3 DEF ServePause
<1>4. CASE server' = server
  <2>1. stage' \in {"snapshot", "answered"} =>
          ServeConfig \/ (stage \in {"snapshot", "answered"} /\ queue # << >>)
    BY DEF Next, Proceed, ChooseSpeed, ChooseRule, OtherClient, TimerFires, FailTask,
         FailRefetch, PollSend, PollServe, PollReceive, Quiet, Begin, ServePause,
         ReceivePaused, ServeSnapshot, ReceiveConfig, Refetch, Ended, vars, runner,
         Typed, TypeOK
  <2>2. stage' = "answered" =>
          ServeSnapshot \/ (stage = "answered" /\ response' = response)
    BY DEF Next, Proceed, ChooseSpeed, ChooseRule, OtherClient, TimerFires, FailTask,
         FailRefetch, PollSend, PollServe, PollReceive, Quiet, Begin, ServePause, ServeConfig,
         ReceivePaused, ReceiveConfig, Refetch, Ended, vars, runner
  <2>3. stage' = "answered" => response' = server'
    BY <1>1, <1>4, <2>2 DEF ServeSnapshot, AppliedStays
  <2>4. ASSUME stage' \in {"snapshot", "answered"}, ~ServeConfig PROVE Task' = Task
    <3>1. queue \in Seq(Tasks) /\ queue # << >>
      BY <2>1, <2>4 DEF Typed, TypeOK
    <3>2. queue' = queue \/ \E task \in Tasks : queue' = Append(queue, task)
      BY <2>4, QueueStep DEF Ended
    <3>3. QED
      BY <3>1, <3>2 DEF Task
  <2>5. QED
    BY <1>1, <1>2, <1>4, <2>1, <2>3, <2>4 DEF AppliedStays
<1>5. QED
  BY <1>1, <1>2, <1>3, <1>4

\* A task at the end of the queue is awaited by its control.
LEMMA EnqueuedAwaited ==
  ASSUME Typed, stage' = stage,
         NEW kind, NEW value, Enqueue(kind, value), Shows(kind)' = value,
         \/ kind = "speed" /\ value \in Speeds
         \/ kind = "rule" /\ value \in Rules
  PROVE  Awaits(kind)' # {}
<1> DEFINE task == [kind |-> kind, value |-> value, pause |-> shown.running]
           last == Len(queue) + 1
<1>1. task \in Tasks /\ queue \in Seq(Tasks) /\ queue' = Append(queue, task)
  BY DEF Enqueue, Tasks, Typed, TypeOK, ServerStates
<1>2. last \in DOMAIN queue' /\ queue'[last] = task /\ last \in Nat
  BY <1>1
<1>3. First(kind)' <= last
  <2>1. CASE stage = "ready"
    BY <1>1, <2>1 DEF First
  <2>2. CASE stage # "ready"
    <3>1. Len(queue) >= 1
      BY <1>1, <2>2 DEF Typed, TypeOK
    <3>2. QED
      BY <1>1, <3>1 DEF First
  <2>3. QED
    BY <2>1, <2>2
<1>4. last \in Awaits(kind)'
  BY <1>2, <1>3 DEF Awaits, First
<1>5. QED
  BY <1>4

\* A step that leaves a control, its tasks and the running task alone.
LEMMA StillAwaited ==
  ASSUME Typed, NEW kind \in {"speed", "rule"}, Shows(kind)' = Shows(kind),
         Awaits(kind) # {},
         stage' \in {"refetch", "refetched"} => stage \in {"refetch", "refetched"} \/ Task.kind # kind,
         queue' = queue \/ \E task \in Tasks : queue' = Append(queue, task)
  PROVE  Awaits(kind)' # {}
<1>1. PICK i \in DOMAIN queue :
        i >= First(kind) /\ queue[i].kind = kind /\ queue[i].value = Shows(kind)
  BY DEF Awaits
<1>2. queue \in Seq(Tasks)
  BY DEF Typed, TypeOK
<1>3. i \in DOMAIN queue' /\ queue'[i] = queue[i] /\ queue'[1] = queue[1] /\ i >= 1
  BY <1>1, <1>2
<1>4. First(kind)' <= First(kind) \/ First(kind)' = 1
  BY <1>3 DEF First, Task
<1>5. i >= First(kind)'
  BY <1>1, <1>3, <1>4 DEF First
<1>6. i \in Awaits(kind)'
  BY <1>1, <1>3, <1>5 DEF Awaits
<1>7. QED
  BY <1>6

\* The first task leaves the queue, and another one is awaited.
LEMMA TailAwaited ==
  ASSUME Typed, Ended, queue # << >>, NEW kind \in {"speed", "rule"},
         Shows(kind)' = Shows(kind), Awaits(kind) # {}, 1 \notin Awaits(kind)
  PROVE  Awaits(kind)' # {}
<1>1. PICK i \in DOMAIN queue :
        i >= First(kind) /\ queue[i].kind = kind /\ queue[i].value = Shows(kind)
  BY DEF Awaits
<1>2. queue \in Seq(Tasks) /\ queue' = Tail(queue) /\ stage' = "ready"
  BY DEF Typed, TypeOK, Ended
<1>3. i # 1 /\ First(kind)' = 1
  BY <1>1, <1>2 DEF Awaits, First
<1>4. i - 1 \in DOMAIN queue' /\ queue'[i - 1] = queue[i] /\ i - 1 >= 1
  BY <1>1, <1>2, <1>3
<1>5. i - 1 \in Awaits(kind)'
  BY <1>1, <1>3, <1>4 DEF Awaits
<1>6. QED
  BY <1>5

\* A snapshot may only end what a control shows.
LEMMA ApplyShows ==
  ASSUME Typed, NEW snapshot, Apply(snapshot), NEW kind \in {"speed", "rule"}
  PROVE  /\ Shows(kind)' \in {Shows(kind), Nothing}
         /\ Newer(snapshot)[kind] = Shows(kind) => Shows(kind)' = Nothing
<1>1. speed' = Reconciled(speed, Newer(snapshot).speed)
      /\ rule' = Reconciled(rule, Newer(snapshot).rule)
  BY DEF Apply
<1>2. /\ speed'.syncing = IF speed.syncing = Newer(snapshot).speed THEN Nothing ELSE speed.syncing
      /\ rule'.syncing = IF rule.syncing = Newer(snapshot).rule THEN Nothing ELSE rule.syncing
  BY <1>1 DEF Reconciled
<1>3. CASE kind = "speed"
  BY <1>2, <1>3 DEF Shows
<1>4. CASE kind = "rule"
  BY <1>2, <1>4 DEF Shows
<1>5. QED
  BY <1>3, <1>4

LEMMA AwaitedStep ==
  ASSUME IndicatorInv, [Next]_vars
  PROVE  BothAwaited'
<1> SUFFICES ASSUME used'["others"] = 0, NEW kind \in {"speed", "rule"}, Shows(kind)' # Nothing
             PROVE  Awaits(kind)' # {}
  BY DEF BothAwaited
<1>1. Typed /\ Behind /\ used["others"] = 0 /\ AppliedStays
  BY ServerForward DEF IndicatorInv, Typed, Bounds
<1>2. ASSUME Shows(kind)' = Shows(kind) PROVE Awaits(kind) # {}
  BY <1>1, <1>2 DEF IndicatorInv, BothAwaited
<1>3. ASSUME NEW r \in Rules, ChooseRule(r) PROVE Awaits(kind)' # {}
  <2>1. stage' = stage /\ Enqueue("rule", r) /\ rule'.syncing = r /\ speed' = speed
    BY <1>3 DEF ChooseRule
  <2>2. CASE kind = "rule"
    BY <1>1, <2>1, <2>2, EnqueuedAwaited DEF Shows
  <2>3. CASE kind = "speed"
    <3>1. \E task \in Tasks : queue' = Append(queue, task)
      BY <1>1, <2>1, EnqueueAppends
    <3>2. Shows(kind)' = Shows(kind)
      BY <2>1, <2>3 DEF Shows
    <3>3. QED
      BY <1>1, <1>2, <2>1, <3>1, <3>2, StillAwaited
  <2>4. QED
    BY <2>2, <2>3
<1>4. CASE TimerFires
  <2>1. stage' = stage /\ rule' = rule
    BY <1>4 DEF TimerFires
  <2>2. CASE kind = "speed" /\ speed.pending # Nothing
    <3>1. speed.pending \in Speeds
      BY <1>1, <2>2 DEF Typed, TypeOK, Controls
    <3>2. PICK v : v = speed.pending
      OBVIOUS
    <3>3. Enqueue("speed", v) /\ speed'.syncing = v
      BY <1>4, <2>2, <3>2 DEF TimerFires
    <3>4. QED
      BY <1>1, <2>1, <2>2, <3>1, <3>2, <3>3, EnqueuedAwaited DEF Shows
  <2>3. CASE kind = "rule" \/ speed.pending = Nothing
    <3>1. Shows(kind)' = Shows(kind)
      BY <1>4, <2>1, <2>3 DEF Shows, TimerFires
    <3>2. queue' = queue \/ (speed.pending \in Speeds /\ Enqueue("speed", speed.pending))
      BY <1>1, <1>4 DEF TimerFires, Typed, TypeOK, Controls
    <3>3. queue' = queue \/ \E task \in Tasks : queue' = Append(queue, task)
      BY <1>1, <3>2, EnqueueAppends
    <3>4. QED
      BY <1>1, <1>2, <2>1, <3>1, <3>3, StillAwaited
  <2>4. QED
    BY <2>2, <2>3
<1>5. CASE FailTask
  <2>1. queue' = queue /\ queue # << >>
    BY <1>1, <1>5 DEF FailTask, Typed, TypeOK
  <2>2. Task.kind \in {"speed", "rule"}
    BY <1>1, <2>1, TaskFacts, TaskTypes
  <2>3. Task.kind = kind => Shows(kind)' = Nothing
    BY <1>5, <2>2 DEF FailTask, Shows, Settled
  <2>4. Task.kind # kind => Shows(kind)' = Shows(kind)
    BY <1>5, <2>2 DEF FailTask, Shows, Settled
  <2>5. QED
    BY <1>1, <1>2, <2>1, <2>3, <2>4, StillAwaited
<1>6. CASE ReceiveConfig
  <2>1. Ended /\ queue # << >> /\ Apply(response) /\ response \in ServerStates
    BY <1>1, <1>6 DEF ReceiveConfig, Typed, TypeOK
  <2>2. Shows(kind)' = Shows(kind)
    BY <1>1, <2>1, ApplyShows
  <2>3. ASSUME 1 \in Awaits(kind) PROVE FALSE
    <3>1. Task.kind = kind /\ Task.value = Shows(kind) /\ stage = "answered"
      BY <1>1, <1>6, <2>1, <2>3, TaskFacts DEF Awaits, First, ReceiveConfig
    <3>2. response = server /\ server[kind] = Task.value
      BY <1>1, <3>1 DEF AppliedStays
    <3>3. Newer(response) = response
      BY <1>1, <2>1, <3>2 DEF Newer, Behind, Typed, TypeOK, ServerStates
    <3>4. QED
      BY <1>1, <2>1, <3>1, <3>2, <3>3, ApplyShows
  <2>4. QED
    BY <1>1, <1>2, <2>1, <2>2, <2>3, TailAwaited
<1>7. CASE FailRefetch
  <2>1. Ended /\ queue # << >> /\ Shows(kind)' = Shows(kind)
    BY <1>1, <1>7 DEF FailRefetch, Typed, TypeOK, Shows, controls
  <2>2. 1 \notin Awaits(kind)
    BY <1>1, <1>7, <2>1, TaskFacts DEF Awaits, First, FailRefetch
  <2>3. QED
    BY <1>1, <1>2, <2>1, <2>2, TailAwaited
<1>8. CASE ReceivePaused \/ PollReceive
  <2>1. Shows(kind)' = Shows(kind)
    BY <1>1, <1>8, ApplyShows DEF ReceivePaused, PollReceive
  <2>2. queue' = queue /\ (stage' = stage \/ stage' = "config")
    BY <1>8 DEF ReceivePaused, PollReceive, runner
  <2>3. QED
    BY <1>1, <1>2, <2>1, <2>2, StillAwaited
<1>9. ASSUME NEW v \in Speeds, ChooseSpeed(v) PROVE Awaits(kind)' # {}
  <2>1. Shows(kind)' = Shows(kind) /\ queue' = queue /\ stage' = stage
    BY <1>1, <1>9 DEF ChooseSpeed, Shows, runner, Typed, TypeOK, Controls
  <2>2. QED
    BY <1>1, <1>2, <2>1, StillAwaited
<1>10. CASE \/ Begin \/ ServePause \/ ServeConfig \/ ServeSnapshot \/ Refetch \/ PollSend
            \/ PollServe \/ Quiet \/ UNCHANGED vars \/ \E v \in Speeds : OtherClient(v)
  <2>1. Shows(kind)' = Shows(kind) /\ queue' = queue
    BY <1>10 DEF Begin, ServePause, ServeConfig, ServeSnapshot, Refetch, PollSend,
         PollServe, Quiet, OtherClient, vars, controls, runner, Shows
  <2>2. stage' \in {"refetch", "refetched"} => stage \in {"refetch", "refetched"}
    BY <1>10 DEF Begin, ServePause, ServeConfig, ServeSnapshot, Refetch, PollSend,
         PollServe, Quiet, OtherClient, vars, runner
  <2>3. QED
    BY <1>1, <1>2, <2>1, <2>2, StillAwaited
<1>11. QED
  BY <1>3, <1>4, <1>5, <1>6, <1>7, <1>8, <1>9, <1>10 DEF Next, Proceed

\* No control shows a change being synced that no task will end, through any
\* failures of requests and of their recoveries.
THEOREM IndicatorsEnd == Spec => []ControlsConsistent
<1>1. Init => IndicatorInv
  <2> SUFFICES ASSUME Init PROVE IndicatorInv
    OBVIOUS
  <2>1. Typed
    BY InitTyped
  <2>2. Behind
    BY <2>1 DEF Init, Behind, Typed, TypeOK, ServerStates
  <2>3. AppliedStays /\ BothAwaited
    BY DEF Init, AppliedStays, BothAwaited, Shows, Settled
  <2>4. QED
    BY <2>1, <2>2, <2>3 DEF IndicatorInv
<1>2. IndicatorInv /\ [Next]_vars => IndicatorInv'
  BY TypedStep, BehindStep, AppliedStep, AwaitedStep DEF IndicatorInv
<1>3. IndicatorInv => ControlsConsistent
  <2> SUFFICES ASSUME IndicatorInv PROVE TypeOK /\ NoOrphanIndicator
    BY DEF ControlsConsistent
  <2>1. TypeOK
    BY DEF IndicatorInv, Typed
  <2>2. ASSUME used.others = 0, NEW kind \in {"speed", "rule"}, Shows(kind) # Nothing
        PROVE  \E i \in DOMAIN queue : queue[i].kind = kind /\ queue[i].value = Shows(kind)
    <3>1. used["others"] = 0
      BY <2>2 DEF IndicatorInv, Typed, Bounds
    <3>2. QED
      BY <2>2, <3>1 DEF IndicatorInv, BothAwaited, Awaits
  <2>3. NoOrphanIndicator
    BY <2>2 DEF NoOrphanIndicator, Shows
  <2>4. QED
    BY <2>1, <2>3
<1>4. QED
  BY <1>1, <1>2, <1>3, PTL DEF Spec

=============================================================================
