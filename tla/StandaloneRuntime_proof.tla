----------------------- MODULE StandaloneRuntime_proof -----------------------
(***************************************************************************)
(* Theorems about StandaloneRuntime, for any calls and any bounds.         *)
(***************************************************************************)
EXTENDS StandaloneRuntime, TLAPS

(***************************************************************************)
(* Queues: a message or a task leaves at the head and joins at the end.    *)
(***************************************************************************)

LEMMA Tails ==
  ASSUME NEW S, NEW q \in Seq(S), q # << >>
  PROVE  /\ Tail(q) \in Seq(S) /\ Head(q) \in S /\ Head(q) = q[1]
         /\ Len(q) \in Nat /\ Len(q) >= 1 /\ Len(Tail(q)) = Len(q) - 1 /\ 1 \in DOMAIN q
         /\ DOMAIN q = 1 .. Len(q) /\ DOMAIN Tail(q) = 1 .. Len(q) - 1
         /\ \A i \in DOMAIN Tail(q) : i \in Nat /\ i + 1 \in DOMAIN q /\ i + 1 # 1 /\ Tail(q)[i] = q[i + 1]
         /\ \A i \in DOMAIN q : i = 1 \/ (i - 1 \in DOMAIN Tail(q) /\ Tail(q)[i - 1] = q[i])
OBVIOUS

LEMMA Appends ==
  ASSUME NEW S, NEW q \in Seq(S), NEW e \in S
  PROVE  /\ Append(q, e) \in Seq(S) /\ Append(q, e) # << >>
         /\ Len(q) \in Nat /\ Len(Append(q, e)) = Len(q) + 1
         /\ DOMAIN q = 1 .. Len(q) /\ DOMAIN Append(q, e) = 1 .. Len(q) + 1
         /\ Append(q, e)[Len(q) + 1] = e
         /\ \A i \in DOMAIN q : i \in DOMAIN Append(q, e) /\ Append(q, e)[i] = q[i] /\ i # Len(q) + 1
         /\ \A i \in DOMAIN Append(q, e) : i = Len(q) + 1 \/ i \in DOMAIN q
OBVIOUS
LEMMA TailRange ==
  ASSUME NEW S, NEW q \in Seq(S), q # << >>
  PROVE  Range(q) = {Head(q)} \cup Range(Tail(q)) /\ Head(q) \in Range(q)
         /\ Range(Tail(q)) \subseteq Range(q)
<1>1. /\ Head(q) = q[1] /\ 1 \in DOMAIN q
      /\ \A i \in DOMAIN Tail(q) : i + 1 \in DOMAIN q /\ Tail(q)[i] = q[i + 1]
      /\ \A i \in DOMAIN q : i = 1 \/ (i - 1 \in DOMAIN Tail(q) /\ Tail(q)[i - 1] = q[i])
  BY Tails
<1>2. \A i \in DOMAIN Tail(q) : Tail(q)[i] \in Range(q)
  BY <1>1 DEF Range
<1>3. \A i \in DOMAIN q : q[i] \in {Head(q)} \cup Range(Tail(q))
  BY <1>1 DEF Range
<1>4. Head(q) \in Range(q)
  BY <1>1 DEF Range
<1>5. Range(Tail(q)) \subseteq Range(q)
  BY <1>2 DEF Range
<1>6. Range(q) \subseteq {Head(q)} \cup Range(Tail(q))
  BY <1>3 DEF Range
<1>7. QED
  BY <1>4, <1>5, <1>6

LEMMA AppendRange ==
  ASSUME NEW S, NEW q \in Seq(S), NEW e \in S
  PROVE  Range(Append(q, e)) = Range(q) \cup {e}
<1>1. /\ \A i \in DOMAIN q : i \in DOMAIN Append(q, e) /\ Append(q, e)[i] = q[i]
      /\ Len(q) + 1 \in DOMAIN Append(q, e) /\ Append(q, e)[Len(q) + 1] = e
      /\ \A i \in DOMAIN Append(q, e) : i = Len(q) + 1 \/ i \in DOMAIN q
  BY Appends
<1>2. \A i \in DOMAIN Append(q, e) : Append(q, e)[i] \in Range(q) \cup {e}
  BY <1>1 DEF Range
<1>3. \A i \in DOMAIN q : q[i] \in Range(Append(q, e))
  BY <1>1 DEF Range
<1>4. e \in Range(Append(q, e))
  BY <1>1 DEF Range
<1>5. Range(Append(q, e)) \subseteq Range(q) \cup {e}
  BY <1>2 DEF Range
<1>6. Range(q) \subseteq Range(Append(q, e))
  BY <1>3 DEF Range
<1>7. QED
  BY <1>4, <1>5, <1>6

LEMMA Elements ==
  ASSUME NEW S, NEW q \in Seq(S)
  PROVE  Range(q) \subseteq S /\ (q = << >> <=> Range(q) = {})
<1>1. \A i \in DOMAIN q : q[i] \in S
  OBVIOUS
<1>2. q # << >> => q[1] \in Range(q)
  <2>1. q # << >> => 1 \in DOMAIN q
    OBVIOUS
  <2>2. QED
    BY <2>1 DEF Range
<1>3. q = << >> => DOMAIN q = {}
  OBVIOUS
<1>4. QED
  BY <1>1, <1>2, <1>3 DEF Range


(***************************************************************************)
(* Types.                                                                  *)
(***************************************************************************)

RequestKinds == {"control", "cells", "read", "state", "full"}
StateKinds == {"snapshot", "update", "delta"}
AnswerKinds == {"snapshot", "update", "delta", "plain", "error"}

Tasks ==
    {Tick} \cup [kind : {"init"}, state : States \cup {Nothing}]
           \cup [kind : RequestKinds, caller : Calls]

Messages ==
    [kind : {"persist"}, state : States]
    \cup [kind : {"ready"}, state : States \cup {Nothing}]
    \cup [kind : StateKinds, caller : Calls, state : States, base : 0..MaxVersion]
    \cup [kind : {"plain", "error"}, caller : Calls, state : {Nothing}, base : 0..MaxVersion]

Saves == [state : States, caller : Calls \cup {Nothing, "boot"}, again : BOOLEAN]

WorkerTyped ==
    /\ sim \in States /\ newest \in 0..MaxVersion
    /\ ready \in BOOLEAN /\ running \in BOOLEAN /\ timer \in BOOLEAN
    /\ chain \in Seq(Tasks)

PageTyped ==
    /\ page \in {"loading", "open", "failed", "closed"}
    /\ fatal \in BOOLEAN /\ shown \in BOOLEAN
    /\ cache \in States \cup {Nothing}
    /\ calls \in [Calls -> CallStates \cup {Nothing}]
    /\ told \in 0..MaxVersion
    /\ saves \in Seq(Saves) /\ store \in States \cup {Nothing}
    /\ used \in [commands : Nat, failures : Nat, reloads : Nat]

Typed == WorkerTyped /\ PageTyped /\ outbox \in Seq(Messages)

LEMMA TaskFacts ==
  ASSUME NEW t \in Tasks
  PROVE  /\ t.kind \in RequestKinds \cup {"tick", "init"}
         /\ t.kind = "tick" <=> t = Tick
         /\ t.kind = "init" => t.state \in States \cup {Nothing} /\ t = InitTask(t.state)
         /\ t.kind \in RequestKinds => t.caller \in Calls
<1>1. CASE t = Tick
  BY <1>1 DEF Tick, RequestKinds
<1>2. CASE t \in [kind : {"init"}, state : States \cup {Nothing}]
  BY <1>2 DEF Tick, InitTask, RequestKinds
<1>3. CASE t \in [kind : RequestKinds, caller : Calls]
  BY <1>3 DEF Tick, RequestKinds
<1>4. QED
  BY <1>1, <1>2, <1>3 DEF Tasks

LEMMA MessageFacts ==
  ASSUME NEW m \in Messages
  PROVE  /\ m.kind \in AnswerKinds \cup {"persist", "ready"}
         /\ m.state \in States \cup {Nothing}
         /\ m.kind = "persist" => m.state \in States
         /\ m.kind \in StateKinds => m.state \in States
         /\ m.kind \in {"plain", "error"} => m.state = Nothing
         /\ m.kind \in AnswerKinds => m.caller \in Calls
BY DEF Messages, AnswerKinds, StateKinds

LEMMA SaveFacts ==
  ASSUME NEW s \in Saves
  PROVE  s.state \in States /\ s.caller \in Calls \cup {Nothing, "boot"} /\ s.again \in BOOLEAN
BY DEF Saves

LEMMA StateFacts ==
  /\ \A x \in States : /\ x.version \in 0..MaxVersion /\ x.version \in Nat
                       /\ x.running \in BOOLEAN /\ x # Nothing
  /\ MaxVersion \in Nat
  /\ Nothing \notin Calls /\ Nothing # "boot" /\ "boot" \notin Calls /\ Nothing \notin CallStates
BY StandaloneAssumption DEF States

\* What a record of state is after one of its fields changed.
LEMMA Stated ==
  ASSUME NEW v \in 0..MaxVersion, NEW r \in BOOLEAN, NEW l \in 0..(MaxVersion + 1)
  PROVE  [version |-> v, running |-> r, lattice |-> l] \in States
BY DEF States

\* The task at the head of the chain.
LEMMA NextTaskFacts ==
  ASSUME Typed, NEW kind, NextTask(kind)
  PROVE  /\ Head(chain) \in Tasks /\ Head(chain).kind = kind /\ chain' \in Seq(Tasks)
         /\ kind \in RequestKinds => Head(chain).caller \in Calls
<1>1. chain \in Seq(Tasks) /\ chain # << >> /\ chain' = Tail(chain) /\ Head(chain).kind = kind
  BY DEF Typed, WorkerTyped, NextTask
<1>2. Head(chain) \in Tasks /\ Tail(chain) \in Seq(Tasks)
  BY <1>1, Tails
<1>3. QED
  BY <1>1, <1>2, TaskFacts

\* An answer of the worker is well formed.
LEMMA Responded ==
  ASSUME Typed, NEW kind \in AnswerKinds, NEW state, Respond(kind, state),
         Head(chain).caller \in Calls,
         IF kind \in StateKinds THEN state \in States ELSE state = Nothing
  PROVE  \E answer \in Messages :
            /\ outbox' = Append(outbox, answer) /\ outbox' \in Seq(Messages)
            /\ answer.kind = kind /\ answer.state = state /\ answer.caller = Head(chain).caller
<1>1. PICK answer : answer = [kind |-> kind, caller |-> Head(chain).caller, state |-> state,
                              base |-> sim.version]
  OBVIOUS
<1>2. sim.version \in 0..MaxVersion
  BY StateFacts DEF Typed, WorkerTyped
<1>3. answer \in Messages
  BY <1>1, <1>2 DEF Messages, AnswerKinds, StateKinds
<1>4. outbox' = Append(outbox, answer)
  BY <1>1 DEF Respond, Post
<1>5. outbox' \in Seq(Messages)
  BY <1>3, <1>4, Appends DEF Typed
<1>6. QED
  BY <1>1, <1>3, <1>4, <1>5

\* The state at the head of the outbox, and who receives it.
LEMMA Received ==
  ASSUME Typed, NEW kind, Receive(kind)
  PROVE  /\ Head(outbox) \in Messages /\ Head(outbox).kind = kind
         /\ outbox # << >> /\ outbox' = Tail(outbox) /\ outbox' \in Seq(Messages)
BY Tails DEF Typed, Receive

\* What becomes of an answer.
LEMMA Answered ==
  ASSUME Typed, ReceiveAnswer
  PROVE  \E answer \in Messages, c \in Calls :
            /\ answer = Head(outbox) /\ outbox # << >> /\ outbox' = Tail(outbox)
            /\ outbox' \in Seq(Messages)
            /\ answer.kind \in AnswerKinds /\ answer.caller = c
            /\ \/ calls[c] = Nothing /\ UNCHANGED <<chain, cache, calls, shown, told, saves>>
               \/ /\ calls[c] # Nothing /\ answer.kind \in StateKinds /\ answer.state \in States
                  /\ Accept(c, Installed(answer.state))
               \/ calls[c] # Nothing /\ ~fatal /\ Refresh(c)
               \/ calls[c] # Nothing /\ (answer.kind \in {"plain", "error"} \/ fatal) /\ Over(c)
<1>1. PICK kind \in AnswerKinds : Receive(kind)
  BY DEF ReceiveAnswer, AnswerKinds
<1>2. PICK answer \in Messages : answer = Head(outbox)
  BY <1>1, Received
<1>3. /\ outbox # << >> /\ outbox' = Tail(outbox) /\ outbox' \in Seq(Messages)
      /\ answer.kind \in AnswerKinds
  BY <1>1, <1>2, Received
<1>4. PICK c \in Calls : answer.caller = c
  BY <1>2, <1>3, MessageFacts
<1>5. IF calls[c] = Nothing THEN UNCHANGED <<chain, cache, calls, shown, told, saves>>
      ELSE \/ answer.kind \in {"plain", "error"} /\ Over(c)
           \/ /\ answer.kind \in StateKinds
              /\ IF Fits(answer) THEN Accept(c, Installed(answer.state))
                 ELSE IF fatal THEN Over(c)
                 ELSE Refresh(c)
  BY <1>2, <1>4, Zenon DEF ReceiveAnswer, StateKinds
<1>6. answer.kind \in StateKinds => answer.state \in States
  BY MessageFacts
<1>7. CASE calls[c] = Nothing
  BY <1>2, <1>3, <1>4, <1>5, <1>7
<1>8. CASE calls[c] # Nothing /\ answer.kind \in {"plain", "error"} /\ Over(c)
  BY <1>2, <1>3, <1>4, <1>8
<1>9. CASE calls[c] # Nothing /\ answer.kind \in StateKinds /\ Accept(c, Installed(answer.state))
  BY <1>2, <1>3, <1>4, <1>6, <1>9
<1>10. CASE calls[c] # Nothing /\ fatal /\ Over(c)
  BY <1>2, <1>3, <1>4, <1>10
<1>11. CASE calls[c] # Nothing /\ ~fatal /\ Refresh(c)
  BY <1>2, <1>3, <1>4, <1>11
<1>12. QED
  BY <1>5, <1>7, <1>8, <1>9, <1>10, <1>11, Zenon

\* install keeps the newer of the two states.
LEMMA InstalledFacts ==
  ASSUME Typed, NEW x \in States
  PROVE  /\ Installed(x) \in States
         /\ Installed(x) = x \/ (cache \in States /\ Installed(x) = cache)
         /\ x.version <= Installed(x).version
         /\ cache # Nothing => cache.version <= Installed(x).version
<1>1. cache \in States \cup {Nothing}
  BY DEF Typed, PageTyped
<1>2. CASE cache # Nothing /\ x.version < cache.version
  BY <1>1, <1>2, StateFacts DEF Installed
<1>3. CASE ~(cache # Nothing /\ x.version < cache.version)
  BY <1>1, <1>3, StateFacts DEF Installed
<1>4. QED
  BY <1>2, <1>3

\* A transaction that is asked for.
LEMMA Saving ==
  ASSUME NEW x \in States, NEW who \in Calls \cup {Nothing, "boot"}
  PROVE  /\ Save(x, who) \in Saves /\ [Save(x, who) EXCEPT !.again = TRUE] \in Saves
         /\ Save(x, who).state = x /\ Save(x, who).caller = who /\ Save(x, who).again = FALSE
         /\ [Save(x, who) EXCEPT !.again = TRUE].state = x
         /\ [Save(x, who) EXCEPT !.again = TRUE].caller = who
         /\ [Save(x, who) EXCEPT !.again = TRUE].again = TRUE
BY DEF Save, Saves

LEMMA Spending ==
  ASSUME Typed, NEW what \in {"commands", "failures", "reloads"}, NEW max, Spend(what, max)
  PROVE  /\ used' \in [commands : Nat, failures : Nat, reloads : Nat]
         /\ used'.failures = used.failures + (IF what = "failures" THEN 1 ELSE 0)
<1>1. used \in [commands : Nat, failures : Nat, reloads : Nat]
  BY DEF Typed, PageTyped
<1>2. CASE what = "commands"
  BY <1>1, <1>2 DEF Spend
<1>3. CASE what = "failures"
  BY <1>1, <1>3 DEF Spend
<1>4. CASE what = "reloads"
  BY <1>1, <1>4 DEF Spend
<1>5. QED
  BY <1>2, <1>3, <1>4


(***************************************************************************)
(* What the steps of the worker and the asking of a call come to.          *)
(***************************************************************************)

\* The worker starts, with state x, or cannot start.
Started(x) ==
    /\ chain # << >> /\ Head(chain).kind = "init" /\ chain' = Tail(chain)
    /\ x = IF Head(chain).state = Nothing THEN FirstState
           ELSE [Head(chain).state EXCEPT !.lattice = newest + 1]
    /\ sim' = x /\ running' = x.running /\ timer' = x.running /\ ready' = TRUE
    /\ outbox' = Append(outbox, [kind |-> "ready", state |-> x])
    /\ UNCHANGED <<newest, client, storage, used>>

NotStarted ==
    /\ chain # << >> /\ Head(chain).kind = "init" /\ chain' = Tail(chain)
    /\ outbox' = Append(outbox, [kind |-> "ready", state |-> Nothing])
    /\ Failure
    /\ UNCHANGED <<loop, client, storage>>

\* A request is answered: with the state, or with none, which leaves it as it is.
Served(answer) ==
    /\ chain # << >> /\ Head(chain).kind \in RequestKinds /\ chain' = Tail(chain)
    /\ answer.kind \in AnswerKinds /\ answer.caller = Head(chain).caller
    /\ outbox' = Append(outbox, answer)
    /\ \/ sim' = sim /\ newest' = newest
       \/ sim'.version = newest + 1 /\ newest' = newest + 1
    /\ \/ answer.kind \in StateKinds /\ answer.state = sim'
       \/ /\ answer.kind \in {"plain", "error"} /\ answer.state = Nothing /\ sim' = sim
          /\ Head(chain).kind # "full"
    /\ (running' => timer') \/ UNCHANGED <<running, timer>>
    /\ UNCHANGED <<ready, client, storage, used>>

\* A tick advances the simulation, finds it paused, or fails.
Advanced(message) ==
    /\ chain # << >> /\ Head(chain).kind = "tick" /\ chain' = Tail(chain)
    /\ sim.running /\ sim'.running /\ sim'.version = newest' /\ newest <= newest'
    /\ message.kind = "persist" /\ message.state = sim'
    /\ outbox' = Append(outbox, message)
    /\ timer' = running
    /\ UNCHANGED <<ready, running, client, storage, used>>

Idled ==
    /\ chain # << >> /\ Head(chain).kind = "tick" /\ chain' = Tail(chain)
    /\ timer' = running
    /\ UNCHANGED <<service, outbox, ready, running, client, storage, used>>

Broken ==
    /\ chain # << >> /\ Head(chain).kind = "tick" /\ chain' = Tail(chain)
    /\ running' = FALSE /\ timer' = FALSE /\ Failure
    /\ UNCHANGED <<service, ready, outbox, client, storage>>

\* Call c asks the worker.
Asked(c, request) ==
    /\ page = "open" /\ ~fatal /\ calls[c] = Nothing
    /\ \E kind \in {"control", "cells", "read", "state"} : calls' = [calls EXCEPT ![c] = Call(kind)]
    /\ request.kind \in RequestKinds /\ request.caller = c
    /\ chain' = Append(chain, request)
    /\ used' = used \/ \E max : Spend("commands", max)
    /\ UNCHANGED <<loop, outbox, page, fatal, cache, shown, told, storage>>

LEMMA Requests ==
  ASSUME NEW c \in Calls, NEW kind \in RequestKinds
  PROVE  Request(c, kind) \in Tasks /\ Request(c, kind).kind = kind /\ Request(c, kind).caller = c
BY DEF Request, Tasks

LEMMA InitSteps ==
  ASSUME Typed, RunInit
  PROVE  (\E x \in States : Started(x)) \/ NotStarted
<1>1. NextTask("init") /\ UNCHANGED <<newest, client, storage>>
  BY DEF RunInit
<1>2. Head(chain) \in Tasks /\ Head(chain).kind = "init"
  BY <1>1, NextTaskFacts
<1>3. Head(chain).state \in States \cup {Nothing}
  BY <1>2, TaskFacts
<1>4. PICK x : x = IF Head(chain).state = Nothing THEN FirstState
                   ELSE [Head(chain).state EXCEPT !.lattice = newest + 1]
  OBVIOUS
<1>5. x \in States
  <2>1. FirstState \in States
    BY StateFacts DEF FirstState, States
  <2>2. ASSUME NEW y \in States PROVE [y EXCEPT !.lattice = newest + 1] \in States
    BY StateFacts DEF States, Typed, WorkerTyped
  <2>3. QED
    BY <1>3, <1>4, <2>1, <2>2
<1>6. CASE sim' = x /\ Synced(sim') /\ ready' = TRUE /\ Post([kind |-> "ready", state |-> sim'])
           /\ UNCHANGED used
  <2>1. Started(x)
    BY <1>1, <1>2, <1>4, <1>6 DEF Started, Synced, Post, NextTask
  <2>2. QED
    BY <1>5, <2>1
<1>7. CASE Failure /\ Post([kind |-> "ready", state |-> Nothing])
           /\ UNCHANGED <<sim, ready, running, timer>>
  BY <1>1, <1>2, <1>7 DEF NotStarted, Post, NextTask, loop, service
<1>8. QED
  BY <1>4, <1>6, <1>7 DEF RunInit

LEMMA ServeSteps ==
  ASSUME Typed, RunCommand \/ RunState \/ RunCells \/ RunRead \/ Refuse
  PROVE  sim' \in States /\ newest' \in 0..MaxVersion /\ running' \in BOOLEAN /\ timer' \in BOOLEAN
         /\ \E answer \in Messages : Served(answer)
<1>types. /\ sim \in States /\ newest \in 0..MaxVersion /\ MaxVersion \in Nat
          /\ running \in BOOLEAN /\ timer \in BOOLEAN
  BY StateFacts DEF Typed, WorkerTyped
<1>1. PICK kind \in RequestKinds : NextTask(kind)
  BY DEF RunCommand, RunState, RunCells, RunRead, Refuse, RequestKinds
<1>2. /\ Head(chain).kind = kind /\ Head(chain).caller \in Calls
      /\ chain # << >> /\ chain' = Tail(chain)
  BY <1>1, NextTaskFacts DEF NextTask
<1>synced. ASSUME NEW x \in States, Synced(x)
           PROVE  running' \in BOOLEAN /\ timer' \in BOOLEAN /\ (running' => timer')
  BY <1>synced, StateFacts, Zenon DEF Synced
<1>state. ASSUME sim' \in States, newest' \in 0..MaxVersion, NEW k \in StateKinds, Respond(k, sim'),
                 running' \in BOOLEAN, timer' \in BOOLEAN,
                 \/ sim' = sim /\ newest' = newest
                 \/ sim'.version = newest + 1 /\ newest' = newest + 1,
                 running' => timer', UNCHANGED <<ready, client, storage, used>>
          PROVE  \E answer \in Messages : Served(answer)
  <2>1. k \in AnswerKinds
    BY DEF AnswerKinds, StateKinds
  <2>2. PICK answer \in Messages :
            /\ outbox' = Append(outbox, answer) /\ outbox' \in Seq(Messages)
            /\ answer.kind = k /\ answer.state = sim' /\ answer.caller = Head(chain).caller
    BY <1>2, <1>state, <2>1, Responded
  <2>3. Served(answer)
    BY <1>2, <1>state, <2>1, <2>2 DEF Served
  <2>4. QED
    BY <2>3
<1>none. ASSUME UNCHANGED <<sim, newest, ready, client, storage, used>>, kind # "full",
                NEW k \in {"plain", "error"}, Respond(k, Nothing),
                (running' => timer') \/ UNCHANGED <<running, timer>>
         PROVE  \E answer \in Messages : Served(answer)
  <2>1. k \in AnswerKinds /\ k \notin StateKinds
    BY DEF AnswerKinds, StateKinds
  <2>2. PICK answer \in Messages :
            /\ outbox' = Append(outbox, answer) /\ outbox' \in Seq(Messages)
            /\ answer.kind = k /\ answer.state = Nothing /\ answer.caller = Head(chain).caller
    BY <1>2, <1>none, <2>1, Responded
  <2>3. Served(answer)
    BY <1>2, <1>none, <2>1, <2>2 DEF Served
  <2>4. QED
    BY <2>3
<1>3. CASE RunCommand
  <2>1. /\ newest + 1 \in 0..MaxVersion /\ newest + 1 \in 0..(MaxVersion + 1)
        /\ sim' \in Controlled
        /\ newest' = IF sim' = sim THEN newest ELSE newest + 1
        /\ Synced(sim') /\ Respond("snapshot", sim')
        /\ UNCHANGED <<ready, client, storage, used>>
    BY <1>3, <1>types DEF RunCommand
  <2>2. \/ sim' = sim
        \/ sim' \in States /\ sim'.version = newest + 1
    <3>1. PICK x : x = sim'
      OBVIOUS
    <3>2. x \in Controlled
      BY <2>1, <3>1
    <3>3. x = sim \/ x = [sim EXCEPT !.version = newest + 1, !.running = ~@]
          \/ x = [sim EXCEPT !.version = newest + 1, !.running = FALSE]
          \/ x = [sim EXCEPT !.version = newest + 1]
          \/ x = [version |-> newest + 1, running |-> FALSE, lattice |-> newest + 1]
          \/ x = [sim EXCEPT !.version = newest + 1, !.lattice = newest + 1]
      BY <3>2, Zenon DEF Controlled
    <3>4. x = sim \/ (x \in States /\ x.version = newest + 1)
      <4>1. CASE x = [sim EXCEPT !.version = newest + 1, !.running = ~@]
        BY <1>types, <2>1, <4>1 DEF States
      <4>2. CASE x = [sim EXCEPT !.version = newest + 1, !.running = FALSE]
        BY <1>types, <2>1, <4>2 DEF States
      <4>3. CASE x = [sim EXCEPT !.version = newest + 1]
        BY <1>types, <2>1, <4>3 DEF States
      <4>4. CASE x = [version |-> newest + 1, running |-> FALSE, lattice |-> newest + 1]
        BY <1>types, <2>1, <4>4 DEF States
      <4>5. CASE x = [sim EXCEPT !.version = newest + 1, !.lattice = newest + 1]
        BY <1>types, <2>1, <4>5 DEF States
      <4>6. QED
        BY <3>3, <4>1, <4>2, <4>3, <4>4, <4>5
    <3>5. QED
      BY <3>1, <3>4
  <2>3. sim' \in States /\ newest' \in 0..MaxVersion
    BY <1>types, <2>1, <2>2
  <2>4. \/ sim' = sim /\ newest' = newest
        \/ sim'.version = newest + 1 /\ newest' = newest + 1
    BY <2>1, <2>2
  <2>5. running' \in BOOLEAN /\ timer' \in BOOLEAN /\ (running' => timer')
    BY <1>synced, <2>1, <2>3
  <2>6. "snapshot" \in StateKinds
    BY DEF StateKinds
  <2>7. QED
    BY <1>state, <2>1, <2>3, <2>4, <2>5, <2>6
<1>4. CASE RunState
  <2>1. /\ Synced(sim) /\ sim' = sim /\ newest' = newest
        /\ UNCHANGED <<ready, client, storage, used>>
    BY <1>4 DEF RunState, service
  <2>2. PICK k \in StateKinds : Respond(k, sim')
    BY <1>4, <2>1 DEF RunState, StateKinds
  <2>3. running' \in BOOLEAN /\ timer' \in BOOLEAN /\ (running' => timer')
    BY <1>synced, <1>types, <2>1
  <2>4. QED
    BY <1>state, <1>types, <2>1, <2>2, <2>3
<1>5. CASE RunCells
  <2>1. /\ newest + 1 \in 0..MaxVersion
        /\ sim' \in {sim, [sim EXCEPT !.version = newest + 1]}
        /\ newest' = IF sim' = sim THEN newest ELSE newest + 1
        /\ running' = running /\ timer' = running /\ Respond("delta", sim')
        /\ UNCHANGED <<ready, client, storage, used>>
    BY <1>5, <1>types DEF RunCells
  <2>2. ASSUME NEW x, x = [sim EXCEPT !.version = newest + 1]
        PROVE  x \in States /\ x.version = newest + 1
    BY <1>types, <2>1, <2>2 DEF States
  <2>3. /\ sim' \in States /\ newest' \in 0..MaxVersion
        /\ \/ sim' = sim /\ newest' = newest
           \/ sim'.version = newest + 1 /\ newest' = newest + 1
    BY <1>types, <2>1, <2>2
  <2>4. running' \in BOOLEAN /\ timer' \in BOOLEAN /\ (running' => timer')
    BY <1>types, <2>1, Zenon
  <2>5. "delta" \in StateKinds
    BY DEF StateKinds
  <2>6. QED
    BY <1>state, <2>1, <2>3, <2>4, <2>5
<1>6. CASE RunRead \/ Refuse
  <2>1. /\ sim' = sim /\ newest' = newest /\ UNCHANGED <<ready, client, storage, used>>
        /\ running' = running
    BY <1>6 DEF RunRead, Refuse, service
  <2>2. timer' = running \/ timer' = timer
    BY <1>6 DEF RunRead, Refuse
  <2>3. kind # "full"
    BY <1>2, <1>6 DEF RunRead, Refuse, NextTask
  <2>4. PICK k \in {"plain", "error"} : Respond(k, Nothing)
    BY <1>6 DEF RunRead, Refuse
  <2>5. running' \in BOOLEAN /\ timer' \in BOOLEAN
    BY <1>types, <2>1, <2>2, Zenon
  <2>6. (running' => timer') \/ UNCHANGED <<running, timer>>
    BY <1>types, <2>1, <2>2, Zenon
  <2>7. QED
    BY <1>none, <1>types, <2>1, <2>3, <2>4, <2>5, <2>6
<1>7. QED
  BY <1>3, <1>4, <1>5, <1>6

LEMMA TickSteps ==
  ASSUME Typed, RunTick \/ TickFails
  PROVE  /\ sim' \in States /\ newest' \in 0..MaxVersion /\ running' \in BOOLEAN /\ timer' \in BOOLEAN
         /\ (\E message \in Messages : Advanced(message)) \/ Idled \/ Broken
<1>types. /\ sim \in States /\ newest \in 0..MaxVersion /\ MaxVersion \in Nat
          /\ running \in BOOLEAN /\ timer \in BOOLEAN
  BY StateFacts DEF Typed, WorkerTyped
<1>1. Head(chain).kind = "tick" /\ chain # << >> /\ chain' = Tail(chain)
  BY DEF RunTick, TickFails, NextTask
<1>2. CASE RunTick /\ running /\ sim.running
  <2>1. /\ newest' = IF newest < MaxVersion THEN newest + 1 ELSE newest
        /\ sim' = [sim EXCEPT !.version = newest']
        /\ Post([kind |-> "persist", state |-> sim'])
        /\ timer' = running /\ UNCHANGED <<ready, running, client, storage, used>>
    BY <1>2 DEF RunTick
  <2>2. newest' \in 0..MaxVersion /\ newest <= newest'
    BY <1>types, <2>1
  <2>3. PICK n \in 0..MaxVersion : n = newest'
    BY <2>2
  <2>4. ASSUME NEW x, x = [sim EXCEPT !.version = n]
        PROVE  x \in States /\ x.version = n /\ x.running = sim.running
    BY <1>types, <2>4 DEF States
  <2>5. sim' \in States /\ sim'.version = newest' /\ sim'.running = sim.running
    BY <2>1, <2>3, <2>4
  <2>6. PICK message : message = [kind |-> "persist", state |-> sim']
    OBVIOUS
  <2>7. message \in Messages /\ message.kind = "persist" /\ message.state = sim'
    BY <2>5, <2>6 DEF Messages
  <2>8. outbox' = Append(outbox, message)
    BY <2>1, <2>6 DEF Post
  <2>9. sim.running /\ sim'.running
    BY <1>2, <2>5, Zenon
  <2>10. Advanced(message)
    BY <1>1, <2>1, <2>2, <2>5, <2>7, <2>8, <2>9 DEF Advanced
  <2>11. running' \in BOOLEAN /\ timer' \in BOOLEAN
    BY <1>types, <2>1, Zenon
  <2>12. QED
    BY <2>2, <2>5, <2>7, <2>10, <2>11
<1>3. CASE RunTick /\ ~(running /\ sim.running)
  <2>1. UNCHANGED <<service, outbox, ready, running, client, storage, used>> /\ timer' = running
    BY <1>3 DEF RunTick
  <2>2. sim' = sim /\ newest' = newest /\ running' \in BOOLEAN /\ timer' \in BOOLEAN
    BY <1>types, <2>1, Zenon DEF service
  <2>3. QED
    BY <1>1, <1>types, <2>1, <2>2 DEF Idled
<1>4. CASE TickFails
  <2>1. /\ UNCHANGED <<service, ready, outbox, client, storage>>
        /\ running' = FALSE /\ timer' = FALSE /\ Failure
    BY <1>4 DEF TickFails
  <2>2. QED
    BY <1>1, <1>types, <2>1 DEF Broken, service
<1>5. QED
  BY <1>2, <1>3, <1>4

LEMMA AskSteps ==
  ASSUME Typed, (\E c \in Calls, kind \in {"control", "cells", "read"} : Command(c, kind)) \/ Poll
  PROVE  \E c \in Calls, request \in Tasks : Asked(c, request)
<1>1. PICK c \in Calls, kind \in {"control", "cells", "read", "state"} : Ask(c, kind)
  BY DEF Command, Poll
<1>2. used' = used \/ \E max : Spend("commands", max)
  BY DEF Command, Poll
<1>3. kind \in RequestKinds
  BY DEF RequestKinds
<1>4. PICK request \in Tasks : request = Request(c, kind) /\ request.kind = kind /\ request.caller = c
  BY <1>3, Requests
<1>5. Asked(c, request)
  BY <1>1, <1>2, <1>3, <1>4 DEF Ask, Asked
<1>6. QED
  BY <1>5


(***************************************************************************)
(* The inductive invariant.                                                *)
(***************************************************************************)

\* A page that loads waits for the worker to start, for its answer and for the
\* first transaction, in this order and each once; of the worker it can only have
\* ticks.  A simulation that was restored paused stays as it was restored.
Starting ==
    /\ chain = <<InitTask(store)>> /\ outbox = << >> /\ saves = << >>
    /\ ~running /\ ~timer /\ ~ready

OnlyTicks == \A task \in Range(chain) : task.kind = "tick"

Answering ==
    /\ OnlyTicks /\ saves = << >>
    /\ outbox # << >> /\ outbox[1].kind = "ready"
    /\ \A i \in DOMAIN outbox : i # 1 => outbox[i].kind = "persist"
    /\ outbox[1].state = Nothing => used.failures > 0
    /\ outbox[1].state # Nothing /\ ~sim.running => outbox[1].state.version = sim.version

FirstSave ==
    /\ OnlyTicks /\ \A message \in Range(outbox) : message.kind = "persist"
    /\ saves # << >> /\ saves[1].caller = "boot"
    /\ \A i \in DOMAIN saves : i # 1 => saves[i].caller = Nothing
    /\ ~sim.running => saves[1].state.version = sim.version

Booted ==
    /\ \A task \in Range(chain) : task.kind # "init"
    /\ \A message \in Range(outbox) : message.kind # "ready"
    /\ \A save \in Range(saves) : save.caller # "boot"

Phased ==
    /\ page = "loading" => cache = Nothing /\ (Starting \/ Answering \/ FirstSave)
    /\ page # "loading" => Booted
    /\ page = "open" => cache # Nothing
    /\ page = "closed" => chain = << >> /\ outbox = << >> /\ saves = << >> /\ ~running /\ ~timer /\ ~ready
    /\ \A c \in Calls : calls[c] # Nothing => page = "open"
    /\ page = "failed" \/ fatal => used.failures > 0

\* A call has one request or one answer under way while it is asked, none when it
\* is saved, and, unless the worker was given up, none when it is over.
UnderWay(q, kinds, c) == \E x \in Range(q) : x.kind \in kinds /\ x.caller = c
Saved(q, c) == \E save \in Range(q) : save.caller = c

Asks(c) == UnderWay(chain, RequestKinds, c)
IsAnswered(c) == UnderWay(outbox, AnswerKinds, c)
Waits(c) == Saved(saves, c)

OneEach(q, kinds) ==
    \A i, j \in DOMAIN q :
        q[i].kind \in kinds /\ q[j].kind \in kinds /\ q[i].caller = q[j].caller => i = j

OneSave(q) ==
    \A i, j \in DOMAIN q : q[i].caller \in Calls /\ q[i].caller = q[j].caller => i = j

InOnePlace(c) ==
    /\ ~(Asks(c) /\ IsAnswered(c))
    /\ Waits(c) <=> calls[c] # Nothing /\ calls[c].phase = "saving"
    /\ Asks(c) \/ IsAnswered(c) => IF calls[c] = Nothing THEN fatal ELSE calls[c].phase = "asked"

Calling ==
    /\ OneEach(chain, RequestKinds) /\ OneEach(outbox, AnswerKinds) /\ OneSave(saves)
    /\ \A c \in Calls : InOnePlace(c)

\* States leave the worker, reach the page and reach storage in the order of
\* their versions, but for the second save of a call that refreshed: that one may
\* be behind a tick's, and is behind nothing a call has accepted.
Replaying(q) ==
    \A i, j \in DOMAIN q :
        i < j /\ (q[i].caller # Nothing \/ ~q[j].again) => q[i].state.version <= q[j].state.version

InOrder(q) ==
    \A i, j \in DOMAIN q :
        i < j /\ q[i].state # Nothing /\ q[j].state # Nothing => q[i].state.version <= q[j].state.version

\* Not before what the page and storage know.
Current(v) ==
    /\ told <= v
    /\ cache # Nothing => cache.version <= v
    /\ store # Nothing => store.version <= v
    /\ \A save \in Range(saves) : save.state.version <= v

SimCurrent == sim.version <= newest /\ Current(sim.version)

MessagesCurrent ==
    \A message \in Range(outbox) : message.state # Nothing =>
        Current(message.state.version) /\ message.state.version <= sim.version

SavesCurrent ==
    \A save \in Range(saves) :
        /\ told <= save.state.version
        /\ store # Nothing /\ ~save.again => store.version <= save.state.version
        /\ cache # Nothing /\ save.caller # Nothing => save.state.version <= cache.version

Ordered ==
    /\ InOrder(outbox) /\ Replaying(saves)
    /\ SimCurrent /\ MessagesCurrent /\ SavesCurrent /\ ToldIsStored

\* A version says whether the simulation runs, in all states that are known.
Known ==
    {cache, store} \cup {save.state : save \in Range(saves)}
                   \cup {message.state : message \in Range(outbox)}

Agreed == \A x \in Known \ {Nothing} : x.version = sim.version => x.running = sim.running

\* Where the state of a paused simulation is, before it is in storage: it will be
\* asked for again, is on its way to the page, or waits for storage behind all
\* others.
ToBeAsked == \E task \in Range(chain) : task.kind = "full"
Carries(m) ==
    m.kind \in StateKinds \cup {"ready"} /\ m.state # Nothing /\ m.state.version = sim.version
ToBeReceived == \E m \in Range(outbox) : Carries(m)
CacheIsLast == cache # Nothing => cache.version = sim.version
ToBeSaved == CacheIsLast /\ saves # << >> /\ saves[Len(saves)].state.version = sim.version
Stored ==
    /\ cache # Nothing /\ CacheIsLast
    /\ saves = << >> /\ store # Nothing /\ store.version = sim.version

OnItsWay == ToBeAsked \/ ToBeReceived \/ ToBeSaved \/ Stored

Paused == ready /\ ~sim.running /\ used.failures = 0 => OnItsWay


LEMMA TypeInit == Init => Typed
<1> SUFFICES ASSUME Init PROVE Typed
  OBVIOUS
<1>0. MaxVersion \in Nat /\ 0 \in 0..MaxVersion /\ 0 \in 0..(MaxVersion + 1)
  BY StateFacts
<1>1. sim \in States /\ newest \in 0..MaxVersion
  BY <1>0 DEF Init, FirstState, States
<1>2. chain \in Seq(Tasks)
  <2>1. InitTask(Nothing) \in Tasks
    BY DEF InitTask, Tasks
  <2>2. QED
    BY <2>1 DEF Init
<1>3. outbox \in Seq(Messages) /\ saves \in Seq(Saves)
  BY DEF Init
<1>4. WorkerTyped
  BY <1>1, <1>2 DEF Init, WorkerTyped
<1>5. PageTyped
  BY <1>0, <1>3 DEF Init, PageTyped
<1>6. QED
  BY <1>3, <1>4, <1>5 DEF Typed

\* The caller of a transaction waits for it.
LEMMA HeadWaits ==
  ASSUME Typed, Calling, saves # << >>, Head(saves).caller \in Calls
  PROVE  /\ Waits(Head(saves).caller)
         /\ calls[Head(saves).caller] \in CallStates
         /\ calls[Head(saves).caller].phase = "saving"
<1>1. saves \in Seq(Saves) /\ calls \in [Calls -> CallStates \cup {Nothing}]
  BY DEF Typed, PageTyped
<1>2. PICK c \in Calls : c = Head(saves).caller
  OBVIOUS
<1>3. Head(saves) \in Range(saves)
  BY <1>1, TailRange
<1>4. Waits(c)
  BY <1>2, <1>3 DEF Waits, Saved
<1>5. calls[c] # Nothing /\ calls[c].phase = "saving"
  BY <1>4 DEF Calling, InOnePlace
<1>6. QED
  BY <1>1, <1>2, <1>4, <1>5

LEMMA TypeStep == Typed /\ Calling /\ [Next]_vars => Typed'
<1> SUFFICES ASSUME Typed, Calling, [Next]_vars PROVE Typed'

  OBVIOUS
<1>types. /\ sim \in States /\ newest \in 0..MaxVersion
          /\ running \in BOOLEAN /\ timer \in BOOLEAN /\ ready \in BOOLEAN
          /\ chain \in Seq(Tasks) /\ outbox \in Seq(Messages) /\ saves \in Seq(Saves)
          /\ store \in States \cup {Nothing} /\ cache \in States \cup {Nothing}
          /\ calls \in [Calls -> CallStates \cup {Nothing}]
          /\ fatal \in BOOLEAN /\ shown \in BOOLEAN
          /\ told \in 0..MaxVersion /\ told \in Nat
          /\ used \in [commands : Nat, failures : Nat, reloads : Nat]
          /\ page \in {"loading", "open", "failed", "closed"}
  BY StateFacts DEF Typed, WorkerTyped, PageTyped
<1>failed. Failure => used' \in [commands : Nat, failures : Nat, reloads : Nat]
  BY Spending DEF Failure
\* A step of the worker takes the task at the head of the chain and may post.
<1>worker. ASSUME sim' \in States, newest' \in 0..MaxVersion, running' \in BOOLEAN,
                  timer' \in BOOLEAN, ready' \in BOOLEAN,
                  chain # << >>, chain' = Tail(chain),
                  outbox' = outbox \/ \E m \in Messages : outbox' = Append(outbox, m),
                  UNCHANGED <<client, storage>>, used' = used \/ Failure
           PROVE  Typed'
  <2>1. chain' \in Seq(Tasks)
    BY <1>types, <1>worker, Tails
  <2>2. outbox' \in Seq(Messages)
    <3>1. ASSUME NEW m \in Messages, outbox' = Append(outbox, m) PROVE outbox' \in Seq(Messages)
      BY <1>types, <3>1, Appends
    <3>2. QED
      BY <1>types, <1>worker, <3>1
  <2>3. WorkerTyped'
    BY <1>worker, <2>1 DEF WorkerTyped
  <2>4. PageTyped'
    BY <1>types, <1>failed, <1>worker DEF PageTyped, client, storage
  <2>5. QED
    BY <2>2, <2>3, <2>4 DEF Typed
<1>1. CASE TimerFires
  <2>1. Tick \in Tasks /\ chain' = Append(chain, Tick) /\ timer' = FALSE
        /\ UNCHANGED <<service, ready, running, outbox, client, storage, used>>
    BY <1>1 DEF TimerFires, Tasks
  <2>2. chain' \in Seq(Tasks)
    BY <1>types, <2>1, Appends
  <2>3. WorkerTyped'
    BY <1>types, <2>1, <2>2 DEF WorkerTyped, service
  <2>4. QED
    BY <1>types, <2>1, <2>3 DEF Typed, PageTyped, client, storage
<1>2. ASSUME NEW x \in States, Started(x) PROVE Typed'
  <2>1. [kind |-> "ready", state |-> x] \in Messages
    BY DEF Messages
  <2>2. running' \in BOOLEAN /\ timer' \in BOOLEAN
    BY <1>2, StateFacts, Zenon DEF Started
  <2>3. QED
    BY <1>2, <1>types, <1>worker, <2>1, <2>2 DEF Started
<1>3. CASE NotStarted
  <2>1. [kind |-> "ready", state |-> Nothing] \in Messages
    BY DEF Messages
  <2>2. UNCHANGED <<sim, newest, ready, running, timer>>
    BY <1>3 DEF NotStarted, loop, service
  <2>3. QED
    BY <1>3, <1>types, <1>worker, <2>1, <2>2 DEF NotStarted
<1>4. ASSUME RunCommand \/ RunState \/ RunCells \/ RunRead \/ Refuse PROVE Typed'
  <2>1. sim' \in States /\ newest' \in 0..MaxVersion /\ running' \in BOOLEAN /\ timer' \in BOOLEAN
    BY <1>4, ServeSteps
  <2>2. PICK answer \in Messages : Served(answer)
    BY <1>4, ServeSteps
  <2>3. /\ chain # << >> /\ chain' = Tail(chain) /\ outbox' = Append(outbox, answer)
        /\ UNCHANGED <<ready, client, storage, used>>
    BY <2>2 DEF Served
  <2>4. QED
    BY <1>types, <1>worker, <2>1, <2>3
<1>5. ASSUME RunTick \/ TickFails PROVE Typed'
  <2>1. sim' \in States /\ newest' \in 0..MaxVersion /\ running' \in BOOLEAN /\ timer' \in BOOLEAN
    BY <1>5, TickSteps
  <2>2. /\ chain # << >> /\ chain' = Tail(chain) /\ UNCHANGED <<ready, client, storage>>
        /\ used' = used \/ Failure
        /\ outbox' = outbox \/ \E m \in Messages : outbox' = Append(outbox, m)
    BY <1>5, TickSteps DEF Advanced, Idled, Broken
  <2>3. QED
    BY <1>types, <1>worker, <2>1, <2>2
<1>6. ASSUME NEW c \in Calls, NEW request \in Tasks, Asked(c, request) PROVE Typed'
  <2>1. chain' \in Seq(Tasks)
    BY <1>6, <1>types, Appends DEF Asked
  <2>2. calls' \in [Calls -> CallStates \cup {Nothing}]
    <3>1. PICK kind \in {"control", "cells", "read", "state"} : calls' = [calls EXCEPT ![c] = Call(kind)]
      BY <1>6 DEF Asked
    <3>2. Call(kind) \in CallStates
      BY DEF Call, CallStates
    <3>3. QED
      BY <1>types, <3>1, <3>2
  <2>3. used' \in [commands : Nat, failures : Nat, reloads : Nat]
    BY <1>6, <1>types, Spending DEF Asked
  <2>4. QED
    BY <1>6, <1>types, <2>1, <2>2, <2>3 DEF Asked, Typed, WorkerTyped, PageTyped, loop, service, storage
<1>persist. ASSUME NEW x \in States, NEW who \in Calls \cup {Nothing, "boot"}, Persist(x, who)
            PROVE  saves' \in Seq(Saves)
  BY <1>persist, <1>types, Saving, Appends DEF Persist
<1>tail. saves # << >> => Tail(saves) \in Seq(Saves) /\ Head(saves) \in Saves
  BY <1>types, Tails
<1>phase. ASSUME NEW c \in Calls, calls[c] # Nothing
          PROVE  /\ [calls EXCEPT ![c].phase = "saving"] \in [Calls -> CallStates \cup {Nothing}]
                 /\ \A b \in BOOLEAN :
                       [calls EXCEPT ![c].refreshing = b] \in [Calls -> CallStates \cup {Nothing}]
  <2>1. calls[c] \in CallStates
    BY <1>phase, <1>types
  <2>2. [calls[c] EXCEPT !.phase = "saving"] \in CallStates
    BY <2>1 DEF CallStates
  <2>3. ASSUME NEW b \in BOOLEAN PROVE [calls[c] EXCEPT !.refreshing = b] \in CallStates
    BY <2>1 DEF CallStates
  <2>4. QED
    BY <1>types, <2>2, <2>3
<1>over. ASSUME NEW c \in Calls PROVE [calls EXCEPT ![c] = Nothing] \in [Calls -> CallStates \cup {Nothing}]
  BY <1>types
<1>7. CASE ReceiveAnswer
  <2>1. PICK answer \in Messages, c \in Calls :
            /\ answer = Head(outbox) /\ outbox # << >> /\ outbox' = Tail(outbox)
            /\ outbox' \in Seq(Messages)
            /\ answer.kind \in AnswerKinds /\ answer.caller = c
            /\ \/ calls[c] = Nothing /\ UNCHANGED <<chain, cache, calls, shown, told, saves>>
               \/ /\ calls[c] # Nothing /\ answer.kind \in StateKinds /\ answer.state \in States
                  /\ Accept(c, Installed(answer.state))
               \/ calls[c] # Nothing /\ ~fatal /\ Refresh(c)
               \/ calls[c] # Nothing /\ (answer.kind \in {"plain", "error"} \/ fatal) /\ Over(c)
    BY <1>7, Answered
  <2>2. UNCHANGED <<loop, page, fatal, store, used>>
    BY <1>7 DEF ReceiveAnswer
  <2>3. UNCHANGED <<shown, told>>
    BY <2>1 DEF Accept, Refresh, Over
  <2>4. /\ chain' \in Seq(Tasks) /\ cache' \in States \cup {Nothing} /\ saves' \in Seq(Saves)
        /\ calls' \in [Calls -> CallStates \cup {Nothing}]
    <3>1. CASE UNCHANGED <<chain, cache, calls, shown, told, saves>>
      BY <1>types, <3>1
    <3>2. CASE /\ calls[c] # Nothing /\ answer.state \in States
               /\ Accept(c, Installed(answer.state))
      <4>1. Installed(answer.state) \in States
        BY <3>2, InstalledFacts
      <4>2. QED
        BY <1>types, <1>persist, <1>phase, <3>2, <4>1 DEF Accept
    <3>3. CASE calls[c] # Nothing /\ Refresh(c)
      <4>1. Request(c, "full") \in Tasks
        BY Requests DEF RequestKinds
      <4>2. QED
        BY <1>types, <1>phase, <3>3, <4>1, Appends DEF Refresh
    <3>4. CASE Over(c)
      BY <1>types, <1>over, <3>4 DEF Over
    <3>5. QED
      BY <2>1, <3>1, <3>2, <3>3, <3>4
  <2>5. QED
    BY <1>types, <2>1, <2>2, <2>3, <2>4 DEF Typed, WorkerTyped, PageTyped, loop, service
<1>8. CASE ReceivePersist
  <2>1. /\ Receive("persist") /\ Persist(Head(outbox).state, Nothing)
        /\ UNCHANGED <<loop, chain, client, store, used>>
    BY <1>8 DEF ReceivePersist
  <2>2. outbox' \in Seq(Messages) /\ Head(outbox).state \in States
    BY <2>1, Received, MessageFacts
  <2>3. saves' \in Seq(Saves)
    BY <1>persist, <2>1, <2>2
  <2>4. QED
    BY <1>types, <2>1, <2>2, <2>3 DEF Typed, WorkerTyped, PageTyped, loop, service, client
<1>9. CASE ReceiveReady
  <2>1. /\ Receive("ready")
        /\ UNCHANGED <<loop, chain, fatal, cache, calls, shown, told, store, used>>
    BY <1>9 DEF ReceiveReady
  <2>2. outbox' \in Seq(Messages) /\ Head(outbox).state \in States \cup {Nothing}
    BY <2>1, Received, MessageFacts
  <2>3. saves' \in Seq(Saves) /\ page' \in {page, "failed"}
    BY <1>9, <1>types, <1>persist, <2>2 DEF ReceiveReady
  <2>4. QED
    BY <1>types, <2>1, <2>2, <2>3 DEF Typed, WorkerTyped, PageTyped, loop, service
<1>10. CASE WorkerError
  <2>1. calls' \in [Calls -> CallStates \cup {Nothing}]
    BY <1>10, <1>types DEF WorkerError
  <2>2. QED
    BY <1>10, <1>failed, <1>types, <2>1
       DEF WorkerError, Typed, WorkerTyped, PageTyped, loop, service, storage
<1>told. ASSUME NEW x \in States, Tell(x) PROVE shown' \in BOOLEAN /\ told' \in 0..MaxVersion
  BY <1>told, <1>types, StateFacts DEF Tell
<1>11. CASE Commit
  <2>1. /\ saves # << >> /\ store' = Head(saves).state
        /\ Proceeds(Head(saves).state, Head(saves).caller)
        /\ UNCHANGED <<loop, chain, outbox, fatal, used>>
    BY <1>11 DEF Commit
  <2>2. PICK x \in States : x = Head(saves).state
    BY <1>tail, <2>1, SaveFacts
  <2>3. PICK who \in Calls \cup {Nothing, "boot"} : who = Head(saves).caller
    BY <1>tail, <2>1, SaveFacts
  <2>4. Proceeds(x, who)
    BY <2>1, <2>2, <2>3
  <2>5. /\ page' \in {page, "open"} /\ cache' \in {cache, x}
        /\ shown' \in BOOLEAN /\ told' \in 0..MaxVersion
    BY <1>told, <1>types, <2>4 DEF Proceeds
  <2>6. saves' \in Seq(Saves)
    <3>1. CASE saves' = Tail(saves)
      BY <1>tail, <2>1, <3>1
    <3>2. CASE who \in Calls /\ saves' = Append(Tail(saves), [Save(Installed(x), who) EXCEPT !.again = TRUE])
      <4>1. [Save(Installed(x), who) EXCEPT !.again = TRUE] \in Saves
        BY <3>2, InstalledFacts, Saving
      <4>2. QED
        BY <1>tail, <2>1, <3>2, <4>1, Appends
    <3>3. QED
      BY <2>4, <3>1, <3>2 DEF Proceeds
  <2>7. calls' \in [Calls -> CallStates \cup {Nothing}]
    <3>1. CASE who \in Calls
      <4>1. calls[who] # Nothing
        BY <2>1, <2>3, <3>1, HeadWaits, StateFacts
      <4>2. QED
        BY <1>over, <1>phase, <1>types, <2>4, <3>1, <4>1, StateFacts DEF Proceeds
    <3>2. CASE who \notin Calls
      BY <1>types, <2>4, <3>2 DEF Proceeds
    <3>3. QED
      BY <3>1, <3>2
  <2>8. QED
    BY <1>types, <2>1, <2>2, <2>5, <2>6, <2>7 DEF Typed, WorkerTyped, PageTyped, loop, service
<1>12. CASE SaveFails
  <2>1. /\ saves # << >> /\ Failure /\ saves' = Tail(saves)
        /\ page' \in {page, "failed"}
        /\ UNCHANGED <<loop, chain, outbox, fatal, cache, shown, told, store>>
    BY <1>12 DEF SaveFails
  <2>2. calls' \in [Calls -> CallStates \cup {Nothing}]
    BY <1>12, <1>over, <1>types DEF SaveFails
  <2>3. QED
    BY <1>failed, <1>tail, <1>types, <2>1, <2>2 DEF Typed, WorkerTyped, PageTyped, loop, service
<1>13. CASE Close
  <2>1. /\ page' = "closed" /\ ready' = FALSE /\ running' = FALSE /\ timer' = FALSE
        /\ chain' = << >> /\ outbox' = << >> /\ calls' = [c \in Calls |-> Nothing] /\ saves' = << >>
        /\ store' \in {store} \cup {saves[i].state : i \in DOMAIN saves}
        /\ UNCHANGED <<service, fatal, cache, shown, told>>
    BY <1>13 DEF Close
  <2>2. used' \in [commands : Nat, failures : Nat, reloads : Nat]
    BY <1>13, Spending DEF Close
  <2>3. store' \in States \cup {Nothing}
    <3>1. \A i \in DOMAIN saves : saves[i] \in Saves
      BY <1>types
    <3>2. \A i \in DOMAIN saves : saves[i].state \in States
      BY <3>1, SaveFacts
    <3>3. QED
      BY <1>types, <2>1, <3>2
  <2>4. chain' \in Seq(Tasks) /\ outbox' \in Seq(Messages) /\ saves' \in Seq(Saves)
    BY <2>1
  <2>5. QED
    BY <1>types, <2>1, <2>2, <2>3, <2>4 DEF Typed, WorkerTyped, PageTyped, service
<1>14. CASE Reopen
  <2>1. /\ page' = "loading" /\ chain' = <<InitTask(store)>>
        /\ fatal' = FALSE /\ cache' = Nothing /\ shown' = FALSE
        /\ UNCHANGED <<loop, outbox, calls, told, storage, used>>
    BY <1>14 DEF Reopen, Loading
  <2>2. InitTask(store) \in Tasks
    BY <1>types DEF InitTask, Tasks
  <2>3. chain' \in Seq(Tasks)
    BY <2>1, <2>2
  <2>4. QED
    BY <1>types, <2>1, <2>3 DEF Typed, WorkerTyped, PageTyped, loop, service, storage
<1>15. CASE UNCHANGED vars
  BY <1>15, <1>types
     DEF vars, loop, service, client, storage, Typed, WorkerTyped, PageTyped
<1>16. QED
  BY <1>1, <1>2, <1>3, <1>4, <1>5, <1>6, <1>7, <1>8, <1>9, <1>10, <1>11, <1>12, <1>13, <1>14, <1>15,
     InitSteps, AskSteps DEF Next, Work


(***************************************************************************)
(* The phases of a page, and the run loop.                                 *)
(***************************************************************************)

LEMMA TypeFacts ==
  ASSUME Typed
  PROVE  /\ sim \in States /\ newest \in 0..MaxVersion
         /\ running \in BOOLEAN /\ timer \in BOOLEAN /\ ready \in BOOLEAN
         /\ chain \in Seq(Tasks) /\ outbox \in Seq(Messages) /\ saves \in Seq(Saves)
         /\ Range(chain) \subseteq Tasks /\ Range(outbox) \subseteq Messages
         /\ Range(saves) \subseteq Saves
         /\ store \in States \cup {Nothing} /\ cache \in States \cup {Nothing}
         /\ calls \in [Calls -> CallStates \cup {Nothing}]
         /\ fatal \in BOOLEAN /\ shown \in BOOLEAN
         /\ told \in 0..MaxVersion /\ told \in Nat
         /\ used.failures \in Nat
         /\ page \in {"loading", "open", "failed", "closed"}
<1>1. /\ chain \in Seq(Tasks) /\ outbox \in Seq(Messages) /\ saves \in Seq(Saves)
      /\ used \in [commands : Nat, failures : Nat, reloads : Nat]
  BY DEF Typed, WorkerTyped, PageTyped
<1>2. Range(chain) \subseteq Tasks /\ Range(outbox) \subseteq Messages /\ Range(saves) \subseteq Saves
  BY <1>1, Elements
<1>3. used.failures \in Nat
  BY <1>1
<1>4. QED
  BY <1>1, <1>2, <1>3, StateFacts DEF Typed, WorkerTyped, PageTyped

\* The counted failures only grow.
LEMMA Failing ==
  ASSUME Typed
  PROVE  /\ Failure => used'.failures > 0
         /\ \A max : Spend("commands", max) \/ Spend("reloads", max) => used'.failures = used.failures
<1>1. used.failures \in Nat
  BY TypeFacts
<1>2. Failure => used'.failures = used.failures + 1
  BY Spending DEF Failure
<1>3. \A max : Spend("commands", max) => used'.failures = used.failures
  BY <1>1, Spending
<1>4. \A max : Spend("reloads", max) => used'.failures = used.failures
  BY <1>1, Spending
<1>5. QED
  BY <1>1, <1>2, <1>3, <1>4

LEMMA PhaseInit == Init => Phased
<1> SUFFICES ASSUME Init PROVE Phased
  OBVIOUS
<1>1. Starting
  BY DEF Init, Starting
<1>2. QED
  BY <1>1 DEF Init, Phased

\* The messages of a page that loads: no answer before the worker is ready, and
\* nothing from the page before storage has its first state.
LEMMA LoadingFacts ==
  ASSUME Typed, Phased, page = "loading"
  PROVE  /\ chain # << >> => Starting \/ Head(chain).kind = "tick"
         /\ outbox # << >> => \/ Answering /\ Head(outbox).kind = "ready"
                              \/ FirstSave /\ Head(outbox).kind = "persist"
         /\ saves # << >> => FirstSave /\ Head(saves).caller = "boot"
         /\ timer => ~Starting
<1>1. Starting \/ Answering \/ FirstSave
  BY DEF Phased
<1>2. chain \in Seq(Tasks) /\ outbox \in Seq(Messages) /\ saves \in Seq(Saves)
  BY TypeFacts
<1>3. chain # << >> => Head(chain) \in Range(chain)
  BY <1>2, TailRange
<1>4. /\ outbox # << >> => Head(outbox) \in Range(outbox) /\ Head(outbox) = outbox[1]
      /\ saves # << >> => Head(saves) = saves[1]
  BY <1>2, TailRange, Tails
<1>5. QED
  BY <1>1, <1>3, <1>4 DEF Starting, Answering, FirstSave, OnlyTicks

LEMMA PhaseStep == Typed /\ Calling /\ Phased /\ [Next]_vars => Phased'
<1> SUFFICES ASSUME Typed, Calling, Phased, [Next]_vars PROVE Phased'
  OBVIOUS
<1>types. /\ sim \in States
          /\ running \in BOOLEAN /\ timer \in BOOLEAN /\ ready \in BOOLEAN
          /\ chain \in Seq(Tasks) /\ outbox \in Seq(Messages) /\ saves \in Seq(Saves)
          /\ calls \in [Calls -> CallStates \cup {Nothing}] /\ used.failures \in Nat
          /\ page \in {"loading", "open", "failed", "closed"}
  BY TypeFacts
<1>tails. /\ chain # << >> => Range(Tail(chain)) \subseteq Range(chain) /\ Head(chain) \in Range(chain)
          /\ outbox # << >> => Range(Tail(outbox)) \subseteq Range(outbox) /\ Head(outbox) \in Range(outbox)
          /\ saves # << >> => Range(Tail(saves)) \subseteq Range(saves) /\ Head(saves) \in Range(saves)
  BY <1>types, TailRange
\* A task that is not the first one of a life is worked off, and a tick's state
\* may be posted.
<1>work. ASSUME chain # << >>, Head(chain).kind # "init", chain' = Tail(chain),
                UNCHANGED <<client, storage, ready>>, sim.running => sim'.running,
                ~sim.running => sim' = sim \/ page # "loading",
                used' = used \/ Failure,
                \/ outbox' = outbox
                \/ \E m \in Messages : /\ outbox' = Append(outbox, m) /\ m.kind # "ready"
                                       /\ page = "loading" => m.kind = "persist" /\ sim.running
         PROVE  Phased'
  <2>1. Range(chain') \subseteq Range(chain)
    BY <1>tails, <1>work
  <2>2. page' = page /\ UNCHANGED <<fatal, cache, calls, saves, store>>
    BY <1>work DEF client, storage
  <2>3. page # "closed"
    BY <1>work DEF Phased
  <2>4. used.failures > 0 => used'.failures > 0
    BY <1>work, Failing
  <2>5. ASSUME page # "loading" PROVE Booted'
    <3>1. Booted
      BY <2>5 DEF Phased
    <3>2. \A m \in Range(outbox') : m.kind # "ready"
      <4>1. CASE outbox' = outbox
        BY <3>1, <4>1 DEF Booted
      <4>2. ASSUME NEW m \in Messages, outbox' = Append(outbox, m), m.kind # "ready"
            PROVE  \A x \in Range(outbox') : x.kind # "ready"
        BY <1>types, <3>1, <4>2, AppendRange DEF Booted
      <4>3. QED
        BY <1>work, <4>1, <4>2
    <3>3. QED
      BY <2>1, <2>2, <3>1, <3>2 DEF Booted
  <2>6. ASSUME page = "loading" PROVE cache' = Nothing /\ (Answering' \/ FirstSave')
    <3>1. cache' = Nothing /\ ~Starting
      <4>1. ~Starting
        <5>1. Starting => Head(chain) = InitTask(store)
          BY DEF Starting
        <5>2. InitTask(store).kind = "init"
          BY DEF InitTask
        <5>3. QED
          BY <1>work, <5>1, <5>2
      <4>2. QED
        BY <2>2, <2>6, <4>1 DEF Phased
    <3>2. sim'.running => sim.running \/ sim' = sim
      BY <1>work, <2>6
    <3>3. CASE Answering
      <4>1. OnlyTicks' /\ saves' = << >>
        BY <2>1, <2>2, <3>3 DEF Answering, OnlyTicks
      <4>2. /\ outbox' # << >> /\ outbox'[1] = outbox[1]
            /\ \A i \in DOMAIN outbox' : i # 1 => outbox'[i].kind = "persist"
        <5>1. CASE outbox' = outbox
          BY <3>3, <5>1 DEF Answering
        <5>2. ASSUME NEW m \in Messages, outbox' = Append(outbox, m), m.kind = "persist"
              PROVE  /\ outbox' # << >> /\ outbox'[1] = outbox[1]
                     /\ \A i \in DOMAIN outbox' : i # 1 => outbox'[i].kind = "persist"
          <6>1. 1 \in DOMAIN outbox
            BY <1>types, <3>3 DEF Answering
          <6>2. PICK q : q = Append(outbox, m)
            OBVIOUS
          <6>3. /\ q # << >> /\ q[Len(outbox) + 1] = m
                /\ \A i \in DOMAIN outbox : q[i] = outbox[i]
                /\ \A i \in DOMAIN q : i = Len(outbox) + 1 \/ i \in DOMAIN outbox
            BY <1>types, <6>2, Appends
          <6>4. QED
            BY <3>3, <5>2, <6>1, <6>2, <6>3 DEF Answering
        <5>3. QED
          BY <1>work, <2>6, <5>1, <5>2
      <4>3. ~sim'.running => sim' = sim /\ ~sim.running
        BY <1>work, <2>6
      <4>4. QED
        BY <2>4, <3>1, <3>3, <4>1, <4>2, <4>3 DEF Answering
    <3>4. CASE FirstSave
      <4>1. OnlyTicks' /\ saves' = saves
        BY <2>1, <2>2, <3>4 DEF FirstSave, OnlyTicks
      <4>2. \A m \in Range(outbox') : m.kind = "persist"
        <5>1. CASE outbox' = outbox
          BY <3>4, <5>1 DEF FirstSave
        <5>2. ASSUME NEW m \in Messages, outbox' = Append(outbox, m), m.kind = "persist"
              PROVE  \A x \in Range(outbox') : x.kind = "persist"
          BY <1>types, <3>4, <5>2, AppendRange DEF FirstSave
        <5>3. QED
          BY <1>work, <2>6, <5>1, <5>2
      <4>3. ~sim'.running => sim' = sim /\ ~sim.running
        BY <1>work, <2>6
      <4>4. QED
        BY <3>1, <3>4, <4>1, <4>2, <4>3 DEF FirstSave
    <3>5. QED
      BY <2>6, <3>1, <3>3, <3>4 DEF Phased
  <2>7. QED
    BY <2>2, <2>3, <2>4, <2>5, <2>6 DEF Phased
<1>1. CASE TimerFires
  <2>1. timer /\ chain' = Append(chain, Tick) /\ Tick \in Tasks /\ Tick.kind = "tick"
        /\ UNCHANGED <<service, ready, running, outbox, client, storage, used>>
    BY <1>1 DEF TimerFires, Tasks, Tick
  <2>2. Range(chain') = Range(chain) \cup {Tick}
    BY <1>types, <2>1, AppendRange
  <2>3. page # "closed" /\ ~Starting
    BY <2>1 DEF Phased, Starting
  <2>4. UNCHANGED <<sim, page, fatal, cache, calls, saves, store, outbox, used>>
    BY <2>1 DEF service, client, storage
  <2>5. page # "loading" => Booted'
    BY <2>1, <2>2, <2>4 DEF Phased, Booted
  <2>6. page = "loading" => Answering' \/ FirstSave'
    <3>1. OnlyTicks => OnlyTicks'
      BY <2>1, <2>2 DEF OnlyTicks
    <3>2. QED
      BY <2>3, <2>4, <3>1 DEF Phased, Answering, FirstSave
  <2>7. QED
    BY <2>3, <2>4, <2>5, <2>6 DEF Phased
\* The first task of a life.
<1>first. ASSUME chain # << >>, Head(chain).kind = "init"
          PROVE  page = "loading" /\ Starting /\ Tail(chain) = << >>
  <2>1. page = "loading"
    BY <1>first, <1>tails DEF Phased, Booted
  <2>2. Starting
    BY <1>first, <2>1, LoadingFacts
  <2>3. QED
    BY <2>1, <2>2 DEF Starting
<1>2. ASSUME NEW x \in States, Started(x) PROVE Phased'
  <2>1. page = "loading" /\ Starting /\ chain' = << >> /\ cache = Nothing
    BY <1>2, <1>first DEF Started, Phased
  <2>2. outbox' = <<[kind |-> "ready", state |-> x]>> /\ saves' = << >> /\ sim' = x
    BY <1>2, <2>1 DEF Started, Starting, storage
  <2>3. UNCHANGED <<page, fatal, cache, calls, used>>
    BY <1>2 DEF Started, client
  <2>4. Answering'
    <3>1. Range(chain') = {}
      BY <2>1 DEF Range
    <3>2. OnlyTicks'
      BY <3>1 DEF OnlyTicks
    <3>3. QED
      BY <2>2, <3>2, StateFacts DEF Answering
  <2>5. QED
    BY <2>1, <2>3, <2>4 DEF Phased
<1>3. CASE NotStarted
  <2>1. page = "loading" /\ Starting /\ chain' = << >> /\ cache = Nothing
    BY <1>3, <1>first DEF NotStarted, Phased
  <2>2. outbox' = <<[kind |-> "ready", state |-> Nothing]>> /\ saves' = << >>
    BY <1>3, <2>1 DEF NotStarted, Starting, storage
  <2>3. UNCHANGED <<page, fatal, cache, calls>> /\ used'.failures > 0
    BY <1>3, Failing DEF NotStarted, client
  <2>4. Answering'
    <3>1. Range(chain') = {}
      BY <2>1 DEF Range
    <3>2. OnlyTicks'
      BY <3>1 DEF OnlyTicks
    <3>3. QED
      BY <2>2, <2>3, <3>2 DEF Answering
  <2>5. QED
    BY <2>1, <2>3, <2>4 DEF Phased
<1>4. ASSUME NEW answer \in Messages, Served(answer), sim' \in States PROVE Phased'
  <2>1. Head(chain).kind # "init" /\ Head(chain).kind # "tick" /\ chain # << >>
    BY <1>4 DEF Served, RequestKinds
  <2>2. page # "loading"
    <3>1. InitTask(store).kind = "init"
      BY DEF InitTask
    <3>2. QED
      BY <2>1, <3>1, LoadingFacts DEF Starting
  <2>3. answer.kind # "ready"
    BY <1>4 DEF Served, AnswerKinds
  <2>4. Booted'
    <3>1. Booted
      BY <2>2 DEF Phased
    <3>2. outbox' = Append(outbox, answer) /\ chain' = Tail(chain) /\ saves' = saves
      BY <1>4 DEF Served, storage
    <3>3. Range(outbox') = Range(outbox) \cup {answer}
      BY <1>types, <3>2, AppendRange
    <3>4. Range(chain') \subseteq Range(chain)
      BY <1>tails, <2>1, <3>2
    <3>5. QED
      BY <2>3, <3>1, <3>2, <3>3, <3>4 DEF Booted
  <2>5. UNCHANGED <<page, fatal, cache, calls, used>> /\ page # "closed"
    BY <1>4, <2>1 DEF Served, client, Phased
  <2>6. QED
    BY <2>2, <2>4, <2>5 DEF Phased
<1>5. ASSUME NEW message \in Messages, Advanced(message) PROVE Phased'
  BY <1>5, <1>work DEF Advanced
<1>6. ASSUME Idled \/ Broken PROVE Phased'
  BY <1>6, <1>work DEF Idled, Broken, service
<1>7. ASSUME NEW c \in Calls, NEW request \in Tasks, Asked(c, request) PROVE Phased'
  <2>1. Range(chain') = Range(chain) \cup {request} /\ request.kind # "init" /\ page = "open"
    BY <1>7, <1>types, AppendRange DEF Asked, RequestKinds
  <2>2. UNCHANGED <<page, fatal, cache, outbox, saves>>
    BY <1>7 DEF Asked, storage
  <2>3. Booted'
    BY <2>1, <2>2 DEF Phased, Booted
  <2>4. used'.failures = used.failures
    BY <1>7, Failing DEF Asked
  <2>5. QED
    BY <2>1, <2>2, <2>3, <2>4 DEF Phased
\* A message reaches a page that is not closed.
<1>open. outbox # << >> \/ saves # << >> => page # "closed"
  BY DEF Phased
<1>8. CASE ReceiveAnswer
  <2>1. PICK answer \in Messages, c \in Calls :
            /\ answer = Head(outbox) /\ outbox # << >> /\ outbox' = Tail(outbox)
            /\ outbox' \in Seq(Messages)
            /\ answer.kind \in AnswerKinds /\ answer.caller = c
            /\ \/ calls[c] = Nothing /\ UNCHANGED <<chain, cache, calls, shown, told, saves>>
               \/ /\ calls[c] # Nothing /\ answer.kind \in StateKinds /\ answer.state \in States
                  /\ Accept(c, Installed(answer.state))
               \/ calls[c] # Nothing /\ ~fatal /\ Refresh(c)
               \/ calls[c] # Nothing /\ (answer.kind \in {"plain", "error"} \/ fatal) /\ Over(c)
    BY <1>8, Answered
  <2>2. UNCHANGED <<loop, page, fatal, store, used>>
    BY <1>8 DEF ReceiveAnswer
  <2>3. page # "loading" /\ page # "closed"
    <3>1. answer.kind # "ready" /\ answer.kind # "persist"
      BY <2>1 DEF AnswerKinds
    <3>2. QED
      BY <1>open, <2>1, <3>1, LoadingFacts
  <2>4. Booted /\ Range(outbox') \subseteq Range(outbox)
    BY <1>tails, <2>1, <2>3 DEF Phased
  <2>5. \/ UNCHANGED <<chain, saves>>
        \/ Range(saves') \subseteq Range(saves) \cup {Save(Installed(answer.state), c)} /\ chain' = chain
        \/ Range(chain') = Range(chain) \cup {Request(c, "full")} /\ saves' = saves
    <3>1. CASE calls[c] # Nothing /\ answer.state \in States /\ Accept(c, Installed(answer.state))
      <4>1. Save(Installed(answer.state), c) \in Saves
        BY <3>1, InstalledFacts, Saving
      <4>2. saves' = Append(saves, Save(Installed(answer.state), c)) /\ chain' = chain
        BY <3>1 DEF Accept, Persist
      <4>3. QED
        BY <1>types, <4>1, <4>2, AppendRange
    <3>2. CASE Refresh(c)
      <4>1. Request(c, "full") \in Tasks
        BY Requests DEF RequestKinds
      <4>2. chain' = Append(chain, Request(c, "full")) /\ saves' = saves
        BY <3>2 DEF Refresh
      <4>3. QED
        BY <1>types, <4>1, <4>2, AppendRange
    <3>3. QED
      BY <2>1, <3>1, <3>2 DEF Over
  <2>6. Save(Installed(answer.state), c).caller # "boot" /\ Request(c, "full").kind # "init"
    BY StateFacts DEF Save, Request
  <2>7. Booted'
    BY <2>4, <2>5, <2>6 DEF Booted
  <2>8. cache' # Nothing \/ cache' = cache
    <3>1. CASE answer.state \in States /\ Accept(c, Installed(answer.state))
      <4>1. Installed(answer.state) \in States
        BY <3>1, InstalledFacts
      <4>2. QED
        BY <3>1, <4>1, StateFacts DEF Accept
    <3>2. QED
      BY <2>1, <3>1 DEF Refresh, Over
  <2>9. \A d \in Calls : calls'[d] # Nothing => calls[d] # Nothing
    <3>1. calls[c] = Nothing => calls' = calls
      BY <2>1
    <3>2. \A d \in Calls : d # c => calls'[d] = calls[d]
      BY <1>types, <2>1 DEF Accept, Refresh, Over
    <3>3. QED
      BY <3>1, <3>2
  <2>10. QED
    BY <2>2, <2>3, <2>7, <2>8, <2>9 DEF Phased
<1>9. CASE ReceivePersist
  <2>1. /\ Receive("persist") /\ Persist(Head(outbox).state, Nothing)
        /\ UNCHANGED <<loop, chain, client, store, used>>
    BY <1>9 DEF ReceivePersist
  <2>2. PICK x \in States : x = Head(outbox).state
    BY <2>1, Received, MessageFacts
  <2>3. /\ Head(outbox).kind = "persist" /\ outbox # << >> /\ Range(outbox') \subseteq Range(outbox)
    BY <1>tails, <2>1, Received
  <2>4. PICK save \in Saves : save = Save(x, Nothing) /\ save.caller = Nothing
    <3>1. Nothing \in Calls \cup {Nothing, "boot"}
      OBVIOUS
    <3>2. Save(x, Nothing) \in Saves /\ Save(x, Nothing).caller = Nothing
      BY <3>1, Saving
    <3>3. QED
      BY <3>2
  <2>5. saves' = Append(saves, save) /\ Range(saves') = Range(saves) \cup {save}
    BY <1>types, <2>1, <2>2, <2>4, AppendRange DEF Persist
  <2>6. UNCHANGED <<sim, page, fatal, cache, calls, chain, used>> /\ page # "closed"
    BY <1>open, <2>1, <2>3 DEF loop, service, client
  <2>7. page # "loading" => Booted'
    BY <2>3, <2>4, <2>5, <2>6, StateFacts DEF Phased, Booted
  <2>8. page = "loading" => FirstSave'
    <3> SUFFICES ASSUME page = "loading" PROVE FirstSave'
      OBVIOUS
    <3>1. FirstSave
      BY <2>3, LoadingFacts
    <3>2. PICK q : q = Append(saves, save)
      OBVIOUS
    <3>3. /\ q # << >> /\ q[Len(saves) + 1] = save
          /\ \A i \in DOMAIN saves : q[i] = saves[i]
          /\ \A i \in DOMAIN q : i = Len(saves) + 1 \/ i \in DOMAIN saves
      BY <1>types, <3>2, Appends
    <3>4. 1 \in DOMAIN saves
      BY <1>types, <3>1 DEF FirstSave
    <3>5. saves' # << >> /\ saves'[1] = saves[1]
      BY <2>5, <3>2, <3>3, <3>4
    <3>6. \A i \in DOMAIN saves' : i # 1 => saves'[i].caller = Nothing
      BY <2>4, <2>5, <3>1, <3>2, <3>3 DEF FirstSave
    <3>7. QED
      BY <2>3, <2>6, <3>1, <3>5, <3>6 DEF FirstSave, OnlyTicks
  <2>9. QED
    BY <2>6, <2>7, <2>8 DEF Phased
<1>10. CASE ReceiveReady
  <2>1. /\ Receive("ready")
        /\ UNCHANGED <<loop, chain, fatal, cache, calls, shown, told, store, used>>
    BY <1>10 DEF ReceiveReady
  <2>2. Head(outbox).kind = "ready" /\ outbox # << >> /\ outbox' = Tail(outbox)
    BY <2>1, Received
  <2>3. page = "loading" /\ Answering /\ cache = Nothing
    <3>1. page = "loading"
      BY <1>tails, <2>2 DEF Phased, Booted
    <3>2. QED
      BY <2>2, <3>1, LoadingFacts DEF Phased
  <2>4. Head(outbox) = outbox[1] /\ \A m \in Range(outbox') : m.kind = "persist"
    <3>1. /\ Head(outbox) = outbox[1]
          /\ \A i \in DOMAIN Tail(outbox) : i + 1 \in DOMAIN outbox /\ i + 1 # 1
                                            /\ Tail(outbox)[i] = outbox[i + 1]
      BY <1>types, <2>2, Tails
    <3>2. QED
      BY <2>2, <2>3, <3>1 DEF Answering, Range
  <2>5. UNCHANGED <<sim, fatal, cache, calls, chain, used>>
    BY <2>1 DEF loop, service
  <2>6. CASE Head(outbox).state = Nothing
    <3>1. page' = "failed" /\ saves' = saves /\ used.failures > 0
      BY <1>10, <2>3, <2>4, <2>6 DEF ReceiveReady, Answering
    <3>2. Booted'
      <4>1. Range(saves') = {}
        BY <1>types, <2>3, <3>1, Elements DEF Answering
      <4>2. QED
        BY <2>3, <2>4, <2>5, <4>1 DEF Answering, OnlyTicks, Booted
    <3>3. QED
      BY <2>3, <2>5, <3>1, <3>2 DEF Phased
  <2>7. CASE Head(outbox).state # Nothing
    <3>1. page' = page /\ Persist(Head(outbox).state, "boot")
      BY <1>10, <2>7 DEF ReceiveReady
    <3>2. saves' = <<Save(Head(outbox).state, "boot")>>
      BY <2>3, <3>1 DEF Persist, Answering
    <3>3. saves' # << >> /\ saves'[1].caller = "boot" /\ saves'[1].state = Head(outbox).state
          /\ \A i \in DOMAIN saves' : i = 1
      BY <3>2 DEF Save
    <3>4. FirstSave'
      BY <2>3, <2>4, <2>5, <2>7, <3>3 DEF FirstSave, Answering, OnlyTicks
    <3>5. QED
      BY <2>3, <2>5, <3>1, <3>4 DEF Phased
  <2>8. QED
    BY <2>6, <2>7
<1>11. CASE WorkerError
  <2>1. /\ page = "open" /\ used'.failures > 0
        /\ UNCHANGED <<loop, chain, outbox, page, cache, storage>>
    BY <1>11, Failing DEF WorkerError
  <2>2. Booted'
    BY <2>1 DEF Phased, Booted, storage
  <2>3. QED
    BY <2>1, <2>2 DEF Phased
<1>12. CASE Commit
  <2>1. /\ saves # << >>
        /\ Proceeds(Head(saves).state, Head(saves).caller)
        /\ UNCHANGED <<loop, chain, outbox, fatal, used>>
    BY <1>12 DEF Commit
  <2>2. PICK x \in States : x = Head(saves).state
    BY <1>types, <2>1, Tails, SaveFacts
  <2>3. PICK who \in Calls \cup {Nothing, "boot"} : who = Head(saves).caller
    BY <1>types, <2>1, Tails, SaveFacts
  <2>4. Proceeds(x, who)
    BY <2>1, <2>2, <2>3
  <2>5. CASE page = "loading"
    <3>1. FirstSave /\ who = "boot"
      BY <2>1, <2>3, <2>5, LoadingFacts
    <3>2. saves' = Tail(saves) /\ page' = "open" /\ cache' = x /\ calls' = calls
      BY <2>4, <3>1, StateFacts DEF Proceeds
    <3>3. \A save \in Range(saves') : save.caller = Nothing
      <4>1. \A i \in DOMAIN Tail(saves) : i + 1 \in DOMAIN saves /\ i + 1 # 1
                                          /\ Tail(saves)[i] = saves[i + 1]
        BY <1>types, <2>1, Tails
      <4>2. QED
        BY <3>1, <3>2, <4>1 DEF FirstSave, Range
    <3>4. Booted'
      BY <2>1, <3>1, <3>3, StateFacts DEF FirstSave, OnlyTicks, Booted
    <3>5. x # Nothing
      BY StateFacts
    <3>6. fatal => used.failures > 0
      BY DEF Phased
    <3>7. QED
      BY <2>1, <3>2, <3>4, <3>5, <3>6 DEF Phased
  <2>6. CASE page # "loading"
    <3>1. Booted /\ who # "boot"
      BY <1>tails, <2>1, <2>3, <2>6 DEF Phased, Booted
    <3>2. page' = page /\ cache' = cache
      BY <2>4, <3>1 DEF Proceeds
    <3>3. \A save \in Range(saves') : save.caller # "boot"
      <4>1. CASE saves' = Tail(saves)
        BY <1>tails, <2>1, <3>1, <4>1 DEF Booted
      <4>2. CASE who \in Calls /\ saves' = Append(Tail(saves), [Save(Installed(x), who) EXCEPT !.again = TRUE])
        <5>1. PICK save \in Saves : /\ save = [Save(Installed(x), who) EXCEPT !.again = TRUE]
                                    /\ save.caller = who
          <6>1. PICK y \in States : y = Installed(x)
            BY InstalledFacts
          <6>2. /\ [Save(y, who) EXCEPT !.again = TRUE] \in Saves
                /\ [Save(y, who) EXCEPT !.again = TRUE].caller = who
            BY <2>3, <6>1 DEF Save, Saves
          <6>3. QED
            BY <6>1, <6>2
        <5>2. PICK q \in Seq(Saves) : q = Tail(saves)
          BY <1>types, <2>1, Tails
        <5>3. Range(Append(q, save)) = Range(q) \cup {save}
          BY AppendRange
        <5>4. Range(saves') = Range(Tail(saves)) \cup {save}
          BY <4>2, <5>1, <5>2, <5>3
        <5>5. QED
          BY <1>tails, <2>1, <3>1, <5>1, <5>4 DEF Booted
      <4>3. QED
        BY <2>4, <4>1, <4>2 DEF Proceeds
    <3>4. Booted'
      BY <2>1, <3>1, <3>3 DEF Booted
    <3>5. \A d \in Calls : calls'[d] # Nothing => calls[d] # Nothing
      <4>1. who \in Calls => calls[who] # Nothing
        BY <2>1, <2>3, HeadWaits, StateFacts
      <4>2. \A d \in Calls : d # who => calls'[d] = calls[d]
        BY <1>types, <2>4 DEF Proceeds
      <4>3. QED
        BY <4>1, <4>2
    <3>6. QED
      BY <1>open, <2>1, <2>6, <3>2, <3>4, <3>5 DEF Phased
  <2>7. QED
    BY <2>5, <2>6
<1>13. CASE SaveFails
  <2>1. /\ saves # << >> /\ Failure /\ saves' = Tail(saves)
        /\ page' = IF Head(saves).caller = "boot" THEN "failed" ELSE page
        /\ UNCHANGED <<loop, chain, outbox, fatal, cache>>
    BY <1>13 DEF SaveFails
  <2>2. used'.failures > 0
    BY <2>1, Failing
  <2>3. Booted' /\ page' # "loading"
    <3>1. CASE page = "loading"
      <4>1. FirstSave /\ Head(saves).caller = "boot"
        BY <2>1, <3>1, LoadingFacts
      <4>2. \A save \in Range(saves') : save.caller = Nothing
        <5>1. \A i \in DOMAIN Tail(saves) : i + 1 \in DOMAIN saves /\ i + 1 # 1
                                            /\ Tail(saves)[i] = saves[i + 1]
          BY <1>types, <2>1, Tails
        <5>2. QED
          BY <2>1, <4>1, <5>1 DEF FirstSave, Range
      <4>3. QED
        BY <2>1, <4>1, <4>2, StateFacts DEF FirstSave, OnlyTicks, Booted
    <3>2. CASE page # "loading"
      BY <1>tails, <2>1, <3>2 DEF Phased, Booted
    <3>3. QED
      BY <3>1, <3>2
  <2>4. ASSUME NEW d \in Calls, calls'[d] # Nothing PROVE page' = "open"
    <3>1. calls[d] # Nothing
      BY <1>13, <1>types, <2>4 DEF SaveFails
    <3>2. page = "open"
      BY <3>1 DEF Phased
    <3>3. Head(saves).caller # "boot"
      BY <1>tails, <2>1, <3>2 DEF Phased, Booted
    <3>4. QED
      BY <2>1, <3>2, <3>3
  <2>5. page' = "open" => page = "open"
    BY <2>1
  <2>6. page' # "closed"
    BY <1>open, <2>1
  <2>7. QED
    BY <2>1, <2>2, <2>3, <2>4, <2>5, <2>6 DEF Phased
<1>14. CASE Close
  <2>1. /\ page' = "closed" /\ ready' = FALSE /\ running' = FALSE /\ timer' = FALSE
        /\ chain' = << >> /\ outbox' = << >> /\ calls' = [c \in Calls |-> Nothing] /\ saves' = << >>
        /\ fatal' = fatal
    BY <1>14 DEF Close
  <2>2. used'.failures = used.failures
    BY <1>14, Failing DEF Close
  <2>3. Booted'
    <3>1. Range(chain') = {} /\ Range(outbox') = {} /\ Range(saves') = {}
      BY <2>1 DEF Range
    <3>2. QED
      BY <3>1 DEF Booted
  <2>4. QED
    BY <2>1, <2>2, <2>3 DEF Phased
<1>15. CASE Reopen
  <2>1. /\ page = "closed" /\ page' = "loading" /\ chain' = <<InitTask(store)>>
        /\ fatal' = FALSE /\ cache' = Nothing
        /\ UNCHANGED <<ready, running, timer, outbox, calls, saves, store, used>>
    BY <1>15 DEF Reopen, Loading, loop, storage
  <2>2. Starting'
    BY <2>1 DEF Phased, Starting, InitTask
  <2>3. QED
    BY <2>1, <2>2 DEF Phased
<1>16. CASE UNCHANGED vars
  BY <1>16 DEF vars, loop, service, client, storage, Phased, Booted, Starting, Answering, FirstSave, OnlyTicks
<1>17. QED
  BY <1>1, <1>2, <1>3, <1>4, <1>5, <1>6, <1>7, <1>8, <1>9, <1>10, <1>11, <1>12, <1>13, <1>14, <1>15, <1>16,
     InitSteps, ServeSteps, TickSteps, AskSteps DEF Next, Work

\* The run loop does not stop by itself.
LEMMA TickingInit == Init => RunningIsTicking
BY DEF Init, RunningIsTicking

LEMMA TickingStep == Typed /\ Calling /\ Phased /\ RunningIsTicking /\ [Next]_vars => RunningIsTicking'
<1> SUFFICES ASSUME Typed, Calling, Phased, RunningIsTicking, [Next]_vars PROVE RunningIsTicking'
  OBVIOUS
<1>types. /\ running \in BOOLEAN /\ timer \in BOOLEAN /\ chain \in Seq(Tasks)
  BY TypeFacts
<1>range. ASSUME NEW q PROVE (\E i \in DOMAIN q : q[i] = Tick) <=> Tick \in Range(q)
  BY DEF Range
<1>hyp. running => timer \/ Tick \in Range(chain)
  BY <1>range DEF RunningIsTicking
<1>goal. SUFFICES running' => timer' \/ Tick \in Range(chain')
  <2>1. PICK q : q = chain'
    OBVIOUS
  <2>2. Tick \in Range(q) => \E i \in DOMAIN q : q[i] = Tick
    BY <1>range
  <2>3. QED
    BY <2>1, <2>2 DEF RunningIsTicking
\* Another task than a tick is worked off: ticks that wait go on waiting.
<1>other. ASSUME chain # << >>, Head(chain).kind # "tick" PROVE Tick \in Range(chain) => Tick \in Range(Tail(chain))
  <2>1. Head(chain) # Tick
    BY <1>other DEF Tick
  <2>2. QED
    BY <1>other, <1>types, <2>1, TailRange
\* A task joins.
<1>more. ASSUME NEW task \in Tasks, chain' = Append(chain, task)
         PROVE  (Tick \in Range(chain) \/ task = Tick) => Tick \in Range(chain')
  BY <1>more, <1>types, AppendRange
<1>1. CASE TimerFires
  <2>1. Tick \in Tasks /\ chain' = Append(chain, Tick)
    BY <1>1 DEF TimerFires, Tasks
  <2>2. QED
    BY <1>more, <2>1
<1>2. ASSUME NEW x \in States, Started(x) PROVE running' => timer' \/ Tick \in Range(chain')
  BY <1>2 DEF Started
<1>3. CASE NotStarted
  <2>1. UNCHANGED <<running, timer>> /\ chain # << >> /\ Head(chain).kind # "tick" /\ chain' = Tail(chain)
    BY <1>3 DEF NotStarted, loop
  <2>2. QED
    BY <1>hyp, <1>other, <2>1
<1>4. ASSUME NEW answer \in Messages, Served(answer) PROVE running' => timer' \/ Tick \in Range(chain')
  <2>1. chain # << >> /\ Head(chain).kind \in RequestKinds /\ chain' = Tail(chain)
    BY <1>4 DEF Served
  <2>2. (running' => timer') \/ UNCHANGED <<running, timer>>
    BY <1>4, Zenon DEF Served
  <2>3. Head(chain).kind # "tick"
    BY <2>1 DEF RequestKinds
  <2>4. Tick \in Range(chain) => Tick \in Range(chain')
    BY <1>other, <2>1, <2>3
  <2>5. QED
    BY <1>hyp, <2>2, <2>4, Zenon
<1>5. ASSUME (\E message \in Messages : Advanced(message)) \/ Idled \/ Broken
      PROVE  running' => timer' \/ Tick \in Range(chain')
  <2>1. ASSUME NEW message, Advanced(message) PROVE running' => timer'
    <3>1. running' = running /\ timer' = running
      BY <2>1 DEF Advanced
    <3>2. QED
      BY <3>1, Zenon
  <2>2. ASSUME Idled PROVE running' => timer'
    <3>1. running' = running /\ timer' = running
      BY <2>2 DEF Idled
    <3>2. QED
      BY <3>1, Zenon
  <2>3. ASSUME Broken PROVE ~running'
    BY <2>3, Zenon DEF Broken
  <2>4. QED
    BY <1>5, <2>1, <2>2, <2>3, Zenon
<1>6. ASSUME NEW c \in Calls, NEW request \in Tasks, Asked(c, request)
      PROVE  running' => timer' \/ Tick \in Range(chain')
  BY <1>6, <1>hyp, <1>more DEF Asked, loop
<1>7. CASE ReceiveAnswer
  <2>1. UNCHANGED <<running, timer>>
    BY <1>7 DEF ReceiveAnswer, loop
  <2>2. Tick \in Range(chain) => Tick \in Range(chain')
    <3>1. chain' = chain \/ \E c \in Calls : Refresh(c)
      BY <1>7, Answered DEF Accept, Over
    <3>2. ASSUME NEW c \in Calls, Refresh(c) PROVE Tick \in Range(chain) => Tick \in Range(chain')
      <4>1. Request(c, "full") \in Tasks
        BY Requests DEF RequestKinds
      <4>2. QED
        BY <1>more, <3>2, <4>1 DEF Refresh
    <3>3. QED
      BY <3>1, <3>2
  <2>3. QED
    BY <1>hyp, <2>1, <2>2
<1>8. CASE ReceivePersist \/ ReceiveReady \/ WorkerError \/ Commit \/ SaveFails
  <2>1. UNCHANGED <<running, timer, chain>>
    BY <1>8 DEF ReceivePersist, ReceiveReady, WorkerError, Commit, SaveFails, loop
  <2>2. QED
    BY <1>hyp, <2>1
<1>9. CASE Close
  BY <1>9 DEF Close
<1>10. CASE Reopen
  BY <1>10 DEF Reopen, loop, Phased
<1>11. CASE UNCHANGED vars
  BY <1>11, <1>hyp DEF vars, loop
<1>12. QED
  BY <1>1, <1>2, <1>3, <1>4, <1>5, <1>6, <1>7, <1>8, <1>9, <1>10, <1>11,
     InitSteps, ServeSteps, TickSteps, AskSteps DEF Next, Work


(***************************************************************************)
(* Calls: what a queue holds of a call when something leaves or joins it.  *)
(***************************************************************************)

LEMMA Leaves ==
  ASSUME NEW S, NEW q \in Seq(S), q # << >>, NEW kinds, OneEach(q, kinds)
  PROVE  /\ OneEach(Tail(q), kinds)
         /\ Head(q).kind \in kinds => ~UnderWay(Tail(q), kinds, Head(q).caller)
         /\ \A c : UnderWay(q, kinds, c) <=>
                      UnderWay(Tail(q), kinds, c) \/ (Head(q).kind \in kinds /\ Head(q).caller = c)
<1>1. /\ Head(q) = q[1] /\ 1 \in DOMAIN q
      /\ \A i \in DOMAIN Tail(q) : i \in Nat /\ i + 1 \in DOMAIN q /\ i + 1 # 1 /\ Tail(q)[i] = q[i + 1]
  BY Tails
<1>2. OneEach(Tail(q), kinds)
  <2> SUFFICES ASSUME NEW i \in DOMAIN Tail(q), NEW j \in DOMAIN Tail(q),
                      Tail(q)[i].kind \in kinds, Tail(q)[j].kind \in kinds,
                      Tail(q)[i].caller = Tail(q)[j].caller
               PROVE  i = j
    BY DEF OneEach
  <2>1. i + 1 = j + 1
    BY <1>1 DEF OneEach
  <2>2. QED
    BY <1>1, <2>1
<1>3. ASSUME Head(q).kind \in kinds PROVE ~UnderWay(Tail(q), kinds, Head(q).caller)
  <2> SUFFICES ASSUME NEW i \in DOMAIN Tail(q), Tail(q)[i].kind \in kinds,
                      Tail(q)[i].caller = Head(q).caller
               PROVE  FALSE
    BY DEF UnderWay, Range
  <2>1. QED
    BY <1>1, <1>3 DEF OneEach
<1>4. Range(q) = {Head(q)} \cup Range(Tail(q))
  BY TailRange
<1>5. QED
  BY <1>2, <1>3, <1>4 DEF UnderWay

LEMMA Joins ==
  ASSUME NEW S, NEW q \in Seq(S), NEW e \in S, NEW kinds, OneEach(q, kinds),
         e.kind \in kinds => ~UnderWay(q, kinds, e.caller)
  PROVE  /\ OneEach(Append(q, e), kinds)
         /\ \A c : UnderWay(Append(q, e), kinds, c) <=>
                      UnderWay(q, kinds, c) \/ (e.kind \in kinds /\ e.caller = c)
<1>1. PICK r : r = Append(q, e)
  OBVIOUS
<1>2. /\ r[Len(q) + 1] = e
      /\ \A i \in DOMAIN q : r[i] = q[i]
      /\ \A i \in DOMAIN r : i = Len(q) + 1 \/ i \in DOMAIN q
      /\ Range(r) = Range(q) \cup {e}
  BY <1>1, Appends, AppendRange
<1>3. \A i \in DOMAIN q : q[i] \in Range(q)
  BY DEF Range
<1>4. OneEach(r, kinds)
  BY <1>2, <1>3 DEF OneEach, UnderWay
<1>5. QED
  BY <1>1, <1>2, <1>4 DEF UnderWay

LEMMA SaveLeaves ==
  ASSUME NEW q \in Seq(Saves), q # << >>, OneSave(q)
  PROVE  /\ OneSave(Tail(q))
         /\ Head(q).caller \in Calls => ~Saved(Tail(q), Head(q).caller)
         /\ \A c : Saved(q, c) <=> Saved(Tail(q), c) \/ Head(q).caller = c
<1>1. /\ Head(q) = q[1] /\ 1 \in DOMAIN q
      /\ \A i \in DOMAIN Tail(q) : i \in Nat /\ i + 1 \in DOMAIN q /\ i + 1 # 1 /\ Tail(q)[i] = q[i + 1]
  BY Tails
<1>2. OneSave(Tail(q))
  <2> SUFFICES ASSUME NEW i \in DOMAIN Tail(q), NEW j \in DOMAIN Tail(q),
                      Tail(q)[i].caller \in Calls, Tail(q)[i].caller = Tail(q)[j].caller
               PROVE  i = j
    BY DEF OneSave
  <2>1. i + 1 = j + 1
    BY <1>1 DEF OneSave
  <2>2. QED
    BY <1>1, <2>1
<1>3. ASSUME Head(q).caller \in Calls PROVE ~Saved(Tail(q), Head(q).caller)
  <2> SUFFICES ASSUME NEW i \in DOMAIN Tail(q), Tail(q)[i].caller = Head(q).caller PROVE FALSE
    BY DEF Saved, Range
  <2>1. QED
    BY <1>1, <1>3 DEF OneSave
<1>4. Range(q) = {Head(q)} \cup Range(Tail(q))
  BY TailRange
<1>5. QED
  BY <1>2, <1>3, <1>4 DEF Saved

LEMMA SaveJoins ==
  ASSUME NEW q \in Seq(Saves), NEW e \in Saves, OneSave(q), e.caller \in Calls => ~Saved(q, e.caller)
  PROVE  /\ OneSave(Append(q, e))
         /\ \A c : Saved(Append(q, e), c) <=> Saved(q, c) \/ e.caller = c
<1>1. PICK r : r = Append(q, e)
  OBVIOUS
<1>2. /\ r[Len(q) + 1] = e
      /\ \A i \in DOMAIN q : r[i] = q[i]
      /\ \A i \in DOMAIN r : i = Len(q) + 1 \/ i \in DOMAIN q
      /\ Range(r) = Range(q) \cup {e}
  BY <1>1, Appends, AppendRange
<1>3. \A i \in DOMAIN q : q[i] \in Range(q)
  BY DEF Range
<1>4. OneSave(r)
  BY <1>2, <1>3 DEF OneSave, Saved
<1>5. QED
  BY <1>1, <1>2, <1>4 DEF Saved

LEMMA CallInit == Init => Calling
<1> SUFFICES ASSUME Init PROVE Calling
  OBVIOUS
<1>1. outbox = << >> /\ saves = << >> /\ chain = <<InitTask(Nothing)>> /\ InitTask(Nothing).kind = "init"
  BY DEF Init, InitTask
<1>2. Range(outbox) = {} /\ Range(saves) = {} /\ DOMAIN outbox = {} /\ DOMAIN saves = {}
  BY <1>1 DEF Range
<1>3. \A i \in DOMAIN chain : chain[i].kind = "init"
  BY <1>1
<1>4. \A c : ~Asks(c) /\ ~IsAnswered(c) /\ ~Waits(c)
  BY <1>2, <1>3 DEF Asks, IsAnswered, Waits, UnderWay, Saved, Range, RequestKinds
<1>5. OneEach(chain, RequestKinds) /\ OneEach(outbox, AnswerKinds) /\ OneSave(saves)
  BY <1>2, <1>3 DEF OneEach, OneSave, RequestKinds
<1>6. \A c \in Calls : calls[c] = Nothing
  BY DEF Init
<1>7. QED
  BY <1>4, <1>5, <1>6 DEF Calling, InOnePlace

\* A transaction that is asked for, as one of the set.
LEMMA Transactions ==
  ASSUME NEW x \in States, NEW who \in Calls \cup {Nothing, "boot"}
  PROVE  /\ \E s \in Saves : s = Save(x, who) /\ s.caller = who /\ s.state = x /\ ~s.again
         /\ \E s \in Saves : /\ s = [Save(x, who) EXCEPT !.again = TRUE]
                             /\ s.caller = who /\ s.state = x /\ s.again
<1>1. PICK s : s = Save(x, who)
  OBVIOUS
<1>2. s \in Saves /\ s.caller = who /\ s.state = x /\ ~s.again
  BY <1>1 DEF Save, Saves
<1>3. PICK t : t = [s EXCEPT !.again = TRUE]
  OBVIOUS
<1>4. t \in Saves /\ t.caller = who /\ t.state = x /\ t.again
  BY <1>2, <1>3 DEF Saves
<1>5. QED
  BY <1>1, <1>2, <1>3, <1>4

\* The first and the last message of a worker's start.
LEMMA ReadyMessages ==
  ASSUME NEW x \in States \cup {Nothing}
  PROVE  \E m \in Messages : m = [kind |-> "ready", state |-> x] /\ m.kind = "ready" /\ m.state = x
<1>1. [kind |-> "ready", state |-> x] \in Messages
  BY DEF Messages
<1>2. QED
  BY <1>1

LEMMA CallingStep == Typed /\ Calling /\ Phased /\ [Next]_vars => Calling'
<1> SUFFICES ASSUME Typed, Calling, Phased, [Next]_vars PROVE Calling'
  OBVIOUS
<1>types. /\ chain \in Seq(Tasks) /\ outbox \in Seq(Messages) /\ saves \in Seq(Saves)
          /\ calls \in [Calls -> CallStates \cup {Nothing}]
  BY TypeFacts
<1>hyp. /\ OneEach(chain, RequestKinds) /\ OneEach(outbox, AnswerKinds) /\ OneSave(saves)
        /\ \A c \in Calls : InOnePlace(c)
  BY DEF Calling
\* A call that keeps its place.
<1>stay. ASSUME NEW c \in Calls, Asks(c)' <=> Asks(c), IsAnswered(c)' <=> IsAnswered(c),
                Waits(c)' <=> Waits(c), calls'[c] = calls[c], fatal => fatal'
         PROVE  InOnePlace(c)'
  BY <1>stay, <1>hyp DEF InOnePlace
\* The head of the chain is not a request, or is c's.
<1>chain. ASSUME chain # << >>, chain' = Tail(chain)
          PROVE  /\ OneEach(chain', RequestKinds)
                 /\ \A c : Head(chain).kind \in RequestKinds /\ Head(chain).caller = c => ~Asks(c)'
                 /\ \A c : Asks(c) <=> Asks(c)' \/ (Head(chain).kind \in RequestKinds /\ Head(chain).caller = c)
  <2>1. /\ OneEach(Tail(chain), RequestKinds)
        /\ Head(chain).kind \in RequestKinds => ~UnderWay(Tail(chain), RequestKinds, Head(chain).caller)
        /\ \A c : UnderWay(chain, RequestKinds, c) <=>
                     \/ UnderWay(Tail(chain), RequestKinds, c)
                     \/ Head(chain).kind \in RequestKinds /\ Head(chain).caller = c
    BY <1>chain, <1>hyp, <1>types, Leaves
  <2>2. QED
    BY <1>chain, <2>1 DEF Asks
<1>asked. ASSUME NEW task \in Tasks, chain' = Append(chain, task),
                 task.kind \in RequestKinds => ~Asks(task.caller)
          PROVE  /\ OneEach(chain', RequestKinds)
                 /\ \A c : Asks(c)' <=> Asks(c) \/ (task.kind \in RequestKinds /\ task.caller = c)
  <2>1. /\ OneEach(Append(chain, task), RequestKinds)
        /\ \A c : UnderWay(Append(chain, task), RequestKinds, c) <=>
                     UnderWay(chain, RequestKinds, c) \/ (task.kind \in RequestKinds /\ task.caller = c)
    BY <1>asked, <1>hyp, <1>types, Joins DEF Asks
  <2>2. QED
    BY <1>asked, <2>1 DEF Asks
<1>outbox. ASSUME outbox # << >>, outbox' = Tail(outbox)
           PROVE  /\ OneEach(outbox', AnswerKinds)
                  /\ \A c : Head(outbox).kind \in AnswerKinds /\ Head(outbox).caller = c => ~IsAnswered(c)'
                  /\ \A c : IsAnswered(c) <=> \/ IsAnswered(c)'
                                              \/ Head(outbox).kind \in AnswerKinds /\ Head(outbox).caller = c
  <2>1. /\ OneEach(Tail(outbox), AnswerKinds)
        /\ Head(outbox).kind \in AnswerKinds => ~UnderWay(Tail(outbox), AnswerKinds, Head(outbox).caller)
        /\ \A c : UnderWay(outbox, AnswerKinds, c) <=>
                     \/ UnderWay(Tail(outbox), AnswerKinds, c)
                     \/ Head(outbox).kind \in AnswerKinds /\ Head(outbox).caller = c
    BY <1>outbox, <1>hyp, <1>types, Leaves
  <2>2. QED
    BY <1>outbox, <2>1 DEF IsAnswered
<1>posted. ASSUME NEW m \in Messages, outbox' = Append(outbox, m),
                  m.kind \in AnswerKinds => ~IsAnswered(m.caller)
           PROVE  /\ OneEach(outbox', AnswerKinds)
                  /\ \A c : IsAnswered(c)' <=> IsAnswered(c) \/ (m.kind \in AnswerKinds /\ m.caller = c)
  <2>1. /\ OneEach(Append(outbox, m), AnswerKinds)
        /\ \A c : UnderWay(Append(outbox, m), AnswerKinds, c) <=>
                     UnderWay(outbox, AnswerKinds, c) \/ (m.kind \in AnswerKinds /\ m.caller = c)
    BY <1>posted, <1>hyp, <1>types, Joins DEF IsAnswered
  <2>2. QED
    BY <1>posted, <2>1 DEF IsAnswered
<1>save. ASSUME NEW s \in Saves, saves' = Append(saves, s), s.caller \in Calls => ~Waits(s.caller)
         PROVE  OneSave(saves') /\ \A c : Waits(c)' <=> Waits(c) \/ s.caller = c
  <2>1. OneSave(Append(saves, s)) /\ \A c : Saved(Append(saves, s), c) <=> Saved(saves, c) \/ s.caller = c
    BY <1>save, <1>hyp, <1>types, SaveJoins DEF Waits
  <2>2. QED
    BY <1>save, <2>1 DEF Waits
<1>saved. ASSUME saves # << >>
          PROVE  /\ OneSave(Tail(saves)) /\ Tail(saves) \in Seq(Saves)
                 /\ Head(saves).caller \in Calls => ~Saved(Tail(saves), Head(saves).caller)
                 /\ \A c : Waits(c) <=> Saved(Tail(saves), c) \/ Head(saves).caller = c
  BY <1>saved, <1>hyp, <1>types, SaveLeaves, Tails DEF Waits
<1>kinds. /\ "tick" \notin RequestKinds /\ "init" \notin RequestKinds /\ "full" \in RequestKinds
          /\ "persist" \notin AnswerKinds /\ "ready" \notin AnswerKinds
  BY DEF RequestKinds, AnswerKinds
<1>1. CASE TimerFires
  <2>1. /\ Tick \in Tasks /\ chain' = Append(chain, Tick) /\ Tick.kind = "tick"
        /\ UNCHANGED <<outbox, saves, calls, fatal>>
    BY <1>1 DEF TimerFires, Tasks, Tick, client, storage
  <2>2. OneEach(chain', RequestKinds) /\ \A c : Asks(c)' <=> Asks(c)
    BY <1>asked, <1>kinds, <2>1
  <2>3. \A c : (IsAnswered(c)' <=> IsAnswered(c)) /\ (Waits(c)' <=> Waits(c))
    BY <2>1 DEF IsAnswered, Waits
  <2>4. QED
    BY <1>hyp, <1>stay, <2>1, <2>2, <2>3 DEF Calling
\* A task that is no request, and a message that is no answer.
<1>none. ASSUME chain # << >>, chain' = Tail(chain), Head(chain).kind \notin RequestKinds,
                UNCHANGED <<client, storage>>,
                \/ outbox' = outbox
                \/ \E m \in Messages : outbox' = Append(outbox, m) /\ m.kind \notin AnswerKinds
         PROVE  Calling'
  <2>1. OneEach(chain', RequestKinds) /\ \A c : Asks(c)' <=> Asks(c)
    BY <1>chain, <1>none
  <2>2. OneEach(outbox', AnswerKinds) /\ \A c : IsAnswered(c)' <=> IsAnswered(c)
    <3>1. CASE outbox' = outbox
      BY <1>hyp, <3>1 DEF IsAnswered
    <3>2. ASSUME NEW m \in Messages, outbox' = Append(outbox, m), m.kind \notin AnswerKinds
          PROVE  OneEach(outbox', AnswerKinds) /\ \A c : IsAnswered(c)' <=> IsAnswered(c)
      BY <1>posted, <3>2
    <3>3. QED
      BY <1>none, <3>1, <3>2
  <2>3. UNCHANGED <<saves, calls, fatal>> /\ \A c : Waits(c)' <=> Waits(c)
    BY <1>none DEF Waits, client, storage
  <2>4. QED
    BY <1>hyp, <1>stay, <2>1, <2>2, <2>3 DEF Calling
<1>2. ASSUME NEW x \in States, Started(x) PROVE Calling'
  <2>1. PICK m \in Messages : m = [kind |-> "ready", state |-> x] /\ m.kind = "ready"
    BY ReadyMessages
  <2>2. QED
    BY <1>2, <1>kinds, <1>none, <2>1 DEF Started
<1>3. CASE NotStarted
  <2>1. PICK m \in Messages : m = [kind |-> "ready", state |-> Nothing] /\ m.kind = "ready"
    BY ReadyMessages
  <2>2. QED
    BY <1>3, <1>kinds, <1>none, <2>1 DEF NotStarted
<1>4. ASSUME NEW answer \in Messages, Served(answer) PROVE Calling'
  <2>1. /\ chain # << >> /\ chain' = Tail(chain) /\ Head(chain).kind \in RequestKinds
        /\ outbox' = Append(outbox, answer) /\ answer.kind \in AnswerKinds
        /\ answer.caller = Head(chain).caller
        /\ UNCHANGED <<saves, calls, fatal>>
    BY <1>4 DEF Served, client, storage
  <2>2. PICK c \in Calls : c = answer.caller
    BY <2>1, MessageFacts
  <2>3. OneEach(chain', RequestKinds) /\ ~Asks(c)' /\ Asks(c) /\ \A d : d # c => (Asks(d)' <=> Asks(d))
    BY <1>chain, <2>1, <2>2
  <2>4. ~IsAnswered(c)
    BY <1>hyp, <2>3 DEF InOnePlace
  <2>5. /\ OneEach(outbox', AnswerKinds) /\ IsAnswered(c)'
        /\ \A d : d # c => (IsAnswered(d)' <=> IsAnswered(d))
    BY <1>posted, <2>1, <2>2, <2>4
  <2>6. \A d : Waits(d)' <=> Waits(d)
    BY <2>1 DEF Waits
  <2>7. InOnePlace(c)'
    BY <1>hyp, <2>1, <2>3, <2>4, <2>5, <2>6 DEF InOnePlace
  <2>8. \A d \in Calls : d # c => InOnePlace(d)'
    BY <1>stay, <2>1, <2>3, <2>5, <2>6
  <2>9. QED
    BY <1>hyp, <2>1, <2>3, <2>5, <2>7, <2>8 DEF Calling
<1>5. ASSUME NEW message \in Messages, Advanced(message) PROVE Calling'
  BY <1>5, <1>kinds, <1>none DEF Advanced
<1>6. ASSUME Idled \/ Broken PROVE Calling'
  BY <1>6, <1>kinds, <1>none DEF Idled, Broken
<1>7. ASSUME NEW c \in Calls, NEW request \in Tasks, Asked(c, request) PROVE Calling'
  <2>1. /\ ~fatal /\ calls[c] = Nothing /\ request.kind \in RequestKinds /\ request.caller = c
        /\ chain' = Append(chain, request) /\ UNCHANGED <<outbox, saves, fatal>>
    BY <1>7 DEF Asked, storage
  <2>2. PICK kind \in {"control", "cells", "read", "state"} : calls' = [calls EXCEPT ![c] = Call(kind)]
    BY <1>7 DEF Asked
  <2>3. calls'[c] = Call(kind) /\ \A d \in Calls : d # c => calls'[d] = calls[d]
    BY <1>types, <2>2
  <2>4. Call(kind) # Nothing /\ Call(kind).phase = "asked"
    <3>1. Call(kind) \in CallStates /\ Call(kind).phase = "asked"
      BY DEF Call, CallStates
    <3>2. QED
      BY <3>1, StateFacts
  <2>5. ~Asks(c) /\ ~IsAnswered(c) /\ ~Waits(c)
    BY <1>hyp, <2>1 DEF InOnePlace
  <2>6. OneEach(chain', RequestKinds) /\ \A d : d # c => (Asks(d)' <=> Asks(d))
    BY <1>asked, <2>1, <2>5
  <2>7. \A d : (IsAnswered(d)' <=> IsAnswered(d)) /\ (Waits(d)' <=> Waits(d))
    BY <2>1 DEF IsAnswered, Waits
  <2>8. InOnePlace(c)'
    BY <2>3, <2>4, <2>5, <2>7 DEF InOnePlace
  <2>9. \A d \in Calls : d # c => InOnePlace(d)'
    BY <1>stay, <2>1, <2>3, <2>6, <2>7
  <2>10. QED
    BY <1>hyp, <2>1, <2>6, <2>8, <2>9 DEF Calling
<1>8. CASE ReceiveAnswer
  <2>1. PICK answer \in Messages, c \in Calls :
            /\ answer = Head(outbox) /\ outbox # << >> /\ outbox' = Tail(outbox)
            /\ outbox' \in Seq(Messages)
            /\ answer.kind \in AnswerKinds /\ answer.caller = c
            /\ \/ calls[c] = Nothing /\ UNCHANGED <<chain, cache, calls, shown, told, saves>>
               \/ /\ calls[c] # Nothing /\ answer.kind \in StateKinds /\ answer.state \in States
                  /\ Accept(c, Installed(answer.state))
               \/ calls[c] # Nothing /\ ~fatal /\ Refresh(c)
               \/ calls[c] # Nothing /\ (answer.kind \in {"plain", "error"} \/ fatal) /\ Over(c)
    BY <1>8, Answered
  <2>2. fatal' = fatal
    BY <1>8 DEF ReceiveAnswer
  <2>3. /\ OneEach(outbox', AnswerKinds) /\ IsAnswered(c) /\ ~IsAnswered(c)'
        /\ \A d : d # c => (IsAnswered(d)' <=> IsAnswered(d))
    BY <1>outbox, <2>1
  <2>4. ~Asks(c) /\ (calls[c] = Nothing \/ calls[c].phase = "asked")
    BY <1>hyp, <2>3 DEF InOnePlace
  <2>5. ~Waits(c)
    BY <1>hyp, <2>4 DEF InOnePlace
  <2>6. CASE calls[c] = Nothing /\ UNCHANGED <<chain, cache, calls, shown, told, saves>>
    <3>1. \A d : (Asks(d)' <=> Asks(d)) /\ (Waits(d)' <=> Waits(d))
      BY <2>6 DEF Asks, Waits
    <3>2. InOnePlace(c)'
      BY <2>3, <2>4, <2>5, <2>6, <3>1 DEF InOnePlace
    <3>3. \A d \in Calls : d # c => InOnePlace(d)'
      BY <1>stay, <2>2, <2>3, <2>6, <3>1
    <3>4. QED
      BY <1>hyp, <2>3, <2>6, <3>2, <3>3 DEF Calling
  <2>7. CASE calls[c] # Nothing /\ answer.state \in States /\ Accept(c, Installed(answer.state))
    <3>1. PICK y \in States : y = Installed(answer.state)
      BY <2>7, InstalledFacts
    <3>2. PICK s \in Saves : s = Save(y, c) /\ s.caller = c
      BY Transactions
    <3>3. /\ chain' = chain /\ saves' = Append(saves, s)
          /\ calls' = [calls EXCEPT ![c].phase = "saving"]
      BY <2>7, <3>1, <3>2 DEF Accept, Persist
    <3>4. OneSave(saves') /\ Waits(c)' /\ \A d : d # c => (Waits(d)' <=> Waits(d))
      BY <1>save, <2>5, <3>2, <3>3
    <3>5. calls'[c] # Nothing /\ calls'[c].phase = "saving" /\ \A d \in Calls : d # c => calls'[d] = calls[d]
      <4>1. calls[c] \in CallStates
        BY <1>types, <2>7
      <4>2. [calls[c] EXCEPT !.phase = "saving"] \in CallStates
            /\ [calls[c] EXCEPT !.phase = "saving"].phase = "saving"
        BY <4>1 DEF CallStates
      <4>3. calls'[c] = [calls[c] EXCEPT !.phase = "saving"]
            /\ \A d \in Calls : d # c => calls'[d] = calls[d]
        BY <1>types, <3>3
      <4>4. QED
        BY <4>2, <4>3, StateFacts
    <3>6. \A d : Asks(d)' <=> Asks(d)
      BY <3>3 DEF Asks
    <3>7. InOnePlace(c)'
      BY <2>3, <2>4, <3>4, <3>5, <3>6 DEF InOnePlace
    <3>8. \A d \in Calls : d # c => InOnePlace(d)'
      BY <1>stay, <2>2, <2>3, <3>4, <3>5, <3>6
    <3>9. QED
      BY <1>hyp, <2>3, <3>3, <3>4, <3>7, <3>8 DEF Calling
  <2>8. CASE calls[c] # Nothing /\ Refresh(c)
    <3>1. PICK task \in Tasks : task = Request(c, "full") /\ task.kind \in RequestKinds /\ task.caller = c
      BY <1>kinds, Requests
    <3>2. /\ chain' = Append(chain, task) /\ saves' = saves
          /\ calls' = [calls EXCEPT ![c].refreshing = TRUE]
      BY <2>8, <3>1 DEF Refresh
    <3>3. OneEach(chain', RequestKinds) /\ \A d : d # c => (Asks(d)' <=> Asks(d))
      BY <1>asked, <2>4, <3>1, <3>2
    <3>4. calls'[c] # Nothing /\ calls'[c].phase = "asked" /\ \A d \in Calls : d # c => calls'[d] = calls[d]
      <4>1. calls[c] \in CallStates
        BY <1>types, <2>8
      <4>2. [calls[c] EXCEPT !.refreshing = TRUE] \in CallStates
            /\ [calls[c] EXCEPT !.refreshing = TRUE].phase = calls[c].phase
        BY <4>1 DEF CallStates
      <4>3. calls'[c] = [calls[c] EXCEPT !.refreshing = TRUE]
            /\ \A d \in Calls : d # c => calls'[d] = calls[d]
        BY <1>types, <3>2
      <4>4. QED
        BY <2>4, <2>8, <4>2, <4>3, StateFacts
    <3>5. \A d : Waits(d)' <=> Waits(d)
      BY <3>2 DEF Waits
    <3>6. InOnePlace(c)'
      BY <2>3, <2>5, <3>4, <3>5 DEF InOnePlace
    <3>7. \A d \in Calls : d # c => InOnePlace(d)'
      BY <1>stay, <2>2, <2>3, <3>3, <3>4, <3>5
    <3>8. QED
      BY <1>hyp, <2>3, <3>2, <3>3, <3>6, <3>7 DEF Calling
  <2>9. CASE Over(c)
    <3>1. chain' = chain /\ saves' = saves /\ calls' = [calls EXCEPT ![c] = Nothing]
      BY <2>9 DEF Over
    <3>2. calls'[c] = Nothing /\ \A d \in Calls : d # c => calls'[d] = calls[d]
      BY <1>types, <3>1
    <3>3. \A d : (Asks(d)' <=> Asks(d)) /\ (Waits(d)' <=> Waits(d))
      BY <3>1 DEF Asks, Waits
    <3>4. InOnePlace(c)'
      BY <2>3, <2>4, <2>5, <3>2, <3>3 DEF InOnePlace
    <3>5. \A d \in Calls : d # c => InOnePlace(d)'
      BY <1>stay, <2>2, <2>3, <3>2, <3>3
    <3>6. QED
      BY <1>hyp, <2>3, <3>1, <3>4, <3>5 DEF Calling
  <2>10. QED
    BY <2>1, <2>6, <2>7, <2>8, <2>9
\* A message that is no answer: a state is saved for nobody's call.
<1>told. ASSUME outbox # << >>, outbox' = Tail(outbox), Head(outbox).kind \notin AnswerKinds,
                UNCHANGED <<chain, calls, fatal>>,
                \/ saves' = saves
                \/ \E s \in Saves : saves' = Append(saves, s) /\ s.caller \notin Calls
         PROVE  Calling'
  <2>1. OneEach(outbox', AnswerKinds) /\ \A c : IsAnswered(c)' <=> IsAnswered(c)
    BY <1>outbox, <1>told
  <2>2. OneSave(saves') /\ \A c \in Calls : Waits(c)' <=> Waits(c)
    <3>1. CASE saves' = saves
      BY <1>hyp, <3>1 DEF Waits
    <3>2. ASSUME NEW s \in Saves, saves' = Append(saves, s), s.caller \notin Calls
          PROVE  OneSave(saves') /\ \A c \in Calls : Waits(c)' <=> Waits(c)
      BY <1>save, <3>2
    <3>3. QED
      BY <1>told, <3>1, <3>2
  <2>3. \A c : Asks(c)' <=> Asks(c)
    BY <1>told DEF Asks
  <2>4. QED
    BY <1>hyp, <1>stay, <1>told, <2>1, <2>2, <2>3 DEF Calling
<1>9. CASE ReceivePersist
  <2>1. /\ Receive("persist") /\ Persist(Head(outbox).state, Nothing)
        /\ UNCHANGED <<chain, calls, fatal>>
    BY <1>9 DEF ReceivePersist, client
  <2>2. PICK x \in States : x = Head(outbox).state
    BY <2>1, Received, MessageFacts
  <2>3. PICK s \in Saves : s = Save(x, Nothing) /\ s.caller \notin Calls
    BY StateFacts, Transactions
  <2>4. saves' = Append(saves, s)
    BY <2>1, <2>2, <2>3 DEF Persist
  <2>5. Head(outbox).kind = "persist" /\ outbox # << >> /\ outbox' = Tail(outbox)
    BY <2>1, Received
  <2>6. QED
    BY <1>kinds, <1>told, <2>1, <2>3, <2>4, <2>5
<1>10. CASE ReceiveReady
  <2>1. Receive("ready") /\ UNCHANGED <<chain, calls, fatal>>
    BY <1>10 DEF ReceiveReady
  <2>2. Head(outbox).kind = "ready" /\ outbox # << >> /\ outbox' = Tail(outbox)
        /\ Head(outbox).state \in States \cup {Nothing}
    BY <2>1, Received, MessageFacts
  <2>3. saves' = saves \/ \E s \in Saves : saves' = Append(saves, s) /\ s.caller \notin Calls
    <3>1. CASE Head(outbox).state = Nothing
      BY <1>10, <3>1 DEF ReceiveReady
    <3>2. CASE Head(outbox).state \in States
      <4>1. Persist(Head(outbox).state, "boot")
        BY <1>10, <3>2, StateFacts DEF ReceiveReady
      <4>2. PICK s \in Saves : s = Save(Head(outbox).state, "boot") /\ s.caller \notin Calls
        BY <3>2, StateFacts, Transactions
      <4>3. QED
        BY <4>1, <4>2 DEF Persist
    <3>3. QED
      BY <2>2, <3>1, <3>2
  <2>4. QED
    BY <1>kinds, <1>told, <2>1, <2>2, <2>3
<1>11. CASE WorkerError
  <2>1. /\ fatal' = TRUE /\ UNCHANGED <<chain, outbox, saves>>
        /\ calls' = [c \in Calls |-> IF calls[c] # Nothing /\ calls[c].phase = "asked" THEN Nothing
                                     ELSE calls[c]]
    BY <1>11 DEF WorkerError, storage
  <2>2. \A c : (Asks(c)' <=> Asks(c)) /\ (IsAnswered(c)' <=> IsAnswered(c)) /\ (Waits(c)' <=> Waits(c))
    BY <2>1 DEF Asks, IsAnswered, Waits
  <2>3. ASSUME NEW c \in Calls PROVE InOnePlace(c)'
    <3>1. InOnePlace(c)
      BY <1>hyp
    <3>2. CASE calls[c] # Nothing /\ calls[c].phase = "asked"
      <4>1. calls'[c] = Nothing
        BY <2>1, <3>2
      <4>2. QED
        BY <2>1, <2>2, <3>1, <3>2, <4>1 DEF InOnePlace
    <3>3. CASE ~(calls[c] # Nothing /\ calls[c].phase = "asked")
      <4>1. calls'[c] = calls[c]
        BY <2>1, <3>3
      <4>2. QED
        BY <1>stay, <2>1, <2>2, <4>1
    <3>4. QED
      BY <3>2, <3>3
  <2>4. QED
    BY <1>hyp, <2>1, <2>3 DEF Calling
\* A call whose transaction is at its end is neither asked nor answered.
<1>ends. ASSUME saves # << >>, Head(saves).caller \in Calls
         PROVE  /\ calls[Head(saves).caller] \in CallStates
                /\ calls[Head(saves).caller].phase = "saving"
                /\ ~Asks(Head(saves).caller) /\ ~IsAnswered(Head(saves).caller)
  <2>1. PICK c \in Calls : c = Head(saves).caller
    BY <1>ends
  <2>2. calls[c] \in CallStates /\ calls[c].phase = "saving"
    BY <1>ends, <2>1, HeadWaits
  <2>3. ~Asks(c) /\ ~IsAnswered(c)
    BY <1>hyp, <2>2, StateFacts DEF InOnePlace
  <2>4. QED
    BY <2>1, <2>2, <2>3
\* The transaction at the head is over for its caller, if that is a call.
<1>over. ASSUME saves # << >>, saves' = Tail(saves), UNCHANGED <<chain, outbox, fatal>>,
                NEW who, who = Head(saves).caller,
                who \in Calls => calls' = [calls EXCEPT ![who] = Nothing],
                who \notin Calls => calls' = calls
         PROVE  Calling'
  <2>1. \A c : (Asks(c)' <=> Asks(c)) /\ (IsAnswered(c)' <=> IsAnswered(c))
    BY <1>over DEF Asks, IsAnswered
  <2>2. OneSave(saves') /\ \A c : c # who => (Waits(c)' <=> Waits(c))
    BY <1>over, <1>saved DEF Waits
  <2>3. ASSUME NEW c \in Calls PROVE InOnePlace(c)'
    <3>1. CASE c = who
      <4>1. ~Waits(c)' /\ calls'[c] = Nothing
        BY <1>over, <1>saved, <1>types, <3>1 DEF Waits
      <4>2. ~Asks(c) /\ ~IsAnswered(c)
        BY <1>ends, <1>over, <3>1
      <4>3. QED
        BY <2>1, <4>1, <4>2 DEF InOnePlace
    <3>2. CASE c # who
      <4>1. calls'[c] = calls[c]
        BY <1>over, <1>types, <3>2
      <4>2. QED
        BY <1>over, <1>stay, <2>1, <2>2, <3>2, <4>1
    <3>3. QED
      BY <3>1, <3>2
  <2>4. QED
    BY <1>hyp, <1>over, <2>2, <2>3 DEF Calling
<1>12. CASE Commit
  <2>1. /\ saves # << >>
        /\ Proceeds(Head(saves).state, Head(saves).caller)
        /\ UNCHANGED <<chain, outbox, fatal>>
    BY <1>12 DEF Commit
  <2>2. PICK x \in States, who \in Calls \cup {Nothing, "boot"} :
            x = Head(saves).state /\ who = Head(saves).caller
    BY <1>types, <2>1, Tails, SaveFacts
  <2>3. Proceeds(x, who)
    BY <2>1, <2>2
  <2>4. CASE who \notin Calls
    <3>1. saves' = Tail(saves) /\ calls' = calls
      BY <2>3, <2>4 DEF Proceeds
    <3>2. QED
      BY <1>over, <2>1, <2>2, <2>4, <3>1
  <2>5. CASE who \in Calls /\ ~calls[who].refreshing
    <3>1. saves' = Tail(saves) /\ calls' = [calls EXCEPT ![who] = Nothing]
      BY <2>3, <2>5, StateFacts DEF Proceeds
    <3>2. QED
      BY <1>over, <2>1, <2>2, <2>5, <3>1
  <2>6. CASE who \in Calls /\ calls[who].refreshing
    <3>1. /\ saves' = Append(Tail(saves), [Save(Installed(x), who) EXCEPT !.again = TRUE])
          /\ calls' = [calls EXCEPT ![who].refreshing = FALSE]
      BY <2>3, <2>6, StateFacts DEF Proceeds
    <3>2. PICK s \in Saves : s = [Save(Installed(x), who) EXCEPT !.again = TRUE] /\ s.caller = who
      <4>1. PICK y \in States : y = Installed(x)
        BY InstalledFacts
      <4>2. QED
        BY <4>1, Transactions
    <3>3. PICK q \in Seq(Saves) : q = Tail(saves)
      BY <1>saved, <2>1
    <3>4. OneSave(q) /\ ~Saved(q, who) /\ \A c : Waits(c) <=> Saved(q, c) \/ c = who
      BY <1>saved, <2>1, <2>2, <2>6, <3>3
    <3>5. OneSave(Append(q, s)) /\ \A c : Saved(Append(q, s), c) <=> Saved(q, c) \/ s.caller = c
      <4>1. s.caller \in Calls => ~Saved(q, s.caller)
        BY <3>2, <3>4
      <4>2. QED
        BY <3>4, <4>1, SaveJoins
    <3>6. saves' = Append(q, s)
      BY <3>1, <3>2, <3>3
    <3>7. OneSave(saves') /\ \A c : Waits(c)' <=> Waits(c)
      BY <3>2, <3>4, <3>5, <3>6 DEF Waits
    <3>8. calls'[who] \in CallStates /\ calls'[who].phase = "saving"
          /\ \A d \in Calls : d # who => calls'[d] = calls[d]
      <4>1. calls[who] \in CallStates /\ calls[who].phase = "saving"
        BY <1>ends, <2>1, <2>2, <2>6
      <4>2. [calls[who] EXCEPT !.refreshing = FALSE] \in CallStates
            /\ [calls[who] EXCEPT !.refreshing = FALSE].phase = "saving"
        BY <4>1 DEF CallStates
      <4>3. calls'[who] = [calls[who] EXCEPT !.refreshing = FALSE]
            /\ \A d \in Calls : d # who => calls'[d] = calls[d]
        BY <1>types, <2>6, <3>1
      <4>4. QED
        BY <4>2, <4>3
    <3>9. \A c : (Asks(c)' <=> Asks(c)) /\ (IsAnswered(c)' <=> IsAnswered(c))
      BY <2>1 DEF Asks, IsAnswered
    <3>10. InOnePlace(who)'
      <4>1. ~Asks(who) /\ ~IsAnswered(who)
        BY <1>ends, <2>1, <2>2, <2>6
      <4>2. Waits(who)'
        BY <3>4, <3>7
      <4>3. QED
        BY <3>8, <3>9, <4>1, <4>2, StateFacts DEF InOnePlace
    <3>11. \A d \in Calls : d # who => InOnePlace(d)'
      BY <1>stay, <2>1, <3>7, <3>8, <3>9
    <3>12. QED
      BY <1>hyp, <2>1, <3>7, <3>10, <3>11 DEF Calling
  <2>7. QED
    BY <2>4, <2>5, <2>6
<1>13. CASE SaveFails
  <2>1. /\ saves # << >> /\ saves' = Tail(saves) /\ UNCHANGED <<chain, outbox, fatal>>
        /\ calls' = IF Head(saves).caller \in Calls THEN [calls EXCEPT ![Head(saves).caller] = Nothing]
                    ELSE calls
    BY <1>13 DEF SaveFails
  <2>2. PICK who : who = Head(saves).caller
    OBVIOUS
  <2>3. QED
    BY <1>over, <2>1, <2>2
\* Nothing is under way.
<1>empty. ASSUME \A i \in DOMAIN chain' : chain'[i].kind = "init",
                 outbox' = << >>, saves' = << >>, calls' = [c \in Calls |-> Nothing]
          PROVE  Calling'
  <2>1. Range(outbox') = {} /\ Range(saves') = {} /\ DOMAIN outbox' = {} /\ DOMAIN saves' = {}
    BY <1>empty DEF Range
  <2>2. \A c : ~Asks(c)' /\ ~IsAnswered(c)' /\ ~Waits(c)'
    BY <1>empty, <1>kinds, <2>1 DEF Asks, IsAnswered, Waits, UnderWay, Saved, Range
  <2>3. OneEach(chain', RequestKinds) /\ OneEach(outbox', AnswerKinds) /\ OneSave(saves')
    BY <1>empty, <1>kinds, <2>1 DEF OneEach, OneSave
  <2>4. \A c \in Calls : calls'[c] = Nothing
    BY <1>empty
  <2>5. QED
    BY <2>2, <2>3, <2>4 DEF Calling, InOnePlace
<1>14. CASE Close
  <2>1. chain' = << >> /\ outbox' = << >> /\ saves' = << >> /\ calls' = [c \in Calls |-> Nothing]
    BY <1>14 DEF Close
  <2>2. QED
    BY <1>empty, <2>1
<1>15. CASE Reopen
  <2>1. page = "closed" /\ chain' = <<InitTask(store)>> /\ UNCHANGED <<outbox, calls, saves>>
    BY <1>15 DEF Reopen, Loading, storage
  <2>2. outbox' = << >> /\ saves' = << >> /\ \A c \in Calls : calls[c] = Nothing
    BY <2>1 DEF Phased
  <2>3. calls' = [c \in Calls |-> Nothing]
    BY <1>types, <2>1, <2>2
  <2>4. \A i \in DOMAIN chain' : chain'[i].kind = "init"
    BY <2>1 DEF InitTask
  <2>5. QED
    BY <1>empty, <2>2, <2>3, <2>4
<1>16. CASE UNCHANGED vars
  BY <1>16 DEF vars, client, storage, Calling, InOnePlace, Asks, IsAnswered, Waits
<1>17. QED
  BY <1>1, <1>2, <1>3, <1>4, <1>5, <1>6, <1>7, <1>8, <1>9, <1>10, <1>11, <1>12, <1>13, <1>14, <1>15, <1>16,
     InitSteps, ServeSteps, TickSteps, AskSteps DEF Next, Work


(***************************************************************************)
(* The order of the states.                                                *)
(***************************************************************************)

LEMMA FirstOfOrder ==
  ASSUME NEW q \in Seq(Messages), q # << >>, InOrder(q)
  PROVE  /\ InOrder(Tail(q))
         /\ \A m \in Range(Tail(q)) : Head(q).state # Nothing /\ m.state # Nothing =>
               Head(q).state.version <= m.state.version
<1>1. /\ Head(q) = q[1] /\ 1 \in DOMAIN q /\ Len(q) \in Nat /\ DOMAIN Tail(q) = 1 .. Len(q) - 1
      /\ \A i \in DOMAIN Tail(q) : i \in Nat /\ i + 1 \in DOMAIN q /\ i + 1 # 1 /\ Tail(q)[i] = q[i + 1]
  BY Tails
<1>2. InOrder(Tail(q))
  <2> SUFFICES ASSUME NEW i \in DOMAIN Tail(q), NEW j \in DOMAIN Tail(q), i < j,
                      Tail(q)[i].state # Nothing, Tail(q)[j].state # Nothing
               PROVE  Tail(q)[i].state.version <= Tail(q)[j].state.version
    BY DEF InOrder
  <2>1. i + 1 \in DOMAIN q /\ j + 1 \in DOMAIN q /\ i + 1 < j + 1
        /\ Tail(q)[i] = q[i + 1] /\ Tail(q)[j] = q[j + 1]
    BY <1>1
  <2>2. QED
    BY <2>1 DEF InOrder
<1>3. ASSUME NEW i \in DOMAIN Tail(q), Head(q).state # Nothing, Tail(q)[i].state # Nothing
      PROVE  Head(q).state.version <= Tail(q)[i].state.version
  <2>1. i + 1 \in DOMAIN q /\ 1 < i + 1 /\ Tail(q)[i] = q[i + 1]
    BY <1>1
  <2>2. QED
    BY <1>1, <1>3, <2>1 DEF InOrder
<1>4. QED
  BY <1>2, <1>3 DEF Range

LEMMA LastOfOrder ==
  ASSUME NEW q \in Seq(Messages), NEW e \in Messages, InOrder(q),
         \A m \in Range(q) : m.state # Nothing /\ e.state # Nothing =>
            m.state.version <= e.state.version
  PROVE  InOrder(Append(q, e))
<1>1. PICK r : r = Append(q, e)
  OBVIOUS
<1>2. /\ r[Len(q) + 1] = e /\ Len(q) \in Nat /\ DOMAIN q = 1 .. Len(q) /\ DOMAIN r = 1 .. Len(q) + 1
      /\ \A i \in DOMAIN q : r[i] = q[i]
  BY <1>1, Appends
<1>3. \A i \in DOMAIN q : q[i] \in Range(q)
  BY DEF Range
<1>4. InOrder(r)
  <2> SUFFICES ASSUME NEW i \in DOMAIN r, NEW j \in DOMAIN r, i < j,
                      r[i].state # Nothing, r[j].state # Nothing
               PROVE  r[i].state.version <= r[j].state.version
    BY DEF InOrder
  <2>1. i \in DOMAIN q
    BY <1>2
  <2>2. CASE j \in DOMAIN q
    BY <1>2, <2>1, <2>2 DEF InOrder
  <2>3. CASE j = Len(q) + 1
    BY <1>2, <1>3, <2>1, <2>3
  <2>4. QED
    BY <1>2, <2>2, <2>3
<1>5. QED
  BY <1>1, <1>4

LEMMA FirstOfReplay ==
  ASSUME NEW q \in Seq(Saves), q # << >>, Replaying(q)
  PROVE  /\ Replaying(Tail(q))
         /\ \A s \in Range(Tail(q)) : Head(q).caller # Nothing \/ ~s.again =>
               Head(q).state.version <= s.state.version
<1>1. /\ Head(q) = q[1] /\ 1 \in DOMAIN q /\ Len(q) \in Nat /\ DOMAIN Tail(q) = 1 .. Len(q) - 1
      /\ \A i \in DOMAIN Tail(q) : i \in Nat /\ i + 1 \in DOMAIN q /\ i + 1 # 1 /\ Tail(q)[i] = q[i + 1]
  BY Tails
<1>2. Replaying(Tail(q))
  <2> SUFFICES ASSUME NEW i \in DOMAIN Tail(q), NEW j \in DOMAIN Tail(q), i < j,
                      Tail(q)[i].caller # Nothing \/ ~Tail(q)[j].again
               PROVE  Tail(q)[i].state.version <= Tail(q)[j].state.version
    BY DEF Replaying
  <2>1. i + 1 \in DOMAIN q /\ j + 1 \in DOMAIN q /\ i + 1 < j + 1
        /\ Tail(q)[i] = q[i + 1] /\ Tail(q)[j] = q[j + 1]
    BY <1>1
  <2>2. QED
    BY <2>1 DEF Replaying
<1>3. ASSUME NEW i \in DOMAIN Tail(q), Head(q).caller # Nothing \/ ~Tail(q)[i].again
      PROVE  Head(q).state.version <= Tail(q)[i].state.version
  <2>1. i + 1 \in DOMAIN q /\ 1 < i + 1 /\ Tail(q)[i] = q[i + 1]
    BY <1>1
  <2>2. QED
    BY <1>1, <1>3, <2>1 DEF Replaying
<1>4. QED
  BY <1>2, <1>3 DEF Range

LEMMA LastOfReplay ==
  ASSUME NEW q \in Seq(Saves), NEW e \in Saves, Replaying(q),
         \A s \in Range(q) : s.caller # Nothing \/ ~e.again => s.state.version <= e.state.version
  PROVE  Replaying(Append(q, e))
<1>1. PICK r : r = Append(q, e)
  OBVIOUS
<1>2. /\ r[Len(q) + 1] = e /\ Len(q) \in Nat /\ DOMAIN q = 1 .. Len(q) /\ DOMAIN r = 1 .. Len(q) + 1
      /\ \A i \in DOMAIN q : r[i] = q[i]
  BY <1>1, Appends
<1>3. \A i \in DOMAIN q : q[i] \in Range(q)
  BY DEF Range
<1>4. Replaying(r)
  <2> SUFFICES ASSUME NEW i \in DOMAIN r, NEW j \in DOMAIN r, i < j,
                      r[i].caller # Nothing \/ ~r[j].again
               PROVE  r[i].state.version <= r[j].state.version
    BY DEF Replaying
  <2>1. i \in DOMAIN q
    BY <1>2
  <2>2. CASE j \in DOMAIN q
    BY <1>2, <2>1, <2>2 DEF Replaying
  <2>3. CASE j = Len(q) + 1
    BY <1>2, <1>3, <2>1, <2>3
  <2>4. QED
    BY <1>2, <2>2, <2>3
<1>5. QED
  BY <1>1, <1>4

\* What is current is not outdated by a newer version.
LEMMA CurrentGrows ==
  ASSUME Typed, NEW v \in Nat, NEW w \in Nat, Current(v), v <= w
  PROVE  Current(w)
<1>1. /\ told \in Nat /\ cache \in States \cup {Nothing} /\ store \in States \cup {Nothing}
      /\ Range(saves) \subseteq Saves
  BY TypeFacts
<1>2. told <= w
  BY <1>1 DEF Current
<1>3. cache # Nothing => cache.version <= w
  BY <1>1, StateFacts DEF Current
<1>4. store # Nothing => store.version <= w
  BY <1>1, StateFacts DEF Current
<1>5. ASSUME NEW s \in Range(saves) PROVE s.state.version <= w
  <2>1. s.state.version \in Nat /\ s.state.version <= v
    BY <1>1, SaveFacts, StateFacts DEF Current
  <2>2. QED
    BY <2>1
<1>6. QED
  BY <1>2, <1>3, <1>4, <1>5 DEF Current

LEMMA OrderInit == Init => Ordered
<1> SUFFICES ASSUME Init PROVE Ordered
  OBVIOUS
<1>1. outbox = << >> /\ saves = << >>
  BY DEF Init
<1>2. Range(outbox) = {} /\ Range(saves) = {} /\ DOMAIN outbox = {} /\ DOMAIN saves = {}
  BY <1>1 DEF Range
<1>3. sim.version = 0 /\ newest = 0 /\ told = 0 /\ cache = Nothing /\ store = Nothing
  BY DEF Init, FirstState
<1>4. InOrder(outbox) /\ Replaying(saves)
  BY <1>2 DEF InOrder, Replaying
<1>5. SimCurrent
  BY <1>2, <1>3 DEF SimCurrent, Current
<1>6. QED
  BY <1>2, <1>3, <1>4, <1>5 DEF Ordered, MessagesCurrent, SavesCurrent, ToldIsStored

LEMMA OrderStep == Typed /\ Calling /\ Phased /\ Ordered /\ [Next]_vars /\ Typed' => Ordered'
<1> SUFFICES ASSUME Typed, Calling, Phased, Ordered, [Next]_vars, Typed' PROVE Ordered'
  OBVIOUS
<1>types. /\ sim \in States /\ newest \in 0..MaxVersion /\ told \in Nat
          /\ chain \in Seq(Tasks) /\ outbox \in Seq(Messages) /\ saves \in Seq(Saves)
          /\ Range(outbox) \subseteq Messages /\ Range(saves) \subseteq Saves
          /\ store \in States \cup {Nothing} /\ cache \in States \cup {Nothing}
  BY TypeFacts
<1>types2. /\ sim' \in States /\ newest' \in 0..MaxVersion
  BY DEF Typed, WorkerTyped
<1>hyp. /\ InOrder(outbox) /\ Replaying(saves)
        /\ sim.version <= newest /\ Current(sim.version)
        /\ MessagesCurrent /\ SavesCurrent /\ ToldIsStored
  BY DEF Ordered, SimCurrent
<1>version. \A x \in States : x.version \in Nat /\ x # Nothing
  BY StateFacts
<1>message. \A m \in Range(outbox) : m.state # Nothing => m.state \in States
  BY <1>types, MessageFacts
<1>save. \A s \in Range(saves) : s.state \in States
  BY <1>types, SaveFacts
<1>bounds. newest \in Nat /\ newest' \in Nat /\ MaxVersion \in Nat
  BY <1>types, <1>types2, StateFacts
\* Nothing changes but what the worker says.
<1>still. ASSUME UNCHANGED <<told, cache, store, saves>>
          PROVE  \A v : Current(v) => Current(v)'
  BY <1>still DEF Current
<1>worker. ASSUME sim.version <= sim'.version, sim'.version <= newest',
                  UNCHANGED <<client, storage>>,
                  \/ outbox' = outbox
                  \/ \E m \in Messages : outbox' = Append(outbox, m) /\ (m.state = Nothing \/ m.state = sim')
           PROVE  Ordered'
  <2>1. UNCHANGED <<told, cache, store, saves>>
    BY <1>worker DEF client, storage
  <2>2. sim.version \in Nat /\ sim'.version \in Nat
    BY <1>types, <1>types2, <1>version
  <2>3. Current(sim'.version)
    BY <1>hyp, <1>worker, <2>2, CurrentGrows
  <2>4. PICK v \in Nat : v = sim'.version
    BY <2>2
  <2>5. Current(v)'
    BY <1>still, <2>1, <2>3, <2>4
  <2>6. SimCurrent'
    BY <1>worker, <2>4, <2>5 DEF SimCurrent
  <2>7. \A m \in Range(outbox) : m.state # Nothing =>
           Current(m.state.version)' /\ m.state.version <= sim'.version
    <3> SUFFICES ASSUME NEW m \in Range(outbox), m.state # Nothing
                 PROVE  Current(m.state.version)' /\ m.state.version <= sim'.version
      OBVIOUS
    <3>1. Current(m.state.version) /\ m.state.version <= sim.version /\ m.state.version \in Nat
      BY <1>hyp, <1>message, <1>version DEF MessagesCurrent
    <3>2. QED
      BY <1>still, <1>worker, <2>1, <2>2, <3>1
  <2>8. InOrder(outbox') /\ MessagesCurrent'
    <3>1. CASE outbox' = outbox
      BY <1>hyp, <2>7, <3>1 DEF MessagesCurrent
    <3>2. ASSUME NEW m \in Messages, outbox' = Append(outbox, m), m.state = Nothing \/ m.state = sim'
          PROVE  InOrder(outbox') /\ MessagesCurrent'
      <4>1. \A x \in Range(outbox) : x.state # Nothing /\ m.state # Nothing =>
               x.state.version <= m.state.version
        BY <2>7, <3>2
      <4>2. InOrder(outbox')
        BY <1>hyp, <1>types, <3>2, <4>1, LastOfOrder
      <4>3. Range(outbox') = Range(outbox) \cup {m}
        BY <1>types, <3>2, AppendRange
      <4>4. m.state # Nothing => Current(m.state.version)' /\ m.state.version <= sim'.version
        BY <2>2, <2>4, <2>5, <3>2
      <4>5. QED
        BY <2>7, <4>2, <4>3, <4>4 DEF MessagesCurrent
    <3>3. QED
      BY <1>worker, <3>1, <3>2
  <2>9. Replaying(saves') /\ SavesCurrent' /\ ToldIsStored'
    BY <1>hyp, <2>1 DEF SavesCurrent, ToldIsStored
  <2>10. QED
    BY <2>6, <2>8, <2>9 DEF Ordered
\* A message leaves and its state is saved, and may be accepted.
<1>received. ASSUME outbox # << >>, outbox' = Tail(outbox), Head(outbox).state \in States,
                    NEW y \in States, NEW s \in Saves,
                    s.state = y, ~s.again, saves' = Append(saves, s),
                    Head(outbox).state.version <= y.version,
                    y = Head(outbox).state \/ (cache \in States /\ y = cache),
                    cache' = y \/ (cache' = cache /\ (s.caller = Nothing \/ cache = Nothing)),
                    UNCHANGED <<sim, newest, told, store>>
             PROVE  Ordered'
  <2>1. PICK x \in States : x = Head(outbox).state
    BY <1>received
  <2>2. x.version \in Nat /\ y.version \in Nat /\ x.version <= y.version /\ sim.version \in Nat
    BY <1>received, <1>types, <1>version, <2>1
  <2>3. /\ InOrder(Tail(outbox)) /\ Head(outbox) \in Range(outbox)
        /\ Range(Tail(outbox)) \subseteq Range(outbox)
        /\ \A m \in Range(Tail(outbox)) : m.state # Nothing => x.version <= m.state.version
    BY <1>hyp, <1>received, <1>types, <1>version, <2>1, FirstOfOrder, TailRange
  <2>4. Current(x.version) /\ x.version <= sim.version
    BY <1>hyp, <1>version, <2>1, <2>3 DEF MessagesCurrent
  <2>5. Current(y.version)
    BY <2>2, <2>4, CurrentGrows
  <2>6. Range(saves') = Range(saves) \cup {s}
    BY <1>received, <1>types, AppendRange
  <2>7. ASSUME NEW v \in Nat, Current(v), x.version <= v PROVE Current(v)'
    <3>1. y.version <= v
      BY <1>received, <1>version, <2>1, <2>7 DEF Current
    <3>2. cache' # Nothing => cache'.version <= v
      BY <1>received, <2>7, <3>1 DEF Current
    <3>3. \A z \in Range(saves') : z.state.version <= v
      BY <1>received, <2>6, <2>7, <3>1 DEF Current
    <3>4. QED
      BY <1>received, <2>7, <3>2, <3>3 DEF Current
  <2>8. SimCurrent'
    <3>1. PICK v \in Nat : v = sim.version
      BY <2>2
    <3>2. Current(v)'
      BY <1>hyp, <2>4, <2>7, <3>1
    <3>3. QED
      BY <1>hyp, <1>received, <3>1, <3>2 DEF SimCurrent
  <2>9. MessagesCurrent'
    <3> SUFFICES ASSUME NEW m \in Range(outbox'), m.state # Nothing
                 PROVE  Current(m.state.version)' /\ m.state.version <= sim'.version
      BY DEF MessagesCurrent
    <3>1. m \in Range(outbox) /\ x.version <= m.state.version
      BY <1>received, <2>3
    <3>2. Current(m.state.version) /\ m.state.version <= sim.version /\ m.state.version \in Nat
      BY <1>hyp, <1>message, <1>version, <3>1 DEF MessagesCurrent
    <3>3. QED
      BY <1>received, <2>7, <3>1, <3>2
  <2>10. Replaying(saves')
    <3>1. \A z \in Range(saves) : z.state.version <= s.state.version
      BY <1>received, <2>5 DEF Current
    <3>2. QED
      BY <1>hyp, <1>received, <1>types, <3>1, LastOfReplay
  <2>11. SavesCurrent'
    <3> SUFFICES ASSUME NEW z \in Range(saves')
                 PROVE  /\ told' <= z.state.version
                        /\ store' # Nothing /\ ~z.again => store'.version <= z.state.version
                        /\ cache' # Nothing /\ z.caller # Nothing => z.state.version <= cache'.version
      BY DEF SavesCurrent
    <3>1. CASE z \in Range(saves)
      <4>1. z.state \in States /\ z.state.version <= y.version
        BY <1>save, <2>5, <3>1 DEF Current
      <4>2. /\ told <= z.state.version
            /\ store # Nothing /\ ~z.again => store.version <= z.state.version
            /\ cache # Nothing /\ z.caller # Nothing => z.state.version <= cache.version
        BY <1>hyp, <3>1 DEF SavesCurrent
      <4>3. QED
        BY <1>received, <4>1, <4>2
    <3>2. CASE z = s
      <4>1. told <= y.version /\ (store # Nothing => store.version <= y.version)
        BY <2>5 DEF Current
      <4>2. QED
        BY <1>received, <2>2, <3>2, <4>1
    <3>3. QED
      BY <2>6, <3>1, <3>2
  <2>12. ToldIsStored'
    BY <1>hyp, <1>received DEF ToldIsStored
  <2>13. QED
    BY <1>received, <2>3, <2>8, <2>9, <2>10, <2>11, <2>12 DEF Ordered
\* A message leaves, and nothing else.
<1>dropped. ASSUME outbox # << >>, outbox' = Tail(outbox),
                   UNCHANGED <<sim, newest, told, cache, store, saves>>
            PROVE  Ordered'
  <2>1. InOrder(outbox') /\ Range(outbox') \subseteq Range(outbox)
    BY <1>dropped, <1>hyp, <1>types, FirstOfOrder, TailRange
  <2>2. MessagesCurrent'
    BY <1>dropped, <1>hyp, <2>1 DEF MessagesCurrent, Current
  <2>3. SimCurrent' /\ Replaying(saves') /\ SavesCurrent' /\ ToldIsStored'
    BY <1>dropped, <1>hyp DEF SimCurrent, SavesCurrent, ToldIsStored, Current
  <2>4. QED
    BY <2>1, <2>2, <2>3 DEF Ordered
\* Nothing that is ordered changes.
<1>same. ASSUME UNCHANGED <<sim, newest, outbox, told, cache, store, saves>> PROVE Ordered'
  <2>1. MessagesCurrent'
    BY <1>hyp, <1>same DEF MessagesCurrent, Current
  <2>2. SimCurrent' /\ SavesCurrent' /\ ToldIsStored'
    BY <1>hyp, <1>same DEF SimCurrent, SavesCurrent, ToldIsStored, Current
  <2>3. QED
    BY <1>hyp, <1>same, <2>1, <2>2 DEF Ordered
<1>1. CASE TimerFires
  BY <1>1, <1>same DEF TimerFires, service, client, storage
<1>2. ASSUME NEW x \in States, Started(x) PROVE Ordered'
  <2>1. Head(chain).kind = "init" /\ chain # << >> /\ UNCHANGED <<newest, told, cache, store, saves>> /\ sim' = x
    BY <1>2 DEF Started, client, storage
  <2>2. page = "loading" /\ Starting /\ cache = Nothing
    <3>1. Head(chain) \in Range(chain)
      BY <1>types, <2>1, TailRange
    <3>2. page = "loading"
      BY <2>1, <3>1 DEF Phased, Booted
    <3>3. QED
      BY <2>1, <3>2, LoadingFacts DEF Phased
  <2>3. Head(chain) = InitTask(store) /\ outbox = << >> /\ saves = << >>
    BY <2>2 DEF Starting
  <2>4. x.version = IF store = Nothing THEN 0 ELSE store.version
    <3>1. x = IF store = Nothing THEN FirstState ELSE [store EXCEPT !.lattice = newest + 1]
      BY <1>2, <2>3 DEF Started, InitTask
    <3>2. FirstState.version = 0
      BY DEF FirstState
    <3>3. ASSUME NEW z \in States PROVE [z EXCEPT !.lattice = newest + 1].version = z.version
      BY DEF States
    <3>4. QED
      BY <1>types, <3>1, <3>2, <3>3
  <2>5. sim.version \in Nat /\ x.version \in Nat
    BY <1>types, <1>version
  <2>6. x.version <= newest
    <3>1. store # Nothing => store.version <= sim.version /\ store.version \in Nat
      BY <1>hyp, <1>types, <1>version DEF Current
    <3>2. CASE store = Nothing
      BY <1>bounds, <2>4, <3>2
    <3>3. CASE store # Nothing
      <4>1. x.version = store.version
        BY <2>4, <3>3
      <4>2. x.version <= sim.version /\ sim.version <= newest
        BY <1>hyp, <3>1, <3>3, <4>1
      <4>3. QED
        BY <1>bounds, <2>5, <4>2
    <3>4. QED
      BY <3>2, <3>3
  <2>7. Current(x.version)
    <3>1. told <= x.version
      <4>1. CASE told = 0
        BY <2>5, <4>1
      <4>2. CASE told > 0
        <5>1. store # Nothing /\ told <= store.version
          BY <1>hyp, <4>2 DEF ToldIsStored
        <5>2. QED
          BY <2>4, <5>1
      <4>3. QED
        BY <1>types, <4>1, <4>2
    <3>2. store # Nothing => store.version <= x.version
      BY <1>types, <1>version, <2>4
    <3>3. Range(saves) = {}
      BY <1>types, <2>3, Elements
    <3>4. QED
      BY <2>2, <3>1, <3>2, <3>3 DEF Current
  <2>8. Current(x.version)'
    <3>1. PICK v \in Nat : v = x.version
      BY <2>5
    <3>2. Current(v)'
      BY <1>still, <2>1, <2>7, <3>1
    <3>3. QED
      BY <3>1, <3>2
  <2>9. SimCurrent'
    <3>1. PICK v \in Nat : v = x.version
      BY <2>5
    <3>2. Current(v)'
      BY <1>still, <2>1, <2>7, <3>1
    <3>3. QED
      BY <2>1, <2>6, <3>1, <3>2 DEF SimCurrent
  <2>10. PICK m \in Messages : m = [kind |-> "ready", state |-> x] /\ m.state = x
    BY ReadyMessages
  <2>11. outbox' = <<m>> /\ DOMAIN outbox' = {1}
    BY <1>2, <2>3, <2>10 DEF Started
  <2>12. InOrder(outbox') /\ Range(outbox') = {m}
    BY <2>11 DEF InOrder, Range
  <2>13. MessagesCurrent'
    <3>1. PICK v \in Nat : v = x.version
      BY <2>5
    <3>2. Current(v)'
      BY <1>still, <2>1, <2>7, <3>1
    <3>3. \A z \in Range(outbox') : z.state.version = v
      BY <2>10, <2>12, <3>1
    <3>4. QED
      BY <2>1, <3>1, <3>2, <3>3 DEF MessagesCurrent
  <2>14. Replaying(saves') /\ SavesCurrent' /\ ToldIsStored'
    BY <1>hyp, <2>1 DEF SavesCurrent, ToldIsStored
  <2>15. QED
    BY <2>9, <2>12, <2>13, <2>14 DEF Ordered
<1>sim. sim' = sim /\ newest' = newest => sim.version <= sim'.version /\ sim'.version <= newest'
  BY <1>hyp, <1>types, <1>version
<1>3. CASE NotStarted
  <2>1. PICK m \in Messages : m = [kind |-> "ready", state |-> Nothing] /\ m.state = Nothing
    BY ReadyMessages
  <2>2. outbox' = Append(outbox, m) /\ sim' = sim /\ newest' = newest /\ UNCHANGED <<client, storage>>
    BY <1>3, <2>1 DEF NotStarted, loop, service
  <2>3. QED
    BY <1>sim, <1>worker, <2>1, <2>2
<1>4. ASSUME NEW answer \in Messages, Served(answer) PROVE Ordered'
  <2>1. sim.version <= sim'.version /\ sim'.version <= newest'
    <3>1. CASE sim' = sim /\ newest' = newest
      BY <1>sim, <3>1
    <3>2. CASE sim'.version = newest + 1 /\ newest' = newest + 1
      BY <1>bounds, <1>hyp, <1>types, <1>version, <3>2
    <3>3. QED
      BY <1>4, <3>1, <3>2 DEF Served
  <2>2. outbox' = Append(outbox, answer) /\ (answer.state = Nothing \/ answer.state = sim')
        /\ UNCHANGED <<client, storage>>
    BY <1>4 DEF Served
  <2>3. QED
    BY <1>worker, <2>1, <2>2
<1>5. ASSUME NEW message \in Messages, Advanced(message) PROVE Ordered'
  <2>1. sim'.version = newest' /\ newest <= newest' /\ message.state = sim'
        /\ outbox' = Append(outbox, message) /\ UNCHANGED <<client, storage>>
    BY <1>5 DEF Advanced
  <2>2. sim.version <= sim'.version /\ sim'.version <= newest'
    BY <1>bounds, <1>hyp, <1>types, <1>version, <2>1
  <2>3. QED
    BY <1>worker, <2>1, <2>2
<1>6. ASSUME Idled \/ Broken PROVE Ordered'
  BY <1>6, <1>same DEF Idled, Broken, service, client, storage
<1>7. ASSUME NEW c \in Calls, NEW request \in Tasks, Asked(c, request) PROVE Ordered'
  BY <1>7, <1>same DEF Asked, loop, service, storage
<1>8. CASE ReceiveAnswer
  <2>1. PICK answer \in Messages, c \in Calls :
            /\ answer = Head(outbox) /\ outbox # << >> /\ outbox' = Tail(outbox)
            /\ outbox' \in Seq(Messages)
            /\ answer.kind \in AnswerKinds /\ answer.caller = c
            /\ \/ calls[c] = Nothing /\ UNCHANGED <<chain, cache, calls, shown, told, saves>>
               \/ /\ calls[c] # Nothing /\ answer.kind \in StateKinds /\ answer.state \in States
                  /\ Accept(c, Installed(answer.state))
               \/ calls[c] # Nothing /\ ~fatal /\ Refresh(c)
               \/ calls[c] # Nothing /\ (answer.kind \in {"plain", "error"} \/ fatal) /\ Over(c)
    BY <1>8, Answered
  <2>2. UNCHANGED <<sim, newest, store>>
    BY <1>8 DEF ReceiveAnswer, loop, service
  <2>3. CASE UNCHANGED <<cache, told, saves>>
    BY <1>dropped, <2>1, <2>2, <2>3
  <2>4. CASE answer.state \in States /\ Accept(c, Installed(answer.state))
    <3>1. PICK y \in States : /\ y = Installed(answer.state)
                              /\ y = answer.state \/ (cache \in States /\ y = cache)
                              /\ answer.state.version <= y.version
      BY <2>4, InstalledFacts
    <3>2. PICK s \in Saves : s = Save(y, c) /\ s.caller = c /\ s.state = y /\ ~s.again
      BY Transactions
    <3>3. cache' = y /\ told' = told /\ saves' = Append(saves, s)
      BY <2>4, <3>1, <3>2 DEF Accept, Persist
    <3>4. QED
      BY <1>received, <2>1, <2>2, <2>4, <3>1, <3>2, <3>3
  <2>5. QED
    BY <2>1, <2>3, <2>4 DEF Refresh, Over
<1>9. CASE ReceivePersist
  <2>1. /\ Receive("persist") /\ Persist(Head(outbox).state, Nothing)
        /\ UNCHANGED <<sim, newest, told, cache, store>>
    BY <1>9 DEF ReceivePersist, loop, service, client
  <2>2. PICK y \in States : y = Head(outbox).state
    BY <2>1, Received, MessageFacts
  <2>3. PICK s \in Saves : s = Save(y, Nothing) /\ s.caller = Nothing /\ s.state = y /\ ~s.again
    BY Transactions
  <2>4. outbox # << >> /\ outbox' = Tail(outbox) /\ saves' = Append(saves, s)
    BY <2>1, <2>2, <2>3, Received DEF Persist
  <2>5. y.version <= y.version
    BY <1>version
  <2>6. QED
    BY <1>received, <2>1, <2>2, <2>3, <2>4, <2>5
<1>10. CASE ReceiveReady
  <2>1. Receive("ready") /\ UNCHANGED <<sim, newest, told, cache, store>>
    BY <1>10 DEF ReceiveReady, loop, service
  <2>2. /\ Head(outbox).kind = "ready" /\ outbox # << >> /\ outbox' = Tail(outbox)
        /\ Head(outbox).state \in States \cup {Nothing}
    BY <2>1, Received, MessageFacts
  <2>3. CASE Head(outbox).state = Nothing
    <3>1. saves' = saves
      BY <1>10, <2>3 DEF ReceiveReady
    <3>2. QED
      BY <1>dropped, <2>1, <2>2, <3>1
  <2>4. CASE Head(outbox).state \in States
    <3>1. Persist(Head(outbox).state, "boot")
      BY <1>10, <2>4, <1>version DEF ReceiveReady
    <3>2. PICK y \in States : y = Head(outbox).state
      BY <2>4
    <3>3. PICK s \in Saves : s = Save(y, "boot") /\ s.caller = "boot" /\ s.state = y /\ ~s.again
      BY Transactions
    <3>4. saves' = Append(saves, s)
      BY <3>1, <3>2, <3>3 DEF Persist
    <3>5. cache = Nothing
      <4>1. Head(outbox) \in Range(outbox)
        BY <1>types, <2>2, TailRange
      <4>2. page = "loading"
        BY <2>2, <4>1 DEF Phased, Booted
      <4>3. QED
        BY <4>2 DEF Phased
    <3>6. y.version <= y.version
      BY <1>version
    <3>7. QED
      BY <1>received, <2>1, <2>2, <2>4, <3>2, <3>3, <3>4, <3>5, <3>6
  <2>5. QED
    BY <2>2, <2>3, <2>4
<1>11. CASE WorkerError
  BY <1>11, <1>same DEF WorkerError, loop, service, storage
\* The transaction at the head leaves.
<1>tail. ASSUME saves # << >>
         PROVE  /\ Head(saves) \in Saves /\ Head(saves) \in Range(saves)
                /\ Range(Tail(saves)) \subseteq Range(saves) /\ Replaying(Tail(saves))
                /\ Tail(saves) \in Seq(Saves)
                /\ \A s \in Range(Tail(saves)) : Head(saves).caller # Nothing \/ ~s.again =>
                      Head(saves).state.version <= s.state.version
  BY <1>hyp, <1>tail, <1>types, FirstOfReplay, TailRange, Tails
\* It is stored, and the page may be told and may open; a second save may follow.
<1>stored. ASSUME saves # << >>, NEW x \in States, x = Head(saves).state, store' = x,
                  UNCHANGED <<sim, newest, outbox>>,
                  told' = told \/ (Head(saves).caller # Nothing /\ told' = IF x.version > told THEN x.version ELSE told),
                  cache' = cache \/ (cache' = x /\ \A s \in Range(Tail(saves)) : s.caller = Nothing),
                  \/ saves' = Tail(saves)
                  \/ \E s \in Saves : /\ saves' = Append(Tail(saves), s) /\ s.again
                                      /\ x.version <= s.state.version
                                      /\ s.state = x \/ s.state = cache
                                      /\ cache # Nothing /\ cache' = cache /\ told' = told
                                      /\ cache.version <= s.state.version
                                      /\ s.state.version <= cache.version
           PROVE  Ordered'
  <2>1. /\ told <= x.version /\ x.version \in Nat /\ sim.version \in Nat
        /\ x.version <= sim.version
    BY <1>hyp, <1>stored, <1>tail, <1>types, <1>version DEF SavesCurrent, Current
  <2>2. told' \in Nat /\ told' <= x.version /\ (told' = told \/ (told' = x.version /\ Head(saves).caller # Nothing))
    BY <1>stored, <1>types, <2>1
  <2>3. cache' \in States \cup {Nothing}
    BY <1>stored, <1>types
  <2>4. \A z \in Range(saves') : z \in Range(Tail(saves))
            \/ (z.again /\ (z.state = x \/ z.state = cache) /\ x.version <= z.state.version
                /\ cache # Nothing /\ cache' = cache /\ told' = told /\ z.state.version <= cache.version)
    <3>1. CASE saves' = Tail(saves)
      BY <3>1
    <3>2. ASSUME NEW s \in Saves, saves' = Append(Tail(saves), s) PROVE Range(saves') = Range(Tail(saves)) \cup {s}
      <4>1. PICK q \in Seq(Saves) : q = Tail(saves)
        BY <1>stored, <1>tail
      <4>2. Range(Append(q, s)) = Range(q) \cup {s}
        BY AppendRange
      <4>3. QED
        BY <3>2, <4>1, <4>2
    <3>3. QED
      BY <1>stored, <3>1, <3>2
  <2>5. ASSUME NEW v \in Nat, Current(v) PROVE Current(v)'
    <3>1. x.version <= v /\ told <= v /\ (cache # Nothing => cache.version <= v)
          /\ \A z \in Range(saves) : z.state.version <= v
      BY <1>stored, <1>tail, <2>5 DEF Current
    <3>2. told' <= v
      BY <2>1, <2>2, <3>1
    <3>3. cache' # Nothing => cache'.version <= v
      BY <1>stored, <3>1
    <3>4. \A z \in Range(saves') : z.state.version <= v
      BY <1>stored, <1>tail, <2>4, <3>1
    <3>5. QED
      BY <1>stored, <3>1, <3>2, <3>3, <3>4 DEF Current
  <2>6. SimCurrent'
    <3>1. PICK v \in Nat : v = sim.version
      BY <2>1
    <3>2. Current(v)'
      BY <1>hyp, <2>5, <3>1
    <3>3. QED
      BY <1>hyp, <1>stored, <3>1, <3>2 DEF SimCurrent
  <2>7. MessagesCurrent'
    <3> SUFFICES ASSUME NEW m \in Range(outbox), m.state # Nothing
                 PROVE  Current(m.state.version)' /\ m.state.version <= sim'.version
      BY <1>stored DEF MessagesCurrent
    <3>1. Current(m.state.version) /\ m.state.version <= sim.version /\ m.state.version \in Nat
      BY <1>hyp, <1>message, <1>version DEF MessagesCurrent
    <3>2. QED
      BY <1>stored, <2>5, <3>1
  <2>8. Replaying(saves')
    <3>1. CASE saves' = Tail(saves)
      BY <1>stored, <1>tail, <3>1
    <3>2. ASSUME NEW s \in Saves, saves' = Append(Tail(saves), s), s.again,
                 cache # Nothing, cache.version <= s.state.version
          PROVE  Replaying(saves')
      <4>1. PICK q \in Seq(Saves) : q = Tail(saves)
        BY <1>stored, <1>tail
      <4>2. ASSUME NEW z \in Range(q), z.caller # Nothing PROVE z.state.version <= s.state.version
        <5>1. z \in Range(saves) /\ z.state \in States
          BY <1>save, <1>stored, <1>tail, <4>1
        <5>2. z.state.version <= cache.version
          BY <1>hyp, <3>2, <4>2, <5>1 DEF SavesCurrent
        <5>3. z.state.version \in Nat /\ s.state.version \in Nat /\ cache.version \in Nat
          BY <1>types, <1>version, <3>2, <5>1, SaveFacts
        <5>4. QED
          BY <3>2, <5>2, <5>3
      <4>3. Replaying(q)
        BY <1>stored, <1>tail, <4>1
      <4>4. Replaying(Append(q, s))
        BY <3>2, <4>2, <4>3, LastOfReplay
      <4>5. QED
        BY <3>2, <4>1, <4>4
    <3>3. QED
      BY <1>stored, <3>1, <3>2
  <2>9. SavesCurrent'
    <3> SUFFICES ASSUME NEW z \in Range(saves')
                 PROVE  /\ told' <= z.state.version
                        /\ store' # Nothing /\ ~z.again => store'.version <= z.state.version
                        /\ cache' # Nothing /\ z.caller # Nothing => z.state.version <= cache'.version
      BY DEF SavesCurrent
    <3>1. CASE z \in Range(Tail(saves))
      <4>1. z \in Range(saves) /\ z.state.version \in Nat
        BY <1>save, <1>stored, <1>tail, <1>version, <3>1
      <4>2. /\ told <= z.state.version
            /\ cache # Nothing /\ z.caller # Nothing => z.state.version <= cache.version
        BY <1>hyp, <4>1 DEF SavesCurrent
      <4>3. Head(saves).caller # Nothing \/ ~z.again => x.version <= z.state.version
        BY <1>stored, <1>tail, <3>1
      <4>4. told' <= z.state.version
        BY <2>2, <4>2, <4>3
      <4>5. cache' # Nothing /\ z.caller # Nothing => z.state.version <= cache'.version
        BY <1>stored, <3>1, <4>2
      <4>6. QED
        BY <1>stored, <4>3, <4>4, <4>5
    <3>2. CASE z.again /\ (z.state = x \/ z.state = cache) /\ x.version <= z.state.version
               /\ cache # Nothing /\ cache' = cache /\ told' = told /\ z.state.version <= cache.version
      <4>1. z.state.version \in Nat
        BY <1>types, <1>version, <3>2
      <4>2. told' <= z.state.version
        BY <1>types, <2>1, <3>2, <4>1
      <4>3. QED
        BY <3>2, <4>2
    <3>3. QED
      BY <2>4, <3>1, <3>2
  <2>10. ToldIsStored'
    BY <1>stored, <1>version, <2>2 DEF ToldIsStored
  <2>11. QED
    BY <1>hyp, <1>stored, <2>6, <2>7, <2>8, <2>9, <2>10 DEF Ordered
<1>12. CASE Commit
  <2>1. /\ saves # << >> /\ store' = Head(saves).state
        /\ Proceeds(Head(saves).state, Head(saves).caller)
        /\ UNCHANGED <<sim, newest, outbox>>
    BY <1>12 DEF Commit, loop, service
  <2>2. PICK x \in States, who \in Calls \cup {Nothing, "boot"} :
            x = Head(saves).state /\ who = Head(saves).caller
    BY <1>types, <2>1, Tails, SaveFacts
  <2>3. Proceeds(x, who)
    BY <2>1, <2>2
  <2>4. CASE who = Nothing
    <3>1. saves' = Tail(saves) /\ cache' = cache /\ told' = told
      BY <2>3, <2>4, StateFacts DEF Proceeds
    <3>2. QED
      BY <1>stored, <2>1, <2>2, <3>1
  <2>5. CASE who = "boot"
    <3>1. saves' = Tail(saves) /\ cache' = x /\ told' = IF x.version > told THEN x.version ELSE told
      BY <2>3, <2>5, StateFacts DEF Proceeds, Tell
    <3>2. FirstSave
      <4>1. page = "loading"
        BY <1>tail, <2>1, <2>2, <2>5 DEF Phased, Booted
      <4>2. QED
        BY <2>1, <4>1, LoadingFacts
    <3>3. \A s \in Range(Tail(saves)) : s.caller = Nothing
      <4>1. \A i \in DOMAIN Tail(saves) : i + 1 \in DOMAIN saves /\ i + 1 # 1
                                          /\ Tail(saves)[i] = saves[i + 1]
        BY <1>types, <2>1, Tails
      <4>2. QED
        BY <3>2, <4>1 DEF FirstSave, Range
    <3>4. Head(saves).caller # Nothing
      BY <2>2, <2>5, StateFacts
    <3>5. QED
      BY <1>stored, <2>1, <2>2, <3>1, <3>3, <3>4
  <2>6. CASE who \in Calls /\ ~calls[who].refreshing
    <3>1. saves' = Tail(saves) /\ cache' = cache /\ told' = IF x.version > told THEN x.version ELSE told
      BY <2>3, <2>6, StateFacts DEF Proceeds, Tell
    <3>2. Head(saves).caller # Nothing
      BY <2>2, <2>6, StateFacts
    <3>3. QED
      BY <1>stored, <2>1, <2>2, <3>1, <3>2
  <2>7. CASE who \in Calls /\ calls[who].refreshing
    <3>1. /\ saves' = Append(Tail(saves), [Save(Installed(x), who) EXCEPT !.again = TRUE])
          /\ cache' = cache /\ told' = told
      BY <2>3, <2>7, StateFacts DEF Proceeds
    <3>2. PICK y \in States : y = Installed(x) /\ (y = x \/ (cache \in States /\ y = cache))
                              /\ x.version <= y.version
                              /\ (cache # Nothing => cache.version <= y.version)
      BY InstalledFacts
    <3>3. PICK s \in Saves : s = [Save(y, who) EXCEPT !.again = TRUE] /\ s.state = y /\ s.again
      BY Transactions
    <3>4. cache # Nothing
      <4>1. calls[who] # Nothing
        BY <2>1, <2>2, <2>7, HeadWaits, StateFacts
      <4>2. QED
        BY <2>7, <4>1 DEF Phased
    <3>5. x.version <= cache.version
      BY <1>hyp, <1>tail, <2>1, <2>2, <2>7, <3>4, StateFacts DEF SavesCurrent
    <3>6. y.version <= cache.version
      BY <1>types, <1>version, <3>2, <3>4, <3>5
    <3>7. saves' = Append(Tail(saves), s)
      BY <3>1, <3>2, <3>3
    <3>8. QED
      BY <1>stored, <2>1, <2>2, <3>1, <3>2, <3>3, <3>4, <3>6, <3>7
  <2>8. QED
    BY <2>4, <2>5, <2>6, <2>7
<1>13. CASE SaveFails
  <2>1. /\ saves # << >> /\ saves' = Tail(saves)
        /\ UNCHANGED <<sim, newest, outbox, cache, told, store>>
    BY <1>13 DEF SaveFails, loop, service
  <2>2. Replaying(saves') /\ Range(saves') \subseteq Range(saves)
    BY <1>tail, <2>1
  <2>3. \A v : Current(v) => Current(v)'
    BY <2>1, <2>2 DEF Current
  <2>4. SimCurrent'
    <3>1. PICK v : v = sim.version
      OBVIOUS
    <3>2. Current(v)'
      BY <1>hyp, <2>3, <3>1
    <3>3. QED
      BY <1>hyp, <2>1, <3>1, <3>2 DEF SimCurrent
  <2>5. MessagesCurrent'
    BY <1>hyp, <2>1, <2>3 DEF MessagesCurrent
  <2>6. SavesCurrent' /\ ToldIsStored'
    BY <1>hyp, <2>1, <2>2 DEF SavesCurrent, ToldIsStored
  <2>7. QED
    BY <1>hyp, <2>1, <2>2, <2>4, <2>5, <2>6 DEF Ordered
\* Nothing is under way: what is known of the states is what is stored.
<1>empty. ASSUME outbox' = << >>, saves' = << >>, UNCHANGED <<sim, newest, told>>,
                 store' = store \/ \E s \in Range(saves) : store' = s.state,
                 cache' = cache \/ cache' = Nothing
          PROVE  Ordered'
  <2>1. Range(outbox') = {} /\ Range(saves') = {} /\ DOMAIN outbox' = {} /\ DOMAIN saves' = {}
    BY <1>empty DEF Range
  <2>2. InOrder(outbox') /\ Replaying(saves') /\ MessagesCurrent' /\ SavesCurrent'
    BY <2>1 DEF InOrder, Replaying, MessagesCurrent, SavesCurrent
  <2>3. SimCurrent'
    <3>1. store' # Nothing => store'.version <= sim.version
      BY <1>empty, <1>hyp DEF Current
    <3>2. cache' # Nothing => cache'.version <= sim.version
      BY <1>empty, <1>hyp DEF Current
    <3>3. QED
      BY <1>empty, <1>hyp, <2>1, <3>1, <3>2 DEF SimCurrent, Current
  <2>4. ToldIsStored'
    <3>1. CASE store' = store
      BY <1>empty, <1>hyp, <3>1 DEF ToldIsStored
    <3>2. ASSUME NEW s \in Range(saves), store' = s.state PROVE ToldIsStored'
      <4>1. told <= s.state.version /\ s.state # Nothing
        BY <1>hyp, <1>save, <1>version DEF SavesCurrent
      <4>2. QED
        BY <1>empty, <3>2, <4>1 DEF ToldIsStored
    <3>3. QED
      BY <1>empty, <3>1, <3>2
  <2>5. QED
    BY <2>2, <2>3, <2>4 DEF Ordered
<1>14. CASE Close
  <2>1. /\ outbox' = << >> /\ saves' = << >> /\ UNCHANGED <<sim, newest, told, cache>>
        /\ store' \in {store} \cup {saves[i].state : i \in DOMAIN saves}
    BY <1>14 DEF Close, service
  <2>2. store' = store \/ \E s \in Range(saves) : store' = s.state
    BY <2>1 DEF Range
  <2>3. QED
    BY <1>empty, <2>1, <2>2
<1>15. CASE Reopen
  <2>1. page = "closed" /\ cache' = Nothing
        /\ UNCHANGED <<sim, newest, outbox, saves, told, store>>
    BY <1>15 DEF Reopen, Loading, loop, service, storage
  <2>2. outbox' = << >> /\ saves' = << >>
    BY <2>1 DEF Phased
  <2>3. QED
    BY <1>empty, <2>1, <2>2
<1>16. CASE UNCHANGED vars
  BY <1>16, <1>same DEF vars, loop, service, client, storage
<1>17. QED
  BY <1>1, <1>2, <1>3, <1>4, <1>5, <1>6, <1>7, <1>8, <1>9, <1>10, <1>11, <1>12, <1>13, <1>14, <1>15, <1>16,
     InitSteps, ServeSteps, TickSteps, AskSteps DEF Next, Work


(***************************************************************************)
(* A version says whether the simulation runs.                             *)
(***************************************************************************)

LEMMA KnownFacts ==
  ASSUME Typed, Ordered
  PROVE  /\ Known \subseteq States \cup {Nothing}
         /\ \A x \in Known \ {Nothing} : x \in States /\ x.version \in Nat /\ x.version <= sim.version
         /\ sim.version \in Nat /\ newest \in Nat /\ sim.version <= newest
<1>1. /\ sim \in States /\ newest \in 0..MaxVersion /\ cache \in States \cup {Nothing}
      /\ store \in States \cup {Nothing}
      /\ Range(outbox) \subseteq Messages /\ Range(saves) \subseteq Saves
  BY TypeFacts
<1>2. sim.version \in Nat /\ newest \in Nat /\ sim.version <= newest
  BY <1>1, StateFacts DEF Ordered, SimCurrent
<1>3. \A m \in Range(outbox) : m.state # Nothing => m.state \in States /\ m.state.version <= sim.version
  BY <1>1, MessageFacts DEF Ordered, MessagesCurrent
<1>4. \A s \in Range(saves) : s.state \in States /\ s.state.version <= sim.version
  BY <1>1, SaveFacts DEF Ordered, SimCurrent, Current
<1>5. (cache # Nothing => cache.version <= sim.version) /\ (store # Nothing => store.version <= sim.version)
  BY DEF Ordered, SimCurrent, Current
<1>6. ASSUME NEW x \in Known \ {Nothing} PROVE x \in States /\ x.version <= sim.version
  BY <1>1, <1>3, <1>4, <1>5, <1>6 DEF Known
<1>7. QED
  BY <1>2, <1>6, StateFacts

\* The states that are known were known before, or are the worker's.
LEMMA KnownStep ==
  ASSUME Typed, Calling, Phased, [Next]_vars
  PROVE  Known' \subseteq Known \cup {sim', Nothing}
<1>types. /\ chain \in Seq(Tasks) /\ outbox \in Seq(Messages) /\ saves \in Seq(Saves)
  BY TypeFacts
<1>worker. ASSUME UNCHANGED <<client, storage>>,
                  \/ outbox' = outbox
                  \/ \E m \in Messages : outbox' = Append(outbox, m) /\ (m.state = Nothing \/ m.state = sim')
           PROVE  Known' \subseteq Known \cup {sim', Nothing}
  <2>1. UNCHANGED <<cache, store, saves>>
    BY <1>worker DEF client, storage
  <2>2. ASSUME NEW m \in Range(outbox') PROVE m \in Range(outbox) \/ m.state \in {sim', Nothing}
    <3>1. ASSUME NEW n \in Messages, outbox' = Append(outbox, n) PROVE Range(outbox') = Range(outbox) \cup {n}
      BY <1>types, <3>1, AppendRange
    <3>2. QED
      BY <1>worker, <3>1
  <2>3. QED
    BY <2>1, <2>2 DEF Known
\* What the page and storage do adds no state.
<1>page. ASSUME Range(outbox') \subseteq Range(outbox), cache' \in Known \cup {Nothing}, store' \in Known,
                \A s \in Range(saves') : s \in Range(saves) \/ s.state \in Known
         PROVE  Known' \subseteq Known \cup {sim', Nothing}
  BY <1>page DEF Known
<1>known. /\ cache \in Known /\ store \in Known /\ (\A s \in Range(saves) : s.state \in Known)
          /\ \A m \in Range(outbox) : m.state \in Known
  BY DEF Known
<1>still. ASSUME UNCHANGED <<outbox, cache, store, saves>> PROVE Known' \subseteq Known \cup {sim', Nothing}
  BY <1>still DEF Known
<1>outbox. outbox # << >> => Head(outbox) \in Range(outbox) /\ Range(Tail(outbox)) \subseteq Range(outbox)
  BY <1>types, TailRange
<1>tail. saves # << >> => /\ Head(saves) \in Range(saves) /\ Range(Tail(saves)) \subseteq Range(saves)
                          /\ Tail(saves) \in Seq(Saves)
  BY <1>types, TailRange, Tails
<1>1. CASE TimerFires \/ WorkerError \/ (\E c \in Calls, request \in Tasks : Asked(c, request))
           \/ UNCHANGED vars \/ Idled \/ Broken
  BY <1>1, <1>still DEF TimerFires, WorkerError, Asked, vars, Idled, Broken, client, storage
<1>2. ASSUME NEW x \in States, Started(x) PROVE Known' \subseteq Known \cup {sim', Nothing}
  <2>1. PICK m \in Messages : m = [kind |-> "ready", state |-> x] /\ m.state = x
    BY ReadyMessages
  <2>2. QED
    BY <1>2, <1>worker, <2>1 DEF Started
<1>3. CASE NotStarted
  <2>1. PICK m \in Messages : m = [kind |-> "ready", state |-> Nothing] /\ m.state = Nothing
    BY ReadyMessages
  <2>2. QED
    BY <1>3, <1>worker, <2>1 DEF NotStarted
<1>4. ASSUME NEW answer \in Messages, Served(answer) \/ Advanced(answer)
      PROVE  Known' \subseteq Known \cup {sim', Nothing}
  BY <1>4, <1>worker DEF Served, Advanced
\* A transaction of a state that is known.
<1>more. ASSUME NEW q \in Seq(Saves), Range(q) \subseteq Range(saves), NEW s \in Saves,
                saves' = Append(q, s), s.state \in Known
         PROVE  \A z \in Range(saves') : z \in Range(saves) \/ z.state \in Known
  <2>1. Range(Append(q, s)) = Range(q) \cup {s}
    BY AppendRange
  <2>2. QED
    BY <1>more, <2>1
<1>5. CASE ReceiveAnswer
  <2>1. PICK answer \in Messages, c \in Calls :
            /\ answer = Head(outbox) /\ outbox # << >> /\ outbox' = Tail(outbox)
            /\ outbox' \in Seq(Messages)
            /\ answer.kind \in AnswerKinds /\ answer.caller = c
            /\ \/ calls[c] = Nothing /\ UNCHANGED <<chain, cache, calls, shown, told, saves>>
               \/ /\ calls[c] # Nothing /\ answer.kind \in StateKinds /\ answer.state \in States
                  /\ Accept(c, Installed(answer.state))
               \/ calls[c] # Nothing /\ ~fatal /\ Refresh(c)
               \/ calls[c] # Nothing /\ (answer.kind \in {"plain", "error"} \/ fatal) /\ Over(c)
    BY <1>5, Answered
  <2>2. Range(outbox') \subseteq Range(outbox) /\ store' = store /\ answer.state \in Known
    BY <1>5, <1>known, <1>outbox, <2>1 DEF ReceiveAnswer
  <2>3. CASE UNCHANGED <<cache, saves>>
    BY <1>known, <1>page, <2>2, <2>3
  <2>4. CASE answer.state \in States /\ Accept(c, Installed(answer.state))
    <3>1. PICK y \in States : y = Installed(answer.state) /\ (y = answer.state \/ y = cache)
      BY <2>4, InstalledFacts
    <3>2. PICK s \in Saves : s = Save(y, c) /\ s.state = y
      BY Transactions
    <3>3. cache' = y /\ saves' = Append(saves, s) /\ y \in Known
      BY <1>known, <2>2, <2>4, <3>1, <3>2 DEF Accept, Persist
    <3>4. \A z \in Range(saves') : z \in Range(saves) \/ z.state \in Known
      BY <1>more, <1>types, <3>2, <3>3
    <3>5. QED
      BY <1>known, <1>page, <2>2, <3>3, <3>4
  <2>5. QED
    BY <2>1, <2>3, <2>4 DEF Refresh, Over
<1>6. CASE ReceivePersist \/ ReceiveReady
  <2>1. PICK kind \in {"persist", "ready"} : Receive(kind)
    BY <1>6 DEF ReceivePersist, ReceiveReady
  <2>2. PICK x \in States \cup {Nothing} : x = Head(outbox).state
    BY <2>1, Received, MessageFacts
  <2>3. outbox # << >> /\ outbox' = Tail(outbox) /\ (ReceivePersist => x \in States)
    BY <2>1, <2>2, Received, MessageFacts DEF ReceivePersist
  <2>4. Range(outbox') \subseteq Range(outbox) /\ x \in Known /\ UNCHANGED <<cache, store>>
    BY <1>6, <1>known, <1>outbox, <2>2, <2>3 DEF ReceivePersist, ReceiveReady, client
  <2>5. saves' = saves \/ (x \in States /\ \E who \in {Nothing, "boot"} : Persist(x, who))
    BY <1>6, <2>2, <2>3 DEF ReceivePersist, ReceiveReady
  <2>6. CASE saves' = saves
    BY <1>known, <1>page, <2>4, <2>6
  <2>7. ASSUME x \in States, NEW who \in {Nothing, "boot"}, Persist(x, who)
        PROVE  Known' \subseteq Known \cup {sim', Nothing}
    <3>1. PICK s \in Saves : s = Save(x, who) /\ s.state = x
      BY <2>7, Transactions
    <3>2. saves' = Append(saves, s)
      BY <2>7, <3>1 DEF Persist
    <3>3. \A z \in Range(saves') : z \in Range(saves) \/ z.state \in Known
      BY <1>more, <1>types, <2>4, <3>1, <3>2
    <3>4. QED
      BY <1>known, <1>page, <2>4, <3>3
  <2>8. QED
    BY <2>5, <2>6, <2>7
<1>7. CASE Commit
  <2>1. /\ saves # << >> /\ store' = Head(saves).state
        /\ Proceeds(Head(saves).state, Head(saves).caller) /\ outbox' = outbox
    BY <1>7 DEF Commit
  <2>2. PICK x \in States, who \in Calls \cup {Nothing, "boot"} :
            x = Head(saves).state /\ who = Head(saves).caller
    BY <1>types, <2>1, Tails, SaveFacts
  <2>3. Proceeds(x, who) /\ x \in Known /\ store' = x
    BY <1>known, <1>tail, <2>1, <2>2
  <2>4. cache' \in {cache, x}
    BY <2>3 DEF Proceeds
  <2>5. CASE saves' = Tail(saves)
    BY <1>known, <1>page, <1>tail, <2>1, <2>3, <2>4, <2>5
  <2>6. CASE saves' = Append(Tail(saves), [Save(Installed(x), who) EXCEPT !.again = TRUE])
    <3>1. PICK y \in States : y = Installed(x) /\ (y = x \/ y = cache)
      BY InstalledFacts
    <3>2. PICK s \in Saves : s = [Save(y, who) EXCEPT !.again = TRUE] /\ s.state = y
      BY Transactions
    <3>3. saves' = Append(Tail(saves), s) /\ y \in Known
      BY <1>known, <2>3, <2>6, <3>1, <3>2
    <3>4. \A z \in Range(saves') : z \in Range(saves) \/ z.state \in Known
      BY <1>more, <1>tail, <2>1, <3>2, <3>3
    <3>5. QED
      BY <1>known, <1>page, <2>1, <2>3, <2>4, <3>4
  <2>7. QED
    BY <2>3, <2>5, <2>6 DEF Proceeds
<1>8. CASE SaveFails
  <2>1. saves # << >> /\ saves' = Tail(saves) /\ UNCHANGED <<outbox, cache, store>>
    BY <1>8 DEF SaveFails
  <2>2. QED
    BY <1>known, <1>page, <1>tail, <2>1
<1>9. CASE Close
  <2>1. /\ outbox' = << >> /\ saves' = << >> /\ cache' = cache
        /\ store' \in {store} \cup {saves[i].state : i \in DOMAIN saves}
    BY <1>9 DEF Close
  <2>2. Range(outbox') = {} /\ Range(saves') = {}
    BY <2>1 DEF Range
  <2>3. store' \in Known
    BY <1>known, <2>1 DEF Range
  <2>4. QED
    BY <1>known, <1>page, <2>1, <2>2, <2>3
<1>10. CASE Reopen
  <2>1. cache' = Nothing /\ UNCHANGED <<outbox, saves, store>>
    BY <1>10 DEF Reopen, Loading, storage
  <2>2. QED
    BY <1>known, <1>page, <2>1
<1>11. QED
  BY <1>1, <1>2, <1>3, <1>4, <1>5, <1>6, <1>7, <1>8, <1>9, <1>10,
     InitSteps, ServeSteps, TickSteps, AskSteps DEF Next, Work

LEMMA AgreeInit == Init => Agreed
<1> SUFFICES ASSUME Init PROVE Agreed
  OBVIOUS
<1>1. outbox = << >> /\ saves = << >> /\ cache = Nothing /\ store = Nothing
  BY DEF Init
<1>2. Range(outbox) = {} /\ Range(saves) = {}
  BY <1>1 DEF Range
<1>3. QED
  BY <1>1, <1>2 DEF Agreed, Known

LEMMA AgreeStep == Typed /\ Calling /\ Phased /\ Ordered /\ Agreed /\ [Next]_vars /\ Typed' => Agreed'
<1> SUFFICES ASSUME Typed, Calling, Phased, Ordered, Agreed, [Next]_vars, Typed' PROVE Agreed'
  OBVIOUS
<1>types. sim \in States /\ newest \in 0..MaxVersion /\ store \in States \cup {Nothing}
          /\ chain \in Seq(Tasks) /\ outbox \in Seq(Messages)
  BY TypeFacts
<1>types2. sim' \in States /\ newest' \in 0..MaxVersion /\ sim'.version \in Nat /\ newest' \in Nat
  BY StateFacts DEF Typed, WorkerTyped
<1>known. /\ \A x \in Known \ {Nothing} : x \in States /\ x.version \in Nat /\ x.version <= sim.version
          /\ sim.version \in Nat /\ newest \in Nat /\ sim.version <= newest
  BY KnownFacts
<1>step. Known' \subseteq Known \cup {sim', Nothing}
  BY KnownStep
<1>goal. ASSUME \A x \in Known \ {Nothing} : x.version = sim'.version => x.running = sim'.running
         PROVE  Agreed'
  BY <1>goal, <1>step DEF Agreed
<1>same. ASSUME sim' = sim PROVE Agreed'
  BY <1>goal, <1>same DEF Agreed
<1>fresh. ASSUME sim'.version = newest + 1 PROVE Agreed'
  <2>1. \A x \in Known \ {Nothing} : x.version # sim'.version
    BY <1>fresh, <1>known
  <2>2. QED
    BY <1>goal, <2>1
<1>1. CASE \/ TimerFires \/ ReceiveAnswer \/ ReceivePersist \/ ReceiveReady \/ WorkerError
           \/ Commit \/ SaveFails \/ Close \/ Reopen \/ UNCHANGED vars
  <2>1. sim' = sim
    BY <1>1 DEF TimerFires, ReceiveAnswer, ReceivePersist, ReceiveReady, WorkerError, Commit, SaveFails,
                Close, Reopen, vars, loop, service
  <2>2. QED
    BY <1>same, <2>1
<1>2. ASSUME NEW c \in Calls, NEW request \in Tasks, Asked(c, request) PROVE Agreed'
  BY <1>2, <1>same DEF Asked, loop, service
<1>3. CASE NotStarted
  BY <1>3, <1>same DEF NotStarted, loop, service
<1>4. ASSUME NEW x \in States, Started(x) PROVE Agreed'
  <2>1. Head(chain).kind = "init" /\ chain # << >> /\ UNCHANGED <<cache, store, saves>> /\ sim' = x
    BY <1>4 DEF Started, client, storage
  <2>2. page = "loading" /\ Starting /\ cache = Nothing
    <3>1. Head(chain) \in Range(chain)
      BY <1>types, <2>1, TailRange
    <3>2. page = "loading"
      BY <2>1, <3>1 DEF Phased, Booted
    <3>3. QED
      BY <2>1, <3>2, LoadingFacts DEF Phased
  <2>3. Head(chain) = InitTask(store) /\ outbox = << >> /\ saves = << >>
    BY <2>2 DEF Starting
  <2>4. store # Nothing => x.running = store.running
    <3>1. store # Nothing => x = [store EXCEPT !.lattice = newest + 1]
      BY <1>4, <2>3 DEF Started, InitTask
    <3>2. ASSUME NEW z \in States PROVE [z EXCEPT !.lattice = newest + 1].running = z.running
      BY DEF States
    <3>3. QED
      BY <1>types, <3>1, <3>2
  <2>5. Range(outbox) = {} /\ Range(saves) = {}
    BY <2>3 DEF Range
  <2>6. Known = {Nothing, store}
    BY <2>2, <2>5 DEF Known
  <2>7. QED
    BY <1>goal, <2>1, <2>4, <2>6
<1>5. ASSUME NEW answer \in Messages, Served(answer) PROVE Agreed'
  BY <1>5, <1>fresh, <1>same DEF Served
<1>6. ASSUME NEW message \in Messages, Advanced(message) PROVE Agreed'
  <2>1. sim.running /\ sim'.running /\ sim'.version = newest' /\ newest <= newest'
    BY <1>6 DEF Advanced
  <2>2. sim.running = TRUE /\ sim'.running = TRUE
    BY <1>types, <1>types2, <2>1, StateFacts, Zenon
  <2>3. ASSUME NEW x \in Known \ {Nothing}, x.version = sim'.version PROVE x.running = sim'.running
    <3>1. x.version = sim.version
      BY <1>known, <1>types2, <2>1, <2>3
    <3>2. x.running = sim.running
      BY <3>1 DEF Agreed
    <3>3. QED
      BY <2>2, <3>2, Zenon
  <2>4. QED
    BY <1>goal, <2>3
<1>7. CASE Idled \/ Broken
  BY <1>7, <1>same DEF Idled, Broken, service
<1>8. QED
  BY <1>1, <1>2, <1>3, <1>4, <1>5, <1>6, <1>7,
     InitSteps, ServeSteps, TickSteps, AskSteps DEF Next, Work


(***************************************************************************)
(* A paused simulation is on its way to storage.                           *)
(***************************************************************************)

\* The end of the queue of transactions.
LEMMA LastSave ==
  ASSUME NEW q \in Seq(Saves)
  PROVE  /\ \A e \in Saves : Append(q, e) # << >> /\ Append(q, e)[Len(Append(q, e))] = e
         /\ q # << >> => /\ q[Len(q)] \in Range(q)
                         /\ IF Tail(q) = << >> THEN q[Len(q)] = Head(q)
                            ELSE Tail(q)[Len(Tail(q))] = q[Len(q)]
<1>1. ASSUME NEW e \in Saves PROVE Append(q, e) # << >> /\ Append(q, e)[Len(Append(q, e))] = e
  BY Appends
<1>2. ASSUME q # << >>
      PROVE  /\ q[Len(q)] \in Range(q)
             /\ IF Tail(q) = << >> THEN q[Len(q)] = Head(q) ELSE Tail(q)[Len(Tail(q))] = q[Len(q)]
  <2>1. PICK r : r = Tail(q)
    OBVIOUS
  <2>2. /\ Head(q) = q[1] /\ Len(q) \in Nat /\ Len(q) >= 1 /\ r \in Seq(Saves)
        /\ DOMAIN q = 1 .. Len(q) /\ DOMAIN r = 1 .. Len(q) - 1
        /\ \A i \in DOMAIN r : r[i] = q[i + 1]
    BY <1>2, <2>1, Tails
  <2>3. q[Len(q)] \in Range(q)
    BY <2>2 DEF Range
  <2>4. Len(r) = Len(q) - 1
    BY <1>2, <2>1
  <2>5. CASE r = << >>
    <3>1. Len(r) = 0
      BY <2>5
    <3>2. Len(q) = 1
      BY <2>2, <2>4, <3>1
    <3>3. QED
      BY <2>1, <2>2, <2>3, <2>5, <3>2
  <2>6. CASE r # << >>
    <3>1. Len(r) # 0
      BY <2>2, <2>6
    <3>2. Len(r) \in DOMAIN r /\ Len(r) + 1 = Len(q)
      BY <2>2, <2>4, <3>1
    <3>3. r[Len(r)] = q[Len(q)]
      BY <2>2, <3>2
    <3>4. QED
      BY <2>1, <2>3, <2>6, <3>3
  <2>7. QED
    BY <2>5, <2>6
<1>3. QED
  BY <1>1, <1>2


LEMMA PausedInit == Init => Paused
BY DEF Init, Paused

LEMMA PausedStep ==
  Typed /\ Calling /\ Phased /\ Ordered /\ Paused /\ [Next]_vars /\ Typed' /\ Ordered' => Paused'
<1> SUFFICES ASSUME Typed, Calling, Phased, Ordered, Paused, [Next]_vars, Typed', Ordered',
                    ready', ~sim'.running, used'.failures = 0
             PROVE  OnItsWay'
  BY DEF Paused
<1>types. /\ sim \in States
          /\ chain \in Seq(Tasks) /\ outbox \in Seq(Messages) /\ saves \in Seq(Saves)
          /\ Range(outbox) \subseteq Messages /\ Range(saves) \subseteq Saves
          /\ store \in States \cup {Nothing} /\ cache \in States \cup {Nothing}
          /\ used.failures \in Nat /\ page \in {"loading", "open", "failed", "closed"}
  BY TypeFacts
<1>known. /\ \A x \in Known \ {Nothing} : x \in States /\ x.version \in Nat /\ x.version <= sim.version
          /\ sim.version \in Nat
  BY KnownFacts
<1>version. \A x \in States : x.version \in Nat /\ x # Nothing
  BY StateFacts
<1>hyp. ready /\ ~sim.running /\ used.failures = 0 => OnItsWay
  BY DEF Paused
\* So far nothing has failed.
<1>fail. ~Failure
  BY Failing
<1>well. used'.failures = used.failures => ~fatal /\ page # "failed"
  BY DEF Phased
\* The queues.
<1>chain. chain # << >> => Range(chain) = {Head(chain)} \cup Range(Tail(chain))
  BY <1>types, TailRange
<1>outbox. outbox # << >> => /\ Range(outbox) = {Head(outbox)} \cup Range(Tail(outbox))
                             /\ Head(outbox) \in Range(outbox)
  BY <1>types, TailRange
<1>last. saves # << >> => /\ saves[Len(saves)] \in Range(saves) /\ Head(saves) \in Saves
                          /\ saves[Len(saves)].state \in Known \ {Nothing}
                          /\ Head(saves).state \in Known \ {Nothing}
                          /\ IF Tail(saves) = << >> THEN saves[Len(saves)] = Head(saves)
                             ELSE Tail(saves)[Len(Tail(saves))] = saves[Len(saves)]
  <2> SUFFICES ASSUME saves # << >> PROVE
        /\ saves[Len(saves)] \in Range(saves) /\ Head(saves) \in Saves
        /\ saves[Len(saves)].state \in Known \ {Nothing} /\ Head(saves).state \in Known \ {Nothing}
        /\ IF Tail(saves) = << >> THEN saves[Len(saves)] = Head(saves)
           ELSE Tail(saves)[Len(Tail(saves))] = saves[Len(saves)]
    OBVIOUS
  <2>1. /\ saves[Len(saves)] \in Range(saves)
        /\ IF Tail(saves) = << >> THEN saves[Len(saves)] = Head(saves)
           ELSE Tail(saves)[Len(Tail(saves))] = saves[Len(saves)]
    BY <1>types, LastSave
  <2>2. Head(saves) \in Range(saves)
    BY <1>types, TailRange
  <2>3. \A s \in Range(saves) : s \in Saves /\ s.state \in Known /\ s.state # Nothing
    BY <1>types, <1>version, SaveFacts DEF Known
  <2>4. QED
    BY <2>1, <2>2, <2>3
\* Nothing leaves a queue, and neither sim nor the page's state changes.
<1>still. ASSUME UNCHANGED <<sim, cache, store, saves, ready>>, used'.failures = used.failures,
                 ToBeAsked => ToBeAsked',
                 ToBeReceived => ToBeReceived'
          PROVE  OnItsWay'
  <2>1. OnItsWay
    BY <1>hyp, <1>still
  <2>2. (ToBeSaved => ToBeSaved') /\ (Stored => Stored')
    BY <1>still DEF ToBeSaved, Stored, CacheIsLast
  <2>3. QED
    BY <1>still, <2>1, <2>2 DEF OnItsWay
<1>same. sim' = sim => \A m : Carries(m)' <=> Carries(m)
  BY DEF Carries
<1>1. CASE TimerFires
  <2>1. Tick \in Tasks /\ chain' = Append(chain, Tick)
        /\ UNCHANGED <<sim, cache, store, saves, ready, outbox, used>>
    BY <1>1 DEF TimerFires, Tasks, service, client, storage
  <2>2. Range(chain') = Range(chain) \cup {Tick}
    BY <1>types, <2>1, AppendRange
  <2>3. QED
    BY <1>same, <1>still, <2>1, <2>2 DEF ToBeAsked, ToBeReceived
\* The state is said to the page.
<1>said. ASSUME NEW m \in Messages, outbox' = Append(outbox, m), m.kind \in StateKinds \cup {"ready"},
                m.state = sim'
         PROVE  OnItsWay'
  <2>1. Range(outbox') = Range(outbox) \cup {m}
    BY <1>said, <1>types, AppendRange
  <2>2. sim' # Nothing
    BY <1>version DEF Typed, WorkerTyped
  <2>3. Carries(m)'
    BY <1>said, <2>2 DEF Carries
  <2>4. QED
    BY <2>1, <2>3 DEF OnItsWay, ToBeReceived
<1>2. ASSUME NEW x \in States, Started(x) PROVE OnItsWay'
  <2>1. PICK m \in Messages : m = [kind |-> "ready", state |-> x] /\ m.kind = "ready" /\ m.state = x
    BY ReadyMessages
  <2>2. outbox' = Append(outbox, m) /\ m.state = sim'
    BY <1>2, <2>1 DEF Started
  <2>3. QED
    BY <1>said, <2>1, <2>2
<1>3. CASE NotStarted
  BY <1>3, <1>fail DEF NotStarted
<1>4. ASSUME NEW answer \in Messages, Served(answer) PROVE OnItsWay'
  <2>1. CASE answer.kind \in StateKinds /\ answer.state = sim'
    BY <1>4, <1>said, <2>1 DEF Served
  <2>2. CASE sim' = sim /\ Head(chain).kind # "full"
    <3>1. /\ chain # << >> /\ chain' = Tail(chain) /\ outbox' = Append(outbox, answer)
          /\ UNCHANGED <<cache, store, saves, ready, used>>
      BY <1>4 DEF Served, client, storage
    <3>2. Range(outbox') = Range(outbox) \cup {answer}
      BY <1>types, <3>1, AppendRange
    <3>3. QED
      BY <1>chain, <1>same, <1>still, <2>2, <3>1, <3>2 DEF ToBeAsked, ToBeReceived
  <2>3. QED
    BY <1>4, <2>1, <2>2 DEF Served
<1>5. ASSUME NEW message \in Messages, Advanced(message) PROVE OnItsWay'
  BY <1>5 DEF Advanced
<1>6. CASE Idled
  <2>1. /\ chain # << >> /\ chain' = Tail(chain) /\ Head(chain).kind = "tick"
        /\ UNCHANGED <<sim, outbox, cache, store, saves, ready, used>>
    BY <1>6 DEF Idled, service, client, storage
  <2>2. QED
    BY <1>chain, <1>same, <1>still, <2>1 DEF ToBeAsked, ToBeReceived
<1>7. CASE Broken
  BY <1>7, <1>fail DEF Broken
<1>8. ASSUME NEW c \in Calls, NEW request \in Tasks, Asked(c, request) PROVE OnItsWay'
  <2>1. /\ chain' = Append(chain, request)
        /\ UNCHANGED <<sim, outbox, cache, store, saves, ready>>
    BY <1>8 DEF Asked, loop, service, storage
  <2>2. used'.failures = used.failures
    BY <1>8, Failing DEF Asked
  <2>3. Range(chain') = Range(chain) \cup {request}
    BY <1>types, <2>1, AppendRange
  <2>4. QED
    BY <1>same, <1>still, <2>1, <2>2, <2>3 DEF ToBeAsked, ToBeReceived
\* A message that carries no state leaves.
<1>dropped. ASSUME outbox # << >>, outbox' = Tail(outbox), ~Carries(Head(outbox)),
                   UNCHANGED <<sim, ready, chain, cache, store, saves, used>>
            PROVE  OnItsWay'
  BY <1>dropped, <1>outbox, <1>same, <1>still DEF ToBeAsked, ToBeReceived
\* A message leaves, and its state is saved behind all others.
<1>received. ASSUME outbox # << >>, outbox' = Tail(outbox), Head(outbox).state \in States,
                    NEW y \in States, NEW s \in Saves, s.state = y, saves' = Append(saves, s),
                    Head(outbox).state.version <= y.version,
                    y = Head(outbox).state \/ y = cache,
                    \/ cache' = y
                    \/ cache' = cache /\ (cache = Nothing \/ ~Carries(Head(outbox))),
                    UNCHANGED <<sim, ready, chain, store, used>>
             PROVE  OnItsWay'
  <2>1. OnItsWay
    BY <1>hyp, <1>received
  <2>2. /\ Head(outbox) \in Range(outbox)
        /\ Head(outbox).state \in Known \ {Nothing} /\ y \in Known \ {Nothing}
    BY <1>outbox, <1>received, <1>version DEF Known
  <2>3. PICK x \in States : x = Head(outbox).state
    BY <1>received
  <2>4. x.version <= y.version /\ y.version <= sim.version /\ x.version \in Nat /\ y.version \in Nat
    BY <1>known, <1>received, <2>2, <2>3
  <2>5. Current(x.version)
    BY <1>version, <2>2, <2>3 DEF Ordered, MessagesCurrent
  <2>6. saves' # << >> /\ saves'[Len(saves')] = s
    BY <1>received, <1>types, LastSave
  <2>7. ASSUME y.version = sim.version, CacheIsLast \/ cache' = y PROVE OnItsWay'
    <3>1. CacheIsLast'
      BY <1>received, <2>7 DEF CacheIsLast
    <3>2. saves'[Len(saves')].state.version = sim'.version
      BY <1>received, <2>6, <2>7
    <3>3. QED
      BY <2>6, <3>1, <3>2 DEF OnItsWay, ToBeSaved
  <2>8. CASE ToBeAsked
    BY <1>received, <2>8 DEF OnItsWay, ToBeAsked
  <2>9. CASE ToBeReceived
    <3>1. PICK m \in Range(outbox) : Carries(m)
      BY <2>9 DEF ToBeReceived
    <3>2. CASE m \in Range(Tail(outbox))
      BY <1>received, <1>same, <3>1, <3>2 DEF OnItsWay, ToBeReceived
    <3>3. CASE m = Head(outbox)
      <4>1. x.version = sim.version
        BY <2>3, <3>1, <3>3 DEF Carries
      <4>2. y.version = sim.version
        BY <1>known, <2>4, <4>1
      <4>3. CacheIsLast \/ cache' = y
        BY <1>received, <3>1, <3>3 DEF CacheIsLast
      <4>4. QED
        BY <2>7, <4>2, <4>3
    <3>4. QED
      BY <1>outbox, <1>received, <3>2, <3>3
  <2>10. CASE ToBeSaved
    <3>1. saves[Len(saves)].state.version <= x.version
      BY <1>last, <2>5, <2>10 DEF Current, ToBeSaved
    <3>2. y.version = sim.version
      BY <1>known, <2>4, <2>10, <3>1 DEF ToBeSaved
    <3>3. QED
      BY <2>7, <2>10, <3>2 DEF ToBeSaved
  <2>11. CASE Stored
    <3>1. store.version <= x.version
      BY <2>5, <2>11 DEF Current, Stored
    <3>2. y.version = sim.version
      BY <1>known, <2>4, <2>11, <3>1 DEF Stored
    <3>3. QED
      BY <2>7, <2>11, <3>2 DEF Stored
  <2>12. QED
    BY <2>1, <2>8, <2>9, <2>10, <2>11 DEF OnItsWay
<1>9. CASE ReceiveAnswer
  <2>1. PICK answer \in Messages, c \in Calls :
            /\ answer = Head(outbox) /\ outbox # << >> /\ outbox' = Tail(outbox)
            /\ outbox' \in Seq(Messages)
            /\ answer.kind \in AnswerKinds /\ answer.caller = c
            /\ \/ calls[c] = Nothing /\ UNCHANGED <<chain, cache, calls, shown, told, saves>>
               \/ /\ calls[c] # Nothing /\ answer.kind \in StateKinds /\ answer.state \in States
                  /\ Accept(c, Installed(answer.state))
               \/ calls[c] # Nothing /\ ~fatal /\ Refresh(c)
               \/ calls[c] # Nothing /\ (answer.kind \in {"plain", "error"} \/ fatal) /\ Over(c)
    BY <1>9, Answered
  <2>2. UNCHANGED <<sim, ready, store, used>>
    BY <1>9 DEF ReceiveAnswer, loop, service
  <2>3. ~fatal
    BY <1>well, <2>2
  <2>4. calls[c] # Nothing
    <3>1. IsAnswered(c)
      BY <1>outbox, <2>1 DEF IsAnswered, UnderWay
    <3>2. QED
      BY <2>3, <3>1 DEF Calling, InOnePlace
  <2>5. CASE answer.state \in States /\ Accept(c, Installed(answer.state))
    <3>1. PICK y \in States : /\ y = Installed(answer.state)
                              /\ y = answer.state \/ y = cache
                              /\ answer.state.version <= y.version
      BY <2>5, InstalledFacts
    <3>2. PICK s \in Saves : s = Save(y, c) /\ s.state = y
      BY Transactions
    <3>3. cache' = y /\ chain' = chain /\ saves' = Append(saves, s)
      BY <2>5, <3>1, <3>2 DEF Accept, Persist
    <3>4. QED
      BY <1>received, <2>1, <2>2, <2>5, <3>1, <3>2, <3>3
  <2>6. CASE Refresh(c)
    <3>1. PICK task \in Tasks : task = Request(c, "full") /\ task.kind = "full"
      BY Requests DEF RequestKinds
    <3>2. chain' = Append(chain, task)
      BY <2>6, <3>1 DEF Refresh
    <3>3. Range(chain') = Range(chain) \cup {task}
      BY <1>types, <3>2, AppendRange
    <3>4. QED
      BY <3>1, <3>3 DEF OnItsWay, ToBeAsked
  <2>7. CASE answer.kind \in {"plain", "error"} /\ Over(c)
    <3>1. ~Carries(Head(outbox))
      BY <2>1, <2>7 DEF Carries, StateKinds
    <3>2. UNCHANGED <<chain, cache, saves>>
      BY <2>7 DEF Over
    <3>3. QED
      BY <1>dropped, <2>1, <2>2, <3>1, <3>2
  <2>8. QED
    BY <2>1, <2>3, <2>4, <2>5, <2>6, <2>7
<1>10. CASE ReceivePersist
  <2>1. /\ Receive("persist") /\ Persist(Head(outbox).state, Nothing)
        /\ UNCHANGED <<sim, ready, chain, cache, store, used>>
    BY <1>10 DEF ReceivePersist, loop, service, client
  <2>2. PICK y \in States : y = Head(outbox).state
    BY <2>1, Received, MessageFacts
  <2>3. PICK s \in Saves : s = Save(y, Nothing) /\ s.state = y
    BY Transactions
  <2>4. outbox # << >> /\ outbox' = Tail(outbox) /\ saves' = Append(saves, s)
        /\ ~Carries(Head(outbox))
    BY <2>1, <2>2, <2>3, Received DEF Persist, Carries, StateKinds
  <2>5. y.version <= y.version
    BY <1>version
  <2>6. QED
    BY <1>received, <2>1, <2>2, <2>3, <2>4, <2>5
<1>11. CASE ReceiveReady
  <2>1. Receive("ready") /\ UNCHANGED <<sim, ready, chain, cache, store, used>>
    BY <1>11 DEF ReceiveReady, loop, service
  <2>2. /\ Head(outbox).kind = "ready" /\ outbox # << >> /\ outbox' = Tail(outbox)
        /\ Head(outbox).state \in States \cup {Nothing}
    BY <2>1, Received, MessageFacts
  <2>3. page = "loading" /\ Answering /\ cache = Nothing
    <3>1. page = "loading"
      BY <1>outbox, <2>2 DEF Phased, Booted
    <3>2. QED
      BY <2>2, <3>1, LoadingFacts DEF Phased
  <2>4. Head(outbox).state # Nothing
    <3>1. Head(outbox) = outbox[1]
      BY <1>types, <2>2, Tails
    <3>2. QED
      BY <2>1, <2>3, <3>1 DEF Answering
  <2>5. PICK y \in States : y = Head(outbox).state
    BY <2>2, <2>4
  <2>6. PICK s \in Saves : s = Save(y, "boot") /\ s.state = y
    BY Transactions
  <2>7. saves' = Append(saves, s)
    BY <1>11, <2>4, <2>5, <2>6 DEF ReceiveReady, Persist
  <2>8. y.version <= y.version
    BY <1>version
  <2>9. QED
    BY <1>received, <2>1, <2>2, <2>3, <2>5, <2>6, <2>7, <2>8
<1>12. CASE WorkerError
  BY <1>12, <1>fail DEF WorkerError
<1>13. CASE Commit
  <2>1. /\ saves # << >> /\ store' = Head(saves).state
        /\ Proceeds(Head(saves).state, Head(saves).caller)
        /\ UNCHANGED <<sim, ready, chain, outbox, used>>
    BY <1>13 DEF Commit, loop, service
  <2>2. PICK x \in States, who \in Calls \cup {Nothing, "boot"} :
            x = Head(saves).state /\ who = Head(saves).caller
    BY <1>types, <2>1, Tails, SaveFacts
  <2>3. Proceeds(x, who)
    BY <2>1, <2>2
  <2>4. OnItsWay /\ ~Stored
    BY <1>hyp, <2>1 DEF Stored
  <2>5. CASE ToBeAsked \/ ToBeReceived
    BY <1>same, <2>1, <2>5 DEF OnItsWay, ToBeAsked, ToBeReceived
  <2>6. CASE ToBeSaved
    <3>1. page = "loading" => FirstSave /\ who = "boot"
      BY <2>1, <2>2, LoadingFacts
    <3>2. page # "loading" => page = "open" /\ cache # Nothing /\ who # "boot"
      <4>1. page # "failed" /\ page # "closed"
        BY <1>well, <2>1 DEF Phased
      <4>2. Head(saves) \in Range(saves)
        BY <1>types, <2>1, TailRange
      <4>3. QED
        BY <1>types, <2>2, <4>1, <4>2 DEF Phased, Booted
    <3>3. who = "boot" => cache' = x /\ x.version = sim.version
      <4>1. ASSUME who = "boot" PROVE cache' = x /\ x.version = sim.version
        <5>1. FirstSave /\ Head(saves) = saves[1]
          BY <1>types, <2>1, <3>1, <3>2, <4>1, Tails
        <5>2. cache' = x
          BY <2>3, <4>1, StateFacts DEF Proceeds
        <5>3. x.version = sim.version
          BY <2>1, <2>2, <5>1 DEF FirstSave
        <5>4. QED
          BY <5>2, <5>3
      <4>2. QED
        BY <4>1
    <3>4. who # "boot" => cache' = cache /\ cache # Nothing /\ cache.version = sim.version
      BY <2>3, <2>6, <3>1, <3>2 DEF Proceeds, ToBeSaved, CacheIsLast
    <3>5. cache' # Nothing /\ CacheIsLast'
      BY <1>version, <2>1, <3>3, <3>4 DEF CacheIsLast
    <3>6. CASE saves' = Tail(saves) /\ Tail(saves) = << >>
      <4>1. x.version = sim.version
        BY <1>last, <2>1, <2>2, <2>6, <3>6 DEF ToBeSaved
      <4>2. store' # Nothing /\ store'.version = sim'.version
        BY <1>version, <2>1, <2>2, <4>1
      <4>3. saves' = << >>
        BY <3>6
      <4>4. QED
        BY <3>5, <4>2, <4>3 DEF OnItsWay, Stored
    <3>7. CASE saves' = Tail(saves) /\ Tail(saves) # << >>
      <4>1. PICK q : q = Tail(saves)
        OBVIOUS
      <4>2. q[Len(q)] = saves[Len(saves)]
        BY <1>last, <2>1, <3>7, <4>1
      <4>3. saves' = q /\ q # << >> /\ q[Len(q)].state.version = sim.version
        BY <2>6, <3>7, <4>1, <4>2 DEF ToBeSaved
      <4>4. saves' # << >> /\ saves'[Len(saves')].state.version = sim'.version
        BY <2>1, <4>3
      <4>5. QED
        BY <3>5, <4>4 DEF OnItsWay, ToBeSaved
    <3>8. CASE who \in Calls /\ saves' = Append(Tail(saves), [Save(Installed(x), who) EXCEPT !.again = TRUE])
      <4>1. PICK y \in States : y = Installed(x) /\ (y = x \/ y = cache)
                                /\ (cache # Nothing => cache.version <= y.version)
        BY InstalledFacts
      <4>2. PICK s \in Saves : s = [Save(y, who) EXCEPT !.again = TRUE] /\ s.state = y
        BY Transactions
      <4>3. PICK q \in Seq(Saves) : q = Tail(saves)
        BY <1>types, <2>1, Tails
      <4>4. saves' = Append(q, s)
        BY <3>8, <4>1, <4>2, <4>3
      <4>5. saves' # << >> /\ saves'[Len(saves')] = s
        BY <4>4, LastSave
      <4>6. y \in Known \ {Nothing}
        BY <1>last, <1>version, <2>1, <2>2, <4>1 DEF Known
      <4>7. cache # Nothing /\ cache.version = sim.version
        BY <3>4, <3>8, StateFacts
      <4>8. y.version = sim.version
        BY <1>known, <4>1, <4>6, <4>7
      <4>9. QED
        BY <2>1, <3>5, <4>2, <4>5, <4>8 DEF OnItsWay, ToBeSaved
    <3>9. QED
      BY <2>3, <3>6, <3>7, <3>8 DEF Proceeds
  <2>7. QED
    BY <2>4, <2>5, <2>6 DEF OnItsWay
<1>14. CASE SaveFails
  BY <1>14, <1>fail DEF SaveFails
<1>15. CASE Close
  BY <1>15 DEF Close
<1>16. CASE Reopen
  BY <1>16 DEF Reopen, loop, Phased
<1>17. CASE UNCHANGED vars
  <2>1. UNCHANGED <<sim, cache, store, saves, ready, used, chain, outbox>>
    BY <1>17 DEF vars, loop, service, client, storage
  <2>2. QED
    BY <1>same, <1>still, <2>1 DEF ToBeAsked, ToBeReceived
<1>18. QED
  BY <1>1, <1>2, <1>3, <1>4, <1>5, <1>6, <1>7, <1>8, <1>9, <1>10, <1>11, <1>12, <1>13, <1>14, <1>15, <1>16, <1>17,
     InitSteps, ServeSteps, TickSteps, AskSteps DEF Next, Work


(***************************************************************************)
(* What is proved of the runner and of what it stores.                     *)
(***************************************************************************)

Sound == Typed /\ Calling /\ Phased /\ RunningIsTicking /\ Ordered /\ Agreed /\ Paused

LEMMA SoundAlways == Spec => []Sound
<1>1. Init => Sound
  BY TypeInit, CallInit, PhaseInit, TickingInit, OrderInit, AgreeInit, PausedInit DEF Sound
<1>2. Sound /\ [Next]_vars => Sound'
  BY TypeStep, CallingStep, PhaseStep, TickingStep, OrderStep, AgreeStep, PausedStep DEF Sound
<1>3. QED
  BY <1>1, <1>2, PTL DEF Spec

\* The worker and the page stay in step: a call waits for storage exactly while a
\* transaction is under way for it, nobody is told of a state there never was, and
\* while the worker takes the simulation for running its timer runs or a tick waits
\* in the chain: RunnerConsistent, for any calls and any bounds.
THEOREM RunnerIsConsistent == Spec => []RunnerConsistent
<1>1. Sound => RunnerConsistent
  <2> SUFFICES ASSUME Sound PROVE RunnerConsistent
    OBVIOUS
  <2>1. Typed /\ Calling /\ Ordered /\ RunningIsTicking
    BY DEF Sound
  <2>2. /\ sim \in States /\ newest \in 0..MaxVersion
        /\ running \in BOOLEAN /\ timer \in BOOLEAN /\ ready \in BOOLEAN
        /\ store \in States \cup {Nothing} /\ cache \in States \cup {Nothing}
        /\ calls \in [Calls -> CallStates \cup {Nothing}]
        /\ fatal \in BOOLEAN /\ shown \in BOOLEAN /\ told \in Nat
        /\ page \in {"loading", "open", "failed", "closed"}
    BY <2>1, TypeFacts
  <2>3. \A c \in Calls : (calls[c] # Nothing /\ calls[c].phase = "saving") <=>
                            \E i \in DOMAIN saves : saves[i].caller = c
    BY <2>1 DEF Calling, InOnePlace, Waits, Saved, Range
  <2>4. told <= newest
    <3>1. told <= sim.version /\ sim.version <= newest /\ sim.version \in Nat /\ newest \in Nat
      BY <2>1, <2>2, StateFacts DEF Ordered, SimCurrent, Current
    <3>2. QED
      BY <2>2, <3>1
  <2>5. StandaloneTypeOK
    BY <2>2, <2>3, <2>4 DEF StandaloneTypeOK
  <2>6. QED
    BY <2>1, <2>5 DEF RunnerConsistent
<1>2. QED
  BY <1>1, SoundAlways, PTL

\* A call that succeeds has saved what it returns (persistSnapshot before the
\* promise resolves): storage never falls behind a state the page was told,
\* whatever ticks, other calls, failed transactions and reloads come in between.
THEOREM WhatIsToldIsStored == Spec => []ToldIsStored
<1>1. Sound => ToldIsStored
  BY DEF Sound, Ordered
<1>2. QED
  BY <1>1, SoundAlways, PTL

\* Storage never goes back to an older state, but for the second save of a call
\* that had to refresh, which may come after a newer tick's.
THEOREM StorageNeverGoesBack == Spec => StorageStaysCurrent
<1> DEFINE Kept == \/ store' = store \/ store = Nothing
                   \/ store'.version >= store.version
                   \/ \E i \in DOMAIN saves : saves[i].again /\ saves[i].state = store'
<1>1. Sound /\ [Next]_vars => Kept
  <2> SUFFICES ASSUME Sound, [Next]_vars PROVE Kept
    OBVIOUS
  <2> HIDE DEF Kept
  <2>1. /\ saves \in Seq(Saves) /\ Range(saves) \subseteq Saves
        /\ store \in States \cup {Nothing} /\ SavesCurrent
    BY TypeFacts DEF Sound, Ordered
  <2>2. store' = store \/ \E i \in DOMAIN saves : store' = saves[i].state
    <3>1. CASE Commit
      <4>1. saves # << >> /\ store' = Head(saves).state
        BY <3>1 DEF Commit
      <4>2. Head(saves) = saves[1] /\ 1 \in DOMAIN saves
        BY <2>1, <4>1, Tails
      <4>3. QED
        BY <4>1, <4>2
    <3>2. CASE Close
      BY <3>2 DEF Close
    <3>3. CASE ReceiveAnswer \/ ReceivePersist \/ ReceiveReady \/ WorkerError \/ SaveFails \/ Reopen
               \/ TimerFires
      BY <3>3 DEF ReceiveAnswer, ReceivePersist, ReceiveReady, WorkerError, SaveFails, Reopen,
                  TimerFires, storage
    <3>4. CASE Work
      BY <3>4 DEF Work, RunInit, RunCommand, RunState, RunCells, RunRead, Refuse, RunTick, TickFails, storage
    <3>5. CASE (\E c \in Calls, kind \in {"control", "cells", "read"} : Command(c, kind)) \/ Poll
      BY <3>5 DEF Command, Poll, Ask, storage
    <3>6. CASE UNCHANGED vars
      BY <3>6 DEF vars, storage
    <3>7. QED
      BY <3>1, <3>2, <3>3, <3>4, <3>5, <3>6 DEF Next
  <2>3. ASSUME NEW i \in DOMAIN saves, store' = saves[i].state PROVE Kept
    <3>1. saves[i] \in Range(saves) /\ saves[i] \in Saves
      BY <2>1 DEF Range
    <3>2. CASE saves[i].again
      BY <2>3, <3>2 DEF Kept
    <3>3. CASE ~saves[i].again /\ store # Nothing
      <4>1. store.version <= saves[i].state.version /\ store.version \in Nat
            /\ saves[i].state.version \in Nat
        BY <2>1, <3>1, <3>3, SaveFacts, StateFacts DEF SavesCurrent
      <4>2. QED
        BY <2>3, <4>1 DEF Kept
    <3>4. CASE store = Nothing
      BY <3>4 DEF Kept
    <3>5. QED
      BY <3>2, <3>3, <3>4
  <2>4. QED
    BY <2>2, <2>3 DEF Kept
<1>2. QED
  BY <1>1, SoundAlways, PTL DEF Spec, StorageStaysCurrent

\* Nothing is lost by pausing: when nothing is under way and the simulation is
\* paused, storage holds its very state, unless something failed.
THEOREM WhatIsPausedIsStored == Spec => []PausedIsStored
<1>1. Sound => PausedIsStored
  <2> SUFFICES ASSUME Sound, page = "open", ready, ~sim.running, used.failures = 0,
                      chain = << >>, outbox = << >>, saves = << >>
               PROVE  store.version = sim.version /\ store.running = sim.running
    BY DEF PausedIsStored
  <2>1. Range(chain) = {} /\ Range(outbox) = {}
    BY DEF Range
  <2>2. ~ToBeAsked /\ ~ToBeReceived /\ ~ToBeSaved
    BY <2>1 DEF ToBeAsked, ToBeReceived, ToBeSaved
  <2>3. Stored
    BY <2>2 DEF Sound, Paused, OnItsWay
  <2>4. store.version = sim.version /\ store \in Known \ {Nothing}
    BY <2>3 DEF Stored, Known
  <2>5. store.running = sim.running
    BY <2>4 DEF Sound, Agreed
  <2>6. QED
    BY <2>4, <2>5
<1>2. QED
  BY <1>1, SoundAlways, PTL

=============================================================================
