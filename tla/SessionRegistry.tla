------------------------- MODULE SessionRegistry -------------------------
(***************************************************************************)
(* SimulationSessionRegistry (src/backend/simulation/sessions.py): request *)
(* handlers look the coordinator of a session up under the registry lock,  *)
(* create it from the session's file when there is none, and evict the     *)
(* least recently used one past the cap.  The evicted coordinator is shut  *)
(* down after the lock is released, by the handler that evicted it, while  *)
(* other handlers go on looking sessions up and still hold coordinators    *)
(* they were given before.  The shutdown at exit empties the registry once *)
(* and the handlers that still run may fill it again.                      *)
(*                                                                         *)
(* What a session holds is the set of edits applied to it.  How one        *)
(* coordinator writes its file is the subject of SessionPersistence; here  *)
(* a save takes a snapshot and replaces the file in one step.              *)
(***************************************************************************)
EXTENDS Integers, FiniteSets, SequencesExt

CONSTANTS
    Sessions,     \* session ids
    Handlers,     \* request handler threads
    Coordinators, \* coordinator objects, reused once nothing refers to them
    Nobody,       \* no coordinator
    MaxSessions,  \* the registry's cap
    MaxEdits,     \* bound: edits and background steps
    MaxExits      \* bound: orderly process exits

ASSUME RegistryAssumption ==
    /\ Nobody \notin Coordinators
    /\ Sessions # {} /\ IsFiniteSet(Handlers)
    /\ MaxSessions \in Nat \ {0} /\ MaxEdits \in Nat /\ MaxExits \in Nat

VARIABLES
    live,     \* _sessions: coordinators from least to most recently used
    session,  \* session[c]: the session c was created for
    edits,    \* edits[c]: the edits in c's service
    loop,     \* loop[c]: c's background loop runs
    timer,    \* timer[c]: a debounced save of c is pending
    file,     \* file[s]: the edits in sessions/<s>.json
    pc,       \* pc[h]: where handler h stands
    held,     \* held[h]: the coordinator h was given
    evicted,  \* evicted[h]: the coordinator h has to shut down
    closing,  \* the coordinators registry.shutdown has yet to shut down
    up,       \* registry.shutdown has not run
    last,     \* the newest edit (history)
    acked,    \* acked[s]: edits of s whose request completed (history)
    overlapped, \* two requests, or a request and the exit, went on together (history)
    exits     \* process exits (history)

objects == <<session, edits, loop, timer>>
handlers == <<pc, held, evicted>>
vars == <<live, objects, file, handlers, closing, up, last, acked, overlapped, exits>>

Edits == 1 .. MaxEdits

\* A coordinator nothing refers to any more.
Unused(c) ==
    /\ c \notin Range(live) /\ c \notin Range(closing)
    /\ \A h \in Handlers : held[h] # c /\ evicted[h] # c
    /\ ~timer[c]

Init ==
    /\ live = << >> /\ closing = << >>
    /\ session \in [Coordinators -> {CHOOSE s \in Sessions : TRUE}]
    /\ edits = [c \in Coordinators |-> {}]
    /\ loop = [c \in Coordinators |-> FALSE]
    /\ timer = [c \in Coordinators |-> FALSE]
    /\ file = [s \in Sessions |-> {}]
    /\ pc = [h \in Handlers |-> "idle"]
    /\ held = [h \in Handlers |-> Nobody]
    /\ evicted = [h \in Handlers |-> Nobody]
    /\ up = TRUE /\ last = 0 /\ exits = 0 /\ overlapped = FALSE
    /\ acked = [s \in Sessions |-> {}]

---------------------------------------------------------------------------
(* registry.get: one critical section ... *)

Overlap(others) == overlapped' = (overlapped \/ ~up \/ \E h \in others : pc[h] # "idle")

Give(h, c, next) ==
    /\ held' = [held EXCEPT ![h] = c]
    /\ pc' = [pc EXCEPT ![h] = next]

Find(h, s) ==
    /\ pc[h] = "idle"
    /\ \E i \in DOMAIN live :
          /\ session[live[i]] = s
          /\ live' = Append(RemoveAt(live, i), live[i])
          /\ Give(h, live[i], "act")
    /\ Overlap({g \in Handlers : g # h})
    /\ UNCHANGED <<objects, file, evicted, closing, up, last, acked, exits>>

\* The coordinator restores the session's file and starts its loop.
Constructed(c, s) ==
    /\ session' = [session EXCEPT ![c] = s]
    /\ edits' = [edits EXCEPT ![c] = file[s]]
    /\ loop' = [loop EXCEPT ![c] = TRUE]
    /\ UNCHANGED timer

\* A bug: the oldest entry is shut down and stays registered.
Evict_Peeks(h, entries) ==
    IF Len(entries) > MaxSessions
    THEN evicted' = [evicted EXCEPT ![h] = Head(entries)] /\ live' = entries
    ELSE live' = entries /\ UNCHANGED evicted

\* popitem(last=False) past the cap
Evict(h, entries) ==
    IF Len(entries) > MaxSessions
    THEN evicted' = [evicted EXCEPT ![h] = Head(entries)] /\ live' = Tail(entries)
    ELSE live' = entries /\ UNCHANGED evicted

Create(h, s) ==
    /\ pc[h] = "idle"
    /\ \A c \in Range(live) : session[c] # s
    /\ \E c \in Coordinators :
          /\ Unused(c)
          /\ Constructed(c, s)
          /\ Evict(h, Append(live, c))
          /\ Give(h, c, IF Len(live) = MaxSessions THEN "stop" ELSE "act")
    /\ Overlap({g \in Handlers : g # h})
    /\ UNCHANGED <<file, closing, up, last, acked, exits>>

\* A bug: the background loop is left running.
StopEvicted_Leaks(h) ==
    /\ pc[h] = "stop"
    /\ pc' = [pc EXCEPT ![h] = "flush"]
    /\ UNCHANGED <<live, objects, file, held, evicted, closing, up, last, acked, overlapped, exits>>

\* ... and, outside the lock, the shutdown of the evicted coordinator: its
\* loop is stopped and joined,
StopEvicted(h) ==
    /\ pc[h] = "stop"
    /\ loop' = [loop EXCEPT ![evicted[h]] = FALSE]
    /\ pc' = [pc EXCEPT ![h] = "flush"]
    /\ UNCHANGED <<live, session, edits, timer, file, held, evicted, closing, up,
                   last, acked, overlapped, exits>>

Save(c) == file' = [file EXCEPT ![session[c]] = edits[c]]

\* flush_immediately: cancel the timer, save whatever the state is
Flush(c) ==
    /\ timer' = [timer EXCEPT ![c] = FALSE]
    /\ Save(c)

\* A bug: shutdown cancels the pending save and does not flush.
FlushEvicted_CancelsOnly(h) ==
    /\ pc[h] = "flush"
    /\ timer' = [timer EXCEPT ![evicted[h]] = FALSE]
    /\ evicted' = [evicted EXCEPT ![h] = Nobody]
    /\ pc' = [pc EXCEPT ![h] = "act"]
    /\ UNCHANGED <<live, session, edits, loop, file, held, closing, up, last, acked, overlapped, exits>>

\* then its state is flushed to the session's file.
FlushEvicted(h) ==
    /\ pc[h] = "flush"
    /\ Flush(evicted[h])
    /\ evicted' = [evicted EXCEPT ![h] = Nobody]
    /\ pc' = [pc EXCEPT ![h] = "act"]
    /\ UNCHANGED <<live, session, edits, loop, held, closing, up, last, acked, overlapped, exits>>

---------------------------------------------------------------------------
(* The request itself, on the coordinator it was given. *)

NewEdit(c) ==
    /\ last < MaxEdits
    /\ last' = last + 1
    /\ edits' = [edits EXCEPT ![c] = @ \cup {last + 1}]

Done(h) ==
    /\ pc' = [pc EXCEPT ![h] = "idle"]
    /\ held' = [held EXCEPT ![h] = Nobody]

\* A read.
Read(h) ==
    /\ pc[h] = "act"
    /\ Done(h)
    /\ UNCHANGED <<live, objects, file, evicted, closing, up, last, acked, overlapped, exits>>

\* A cell edit: its save is debounced and the request completes before it.
EditDeferred(h) ==
    /\ pc[h] = "act"
    /\ NewEdit(held[h])
    /\ timer' = [timer EXCEPT ![held[h]] = TRUE]
    /\ acked' = [acked EXCEPT ![session[held[h]]] = @ \cup {last + 1}]
    /\ Done(h)
    /\ UNCHANGED <<live, session, loop, file, evicted, closing, up, overlapped, exits>>

\* A control command saves before it completes.
EditImmediate(h) ==
    /\ pc[h] = "act"
    /\ NewEdit(held[h])
    /\ pc' = [pc EXCEPT ![h] = "save"]
    /\ UNCHANGED <<live, session, loop, timer, file, held, evicted, closing, up, acked, overlapped, exits>>

SaveImmediate(h) ==
    /\ pc[h] = "save"
    /\ Flush(held[h])
    /\ acked' = [acked EXCEPT ![session[held[h]]] = @ \cup edits[held[h]]]
    /\ Done(h)
    /\ UNCHANGED <<live, session, edits, loop, evicted, closing, up, last, overlapped, exits>>

\* The debounce timer of a coordinator, registered or not.
TimerFires(c) ==
    /\ timer[c]
    /\ Flush(c)
    /\ UNCHANGED <<live, session, edits, loop, handlers, closing, up, last, acked, overlapped, exits>>

\* The background loop advances a running simulation; nothing is saved.
Tick(c) ==
    /\ loop[c] /\ NewEdit(c)
    /\ UNCHANGED <<live, session, loop, timer, file, handlers, closing, up, acked, overlapped, exits>>

---------------------------------------------------------------------------
(* registry.shutdown, registered with atexit, and the next process. *)

Exit ==
    /\ up /\ exits < MaxExits
    /\ Overlap(Handlers)
    /\ up' = FALSE /\ exits' = exits + 1
    /\ closing' = live /\ live' = << >>
    /\ UNCHANGED <<objects, file, handlers, last, acked>>

CloseNext ==
    /\ ~up /\ closing # << >>
    /\ loop' = [loop EXCEPT ![Head(closing)] = FALSE]
    /\ Flush(Head(closing))
    /\ closing' = Tail(closing)
    /\ UNCHANGED <<live, session, edits, handlers, up, last, acked, overlapped, exits>>

\* The process ends, with whatever its handlers were doing, and another begins.
Reboot ==
    /\ ~up /\ closing = << >>
    /\ up' = TRUE /\ live' = << >>
    /\ pc' = [h \in Handlers |-> "idle"]
    /\ held' = [h \in Handlers |-> Nobody] /\ evicted' = [h \in Handlers |-> Nobody]
    /\ loop' = [c \in Coordinators |-> FALSE] /\ timer' = [c \in Coordinators |-> FALSE]
    /\ UNCHANGED <<session, edits, file, closing, last, acked, overlapped, exits>>

---------------------------------------------------------------------------
Handle(h) ==
    StopEvicted(h) \/ FlushEvicted(h) \/ Read(h) \/ EditDeferred(h) \/ EditImmediate(h)
    \/ SaveImmediate(h)

Next ==
    \/ \E h \in Handlers, s \in Sessions : Find(h, s) \/ Create(h, s)
    \/ \E h \in Handlers : Handle(h)
    \/ \E c \in Coordinators : TimerFires(c) \/ Tick(c)
    \/ Exit \/ CloseNext \/ Reboot

Spec == Init /\ [][Next]_vars

\* A handler that was given a coordinator goes on; nothing else has to happen.
FairSpec == Spec /\ \A h \in Handlers : WF_vars(Handle(h)) /\ WF_vars(CloseNext \/ Reboot)

---------------------------------------------------------------------------
(* Properties. *)

TypeOK ==
    /\ live \in BoundedSeq(Coordinators, MaxSessions)
    /\ closing \in BoundedSeq(Coordinators, MaxSessions)
    /\ session \in [Coordinators -> Sessions]
    /\ edits \in [Coordinators -> SUBSET Edits]
    /\ loop \in [Coordinators -> BOOLEAN] /\ timer \in [Coordinators -> BOOLEAN]
    /\ file \in [Sessions -> SUBSET Edits]
    /\ pc \in [Handlers -> {"idle", "stop", "flush", "act", "save"}]
    /\ held \in [Handlers -> Coordinators \cup {Nobody}]
    /\ evicted \in [Handlers -> Coordinators \cup {Nobody}]
    /\ acked \in [Sessions -> SUBSET Edits]
    /\ {up, overlapped} \subseteq BOOLEAN /\ last \in 0 .. MaxEdits /\ exits \in 0 .. MaxExits

\* The registry hands out working coordinators: each registered one belongs to
\* a different session and its background loop runs, so a session found in the
\* registry is never one that eviction has already shut down.
RegisteredAreAlive ==
    /\ \A i, j \in DOMAIN live : session[live[i]] = session[live[j]] => i = j
    /\ \A c \in Range(live) : loop[c]

\* The bound the cap really gives on background threads: one more for each
\* handler that is shutting an evicted coordinator down and, at the exit, those
\* of the coordinators still to be closed.
LoopsBounded ==
    Cardinality({c \in Coordinators : loop[c]})
        <= MaxSessions + Cardinality({h \in Handlers : pc[h] = "stop"}) + Len(closing)

\* The registry is sound: well formed, only working coordinators in it, and no
\* more background threads than the cap and the evictions under way allow.
RegistryConsistent == TypeOK /\ RegisteredAreAlive /\ LoopsBounded

\* A session that is looked up holds every edit a client was told of
\* (sessions.py:36-38, "a re-accessed evicted session resumes losslessly"),
\* through evictions, debounced saves and process exits.
SessionsKeepEdits == \A c \in Range(live) : acked[session[c]] \subseteq edits[c]

\* That is so when requests come one at a time and the process exits between
\* them: no request goes on, or comes, after registry.shutdown.
SerialSessionsKeepEdits == ~overlapped => SessionsKeepEdits

\* The loop of a coordinator that left the registry stops for good.
EvictedStop ==
    \A c \in Coordinators : (loop[c] /\ c \notin Range(live)) ~> ~loop[c]
==========================================================================
