---------------------- MODULE LatestConfigScheduler ----------------------
(***************************************************************************)
(* The scheduler of the comparison workspace (latest-config-scheduler.ts): *)
(* one active run, one pending configuration that newer ones replace, a    *)
(* debounce, and aborts that are only advice to the run.  A scheduler is a *)
(* record and every call is a function from one record to the next, so     *)
(* that a handler can make several calls in one step.                      *)
(*                                                                         *)
(* The code numbers configurations (revision) and only ever asks whether   *)
(* the active run has the latest number: that is active.current here.      *)
(***************************************************************************)
LOCAL INSTANCE Naturals

CONSTANT Nothing \* null

FreshScheduler ==
    [timer |-> FALSE,      \* the debounce of the pending configuration runs
     pending |-> Nothing,  \* the configuration that waits
     ready |-> FALSE,      \* pendingReady: its debounce is over
     active |-> Nothing,   \* [config, current, aborted] of the run under way
     lastFailed |-> Nothing,
     failed |-> FALSE,
     status |-> "idle",    \* what was emitted last, and for which kind
     kind |-> Nothing]

Emitted(s, status, config) ==
    [s EXCEPT !.status = status,
              !.kind = IF status = "idle" THEN Nothing ELSE config.kind]

Idle(s) == s.active = Nothing /\ s.pending = Nothing /\ ~s.timer

\* settleIdle: a failure keeps its status
SettledIdle(s) == IF Idle(s) /\ ~s.failed THEN Emitted(s, "idle", Nothing) ELSE s

Aborted(s) == IF s.active = Nothing THEN s ELSE [s EXCEPT !.active.aborted = TRUE]
Outdated(s) == IF s.active = Nothing THEN s ELSE [s EXCEPT !.active.current = FALSE]

\* launchPending
Launched(s) ==
    IF s.active # Nothing \/ s.pending = Nothing \/ ~s.ready THEN s
    ELSE Emitted([s EXCEPT !.pending = Nothing, !.ready = FALSE,
                           !.active = [config |-> s.pending, current |-> TRUE, aborted |-> FALSE]],
                 "updating", s.pending)

\* setPending for a configuration that validates; schedule debounces it,
\* runNow takes it as ready
Scheduled(s, config) ==
    Emitted([Outdated(s) EXCEPT !.failed = FALSE, !.pending = config, !.ready = FALSE,
                                !.timer = TRUE],
            "pending", config)

RunNow(s, config) ==
    Launched(Aborted(Emitted([Outdated(s) EXCEPT !.failed = FALSE, !.pending = config,
                                                 !.ready = TRUE, !.timer = FALSE],
                             "pending", config)))

\* setPending for one that does not: all other work stops as well
Refused(s) ==
    SettledIdle(Aborted([Outdated(s) EXCEPT !.pending = Nothing, !.ready = FALSE, !.timer = FALSE]))

\* The callback of the debounce
Expired(s) == Launched(Aborted([s EXCEPT !.timer = FALSE, !.ready = TRUE]))

\* The configurations that a predicate is asked about
Configs(s) ==
    {s.pending, s.lastFailed, IF s.active = Nothing THEN Nothing ELSE s.active.config} \ {Nothing}

\* cancel(predicate): the pending configuration, the active run and the failed
\* one are dropped if they are hit.  Once the pending one is gone the run that it
\* outdated is current again, though it may have been aborted meanwhile.
Cancelled(s, hits) ==
    LET hitsPending == s.pending # Nothing /\ s.pending \in hits
        hitsActive == s.active # Nothing /\ s.active.config \in hits
        hitsFailed == s.lastFailed # Nothing /\ s.lastFailed \in hits
        dropped == IF ~hitsPending THEN s
                   ELSE [s EXCEPT !.timer = FALSE, !.pending = Nothing, !.ready = FALSE]
        stopped == IF hitsActive THEN Aborted(Outdated(dropped))
                   ELSE IF hitsPending /\ s.active # Nothing
                   THEN [dropped EXCEPT !.active.current = TRUE]
                   ELSE dropped
        cleared == IF hitsFailed THEN [stopped EXCEPT !.lastFailed = Nothing, !.failed = FALSE]
                   ELSE stopped
    IN  IF ~(hitsPending \/ hitsActive \/ hitsFailed) THEN s
        ELSE SettledIdle(
            IF cleared.pending # Nothing THEN Emitted(cleared, "pending", cleared.pending)
            ELSE IF cleared.active # Nothing /\ ~cleared.active.aborted
            THEN Emitted(cleared, "updating", cleared.active.config)
            ELSE Emitted([cleared EXCEPT !.failed = FALSE], "idle", Nothing))

\* A bug: what waits is not started when the run settles.
Settled_Alone(s, succeeded) ==
    SettledIdle([s EXCEPT !.active = Nothing,
                          !.lastFailed = IF succeeded THEN Nothing ELSE s.active.config])

\* The run has settled: only a current run says whether the last one failed,
\* and the pending configuration starts.
Settled(s, succeeded) ==
    LET judged == IF ~s.active.current THEN s
                  ELSE IF succeeded THEN [s EXCEPT !.lastFailed = Nothing, !.failed = FALSE]
                  ELSE IF s.active.aborted THEN s
                  ELSE Emitted([s EXCEPT !.lastFailed = s.active.config, !.failed = TRUE],
                               "failed", s.active.config)
    IN  SettledIdle(Launched([judged EXCEPT !.active = Nothing]))

\* retry runs this, if anything
Retried(s) == IF s.pending # Nothing THEN s.pending ELSE s.lastFailed
==========================================================================
