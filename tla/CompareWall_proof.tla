-------------------------- MODULE CompareWall_proof --------------------------
(***************************************************************************)
(* Theorems about CompareWall, for any boards, setups, capacity, limits    *)
(* and bounds.                                                             *)
(***************************************************************************)
EXTENDS CompareWall, FiniteSetTheorems, TLAPS

(***************************************************************************)
(* The scheduler: what each call makes of a scheduler in order.            *)
(***************************************************************************)

Statuses == {"idle", "pending", "updating", "failed"}

Schedulers ==
    [timer : BOOLEAN, pending : Runs \cup {Nothing}, ready : BOOLEAN,
     active : ActiveRuns \cup {Nothing}, lastFailed : Runs \cup {Nothing},
     failed : BOOLEAN, status : Statuses, kind : {"filmstrip", "analysis", Nothing}]

\* Only what waits has a debounce, after which it waits for the run that it
\* aborted; only the latest configuration is current; the status tells what is
\* under way, or what failed last.
InOrder(s) ==
    /\ s \in Schedulers
    /\ s.timer => s.pending # Nothing /\ ~s.ready
    /\ s.ready => s.pending # Nothing /\ s.active # Nothing /\ s.active.aborted
    /\ s.active # Nothing /\ s.active.current => s.pending = Nothing
    /\ s.failed => s.active = Nothing /\ s.pending = Nothing /\ s.lastFailed # Nothing
    /\ s.pending # Nothing => s.status = "pending" /\ s.kind = s.pending.kind
    /\ s.pending = Nothing /\ s.active # Nothing =>
           IF s.active.aborted THEN s.kind # "analysis"
           ELSE s.status = "updating" /\ s.kind = s.active.config.kind
    /\ s.pending = Nothing /\ s.active = Nothing =>
           s.kind = IF s.failed THEN s.lastFailed.kind ELSE Nothing

\* What no call but the ones to the run under way changes.
SameRun(s, t) ==
    IF s.active = Nothing THEN t.active = Nothing
    ELSE t.active # Nothing /\ t.active.config = s.active.config

LEMMA EmittedIs ==
  ASSUME NEW s \in Schedulers, NEW status \in Statuses, NEW config,
         status = "idle" \/ config \in Runs
  PROVE  /\ Emitted(s, status, config) \in Schedulers
         /\ Emitted(s, status, config).status = status
         /\ Emitted(s, status, config).kind = IF status = "idle" THEN Nothing ELSE config.kind
         /\ Emitted(s, status, config).timer = s.timer
         /\ Emitted(s, status, config).pending = s.pending
         /\ Emitted(s, status, config).ready = s.ready
         /\ Emitted(s, status, config).active = s.active
         /\ Emitted(s, status, config).lastFailed = s.lastFailed
         /\ Emitted(s, status, config).failed = s.failed
<1>1. status # "idle" => config.kind \in {"filmstrip", "analysis"}
  BY DEF Runs
<1>2. QED
  BY <1>1 DEF Emitted, Schedulers

LEMMA SettledIdleIs ==
  ASSUME NEW s \in Schedulers
  PROVE  /\ SettledIdle(s) \in Schedulers
         /\ SettledIdle(s).timer = s.timer
         /\ SettledIdle(s).pending = s.pending
         /\ SettledIdle(s).ready = s.ready
         /\ SettledIdle(s).active = s.active
         /\ SettledIdle(s).lastFailed = s.lastFailed
         /\ SettledIdle(s).failed = s.failed
         /\ Idle(s) /\ ~s.failed => SettledIdle(s).kind = Nothing
         /\ ~(Idle(s) /\ ~s.failed) =>
                SettledIdle(s).status = s.status /\ SettledIdle(s).kind = s.kind
<1>1. CASE Idle(s) /\ ~s.failed
  BY <1>1, EmittedIs DEF SettledIdle, Idle, Statuses
<1>2. CASE ~(Idle(s) /\ ~s.failed)
  BY <1>2 DEF SettledIdle
<1>3. QED
  BY <1>1, <1>2

LEMMA AbortedIs ==
  ASSUME NEW s \in Schedulers
  PROVE  /\ Aborted(s) \in Schedulers
         /\ Aborted(s).timer = s.timer /\ Aborted(s).pending = s.pending
         /\ Aborted(s).ready = s.ready /\ Aborted(s).lastFailed = s.lastFailed
         /\ Aborted(s).failed = s.failed
         /\ Aborted(s).status = s.status /\ Aborted(s).kind = s.kind
         /\ SameRun(s, Aborted(s))
         /\ s.active # Nothing => /\ Aborted(s).active.aborted
                                  /\ Aborted(s).active.current = s.active.current
<1>1. CASE s.active = Nothing
  BY <1>1 DEF Aborted, SameRun
<1>2. CASE s.active # Nothing
  <2>1. s.active \in ActiveRuns
    BY <1>2 DEF Schedulers
  <2>2. PICK a : a = [s.active EXCEPT !.aborted = TRUE]
    OBVIOUS
  <2>3. /\ a \in ActiveRuns /\ a # Nothing
        /\ a.config = s.active.config /\ a.current = s.active.current /\ a.aborted
    BY <2>1, <2>2, WallAssumption DEF ActiveRuns
  <2>4. Aborted(s) = [s EXCEPT !.active = a]
    BY <1>2, <2>2 DEF Aborted
  <2>5. QED
    BY <1>2, <2>3, <2>4 DEF Schedulers, SameRun
<1>3. QED
  BY <1>1, <1>2

LEMMA OutdatedIs ==
  ASSUME NEW s \in Schedulers
  PROVE  /\ Outdated(s) \in Schedulers
         /\ Outdated(s).timer = s.timer /\ Outdated(s).pending = s.pending
         /\ Outdated(s).ready = s.ready /\ Outdated(s).lastFailed = s.lastFailed
         /\ Outdated(s).failed = s.failed
         /\ Outdated(s).status = s.status /\ Outdated(s).kind = s.kind
         /\ SameRun(s, Outdated(s))
         /\ s.active # Nothing => /\ ~Outdated(s).active.current
                                  /\ Outdated(s).active.aborted = s.active.aborted
<1>1. CASE s.active = Nothing
  BY <1>1 DEF Outdated, SameRun
<1>2. CASE s.active # Nothing
  <2>1. s.active \in ActiveRuns
    BY <1>2 DEF Schedulers
  <2>2. PICK a : a = [s.active EXCEPT !.current = FALSE]
    OBVIOUS
  <2>3. /\ a \in ActiveRuns /\ a # Nothing
        /\ a.config = s.active.config /\ a.aborted = s.active.aborted /\ ~a.current
    BY <2>1, <2>2, WallAssumption DEF ActiveRuns
  <2>4. Outdated(s) = [s EXCEPT !.active = a]
    BY <1>2, <2>2 DEF Outdated
  <2>5. QED
    BY <1>2, <2>3, <2>4 DEF Schedulers, SameRun
<1>3. QED
  BY <1>1, <1>2

\* What waits is launched if it is ready and nothing is under way.
LEMMA LaunchedIs ==
  ASSUME NEW s \in Schedulers
  PROVE  /\ Launched(s) \in Schedulers
         /\ Launched(s).lastFailed = s.lastFailed
         /\ Launched(s).timer = s.timer /\ Launched(s).failed = s.failed
         /\ s.active # Nothing \/ s.pending = Nothing \/ ~s.ready => Launched(s) = s
         /\ s.active = Nothing /\ s.pending # Nothing /\ s.ready =>
              /\ Launched(s).pending = Nothing /\ ~Launched(s).ready
              /\ Launched(s).active # Nothing
              /\ Launched(s).active.config = s.pending
              /\ Launched(s).active.current /\ ~Launched(s).active.aborted
              /\ Launched(s).status = "updating" /\ Launched(s).kind = s.pending.kind
<1>1. CASE s.active # Nothing \/ s.pending = Nothing \/ ~s.ready
  BY <1>1 DEF Launched
<1>2. CASE s.active = Nothing /\ s.pending # Nothing /\ s.ready
  <2>1. s.pending \in Runs
    BY <1>2 DEF Schedulers
  <2>2. PICK a : a = [config |-> s.pending, current |-> TRUE, aborted |-> FALSE]
    OBVIOUS
  <2>3. /\ a \in ActiveRuns /\ a # Nothing
        /\ a.config = s.pending /\ a.current = TRUE /\ a.aborted = FALSE
    <3>1. a \in ActiveRuns
      BY <2>1, <2>2 DEF ActiveRuns
    <3>2. a.config = s.pending /\ a.current = TRUE /\ a.aborted = FALSE
      BY <2>2
    <3>3. QED
      BY <3>1, <3>2, WallAssumption
  <2>4. PICK t : t = [s EXCEPT !.pending = Nothing, !.ready = FALSE, !.active = a]
    OBVIOUS
  <2>5. /\ t \in Schedulers /\ t.pending = Nothing /\ ~t.ready /\ t.active = a
        /\ t.lastFailed = s.lastFailed /\ t.timer = s.timer /\ t.failed = s.failed
    BY <2>3, <2>4 DEF Schedulers
  <2>6. Launched(s) = Emitted(t, "updating", s.pending)
    BY <1>2, <2>2, <2>4 DEF Launched
  <2>7. PICK l : l = Emitted(t, "updating", s.pending)
    OBVIOUS
  <2>8. /\ l \in Schedulers /\ l.status = "updating" /\ l.kind = s.pending.kind
        /\ l.pending = Nothing /\ ~l.ready /\ l.active = a
        /\ l.lastFailed = s.lastFailed /\ l.timer = s.timer /\ l.failed = s.failed
    BY <2>1, <2>5, <2>7, EmittedIs DEF Statuses
  <2>9. Launched(s) = l
    BY <2>6, <2>7
  <2>10. QED
    BY <1>2, <2>3, <2>8, <2>9
<1>3. QED
  BY <1>1, <1>2

\* A configuration is asked for: it waits, which outdates the run under way, or
\* it runs.
Asked(s, config, t) ==
    /\ t.lastFailed = s.lastFailed
    /\ \/ /\ t.pending = config
          /\ SameRun(s, t)
          /\ s.active # Nothing => ~t.active.current
          /\ s.active # Nothing /\ s.active.aborted => t.active.aborted
       \/ /\ s.active = Nothing
          /\ t.pending = Nothing /\ t.active # Nothing
          /\ t.active.config = config /\ t.active.current /\ ~t.active.aborted

LEMMA ScheduledIs ==
  ASSUME NEW s, InOrder(s), NEW config \in Runs
  PROVE  /\ InOrder(Scheduled(s, config)) /\ Asked(s, config, Scheduled(s, config))
         /\ Scheduled(s, config).pending = config /\ SameRun(s, Scheduled(s, config))
         /\ s.active # Nothing =>
                Scheduled(s, config).active.aborted = s.active.aborted
<1>1. s \in Schedulers /\ config # Nothing
  BY WallAssumption DEF InOrder
<1>2. PICK o : o = Outdated(s)
  OBVIOUS
<1>3. /\ o \in Schedulers /\ o.lastFailed = s.lastFailed /\ SameRun(s, o)
      /\ s.active # Nothing => ~o.active.current /\ o.active.aborted = s.active.aborted
  BY <1>1, <1>2, OutdatedIs
<1>4. PICK t : t = [o EXCEPT !.failed = FALSE, !.pending = config, !.ready = FALSE,
                             !.timer = TRUE]
  OBVIOUS
<1>5. /\ t \in Schedulers /\ t.pending = config /\ t.ready = FALSE
      /\ t.active = o.active /\ t.lastFailed = o.lastFailed /\ t.failed = FALSE
  BY <1>3, <1>4 DEF Schedulers
<1>6. Scheduled(s, config) = Emitted(t, "pending", config)
  BY <1>2, <1>4 DEF Scheduled
<1>7. PICK e : e = Scheduled(s, config)
  OBVIOUS
<1>8. /\ e \in Schedulers /\ e.pending = config /\ e.ready = FALSE
      /\ e.active = o.active /\ e.lastFailed = o.lastFailed
      /\ e.status = "pending" /\ e.kind = config.kind /\ e.failed = FALSE
  BY <1>5, <1>6, <1>7, EmittedIs DEF Statuses
<1>9. SameRun(s, e) /\ (s.active = Nothing <=> e.active = Nothing)
  BY <1>3, <1>8 DEF SameRun
<1>10. InOrder(e)
  BY <1>1, <1>3, <1>8, <1>9 DEF InOrder
<1>11. QED
  BY <1>3, <1>7, <1>8, <1>9, <1>10 DEF Asked

LEMMA RunNowIs ==
  ASSUME NEW s, InOrder(s), NEW config \in Runs
  PROVE  /\ InOrder(RunNow(s, config)) /\ Asked(s, config, RunNow(s, config))
         /\ RunNow(s, config).pending # Nothing => RunNow(s, config).ready
         /\ RunNow(s, config).active # Nothing
         /\ s.active # Nothing => RunNow(s, config).active.aborted
<1>1. s \in Schedulers /\ config # Nothing
  BY WallAssumption DEF InOrder
<1>2. PICK o : o = Outdated(s)
  OBVIOUS
<1>3. /\ o \in Schedulers /\ o.lastFailed = s.lastFailed /\ SameRun(s, o)
      /\ s.active # Nothing => ~o.active.current
  BY <1>1, <1>2, OutdatedIs
<1>4. PICK t : t = [o EXCEPT !.failed = FALSE, !.pending = config, !.ready = TRUE,
                             !.timer = FALSE]
  OBVIOUS
<1>5. /\ t \in Schedulers /\ t.pending = config /\ t.ready = TRUE /\ t.timer = FALSE
      /\ t.active = o.active /\ t.lastFailed = o.lastFailed /\ t.failed = FALSE
  BY <1>3, <1>4 DEF Schedulers
<1>6. PICK e : e = Emitted(t, "pending", config)
  OBVIOUS
<1>7. /\ e \in Schedulers /\ e.pending = config /\ e.ready = TRUE /\ e.timer = FALSE
      /\ e.active = o.active /\ e.lastFailed = o.lastFailed /\ e.failed = FALSE
      /\ e.status = "pending" /\ e.kind = config.kind
  BY <1>5, <1>6, EmittedIs DEF Statuses
<1>8. PICK a : a = Aborted(e)
  OBVIOUS
<1>9. /\ a \in Schedulers /\ a.pending = config /\ a.ready = TRUE /\ a.timer = FALSE
      /\ a.lastFailed = s.lastFailed /\ a.status = "pending" /\ a.kind = config.kind
      /\ a.failed = FALSE
      /\ SameRun(s, a)
      /\ s.active # Nothing => ~a.active.current /\ a.active.aborted
  BY <1>3, <1>7, <1>8, AbortedIs DEF SameRun
<1>10. PICK l : l = Launched(a)
  OBVIOUS
<1>11. RunNow(s, config) = l
  BY <1>2, <1>4, <1>6, <1>8, <1>10 DEF RunNow
<1>12. CASE s.active = Nothing
  <2>1. a.active = Nothing
    BY <1>9, <1>12 DEF SameRun
  <2>2. /\ l \in Schedulers /\ l.lastFailed = s.lastFailed /\ l.timer = FALSE
        /\ l.pending = Nothing /\ l.active # Nothing /\ l.active.config = config
        /\ l.active.current /\ ~l.active.aborted /\ l.failed = FALSE /\ ~l.ready
        /\ l.status = "updating" /\ l.kind = config.kind
    BY <1>1, <1>9, <1>10, <2>1, LaunchedIs
  <2>3. InOrder(l)
    BY <2>2 DEF InOrder
  <2>4. QED
    BY <1>11, <1>12, <2>2, <2>3 DEF Asked
<1>13. CASE s.active # Nothing
  <2>1. a.active # Nothing
    BY <1>9, <1>13 DEF SameRun
  <2>2. l = a
    BY <1>9, <1>10, <2>1, LaunchedIs
  <2>3. InOrder(l)
    BY <1>1, <1>9, <1>13, <2>1, <2>2 DEF InOrder
  <2>4. QED
    BY <1>9, <1>11, <1>13, <2>1, <2>2, <2>3 DEF Asked
<1>14. QED
  BY <1>12, <1>13

\* A configuration that does not validate stops everything.
LEMMA RefusedIs ==
  ASSUME NEW s, InOrder(s), s.kind # "analysis"
  PROVE  /\ InOrder(Refused(s)) /\ SameRun(s, Refused(s))
         /\ Refused(s).pending = Nothing /\ Refused(s).lastFailed = s.lastFailed
         /\ s.active # Nothing => Refused(s).active.aborted
<1>1. s \in Schedulers
  BY DEF InOrder
<1>2. PICK o : o = Outdated(s)
  OBVIOUS
<1>3. /\ o \in Schedulers /\ o.lastFailed = s.lastFailed /\ SameRun(s, o)
      /\ o.failed = s.failed /\ o.kind = s.kind
  BY <1>1, <1>2, OutdatedIs
<1>4. PICK t : t = [o EXCEPT !.pending = Nothing, !.ready = FALSE, !.timer = FALSE]
  OBVIOUS
<1>5. /\ t \in Schedulers /\ t.pending = Nothing /\ t.timer = FALSE /\ t.ready = FALSE
      /\ t.active = o.active /\ t.lastFailed = o.lastFailed
      /\ t.failed = s.failed /\ t.kind = s.kind
  BY <1>3, <1>4 DEF Schedulers
<1>6. PICK a : a = Aborted(t)
  OBVIOUS
<1>7. /\ a \in Schedulers /\ a.pending = Nothing /\ a.timer = FALSE /\ a.ready = FALSE
      /\ a.failed = s.failed /\ a.kind = s.kind
      /\ a.lastFailed = s.lastFailed /\ SameRun(s, a)
      /\ s.active # Nothing => a.active.aborted
  BY <1>3, <1>5, <1>6, AbortedIs DEF SameRun
<1>8. PICK r : r = SettledIdle(a)
  OBVIOUS
<1>9. /\ r \in Schedulers /\ r.pending = Nothing /\ r.timer = FALSE /\ r.ready = FALSE
      /\ r.active = a.active /\ r.lastFailed = a.lastFailed /\ r.failed = s.failed
      /\ r.kind = IF r.active = Nothing /\ ~r.failed THEN Nothing ELSE s.kind
  BY <1>7, <1>8, SettledIdleIs DEF Idle
<1>10. SameRun(s, r) /\ (s.active # Nothing => r.active.aborted)
  BY <1>7, <1>9 DEF SameRun
<1>11. s.active = Nothing => r.active = Nothing
  BY <1>10 DEF SameRun
<1>12. InOrder(r)
  BY <1>7, <1>9, <1>10, <1>11 DEF InOrder, SameRun
<1>13. Refused(s) = r
  BY <1>2, <1>4, <1>6, <1>8 DEF Refused
<1>14. QED
  BY <1>7, <1>9, <1>10, <1>12, <1>13

\* The debounce is over: what waits runs, or the run under way is to make place.
LEMMA ExpiredIs ==
  ASSUME NEW s, InOrder(s), s.timer
  PROVE  /\ InOrder(Expired(s)) /\ Expired(s).lastFailed = s.lastFailed
         /\ s.pending \in Runs /\ s.pending # Nothing
         /\ s.active # Nothing =>
              /\ Expired(s).pending = s.pending /\ SameRun(s, Expired(s))
              /\ Expired(s).active.aborted
              /\ Expired(s).active.current = s.active.current
         /\ s.active = Nothing =>
              /\ Expired(s).pending = Nothing /\ Expired(s).active # Nothing
              /\ Expired(s).active.config = s.pending
              /\ Expired(s).active.current /\ ~Expired(s).active.aborted
<1>1. s \in Schedulers /\ s.pending # Nothing /\ s.pending \in Runs
  BY DEF InOrder, Schedulers
<1>2. PICK t : t = [s EXCEPT !.timer = FALSE, !.ready = TRUE]
  OBVIOUS
<1>3. /\ t \in Schedulers /\ t.pending = s.pending /\ t.timer = FALSE /\ t.ready = TRUE
      /\ t.active = s.active /\ t.lastFailed = s.lastFailed /\ t.failed = FALSE
      /\ t.status = s.status /\ t.kind = s.kind
  BY <1>1, <1>2 DEF Schedulers, InOrder
<1>4. PICK a : a = Aborted(t)
  OBVIOUS
<1>5. /\ a \in Schedulers /\ a.pending = s.pending /\ a.timer = FALSE /\ a.ready = TRUE
      /\ a.lastFailed = s.lastFailed /\ a.failed = FALSE /\ SameRun(s, a)
      /\ a.status = s.status /\ a.kind = s.kind
      /\ s.active # Nothing => a.active.aborted /\ a.active.current = s.active.current
  BY <1>3, <1>4, AbortedIs DEF SameRun
<1>6. PICK l : l = Launched(a)
  OBVIOUS
<1>7. Expired(s) = l
  BY <1>2, <1>4, <1>6 DEF Expired
<1>8. CASE s.active = Nothing
  <2>1. a.active = Nothing
    BY <1>5, <1>8 DEF SameRun
  <2>2. /\ l \in Schedulers /\ l.lastFailed = s.lastFailed /\ l.timer = FALSE
        /\ l.pending = Nothing /\ l.active # Nothing /\ l.active.config = s.pending
        /\ l.active.current /\ ~l.active.aborted /\ l.failed = FALSE /\ ~l.ready
        /\ l.status = "updating" /\ l.kind = s.pending.kind
    BY <1>1, <1>5, <1>6, <2>1, LaunchedIs
  <2>3. InOrder(l)
    BY <2>2 DEF InOrder
  <2>4. QED
    BY <1>1, <1>7, <1>8, <2>2, <2>3
<1>9. CASE s.active # Nothing
  <2>1. a.active # Nothing
    BY <1>5, <1>9 DEF SameRun
  <2>2. l = a
    BY <1>5, <1>6, <2>1, LaunchedIs
  <2>3. InOrder(l)
    BY <1>1, <1>5, <1>9, <2>1, <2>2 DEF InOrder
  <2>4. QED
    BY <1>1, <1>5, <1>7, <1>9, <2>2, <2>3
<1>10. QED
  BY <1>8, <1>9


\* The run under way has settled: what waits and is ready runs.
LEMMA SettledIs ==
  ASSUME NEW s, InOrder(s), s.active # Nothing, NEW succeeded \in BOOLEAN
  PROVE  /\ InOrder(Settled(s, succeeded))
         /\ Settled(s, succeeded).lastFailed =
                IF ~s.active.current THEN s.lastFailed
                ELSE IF succeeded THEN Nothing
                ELSE IF s.active.aborted THEN s.lastFailed ELSE s.active.config
         /\ \/ /\ Settled(s, succeeded).active = Nothing /\ ~s.ready
               /\ Settled(s, succeeded).pending = s.pending
            \/ /\ s.pending # Nothing
               /\ Settled(s, succeeded).pending = Nothing
               /\ Settled(s, succeeded).active # Nothing
               /\ Settled(s, succeeded).active.config = s.pending
               /\ Settled(s, succeeded).active.current
               /\ ~Settled(s, succeeded).active.aborted
<1> DEFINE lastFailed == IF ~s.active.current THEN s.lastFailed
                         ELSE IF succeeded THEN Nothing
                         ELSE IF s.active.aborted THEN s.lastFailed ELSE s.active.config
           judged == IF ~s.active.current THEN s
                     ELSE IF succeeded THEN [s EXCEPT !.lastFailed = Nothing, !.failed = FALSE]
                     ELSE IF s.active.aborted THEN s
                     ELSE Emitted([s EXCEPT !.lastFailed = s.active.config, !.failed = TRUE],
                                  "failed", s.active.config)
<1>1. s \in Schedulers /\ s.active.config \in Runs
  BY DEF InOrder, Schedulers, ActiveRuns
<1>2. PICK j : j = judged
  OBVIOUS
<1>3. /\ j \in Schedulers /\ j.pending = s.pending /\ j.ready = s.ready /\ j.timer = s.timer
      /\ j.lastFailed = lastFailed
      /\ j.failed = TRUE => /\ s.pending = Nothing /\ j.lastFailed # Nothing
                            /\ j.kind = j.lastFailed.kind
      /\ j.failed \in BOOLEAN
      /\ s.pending # Nothing => j.status = s.status /\ j.kind = s.kind
  <2> s.failed = FALSE
    BY <1>1 DEF InOrder, Schedulers
  <2>1. CASE ~s.active.current
    BY <1>1, <1>2, <2>1
  <2>2. CASE s.active.current /\ succeeded
    BY <1>1, <1>2, <2>2 DEF Schedulers
  <2>3. CASE s.active.current /\ ~succeeded /\ s.active.aborted
    BY <1>1, <1>2, <2>3
  <2>4. CASE s.active.current /\ ~succeeded /\ ~s.active.aborted
    <3>1. PICK f : f = [s EXCEPT !.lastFailed = s.active.config, !.failed = TRUE]
      OBVIOUS
    <3>2. /\ f \in Schedulers /\ f.pending = s.pending /\ f.ready = s.ready
          /\ f.timer = s.timer /\ f.lastFailed = s.active.config
      BY <1>1, <3>1 DEF Schedulers
    <3>3. j = Emitted(f, "failed", s.active.config)
      BY <1>2, <2>4, <3>1
    <3>4. /\ j \in Schedulers /\ j.pending = s.pending /\ j.ready = s.ready
          /\ j.timer = s.timer /\ j.lastFailed = s.active.config
          /\ j.kind = s.active.config.kind /\ j.failed \in BOOLEAN
      BY <1>1, <3>2, <3>3, EmittedIs DEF Statuses, Schedulers
    <3>5. s.pending = Nothing
      BY <2>4 DEF InOrder
    <3>6. QED
      BY <1>1, <2>4, <3>4, <3>5, WallAssumption
  <2>5. QED
    BY <2>1, <2>2, <2>3, <2>4
<1>4. PICK t : t = [j EXCEPT !.active = Nothing]
  OBVIOUS
<1>5. /\ t \in Schedulers /\ t.pending = s.pending /\ t.ready = s.ready /\ t.timer = s.timer
      /\ t.lastFailed = lastFailed /\ t.active = Nothing /\ t.failed = j.failed
      /\ t.kind = j.kind
      /\ s.pending # Nothing => t.status = s.status /\ t.kind = s.kind
  BY <1>3, <1>4 DEF Schedulers
<1>6. PICK l : l = Launched(t)
  OBVIOUS
<1>7. PICK r : r = SettledIdle(l)
  OBVIOUS
<1>8. Settled(s, succeeded) = r
  BY <1>2, <1>4, <1>6, <1>7, Zenon DEF Settled
<1>9. CASE s.pending # Nothing /\ s.ready
  <2>1. /\ l \in Schedulers /\ l.lastFailed = lastFailed /\ l.timer = s.timer
        /\ l.pending = Nothing /\ l.active # Nothing /\ l.active.config = s.pending
        /\ l.active.current /\ ~l.active.aborted
        /\ l.status = "updating" /\ l.kind = s.pending.kind /\ l.failed = FALSE /\ ~l.ready
    BY <1>3, <1>5, <1>6, <1>9, LaunchedIs
  <2>2. /\ r \in Schedulers /\ r.lastFailed = lastFailed /\ r.timer = s.timer
        /\ r.pending = Nothing /\ r.active = l.active
        /\ r.status = "updating" /\ r.kind = s.pending.kind /\ r.failed = FALSE /\ ~r.ready
    BY <1>7, <2>1, SettledIdleIs DEF Idle
  <2>3. s.timer = FALSE
    BY <1>1, <1>9 DEF InOrder, Schedulers
  <2>4. InOrder(r)
    BY <2>1, <2>2, <2>3 DEF InOrder
  <2>5. QED
    BY <1>8, <1>9, <2>1, <2>2, <2>4
<1>10. CASE ~(s.pending # Nothing /\ s.ready)
  <2>1. l = t
    BY <1>5, <1>6, <1>10, LaunchedIs
  <2>2. /\ r \in Schedulers /\ r.lastFailed = lastFailed /\ r.timer = s.timer
        /\ r.pending = s.pending /\ r.active = Nothing /\ r.ready = s.ready
        /\ s.pending # Nothing => r.status = s.status /\ r.kind = s.kind
        /\ r.failed = j.failed
        /\ s.pending = Nothing => r.kind = IF r.failed THEN r.lastFailed.kind ELSE Nothing
    BY <1>1, <1>3, <1>5, <1>7, <2>1, SettledIdleIs DEF Idle, InOrder
  <2>0. s.ready = FALSE
    BY <1>1, <1>10 DEF InOrder, Schedulers
  <2>3. InOrder(r)
    BY <1>3, <2>0, <2>2 DEF InOrder
  <2>4. QED
    BY <1>8, <2>0, <2>2, <2>3
<1>11. QED
  BY <1>9, <1>10

\* What cancel leaves: the configurations it hit are gone, but for the run under
\* way, which is aborted and goes on until it notices.
LEMMA CancelledIs ==
  ASSUME NEW s, InOrder(s), NEW hits
  PROVE  /\ InOrder(Cancelled(s, hits)) /\ SameRun(s, Cancelled(s, hits))
         /\ Cancelled(s, hits).pending = IF s.pending \in hits THEN Nothing ELSE s.pending
         /\ Cancelled(s, hits).lastFailed =
                IF s.lastFailed \in hits THEN Nothing ELSE s.lastFailed
         /\ Cancelled(s, hits).pending # Nothing => Cancelled(s, hits).ready = s.ready
         /\ s.active # Nothing =>
              /\ s.active.config \in hits \/ s.active.aborted
                     => Cancelled(s, hits).active.aborted
              /\ s.active.config \notin hits =>
                   /\ Cancelled(s, hits).active.aborted = s.active.aborted
                   /\ s.active.current => Cancelled(s, hits).active.current
<1> DEFINE hitsPending == s.pending # Nothing /\ s.pending \in hits
           hitsActive == s.active # Nothing /\ s.active.config \in hits
           hitsFailed == s.lastFailed # Nothing /\ s.lastFailed \in hits
           dropped == IF ~hitsPending THEN s
                      ELSE [s EXCEPT !.timer = FALSE, !.pending = Nothing, !.ready = FALSE]
<1>1. s \in Schedulers
  BY DEF InOrder
<1>2. CASE ~(hitsPending \/ hitsActive \/ hitsFailed)
  <2>1. Cancelled(s, hits) = s
    BY <1>2 DEF Cancelled
  <2>2. QED
    BY <1>2, <2>1 DEF SameRun
<1>3. CASE hitsPending \/ hitsActive \/ hitsFailed
  <2> DEFINE d == dropped
             p == IF hitsActive THEN Aborted(Outdated(d))
                  ELSE IF hitsPending /\ s.active # Nothing
                  THEN [d EXCEPT !.active.current = TRUE]
                  ELSE d
             c == IF hitsFailed THEN [p EXCEPT !.lastFailed = Nothing, !.failed = FALSE]
                  ELSE p
             e == IF c.pending # Nothing THEN Emitted(c, "pending", c.pending)
                  ELSE IF c.active # Nothing /\ ~c.active.aborted
                  THEN Emitted(c, "updating", c.active.config)
                  ELSE Emitted([c EXCEPT !.failed = FALSE], "idle", Nothing)
             r == SettledIdle(e)
  <2>10. Cancelled(s, hits) = r
    BY <1>3 DEF Cancelled
  <2> HIDE DEF d, p, c, e, r
  <2>1. d = dropped
    BY DEF d
  <2>2. /\ d \in Schedulers /\ d.active = s.active /\ d.lastFailed = s.lastFailed
        /\ d.pending = IF s.pending \in hits THEN Nothing ELSE s.pending
        /\ d.timer => d.pending # Nothing /\ ~d.ready
        /\ d.pending # Nothing => d.ready = s.ready
        /\ d.ready => d.pending # Nothing /\ s.active # Nothing /\ s.active.aborted
        /\ d.failed = s.failed
    BY <1>1, <2>1 DEF Schedulers, InOrder
  <2>4. /\ p \in Schedulers /\ p.lastFailed = s.lastFailed /\ p.pending = d.pending
        /\ p.timer = d.timer /\ p.ready = d.ready /\ p.failed = s.failed
        /\ SameRun(s, p)
        /\ s.active # Nothing =>
             /\ s.active.config \in hits \/ s.active.aborted => p.active.aborted
             /\ s.active.config \notin hits =>
                  /\ p.active.aborted = s.active.aborted
                  /\ s.active.current => p.active.current
             /\ p.active.current => p.pending = Nothing
    <3>1. CASE hitsActive
      <4>1. PICK o : o = Outdated(d)
        OBVIOUS
      <4>2. /\ o \in Schedulers /\ o.lastFailed = s.lastFailed /\ o.pending = d.pending
            /\ o.timer = d.timer /\ o.ready = d.ready /\ o.failed = s.failed /\ SameRun(s, o)
            /\ ~o.active.current /\ o.active.aborted = s.active.aborted
        BY <2>2, <3>1, <4>1, OutdatedIs DEF SameRun
      <4>3. p = Aborted(o)
        BY <3>1, <4>1 DEF p
      <4>4. o.active # Nothing
        BY <3>1, <4>2 DEF SameRun
      <4>5. QED
        BY <3>1, <4>2, <4>3, <4>4, AbortedIs DEF SameRun
    <3>2. CASE ~hitsActive /\ hitsPending /\ s.active # Nothing
      <4>1. PICK a : a = [d.active EXCEPT !.current = TRUE]
        OBVIOUS
      <4>2. d.active \in ActiveRuns
        BY <2>2, <3>2 DEF Schedulers
      <4>3. /\ a \in ActiveRuns /\ a.config = s.active.config
            /\ a.aborted = s.active.aborted /\ a.current = TRUE
        BY <2>2, <4>1, <4>2 DEF ActiveRuns
      <4>4. p = [d EXCEPT !.active = a]
        BY <3>2, <4>1 DEF p
      <4>5. /\ p \in Schedulers /\ p.active = a /\ p.lastFailed = s.lastFailed
            /\ p.pending = d.pending /\ p.timer = d.timer /\ p.ready = d.ready
            /\ p.failed = s.failed
        BY <2>2, <4>3, <4>4 DEF Schedulers
      <4>6. a # Nothing /\ d.pending = Nothing
        BY <2>2, <3>2, <4>3, WallAssumption
      <4>7. QED
        BY <3>2, <4>3, <4>5, <4>6 DEF SameRun
    <3>3. CASE ~hitsActive /\ ~(hitsPending /\ s.active # Nothing)
      <4>1. p = d
        BY <3>3 DEF p
      <4>2. QED
        BY <2>2, <3>3, <4>1 DEF SameRun, InOrder
    <3>4. QED
      BY <3>1, <3>2, <3>3
  <2>6. /\ c \in Schedulers /\ c.pending = p.pending /\ c.active = p.active
        /\ c.timer = p.timer /\ c.ready = p.ready
        /\ c.lastFailed = IF s.lastFailed \in hits THEN Nothing ELSE s.lastFailed
        /\ c.failed => s.failed /\ c.lastFailed = s.lastFailed
    BY <1>1, <2>4 DEF Schedulers, c
  <2>8. /\ e \in Schedulers /\ e.pending = c.pending /\ e.active = c.active
        /\ e.timer = c.timer /\ e.ready = c.ready /\ e.lastFailed = c.lastFailed
        /\ e.pending # Nothing => e.status = "pending" /\ e.kind = e.pending.kind
        /\ e.pending = Nothing /\ e.active # Nothing /\ ~e.active.aborted =>
               e.status = "updating" /\ e.kind = e.active.config.kind
        /\ e.pending = Nothing /\ ~(e.active # Nothing /\ ~e.active.aborted) =>
               e.kind = Nothing /\ ~e.failed
        /\ e.failed => s.failed /\ e.lastFailed = s.lastFailed
    <3>1. CASE c.pending # Nothing
      <4>1. c.pending \in Runs
        BY <2>6, <3>1 DEF Schedulers
      <4>2. e = Emitted(c, "pending", c.pending)
        BY <3>1 DEF e
      <4>3. QED
        BY <2>6, <3>1, <4>1, <4>2, EmittedIs DEF Statuses
    <3>2. CASE c.pending = Nothing /\ c.active # Nothing /\ ~c.active.aborted
      <4>1. c.active.config \in Runs
        BY <2>6, <3>2 DEF Schedulers, ActiveRuns
      <4>2. e = Emitted(c, "updating", c.active.config)
        BY <3>2 DEF e
      <4>3. QED
        BY <2>6, <3>2, <4>1, <4>2, EmittedIs DEF Statuses
    <3>3. CASE c.pending = Nothing /\ ~(c.active # Nothing /\ ~c.active.aborted)
      <4>1. PICK f : f = [c EXCEPT !.failed = FALSE]
        OBVIOUS
      <4>2. /\ f \in Schedulers /\ f.pending = c.pending /\ f.active = c.active
            /\ f.timer = c.timer /\ f.ready = c.ready /\ f.lastFailed = c.lastFailed
            /\ f.failed = FALSE
        BY <2>6, <4>1 DEF Schedulers
      <4>3. e = Emitted(f, "idle", Nothing)
        BY <3>3, <4>1 DEF e
      <4>4. QED
        BY <3>3, <4>2, <4>3, EmittedIs DEF Statuses
    <3>4. QED
      BY <3>1, <3>2, <3>3
  <2>11. /\ r \in Schedulers /\ r.pending = e.pending /\ r.active = e.active
         /\ r.timer = e.timer /\ r.ready = e.ready /\ r.lastFailed = e.lastFailed
         /\ e.active # Nothing \/ e.pending # Nothing => r.status = e.status /\ r.kind = e.kind
         /\ e.kind = Nothing => r.kind = Nothing
         /\ r.failed = e.failed
    BY <2>8, SettledIdleIs DEF r, Idle
  <2>12. SameRun(s, r)
    BY <2>4, <2>6, <2>8, <2>11 DEF SameRun
  <2>13. s.active # Nothing <=> r.active # Nothing
    BY <2>12 DEF SameRun
  <2>16. /\ r.ready => r.pending # Nothing /\ r.active # Nothing /\ r.active.aborted
         /\ r.timer => r.pending # Nothing /\ ~r.ready
         /\ r.active # Nothing /\ r.active.current => r.pending = Nothing
    BY <2>2, <2>4, <2>6, <2>8, <2>11, <2>13
  <2>17. r.failed => r.active = Nothing /\ r.pending = Nothing /\ r.lastFailed # Nothing
    BY <2>2, <2>4, <2>6, <2>8, <2>11, <2>13 DEF InOrder
  <2>18. /\ r.pending # Nothing => r.status = "pending" /\ r.kind = r.pending.kind
         /\ r.pending = Nothing /\ r.active # Nothing =>
                IF r.active.aborted THEN r.kind = Nothing
                ELSE r.status = "updating" /\ r.kind = r.active.config.kind
         /\ r.pending = Nothing /\ r.active = Nothing => r.kind = Nothing /\ ~r.failed
    BY <2>8, <2>11
  <2>14. InOrder(r)
    BY <2>11, <2>16, <2>17, <2>18, WallAssumption DEF InOrder
  <2>15. QED
    BY <2>2, <2>4, <2>6, <2>8, <2>10, <2>11, <2>12, <2>14
<1>4. QED
  BY <1>2, <1>3


(***************************************************************************)
(* The shape of the state.                                                 *)
(***************************************************************************)

Fitting == {b \in SUBSET Boards : Cardinality(b) <= Capacity}
Entries == [before : WallSnapshots, after : WallSnapshots]
Histories == [undo : Seq(Entries), redo : Seq(Entries)]

\* The scheduler and the run it launched.
Working ==
    /\ InOrder(sched)
    /\ run \in Operations \cup {Nothing}
    /\ run # Nothing <=> sched.active # Nothing
    /\ executing \in BOOLEAN
    /\ run # Nothing => /\ run.phase = "short" => ~run.owned
                        /\ run.phase = "loading" => sched.active.config.kind = "filmstrip"

\* What the workspace shows.
Showing ==
    /\ notice \in BOOLEAN /\ overlay \in BOOLEAN
    /\ selected \in Fitting /\ setup \in Setups \cup BadSetups
    /\ film \in Walls \cup {Nothing} /\ key \in Walls \cup {Nothing}
    /\ wanted \in Walls \cup {Nothing}
    /\ film = Nothing <=> key = Nothing
    /\ run # Nothing /\ run.phase = "loading" /\ run.owned => film # Nothing
    /\ forks \cup overlaid \cup importing \subseteq Boards

Recorded ==
    /\ history \in Histories /\ Len(history.undo) <= HistoryLimit
    /\ epoch \in Nat
    /\ restore \in {Nothing, "undo", "redo"}
    /\ trusted \in BOOLEAN
    /\ film = Nothing => history = Empty

\* Intents are of changes of the wall, which run at once, and of epochs up to
\* this one; analyses are asked for while the overlay is open and the setup
\* validates.
Dated(config, now) ==
    /\ config.kind = "analysis" => config.intent = Nothing
    /\ config.intent # Nothing => config.intent.epoch <= now
Waiting ==
    /\ \A config \in Configs(sched) : Dated(config, epoch)
    /\ sched.pending # Nothing => /\ sched.pending.intent # Nothing => sched.ready
                                  /\ sched.pending.kind = "analysis" => overlay /\ Valid
    /\ sched.lastFailed # Nothing /\ sched.lastFailed.kind = "analysis" => overlay
    /\ sched.active # Nothing /\ sched.active.config.kind = "analysis"
           /\ ~sched.active.aborted => overlay

Based == Working /\ Showing /\ Recorded /\ Waiting /\ NeverStuckBusy

LEMMA FittingIs ==
  ASSUME NEW b \in Fitting
  PROVE  /\ IsFiniteSet(b) /\ Cardinality(b) \in Nat
         /\ \A x : b \ {x} \in Fitting
         /\ \A x \in Boards : Cardinality(b) < Capacity => b \cup {x} \in Fitting
         /\ \A x \in Boards, y \in b : (b \ {y}) \cup {x} \in Fitting
<1>1. b \subseteq Boards /\ IsFiniteSet(b) /\ Cardinality(b) \in Nat /\ Cardinality(b) <= Capacity
  BY WallAssumption, FS_Subset, FS_CardinalityType DEF Fitting
<1>2. Capacity \in Nat
  BY WallAssumption
<1>3. ASSUME NEW x
      PROVE  /\ IsFiniteSet(b \ {x}) /\ b \ {x} \in Fitting
             /\ Cardinality(b \ {x}) = IF x \in b THEN Cardinality(b) - 1 ELSE Cardinality(b)
  <2>1. /\ IsFiniteSet(b \ {x})
        /\ Cardinality(b \ {x}) = IF x \in b THEN Cardinality(b) - 1 ELSE Cardinality(b)
    BY <1>1, FS_RemoveElement
  <2>2. Cardinality(b \ {x}) <= Capacity
    BY <1>1, <1>2, <2>1
  <2>3. QED
    BY <1>1, <2>1, <2>2 DEF Fitting
<1>4. ASSUME NEW x \in Boards, Cardinality(b) < Capacity PROVE b \cup {x} \in Fitting
  <2>1. Cardinality(b \cup {x}) = IF x \in b THEN Cardinality(b) ELSE Cardinality(b) + 1
    BY <1>1, FS_AddElement
  <2>2. Cardinality(b \cup {x}) <= Capacity
    BY <1>1, <1>2, <1>4, <2>1
  <2>3. QED
    BY <1>1, <2>2 DEF Fitting
<1>5. ASSUME NEW x \in Boards, NEW y \in b PROVE (b \ {y}) \cup {x} \in Fitting
  <2> DEFINE c == b \ {y}
  <2>1. /\ IsFiniteSet(c) /\ c \subseteq Boards
        /\ Cardinality(c) = Cardinality(b) - 1
    BY <1>1, <1>3
  <2>2. Cardinality(c \cup {x}) = IF x \in c THEN Cardinality(c) ELSE Cardinality(c) + 1
    BY <2>1, FS_AddElement
  <2>3. Cardinality(c \cup {x}) <= Capacity
    BY <1>1, <1>2, <2>1, <2>2
  <2>4. QED
    BY <2>1, <2>3 DEF Fitting
<1>6. QED
  BY <1>1, <1>3, <1>4, <1>5

LEMMA RunIs ==
  ASSUME NEW config \in Walls, NEW intent \in Intents \cup {Nothing}
  PROVE  /\ FilmstripRun(config, intent) \in Runs /\ AnalysisRun(config) \in Runs
         /\ FilmstripRun(config, intent) # Nothing /\ AnalysisRun(config) # Nothing
         /\ FilmstripRun(config, intent).kind = "filmstrip"
         /\ AnalysisRun(config).kind = "analysis"
         /\ FilmstripRun(config, intent).boards = config.boards
         /\ Plain(FilmstripRun(config, intent)) = config
         /\ FilmstripRun(config, intent).intent = intent
         /\ AnalysisRun(config).intent = Nothing
<1>1. config \in [boards : Fitting, setup : Setups]
  BY DEF Walls, Fitting
<1>2. /\ FilmstripRun(config, intent) \in Runs /\ AnalysisRun(config) \in Runs
  BY <1>1 DEF FilmstripRun, AnalysisRun, Runs, Fitting
<1>3. QED
  BY <1>1, <1>2, WallAssumption DEF FilmstripRun, AnalysisRun, Plain

LEMMA ReadIs ==
  ASSUME Showing
  PROVE  /\ CurrentConfig \in Walls /\ CurrentConfig.boards = selected
         /\ \A boards \in Fitting : [CurrentConfig EXCEPT !.boards = boards] \in Walls
         /\ \A boards \in Fitting, fields \in Setups : [boards |-> boards, setup |-> fields] \in Walls
         /\ film # Nothing => CaptureWallSnapshot \in WallSnapshots
         /\ CaptureWallSnapshot.film = film /\ CaptureWallSnapshot.key = key
         /\ Nothing \in Intents \cup {Nothing}
<1>1. (IF Valid THEN setup ELSE Clamped[setup]) \in Setups
  BY WallAssumption DEF Showing, Valid
<1>2. \A boards \in Fitting, fields \in Setups : [boards |-> boards, setup |-> fields] \in Walls
  BY DEF Walls, Fitting
<1>3. CurrentConfig \in Walls /\ CurrentConfig.boards = selected
  BY <1>1, <1>2 DEF CurrentConfig, Showing
<1>4. \A boards \in Fitting : [CurrentConfig EXCEPT !.boards = boards] \in Walls
  BY <1>3 DEF Walls, Fitting
<1>5. film # Nothing => CaptureWallSnapshot \in WallSnapshots
  BY DEF CaptureWallSnapshot, WallSnapshots, Showing
<1>6. QED
  BY <1>2, <1>3, <1>4, <1>5 DEF CaptureWallSnapshot

(***************************************************************************)
(* What a step makes of the scheduler and its run.                         *)
(***************************************************************************)

\* A run of a configuration begins.
Begun(config, busy) ==
    /\ sched'.pending = Nothing /\ sched'.active # Nothing
    /\ sched'.active.config = config
    /\ sched'.active.current /\ ~sched'.active.aborted
    /\ run' # Nothing
    /\ (run'.phase = "short" /\ ~run'.owned) \/ (run'.phase = "asked" /\ run'.owned)
    /\ config.kind = "filmstrip" /\ run'.phase = "short" =>
           Cardinality(config.boards) < MinWallTilings
    /\ executing' => run'.owned \/ busy
    /\ config.kind # "filmstrip" => forks' = forks /\ overlaid' = overlaid
    /\ config.kind = "filmstrip" => forks' = {} /\ overlaid' = overlaid \ forks

\* The run goes on, if there is one.
GoesOn(busy) ==
    /\ SameRun(sched, sched')
    /\ run' = run /\ executing' = busy /\ forks' = forks /\ overlaid' = overlaid

\* The run has ended, with s the scheduler that it settles.
Ended(s) ==
    /\ \/ sched'.lastFailed = Nothing \/ sched'.lastFailed = sched.lastFailed
       \/ ~sched.active.aborted /\ sched'.lastFailed = sched.active.config
    /\ \/ /\ sched'.active = Nothing /\ ~s.ready /\ sched'.pending = s.pending
          /\ run' = Nothing /\ executing' = (executing /\ ~run.owned)
          /\ forks' = forks /\ overlaid' = overlaid
       \/ s.pending # Nothing /\ Begun(s.pending, executing /\ ~run.owned)

\* A configuration is run at once: it waits for the run under way, which is
\* aborted.
AtOnce(config, busy) ==
    /\ sched'.lastFailed = sched.lastFailed
    /\ \/ /\ run # Nothing /\ GoesOn(busy)
          /\ sched'.pending = config /\ sched'.ready
          /\ ~sched'.active.current /\ sched'.active.aborted
       \/ run = Nothing /\ Begun(config, busy)

\* A configuration is asked for later, which outdates the run under way, or is
\* refused, which aborts it.
Later(config, valid) ==
    /\ sched'.lastFailed = sched.lastFailed
    /\ SameRun(sched, sched')
    /\ sched'.pending = IF valid THEN config ELSE Nothing
    /\ run # Nothing => IF valid THEN sched'.active.aborted = sched.active.aborted
                        ELSE sched'.active.aborted

Stopped == sched'.lastFailed = sched.lastFailed /\ SameRun(sched, sched')
           /\ sched'.pending = Nothing /\ (run # Nothing => sched'.active.aborted)

\* What a step through Proceed does.
Launches(next, ended) == next.active # Nothing /\ (sched.active = Nothing \/ ended)

LEMMA ProceedIs ==
  ASSUME Working, NEW next, InOrder(next), NEW ended \in BOOLEAN, NEW busy \in BOOLEAN,
         ended => run # Nothing,
         ~ended /\ sched.active # Nothing => SameRun(sched, next),
         Proceed(next, ended, busy)
  PROVE  /\ Working' /\ sched' = next
         /\ ~Launches(next, ended) =>
              /\ run' = (IF ended THEN Nothing ELSE run)
              /\ executing' = (busy /\ ~(ended /\ run.owned))
              /\ forks' = forks /\ overlaid' = overlaid
         /\ Launches(next, ended) /\ next.pending = Nothing /\ next.active.current
                /\ ~next.active.aborted =>
              Begun(next.active.config, busy /\ ~(ended /\ run.owned))
<1> DEFINE freed == busy /\ ~(ended /\ run.owned)
<1>1. freed \in BOOLEAN /\ sched' = next
  BY DEF Proceed
<1>2. CASE Launches(next, ended)
  <2>1. Begins(next.active.config, freed)
    BY <1>2 DEF Proceed, Launches
  <2>2. /\ run' \in Operations /\ executing' \in BOOLEAN
        /\ (run'.phase = "short" /\ ~run'.owned) \/ (run'.phase = "asked" /\ run'.owned)
        /\ next.active.config.kind = "filmstrip" /\ run'.phase = "short" =>
               Cardinality(next.active.config.boards) < MinWallTilings
        /\ executing' => run'.owned \/ freed
    <3>1. CASE /\ \/ next.active.config.kind = "analysis"
                  \/ Cardinality(next.active.config.boards) < MinWallTilings
               /\ run' = Operation("short", FALSE) /\ executing' = freed
      <4>1. run'.phase = "short" /\ run'.owned = FALSE /\ run' \in Operations
        BY <3>1 DEF Operation, Operations
      <4>2. QED
        BY <1>1, <3>1, <4>1
    <3>2. CASE run' = Operation("asked", TRUE) /\ executing' = TRUE
      BY <1>1, <3>2 DEF Operation, Operations
    <3>3. QED
      BY <2>1, <3>1, <3>2 DEF Begins
  <2>3. /\ next.active.config.kind # "filmstrip" => forks' = forks /\ overlaid' = overlaid
        /\ next.active.config.kind = "filmstrip" => forks' = {} /\ overlaid' = overlaid \ forks
    <3>1. next.active.config.kind \in {"filmstrip", "analysis"}
      BY <1>2 DEF Launches, InOrder, Schedulers, ActiveRuns, Runs
    <3>2. QED
      BY <1>2, <3>1 DEF Proceed, Launches, LeavesForks
  <2>4. Working'
    BY <1>1, <1>2, <2>2, WallAssumption DEF Working, Launches
  <2>5. run' # Nothing
    BY <2>2, WallAssumption
  <2>6. ASSUME next.pending = Nothing, next.active.current, ~next.active.aborted
        PROVE  Begun(next.active.config, freed)
    <3> HIDE DEF freed
    <3>1. sched' = next /\ next.active # Nothing
      BY <1>1, <1>2 DEF Launches
    <3>2. QED
      BY <2>2, <2>3, <2>5, <2>6, <3>1 DEF Begun
  <2>7. QED
    BY <1>1, <1>2, <2>4, <2>6
<1>3. CASE ~Launches(next, ended)
  <2>1. /\ run' = (IF ended THEN Nothing ELSE run) /\ executing' = freed
        /\ forks' = forks /\ overlaid' = overlaid
    BY <1>3 DEF Proceed, Launches
  <2>2. run' # Nothing <=> next.active # Nothing
    BY <1>3, <2>1 DEF Launches, Working, SameRun
  <2>3. run' # Nothing => run' = run /\ ~ended /\ next.active.config = sched.active.config
    BY <2>1 DEF Working, SameRun
  <2>4. Working'
    BY <1>1, <2>1, <2>2, <2>3 DEF Working
  <2>5. QED
    BY <1>1, <1>3, <2>1, <2>4
<1>4. QED
  BY <1>2, <1>3

\* Without an open overlay the status is never that of an analysis.
LEMMA NoAnalysis ==
  ASSUME Working, Waiting, ~overlay
  PROVE  sched.kind # "analysis"
  BY WallAssumption DEF Working, Waiting, InOrder

LEMMA ScheduleIs ==
  ASSUME Working, NEW config \in Runs, NEW valid \in BOOLEAN,
         valid \/ sched.kind # "analysis",
         sched' = Schedule(sched, config, valid)
  PROVE  InOrder(sched') /\ Later(config, valid)
<1>0. InOrder(sched) /\ (run # Nothing <=> sched.active # Nothing)
  BY DEF Working
<1>1. CASE valid
  <2>1. sched' = Scheduled(sched, config)
    BY <1>1 DEF Schedule
  <2>2. PICK t : t = Scheduled(sched, config)
    OBVIOUS
  <2>3. /\ InOrder(t) /\ SameRun(sched, t) /\ t.lastFailed = sched.lastFailed
        /\ t.pending = config
        /\ sched.active # Nothing => t.active.aborted = sched.active.aborted
    BY <1>0, <2>2, ScheduledIs DEF Asked
  <2>4. QED
    BY <1>0, <1>1, <2>1, <2>2, <2>3 DEF Later
<1>2. CASE ~valid
  <2>1. sched' = Refused(sched)
    BY <1>2 DEF Schedule
  <2>2. QED
    BY <1>0, <1>2, <2>1, RefusedIs DEF Later
<1>3. QED
  BY <1>1, <1>2

\* The run is left as it is or loses its ticket.
LEMMA KeptIs ==
  ASSUME Working, InOrder(sched'), SameRun(sched, sched'), executing' \in BOOLEAN,
         run' = run \/ (run # Nothing /\ run' = [run EXCEPT !.owned = FALSE])
  PROVE  /\ Working'
         /\ run' = Nothing <=> run = Nothing
         /\ run # Nothing => run'.phase = run.phase /\ (run'.owned => run.owned)
<1>1. CASE run' = run
  BY <1>1 DEF Working, SameRun
<1>2. CASE run # Nothing /\ run' = [run EXCEPT !.owned = FALSE]
  <2>1. run \in Operations
    BY <1>2 DEF Working
  <2>2. run' \in Operations /\ run'.phase = run.phase /\ run'.owned = FALSE
    BY <1>2, <2>1 DEF Operations
  <2>3. run' # Nothing
    BY <2>2, WallAssumption
  <2>4. QED
    BY <1>2, <2>2, <2>3 DEF Working, SameRun
<1>3. QED
  BY <1>1, <1>2

\* A run whose boards have loaded settles, after an analysis was scheduled if
\* the overlay is open.
AfterLoad == IF overlay /\ selected # {} THEN Schedule(sched, AnalysisRun(CurrentConfig), Valid)
             ELSE sched

LEMMA AfterLoadIs ==
  ASSUME Working, Showing, Waiting, run # Nothing, run.phase = "loading", Goes
  PROVE  /\ InOrder(AfterLoad) /\ SameRun(sched, AfterLoad)
         /\ AfterLoad.lastFailed = sched.lastFailed
         /\ AfterLoad.active.aborted => ~Valid
         /\ overlay /\ selected # {} =>
                AfterLoad.pending = IF Valid THEN AnalysisRun(CurrentConfig) ELSE Nothing
         /\ ~(overlay /\ selected # {}) => AfterLoad = sched
<1>1. /\ InOrder(sched) /\ sched.active # Nothing /\ AnalysisRun(CurrentConfig) \in Runs
      /\ Valid \in BOOLEAN /\ ~sched.active.aborted /\ sched.active.config.kind = "filmstrip"
  BY ReadIs, RunIs DEF Working, Valid, Goes
<1>2. CASE overlay /\ selected # {} /\ Valid
  <2>1. AfterLoad = Scheduled(sched, AnalysisRun(CurrentConfig))
    BY <1>2 DEF AfterLoad, Schedule
  <2>2. PICK t : t = Scheduled(sched, AnalysisRun(CurrentConfig))
    OBVIOUS
  <2>3. /\ InOrder(t) /\ SameRun(sched, t) /\ t.lastFailed = sched.lastFailed
        /\ t.pending = AnalysisRun(CurrentConfig)
        /\ t.active.aborted = sched.active.aborted
    BY <1>1, <2>2, ScheduledIs DEF Asked
  <2>4. QED
    BY <1>1, <1>2, <2>1, <2>2, <2>3
<1>3. CASE overlay /\ selected # {} /\ ~Valid
  <2>1. AfterLoad = Refused(sched)
    BY <1>3 DEF AfterLoad, Schedule
  <2>2. sched.kind # "analysis"
    BY <1>1, <1>3 DEF Waiting, InOrder
  <2>3. QED
    BY <1>1, <1>3, <2>1, <2>2, RefusedIs
<1>4. CASE ~(overlay /\ selected # {})
  BY <1>1, <1>4 DEF AfterLoad, SameRun
<1>5. QED
  BY <1>2, <1>3, <1>4

LEMMA EndedIs ==
  ASSUME Working, run # Nothing, NEW s, InOrder(s), SameRun(sched, s),
         s.lastFailed = sched.lastFailed, NEW succeeded \in BOOLEAN,
         succeeded \/ s.active.aborted \/ ~sched.active.aborted,
         Proceed(Settled(s, succeeded), TRUE, executing)
  PROVE  Working' /\ Ended(s)
<1>1. sched.active # Nothing /\ s.active # Nothing /\ executing \in BOOLEAN
      /\ s.active.config = sched.active.config
  BY DEF Working, SameRun
<1>2. PICK next : next = Settled(s, succeeded)
  OBVIOUS
<1>3. /\ InOrder(next)
      /\ \/ next.active = Nothing /\ ~s.ready /\ next.pending = s.pending
         \/ /\ s.pending # Nothing /\ next.pending = Nothing /\ next.active # Nothing
            /\ next.active.config = s.pending
            /\ next.active.current /\ ~next.active.aborted
      /\ \/ next.lastFailed = Nothing \/ next.lastFailed = sched.lastFailed
         \/ ~sched.active.aborted /\ next.lastFailed = sched.active.config
  BY <1>1, <1>2, SettledIs
<1>4. Proceed(next, TRUE, executing)
  BY <1>2
<1>5. Launches(next, TRUE) <=> next.active # Nothing
  BY DEF Launches
<1>6. Working' /\ sched' = next
  BY <1>1, <1>3, <1>4, ProceedIs
<1>7. CASE next.active = Nothing
  <2>1. run' = Nothing /\ executing' = (executing /\ ~run.owned)
        /\ forks' = forks /\ overlaid' = overlaid
    BY <1>1, <1>3, <1>4, <1>5, <1>7, ProceedIs
  <2>2. QED
    BY <1>3, <1>6, <1>7, <2>1 DEF Ended
<1>8. CASE next.active # Nothing
  <2>1. Begun(next.active.config, executing /\ ~run.owned)
    BY <1>1, <1>3, <1>4, <1>5, <1>8, ProceedIs
  <2>2. QED
    BY <1>3, <1>6, <1>8, <2>1 DEF Ended
<1>9. QED
  BY <1>7, <1>8

LEMMA RunNowStep ==
  ASSUME Working, NEW config \in Runs, NEW busy \in BOOLEAN,
         Proceed(RunNow(sched, config), FALSE, busy)
  PROVE  Working' /\ AtOnce(config, busy)
<1>1. PICK next : next = RunNow(sched, config)
  OBVIOUS
<1>2. /\ InOrder(sched) /\ (run # Nothing <=> sched.active # Nothing)
      /\ Proceed(next, FALSE, busy) /\ config # Nothing
  BY <1>1, WallAssumption DEF Working
<1>3. /\ InOrder(next) /\ next.active # Nothing /\ Asked(sched, config, next)
      /\ next.pending # Nothing => next.ready
      /\ sched.active # Nothing => next.active.aborted
  BY <1>1, <1>2, RunNowIs
<1>4. /\ next.lastFailed = sched.lastFailed
      /\ sched.active # Nothing =>
             SameRun(sched, next) /\ next.pending = config /\ ~next.active.current
      /\ sched.active = Nothing =>
           /\ next.pending = Nothing /\ next.active.config = config
           /\ next.active.current /\ ~next.active.aborted
  BY <1>3 DEF Asked, SameRun
<1>5. Launches(next, FALSE) <=> sched.active = Nothing
  BY <1>3 DEF Launches
<1>6. Working' /\ sched' = next
  BY <1>2, <1>3, <1>4, ProceedIs
<1>7. CASE run # Nothing
  <2>1. run' = run /\ executing' = busy /\ forks' = forks /\ overlaid' = overlaid
    BY <1>2, <1>3, <1>4, <1>5, <1>7, ProceedIs
  <2>2. QED
    BY <1>2, <1>3, <1>4, <1>6, <1>7, <2>1 DEF AtOnce, GoesOn
<1>8. CASE run = Nothing
  <2>1. Begun(next.active.config, busy)
    BY <1>2, <1>3, <1>4, <1>5, <1>8, ProceedIs
  <2>2. QED
    BY <1>2, <1>4, <1>6, <1>8, <2>1 DEF AtOnce
<1>9. QED
  BY <1>7, <1>8

LEMMA RefusedStep ==
  ASSUME Working, sched.kind # "analysis", NEW busy \in BOOLEAN,
         Proceed(Refused(sched), FALSE, busy)
  PROVE  Working' /\ Stopped /\ GoesOn(busy)
<1>1. PICK next : next = Refused(sched)
  OBVIOUS
<1>2. /\ InOrder(next) /\ SameRun(sched, next) /\ next.pending = Nothing
      /\ next.lastFailed = sched.lastFailed
      /\ sched.active # Nothing => next.active.aborted
  BY <1>1, RefusedIs DEF Working
<1>3. ~Launches(next, FALSE)
  BY <1>2 DEF Launches, SameRun
<1>4. Proceed(next, FALSE, busy)
  BY <1>1
<1>5. /\ Working' /\ sched' = next
      /\ run' = run /\ executing' = busy /\ forks' = forks /\ overlaid' = overlaid
  BY <1>2, <1>3, <1>4, ProceedIs
<1>6. QED
  BY <1>2, <1>5 DEF Working, Stopped, GoesOn

\* runNow of a configuration, if the fields validate
LEMMA ImmediatelyStep ==
  ASSUME Working, Waiting, ~overlay, NEW config \in Runs, NEW busy \in BOOLEAN,
         Proceed(Immediately(sched, config), FALSE, busy)
  PROVE  /\ Working'
         /\ Valid => AtOnce(config, busy)
         /\ ~Valid => Stopped /\ GoesOn(busy)
<1>1. CASE Valid
  BY <1>1, RunNowStep DEF Immediately
<1>2. CASE ~Valid
  BY <1>2, RefusedStep, NoAnalysis DEF Immediately
<1>3. QED
  BY <1>1, <1>2

LEMMA TimerStep ==
  ASSUME Working, TimerExpires
  PROVE  /\ Working' /\ sched'.lastFailed = sched.lastFailed
         /\ sched.pending # Nothing /\ sched.timer
         /\ run # Nothing => /\ GoesOn(executing) /\ sched'.pending = sched.pending
                             /\ sched'.active.aborted
         /\ run = Nothing => Begun(sched.pending, executing)
<1>1. PICK next : next = Expired(sched)
  OBVIOUS
<1>2. /\ InOrder(sched) /\ sched.timer /\ Proceed(next, FALSE, executing)
      /\ executing \in BOOLEAN /\ (run # Nothing <=> sched.active # Nothing)
  BY <1>1 DEF Working, TimerExpires
<1>3. /\ InOrder(next) /\ sched.pending # Nothing /\ next.lastFailed = sched.lastFailed
      /\ sched.active # Nothing => /\ next.pending = sched.pending /\ SameRun(sched, next)
                                   /\ next.active.aborted /\ next.active # Nothing
      /\ sched.active = Nothing =>
           /\ next.pending = Nothing /\ next.active # Nothing
           /\ next.active.config = sched.pending
           /\ next.active.current /\ ~next.active.aborted
  BY <1>1, <1>2, ExpiredIs DEF SameRun
<1>4. Working' /\ sched' = next
  BY <1>2, <1>3, ProceedIs
<1>5. Launches(next, FALSE) <=> sched.active = Nothing
  BY <1>3 DEF Launches
<1>6. CASE run # Nothing
  <2>1. run' = run /\ executing' = executing /\ forks' = forks /\ overlaid' = overlaid
    BY <1>2, <1>3, <1>5, <1>6, ProceedIs
  <2>2. QED
    BY <1>2, <1>3, <1>4, <1>6, <2>1 DEF GoesOn
<1>7. CASE run = Nothing
  <2>1. Begun(next.active.config, executing)
    BY <1>2, <1>3, <1>4, <1>5, <1>7, ProceedIs
  <2>2. QED
    BY <1>2, <1>3, <1>4, <1>7, <2>1
<1>8. QED
  BY <1>6, <1>7


(***************************************************************************)
(* The steps of the workspace, as far as scheduler and run are concerned.  *)
(***************************************************************************)

LEMMA LoadedStep ==
  ASSUME Based, FilmstripLoaded
  PROVE  Working' /\ Ended(AfterLoad)
<1>1. /\ run # Nothing /\ run.phase = "loading" /\ Goes
      /\ Proceed(Settled(AfterLoad, TRUE), TRUE, executing)
  BY DEF FilmstripLoaded, AfterLoad
<1>2. QED
  BY <1>1, AfterLoadIs, EndedIs DEF Based

LEMMA EndsStep ==
  ASSUME Based, RunEnds \/ RunFails
  PROVE  Working' /\ Ended(sched)
<1>1. InOrder(sched) /\ SameRun(sched, sched)
  BY DEF Based, Working, SameRun
<1>2. CASE RunEnds
  BY <1>1, <1>2, EndedIs DEF Based, RunEnds
<1>3. CASE RunFails
  BY <1>1, <1>3, EndedIs DEF Based, RunFails, Goes
<1>4. QED
  BY <1>2, <1>3

LEMMA ArrivesStep ==
  ASSUME Based, FilmstripArrives
  PROVE  /\ Working' /\ run' # Nothing /\ run'.phase = "loading" /\ run'.owned
         /\ run # Nothing /\ run.phase = "asked" /\ Goes
         /\ sched.active.config.kind = "filmstrip" /\ sched.active.config \in Runs
<1>1. /\ run \in Operations /\ run # Nothing /\ run.owned = TRUE
      /\ run' = [run EXCEPT !.phase = "loading"]
      /\ sched' = sched /\ executing' = executing /\ Working
      /\ sched.active.config.kind = "filmstrip"
  BY DEF Based, Working, FilmstripArrives, Goes, Operations
<1>2. run' \in Operations /\ run'.phase = "loading" /\ run'.owned = TRUE
  BY <1>1 DEF Operations
<1>3. run' # Nothing
  BY <1>2, WallAssumption
<1>4. sched.active.config \in Runs
  BY <1>1 DEF Working, InOrder, Schedulers, ActiveRuns
<1>5. QED
  BY <1>1, <1>2, <1>3, <1>4 DEF Working, FilmstripArrives

\* The configuration that a change of the wall asks for.
Asking(tilings, fields) ==
    [boards |-> tilings, setup |-> IF fields \in Setups THEN fields ELSE Clamped[fields]]

LEMMA AskingIs ==
  ASSUME NEW tilings \in Fitting, NEW fields \in Setups \cup BadSetups
  PROVE  Asking(tilings, fields) \in Walls
  BY WallAssumption DEF Asking, Walls, Fitting

LEMMA ChangeStep ==
  ASSUME Based, NEW tilings \in Fitting, NEW fields \in Setups \cup BadSetups,
         ChangeWall(tilings, fields)
  PROVE  /\ Working' /\ run' = run
         /\ Later(FilmstripRun(Asking(tilings, fields), Nothing), fields \in Setups)
<1>1. FilmstripRun(Asking(tilings, fields), Nothing) \in Runs
  BY AskingIs, RunIs
<1>2. sched' = Schedule(sched, FilmstripRun(Asking(tilings, fields), Nothing), fields \in Setups)
  BY DEF ChangeWall, Asking
<1>3. sched.kind # "analysis"
  BY NoAnalysis DEF Based, ChangeWall
<1>4. run' = run /\ executing' \in BOOLEAN
  BY DEF ChangeWall, Freed, Based, Working
<1>5. InOrder(sched') /\ Later(FilmstripRun(Asking(tilings, fields), Nothing), fields \in Setups)
  <2> DEFINE valid == fields \in Setups
  <2>1. valid \in BOOLEAN
    OBVIOUS
  <2>2. sched' = Schedule(sched, FilmstripRun(Asking(tilings, fields), Nothing), valid)
    BY <1>2
  <2> HIDE DEF valid
  <2>3. InOrder(sched') /\ Later(FilmstripRun(Asking(tilings, fields), Nothing), valid)
    BY <1>1, <1>3, <2>1, <2>2, ScheduleIs DEF Based
  <2>4. QED
    BY <2>3 DEF valid
<1>6. QED
  BY <1>4, <1>5, KeptIs DEF Based, Later

LEMMA ApplyStep ==
  ASSUME Based, NEW tilings \in Fitting, NEW fields \in Setups,
         ApplyRunConfig(tilings, fields)
  PROVE  /\ Working'
         /\ run # Nothing => ~run'.owned
         /\ Later(FilmstripRun([boards |-> tilings, setup |-> fields], Nothing), TRUE)
<1> DEFINE config == FilmstripRun([boards |-> tilings, setup |-> fields], Nothing)
<1>1. config \in Runs
  BY RunIs DEF Walls, Fitting
<1>2. sched' = Scheduled(sched, config)
  BY DEF ApplyRunConfig
<1>3. /\ run' = (IF run = Nothing THEN run ELSE [run EXCEPT !.owned = FALSE])
      /\ executing' \in BOOLEAN
  BY DEF ApplyRunConfig, Invalidated
<1>4. sched' = Schedule(sched, config, TRUE)
  BY <1>2 DEF Schedule
<1>5. InOrder(sched') /\ Later(config, TRUE)
  BY <1>1, <1>4, ScheduleIs DEF Based
<1>6. run # Nothing => ~run'.owned
  BY <1>3 DEF Based, Working, Operations
<1>7. Working'
  BY <1>3, <1>5, KeptIs DEF Based, Later
<1>8. QED
  BY <1>5, <1>6, <1>7

\* What a change of single boards asks for.
Rearranged(tilings) ==
    FilmstripRun([CurrentConfig EXCEPT !.boards = tilings],
                 [before |-> CaptureWallSnapshot, epoch |-> epoch])

LEMMA RearrangedIs ==
  ASSUME Based, film # Nothing, NEW tilings \in Fitting
  PROVE  /\ Rearranged(tilings) \in Runs /\ Rearranged(tilings).kind = "filmstrip"
         /\ Plain(Rearranged(tilings)) = [CurrentConfig EXCEPT !.boards = tilings]
         /\ Rearranged(tilings).intent # Nothing
         /\ Rearranged(tilings).intent.before = CaptureWallSnapshot
         /\ Rearranged(tilings).intent.epoch = epoch
<1>1. PICK i : i = [before |-> CaptureWallSnapshot, epoch |-> epoch]
  OBVIOUS
<1>2. CaptureWallSnapshot \in WallSnapshots /\ epoch \in Nat
  BY ReadIs DEF Based, Recorded
<1>3. i \in Intents
  BY <1>1, <1>2 DEF Intents
<1>4. [CurrentConfig EXCEPT !.boards = tilings] \in Walls
  BY ReadIs DEF Based
<1>5. i # Nothing /\ i.before = CaptureWallSnapshot /\ i.epoch = epoch
  BY <1>1, <1>3, WallAssumption
<1>6. Rearranged(tilings) = FilmstripRun([CurrentConfig EXCEPT !.boards = tilings], i)
  BY <1>1 DEF Rearranged
<1>7. QED
  BY <1>3, <1>4, <1>5, <1>6, RunIs

LEMMA RearrangeStep ==
  ASSUME Based, NEW tilings \in Fitting, Rearrange(tilings)
  PROVE  /\ Working' /\ film # Nothing
         /\ Valid => AtOnce(Rearranged(tilings), executing)
         /\ ~Valid => Stopped /\ GoesOn(executing)
<1>1. /\ film # Nothing /\ ~overlay /\ executing \in BOOLEAN
      /\ Proceed(Immediately(sched, Rearranged(tilings)), FALSE, executing)
  BY DEF Rearrange, Manageable, Rearranged, Based, Working
<1>2. Rearranged(tilings) \in Runs
  BY <1>1, RearrangedIs
<1>3. QED
  BY <1>1, <1>2, ImmediatelyStep DEF Based

\* What is left on the wall when a board is removed, and what was queued.
Survivors(b) == [CurrentConfig EXCEPT !.boards = selected \ {b}]
QueuedKind == IF Queued THEN sched.kind ELSE Nothing

LEMMA SurvivorsIs ==
  ASSUME Showing, NEW b
  PROVE  Survivors(b) \in Walls /\ Survivors(b).boards = selected \ {b}
<1>1. selected \ {b} \in Fitting
  BY FittingIs DEF Showing
<1>2. QED
  BY <1>1, ReadIs DEF Survivors, Walls

LEMMA RemoveStep ==
  ASSUME Based, NEW b, RemoveBoard(b)
  PROVE  /\ Working' /\ run' = run /\ executing' = executing /\ ~executing
         /\ QueuedKind = "filmstrip" => Later(FilmstripRun(Survivors(b), Nothing), Valid)
         /\ QueuedKind # "filmstrip" => /\ sched' = sched /\ sched.pending = Nothing
                                        /\ run # Nothing => sched.active.aborted
<1>1. /\ ~overlay /\ ~executing /\ sched.kind # "analysis" /\ executing \in BOOLEAN
      /\ InOrder(sched) /\ (run # Nothing <=> sched.active # Nothing)
  BY NoAnalysis DEF Based, RemoveBoard, Manageable, Working
<1>2. run' = run /\ executing' = executing
  BY DEF RemoveBoard
<1>3. sched' = CASE QueuedKind = "filmstrip" ->
                        Schedule(sched, FilmstripRun(Survivors(b), Nothing), Valid)
                 [] QueuedKind = "analysis" -> Schedule(sched, AnalysisRun(Survivors(b)), Valid)
                 [] OTHER -> sched
  BY DEF RemoveBoard, QueuedKind, Survivors
<1>4. QueuedKind # "analysis"
  BY <1>1, WallAssumption DEF QueuedKind
<1>5. CASE QueuedKind = "filmstrip"
  <2>1. FilmstripRun(Survivors(b), Nothing) \in Runs
    BY SurvivorsIs, RunIs DEF Based
  <2>2. sched' = Schedule(sched, FilmstripRun(Survivors(b), Nothing), Valid)
    BY <1>3, <1>5
  <2>3. Valid \in BOOLEAN
    BY DEF Valid
  <2>4. InOrder(sched') /\ Later(FilmstripRun(Survivors(b), Nothing), Valid)
    BY <1>1, <2>1, <2>2, <2>3, ScheduleIs DEF Based
  <2>5. QED
    BY <1>1, <1>2, <1>5, <2>4, KeptIs DEF Based, Later
<1>6. CASE QueuedKind # "filmstrip"
  <2>1. sched' = sched
    BY <1>3, <1>4, <1>6
  <2>2. ~Queued \/ sched.kind = Nothing
    BY <1>1, <1>6 DEF QueuedKind, InOrder, Schedulers
  <2>3. ~Queued => sched.status # "pending" /\ sched.status # "updating"
    BY <1>1 DEF Queued
  <2>4. sched.pending = Nothing
    <3>1. ASSUME sched.pending # Nothing PROVE FALSE
      <4>1. /\ sched.status = "pending" /\ sched.kind = sched.pending.kind
            /\ sched.pending.kind \in {"filmstrip", "analysis"}
        BY <1>1, <3>1 DEF InOrder, Schedulers, Runs
      <4>2. QED
        BY <2>2, <2>3, <4>1, WallAssumption
    <3>2. QED
      BY <3>1
  <2>5. ASSUME run # Nothing, ~sched.active.aborted PROVE FALSE
    <3>1. /\ sched.status = "updating" /\ sched.kind = sched.active.config.kind
          /\ sched.active.config.kind \in {"filmstrip", "analysis"}
      BY <1>1, <2>4, <2>5 DEF InOrder, Schedulers, ActiveRuns, Runs
    <3>2. QED
      BY <2>2, <2>3, <3>1, WallAssumption
  <2>6. QED
    BY <1>1, <1>2, <1>6, <2>1, <2>4, <2>5 DEF Based, Working
<1>7. QED
  BY <1>5, <1>6


LEMMA RunWallStep ==
  ASSUME Based, RunWall
  PROVE  Working' /\ AtOnce(FilmstripRun(CurrentConfig, Nothing), executing)
<1>1. FilmstripRun(CurrentConfig, Nothing) \in Runs /\ executing \in BOOLEAN
  BY ReadIs, RunIs DEF Based, Working
<1>2. QED
  BY <1>1, RunNowStep DEF Based, RunWall

LEMMA RunAnalysisStep ==
  ASSUME Based, RunAnalysis
  PROVE  Working' /\ AtOnce(AnalysisRun(CurrentConfig), executing)
<1>1. AnalysisRun(CurrentConfig) \in Runs /\ executing \in BOOLEAN
  BY ReadIs, RunIs DEF Based, Working
<1>2. QED
  BY <1>1, RunNowStep DEF Based, RunAnalysis

LEMMA RetryStep ==
  ASSUME Based, Retry
  PROVE  /\ Working' /\ Retried(sched) \in Runs /\ Retried(sched) \in Configs(sched)
         /\ Valid => AtOnce(Retried(sched), executing)
         /\ ~Valid => Stopped /\ GoesOn(executing)
<1>1. /\ Retried(sched) # Nothing /\ ~overlay /\ executing \in BOOLEAN
      /\ Proceed(Immediately(sched, Retried(sched)), FALSE, executing)
  BY DEF Retry, Based, Working
<1>2. Retried(sched) \in Runs /\ Retried(sched) \in Configs(sched)
  BY <1>1 DEF Based, Working, InOrder, Schedulers, Retried, Configs
<1>3. QED
  BY <1>1, <1>2, ImmediatelyStep DEF Based

\* What an overlay that opens asks for.
Opened == IF IsFilmstripCurrent THEN AnalysisRun(CurrentConfig)
          ELSE FilmstripRun(CurrentConfig, Nothing)

LEMMA OpenStep ==
  ASSUME Based, OpenAnalysisOverlay
  PROVE  /\ Working' /\ Opened \in Runs /\ Later(Opened, Valid)
         /\ run' = run /\ executing' = executing
<1>1. Opened \in Runs
  BY ReadIs, RunIs DEF Opened, Based
<1>2. sched.kind # "analysis"
  BY NoAnalysis DEF Based, OpenAnalysisOverlay
<1>3. Valid \in BOOLEAN
  BY DEF Valid
<1>4. sched' = Schedule(sched, Opened, Valid)
  BY DEF OpenAnalysisOverlay, Opened
<1>5. InOrder(sched') /\ Later(Opened, Valid)
  BY <1>1, <1>2, <1>3, <1>4, ScheduleIs DEF Based
<1>6. run' = run /\ executing' = executing
  BY DEF OpenAnalysisOverlay
<1>7. QED
  BY <1>1, <1>5, <1>6, KeptIs DEF Based, Later, Working

LEMMA CloseStep ==
  ASSUME Based, CloseAnalysisOverlay
  PROVE  /\ Working' /\ SameRun(sched, sched')
         /\ sched'.pending = IF sched.pending # Nothing /\ sched.pending.kind = "analysis"
                             THEN Nothing ELSE sched.pending
         /\ sched'.lastFailed =
                IF sched.lastFailed # Nothing /\ sched.lastFailed.kind = "analysis"
                THEN Nothing ELSE sched.lastFailed
         /\ sched'.pending # Nothing => sched'.ready = sched.ready
         /\ run # Nothing =>
              IF sched.active.config.kind = "analysis"
              THEN sched'.active.aborted /\ ~run'.owned
              ELSE /\ run' = run /\ executing' = executing
                   /\ sched'.active.aborted = sched.active.aborted
                   /\ sched.active.current => sched'.active.current
         /\ run = Nothing => run' = Nothing /\ executing' = executing
         /\ executing' => executing /\ run' = run
<1> DEFINE hits == {config \in Configs(sched) : IsAnalysis(config)}
           owner == run # Nothing /\ run.owned /\ IsAnalysis(sched.active.config)
<1>1. /\ InOrder(sched) /\ executing \in BOOLEAN /\ (run # Nothing <=> sched.active # Nothing)
      /\ run # Nothing => run \in Operations
  BY DEF Based, Working
<1>2. PICK t : t = Cancelled(sched, hits)
  OBVIOUS
<1>3. /\ sched' = t /\ run' = (IF owner THEN [run EXCEPT !.owned = FALSE] ELSE run)
      /\ executing' = (executing /\ ~owner)
  BY <1>2 DEF CloseAnalysisOverlay
<1>4. /\ sched.pending \in hits <=> sched.pending # Nothing /\ sched.pending.kind = "analysis"
      /\ sched.lastFailed \in hits
             <=> sched.lastFailed # Nothing /\ sched.lastFailed.kind = "analysis"
  BY DEF Configs, IsAnalysis
<1>5. run # Nothing => (sched.active.config \in hits <=> sched.active.config.kind = "analysis")
  <2>1. ASSUME run # Nothing PROVE sched.active.config \in Configs(sched)
    <3>1. sched.active.config \in Runs
      BY <1>1, <2>1 DEF InOrder, Schedulers, ActiveRuns
    <3>2. QED
      BY <1>1, <2>1, <3>1, WallAssumption DEF Configs
  <2>2. QED
    BY <2>1 DEF IsAnalysis
<1> HIDE DEF hits
<1>6. /\ InOrder(t) /\ SameRun(sched, t)
      /\ t.pending = IF sched.pending \in hits THEN Nothing ELSE sched.pending
      /\ t.lastFailed = IF sched.lastFailed \in hits THEN Nothing ELSE sched.lastFailed
      /\ t.pending # Nothing => t.ready = sched.ready
      /\ run # Nothing =>
           /\ sched.active.config \in hits => t.active.aborted
           /\ sched.active.config \notin hits =>
                /\ t.active.aborted = sched.active.aborted
                /\ sched.active.current => t.active.current
  BY <1>1, <1>2, CancelledIs
<1>7. /\ owner => run # Nothing /\ sched.active.config.kind = "analysis"
      /\ ~owner => run' = run /\ executing' = executing
      /\ executing' \in BOOLEAN
      /\ executing' => executing /\ ~owner
      /\ run # Nothing /\ sched.active.config.kind = "analysis" => run'.owned = FALSE
  <2>1. CASE owner
    BY <1>1, <1>3, <2>1 DEF Operations, IsAnalysis
  <2>2. CASE ~owner
    BY <1>1, <1>3, <2>2 DEF Operations, IsAnalysis
  <2>3. QED
    BY <2>1, <2>2
<1>8. Working'
  BY <1>3, <1>6, <1>7, KeptIs DEF Based
<1> HIDE DEF owner
<1>9. QED
  BY <1>3, <1>4, <1>5, <1>6, <1>7, <1>8

LEMMA RestoreStep ==
  ASSUME Based, NEW direction, NEW snapshot, Restore(direction, snapshot)
  PROVE  /\ Working'
         /\ SameRun(sched, sched') /\ sched'.pending = Nothing /\ sched'.lastFailed = Nothing
         /\ run # Nothing => sched'.active.aborted /\ ~run'.owned
         /\ executing'
<1>1. /\ InOrder(sched) /\ (run # Nothing <=> sched.active # Nothing)
      /\ run # Nothing => run \in Operations
  BY DEF Based, Working
<1>2. PICK t : t = Cancelled(sched, Configs(sched))
  OBVIOUS
<1>3. /\ sched.pending # Nothing => sched.pending \in Configs(sched)
      /\ sched.lastFailed # Nothing => sched.lastFailed \in Configs(sched)
  BY DEF Configs
<1>4. ASSUME run # Nothing PROVE sched.active.config \in Configs(sched)
  <2>1. sched.active.config \in Runs
    BY <1>1, <1>4 DEF InOrder, Schedulers, ActiveRuns
  <2>2. QED
    BY <1>1, <1>4, <2>1, WallAssumption DEF Configs
<1>5. /\ InOrder(t) /\ SameRun(sched, t) /\ t.pending = Nothing /\ t.lastFailed = Nothing
      /\ run # Nothing => t.active.aborted
  BY <1>1, <1>2, <1>3, <1>4, CancelledIs
<1>6. PICK e : e = Emitted(t, "idle", Nothing)
  OBVIOUS
<1>7. /\ e \in Schedulers /\ e.timer = t.timer /\ e.pending = Nothing /\ e.ready = t.ready
      /\ e.active = t.active /\ e.lastFailed = Nothing /\ e.failed = t.failed
      /\ e.kind = Nothing
  BY <1>5, <1>6, EmittedIs DEF InOrder, Statuses
<1>8. InOrder(e) /\ SameRun(sched, e) /\ (run # Nothing => e.active.aborted)
  BY <1>1, <1>5, <1>7, WallAssumption DEF InOrder, SameRun
<1>9. /\ sched' = e /\ executing' = TRUE
      /\ run' = (IF run = Nothing THEN run ELSE [run EXCEPT !.owned = FALSE])
  BY <1>2, <1>6 DEF Restore, Invalidated
<1>10. Working'
  BY <1>8, <1>9, KeptIs DEF Based
<1>11. run # Nothing => run'.owned = FALSE
  BY <1>1, <1>9 DEF Operations
<1>12. QED
  BY <1>7, <1>8, <1>9, <1>10, <1>11

LEMMA FromForkStep ==
  ASSUME Based, NEW b, NEW fields \in Setups, RunWallFromFork(b, fields)
  PROVE  /\ Working'
         /\ AtOnce(FilmstripRun([boards |-> selected, setup |-> fields], Nothing), Freed)
<1> DEFINE config == FilmstripRun([boards |-> selected, setup |-> fields], Nothing)
<1>1. config \in Runs
  BY ReadIs, RunIs DEF Based, Showing
<1>2. Freed \in BOOLEAN /\ Proceed(RunNow(sched, config), FALSE, Freed)
  BY DEF RunWallFromFork, Freed, Based, Working
<1>3. QED
  BY <1>1, <1>2, RunNowStep DEF Based

\* The steps that leave the scheduler and its run alone.
Aside == \/ Restored \/ \E direction \in {"undo", "redo"} : SupersededEnds(direction)
         \/ \E b \in Boards : ForkBoardLive(b) \/ ForkMounts(b) \/ DiscardFork(b)
         \/ UNCHANGED vars

LEMMA AsideStep ==
  ASSUME Based, Aside
  PROVE  Working' /\ sched' = sched /\ run' = run /\ (executing' => executing)
<1>1. sched' = sched /\ run' = run /\ (executing' = executing \/ executing' = FALSE)
  BY DEF Aside, Restored, SupersededEnds, ForkBoardLive, ForkMounts, DiscardFork, vars, working
<1>2. CASE executing' = executing
  BY <1>1, <1>2 DEF Based, Working
<1>3. CASE executing' = FALSE
  BY <1>1, <1>3 DEF Based, Working
<1>4. QED
  BY <1>1, <1>2, <1>3


\* Stacks of entries.
LEMMA NewestIs ==
  ASSUME NEW S, NEW stack \in Seq(S), stack # << >>
  PROVE  Newest(stack) \in S /\ Len(stack) \in Nat \ {0}
  BY DEF Newest

LEMMA NewestOf ==
  ASSUME history \in Histories
  PROVE  /\ history.undo # << >> => /\ Newest(history.undo).before \in WallSnapshots
                                    /\ Newest(history.undo).after \in WallSnapshots
         /\ history.redo # << >> => /\ Newest(history.redo).before \in WallSnapshots
                                    /\ Newest(history.redo).after \in WallSnapshots
<1>1. history.undo \in Seq(Entries) /\ history.redo \in Seq(Entries)
  BY DEF Histories
<1>2. /\ history.undo # << >> => Newest(history.undo) \in Entries
      /\ history.redo # << >> => Newest(history.redo) \in Entries
  BY <1>1, NewestIs
<1>3. QED
  BY <1>2 DEF Entries

\* An entry is pushed on top, and the oldest falls out at the limit.
LEMMA PushedIs ==
  ASSUME NEW S, NEW stack \in Seq(S), NEW entry \in S, Len(stack) <= HistoryLimit
  PROVE  /\ Pushed(stack, entry) \in Seq(S)
         /\ Pushed(stack, entry) # << >>
         /\ Newest(Pushed(stack, entry)) = entry
         /\ Len(Pushed(stack, entry)) <= HistoryLimit
         /\ \E k \in {0, 1} :
              /\ Len(Pushed(stack, entry)) = Len(stack) + 1 - k
              /\ \A i \in 1..Len(stack) - k : Pushed(stack, entry)[i] = stack[i + k]
<1>1. HistoryLimit \in Nat \ {0} /\ Len(stack) \in Nat
  BY WallAssumption
<1>2. PICK longer : longer = Append(stack, entry)
  OBVIOUS
<1>3. /\ longer \in Seq(S) /\ Len(longer) = Len(stack) + 1 /\ longer[Len(stack) + 1] = entry
      /\ \A i \in 1..Len(stack) : longer[i] = stack[i]
  BY <1>2
<1>4. CASE Len(longer) <= HistoryLimit
  <2>1. Pushed(stack, entry) = longer
    BY <1>1, <1>2, <1>3, <1>4 DEF Pushed
  <2>2. /\ Len(longer) = Len(stack) + 1 - 0
        /\ \A i \in 1..Len(stack) - 0 : longer[i] = stack[i + 0]
    BY <1>1, <1>3
  <2>3. longer # << >> /\ Newest(longer) = entry
    BY <1>1, <1>3 DEF Newest
  <2>4. QED
    BY <1>3, <1>4, <2>1, <2>2, <2>3
<1>5. CASE Len(longer) > HistoryLimit
  <2>1. PICK t : t = Tail(longer)
    OBVIOUS
  <2>2. Pushed(stack, entry) = t
    BY <1>2, <1>5, <2>1 DEF Pushed
  <2>3. /\ t \in Seq(S) /\ Len(t) = Len(stack)
        /\ \A i \in 1..Len(stack) : t[i] = longer[i + 1]
    BY <1>1, <1>3, <2>1
  <2>4. Len(stack) >= 1
    BY <1>1, <1>3, <1>5
  <2>5. t # << >> /\ Newest(t) = entry
    BY <1>1, <1>3, <2>3, <2>4 DEF Newest
  <2>6. \A i \in 1..Len(stack) - 1 : t[i] = stack[i + 1]
    BY <1>1, <1>3, <2>3
  <2>7. Len(t) = Len(stack) + 1 - 1
    BY <1>1, <2>3
  <2>8. QED
    BY <2>2, <2>3, <2>5, <2>6, <2>7
<1>6. QED
  BY <1>1, <1>3, <1>4, <1>5

\* The newest entry is taken off.
LEMMA PoppedIs ==
  ASSUME NEW S, NEW stack \in Seq(S), stack # << >>
  PROVE  /\ Popped(stack) \in Seq(S) /\ Len(Popped(stack)) = Len(stack) - 1
         /\ \A i \in 1..Len(stack) - 1 : Popped(stack)[i] = stack[i]
<1> DEFINE n == Len(stack)
<1>1. n \in Nat \ {0} /\ n - 1 + 1 = n
  OBVIOUS
<1>2. PICK p : p = SubSeq(stack, 1, n - 1)
  OBVIOUS
<1>3. p \in Seq(S) /\ Len(p) = n - 1 /\ \A i \in 1..n - 1 : p[i] = stack[i]
  BY <1>1, <1>2
<1>4. Popped(stack) = p
  BY <1>2 DEF Popped
<1>5. QED
  BY <1>3, <1>4

LEMMA MovesAreHistories ==
  ASSUME history \in Histories, Len(history.undo) <= HistoryLimit
  PROVE  /\ history.undo # << >> => (Undone \in Histories /\ Len(Undone.undo) <= HistoryLimit)
         /\ history.redo # << >> => (Redone \in Histories /\ Len(Redone.undo) <= HistoryLimit)
<1>1. /\ history.undo \in Seq(Entries) /\ history.redo \in Seq(Entries)
      /\ HistoryLimit \in Nat
  BY WallAssumption DEF Histories
<1>2. ASSUME history.undo # << >>
      PROVE  Undone \in Histories /\ Len(Undone.undo) <= HistoryLimit
  <2>1. /\ Popped(history.undo) \in Seq(Entries)
        /\ Len(Popped(history.undo)) = Len(history.undo) - 1
    BY <1>1, <1>2, PoppedIs
  <2>2. Newest(history.undo) \in Entries
    BY <1>1, <1>2, NewestIs
  <2>3. Append(history.redo, Newest(history.undo)) \in Seq(Entries)
    BY <1>1, <2>2
  <2>4. Len(Popped(history.undo)) <= HistoryLimit
    BY <1>1, <2>1
  <2>5. PICK u, r : u = Popped(history.undo) /\ r = Append(history.redo, Newest(history.undo))
    OBVIOUS
  <2>6. Undone = [undo |-> u, redo |-> r]
    BY <2>5 DEF Undone
  <2>7. QED
    BY <1>2, <2>1, <2>3, <2>4, <2>5, <2>6 DEF Histories
<1>3. ASSUME history.redo # << >>
      PROVE  Redone \in Histories /\ Len(Redone.undo) <= HistoryLimit
  <2>1. Popped(history.redo) \in Seq(Entries)
    BY <1>1, <1>3, PoppedIs
  <2>2. Newest(history.redo) \in Entries
    BY <1>1, <1>3, NewestIs
  <2>3. /\ Pushed(history.undo, Newest(history.redo)) \in Seq(Entries)
        /\ Len(Pushed(history.undo, Newest(history.redo))) <= HistoryLimit
    BY <1>1, <2>2, PushedIs
  <2>4. PICK u, r : u = Pushed(history.undo, Newest(history.redo)) /\ r = Popped(history.redo)
    OBVIOUS
  <2>5. Redone = [undo |-> u, redo |-> r]
    BY <2>4 DEF Redone
  <2>6. QED
    BY <1>3, <2>1, <2>3, <2>4, <2>5 DEF Histories
<1>4. QED
  BY <1>2, <1>3

LEMMA RecordIs ==
  ASSUME history \in Histories, Len(history.undo) <= HistoryLimit,
         NEW before \in WallSnapshots, NEW after \in WallSnapshots, Record(before, after)
  PROVE  history' \in Histories /\ Len(history'.undo) <= HistoryLimit
<1>1. [before |-> before, after |-> after] \in Entries
  BY DEF Entries
<1>2. history.undo \in Seq(Entries)
  BY DEF Histories
<1>3. PICK u : u = Pushed(history.undo, [before |-> before, after |-> after])
  OBVIOUS
<1>4. u \in Seq(Entries) /\ Len(u) <= HistoryLimit
  BY <1>1, <1>2, <1>3, PushedIs
<1>5. history' = [undo |-> u, redo |-> << >>]
  BY <1>3 DEF Record
<1>6. QED
  BY <1>4, <1>5 DEF Histories

LEMMA EmptyIs ==
  Empty \in Histories /\ Len(Empty.undo) <= HistoryLimit /\ Empty.undo = << >> /\ Empty.redo = << >>
<1>1. HistoryLimit \in Nat
  BY WallAssumption
<1>2. Empty.undo = << >> /\ Empty.redo = << >>
  BY DEF Empty
<1>3. Empty \in Histories
  BY DEF Empty, Histories
<1>4. QED
  BY <1>1, <1>2, <1>3


(***************************************************************************)
(* The shape is kept.                                                      *)
(***************************************************************************)

\* Every step, with the tilings and fields it may choose.
LEMMA Steps ==
  ASSUME Based, [Next]_vars
  PROVE  \/ TimerExpires \/ FilmstripArrives \/ FilmstripLoaded \/ RunEnds \/ RunFails
         \/ \E tilings \in Fitting, fields \in Setups \cup BadSetups :
                ChangeWall(tilings, fields)
         \/ \E tilings \in Fitting : Rearrange(tilings)
         \/ \E b \in Boards : RemoveBoard(b)
         \/ \E tilings \in Fitting, fields \in Setups : ApplyRunConfig(tilings, fields)
         \/ \E b \in Boards, fields \in Setups : RunWallFromFork(b, fields)
         \/ RunWall \/ RunAnalysis \/ Retry \/ OpenAnalysisOverlay \/ CloseAnalysisOverlay
         \/ UndoWallHistory \/ RedoWallHistory \/ Aside
<1>1. selected \in Fitting
  BY DEF Based, Showing
<1>2. ASSUME NEW fields \in Setups \cup BadSetups, ChangeSetup(fields)
      PROVE  \E tilings \in Fitting : ChangeWall(tilings, fields)
  BY <1>1, <1>2 DEF ChangeSetup
<1>3. ASSUME NEW b \in Boards, ToggleTiling(b)
      PROVE  \E tilings \in Fitting, fields \in Setups \cup BadSetups : ChangeWall(tilings, fields)
  <2>1. setup \in Setups \cup BadSetups /\ selected \ {b} \in Fitting
    BY <1>1, FittingIs DEF Based, Showing
  <2>2. Cardinality(selected) < Capacity => selected \cup {b} \in Fitting
    BY <1>1, FittingIs
  <2>3. QED
    BY <1>3, <2>1, <2>2 DEF ToggleTiling
<1>4. ASSUME NEW b \in Boards, AddBoard(b) PROVE \E tilings \in Fitting : Rearrange(tilings)
  <2>1. selected \cup {b} \in Fitting
    BY <1>1, <1>4, FittingIs DEF AddBoard
  <2>2. QED
    BY <1>4, <2>1 DEF AddBoard
<1>5. ASSUME NEW old \in Boards, NEW new \in Boards, ReplaceBoard(old, new)
      PROVE  \E tilings \in Fitting : Rearrange(tilings)
  <2>1. (selected \ {old}) \cup {new} \in Fitting
    BY <1>1, <1>5, FittingIs DEF ReplaceBoard
  <2>2. QED
    BY <1>5, <2>1 DEF ReplaceBoard
<1>6. ASSUME NEW tilings \in SUBSET Boards, NEW fields \in Setups,
             Cardinality(tilings) \in MinWallTilings..Capacity, ApplyRunConfig(tilings, fields)
      PROVE  tilings \in Fitting
  BY <1>6 DEF Fitting
<1>7. CASE UNCHANGED vars
  BY <1>7 DEF Aside
<1>8. CASE Next
  BY <1>2, <1>3, <1>4, <1>5, <1>6, <1>8, Zenon DEF Next, Aside
<1>9. QED
  BY <1>7, <1>8

\* Where the configurations of the next scheduler come from.
LEMMA WaitingIs ==
  ASSUME Working, Working', Waiting, NEW fresh, epoch \in Nat, epoch' \in Nat, epoch <= epoch',
         overlay => overlay' /\ (Valid => Valid'),
         fresh = Nothing \/ (fresh \in Runs /\ Dated(fresh, epoch')),
         fresh # Nothing /\ fresh.kind = "analysis" => overlay' /\ Valid',
         sched'.pending = Nothing \/ sched'.pending = sched.pending \/ sched'.pending = fresh,
         sched'.pending # Nothing /\ sched'.pending.intent # Nothing => sched'.ready,
         \/ sched'.lastFailed = Nothing \/ sched'.lastFailed = sched.lastFailed
         \/ run # Nothing /\ ~sched.active.aborted /\ sched'.lastFailed = sched.active.config,
         \/ sched'.active = Nothing
         \/ sched.pending # Nothing /\ sched'.active.config = sched.pending
         \/ fresh # Nothing /\ sched'.active.config = fresh
         \/ /\ run # Nothing /\ sched'.active.config = sched.active.config
            /\ sched.active.aborted => sched'.active.aborted
  PROVE  Waiting'
<1> DEFINE Late(config) == config # Nothing => Dated(config, epoch')
<1>1. ASSUME NEW config \in Runs, Dated(config, epoch) PROVE Late(config)
  BY <1>1 DEF Dated, Runs, Intents
<1>2. /\ sched.pending \in Runs \cup {Nothing} /\ sched.lastFailed \in Runs \cup {Nothing}
      /\ run # Nothing => sched.active # Nothing /\ sched.active.config \in Runs
  BY DEF Working, InOrder, Schedulers, ActiveRuns
<1>3. Late(sched.pending) /\ Late(sched.lastFailed) /\ (run # Nothing => Late(sched.active.config))
  <2>1. ASSUME NEW config \in {sched.pending, sched.lastFailed}, config # Nothing
        PROVE  config \in Configs(sched)
    BY <2>1 DEF Configs
  <2>2. ASSUME run # Nothing PROVE sched.active.config \in Configs(sched)
    BY <1>2, <2>2, WallAssumption DEF Configs
  <2>3. QED
    BY <1>1, <1>2, <2>1, <2>2 DEF Waiting
<1>4. /\ Late(sched'.pending) /\ Late(sched'.lastFailed)
      /\ sched'.active # Nothing => Late(sched'.active.config)
  BY <1>2, <1>3 DEF Working
<1>5. \A config \in Configs(sched)' : Dated(config, epoch')
  BY <1>4 DEF Configs
<1>6. /\ sched'.pending # Nothing /\ sched'.pending.kind = "analysis" => overlay' /\ Valid'
      /\ sched'.lastFailed # Nothing /\ sched'.lastFailed.kind = "analysis" => overlay'
      /\ sched'.active # Nothing /\ sched'.active.config.kind = "analysis"
             /\ ~sched'.active.aborted => overlay'
  BY <1>2 DEF Waiting
<1>7. QED
  BY <1>5, <1>6 DEF Waiting

LEMMA WaitingEnded ==
  ASSUME Based, Working', NEW s, Ended(s), run # Nothing, UNCHANGED <<overlay, setup, epoch>>,
         s.pending = sched.pending \/ s.pending = Nothing
             \/ (s.pending = AnalysisRun(CurrentConfig) /\ overlay /\ Valid),
         s.pending = sched.pending => s.ready = sched.ready
  PROVE  Waiting'
<1>1. /\ AnalysisRun(CurrentConfig) \in Runs /\ AnalysisRun(CurrentConfig) # Nothing
      /\ AnalysisRun(CurrentConfig).intent = Nothing /\ Nothing \notin Runs
  BY ReadIs, RunIs, WallAssumption DEF Based
<1>2. PICK fresh : fresh = IF s.pending = sched.pending THEN Nothing ELSE s.pending
  OBVIOUS
<1>3. fresh = Nothing \/ (fresh = AnalysisRun(CurrentConfig) /\ overlay /\ Valid)
  BY <1>2
<1>4. fresh = Nothing \/ (fresh \in Runs /\ Dated(fresh, epoch') /\ fresh.intent = Nothing)
  BY <1>1, <1>3 DEF Dated
<1>5. /\ epoch \in Nat /\ epoch' \in Nat /\ epoch <= epoch' /\ Waiting /\ Working
      /\ overlay => overlay' /\ (Valid => Valid')
      /\ overlay' = overlay /\ (Valid' <=> Valid)
  BY DEF Based, Recorded, Valid
<1>6. sched'.pending = Nothing \/ sched'.pending = s.pending
  BY DEF Ended, Begun
<1>7. sched'.pending # Nothing /\ sched'.pending.intent # Nothing => sched'.ready
  <2>1. sched'.pending # Nothing => ~s.ready
    BY DEF Ended, Begun
  <2>2. s.pending # Nothing /\ s.pending.intent # Nothing => s.ready
    BY <1>1, <1>5 DEF Waiting
  <2>3. QED
    BY <1>6, <2>1, <2>2
<1>8. sched'.active = Nothing \/ (s.pending # Nothing /\ sched'.active.config = s.pending)
  BY DEF Ended, Begun
<1>9. \/ sched'.lastFailed = Nothing \/ sched'.lastFailed = sched.lastFailed
      \/ run # Nothing /\ ~sched.active.aborted /\ sched'.lastFailed = sched.active.config
  BY DEF Ended
<1>10. QED
  BY <1>2, <1>3, <1>4, <1>5, <1>6, <1>7, <1>8, <1>9, WaitingIs

LEMMA WaitingAtOnce ==
  ASSUME Based, Working', NEW config \in Runs, NEW busy, AtOnce(config, busy),
         overlay' = overlay, overlay => (Valid => Valid'), epoch' \in Nat, epoch <= epoch',
         Dated(config, epoch'), config.kind = "analysis" => overlay /\ Valid'
  PROVE  Waiting'
<1>1. config # Nothing /\ epoch \in Nat /\ Waiting /\ Working
  BY WallAssumption DEF Based, Recorded
<1>2. /\ sched'.pending = Nothing \/ (sched'.pending = config /\ sched'.ready)
      /\ \/ sched'.active.config = config
         \/ /\ run # Nothing /\ sched'.active.config = sched.active.config
            /\ sched'.active.aborted
      /\ sched'.lastFailed = sched.lastFailed
  BY DEF AtOnce, Begun, GoesOn, SameRun, Based, Working
<1>3. QED
  BY <1>1, <1>2, WaitingIs

LEMMA WaitingLater ==
  ASSUME Based, Working', NEW config \in Runs, NEW valid \in BOOLEAN, Later(config, valid),
         overlay => overlay' /\ (Valid => Valid'), epoch' \in Nat, epoch <= epoch',
         config.intent = Nothing, config.kind = "analysis" /\ valid => overlay' /\ Valid'
  PROVE  Waiting'
<1>1. /\ config # Nothing /\ epoch \in Nat /\ Waiting /\ Working
      /\ Dated(config, epoch')
  BY WallAssumption DEF Based, Recorded, Dated
<1>2. PICK fresh : fresh = IF valid THEN config ELSE Nothing
  OBVIOUS
<1>3. /\ sched'.pending = fresh
      /\ \/ sched'.active = Nothing
         \/ /\ run # Nothing /\ sched'.active.config = sched.active.config
            /\ sched.active.aborted => sched'.active.aborted
      /\ sched'.lastFailed = sched.lastFailed
  BY <1>2 DEF Later, SameRun, Based, Working
<1>4. /\ fresh = Nothing \/ (fresh \in Runs /\ Dated(fresh, epoch') /\ fresh.intent = Nothing)
      /\ fresh # Nothing /\ fresh.kind = "analysis" => overlay' /\ Valid'
  BY <1>1, <1>2
<1>5. QED
  BY <1>1, <1>3, <1>4, WaitingIs

LEMMA WaitingStopped ==
  ASSUME Based, Working', Stopped, UNCHANGED <<overlay, setup, epoch>>
  PROVE  Waiting'
<1>1. epoch \in Nat /\ Waiting /\ Working /\ (Valid' <=> Valid)
  BY DEF Based, Recorded, Valid
<1>2. /\ sched'.pending = Nothing /\ sched'.lastFailed = sched.lastFailed
      /\ \/ sched'.active = Nothing
         \/ /\ run # Nothing /\ sched'.active.config = sched.active.config
            /\ sched'.active.aborted
  BY DEF Stopped, SameRun, Based, Working
<1>3. QED
  BY <1>1, <1>2, WaitingIs

LEMMA WaitingSame ==
  ASSUME Waiting, UNCHANGED <<sched, overlay, setup, epoch>>
  PROVE  Waiting'
  BY DEF Waiting, Valid, Configs

LEMMA WaitingTimer ==
  ASSUME Based, TimerExpires
  PROVE  Waiting'
<1>1. /\ epoch \in Nat /\ Waiting /\ Working /\ Working' /\ InOrder(sched)
      /\ sched.pending # Nothing /\ sched.timer /\ sched'.lastFailed = sched.lastFailed
      /\ UNCHANGED <<overlay, setup, epoch>>
  BY TimerStep DEF Based, Recorded, Working, TimerExpires, wall, wallHistory
<1>2. sched.pending.intent = Nothing
  BY <1>1 DEF Waiting, InOrder
<1>3. CASE run # Nothing
  <2>1. /\ sched'.pending = sched.pending
        /\ sched'.active.config = sched.active.config /\ sched'.active.aborted
    BY <1>1, <1>3, TimerStep DEF GoesOn, SameRun, Working, Based
  <2>2. QED
    BY <1>1, <1>2, <1>3, <2>1, WaitingIs DEF Valid
<1>4. CASE run = Nothing
  <2>1. sched'.pending = Nothing /\ sched'.active.config = sched.pending
    BY <1>1, <1>4, TimerStep DEF Begun, Based
  <2>2. QED
    BY <1>1, <2>1, WaitingIs DEF Valid
<1>5. QED
  BY <1>3, <1>4

LEMMA WaitingStep ==
  ASSUME Based, epoch' \in Nat, [Next]_vars
  PROVE  Waiting'
<1>0. epoch \in Nat /\ Waiting
  BY DEF Based, Recorded
<1>1. CASE FilmstripArrives \/ Aside
  <2>1. UNCHANGED <<sched, overlay, setup, epoch>>
    BY <1>1 DEF FilmstripArrives, Aside, Restored, SupersededEnds, ForkBoardLive, ForkMounts,
       DiscardFork, vars, working, wall, wallHistory
  <2>2. QED
    BY <1>0, <2>1, WaitingSame
<1>2. CASE FilmstripLoaded
  <2>1. /\ UNCHANGED <<overlay, setup, epoch>> /\ run # Nothing /\ run.phase = "loading" /\ Goes
    BY <1>2 DEF FilmstripLoaded, wall
  <2>2. /\ overlay /\ selected # {} =>
                AfterLoad.pending = IF Valid THEN AnalysisRun(CurrentConfig) ELSE Nothing
        /\ ~(overlay /\ selected # {}) => AfterLoad = sched
    BY <2>1, AfterLoadIs DEF Based
  <2>3. \/ AfterLoad = sched \/ AfterLoad.pending = Nothing
        \/ AfterLoad.pending = AnalysisRun(CurrentConfig) /\ overlay /\ Valid
    BY <2>2
  <2>4. ~sched.ready
    BY <2>1 DEF Goes, Based, Working, InOrder
  <2>5. ~AfterLoad.ready
    BY <2>1, <2>2, <2>4, AfterLoadIs DEF Based, InOrder, SameRun
  <2>6. AfterLoad.pending = sched.pending => AfterLoad.ready = sched.ready
    BY <2>1, <2>4, <2>5, AfterLoadIs DEF Based, Working, InOrder, Schedulers
  <2>7. QED
    BY <1>2, <2>1, <2>3, <2>6, LoadedStep, WaitingEnded
<1>3. CASE RunEnds \/ RunFails
  <2>1. UNCHANGED <<overlay, setup, epoch>> /\ run # Nothing
    BY <1>3 DEF RunEnds, RunFails, wall, wallHistory
  <2>2. QED
    BY <1>3, <2>1, EndsStep, WaitingEnded
<1>4. ASSUME NEW tilings \in Fitting, NEW fields \in Setups \cup BadSetups,
             ChangeWall(tilings, fields)
      PROVE  Waiting'
  <2> DEFINE config == FilmstripRun(Asking(tilings, fields), Nothing)
             valid == fields \in Setups
  <2>1. /\ config \in Runs /\ config.intent = Nothing /\ config.kind = "filmstrip"
        /\ valid \in BOOLEAN
    BY AskingIs, RunIs
  <2>2. ~overlay /\ epoch <= epoch'
    BY <1>0, <1>4 DEF ChangeWall, ClearWallHistory
  <2>3. Working' /\ Later(config, valid)
    BY <1>4, ChangeStep
  <2> HIDE DEF config, valid
  <2>4. QED
    BY <2>1, <2>2, <2>3, WaitingLater
<1>5. ASSUME NEW tilings \in Fitting, Rearrange(tilings) PROVE Waiting'
  <2>1. /\ UNCHANGED <<overlay, setup, epoch>> /\ ~overlay
        /\ Rearranged(tilings) \in Runs /\ Dated(Rearranged(tilings), epoch')
        /\ Rearranged(tilings).kind = "filmstrip"
    BY <1>0, <1>5, RearrangeStep, RearrangedIs DEF Rearrange, wallHistory, Manageable, Dated
  <2>2. CASE Valid
    BY <1>0, <1>5, <2>1, <2>2, RearrangeStep, WaitingAtOnce
  <2>3. CASE ~Valid
    BY <1>5, <2>1, <2>3, RearrangeStep, WaitingStopped
  <2>4. QED
    BY <2>2, <2>3
<1>6. ASSUME NEW b \in Boards, RemoveBoard(b) PROVE Waiting'
  <2>1. UNCHANGED <<overlay, setup, epoch>> /\ (Valid' <=> Valid) /\ Valid \in BOOLEAN
    BY <1>6 DEF RemoveBoard, Valid
  <2>2. CASE QueuedKind = "filmstrip"
    <3>1. FilmstripRun(Survivors(b), Nothing) \in Runs
          /\ FilmstripRun(Survivors(b), Nothing).intent = Nothing
          /\ FilmstripRun(Survivors(b), Nothing).kind = "filmstrip"
      BY SurvivorsIs, RunIs DEF Based
    <3>2. QED
      BY <1>0, <1>6, <2>1, <2>2, <3>1, RemoveStep, WaitingLater
  <2>3. CASE QueuedKind # "filmstrip"
    BY <1>0, <1>6, <2>1, <2>3, RemoveStep, WaitingSame
  <2>4. QED
    BY <2>2, <2>3
<1>7. ASSUME NEW tilings \in Fitting, NEW fields \in Setups, ApplyRunConfig(tilings, fields)
      PROVE  Waiting'
  <2>1. /\ overlay' = overlay /\ Valid' /\ epoch <= epoch'
    BY <1>0, <1>7 DEF ApplyRunConfig, ClearWallHistory, Valid
  <2> DEFINE config == FilmstripRun([boards |-> tilings, setup |-> fields], Nothing)
  <2>2. config \in Runs /\ config.intent = Nothing /\ config.kind = "filmstrip"
    BY RunIs DEF Walls, Fitting
  <2>3. Working' /\ Later(config, TRUE)
    BY <1>7, ApplyStep
  <2> HIDE DEF config
  <2>4. QED
    BY <1>0, <2>1, <2>2, <2>3, WaitingLater
<1>8. ASSUME NEW b \in Boards, NEW fields \in Setups, RunWallFromFork(b, fields) PROVE Waiting'
  <2>1. /\ overlay' = overlay /\ ~overlay /\ epoch <= epoch'
    BY <1>0, <1>8 DEF RunWallFromFork, ClearWallHistory
  <2>2. /\ FilmstripRun([boards |-> selected, setup |-> fields], Nothing) \in Runs
        /\ FilmstripRun([boards |-> selected, setup |-> fields], Nothing).intent = Nothing
        /\ FilmstripRun([boards |-> selected, setup |-> fields], Nothing).kind = "filmstrip"
    BY ReadIs, RunIs DEF Based, Showing
  <2>3. Dated(FilmstripRun([boards |-> selected, setup |-> fields], Nothing), epoch')
    BY <2>2 DEF Dated
  <2>4. QED
    BY <1>8, <2>1, <2>2, <2>3, FromForkStep, WaitingAtOnce
<1>9. CASE RunWall
  <2>1. /\ UNCHANGED <<overlay, setup, epoch>>
    BY <1>9 DEF RunWall, wall, wallHistory
  <2>2. /\ FilmstripRun(CurrentConfig, Nothing) \in Runs
        /\ FilmstripRun(CurrentConfig, Nothing).intent = Nothing
        /\ FilmstripRun(CurrentConfig, Nothing).kind = "filmstrip"
    BY ReadIs, RunIs DEF Based
  <2>3. Dated(FilmstripRun(CurrentConfig, Nothing), epoch') /\ (Valid' <=> Valid)
    BY <2>1, <2>2 DEF Dated, Valid
  <2>4. QED
    BY <1>0, <1>9, <2>1, <2>2, <2>3, RunWallStep, WaitingAtOnce
<1>10. CASE RunAnalysis
  <2>1. /\ UNCHANGED <<overlay, setup, epoch>> /\ overlay /\ Valid
    BY <1>10 DEF RunAnalysis, wall, wallHistory
  <2>2. /\ AnalysisRun(CurrentConfig) \in Runs
        /\ AnalysisRun(CurrentConfig).intent = Nothing
    BY ReadIs, RunIs DEF Based
  <2>3. Dated(AnalysisRun(CurrentConfig), epoch') /\ (Valid' <=> Valid)
    BY <2>1, <2>2 DEF Dated, Valid
  <2>4. QED
    BY <1>0, <1>10, <2>1, <2>2, <2>3, RunAnalysisStep, WaitingAtOnce
<1>11. CASE Retry
  <2>1. /\ UNCHANGED <<overlay, setup, epoch>> /\ ~overlay /\ (Valid' <=> Valid)
    BY <1>11 DEF Retry, wall, wallHistory, Valid
  <2>2. /\ Retried(sched) \in Runs /\ Dated(Retried(sched), epoch')
    BY <1>0, <1>11, <2>1, RetryStep DEF Waiting
  <2>3. Retried(sched).kind # "analysis"
    BY <1>0, <1>11, <2>1 DEF Retry, Retried, Waiting
  <2>4. CASE Valid
    BY <1>0, <1>11, <2>1, <2>2, <2>3, <2>4, RetryStep, WaitingAtOnce
  <2>5. CASE ~Valid
    BY <1>11, <2>1, <2>5, RetryStep, WaitingStopped
  <2>6. QED
    BY <2>4, <2>5
<1>12. CASE OpenAnalysisOverlay
  <2>1. /\ overlay' /\ ~overlay /\ UNCHANGED <<setup, epoch>> /\ (Valid' <=> Valid)
        /\ Valid \in BOOLEAN
    BY <1>12 DEF OpenAnalysisOverlay, wall, wallHistory, Valid
  <2>2. Opened \in Runs /\ Opened.intent = Nothing
    BY ReadIs, RunIs DEF Opened, Based
  <2>3. QED
    BY <1>0, <1>12, <2>1, <2>2, OpenStep, WaitingLater
<1>13. CASE CloseAnalysisOverlay
  <2>1. /\ sched'.pending # Nothing => sched'.pending = sched.pending
                                       /\ sched'.ready = sched.ready
                                       /\ sched'.pending.kind # "analysis"
        /\ sched'.lastFailed # Nothing => sched'.lastFailed = sched.lastFailed
                                          /\ sched'.lastFailed.kind # "analysis"
        /\ sched'.active # Nothing => sched.active # Nothing
                                      /\ sched'.active.config = sched.active.config
        /\ sched'.active # Nothing /\ sched'.active.config.kind = "analysis" =>
               sched'.active.aborted
        /\ epoch' = epoch
    BY <1>13, CloseStep DEF SameRun, Based, Working, CloseAnalysisOverlay, wallHistory
  <2>2. Configs(sched)' \subseteq Configs(sched)
    BY <2>1 DEF Configs
  <2>3. \A config \in Configs(sched)' : Dated(config, epoch')
    BY <1>0, <2>1, <2>2 DEF Waiting
  <2>4. QED
    BY <1>0, <2>1, <2>3 DEF Waiting
<1>14. ASSUME NEW direction, NEW snapshot \in WallSnapshots, Restore(direction, snapshot)
       PROVE  Waiting'
  <2>1. /\ epoch' = epoch /\ overlay' = overlay /\ Valid'
    BY <1>14 DEF Restore, Valid, WallSnapshots, Walls
  <2>2. /\ sched'.pending = Nothing /\ sched'.lastFailed = Nothing
        /\ \/ sched'.active = Nothing
           \/ /\ run # Nothing /\ sched'.active.config = sched.active.config
              /\ sched'.active.aborted
    BY <1>14, RestoreStep DEF SameRun, Based, Working
  <2>3. Working' /\ Working
    BY <1>14, RestoreStep DEF Based
  <2>4. QED
    BY <1>0, <2>1, <2>2, <2>3, WaitingIs
<1>15. CASE UndoWallHistory
  <2>1. Newest(history.undo).before \in WallSnapshots
    BY <1>15, NewestOf DEF UndoWallHistory, Based, Recorded
  <2>2. QED
    BY <1>14, <1>15, <2>1 DEF UndoWallHistory
<1>16. CASE RedoWallHistory
  <2>1. Newest(history.redo).after \in WallSnapshots
    BY <1>16, NewestOf DEF RedoWallHistory, Based, Recorded
  <2>2. QED
    BY <1>14, <1>16, <2>1 DEF RedoWallHistory
<1>17. CASE TimerExpires
  BY <1>17, WaitingTimer
<1>18. QED
  BY <1>1, <1>2, <1>3, <1>4, <1>5, <1>6, <1>7, <1>8, <1>9, <1>10, <1>11, <1>12, <1>13,
     <1>15, <1>16, <1>17, Steps


\* Runs only take forks down, and load only once they were answered.
Lowered ==
    /\ \/ forks' = forks /\ overlaid' = overlaid
       \/ forks' = {} /\ overlaid' = overlaid \ forks
    /\ run' # Nothing /\ run'.phase = "loading" => run' = run

LEMMA LoweredBegun ==
  ASSUME NEW config \in Runs, NEW busy, Begun(config, busy)
  PROVE  Lowered
  BY DEF Begun, Runs, Lowered

LEMMA LoweredEnded ==
  ASSUME NEW s, InOrder(s), Ended(s)
  PROVE  Lowered
  BY LoweredBegun DEF Ended, InOrder, Schedulers, Lowered

LEMMA LoweredAtOnce ==
  ASSUME NEW config \in Runs, NEW busy, AtOnce(config, busy)
  PROVE  Lowered
  BY LoweredBegun DEF AtOnce, GoesOn, Lowered

LEMMA LoweredGoesOn ==
  ASSUME NEW busy, GoesOn(busy)
  PROVE  Lowered
  BY DEF GoesOn, Lowered

LEMMA LoweredTimer ==
  ASSUME Based, TimerExpires
  PROVE  Lowered
<1>1. sched.pending \in Runs
  BY TimerStep DEF Based, Working, InOrder, Schedulers
<1>2. QED
  BY <1>1, TimerStep, LoweredGoesOn, LoweredBegun DEF Based

LEMMA LoweredRuns ==
  ASSUME Based,
         \/ TimerExpires \/ FilmstripLoaded \/ RunEnds \/ RunFails
         \/ \E tilings \in Fitting : Rearrange(tilings)
         \/ \E b \in Boards, fields \in Setups : RunWallFromFork(b, fields)
         \/ RunWall \/ RunAnalysis \/ Retry
  PROVE  Lowered
<1>1. InOrder(sched)
  BY DEF Based, Working
<1>2. CASE FilmstripLoaded
  <2>1. InOrder(AfterLoad)
    BY <1>2, AfterLoadIs DEF Based, FilmstripLoaded
  <2>2. QED
    BY <1>2, <2>1, LoadedStep, LoweredEnded
<1>3. CASE RunEnds \/ RunFails
  BY <1>1, <1>3, EndsStep, LoweredEnded
<1>4. ASSUME NEW tilings \in Fitting, Rearrange(tilings) PROVE Lowered
  BY <1>4, RearrangeStep, RearrangedIs, LoweredAtOnce, LoweredGoesOn
<1>5. ASSUME NEW b \in Boards, NEW fields \in Setups, RunWallFromFork(b, fields) PROVE Lowered
  <2>1. FilmstripRun([boards |-> selected, setup |-> fields], Nothing) \in Runs
    BY ReadIs, RunIs DEF Based, Showing
  <2>2. QED
    BY <1>5, <2>1, FromForkStep, LoweredAtOnce
<1>6. /\ FilmstripRun(CurrentConfig, Nothing) \in Runs
      /\ AnalysisRun(CurrentConfig) \in Runs
  BY ReadIs, RunIs DEF Based
<1>7. CASE RunWall
  BY <1>6, <1>7, RunWallStep, LoweredAtOnce
<1>8. CASE RunAnalysis
  BY <1>6, <1>8, RunAnalysisStep, LoweredAtOnce
<1>9. CASE Retry
  BY <1>9, RetryStep, LoweredAtOnce, LoweredGoesOn
<1>10. QED
  BY <1>2, <1>3, <1>4, <1>5, <1>7, <1>8, <1>9, LoweredTimer

LEMMA ShowingStep ==
  ASSUME Based, [Next]_vars
  PROVE  Showing'
<1> USE DEF Based
<1>1. CASE \/ TimerExpires \/ FilmstripLoaded \/ RunEnds \/ RunFails
           \/ RunWall \/ RunAnalysis \/ Retry
  <2>1. Lowered
    BY <1>1, LoweredRuns
  <2>2. UNCHANGED <<overlay, wall, importing>>
    BY <1>1 DEF TimerExpires, FilmstripLoaded, RunEnds, RunFails, RunWall, RunAnalysis, Retry, wall
  <2>3. notice' \in BOOLEAN
    BY <1>1 DEF TimerExpires, FilmstripLoaded, RunEnds, RunFails, RunWall, RunAnalysis, Retry,
       Showing
  <2>4. wanted' \in Walls \cup {Nothing}
    <3>1. Displaced \in {wanted, Nothing}
      BY DEF Displaced
    <3>2. CurrentConfig \in Walls
      BY ReadIs
    <3>3. CASE Retry
      <4>1. Plain(Retried(sched)) \in Walls
        BY <3>3, RetryStep DEF Plain, Runs, Walls
      <4>2. QED
        BY <3>1, <3>3, <4>1 DEF Retry, Showing
    <3>4. QED
      BY <1>1, <3>1, <3>2, <3>3 DEF TimerExpires, FilmstripLoaded, RunEnds, RunFails, RunWall,
         RunAnalysis, Showing, ghosts
  <2>5. QED
    BY <2>1, <2>2, <2>3, <2>4 DEF Showing, Lowered, wall
<1>2. CASE FilmstripArrives
  <2>1. /\ film' = [boards |-> sched.active.config.boards, setup |-> sched.active.config.setup]
        /\ key' = film' /\ sched.active.config \in Runs
        /\ overlaid' = {} /\ UNCHANGED <<notice, selected, setup, overlay, importing, forks, wanted>>
    BY <1>2, ArrivesStep DEF FilmstripArrives
  <2>2. film' \in Walls /\ film' # Nothing
    BY <2>1, WallAssumption DEF Runs, Walls
  <2>3. QED
    BY <2>1, <2>2 DEF Showing
<1>3. ASSUME NEW tilings \in Fitting, NEW fields \in Setups \cup BadSetups,
             ChangeWall(tilings, fields)
      PROVE  Showing'
  <2>1. /\ run' = run /\ selected' = tilings /\ setup' = fields
        /\ UNCHANGED <<notice, film, key, overlay, live>>
        /\ wanted' \in {Asking(tilings, fields), Nothing}
    BY <1>3, ChangeStep DEF ChangeWall, Asking
  <2>2. QED
    BY <2>1, AskingIs DEF Showing, live
<1>4. ASSUME NEW tilings \in Fitting, Rearrange(tilings) PROVE Showing'
  <2>1. Lowered
    BY <1>4, LoweredRuns
  <2>2. /\ selected' = tilings /\ UNCHANGED <<notice, setup, film, key, overlay, importing>>
        /\ wanted' \in {[CurrentConfig EXCEPT !.boards = tilings], Nothing}
    BY <1>4 DEF Rearrange
  <2>3. QED
    BY <2>1, <2>2, ReadIs DEF Showing, Lowered
<1>5. ASSUME NEW b \in Boards, RemoveBoard(b) PROVE Showing'
  <2>1. /\ selected' = selected \ {b} /\ forks' = forks \ {b} /\ overlaid' = overlaid \ {b}
        /\ film' = [film EXCEPT !.boards = @ \ {b}] /\ key' = Survivors(b)
        /\ wanted' \in {Nothing, Survivors(b)} /\ film # Nothing
        /\ UNCHANGED <<run, notice, setup, overlay, importing>>
    BY <1>5 DEF RemoveBoard, Survivors, Manageable
  <2>2. Survivors(b) \in Walls /\ selected \ {b} \in Fitting
    BY SurvivorsIs, FittingIs DEF Showing
  <2>3. film.boards \in Fitting
    BY <2>1 DEF Showing, Walls, Fitting
  <2>4. film.boards \ {b} \in Fitting
    BY <2>3, FittingIs
  <2>5. film' \in Walls
    BY <2>1, <2>4 DEF Showing, Walls, Fitting
  <2>6. QED
    BY <2>1, <2>2, <2>5, WallAssumption DEF Showing
<1>6. ASSUME NEW tilings \in Fitting, NEW fields \in Setups, ApplyRunConfig(tilings, fields)
      PROVE  Showing'
  <2>1. /\ selected' = tilings /\ setup' = fields /\ film' = Nothing /\ key' = Nothing
        /\ notice' = FALSE /\ forks' = {} /\ overlaid' = {} /\ UNCHANGED <<overlay, importing>>
        /\ wanted' = [boards |-> tilings, setup |-> fields]
    BY <1>6 DEF ApplyRunConfig
  <2>2. [boards |-> tilings, setup |-> fields] \in Walls
    BY ReadIs
  <2>3. run' = Nothing \/ ~run'.owned
    BY <1>6, ApplyStep DEF ApplyRunConfig, Invalidated
  <2>4. QED
    BY <2>1, <2>2, <2>3 DEF Showing
<1>7. ASSUME NEW b \in Boards, NEW fields \in Setups, RunWallFromFork(b, fields) PROVE Showing'
  <2>1. Lowered
    BY <1>7, LoweredRuns
  <2>2. /\ setup' = fields /\ UNCHANGED <<notice, selected, film, key, overlay, importing>>
        /\ wanted' = [boards |-> selected, setup |-> fields]
    BY <1>7 DEF RunWallFromFork
  <2>3. QED
    BY <2>1, <2>2, ReadIs DEF Showing, Lowered
<1>8. CASE OpenAnalysisOverlay
  <2>1. Displaced \in {wanted, Nothing}
    BY DEF Displaced
  <2>2. overlay' = TRUE /\ UNCHANGED <<run, notice, wall, live>>
        /\ wanted' \in {Nothing, wanted, CurrentConfig}
    BY <1>8, <2>1 DEF OpenAnalysisOverlay
  <2>3. QED
    BY <2>2, ReadIs DEF Showing, wall, live
<1>9. CASE CloseAnalysisOverlay
  <2>1. overlay' = FALSE /\ UNCHANGED <<notice, wall, live, wanted>>
    BY <1>9 DEF CloseAnalysisOverlay, ghosts
  <2>2. run' = run \/ run' = Nothing \/ ~run'.owned
    BY <1>9, CloseStep
  <2>3. QED
    BY <2>1, <2>2 DEF Showing, wall, live
<1>10. ASSUME NEW direction, NEW snapshot \in WallSnapshots, Restore(direction, snapshot)
       PROVE  Showing'
  <2>1. /\ notice' = FALSE /\ forks' = {} /\ overlaid' = {} /\ UNCHANGED <<overlay, importing>>
        /\ selected' = snapshot.key.boards /\ setup' = snapshot.key.setup
        /\ film' = snapshot.film /\ key' = snapshot.key /\ wanted' = Nothing
    BY <1>10 DEF Restore
  <2>2. snapshot.film \in Walls /\ snapshot.key \in Walls
    BY DEF WallSnapshots
  <2>3. snapshot.key.boards \in Fitting /\ snapshot.key.setup \in Setups
    BY <2>2 DEF Walls, Fitting
  <2>4. run' = Nothing \/ ~run'.owned
    BY <1>10, RestoreStep DEF Restore, Invalidated
  <2>5. QED
    BY <2>1, <2>2, <2>3, <2>4, WallAssumption DEF Showing
<1>11. CASE UndoWallHistory \/ RedoWallHistory
  <2>1. CASE UndoWallHistory
    BY <1>10, <2>1, NewestOf DEF UndoWallHistory, Recorded
  <2>2. CASE RedoWallHistory
    BY <1>10, <2>2, NewestOf DEF RedoWallHistory, Recorded
  <2>3. QED
    BY <1>11, <2>1, <2>2
<1>12. CASE Aside
  <2>1. ASSUME NEW b \in Boards, ForkBoardLive(b) \/ ForkMounts(b) \/ DiscardFork(b)
        PROVE  /\ forks' \cup overlaid' \cup importing' \subseteq Boards
               /\ UNCHANGED <<run, notice, wall, overlay, wanted>>
    BY <2>1 DEF ForkBoardLive, ForkMounts, DiscardFork, Showing, working, ghosts
  <2>2. CASE Restored \/ (\E direction \in {"undo", "redo"} : SupersededEnds(direction))
             \/ UNCHANGED vars
    <3>1. UNCHANGED <<run, notice, wall, overlay, wanted, live>>
      BY <2>2 DEF Restored, SupersededEnds, vars, working, ghosts
    <3>2. QED
      BY <3>1 DEF Showing, wall, live
  <2>3. QED
    BY <1>12, <2>1, <2>2 DEF Aside, Showing, wall
<1>13. QED
  BY <1>1, <1>2, <1>3, <1>4, <1>5, <1>6, <1>7, <1>8, <1>9, <1>11, <1>12, Steps


LEMMA RecordedStep ==
  ASSUME Based, [Next]_vars
  PROVE  Recorded'
<1> USE DEF Based
<1>0. /\ history \in Histories /\ Len(history.undo) <= HistoryLimit /\ epoch \in Nat
      /\ trusted \in BOOLEAN /\ restore \in {Nothing, "undo", "redo"}
      /\ film = Nothing => history = Empty
  BY DEF Recorded
<1>1. CASE \/ TimerExpires \/ RunEnds \/ RunFails \/ (\E tilings \in Fitting : Rearrange(tilings))
           \/ RunWall \/ RunAnalysis \/ Retry \/ OpenAnalysisOverlay \/ CloseAnalysisOverlay
  <2>1. UNCHANGED <<film, history, epoch, restore>>
    BY <1>1 DEF TimerExpires, RunEnds, RunFails, Rearrange, RunWall, RunAnalysis, Retry,
       OpenAnalysisOverlay, CloseAnalysisOverlay, wall, wallHistory
  <2>2. trusted' \in BOOLEAN
    BY <1>0, <1>1 DEF TimerExpires, RunEnds, RunFails, Rearrange, RunWall, RunAnalysis, Retry,
       OpenAnalysisOverlay, CloseAnalysisOverlay, ghosts
  <2>3. QED
    BY <1>0, <2>1, <2>2 DEF Recorded
<1>2. CASE FilmstripArrives
  <2>1. /\ UNCHANGED <<history, epoch, restore>> /\ trusted' \in BOOLEAN
        /\ film' = [boards |-> sched.active.config.boards, setup |-> sched.active.config.setup]
    BY <1>2 DEF FilmstripArrives, wallHistory
  <2>2. film' \in Walls /\ film' # Nothing
    BY <1>2, <2>1, ArrivesStep, WallAssumption DEF Runs, Walls
  <2>3. QED
    BY <1>0, <2>1, <2>2 DEF Recorded
<1>3. CASE FilmstripLoaded
  <2> DEFINE intent == sched.active.config.intent
  <2>1. /\ UNCHANGED <<film, epoch, restore, trusted>> /\ film # Nothing
        /\ IF intent # Nothing /\ intent.epoch = epoch
           THEN Record(intent.before, CaptureWallSnapshot) ELSE history' = history
    BY <1>3 DEF FilmstripLoaded, wall, Goes, Showing
  <2>2. intent # Nothing => intent.before \in WallSnapshots
    BY <1>3 DEF FilmstripLoaded, Working, InOrder, Schedulers, ActiveRuns, Runs, Intents
  <2>3. history' \in Histories /\ Len(history'.undo) <= HistoryLimit
    <3>1. CASE intent # Nothing /\ intent.epoch = epoch
      BY <1>0, <2>1, <2>2, <3>1, ReadIs, RecordIs
    <3>2. CASE ~(intent # Nothing /\ intent.epoch = epoch)
      BY <1>0, <2>1, <3>2
    <3>3. QED
      BY <3>1, <3>2
  <2>4. QED
    BY <1>0, <2>1, <2>3 DEF Recorded
<1>4. CASE \/ \E tilings \in Fitting, fields \in Setups \cup BadSetups : ChangeWall(tilings, fields)
           \/ \E tilings \in Fitting, fields \in Setups : ApplyRunConfig(tilings, fields)
           \/ \E b \in Boards, fields \in Setups : RunWallFromFork(b, fields)
  <2>1. ClearWallHistory
    BY <1>4 DEF ChangeWall, ApplyRunConfig, RunWallFromFork
  <2>2. /\ history' = Empty /\ epoch' = epoch + 1 /\ restore' = Nothing /\ trusted' = TRUE
    BY <2>1 DEF ClearWallHistory
  <2>3. QED
    BY <1>0, <2>2, EmptyIs DEF Recorded
<1>5. ASSUME NEW b \in Boards, RemoveBoard(b) PROVE Recorded'
  <2>1. /\ film' = [film EXCEPT !.boards = @ \ {b}] /\ key' = Survivors(b) /\ film # Nothing
        /\ UNCHANGED <<epoch, restore>>
        /\ history' = history
           \/ Record(CaptureWallSnapshot, [film |-> film', key |-> Survivors(b)])
    BY <1>5 DEF RemoveBoard, Manageable, Survivors
  <2>2. trusted' \in BOOLEAN
    <3> DEFINE kind == IF Queued THEN sched.kind ELSE Nothing
               told == trusted /\ (kind = "filmstrip" \/ (run # Nothing /\ run.phase = "loading")
                                       => history = Empty)
    <3>1. trusted' = told
      BY <1>5 DEF RemoveBoard
    <3>2. CASE told
      BY <3>1, <3>2, Zenon
    <3>3. CASE ~told
      BY <3>1, <3>3, Zenon
    <3>4. QED
      BY <3>2, <3>3
  <2>3. film' \in Walls /\ film' # Nothing
    <3>1. Showing' /\ key' \in Walls
      BY <1>5, <2>1, ShowingStep, SurvivorsIs
    <3>2. QED
      BY <3>1, WallAssumption DEF Showing
  <2>4. CASE history' = history
    BY <1>0, <2>1, <2>2, <2>3, <2>4 DEF Recorded
  <2>5. CASE Record(CaptureWallSnapshot, [film |-> film', key |-> Survivors(b)])
    <3>1. [film |-> film', key |-> Survivors(b)] \in WallSnapshots
      BY <2>3, SurvivorsIs DEF WallSnapshots
    <3>2. CaptureWallSnapshot \in WallSnapshots
      BY <2>1, ReadIs
    <3>3. history' \in Histories /\ Len(history'.undo) <= HistoryLimit
      BY <1>0, <2>5, <3>1, <3>2, RecordIs
    <3>4. QED
      BY <1>0, <2>1, <2>2, <2>3, <3>3 DEF Recorded
  <2>6. QED
    BY <2>1, <2>4, <2>5
<1>6. ASSUME NEW direction \in {"undo", "redo"}, NEW snapshot \in WallSnapshots,
             Restore(direction, snapshot), history' \in Histories,
             Len(history'.undo) <= HistoryLimit
      PROVE  Recorded'
  <2>1. film' = snapshot.film /\ restore' = direction /\ UNCHANGED <<epoch, trusted>>
    BY <1>6 DEF Restore
  <2>2. film' # Nothing
    BY <2>1, WallAssumption DEF WallSnapshots
  <2>3. QED
    BY <1>0, <1>6, <2>1, <2>2 DEF Recorded
<1>7. CASE UndoWallHistory
  <2>1. /\ history.undo # << >> /\ history' = Undone
        /\ Restore("undo", Newest(history.undo).before)
    BY <1>7 DEF UndoWallHistory
  <2>2. QED
    BY <1>0, <1>6, <2>1, NewestOf, MovesAreHistories
<1>8. CASE RedoWallHistory
  <2>1. /\ history.redo # << >> /\ history' = Redone
        /\ Restore("redo", Newest(history.redo).after)
    BY <1>8 DEF RedoWallHistory
  <2>2. QED
    BY <1>0, <1>6, <2>1, NewestOf, MovesAreHistories
<1>9. ASSUME NEW direction \in {"undo", "redo"}, SupersededEnds(direction) PROVE Recorded'
  <2>1. /\ UNCHANGED <<film, epoch, restore>> /\ trusted' \in BOOLEAN
        /\ \/ history' = history
           \/ history.redo # << >> /\ history' = Redone
           \/ history.undo # << >> /\ history' = Undone
    BY <1>0, <1>9 DEF SupersededEnds, wall
  <2>2. history' \in Histories /\ Len(history'.undo) <= HistoryLimit
    BY <1>0, <2>1, MovesAreHistories
  <2>3. film' = Nothing => history' = Empty
    BY <1>0, <2>1, EmptyIs
  <2>4. QED
    BY <1>0, <2>1, <2>2, <2>3 DEF Recorded
<1>10. CASE Aside
  <2>1. CASE \/ Restored \/ (\E b \in Boards : ForkBoardLive(b) \/ ForkMounts(b) \/ DiscardFork(b))
             \/ UNCHANGED vars
    <3>1. UNCHANGED <<film, history, epoch, trusted>> /\ restore' \in {restore, Nothing}
      BY <2>1 DEF Restored, ForkBoardLive, ForkMounts, DiscardFork, vars, wall, wallHistory, ghosts
    <3>2. QED
      BY <1>0, <3>1 DEF Recorded
  <2>2. QED
    BY <1>9, <1>10, <2>1 DEF Aside
<1>11. QED
  BY <1>1, <1>2, <1>3, <1>4, <1>5, <1>7, <1>8, <1>10, Steps

LEMMA BusyStep ==
  ASSUME Based, [Next]_vars
  PROVE  NeverStuckBusy'
<1> USE DEF Based
<1>0. executing => restore # Nothing \/ (run # Nothing /\ run.owned)
  BY DEF NeverStuckBusy
<1>1. ASSUME NEW config, NEW busy, Begun(config, busy),
             busy => executing /\ ~(run # Nothing /\ run.owned), restore' = restore
      PROVE  NeverStuckBusy'
  BY <1>0, <1>1 DEF NeverStuckBusy, Begun
<1>2. ASSUME NEW busy, GoesOn(busy), busy => executing, restore' = restore PROVE NeverStuckBusy'
  BY <1>0, <1>2 DEF NeverStuckBusy, GoesOn
<1>3. ASSUME NEW s, Ended(s), run # Nothing, restore' = restore PROVE NeverStuckBusy'
  <2>1. CASE s.pending # Nothing /\ Begun(s.pending, executing /\ ~run.owned)
    BY <1>1, <1>3, <2>1
  <2>2. CASE run' = Nothing /\ executing' = (executing /\ ~run.owned)
    BY <1>0, <1>3, <2>2 DEF NeverStuckBusy
  <2>3. QED
    BY <1>3, <2>1, <2>2 DEF Ended
<1>4. ASSUME NEW config, AtOnce(config, executing), restore' = restore PROVE NeverStuckBusy'
  <2>1. CASE run # Nothing /\ GoesOn(executing)
    BY <1>2, <1>4, <2>1
  <2>2. CASE run = Nothing /\ Begun(config, executing)
    BY <1>1, <1>4, <2>2
  <2>3. QED
    BY <1>4, <2>1, <2>2 DEF AtOnce
<1>5. CASE TimerExpires
  <2>1. restore' = restore
    BY <1>5 DEF TimerExpires, wallHistory
  <2>2. QED
    BY <1>1, <1>2, <1>5, <2>1, TimerStep
<1>6. CASE FilmstripLoaded \/ RunEnds \/ RunFails
  <2>1. restore' = restore /\ run # Nothing
    BY <1>6 DEF FilmstripLoaded, RunEnds, RunFails, wallHistory
  <2>2. QED
    BY <1>3, <1>6, <2>1, LoadedStep, EndsStep
<1>7. CASE FilmstripArrives
  BY <1>7, ArrivesStep DEF NeverStuckBusy
<1>8. ASSUME NEW tilings \in Fitting, NEW fields \in Setups \cup BadSetups,
             ChangeWall(tilings, fields)
      PROVE  NeverStuckBusy'
  BY <1>0, <1>8 DEF ChangeWall, Freed, NeverStuckBusy
<1>9. ASSUME NEW tilings \in Fitting, Rearrange(tilings) PROVE NeverStuckBusy'
  <2>1. restore' = restore
    BY <1>9 DEF Rearrange, wallHistory
  <2>2. QED
    BY <1>2, <1>4, <1>9, <2>1, RearrangeStep
<1>10. ASSUME NEW b \in Boards, RemoveBoard(b) PROVE NeverStuckBusy'
  BY <1>10, RemoveStep DEF NeverStuckBusy
<1>11. ASSUME NEW tilings \in Fitting, NEW fields \in Setups, ApplyRunConfig(tilings, fields)
       PROVE  NeverStuckBusy'
  BY <1>11 DEF ApplyRunConfig, Invalidated, NeverStuckBusy
<1>12. ASSUME NEW b \in Boards, NEW fields \in Setups, RunWallFromFork(b, fields)
       PROVE  NeverStuckBusy'
  <2>1. restore' = Nothing
    BY <1>12 DEF RunWallFromFork, ClearWallHistory
  <2>2. Freed => run # Nothing /\ run.owned
    BY <1>0 DEF Freed
  <2>3. CASE run # Nothing /\ GoesOn(Freed)
    BY <2>2, <2>3 DEF GoesOn, NeverStuckBusy
  <2>4. CASE run = Nothing /\ \E config : Begun(config, Freed)
    BY <2>2, <2>4 DEF Begun, NeverStuckBusy
  <2>5. QED
    BY <1>12, <2>3, <2>4, FromForkStep DEF AtOnce
<1>13. CASE RunWall \/ RunAnalysis
  <2>1. restore' = restore
    BY <1>13 DEF RunWall, RunAnalysis, wallHistory
  <2>2. QED
    BY <1>4, <1>13, <2>1, RunWallStep, RunAnalysisStep
<1>14. CASE Retry
  <2>1. restore' = restore
    BY <1>14 DEF Retry, wallHistory
  <2>2. QED
    BY <1>2, <1>4, <1>14, <2>1, RetryStep
<1>15. CASE OpenAnalysisOverlay
  <2>1. restore' = restore
    BY <1>15 DEF OpenAnalysisOverlay, wallHistory
  <2>2. QED
    BY <1>0, <1>15, <2>1, OpenStep DEF NeverStuckBusy
<1>16. CASE CloseAnalysisOverlay
  <2>1. restore' = restore
    BY <1>16 DEF CloseAnalysisOverlay, wallHistory
  <2>2. QED
    BY <1>0, <1>16, <2>1, CloseStep DEF NeverStuckBusy
<1>17. CASE UndoWallHistory \/ RedoWallHistory
  <2>1. restore' \in {"undo", "redo"}
    BY <1>17 DEF UndoWallHistory, RedoWallHistory, Restore
  <2>2. QED
    BY <2>1, WallAssumption DEF NeverStuckBusy
<1>18. CASE Aside
  <2>1. executing' = FALSE \/ UNCHANGED <<restore, run, executing>>
    BY <1>18 DEF Aside, Restored, SupersededEnds, ForkBoardLive, ForkMounts, DiscardFork, vars,
       working, wallHistory
  <2>2. QED
    BY <1>0, <2>1 DEF NeverStuckBusy
<1>19. QED
  BY <1>5, <1>6, <1>7, <1>8, <1>9, <1>10, <1>11, <1>12, <1>13, <1>14, <1>15, <1>16, <1>17,
     <1>18, Steps


LEMMA BasedInit ==
  ASSUME Init
  PROVE  Based
<1>1. PICK s : s = FreshScheduler
  OBVIOUS
<1>2. /\ s.timer = FALSE /\ s.pending = Nothing /\ s.ready = FALSE /\ s.active = Nothing
      /\ s.lastFailed = Nothing /\ s.failed = FALSE /\ s.status = "idle" /\ s.kind = Nothing
      /\ s \in Schedulers
  BY <1>1 DEF FreshScheduler, Schedulers, Statuses
<1>3. /\ sched = s /\ run = Nothing /\ executing = FALSE /\ notice = FALSE /\ overlay = FALSE
      /\ history = Empty /\ epoch = 0 /\ restore = Nothing /\ wanted = Nothing
      /\ importing = {} /\ forks = {} /\ overlaid = {} /\ trusted = TRUE
  BY <1>1 DEF Init
<1>4. setup \in Setups
  <2>1. setup = CHOOSE x \in Setups : TRUE
    BY DEF Init
  <2>2. QED
    BY <2>1, WallAssumption
<1>5. selected \in Fitting
  BY DEF Init, Fitting
<1>6. film = key /\ (key = Nothing \/ key = [boards |-> selected, setup |-> setup])
  BY DEF Init
<1>7. key \in Walls \cup {Nothing}
  BY <1>4, <1>5, <1>6 DEF Walls, Fitting
<1>8. InOrder(s)
  BY <1>2 DEF InOrder
<1>9. Working
  BY <1>2, <1>3, <1>8 DEF Working
<1>10. Showing
  BY <1>3, <1>4, <1>5, <1>6, <1>7 DEF Showing
<1>11. Recorded
  BY <1>3, EmptyIs DEF Recorded
<1>12. Configs(sched) = {}
  BY <1>2, <1>3 DEF Configs
<1>13. Waiting
  BY <1>2, <1>3, <1>12 DEF Waiting
<1>14. NeverStuckBusy
  BY <1>3 DEF NeverStuckBusy
<1>15. QED
  BY <1>9, <1>10, <1>11, <1>13, <1>14 DEF Based

LEMMA WorkingStep ==
  ASSUME Based, [Next]_vars
  PROVE  Working'
<1>1. CASE FilmstripLoaded \/ RunEnds \/ RunFails \/ FilmstripArrives \/ TimerExpires
  BY <1>1, LoadedStep, EndsStep, ArrivesStep, TimerStep DEF Based
<1>2. ASSUME NEW tilings \in Fitting, NEW fields \in Setups \cup BadSetups,
             ChangeWall(tilings, fields)
      PROVE  Working'
  BY <1>2, ChangeStep
<1>3. ASSUME NEW tilings \in Fitting, Rearrange(tilings) PROVE Working'
  BY <1>3, RearrangeStep
<1>4. ASSUME NEW b \in Boards, RemoveBoard(b) PROVE Working'
  BY <1>4, RemoveStep
<1>5. ASSUME NEW tilings \in Fitting, NEW fields \in Setups, ApplyRunConfig(tilings, fields)
      PROVE  Working'
  BY <1>5, ApplyStep
<1>6. ASSUME NEW b \in Boards, NEW fields \in Setups, RunWallFromFork(b, fields)
      PROVE  Working'
  BY <1>6, FromForkStep
<1>7. CASE RunWall \/ RunAnalysis \/ Retry \/ OpenAnalysisOverlay \/ CloseAnalysisOverlay \/ Aside
  BY <1>7, RunWallStep, RunAnalysisStep, RetryStep, OpenStep, CloseStep, AsideStep
<1>8. CASE UndoWallHistory \/ RedoWallHistory
  BY <1>8, RestoreStep DEF UndoWallHistory, RedoWallHistory
<1>9. QED
  BY <1>1, <1>2, <1>3, <1>4, <1>5, <1>6, <1>7, <1>8, Steps

LEMMA BasedStep ==
  ASSUME Based, [Next]_vars
  PROVE  Based'
<1>1. Recorded' /\ Showing' /\ Working' /\ NeverStuckBusy'
  BY RecordedStep, ShowingStep, WorkingStep, BusyStep
<1>2. epoch' \in Nat
  BY <1>1 DEF Recorded
<1>3. Waiting'
  BY <1>2, WaitingStep
<1>4. QED
  BY <1>1, <1>3 DEF Based

\* The shape that the proofs rest on contains what the runs check.
LEMMA BasedIsConsistent ==
  ASSUME Based
  PROVE  WallConsistent
<1>1. WallTypeOK
  BY DEF Based, Working, Showing, Recorded, InOrder, Fitting, WallTypeOK
<1>2. QED
  BY <1>1 DEF Based, WallConsistent

THEOREM WallStaysBased == Spec => []Based
<1>1. Init => Based
  BY BasedInit
<1>2. Based /\ [Next]_vars => Based'
  BY BasedStep
<1>3. QED
  BY <1>1, <1>2, PTL DEF Spec

\* The workspace and its scheduler agree on whether a run is under way, and the
\* controls are busy only while a run that holds its ticket or a restoration
\* will free them (compare-panel-content.ts, setRunning, and the operation
\* coordinator).
THEOREM WallIsConsistent == Spec => []WallConsistent
<1>1. Based => WallConsistent
  BY BasedIsConsistent
<1>2. QED
  BY <1>1, WallStaysBased, PTL

(***************************************************************************)
(* The wall asked for last is the one to come: it waits, it is on its way, *)
(* or it is there and nothing else is going to take its place.             *)
(***************************************************************************)

Filmstrip(config) == config # Nothing /\ config.kind = "filmstrip"

\* The run under way will install a wall when it is answered.
Answerable == /\ run # Nothing /\ run.phase = "asked" /\ Goes
              /\ sched.active.config.kind = "filmstrip"

WantedComes ==
    wanted # Nothing =>
      \/ Cardinality(wanted.boards) < MinWallTilings
      \/ Filmstrip(sched.pending) /\ Plain(sched.pending) = wanted
      \/ /\ ~Filmstrip(sched.pending)
         /\ Answerable /\ sched.active.current /\ Plain(sched.active.config) = wanted
      \/ /\ ~Filmstrip(sched.pending)
         /\ key = wanted
         /\ Answerable => Plain(sched.active.config) = wanted

LEMMA WantedBegun ==
  ASSUME NEW config \in Runs, NEW busy, Begun(config, busy),
         \/ wanted' = Nothing \/ Cardinality(wanted'.boards) < MinWallTilings
         \/ config.kind = "filmstrip" /\ Plain(config) = wanted'
         \/ config.kind # "filmstrip" /\ key' = wanted'
  PROVE  WantedComes'
<1>1. ~Filmstrip(sched'.pending)
  BY DEF Begun, Filmstrip
<1>2. CASE config.kind = "filmstrip" /\ Plain(config) = wanted'
  <2>1. CASE run'.phase = "short"
    BY <1>2, <2>1 DEF Begun, Plain, WantedComes
  <2>2. CASE run'.phase = "asked" /\ run'.owned
    BY <1>1, <1>2, <2>2 DEF Begun, WantedComes, Answerable, Goes
  <2>3. QED
    BY <2>1, <2>2 DEF Begun
<1>3. CASE config.kind # "filmstrip" /\ key' = wanted'
  BY <1>1, <1>3 DEF Begun, WantedComes, Answerable
<1>4. QED
  BY <1>2, <1>3 DEF WantedComes

LEMMA WantedAtOnce ==
  ASSUME NEW config \in Runs, NEW busy, AtOnce(config, busy),
         \/ wanted' = Nothing \/ Cardinality(wanted'.boards) < MinWallTilings
         \/ config.kind = "filmstrip" /\ Plain(config) = wanted'
         \/ config.kind # "filmstrip" /\ key' = wanted'
  PROVE  WantedComes'
<1>1. CASE \E any : Begun(config, any)
  BY <1>1, WantedBegun
<1>2. CASE /\ run # Nothing /\ GoesOn(busy) /\ sched'.pending = config
           /\ sched'.active.aborted
  BY <1>2, WallAssumption DEF WantedComes, Filmstrip, Answerable, Goes
<1>3. QED
  BY <1>1, <1>2 DEF AtOnce

LEMMA WantedEnded ==
  ASSUME NEW s, s.pending \in Runs \cup {Nothing}, Ended(s),
         \/ wanted' = Nothing \/ Cardinality(wanted'.boards) < MinWallTilings
         \/ Filmstrip(s.pending) /\ Plain(s.pending) = wanted'
         \/ ~Filmstrip(s.pending) /\ key' = wanted'
  PROVE  WantedComes'
<1>1. CASE s.pending # Nothing /\ Begun(s.pending, executing /\ ~run.owned)
  <2>1. PICK busy : busy = (executing /\ ~run.owned)
    OBVIOUS
  <2>2. Begun(s.pending, busy) /\ s.pending \in Runs
    BY <1>1, <2>1
  <2>3. QED
    BY <1>1, <2>2, WantedBegun DEF Filmstrip
<1>2. CASE sched'.pending = s.pending /\ run' = Nothing
  BY <1>2 DEF WantedComes, Answerable
<1>3. QED
  BY <1>1, <1>2 DEF Ended

\* What an analysis leaves in place is there already, and what is answered next
\* is the same wall.
LEMMA DisplacedIs ==
  ASSUME Based, WantedComes, Displaced # Nothing
  PROVE  /\ Displaced = wanted
         /\ \/ Cardinality(wanted.boards) < MinWallTilings
            \/ key = wanted /\ (Answerable => Plain(sched.active.config) = wanted)
<1> DEFINE current == IF sched.active = Nothing THEN Nothing ELSE sched.active.config
<1>1. /\ Displaced = wanted
      /\ \A config \in {sched.pending, current} :
             config # Nothing /\ config.kind = "filmstrip" => Plain(config) = key
  BY DEF Displaced
<1>2. Filmstrip(sched.pending) => Plain(sched.pending) = key
  BY <1>1 DEF Filmstrip
<1>3. Answerable => Plain(sched.active.config) = key
  <2>1. ASSUME Answerable PROVE current = sched.active.config /\ current # Nothing
    BY <2>1, WallAssumption DEF Answerable, Based, Working, InOrder, Schedulers, ActiveRuns
  <2>2. QED
    BY <1>1, <2>1 DEF Answerable
<1>4. QED
  BY <1>1, <1>2, <1>3 DEF WantedComes

LEMMA WantedRuns ==
  ASSUME Based, WantedComes, TimerExpires \/ FilmstripLoaded \/ RunEnds \/ RunFails
  PROVE  WantedComes'
<1>0. /\ sched.pending \in Runs \cup {Nothing} /\ InOrder(sched)
      /\ run # Nothing <=> sched.active # Nothing
  BY DEF Based, Working, InOrder, Schedulers
<1>1. CASE TimerExpires
  <2>1. UNCHANGED <<wanted, key>> /\ sched.pending # Nothing
    BY <1>1, TimerStep DEF TimerExpires, wall, ghosts, Based
  <2>2. CASE run # Nothing
    <3>1. run' = run /\ sched'.pending = sched.pending /\ sched'.active.aborted
      BY <1>1, <2>2, TimerStep DEF GoesOn, Based
    <3>2. ~sched.active.current
      BY <1>0, <2>1, <2>2 DEF InOrder
    <3>3. QED
      BY <2>1, <3>1, <3>2 DEF WantedComes, Answerable, Goes
  <2>3. CASE run = Nothing
    <3>1. Begun(sched.pending, executing)
      BY <1>1, <2>3, TimerStep DEF Based
    <3>2. ~Answerable
      BY <2>3 DEF Answerable
    <3>3. QED
      BY <1>0, <2>1, <3>1, <3>2, WantedBegun DEF WantedComes, Filmstrip
  <2>4. QED
    BY <2>2, <2>3
<1>2. CASE FilmstripLoaded
  <2>1. /\ run # Nothing /\ run.phase = "loading" /\ Goes /\ key' = key
        /\ wanted' = IF overlay /\ selected # {} THEN Displaced ELSE wanted
    BY <1>2 DEF FilmstripLoaded, wall
  <2>2. ~Answerable
    BY <2>1 DEF Answerable
  <2>3. Ended(AfterLoad)
    BY <1>2, LoadedStep
  <2>4. CASE overlay /\ selected # {}
    <3>1. /\ AfterLoad.pending = IF Valid THEN AnalysisRun(CurrentConfig) ELSE Nothing
          /\ wanted' = Displaced
      BY <2>1, <2>4, AfterLoadIs DEF Based
    <3>2. AnalysisRun(CurrentConfig) \in Runs /\ AnalysisRun(CurrentConfig).kind = "analysis"
      BY ReadIs, RunIs DEF Based
    <3>3. ~Filmstrip(AfterLoad.pending) /\ AfterLoad.pending \in Runs \cup {Nothing}
      BY <3>1, <3>2 DEF Filmstrip
    <3>4. \/ wanted' = Nothing \/ Cardinality(wanted'.boards) < MinWallTilings
          \/ key' = wanted'
      BY <2>1, <3>1, DisplacedIs
    <3>5. QED
      BY <2>3, <3>3, <3>4, WantedEnded
  <2>5. CASE ~(overlay /\ selected # {})
    <3>1. AfterLoad = sched /\ wanted' = wanted
      BY <2>1, <2>5, AfterLoadIs DEF Based
    <3>2. QED
      BY <1>0, <2>1, <2>2, <2>3, <3>1, WantedEnded DEF WantedComes
  <2>6. QED
    BY <2>4, <2>5
<1>3. CASE RunEnds \/ RunFails
  <2>1. /\ Ended(sched) /\ key' = key
        /\ \/ wanted' = Nothing
           \/ wanted' = wanted /\ ~(Answerable /\ sched.active.current)
    <3>1. Ended(sched) /\ key' = key
      BY <1>3, EndsStep DEF RunEnds, RunFails, wall
    <3>2. CASE RunEnds
      BY <3>1, <3>2 DEF RunEnds, Answerable
    <3>3. CASE RunFails
      BY <3>1, <3>3 DEF RunFails, Answerable
    <3>4. QED
      BY <1>3, <3>1, <3>2, <3>3
  <2>2. QED
    BY <1>0, <2>1, WantedEnded DEF WantedComes
<1>4. QED
  BY <1>1, <1>2, <1>3

LEMMA WantedLater ==
  ASSUME NEW config \in Runs, config.kind = "filmstrip", NEW valid, Later(config, valid),
         wanted' = Nothing \/ (valid /\ wanted' = Plain(config))
  PROVE  WantedComes'
  BY WallAssumption DEF Later, WantedComes, Filmstrip

LEMMA WantedStep ==
  ASSUME Based, WantedComes, [Next]_vars
  PROVE  WantedComes'
<1>0. Showing /\ InOrder(sched) /\ (run # Nothing <=> sched.active # Nothing)
  BY DEF Based, Working
<1>1. CASE TimerExpires \/ FilmstripLoaded \/ RunEnds \/ RunFails
  BY <1>1, WantedRuns
<1>2. CASE FilmstripArrives
  <2>1. /\ sched' = sched /\ wanted' = wanted /\ key' = Plain(sched.active.config)
        /\ run'.phase = "loading"
    BY <1>2, ArrivesStep DEF FilmstripArrives, Plain
  <2>2. Answerable
    BY <1>2, ArrivesStep DEF Answerable
  <2>3. ~Answerable'
    BY <2>1 DEF Answerable
  <2>4. QED
    BY <2>1, <2>2, <2>3 DEF WantedComes
<1>3. ASSUME NEW tilings \in Fitting, NEW fields \in Setups \cup BadSetups,
             ChangeWall(tilings, fields)
      PROVE  WantedComes'
  <2> DEFINE config == FilmstripRun(Asking(tilings, fields), Nothing)
  <2>1. wanted' = IF fields \in Setups THEN Asking(tilings, fields) ELSE Nothing
    BY <1>3 DEF ChangeWall, Asking
  <2>2. /\ config \in Runs /\ config.kind = "filmstrip"
        /\ Plain(config) = Asking(tilings, fields)
    BY AskingIs, RunIs
  <2>3. Later(config, fields \in Setups)
    BY <1>3, ChangeStep
  <2>4. PICK c : c = config
    OBVIOUS
  <2>5. CASE fields \in Setups
    <3>1. sched'.pending = c
      BY <2>3, <2>4, <2>5 DEF Later
    <3>2. QED
      BY <2>1, <2>2, <2>4, <2>5, <3>1, WallAssumption DEF WantedComes, Filmstrip
  <2>6. CASE fields \notin Setups
    BY <2>1, <2>6 DEF WantedComes
  <2>7. QED
    BY <2>5, <2>6
<1>4. ASSUME NEW tilings \in Fitting, Rearrange(tilings) PROVE WantedComes'
  <2>1. /\ wanted' = IF Valid THEN [CurrentConfig EXCEPT !.boards = tilings] ELSE Nothing
        /\ film # Nothing
    BY <1>4, RearrangeStep DEF Rearrange
  <2>2. CASE Valid
    BY <1>4, <2>1, <2>2, RearrangeStep, RearrangedIs, WantedAtOnce
  <2>3. CASE ~Valid
    BY <2>1, <2>3 DEF WantedComes
  <2>4. QED
    BY <2>2, <2>3
<1>5. ASSUME NEW b \in Boards, RemoveBoard(b) PROVE WantedComes'
  <2>1. /\ key' = Survivors(b)
        /\ wanted' = IF QueuedKind = "filmstrip" /\ ~Valid THEN Nothing
                     ELSE IF wanted = Nothing THEN Nothing ELSE Survivors(b)
    BY <1>5 DEF RemoveBoard, Survivors, QueuedKind
  <2>2. CASE QueuedKind = "filmstrip"
    <3>1. /\ FilmstripRun(Survivors(b), Nothing) \in Runs
          /\ FilmstripRun(Survivors(b), Nothing).kind = "filmstrip"
          /\ Plain(FilmstripRun(Survivors(b), Nothing)) = Survivors(b)
      BY <1>0, SurvivorsIs, RunIs
    <3>2. Later(FilmstripRun(Survivors(b), Nothing), Valid)
      BY <1>5, <2>2, RemoveStep
    <3>3. wanted' = Nothing \/ (Valid /\ wanted' = Survivors(b))
      BY <2>1, <2>2
    <3>4. QED
      BY <3>1, <3>2, <3>3, WallAssumption DEF Later, WantedComes, Filmstrip
  <2>3. CASE QueuedKind # "filmstrip"
    <3>1. /\ sched' = sched /\ sched.pending = Nothing /\ run' = run
          /\ run # Nothing => sched.active.aborted
      BY <1>5, <2>3, RemoveStep
    <3>2. ~Answerable'
      BY <3>1 DEF Answerable, Goes
    <3>3. QED
      BY <2>1, <2>3, <3>1, <3>2 DEF WantedComes, Filmstrip
  <2>4. QED
    BY <2>2, <2>3
<1>6. ASSUME NEW tilings \in Fitting, NEW fields \in Setups, ApplyRunConfig(tilings, fields)
      PROVE  WantedComes'
  <2> DEFINE config == [boards |-> tilings, setup |-> fields]
  <2>1. wanted' = config /\ Later(FilmstripRun(config, Nothing), TRUE)
    BY <1>6, ApplyStep DEF ApplyRunConfig
  <2>2. config \in Walls
    BY <1>0, ReadIs
  <2>3. QED
    BY <2>1, <2>2, RunIs, WantedLater
<1>7. ASSUME NEW b \in Boards, NEW fields \in Setups, RunWallFromFork(b, fields)
      PROVE  WantedComes'
  <2> DEFINE config == [boards |-> selected, setup |-> fields]
  <2>1. wanted' = config /\ AtOnce(FilmstripRun(config, Nothing), Freed)
    BY <1>7, FromForkStep DEF RunWallFromFork
  <2>2. config \in Walls
    BY <1>0, ReadIs DEF Showing
  <2>3. QED
    BY <2>1, <2>2, RunIs, WantedAtOnce
<1>8. CASE RunWall
  <2>1. wanted' = CurrentConfig /\ AtOnce(FilmstripRun(CurrentConfig, Nothing), executing)
    BY <1>8, RunWallStep DEF RunWall
  <2>2. QED
    BY <1>0, <2>1, ReadIs, RunIs, WantedAtOnce
<1>9. CASE RunAnalysis
  <2>1. /\ wanted' = Displaced /\ key' = key
        /\ AtOnce(AnalysisRun(CurrentConfig), executing)
    BY <1>9, RunAnalysisStep DEF RunAnalysis, wall
  <2>2. /\ AnalysisRun(CurrentConfig) \in Runs
        /\ AnalysisRun(CurrentConfig).kind # "filmstrip"
    BY <1>0, ReadIs, RunIs
  <2>3. QED
    BY <2>1, <2>2, DisplacedIs, WantedAtOnce
<1>10. CASE Retry
  <2>1. /\ key' = key
        /\ wanted' = IF ~Valid THEN Nothing
                     ELSE IF Retried(sched).kind = "filmstrip" THEN Plain(Retried(sched))
                     ELSE Displaced
    BY <1>10 DEF Retry, wall
  <2>2. CASE Valid
    BY <1>10, <2>1, <2>2, RetryStep, DisplacedIs, WantedAtOnce
  <2>3. CASE ~Valid
    BY <2>1, <2>3 DEF WantedComes
  <2>4. QED
    BY <2>2, <2>3
<1>11. CASE OpenAnalysisOverlay
  <2>1. /\ Later(Opened, Valid) /\ run' = run /\ key' = key
        /\ wanted' = IF ~Valid THEN Nothing
                     ELSE IF IsFilmstripCurrent THEN Displaced ELSE CurrentConfig
    BY <1>11, OpenStep DEF OpenAnalysisOverlay, wall
  <2>2. CASE Valid /\ ~IsFilmstripCurrent
    BY <1>0, <2>1, <2>2, ReadIs, RunIs, WantedLater DEF Opened
  <2>3. CASE Valid /\ IsFilmstripCurrent
    <3>1. /\ sched'.pending = AnalysisRun(CurrentConfig) /\ wanted' = Displaced
          /\ run # Nothing => /\ sched'.active.aborted = sched.active.aborted
                              /\ sched'.active.config = sched.active.config
      BY <1>0, <2>1, <2>3 DEF Later, SameRun, Opened
    <3>2. ~Filmstrip(sched'.pending)
      BY <1>0, <3>1, ReadIs, RunIs DEF Filmstrip
    <3>3. Answerable' => Answerable
      BY <2>1, <3>1 DEF Answerable, Goes
    <3>4. run # Nothing => sched'.active.config = sched.active.config
      BY <3>1
    <3>5. QED
      BY <2>1, <3>1, <3>2, <3>3, <3>4, DisplacedIs DEF WantedComes, Answerable
  <2>4. CASE ~Valid
    BY <2>1, <2>4 DEF WantedComes
  <2>5. QED
    BY <2>2, <2>3, <2>4
<1>12. CASE CloseAnalysisOverlay
  <2>1. UNCHANGED <<wanted, key>>
    BY <1>12 DEF CloseAnalysisOverlay, wall, ghosts
  <2>2. /\ Filmstrip(sched.pending) => sched'.pending = sched.pending
        /\ ~Filmstrip(sched.pending) => ~Filmstrip(sched'.pending)
    <3>1. sched.pending # Nothing => sched.pending.kind \in {"filmstrip", "analysis"}
      BY <1>0 DEF InOrder, Schedulers, Runs
    <3>2. QED
      BY <1>12, <3>1, CloseStep DEF Filmstrip
  <2>3. run # Nothing => sched'.active.config = sched.active.config
    BY <1>0, <1>12, CloseStep DEF SameRun
  <2>4. Answerable => /\ Answerable'
                      /\ sched.active.current => sched'.active.current
    BY <1>12, <2>3, CloseStep DEF Answerable, Goes
  <2>5. Answerable' => Answerable
    BY <1>12, <2>3, CloseStep DEF Answerable, Goes
  <2>6. QED
    BY <2>1, <2>2, <2>3, <2>4, <2>5 DEF WantedComes, Answerable
<1>13. CASE UndoWallHistory \/ RedoWallHistory
  BY <1>13 DEF UndoWallHistory, RedoWallHistory, Restore, WantedComes
<1>14. CASE Aside
  <2>1. UNCHANGED <<wanted, key, sched, run>>
    BY <1>14 DEF Aside, Restored, SupersededEnds, ForkBoardLive, ForkMounts, DiscardFork, vars,
       working, wall, ghosts
  <2>2. QED
    BY <2>1 DEF WantedComes, Answerable, Goes
<1>15. QED
  BY <1>1, <1>2, <1>3, <1>4, <1>5, <1>6, <1>7, <1>8, <1>9, <1>10, <1>11, <1>12, <1>13, <1>14,
     Steps

\* The latest configuration wins, however runs are aborted, answered late or
\* cancelled in between (latest-config-scheduler.ts and its use by the wall).
THEOREM LatestWallPrevails == Spec => []LatestWallWins
<1>1. Init => WantedComes
  BY DEF Init, WantedComes
<1>2. Based /\ WantedComes /\ [Next]_vars => WantedComes'
  BY WantedStep
<1>3. Based /\ WantedComes => LatestWallWins
  BY DEF Based, Working, WantedComes, Answerable, Filmstrip, Idle, LatestWallWins
<1>4. QED
  BY <1>1, <1>2, <1>3, WallStaysBased, PTL DEF Spec

(***************************************************************************)
(* A fork that met no run and no other fork is on its slot.                *)
(***************************************************************************)

ForkInv ==
    ~late => /\ forks = overlaid
             /\ film # Nothing => forks \subseteq film.boards
             /\ Cardinality(forks) <= MaxForks
             /\ \A a, b \in importing : a = b
             /\ importing # {} => Cardinality(forks) < MaxForks

LEMMA ForkCount ==
  ASSUME Showing
  PROVE  /\ Cardinality(forks) \in Nat /\ Cardinality({}) = 0 /\ MaxForks \in Nat \ {0}
         /\ \A b : Cardinality(forks \ {b}) \in 0..Cardinality(forks)
         /\ \A b : Cardinality(forks \cup {b}) \in 0..Cardinality(forks) + 1
<1>1. IsFiniteSet(forks) /\ MaxForks \in Nat \ {0} /\ Cardinality({}) = 0
  BY WallAssumption, FS_Subset, FS_EmptySet DEF Showing
<1>2. Cardinality(forks) \in Nat
  BY <1>1, FS_CardinalityType
<1>3. ASSUME NEW b PROVE Cardinality(forks \ {b}) \in 0..Cardinality(forks)
  <2>1. Cardinality(forks \ {b})
            = IF b \in forks THEN Cardinality(forks) - 1 ELSE Cardinality(forks)
    BY <1>1, FS_RemoveElement
  <2>2. b \in forks => Cardinality(forks) # 0
    BY <1>1, FS_EmptySet
  <2>3. QED
    BY <1>2, <2>1, <2>2
<1>4. ASSUME NEW b PROVE Cardinality(forks \cup {b}) \in 0..Cardinality(forks) + 1
  <2>1. Cardinality(forks \cup {b})
            = IF b \in forks THEN Cardinality(forks) ELSE Cardinality(forks) + 1
    BY <1>1, FS_AddElement
  <2>2. QED
    BY <1>2, <2>1
<1>5. QED
  BY <1>1, <1>2, <1>3, <1>4

LEMMA ForkStep ==
  ASSUME Based, ForkInv, [Next]_vars
  PROVE  ForkInv'
<1>0. Showing
  BY DEF Based
<1>1. CASE \/ TimerExpires \/ FilmstripLoaded \/ RunEnds \/ RunFails
           \/ (\E tilings \in Fitting : Rearrange(tilings))
           \/ (\E b \in Boards, fields \in Setups : RunWallFromFork(b, fields))
           \/ RunWall \/ RunAnalysis \/ Retry
  <2>1. UNCHANGED <<film, importing, late>>
    BY <1>1 DEF TimerExpires, FilmstripLoaded, RunEnds, RunFails, Rearrange, RunWallFromFork,
       RunWall, RunAnalysis, Retry, wall, ghosts
  <2>2. \/ forks' = forks /\ overlaid' = overlaid
        \/ forks' = {} /\ overlaid' = overlaid \ forks
    BY <1>1, LoweredRuns DEF Lowered
  <2>3. QED
    BY <1>0, <2>1, <2>2, ForkCount DEF ForkInv
<1>2. CASE FilmstripArrives
  <2>1. /\ UNCHANGED <<importing, forks>> /\ overlaid' = {}
        /\ ~late' => ~late /\ forks = {}
    BY <1>2 DEF FilmstripArrives
  <2>2. QED
    BY <1>0, <2>1, ForkCount DEF ForkInv
<1>3. CASE \/ \E tilings \in Fitting, fields \in Setups \cup BadSetups : ChangeWall(tilings, fields)
           \/ OpenAnalysisOverlay \/ CloseAnalysisOverlay
           \/ Restored \/ (\E direction \in {"undo", "redo"} : SupersededEnds(direction))
           \/ UNCHANGED vars
  <2>1. UNCHANGED <<film, importing, forks, overlaid, late>>
    BY <1>3 DEF ChangeWall, OpenAnalysisOverlay, CloseAnalysisOverlay, Restored, SupersededEnds,
       vars, wall, live, ghosts
  <2>2. QED
    BY <2>1 DEF ForkInv
<1>4. ASSUME NEW b \in Boards, RemoveBoard(b) PROVE ForkInv'
  <2>1. /\ forks' = forks \ {b} /\ overlaid' = overlaid \ {b} /\ UNCHANGED <<importing, late>>
        /\ film # Nothing /\ film' = [film EXCEPT !.boards = @ \ {b}]
    BY <1>4 DEF RemoveBoard, Manageable
  <2>2. film'.boards = film.boards \ {b}
    BY <1>0, <2>1 DEF Showing, Walls
  <2>3. /\ Cardinality(forks') \in 0..Cardinality(forks) /\ Cardinality(forks) \in Nat
        /\ MaxForks \in Nat
    BY <1>0, <2>1, ForkCount
  <2>4. QED
    BY <2>1, <2>2, <2>3 DEF ForkInv
<1>5. ASSUME forks' = {}, overlaid' = {}, UNCHANGED <<importing, late>> PROVE ForkInv'
  BY <1>0, <1>5, ForkCount DEF ForkInv
<1>6. CASE \/ (\E tilings \in Fitting, fields \in Setups : ApplyRunConfig(tilings, fields))
           \/ UndoWallHistory \/ RedoWallHistory
  <2>1. forks' = {} /\ overlaid' = {} /\ UNCHANGED <<importing, late>>
    BY <1>6 DEF ApplyRunConfig, UndoWallHistory, RedoWallHistory, Restore
  <2>2. QED
    BY <1>5, <2>1
<1>7. ASSUME NEW b \in Boards, ForkBoardLive(b) PROVE ForkInv'
  <2>1. /\ UNCHANGED <<film, forks, overlaid>> /\ importing' = importing \cup {b}
        /\ Cardinality(forks) < MaxForks
        /\ ~late' => ~late /\ importing = {}
    BY <1>7 DEF ForkBoardLive, wall
  <2>2. QED
    BY <2>1 DEF ForkInv
<1>8. ASSUME NEW b \in Boards, ForkMounts(b) PROVE ForkInv'
  <2>1. /\ b \in importing /\ importing' = importing \ {b} /\ UNCHANGED <<film, late>>
        /\ \/ /\ film # Nothing /\ b \in film.boards
              /\ forks' = forks \cup {b} /\ overlaid' = overlaid \cup {b}
           \/ forks' = forks /\ overlaid' = overlaid
    BY <1>8 DEF ForkMounts, wall, ghosts
  <2>2. ~late => importing' = {} /\ Cardinality(forks') <= MaxForks
    <3>1. /\ Cardinality(forks') \in 0..Cardinality(forks) + 1 /\ Cardinality(forks) \in Nat
          /\ MaxForks \in Nat
      <4>1. CASE forks' = forks \cup {b}
        BY <1>0, <4>1, ForkCount
      <4>2. CASE forks' = forks
        BY <1>0, <4>2, ForkCount
      <4>3. QED
        BY <2>1, <4>1, <4>2
    <3>2. ASSUME ~late PROVE importing' = {}
      BY <2>1, <3>2 DEF ForkInv
    <3>3. ASSUME ~late PROVE Cardinality(forks) < MaxForks
      BY <2>1, <3>3 DEF ForkInv
    <3>4. QED
      BY <3>1, <3>2, <3>3
  <2>3. QED
    BY <2>1, <2>2 DEF ForkInv
<1>9. ASSUME NEW b \in Boards, DiscardFork(b) PROVE ForkInv'
  <2>1. forks' = forks \ {b} /\ overlaid' = overlaid \ {b} /\ UNCHANGED <<film, importing, late>>
    BY <1>9 DEF DiscardFork, wall, ghosts
  <2>2. /\ Cardinality(forks') \in 0..Cardinality(forks) /\ Cardinality(forks) \in Nat
        /\ MaxForks \in Nat
    BY <1>0, <2>1, ForkCount
  <2>3. QED
    BY <2>1, <2>2 DEF ForkInv
<1>10. QED
  BY <1>1, <1>2, <1>3, <1>4, <1>6, <1>7, <1>8, <1>9, Steps DEF Aside

\* A live fork is one that its board shows, and there are no more than the
\* limit, unless a run or another fork met it (compare-panel-content.ts:3142).
THEOREM TimelyForksStayShown == Spec => []TimelyForksAreShown
<1>1. Init => ForkInv
  <2>1. Init => Showing
    BY BasedInit DEF Based
  <2>2. QED
    BY <2>1, ForkCount DEF Init, ForkInv
<1>2. Based /\ ForkInv /\ [Next]_vars => ForkInv'
  BY ForkStep
<1>3. ForkInv => TimelyForksAreShown
  BY DEF ForkInv, TimelyForksAreShown
<1>4. QED
  BY <1>1, <1>2, <1>3, WallStaysBased, PTL DEF Spec

(***************************************************************************)
(* The history leads to the wall and away from it.                         *)
(***************************************************************************)

Chained(stack) == \A i \in 1..Len(stack) - 1 : stack[i].after = stack[i + 1].before
Rewound(stack) == \A i \in 1..Len(stack) - 1 : stack[i + 1].after = stack[i].before

\* The entries of h follow one another through the wall shown, f.
Links(h, f) ==
    /\ Chained(h.undo) /\ (h.undo # << >> => Newest(h.undo).after = f)
    /\ Rewound(h.redo) /\ (h.redo # << >> => Newest(h.redo).before = f)

LEMMA ChainedPush ==
  ASSUME NEW stack \in Seq(Entries), NEW entry \in Entries, Len(stack) <= HistoryLimit,
         Chained(stack), stack # << >> => Newest(stack).after = entry.before
  PROVE  /\ Chained(Pushed(stack, entry)) /\ Newest(Pushed(stack, entry)) = entry
         /\ Pushed(stack, entry) \in Seq(Entries)
<1> DEFINE n == Len(stack)
<1>1. PICK p : p = Pushed(stack, entry)
  OBVIOUS
<1>2. /\ p \in Seq(Entries) /\ p # << >> /\ Newest(p) = entry
      /\ \E k \in {0, 1} : Len(p) = n + 1 - k /\ \A i \in 1..n - k : p[i] = stack[i + k]
  BY <1>1, PushedIs
<1>3. PICK k \in {0, 1} : Len(p) = n + 1 - k /\ \A i \in 1..n - k : p[i] = stack[i + k]
  BY <1>2
<1>4. n \in Nat /\ p[n + 1 - k] = entry
  BY <1>2, <1>3 DEF Newest
<1>5. ASSUME NEW i \in 1..Len(p) - 1 PROVE p[i].after = p[i + 1].before
  <2>1. i \in 1..n - k /\ p[i] = stack[i + k] /\ i + k \in 1..n
    BY <1>3, <1>4, <1>5
  <2>2. CASE i + k = n
    <3>1. stack[n].after = entry.before
      BY <1>4, <2>1, <2>2 DEF Newest
    <3>2. p[i + 1] = entry
      <4>1. i + 1 = n + 1 - k
        BY <1>4, <2>1, <2>2
      <4>2. QED
        BY <1>4, <4>1
    <3>3. QED
      BY <2>1, <2>2, <3>1, <3>2
  <2>3. CASE i + k # n
    <3>1. /\ i + k \in 1..n - 1 /\ i + 1 \in 1..n - k /\ i + 1 + k = i + k + 1
      BY <1>4, <2>1, <2>3
    <3>2. p[i + 1] = stack[i + k + 1]
      BY <1>3, <3>1
    <3>3. stack[i + k].after = stack[i + k + 1].before
      BY <3>1 DEF Chained
    <3>4. QED
      BY <2>1, <3>2, <3>3
  <2>4. QED
    BY <2>2, <2>3
<1>6. QED
  BY <1>1, <1>2, <1>5 DEF Chained

LEMMA LinksRecord ==
  ASSUME Recorded, NEW before \in WallSnapshots, NEW after \in WallSnapshots,
         Links(history, before), Record(before, after)
  PROVE  Links(history', after)
<1>1. history.undo \in Seq(Entries) /\ Len(history.undo) <= HistoryLimit
  BY DEF Recorded, Histories
<1>2. PICK entry : entry = [before |-> before, after |-> after]
  OBVIOUS
<1>3. entry \in Entries /\ entry.before = before /\ entry.after = after
  BY <1>2 DEF Entries
<1>4. PICK p : p = Pushed(history.undo, entry)
  OBVIOUS
<1>5. Chained(p) /\ Newest(p) = entry
  BY <1>1, <1>3, <1>4, ChainedPush DEF Links
<1>6. history' = [undo |-> p, redo |-> << >>]
  BY <1>2, <1>4 DEF Record
<1>7. history'.undo = p /\ history'.redo = << >>
  BY <1>6
<1>8. Rewound(history'.redo)
  BY <1>7 DEF Rewound
<1>9. QED
  BY <1>3, <1>5, <1>7, <1>8 DEF Links

LEMMA LinksUndone ==
  ASSUME Recorded, NEW f, Links(history, f), history.undo # << >>
  PROVE  Links(Undone, Newest(history.undo).before)
<1> DEFINE n == Len(history.undo)
           m == Len(history.redo)
<1>1. history.undo \in Seq(Entries) /\ history.redo \in Seq(Entries)
  BY DEF Recorded, Histories
<1>2. PICK e : e = Newest(history.undo)
  OBVIOUS
<1>3. /\ n \in Nat \ {0} /\ m \in Nat /\ e \in Entries /\ e = history.undo[n]
      /\ e.after = f
  BY <1>1, <1>2, NewestIs DEF Newest, Links
<1>4. PICK u : u = Popped(history.undo)
  OBVIOUS
<1>5. /\ u \in Seq(Entries) /\ Len(u) = n - 1
      /\ \A i \in 1..n - 1 : u[i] = history.undo[i]
  BY <1>1, <1>4, PoppedIs
<1>6. \A i \in 1..n - 1 : history.undo[i].after = history.undo[i + 1].before
  BY DEF Links, Chained
<1>7. Chained(u)
  <2>1. ASSUME NEW i \in 1..Len(u) - 1 PROVE u[i].after = u[i + 1].before
    <3>1. i \in 1..n - 1 /\ i + 1 \in 1..n - 1
      BY <1>3, <1>5
    <3>2. QED
      BY <1>5, <1>6, <3>1
  <2>2. QED
    BY <2>1 DEF Chained
<1>8. ASSUME u # << >> PROVE Newest(u).after = e.before
  <2>1. n - 1 \in 1..n - 1 /\ n - 1 + 1 = n
    BY <1>3, <1>5, <1>8
  <2>2. Newest(u) = history.undo[n - 1]
    BY <1>5, <2>1 DEF Newest
  <2>3. QED
    BY <1>3, <1>6, <2>1, <2>2
<1>9. PICK r : r = Append(history.redo, e)
  OBVIOUS
<1>10. /\ r \in Seq(Entries) /\ Len(r) = m + 1 /\ r[m + 1] = e
       /\ \A i \in 1..m : r[i] = history.redo[i]
  BY <1>1, <1>3, <1>9
<1>11. Rewound(r)
  <2>1. ASSUME NEW i \in 1..Len(r) - 1 PROVE r[i + 1].after = r[i].before
    <3>1. i \in 1..m /\ r[i] = history.redo[i]
      BY <1>3, <1>10
    <3>2. CASE i = m
      <4>1. history.redo # << >> /\ Newest(history.redo).before = f
        BY <3>1, <3>2 DEF Links
      <4>2. QED
        BY <1>3, <1>10, <3>1, <3>2, <4>1 DEF Newest
    <3>3. CASE i # m
      <4>1. i \in 1..m - 1 /\ i + 1 \in 1..m
        BY <1>3, <3>1, <3>3
      <4>2. history.redo[i + 1].after = history.redo[i].before
        BY <4>1 DEF Links, Rewound
      <4>3. QED
        BY <1>10, <3>1, <4>1, <4>2
    <3>4. QED
      BY <3>2, <3>3
  <2>2. QED
    BY <2>1 DEF Rewound
<1>12. Newest(r) = e
  BY <1>10 DEF Newest
<1>13. Undone = [undo |-> u, redo |-> r]
  BY <1>2, <1>4, <1>9 DEF Undone
<1>14. Undone.undo = u /\ Undone.redo = r
  BY <1>13
<1>15. QED
  BY <1>2, <1>7, <1>8, <1>11, <1>12, <1>14 DEF Links

LEMMA LinksRedone ==
  ASSUME Recorded, NEW f, Links(history, f), history.redo # << >>
  PROVE  Links(Redone, Newest(history.redo).after)
<1> DEFINE m == Len(history.redo)
<1>1. /\ history.undo \in Seq(Entries) /\ history.redo \in Seq(Entries)
      /\ Len(history.undo) <= HistoryLimit
  BY DEF Recorded, Histories
<1>2. PICK e : e = Newest(history.redo)
  OBVIOUS
<1>3. /\ m \in Nat \ {0} /\ e \in Entries /\ e = history.redo[m] /\ e.before = f
  BY <1>1, <1>2, NewestIs DEF Newest, Links
<1>4. PICK r : r = Popped(history.redo)
  OBVIOUS
<1>5. /\ r \in Seq(Entries) /\ Len(r) = m - 1
      /\ \A i \in 1..m - 1 : r[i] = history.redo[i]
  BY <1>1, <1>4, PoppedIs
<1>6. \A i \in 1..m - 1 : history.redo[i + 1].after = history.redo[i].before
  BY DEF Links, Rewound
<1>7. Rewound(r)
  <2>1. ASSUME NEW i \in 1..Len(r) - 1 PROVE r[i + 1].after = r[i].before
    <3>1. i \in 1..m - 1 /\ i + 1 \in 1..m - 1
      BY <1>3, <1>5
    <3>2. QED
      BY <1>5, <1>6, <3>1
  <2>2. QED
    BY <2>1 DEF Rewound
<1>8. ASSUME r # << >> PROVE Newest(r).before = e.after
  <2>1. m - 1 \in 1..m - 1 /\ m - 1 + 1 = m
    BY <1>3, <1>5, <1>8
  <2>2. Newest(r) = history.redo[m - 1]
    BY <1>5, <2>1 DEF Newest
  <2>3. QED
    BY <1>3, <1>6, <2>1, <2>2
<1>9. PICK u : u = Pushed(history.undo, e)
  OBVIOUS
<1>10. Chained(u) /\ Newest(u) = e
  BY <1>1, <1>3, <1>9, ChainedPush DEF Links
<1>11. Redone = [undo |-> u, redo |-> r]
  BY <1>2, <1>4, <1>9 DEF Redone
<1>12. Redone.undo = u /\ Redone.redo = r
  BY <1>11
<1>13. QED
  BY <1>2, <1>7, <1>8, <1>10, <1>12 DEF Links

LEMMA LinksEmpty ==
  ASSUME NEW f
  PROVE  Links(Empty, f)
<1>1. Empty.undo = << >> /\ Empty.redo = << >>
  BY EmptyIs
<1>2. QED
  BY <1>1 DEF Links, Chained, Rewound

\* The change under way that enters the history once its boards have loaded.
OfNow(config) == config.intent # Nothing /\ config.intent.epoch = epoch
Entering == /\ run # Nothing /\ run.phase = "loading" /\ run.owned
            /\ OfNow(sched.active.config)

\* A change that waits or is asked for starts from the wall shown.
Starts(config) ==
    trusted /\ history # Empty /\ OfNow(config) => config.intent.before = CaptureWallSnapshot

HistInv ==
    /\ trusted => IF Entering
                  THEN \/ Links(history, sched.active.config.intent.before)
                       \/ sched.active.aborted /\ Links(history, CaptureWallSnapshot)
                  ELSE Links(history, CaptureWallSnapshot)
    /\ sched.pending # Nothing => Starts(sched.pending)
    /\ Answerable => Starts(sched.active.config)

\* The history and what it is held against stay as they are.
Steady == UNCHANGED <<film, key, history, epoch>> /\ (trusted' => trusted)

LEMMA SteadyIs ==
  ASSUME Steady
  PROVE  /\ CaptureWallSnapshot' = CaptureWallSnapshot
         /\ \A config : Starts(config) => Starts(config)'
         /\ \A config : OfNow(config)' <=> OfNow(config)
         /\ trusted' => trusted
         /\ \A f : Links(history, f) => Links(history', f)
  BY DEF Steady, CaptureWallSnapshot, Starts, OfNow

LEMMA StartsNever ==
  ASSUME NEW config, config.intent = Nothing
  PROVE  Starts(config) /\ Starts(config)'
  BY DEF Starts, OfNow

LEMMA HistEmpty ==
  ASSUME trusted' => history' = Empty
  PROVE  HistInv'
<1>1. trusted' => \A f : Links(history', f)
  BY LinksEmpty
<1>2. QED
  BY <1>1 DEF HistInv, Starts

LEMMA HistBegun ==
  ASSUME NEW config, NEW busy, Begun(config, busy), Starts(config)',
         trusted' => Links(history', CaptureWallSnapshot')
  PROVE  HistInv'
<1>1. ~Entering'
  BY DEF Begun, Entering
<1>2. sched'.pending = Nothing /\ sched'.active.config = config
  BY DEF Begun
<1>3. QED
  BY <1>1, <1>2 DEF HistInv

LEMMA HistEnded ==
  ASSUME NEW s, Ended(s), s.pending # Nothing => Starts(s.pending)',
         trusted' => Links(history', CaptureWallSnapshot')
  PROVE  HistInv'
<1>1. CASE s.pending # Nothing /\ Begun(s.pending, executing /\ ~run.owned)
  <2>1. PICK busy : busy = (executing /\ ~run.owned)
    OBVIOUS
  <2>2. Begun(s.pending, busy)
    BY <1>1, <2>1
  <2>3. QED
    BY <1>1, <2>2, HistBegun
<1>2. CASE sched'.pending = s.pending /\ run' = Nothing
  BY <1>2 DEF HistInv, Entering, Answerable
<1>3. QED
  BY <1>1, <1>2 DEF Ended

\* The run goes on, or waits for its end, while something else is queued.
LEMMA HistWaits ==
  ASSUME HistInv, Steady,
         run # Nothing => /\ sched'.active.config = sched.active.config
                          /\ sched.active.aborted => sched'.active.aborted,
         run' = run \/ (~Entering /\ run' # Nothing /\ ~run'.owned),
         \A config : config # Nothing /\ sched'.pending = config => Starts(config)'
  PROVE  HistInv'
<1>1. /\ CaptureWallSnapshot' = CaptureWallSnapshot /\ (trusted' => trusted)
      /\ \A f : Links(history, f) => Links(history', f)
      /\ \A config : OfNow(config)' <=> OfNow(config)
      /\ \A config : Starts(config) => Starts(config)'
  BY SteadyIs
<1>2. PICK c, d : c = sched.active.config /\ d = sched'.pending
  OBVIOUS
<1>3. run # Nothing => sched'.active.config = c
  BY <1>2
<1>4. Entering' <=> Entering
  BY <1>1, <1>2, <1>3 DEF Entering
<1>5. Answerable' => Answerable /\ sched'.active.config = c
  BY <1>2, <1>3 DEF Answerable, Goes
<1>6. trusted' => IF Entering'
                  THEN \/ Links(history', sched'.active.config.intent.before)
                       \/ sched'.active.aborted /\ Links(history', CaptureWallSnapshot')
                  ELSE Links(history', CaptureWallSnapshot')
  <2>1. CASE Entering
    <3>1. /\ sched'.active.config = c
          /\ sched.active.aborted => sched'.active.aborted
      BY <1>3, <2>1 DEF Entering
    <3>2. trusted => \/ Links(history, c.intent.before)
                     \/ sched.active.aborted /\ Links(history, CaptureWallSnapshot)
      BY <1>2, <2>1 DEF HistInv
    <3>3. QED
      BY <1>1, <1>4, <2>1, <3>1, <3>2
  <2>2. CASE ~Entering
    BY <1>1, <1>4, <2>2 DEF HistInv
  <2>3. QED
    BY <2>1, <2>2
<1>7. d # Nothing => Starts(d)'
  BY <1>2
<1>8. Answerable' => Starts(c)' /\ sched'.active.config = c
  BY <1>1, <1>2, <1>5 DEF HistInv
<1>9. QED
  BY <1>2, <1>6, <1>7, <1>8 DEF HistInv, Starts, OfNow

LEMMA HistAtOnce ==
  ASSUME Based, HistInv, Steady, NEW config \in Runs, NEW busy, AtOnce(config, busy),
         Starts(config)'
  PROVE  HistInv'
<1>1. CASE run # Nothing /\ GoesOn(busy) /\ sched'.pending = config /\ sched'.active.aborted
  <2>1. run' = run /\ sched'.active.config = sched.active.config
    BY <1>1 DEF GoesOn, SameRun, Based, Working
  <2>2. QED
    BY <1>1, <2>1, HistWaits
<1>2. CASE run = Nothing /\ Begun(config, busy)
  <2>1. ~Entering
    BY <1>2 DEF Entering
  <2>2. trusted' => Links(history', CaptureWallSnapshot')
    BY <2>1, SteadyIs DEF HistInv
  <2>3. QED
    BY <1>2, <2>2, HistBegun
<1>3. QED
  BY <1>1, <1>2 DEF AtOnce

LEMMA HistStopped ==
  ASSUME Based, HistInv, Steady, NEW busy, Stopped, GoesOn(busy)
  PROVE  HistInv'
<1>1. /\ run' = run /\ sched'.pending = Nothing
      /\ run # Nothing => sched'.active.config = sched.active.config /\ sched'.active.aborted
  BY DEF Stopped, GoesOn, SameRun, Based, Working
<1>2. QED
  BY <1>1, HistWaits

LEMMA HistLater ==
  ASSUME Based, HistInv, Steady, NEW config \in Runs, NEW valid, Later(config, valid),
         run' = run, config.intent = Nothing
  PROVE  HistInv'
<1>1. /\ sched'.pending = Nothing \/ sched'.pending = config
      /\ run # Nothing => /\ sched'.active.config = sched.active.config
                          /\ sched.active.aborted => sched'.active.aborted
  BY DEF Later, SameRun, Based, Working
<1>2. QED
  BY <1>1, HistWaits, StartsNever

LEMMA HistRuns ==
  ASSUME Based, HistInv, TimerExpires \/ FilmstripArrives \/ FilmstripLoaded \/ RunEnds \/ RunFails
  PROVE  HistInv'
<1>0. /\ InOrder(sched) /\ (run # Nothing <=> sched.active # Nothing) /\ Showing /\ Recorded
      /\ sched.pending # Nothing => (sched.pending.intent # Nothing => sched.ready)
  BY DEF Based, Working, Waiting
<1>1. CASE TimerExpires
  <2>1. Steady
    BY <1>1 DEF TimerExpires, Steady, wall, wallHistory, ghosts
  <2>2. PICK c : c = sched.pending
    OBVIOUS
  <2>3. c # Nothing /\ Starts(c) /\ Starts(c)'
    BY <1>1, <2>1, <2>2, TimerStep, SteadyIs DEF Based, HistInv
  <2>4. CASE run # Nothing
    <3>1. /\ run' = run /\ sched'.pending = c /\ sched'.active.aborted
          /\ sched'.active.config = sched.active.config
      BY <1>0, <1>1, <2>2, <2>4, TimerStep DEF GoesOn, SameRun, Based
    <3>2. QED
      BY <2>1, <2>3, <3>1, HistWaits
  <2>5. CASE run = Nothing
    <3>1. \E busy : Begun(c, busy)
      BY <1>1, <2>2, <2>5, TimerStep DEF Based
    <3>2. ~Entering
      BY <2>5 DEF Entering
    <3>3. trusted' => Links(history', CaptureWallSnapshot')
      BY <2>1, <3>2, SteadyIs DEF HistInv
    <3>4. QED
      BY <2>3, <3>1, <3>3, HistBegun
  <2>6. QED
    BY <2>4, <2>5
<1>2. CASE FilmstripArrives
  <2>1. PICK c, next : c = sched.active.config /\ next = [boards |-> c.boards, setup |-> c.setup]
    OBVIOUS
  <2>2. /\ sched' = sched /\ UNCHANGED <<history, epoch>> /\ film' = next /\ key' = next
        /\ run'.phase = "loading" /\ run'.owned /\ run' # Nothing /\ Answerable /\ ~Entering
        /\ ~sched.active.aborted
        /\ CaptureWallSnapshot' = [film |-> next, key |-> next]
        /\ trusted' => \/ history = Empty
                       \/ /\ trusted
                          /\ \/ OfNow(c)
                             \/ CaptureWallSnapshot = [film |-> next, key |-> next]
    BY <1>2, <2>1, ArrivesStep DEF FilmstripArrives, wallHistory, Answerable, Entering, Goes,
       CaptureWallSnapshot, OfNow
  <2>3. ~Answerable'
    BY <2>2 DEF Answerable
  <2>4. Entering' <=> OfNow(c)
    BY <2>1, <2>2 DEF Entering, OfNow
  <2>5. trusted => Links(history, CaptureWallSnapshot)
    BY <2>2 DEF HistInv
  <2>6. Starts(c)
    BY <2>1, <2>2 DEF HistInv
  <2>7. \A f : history = Empty => Links(history', f)
    BY <2>2, LinksEmpty
  <2>8. ASSUME trusted', history # Empty, OfNow(c) PROVE Links(history', c.intent.before)
    BY <2>2, <2>5, <2>6, <2>8 DEF Starts
  <2>9. ASSUME trusted', history # Empty, ~OfNow(c) PROVE Links(history', CaptureWallSnapshot')
    BY <2>2, <2>5, <2>9
  <2>10. PICK d : d = sched.pending
    OBVIOUS
  <2>11. d # Nothing => d.intent = Nothing
    BY <1>0, <2>2, <2>10 DEF InOrder
  <2>12. d # Nothing => Starts(d)'
    BY <2>11, StartsNever
  <2>13. sched'.active.config = c /\ sched'.pending = d
    BY <2>1, <2>2, <2>10
  <2>14. trusted' => IF Entering' THEN Links(history', c.intent.before)
                                  ELSE Links(history', CaptureWallSnapshot')
    BY <2>4, <2>7, <2>8, <2>9
  <2>15. QED
    BY <2>3, <2>12, <2>13, <2>14 DEF HistInv, Starts, OfNow
<1>3. CASE FilmstripLoaded
  <2>1. PICK c : c = sched.active.config
    OBVIOUS
  <2>2. /\ run # Nothing /\ run.phase = "loading" /\ Goes
        /\ UNCHANGED <<film, key, epoch, trusted>> /\ film # Nothing
        /\ IF OfNow(c) THEN Record(c.intent.before, CaptureWallSnapshot)
           ELSE history' = history
    BY <1>3, <2>1 DEF FilmstripLoaded, wall, Goes, Based, Showing, OfNow
  <2>3. CaptureWallSnapshot' = CaptureWallSnapshot /\ (Entering <=> OfNow(c))
        /\ ~sched.active.aborted
    BY <2>1, <2>2 DEF CaptureWallSnapshot, Entering, Goes, OfNow
  <2>4. ASSUME trusted PROVE Links(history', CaptureWallSnapshot)
    <3>1. CASE OfNow(c)
      <4>1. Links(history, c.intent.before)
        BY <2>1, <2>3, <2>4, <3>1 DEF HistInv
      <4>2. c.intent.before \in WallSnapshots
        BY <1>0, <2>1, <2>2, <3>1 DEF OfNow, InOrder, Schedulers, ActiveRuns, Runs, Intents
      <4>3. CaptureWallSnapshot \in WallSnapshots
        BY <1>0, <2>2, ReadIs
      <4>4. QED
        BY <1>0, <2>2, <3>1, <4>1, <4>2, <4>3, LinksRecord
    <3>2. CASE ~OfNow(c)
      BY <2>2, <2>3, <2>4, <3>2 DEF HistInv
    <3>3. QED
      BY <3>1, <3>2
  <2>5. PICK s : s = AfterLoad
    OBVIOUS
  <2>6. Ended(s)
    BY <1>3, <2>5, LoadedStep
  <2>7. s.pending # Nothing => s.pending.intent = Nothing
    <3>1. CASE overlay /\ selected # {}
      <4>1. s.pending = IF Valid THEN AnalysisRun(CurrentConfig) ELSE Nothing
        BY <2>2, <2>5, <3>1, AfterLoadIs DEF Based
      <4>2. QED
        BY <1>0, <4>1, ReadIs, RunIs
    <3>2. CASE ~(overlay /\ selected # {})
      <4>1. s = sched
        BY <2>2, <2>5, <3>2, AfterLoadIs DEF Based
      <4>2. QED
        BY <1>0, <2>3, <4>1 DEF InOrder
    <3>3. QED
      BY <3>1, <3>2
  <2>8. trusted' => Links(history', CaptureWallSnapshot')
    BY <2>2, <2>3, <2>4
  <2>9. QED
    BY <2>6, <2>7, <2>8, StartsNever, HistEnded
<1>4. CASE RunEnds \/ RunFails
  <2>1. Steady
    <3>1. UNCHANGED <<film, key, history, epoch>>
      BY <1>4 DEF RunEnds, RunFails, wall, wallHistory
    <3>2. CASE RunEnds
      <4>1. trusted' => trusted
        BY <3>2, Zenon DEF RunEnds
      <4>2. QED
        BY <3>1, <4>1 DEF Steady
    <3>3. CASE RunFails
      BY <3>1, <3>3 DEF RunFails, Steady
    <3>4. QED
      BY <1>4, <3>2, <3>3
  <2>2. trusted' /\ Entering => history = Empty
    BY <1>4 DEF RunEnds, RunFails, Entering
  <2>3. trusted' => Links(history', CaptureWallSnapshot')
    <3>1. CASE Entering
      BY <2>1, <2>2, <3>1, LinksEmpty DEF Steady
    <3>2. CASE ~Entering
      BY <2>1, <3>2, SteadyIs DEF HistInv
    <3>3. QED
      BY <3>1, <3>2
  <2>4. PICK s, c : s = sched /\ c = sched.pending
    OBVIOUS
  <2>5. Ended(s) /\ s.pending = c
    BY <1>4, <2>4, EndsStep
  <2>6. c # Nothing => Starts(c)'
    BY <2>1, <2>4, SteadyIs DEF HistInv
  <2>7. s.pending # Nothing => Starts(s.pending)'
    BY <2>5, <2>6 DEF Starts, OfNow
  <2>8. QED
    BY <2>3, <2>5, <2>7, HistEnded
<1>5. QED
  BY <1>1, <1>2, <1>3, <1>4

LEMMA HistStep ==
  ASSUME Based, HistInv, [Next]_vars
  PROVE  HistInv'
<1>0. /\ InOrder(sched) /\ (run # Nothing <=> sched.active # Nothing) /\ Showing /\ Recorded
      /\ Working
  BY DEF Based, Working
<1>1. CASE TimerExpires \/ FilmstripArrives \/ FilmstripLoaded \/ RunEnds \/ RunFails
  BY <1>1, HistRuns
<1>2. CASE \/ \E tilings \in Fitting, fields \in Setups \cup BadSetups : ChangeWall(tilings, fields)
           \/ \E tilings \in Fitting, fields \in Setups : ApplyRunConfig(tilings, fields)
           \/ \E b \in Boards, fields \in Setups : RunWallFromFork(b, fields)
  <2>1. history' = Empty
    BY <1>2 DEF ChangeWall, ApplyRunConfig, RunWallFromFork, ClearWallHistory
  <2>2. QED
    BY <2>1, HistEmpty
<1>3. ASSUME NEW tilings \in Fitting, Rearrange(tilings) PROVE HistInv'
  <2>1. Steady /\ film # Nothing
    BY <1>3, RearrangeStep DEF Rearrange, Steady, wallHistory
  <2>2. PICK c : c = Rearranged(tilings)
    OBVIOUS
  <2>3. c \in Runs /\ Starts(c)
    BY <2>1, <2>2, RearrangedIs DEF Starts
  <2>4. Starts(c)'
    BY <2>1, <2>3, SteadyIs
  <2>5. CASE Valid
    <3>1. AtOnce(c, executing)
      BY <1>3, <2>2, <2>5, RearrangeStep
    <3>2. QED
      BY <2>1, <2>3, <2>4, <3>1, HistAtOnce
  <2>6. CASE ~Valid
    BY <1>3, <2>1, <2>6, RearrangeStep, HistStopped
  <2>7. QED
    BY <2>5, <2>6
<1>4. ASSUME NEW b \in Boards, RemoveBoard(b) PROVE HistInv'
  <2>1. /\ run' = run /\ film # Nothing
        /\ film' = [film EXCEPT !.boards = @ \ {b}] /\ key' = Survivors(b)
        /\ IF QueuedKind = "filmstrip" THEN history' = history
           ELSE Record(CaptureWallSnapshot,
                       [film |-> [film EXCEPT !.boards = @ \ {b}], key |-> Survivors(b)])
        /\ trusted' => /\ trusted
                       /\ QueuedKind = "filmstrip" \/ (run # Nothing /\ run.phase = "loading")
                              => history = Empty
    BY <1>4 DEF RemoveBoard, Survivors, QueuedKind, Manageable
  <2>2. CASE QueuedKind = "filmstrip"
    BY <2>1, <2>2, HistEmpty
  <2>3. CASE QueuedKind # "filmstrip"
    <3>1. /\ sched' = sched /\ sched.pending = Nothing
          /\ run # Nothing => sched.active.aborted
      BY <1>4, <2>3, RemoveStep
    <3>2. PICK after : after = [film |-> [film EXCEPT !.boards = @ \ {b}], key |-> Survivors(b)]
      OBVIOUS
    <3>3. CaptureWallSnapshot' = after
      BY <2>1, <3>2 DEF CaptureWallSnapshot
    <3>4. after \in WallSnapshots
      <4>1. film' \in Walls
        <5>1. Showing' /\ key' \in Walls
          BY <1>0, <1>4, <2>1, ShowingStep, SurvivorsIs
        <5>2. QED
          BY <5>1, WallAssumption DEF Showing
      <4>2. QED
        BY <1>0, <2>1, <3>2, <4>1, SurvivorsIs DEF WallSnapshots
    <3>5. CaptureWallSnapshot \in WallSnapshots
      BY <1>0, <2>1, ReadIs
    <3>6. trusted' => Links(history, CaptureWallSnapshot)
      <4>1. CASE Entering
        BY <2>1, <4>1, LinksEmpty DEF Entering
      <4>2. CASE ~Entering
        BY <2>1, <4>2 DEF HistInv
      <4>3. QED
        BY <4>1, <4>2
    <3>7. trusted' => Links(history', after)
      BY <1>0, <2>1, <2>3, <3>2, <3>4, <3>5, <3>6, LinksRecord
    <3>8. sched'.pending = Nothing
      BY <3>1
    <3>9. Entering' => sched'.active.aborted
      BY <2>1, <3>1 DEF Entering
    <3>10. ~Answerable'
      BY <2>1, <3>1 DEF Answerable, Goes
    <3>11. QED
      BY <3>3, <3>7, <3>8, <3>9, <3>10 DEF HistInv
  <2>4. QED
    BY <2>2, <2>3
<1>5. ASSUME NEW c \in Runs, c.intent = Nothing, Steady, AtOnce(c, executing) PROVE HistInv'
  BY <1>5, HistAtOnce, StartsNever
<1>6. CASE RunWall \/ RunAnalysis
  <2>1. Steady
    <3>1. UNCHANGED <<film, key, history, epoch, trusted>>
      BY <1>6 DEF RunWall, RunAnalysis, wall, wallHistory
    <3>2. QED
      BY <3>1 DEF Steady
  <2>2. /\ FilmstripRun(CurrentConfig, Nothing) \in Runs /\ AnalysisRun(CurrentConfig) \in Runs
        /\ FilmstripRun(CurrentConfig, Nothing).intent = Nothing
        /\ AnalysisRun(CurrentConfig).intent = Nothing
    BY <1>0, ReadIs, RunIs
  <2>3. QED
    BY <1>5, <1>6, <2>1, <2>2, RunWallStep, RunAnalysisStep
<1>7. CASE Retry
  <2>1. Steady
    BY <1>7 DEF Retry, Steady, wall, wallHistory
  <2>2. PICK c : c = Retried(sched)
    OBVIOUS
  <2>3. /\ c \in Runs /\ UNCHANGED <<film, key, epoch>>
        /\ trusted' => StartsHere(c.intent)
    BY <1>7, <2>1, <2>2, RetryStep DEF Retry, Steady
  <2>4. Starts(c)'
    BY <2>3 DEF StartsHere, Starts, OfNow, CaptureWallSnapshot
  <2>5. CASE Valid
    <3>1. AtOnce(c, executing)
      BY <1>7, <2>2, <2>5, RetryStep
    <3>2. QED
      BY <2>1, <2>3, <2>4, <3>1, HistAtOnce
  <2>6. CASE ~Valid
    BY <1>7, <2>1, <2>6, RetryStep, HistStopped
  <2>7. QED
    BY <2>5, <2>6
<1>8. CASE OpenAnalysisOverlay
  <2>1. Steady
    BY <1>8 DEF OpenAnalysisOverlay, Steady, wall, wallHistory
  <2>2. /\ Opened \in Runs /\ Later(Opened, Valid) /\ run' = run /\ Opened.intent = Nothing
    BY <1>0, <1>8, OpenStep, ReadIs, RunIs DEF Opened
  <2>3. QED
    BY <2>1, <2>2, HistLater
<1>9. CASE CloseAnalysisOverlay
  <2>1. Steady
    BY <1>9 DEF CloseAnalysisOverlay, Steady, wall, wallHistory, ghosts
  <2>2. run # Nothing => /\ sched'.active.config = sched.active.config
                         /\ sched.active.config.kind \in {"filmstrip", "analysis"}
    BY <1>0, <1>9, CloseStep DEF SameRun, InOrder, Schedulers, ActiveRuns, Runs
  <2>3. run # Nothing /\ sched.active.config.kind = "analysis" =>
            /\ sched'.active.aborted /\ ~run'.owned /\ run' # Nothing /\ ~Entering
    BY <1>0, <1>9, <2>2, CloseStep DEF Working, InOrder, Entering, SameRun
  <2>4. run # Nothing /\ sched.active.config.kind # "analysis" =>
            run' = run /\ sched'.active.aborted = sched.active.aborted
    BY <1>9, CloseStep
  <2>5. run = Nothing => run' = run
    BY <1>9, CloseStep
  <2>6. ASSUME NEW d, d # Nothing, sched'.pending = d PROVE Starts(d)'
    <3>1. d = sched.pending
      BY <1>9, <2>6, CloseStep
    <3>2. Starts(d)
      BY <2>6, <3>1 DEF HistInv
    <3>3. QED
      BY <2>1, <3>2, SteadyIs
  <2>7. run' = run \/ (~Entering /\ run' # Nothing /\ ~run'.owned)
    BY <2>3, <2>4, <2>5
  <2>8. QED
    BY <2>1, <2>2, <2>3, <2>4, <2>6, <2>7, HistWaits
<1>10. ASSUME NEW direction, NEW snapshot \in WallSnapshots, Restore(direction, snapshot),
              trusted => Links(history', snapshot)
       PROVE  HistInv'
  <2>1. film' = snapshot.film /\ key' = snapshot.key /\ trusted' = trusted
    BY <1>10 DEF Restore
  <2>2. CaptureWallSnapshot' = snapshot
    BY <2>1 DEF CaptureWallSnapshot, WallSnapshots
  <2>3. /\ sched'.pending = Nothing
        /\ run' # Nothing => ~run'.owned
    <3>1. run' = IF run = Nothing THEN run ELSE [run EXCEPT !.owned = FALSE]
      BY <1>10 DEF Restore, Invalidated
    <3>2. QED
      BY <1>10, <3>1, RestoreStep
  <2>4. ~Entering' /\ ~Answerable'
    BY <2>3 DEF Entering, Answerable, Goes
  <2>5. QED
    BY <1>10, <2>1, <2>2, <2>3, <2>4 DEF HistInv
<1>11. trusted => \E f : Links(history, f)
  BY DEF HistInv
<1>12. CASE UndoWallHistory
  <2>1. /\ history.undo # << >> /\ history' = Undone
        /\ Restore("undo", Newest(history.undo).before)
    BY <1>12 DEF UndoWallHistory
  <2>2. trusted => Links(history', Newest(history.undo).before)
    BY <1>0, <1>11, <2>1, LinksUndone
  <2>3. Newest(history.undo).before \in WallSnapshots
    BY <1>0, <2>1, NewestOf DEF Recorded
  <2>4. PICK snapshot : snapshot = Newest(history.undo).before
    OBVIOUS
  <2>5. QED
    BY <1>10, <2>1, <2>2, <2>3, <2>4
<1>13. CASE RedoWallHistory
  <2>1. /\ history.redo # << >> /\ history' = Redone
        /\ Restore("redo", Newest(history.redo).after)
    BY <1>13 DEF RedoWallHistory
  <2>2. trusted => Links(history', Newest(history.redo).after)
    BY <1>0, <1>11, <2>1, LinksRedone
  <2>3. Newest(history.redo).after \in WallSnapshots
    BY <1>0, <2>1, NewestOf DEF Recorded
  <2>4. PICK snapshot : snapshot = Newest(history.redo).after
    OBVIOUS
  <2>5. QED
    BY <1>10, <2>1, <2>2, <2>3, <2>4
<1>14. CASE Aside
  <2>1. CASE ~trusted'
    BY <2>1, HistEmpty
  <2>2. CASE trusted'
    <3>1. Steady /\ UNCHANGED <<sched, run>>
      BY <1>14, <2>2 DEF Aside, Restored, SupersededEnds, ForkBoardLive, ForkMounts, DiscardFork,
         vars, working, wall, wallHistory, ghosts, Steady
    <3>2. ASSUME NEW d, d # Nothing, sched'.pending = d PROVE Starts(d)'
      <4>1. Starts(d)
        BY <3>1, <3>2 DEF HistInv
      <4>2. QED
        BY <3>1, <4>1, SteadyIs
    <3>3. QED
      BY <3>1, <3>2, HistWaits
  <2>3. QED
    BY <2>1, <2>2
<1>15. QED
  BY <1>1, <1>2, <1>3, <1>4, <1>6, <1>7, <1>8, <1>9, <1>12, <1>13, <1>14, Steps

\* Undo and redo start from the wall that is shown, as long as the stacks were
\* told of every result (wallHistory of compare-panel-content.ts).
THEOREM HistoryDescribesTheWall == Spec => []HistoryDescribesWall
<1>1. Init => HistInv
  <2>1. SUFFICES ASSUME Init PROVE HistInv
    OBVIOUS
  <2>2. history = Empty /\ run = Nothing /\ sched = FreshScheduler
    BY <2>1 DEF Init
  <2>3. sched.pending = Nothing
    BY <2>2 DEF FreshScheduler
  <2>4. QED
    BY <2>2, <2>3, LinksEmpty DEF HistInv, Entering, Answerable
<1>2. Based /\ HistInv /\ [Next]_vars => HistInv'
  BY HistStep
<1>3. HistInv => HistoryDescribesWall
  BY DEF HistInv, Entering, Links, HistoryDescribesWall
<1>4. QED
  BY <1>1, <1>2, <1>3, WallStaysBased, PTL DEF Spec

==============================================================================
