----------------------- MODULE SessionPersistence_proof -----------------------
(***************************************************************************)
(* Theorems about SessionPersistence, for any number of request threads    *)
(* and any bounds.                                                         *)
(***************************************************************************)
EXTENDS SessionPersistence, TLAPS

(***************************************************************************)
(* The inductive invariant.  DurableAck is not inductive: what a caller is *)
(* told rests on the snapshot its thread took under the persist lock, and  *)
(* that snapshot on nobody else holding that lock.                         *)
(***************************************************************************)

\* A token that was not given out has no timer yet.
FreshTimers == \A k \in Timers : k > token => pc[k] = "none"

\* A thread is in the save if and only if it holds the persist lock.
LockHeld == \A p \in Procs : pc[p] \in HoldingPC <=> persistLock = p

\* The file holds a complete snapshot of some state up to the current one.
DiskBehind == disk \in Nat /\ disk <= version

\* The snapshot of the thread that is saving is between the file and memory.
SnapBetween ==
  \A p \in Procs : pc[p] \in {"open", "dump", "replace"} =>
                     disk <= snap[p] /\ snap[p] <= version

\* The temporary file is complete when it is about to become the state file.
TempComplete == \A p \in Procs : pc[p] = "replace" => temp = snap[p]

\* What a request thread owes its caller is in memory, then in its snapshot,
\* then on file.
OwedCovered ==
  \A c \in Clients :
    /\ owed[c] <= version
    /\ pc[c] \in {"open", "dump", "replace"} => owed[c] <= snap[c]
    /\ pc[c] = "return" => owed[c] <= disk

AckedOnFile == acked <= disk

IInv ==
  /\ TypeOK /\ FreshTimers /\ LockHeld /\ DiskBehind /\ SnapBetween
  /\ TempComplete /\ OwedCovered /\ AckedOnFile

LEMMA ProcFacts ==
  /\ Clients \subseteq Procs /\ Timers \subseteq Procs
  /\ Timers \subseteq Nat /\ Clients \cap Timers = {}
  /\ \A p \in Procs : p \in Clients \/ p \in Timers
  /\ Torn \notin Nat /\ MaxTokens \in Nat
BY ConstantsAssumption DEF Procs, Timers

(***************************************************************************)
(* Type correctness.                                                       *)
(***************************************************************************)

LEMMA InitTypeOK == Init => TypeOK
<1> SUFFICES ASSUME Init PROVE TypeOK
  OBVIOUS
<1>1. pc \in [Procs -> ClientPC \cup TimerPC]
  BY ProcFacts DEF Init, FreshPC, ClientPC, TimerPC
<1>2. /\ \A c \in Clients : pc[c] \in ClientPC
      /\ \A k \in Timers : pc[k] \in TimerPC \cup SavingPC
  BY ProcFacts DEF Init, FreshPC, ClientPC, TimerPC
<1>3. /\ previous \in [Clients -> 0..MaxTokens] /\ own \in [Clients -> 0..MaxTokens]
      /\ token \in 0..MaxTokens /\ timer \in 0..MaxTokens
  BY ProcFacts DEF Init, NoTimer
<1>4. snap \in [Procs -> Nat] /\ owed \in [Clients -> Nat]
  BY DEF Init
<1>5. QED
  BY <1>1, <1>2, <1>3, <1>4 DEF Init, TypeOK

\* A thread that moves to a label of its own kind keeps every pc well typed.
LEMMA GotoType ==
  ASSUME TypeOK, NEW p \in Procs, NEW label, Goto(p, label),
         p \in Clients => label \in ClientPC,
         p \in Timers => label \in TimerPC \cup SavingPC
  PROVE  /\ pc' \in [Procs -> ClientPC \cup TimerPC]
         /\ \A c \in Clients : pc'[c] \in ClientPC
         /\ \A k \in Timers : pc'[k] \in TimerPC \cup SavingPC
<1>1. SavingPC \subseteq ClientPC
  BY DEF ClientPC
<1>2. label \in ClientPC \cup TimerPC
  BY <1>1, ProcFacts
<1>3. QED
  BY <1>2, ProcFacts DEF TypeOK, Goto

LEMMA TypeStep == TypeOK /\ [Next]_vars => TypeOK'
<1> SUFFICES ASSUME TypeOK, [Next]_vars
             PROVE  TypeOK'
  OBVIOUS
<1>0. /\ {"idle", "return", "flush", "cancel", "schedule"} \subseteq ClientPC
      /\ {"dead", "expired"} \subseteq TimerPC
      /\ SavingPC \subseteq ClientPC
      /\ {"persist", "snapshot", "open", "dump", "replace"} = SavingPC
  BY DEF ClientPC, TimerPC, SavingPC, HoldingPC, FlushPC, SchedulePC
<1>1. ASSUME NEW c \in Clients, RunImmediate(c) \/ RunDeferred(c) PROVE TypeOK'
  <2>1. Goto(c, "flush") \/ Goto(c, "schedule")
    BY <1>1 DEF RunImmediate, RunDeferred
  <2>2. version' \in Nat /\ promised' \in Nat /\ owed' \in [Clients -> Nat]
    <3>1. Mutated(c)
      BY <1>1, Zenon DEF RunImmediate, RunDeferred
    <3>2. QED
      BY <3>1 DEF Mutated, TypeOK
  <2>3. /\ pc' \in [Procs -> ClientPC \cup TimerPC]
        /\ \A d \in Clients : pc'[d] \in ClientPC
        /\ \A k \in Timers : pc'[k] \in TimerPC \cup SavingPC
    BY <1>0, <2>1, GotoType, ProcFacts
  <2>4. running' \in BOOLEAN
    <3>1. CASE RunImmediate(c)
      BY <3>1, Zenon DEF RunImmediate, TypeOK
    <3>2. CASE RunDeferred(c)
      BY <3>2, Zenon DEF RunDeferred, TypeOK
    <3>3. QED
      BY <1>1, <3>1, <3>2
  <2>5. QED
    BY <1>1, <2>2, <2>3, <2>4
       DEF RunImmediate, RunDeferred, TypeOK, coord, files, limits
<1>2. ASSUME NEW c \in Clients, Start(c) PROVE TypeOK'
  BY <1>2 DEF Start, TypeOK, coord, threads, files, history, limits
<1>3. ASSUME NEW c \in Clients, Shutdown(c) PROVE TypeOK'
  BY <1>0, <1>3, GotoType, ProcFacts DEF Shutdown, TypeOK, coord, files, limits
<1>4. ASSUME NEW c \in Clients, Schedule(c) PROVE TypeOK'
  <2>1. CASE Debounced
    <3>1. token + 1 \in Timers /\ token + 1 \in 0..MaxTokens
      BY <1>4, <2>1, ProcFacts DEF Schedule, TypeOK, Timers
    <3>2. "cancelPrevious" \in ClientPC /\ "new" \in TimerPC
      BY DEF ClientPC, SchedulePC, TimerPC
    <3>3. pc' = [pc EXCEPT ![c] = "cancelPrevious", ![token + 1] = "new"]
      BY <1>4, <2>1 DEF Schedule
    <3>4. /\ pc' \in [Procs -> ClientPC \cup TimerPC]
          /\ \A d \in Clients : pc'[d] \in ClientPC
          /\ \A k \in Timers : pc'[k] \in TimerPC \cup SavingPC
      BY <3>1, <3>2, <3>3, ProcFacts DEF TypeOK
    <3>5. QED
      BY <1>4, <2>1, <3>1, <3>4 DEF Schedule, TypeOK, memory, files, history, limits
  <2>2. CASE ~Debounced
    BY <1>0, <1>4, <2>2, GotoType, ProcFacts
       DEF Schedule, TypeOK, memory, files, history, limits
  <2>3. QED
    BY <2>1, <2>2, ConstantsAssumption
<1>5. ASSUME NEW c \in Clients, CancelPrevious(c) \/ CancelPending(c) PROVE TypeOK'
  <2>1. PICK label \in {"startTimer", "persist"} : Cancel(c, label)
    BY <1>5 DEF CancelPrevious, CancelPending
  <2>2. label \in ClientPC /\ "dead" \in TimerPC
    BY DEF ClientPC, SchedulePC, SavingPC, TimerPC
  <2>3. previous[c] \notin Clients
    BY ProcFacts, ConstantsAssumption DEF TypeOK
  <2>4. /\ pc' \in [Procs -> ClientPC \cup TimerPC]
        /\ \A d \in Clients : pc'[d] \in ClientPC
        /\ \A k \in Timers : pc'[k] \in TimerPC \cup SavingPC
    BY <2>1, <2>2, <2>3, ProcFacts DEF TypeOK, Cancel
  <2>5. previous' \in [Clients -> 0..MaxTokens]
    BY <2>1, ProcFacts DEF Cancel, TypeOK
  <2>6. QED
    BY <1>5, <2>4, <2>5
       DEF CancelPrevious, CancelPending, TypeOK, memory, coord, files, history, limits
<1>6. ASSUME NEW c \in Clients, StartTimer(c) PROVE TypeOK'
  <2>1. "idle" \in ClientPC /\ "armed" \in TimerPC /\ own[c] \notin Clients
    BY ProcFacts, ConstantsAssumption DEF ClientPC, TimerPC, TypeOK
  <2>2. /\ pc' \in [Procs -> ClientPC \cup TimerPC]
        /\ \A d \in Clients : pc'[d] \in ClientPC
        /\ \A k \in Timers : pc'[k] \in TimerPC \cup SavingPC
    BY <1>6, <2>1, ProcFacts DEF TypeOK, StartTimer
  <2>3. QED
    BY <1>6, <2>2, ProcFacts
       DEF StartTimer, TypeOK, memory, coord, files, limits
<1>7. ASSUME NEW c \in Clients, FlushImmediately(c) PROVE TypeOK'
  <2>1. /\ token' \in 0..MaxTokens /\ timer' \in 0..MaxTokens
        /\ previous' \in [Clients -> 0..MaxTokens]
    BY <1>7, ProcFacts DEF FlushImmediately, TypeOK
  <2>2. /\ pc' \in [Procs -> ClientPC \cup TimerPC]
        /\ \A d \in Clients : pc'[d] \in ClientPC
        /\ \A k \in Timers : pc'[k] \in TimerPC \cup SavingPC
    BY <1>0, <1>7, GotoType, ProcFacts DEF FlushImmediately
  <2>3. QED
    BY <1>7, <2>1, <2>2
       DEF FlushImmediately, TypeOK, memory, files, history, limits
<1>8. ASSUME NEW c \in Clients, Return(c) PROVE TypeOK'
  BY <1>0, <1>8, GotoType, ProcFacts
     DEF Return, TypeOK, memory, coord, files, limits
<1>9. ASSUME NEW k \in Timers, Expire(k) \/ FlushDeferred(k) PROVE TypeOK'
  <2>1. Goto(k, "expired") \/ Goto(k, "dead") \/ Goto(k, "persist")
    BY <1>9 DEF Expire, FlushDeferred
  <2>2. /\ pc' \in [Procs -> ClientPC \cup TimerPC]
        /\ \A d \in Clients : pc'[d] \in ClientPC
        /\ \A j \in Timers : pc'[j] \in TimerPC \cup SavingPC
    BY <1>0, <2>1, GotoType, ProcFacts
  <2>3. timer' = 0 \/ timer' = timer
    BY <1>9, Zenon DEF Expire, FlushDeferred, coord
  <2>4. dirty' = FALSE \/ dirty' = dirty
    BY <1>9, Zenon DEF Expire, FlushDeferred, coord
  <2>5. timer' \in 0..MaxTokens /\ dirty' \in BOOLEAN
    <3>1. timer' \in 0..MaxTokens
      BY <2>3, ProcFacts DEF TypeOK
    <3>2. dirty' \in BOOLEAN
      BY <2>4, Zenon DEF TypeOK
    <3>3. QED
      BY <3>1, <3>2
  <2>6. QED
    BY <1>9, <2>2, <2>5
       DEF Expire, FlushDeferred, TypeOK, memory, coord, files, history, limits
<1>10. ASSUME NEW p \in Procs, SaveStep(p) PROVE TypeOK'
  <2>1. CASE AcquirePersistLock(p)
    BY <1>0, <2>1, GotoType
       DEF AcquirePersistLock, TypeOK, memory, files, history, limits
  <2>2. CASE TakeSnapshot(p)
    BY <1>0, <2>2, GotoType
       DEF TakeSnapshot, TypeOK, memory, coord, files, history, limits
  <2>3. CASE OpenTemp(p)
    BY <1>0, <2>3, GotoType
       DEF OpenTemp, TypeOK, memory, coord, files, history, limits
  <2>4. CASE DumpTemp(p)
    BY <1>0, <2>4, GotoType
       DEF DumpTemp, TypeOK, memory, coord, files, history, limits
  <2>5. CASE ReplaceFile(p)
    BY <1>0, <2>5, GotoType, ProcFacts
       DEF ReplaceFile, Saved, TypeOK, memory, files, history, limits
  <2>6. QED
    BY <1>10, <2>1, <2>2, <2>3, <2>4, <2>5 DEF SaveStep
<1>11. ASSUME NEW p \in Procs, SaveFails(p) PROVE TypeOK'
  <2>1. owed' \in [Clients -> Nat]
    BY <1>11 DEF SaveFails, TypeOK
  <2>2. QED
    BY <1>0, <1>11, <2>1, GotoType, ProcFacts
       DEF SaveFails, TypeOK, memory, files, limits
<1>12. CASE BackgroundStep \/ LoopExit
  BY <1>12 DEF BackgroundStep, LoopExit, TypeOK, coord, threads, files, history, limits
<1>13. CASE CrashAndRestore
  <2>1. Restored \in Nat
    BY DEF Restored, TypeOK
  <2>2. /\ pc' \in [Procs -> ClientPC \cup TimerPC]
        /\ \A d \in Clients : pc'[d] \in ClientPC
        /\ \A k \in Timers : pc'[k] \in TimerPC \cup SavingPC
    BY <1>13, ProcFacts DEF CrashAndRestore, FreshPC, ClientPC, TimerPC
  <2>3. /\ previous' \in [Clients -> 0..MaxTokens] /\ own' \in [Clients -> 0..MaxTokens]
        /\ token' \in 0..MaxTokens /\ timer' \in 0..MaxTokens
    BY <1>13, ProcFacts DEF CrashAndRestore, NoTimer
  <2>4. snap' \in [Procs -> Nat] /\ owed' \in [Clients -> Nat]
    BY <1>13 DEF CrashAndRestore
  <2>5. version' \in Nat /\ promised' \in Nat /\ temp' = temp /\ disk' = disk
    BY <1>13, <2>1 DEF CrashAndRestore, files
  <2>6. /\ running' \in BOOLEAN /\ dirty' \in BOOLEAN /\ loop' = "on"
        /\ persistLock' = Free
    BY <1>13 DEF CrashAndRestore
  <2>7. acked' \in Nat /\ faults' \in Nat /\ crashes' \in Nat
    BY <1>13 DEF CrashAndRestore, TypeOK
  <2>8. QED
    BY <2>2, <2>3, <2>4, <2>5, <2>6, <2>7 DEF TypeOK
<1>14. CASE AtRest \/ UNCHANGED vars
  BY <1>14 DEF AtRest, vars, memory, coord, threads, files, history, limits, TypeOK
<1>15. QED
  BY <1>1, <1>2, <1>3, <1>4, <1>5, <1>6, <1>7, <1>8, <1>9, <1>10, <1>11,
     <1>12, <1>13, <1>14
     DEF Next, Request, ClientStep, TimerStep

(***************************************************************************)
(* Timers are made with the tokens, one after the other.                   *)
(***************************************************************************)

\* The tokens do not go back, and only a timer with a given token wakes up.
Awake ==
  /\ token' >= token
  /\ \A k \in Timers : pc[k] = "none" => pc'[k] = "none" \/ k <= token'

LEMMA GotoAwake ==
  ASSUME TypeOK, NEW p \in Procs, NEW label, Goto(p, label),
         pc[p] # "none", token' = token \/ token' = token + 1
  PROVE  Awake
BY ProcFacts DEF TypeOK, Goto, Awake

LEMMA FreshStep ==
  ASSUME TypeOK, FreshTimers, [Next]_vars
  PROVE  FreshTimers'
<1>1. CASE Awake
  BY <1>1, TypeStep, ProcFacts DEF FreshTimers, Awake, TypeOK
<1>2. ASSUME NEW c \in Clients, Request(c) \/ FlushImmediately(c) \/ Return(c)
      PROVE  Awake
  <2>1. CASE Start(c)
    BY <2>1 DEF Start, Awake, coord, threads, TypeOK
  <2>2. CASE RunImmediate(c) \/ RunDeferred(c) \/ Shutdown(c) \/ Return(c)
    <3>1. token' = token /\ pc[c] # "none"
      BY <2>2 DEF RunImmediate, RunDeferred, Shutdown, Return, coord
    <3>2. PICK label \in {"flush", "schedule", "idle"} : Goto(c, label)
      BY <2>2 DEF RunImmediate, RunDeferred, Shutdown, Return
    <3>3. QED
      BY <3>1, <3>2, GotoAwake, ProcFacts
  <2>3. CASE FlushImmediately(c)
    BY <2>3, GotoAwake, ProcFacts DEF FlushImmediately
  <2>4. QED
    BY <1>2, <2>1, <2>2, <2>3 DEF Request
<1>3. ASSUME NEW c \in Clients, Schedule(c) PROVE Awake
  <2>1. CASE Debounced
    BY <1>3, <2>1, ProcFacts DEF Schedule, Awake, TypeOK
  <2>2. CASE ~Debounced
    BY <1>3, <2>2, GotoAwake, ProcFacts DEF Schedule
  <2>3. QED
    BY <2>1, <2>2
<1>4. ASSUME NEW c \in Clients, CancelPrevious(c) \/ CancelPending(c) PROVE Awake
  <2>1. PICK label : Cancel(c, label) /\ pc[c] # "none" /\ token' = token
    BY <1>4 DEF CancelPrevious, CancelPending, coord
  <2>2. QED
    BY <2>1, ProcFacts DEF Cancel, Awake, TypeOK
<1>5. ASSUME NEW c \in Clients, StartTimer(c) PROVE Awake
  BY <1>5, ProcFacts DEF StartTimer, Awake, TypeOK, coord
<1>6. ASSUME NEW k \in Timers, TimerStep(k) PROVE Awake
  <2>1. PICK label : Goto(k, label) /\ pc[k] # "none" /\ token' = token
    BY <1>6 DEF TimerStep, Expire, FlushDeferred, coord
  <2>2. QED
    BY <2>1, GotoAwake, ProcFacts
<1>7. ASSUME NEW p \in Procs, SaveStep(p) \/ SaveFails(p) PROVE Awake
  <2>1. PICK label : Goto(p, label) /\ pc[p] # "none" /\ token' = token
    BY <1>7 DEF SaveStep, SaveFails, AcquirePersistLock, TakeSnapshot, OpenTemp,
                DumpTemp, ReplaceFile, coord
  <2>2. QED
    BY <2>1, GotoAwake
<1>8. ASSUME BackgroundStep \/ LoopExit \/ AtRest \/ UNCHANGED vars PROVE Awake
  BY <1>8 DEF BackgroundStep, LoopExit, AtRest, Awake, vars, coord, threads, TypeOK
<1>9. CASE CrashAndRestore
  <2>1. pc' = FreshPC
    BY <1>9 DEF CrashAndRestore
  <2>2. QED
    BY <2>1, ProcFacts DEF FreshPC, FreshTimers
<1>10. ASSUME NEW c \in Clients, ClientStep(c) PROVE Awake
  BY <1>2, <1>3, <1>4, <1>5, <1>10 DEF ClientStep
<1>11. QED
  BY <1>1, <1>2, <1>6, <1>7, <1>8, <1>9, <1>10 DEF Next

(***************************************************************************)
(* The file and the lock.                                                  *)
(***************************************************************************)

LEMMA InitIInv == Init => IInv
<1> SUFFICES ASSUME Init PROVE IInv
  OBVIOUS
<1>1. \A p \in Procs : pc[p] \in {"idle", "none"}
  BY DEF Init, FreshPC
<1>2. TypeOK /\ FreshTimers
  <2>1. \A k \in Timers : pc[k] = "none"
    BY ProcFacts DEF Init, FreshPC
  <2>2. QED
    BY <2>1, InitTypeOK DEF FreshTimers
<1>3. LockHeld
  BY <1>1, ConstantsAssumption DEF Init, LockHeld, HoldingPC
<1>4. DiskBehind /\ AckedOnFile
  BY DEF Init, DiskBehind, AckedOnFile
<1>5. SnapBetween /\ TempComplete
  BY <1>1 DEF SnapBetween, TempComplete
<1>6. OwedCovered
  BY <1>1, ProcFacts DEF Init, OwedCovered
<1>7. QED
  BY <1>2, <1>3, <1>4, <1>5, <1>6 DEF IInv

\* A step outside the save: no thread enters, leaves or answers for a save,
\* the files stay, and the memory may only advance.
Outside ==
  /\ version' >= version
  /\ persistLock' = persistLock /\ snap' = snap
  /\ temp' = temp /\ disk' = disk /\ acked' = acked
  /\ \A p \in Procs : \/ pc'[p] = pc[p]
                      \/ pc[p] \notin HoldingPC /\ pc'[p] \notin HoldingPC \cup {"return"}
  /\ \A c \in Clients : \/ owed'[c] = owed[c]
                        \/ owed'[c] <= version' /\ pc'[c] \notin HoldingPC \cup {"return"}

LEMMA OutsideStep ==
  ASSUME IInv, TypeOK', FreshTimers', Outside
  PROVE  IInv'
<1>1. LockHeld'
  BY DEF IInv, LockHeld, Outside
<1>2. DiskBehind' /\ AckedOnFile'
  BY DEF IInv, TypeOK, DiskBehind, AckedOnFile, Outside
<1>3. SnapBetween'
  BY DEF IInv, TypeOK, DiskBehind, SnapBetween, HoldingPC, Outside
<1>4. TempComplete'
  BY DEF IInv, TempComplete, HoldingPC, Outside
<1>5. OwedCovered'
  <2> SUFFICES ASSUME NEW c \in Clients
               PROVE  /\ owed'[c] <= version'
                      /\ pc'[c] \in {"open", "dump", "replace"} => owed'[c] <= snap'[c]
                      /\ pc'[c] = "return" => owed'[c] <= disk'
    BY DEF OwedCovered
  <2>1. c \in Procs
    BY ProcFacts
  <2>2. CASE owed'[c] = owed[c]
    BY <2>1, <2>2 DEF IInv, TypeOK, OwedCovered, HoldingPC, Outside
  <2>3. CASE owed'[c] <= version' /\ pc'[c] \notin HoldingPC \cup {"return"}
    BY <2>3 DEF HoldingPC
  <2>4. QED
    BY <2>2, <2>3 DEF Outside
<1>6. QED
  BY <1>1, <1>2, <1>3, <1>4, <1>5 DEF IInv

\* Only one thread at a time is in the save.
LEMMA OneSaver ==
  ASSUME IInv, NEW p \in Procs, pc[p] \in HoldingPC
  PROVE  /\ persistLock = p
         /\ \A q \in Procs : q # p => pc[q] \notin HoldingPC
BY DEF IInv, LockHeld

LEMMA AcquireIInv ==
  ASSUME IInv, TypeOK', FreshTimers', NEW p \in Procs, AcquirePersistLock(p)
  PROVE  IInv'
<1>1. pc' = [pc EXCEPT ![p] = "snapshot"] /\ pc[p] = "persist" /\ p \in DOMAIN pc
  BY DEF AcquirePersistLock, Goto, IInv, TypeOK
<1>2. /\ version' = version /\ snap' = snap /\ temp' = temp /\ disk' = disk
      /\ owed' = owed /\ acked' = acked
  BY DEF AcquirePersistLock, memory, files, history
<1>3. LockHeld'
  BY <1>1, ConstantsAssumption DEF IInv, TypeOK, LockHeld, AcquirePersistLock, HoldingPC
<1>4. QED
  BY <1>1, <1>2, <1>3
     DEF IInv, TypeOK, DiskBehind, SnapBetween, TempComplete, OwedCovered, AckedOnFile

LEMMA SnapshotIInv ==
  ASSUME IInv, TypeOK', FreshTimers', NEW p \in Procs, TakeSnapshot(p)
  PROVE  IInv'
<1>1. /\ pc' = [pc EXCEPT ![p] = "open"] /\ snap' = [snap EXCEPT ![p] = version]
      /\ pc[p] = "snapshot"
  BY DEF TakeSnapshot, Goto
<1>2. /\ version' = version /\ persistLock' = persistLock
      /\ temp' = temp /\ disk' = disk /\ owed' = owed /\ acked' = acked
  BY DEF TakeSnapshot, memory, coord, files, history
<1>3. LockHeld'
  BY <1>1, <1>2 DEF IInv, TypeOK, LockHeld, HoldingPC
<1>4. DiskBehind' /\ AckedOnFile'
  BY <1>2 DEF IInv, DiskBehind, AckedOnFile
<1>5. SnapBetween' /\ TempComplete'
  BY <1>1, <1>2 DEF IInv, TypeOK, DiskBehind, SnapBetween, TempComplete
<1>6. OwedCovered'
  BY <1>1, <1>2, ProcFacts DEF IInv, TypeOK, OwedCovered
<1>7. QED
  BY <1>3, <1>4, <1>5, <1>6 DEF IInv

LEMMA TempIInv ==
  ASSUME IInv, TypeOK', FreshTimers', NEW p \in Procs, OpenTemp(p) \/ DumpTemp(p)
  PROVE  IInv'
<1>1. PICK label \in {"dump", "replace"} :
        /\ pc' = [pc EXCEPT ![p] = label]
        /\ pc[p] \in {"open", "dump"}
        /\ label = "replace" => temp' = snap[p]
  BY DEF OpenTemp, DumpTemp, Goto
<1>2. /\ version' = version /\ persistLock' = persistLock /\ snap' = snap
      /\ disk' = disk /\ owed' = owed /\ acked' = acked
  BY DEF OpenTemp, DumpTemp, memory, coord, history
<1>3. LockHeld'
  BY <1>1, <1>2 DEF IInv, TypeOK, LockHeld, HoldingPC
<1>4. DiskBehind' /\ AckedOnFile' /\ SnapBetween' /\ OwedCovered'
  BY <1>1, <1>2, ProcFacts
     DEF IInv, TypeOK, DiskBehind, AckedOnFile, SnapBetween, OwedCovered
<1>5. TempComplete'
  BY <1>1, <1>2, OneSaver DEF IInv, TypeOK, TempComplete, HoldingPC
<1>6. QED
  BY <1>3, <1>4, <1>5 DEF IInv

\* The file only moves when it is replaced, and then it moves forward.
LEMMA ReplaceIInv ==
  ASSUME IInv, TypeOK', FreshTimers', NEW p \in Procs, ReplaceFile(p)
  PROVE  IInv' /\ disk <= disk' /\ disk' <= version
<1>1. /\ pc' = [pc EXCEPT ![p] = Saved(p)] /\ Saved(p) \in {"return", "dead"}
      /\ pc[p] = "replace" /\ persistLock' = Free
  BY DEF ReplaceFile, Goto, Saved
<1>2. /\ version' = version /\ owed' = owed /\ acked' = acked
      /\ snap' = [snap EXCEPT ![p] = 0] /\ disk' = temp
  BY DEF ReplaceFile, memory, history
<1>3. disk' = snap[p] /\ disk <= disk' /\ disk' <= version /\ disk' \in Nat
  BY <1>1, <1>2 DEF IInv, TypeOK, TempComplete, SnapBetween, DiskBehind
<1>4. \A q \in Procs : pc'[q] \notin HoldingPC
  BY <1>1, OneSaver DEF IInv, TypeOK, HoldingPC
<1>5. LockHeld'
  BY <1>1, <1>4, ConstantsAssumption DEF LockHeld
<1>6. DiskBehind' /\ AckedOnFile'
  BY <1>2, <1>3 DEF IInv, TypeOK, DiskBehind, AckedOnFile
<1>7. SnapBetween' /\ TempComplete'
  BY <1>4 DEF SnapBetween, TempComplete, HoldingPC
<1>8. OwedCovered'
  <2> SUFFICES ASSUME NEW c \in Clients
               PROVE  /\ owed'[c] <= version'
                      /\ pc'[c] \in {"open", "dump", "replace"} => owed'[c] <= snap'[c]
                      /\ pc'[c] = "return" => owed'[c] <= disk'
    BY DEF OwedCovered
  <2>1. c \in Procs /\ pc'[c] \notin HoldingPC /\ owed[c] <= version
    BY <1>4, ProcFacts DEF IInv, OwedCovered
  <2>2. CASE c = p
    BY <1>1, <1>2, <1>3, <2>1, <2>2 DEF IInv, OwedCovered, HoldingPC
  <2>3. CASE c # p
    BY <1>1, <1>2, <1>3, <2>1, <2>3 DEF IInv, TypeOK, DiskBehind, OwedCovered, HoldingPC
  <2>4. QED
    BY <2>2, <2>3
<1>9. QED
  BY <1>3, <1>5, <1>6, <1>7, <1>8 DEF IInv

LEMMA SaveFailsIInv ==
  ASSUME IInv, TypeOK', FreshTimers', NEW p \in Procs, SaveFails(p)
  PROVE  IInv'
<1>1. PICK label \in {"idle", "dead"} : pc' = [pc EXCEPT ![p] = label]
  BY DEF SaveFails, Goto
<1>2. /\ version' = version /\ acked' = acked /\ temp' = temp /\ disk' = disk
      /\ pc[p] \in HoldingPC /\ persistLock' = Free
      /\ owed' = [c \in Clients |-> IF c = p THEN 0 ELSE owed[c]]
  BY DEF SaveFails, memory, files, HoldingPC
<1>3. \A q \in Procs : pc'[q] \notin HoldingPC
  BY <1>1, <1>2, OneSaver DEF IInv, TypeOK, HoldingPC
<1>4. LockHeld'
  BY <1>2, <1>3, ConstantsAssumption DEF LockHeld
<1>5. DiskBehind' /\ AckedOnFile'
  BY <1>2 DEF IInv, DiskBehind, AckedOnFile
<1>6. SnapBetween' /\ TempComplete'
  BY <1>3 DEF SnapBetween, TempComplete, HoldingPC
<1>7. OwedCovered'
  BY <1>1, <1>2, <1>3, ProcFacts DEF IInv, TypeOK, OwedCovered, HoldingPC
<1>8. QED
  BY <1>4, <1>5, <1>6, <1>7 DEF IInv

LEMMA ReturnIInv ==
  ASSUME IInv, TypeOK', FreshTimers', NEW c \in Clients, Return(c)
  PROVE  IInv' /\ acked' <= disk /\ acked <= acked'
<1>1. /\ pc' = [pc EXCEPT ![c] = "idle"] /\ pc[c] = "return"
      /\ owed' = [owed EXCEPT ![c] = 0]
      /\ acked' = IF owed[c] > acked THEN owed[c] ELSE acked
  BY DEF Return, Goto
<1>2. /\ version' = version /\ persistLock' = persistLock /\ snap' = snap
      /\ temp' = temp /\ disk' = disk
  BY DEF Return, memory, coord, files
<1>3. acked' <= disk /\ acked <= acked'
  BY <1>1 DEF IInv, TypeOK, OwedCovered, AckedOnFile, DiskBehind
<1>4. LockHeld'
  BY <1>1, <1>2, ProcFacts DEF IInv, TypeOK, LockHeld, HoldingPC
<1>5. DiskBehind' /\ SnapBetween' /\ TempComplete'
  BY <1>1, <1>2, ProcFacts DEF IInv, TypeOK, DiskBehind, SnapBetween, TempComplete
<1>6. OwedCovered' /\ AckedOnFile'
  BY <1>1, <1>2, <1>3, ProcFacts DEF IInv, TypeOK, OwedCovered, AckedOnFile, DiskBehind
<1>7. QED
  BY <1>3, <1>4, <1>5, <1>6 DEF IInv

LEMMA CrashIInv ==
  ASSUME IInv, TypeOK', FreshTimers', CrashAndRestore
  PROVE  IInv' /\ version' = disk
<1>1. version' = disk
  BY ProcFacts DEF CrashAndRestore, Restored, IInv, DiskBehind
<1>2. \A p \in Procs : pc'[p] \in {"idle", "none"}
  BY DEF CrashAndRestore, FreshPC
<1>3. /\ persistLock' = Free /\ temp' = temp /\ disk' = disk /\ acked' = acked
      /\ owed' = [c \in Clients |-> 0]
  BY DEF CrashAndRestore, files
<1>4. LockHeld'
  BY <1>2, <1>3, ConstantsAssumption DEF LockHeld, HoldingPC
<1>5. DiskBehind' /\ AckedOnFile'
  BY <1>1, <1>3 DEF IInv, DiskBehind, AckedOnFile
<1>6. SnapBetween' /\ TempComplete'
  BY <1>2 DEF SnapBetween, TempComplete
<1>7. OwedCovered'
  BY <1>1, <1>2, <1>3, ProcFacts DEF IInv, DiskBehind, OwedCovered
<1>8. QED
  BY <1>1, <1>4, <1>5, <1>6, <1>7 DEF IInv

(***************************************************************************)
(* Every step keeps the invariant, and is a step of the register or leaves *)
(* it alone.                                                               *)
(***************************************************************************)

RegisterStep ==
  \/ /\ version' \in {version, version + 1} /\ disk' = disk /\ acked' = acked
  \/ /\ version' = version /\ acked' = acked
     /\ disk <= disk' /\ disk' <= version /\ disk' \in Nat
  \/ /\ version' = version /\ disk' = disk
     /\ acked <= acked' /\ acked' <= disk /\ acked' \in Nat
  \/ /\ version' = disk /\ disk' = disk /\ acked' = acked

\* What the steps outside the save have in common.
OutsideMutation == Outside /\ version' \in {version, version + 1}

LEMMA RequestOutside ==
  ASSUME IInv, NEW c \in Clients, Request(c)
  PROVE  OutsideMutation
<1> USE DEF IInv, TypeOK
<1>1. CASE RunImmediate(c)
  <2>1. Mutated(c) /\ Goto(c, "flush") /\ pc[c] = "idle"
    BY <1>1 DEF RunImmediate
  <2>2. /\ persistLock' = persistLock /\ snap' = snap
        /\ temp' = temp /\ disk' = disk /\ acked' = acked
    BY <1>1 DEF RunImmediate, coord, files
  <2>3. QED
    BY <2>1, <2>2, ProcFacts DEF OutsideMutation, Outside, Mutated, Goto, HoldingPC
<1>2. CASE RunDeferred(c)
  <2>1. Mutated(c) /\ Goto(c, "schedule") /\ pc[c] = "idle"
    BY <1>2 DEF RunDeferred
  <2>2. /\ persistLock' = persistLock /\ snap' = snap
        /\ temp' = temp /\ disk' = disk /\ acked' = acked
    BY <1>2 DEF RunDeferred, coord, files
  <2>3. QED
    BY <2>1, <2>2, ProcFacts DEF OutsideMutation, Outside, Mutated, Goto, HoldingPC
<1>3. CASE Start(c)
  BY <1>3 DEF Start, OutsideMutation, Outside, coord, threads, files, history
<1>4. CASE Shutdown(c)
  BY <1>4, ProcFacts
     DEF Shutdown, OutsideMutation, Outside, Goto, HoldingPC, coord, files
<1>5. QED
  BY <1>1, <1>2, <1>3, <1>4 DEF Request

LEMMA ClientOutside ==
  ASSUME IInv, NEW c \in Clients, ClientStep(c), ~Return(c)
  PROVE  OutsideMutation
<1> USE DEF IInv, TypeOK
<1>1. CASE Schedule(c)
  <2>1. /\ pc[c] = "schedule" /\ version' = version /\ persistLock' = persistLock
        /\ snap' = snap /\ temp' = temp /\ disk' = disk /\ acked' = acked /\ owed' = owed
    BY <1>1 DEF Schedule, memory, files, history
  <2>2. CASE Debounced
    <3>1. /\ pc' = [pc EXCEPT ![c] = "cancelPrevious", ![token + 1] = "new"]
          /\ token + 1 \in Timers /\ token < MaxTokens
      BY <1>1, <2>2, ProcFacts DEF Schedule, Timers
    <3>2. pc[token + 1] \notin HoldingPC
      BY <3>1 DEF FreshTimers, HoldingPC
    <3>3. QED
      BY <2>1, <3>1, <3>2, ProcFacts DEF OutsideMutation, Outside, HoldingPC
  <2>3. CASE ~Debounced
    BY <1>1, <2>1, <2>3, ProcFacts DEF Schedule, OutsideMutation, Outside, Goto, HoldingPC
  <2>4. QED
    BY <2>2, <2>3
<1>2. CASE CancelPrevious(c) \/ CancelPending(c)
  <2>1. PICK label \in {"startTimer", "persist"} :
          /\ Cancel(c, label)
          /\ pc[c] \in {"cancelPrevious", "cancel"}
    BY <1>2 DEF CancelPrevious, CancelPending
  <2>2. /\ version' = version /\ persistLock' = persistLock
        /\ snap' = snap /\ temp' = temp /\ disk' = disk /\ acked' = acked /\ owed' = owed
    BY <1>2 DEF CancelPrevious, CancelPending, memory, coord, files, history
  <2>3. QED
    BY <2>1, <2>2, ProcFacts DEF OutsideMutation, Outside, Cancel, HoldingPC
<1>3. CASE StartTimer(c)
  <2>1. /\ version' = version /\ persistLock' = persistLock /\ snap' = snap
        /\ temp' = temp /\ disk' = disk /\ acked' = acked
    BY <1>3 DEF StartTimer, memory, coord, files
  <2>2. /\ pc[c] = "startTimer" /\ owed' = [owed EXCEPT ![c] = 0]
        /\ pc' = [p \in Procs |->
                    IF p = c THEN "idle"
                    ELSE IF p = own[c] /\ pc[p] = "new" THEN "armed" ELSE pc[p]]
    BY <1>3 DEF StartTimer
  <2>3. QED
    BY <2>1, <2>2, ProcFacts DEF OutsideMutation, Outside, HoldingPC
<1>4. CASE FlushImmediately(c)
  BY <1>4, ProcFacts
     DEF FlushImmediately, OutsideMutation, Outside, Goto, HoldingPC, memory, files, history
<1>5. QED
  BY <1>1, <1>2, <1>3, <1>4 DEF ClientStep

LEMMA OtherOutside ==
  ASSUME IInv,
         \/ \E k \in Timers : TimerStep(k)
         \/ BackgroundStep \/ LoopExit \/ AtRest \/ UNCHANGED vars
  PROVE  OutsideMutation
<1> USE DEF IInv, TypeOK
<1>1. ASSUME NEW k \in Timers, TimerStep(k) PROVE OutsideMutation
  <2>1. PICK label \in {"expired", "dead", "persist"} :
          Goto(k, label) /\ pc[k] \in {"armed", "expired"}
    BY <1>1 DEF TimerStep, Expire, FlushDeferred
  <2>2. /\ version' = version /\ persistLock' = persistLock /\ snap' = snap
        /\ temp' = temp /\ disk' = disk /\ acked' = acked /\ owed' = owed
    BY <1>1 DEF TimerStep, Expire, FlushDeferred, memory, coord, files, history
  <2>3. QED
    BY <2>1, <2>2, ProcFacts DEF OutsideMutation, Outside, Goto, HoldingPC
<1>2. CASE BackgroundStep
  BY <1>2 DEF BackgroundStep, OutsideMutation, Outside, coord, threads, files, history
<1>3. CASE LoopExit
  BY <1>3 DEF LoopExit, OutsideMutation, Outside, coord, threads, files, history
<1>4. CASE AtRest \/ UNCHANGED vars
  BY <1>4 DEF AtRest, OutsideMutation, Outside, vars, memory, coord, threads, files, history
<1>5. QED
  BY <1>1, <1>2, <1>3, <1>4

LEMMA Step ==
  ASSUME IInv, [Next]_vars
  PROVE  IInv' /\ RegisterStep
<1>0. TypeOK' /\ FreshTimers'
  BY TypeStep, FreshStep DEF IInv
<1>1. CASE OutsideMutation
  BY <1>0, <1>1, OutsideStep DEF OutsideMutation, Outside, RegisterStep
<1>2. ASSUME NEW p \in Procs, SaveStep(p) PROVE IInv' /\ RegisterStep
  <2>1. CASE AcquirePersistLock(p)
    BY <1>0, <2>1, AcquireIInv
       DEF AcquirePersistLock, RegisterStep, memory, files, history
  <2>2. CASE TakeSnapshot(p)
    BY <1>0, <2>2, SnapshotIInv DEF TakeSnapshot, RegisterStep, memory, files, history
  <2>3. CASE OpenTemp(p) \/ DumpTemp(p)
    BY <1>0, <2>3, TempIInv DEF OpenTemp, DumpTemp, RegisterStep, memory, history
  <2>4. CASE ReplaceFile(p)
    <3>1. IInv' /\ disk <= disk' /\ disk' <= version
      BY <1>0, <2>4, ReplaceIInv
    <3>2. version' = version /\ acked' = acked
      BY <2>4 DEF ReplaceFile, memory, history
    <3>3. QED
      BY <3>1, <3>2 DEF RegisterStep, IInv, DiskBehind
  <2>5. QED
    BY <1>2, <2>1, <2>2, <2>3, <2>4 DEF SaveStep
<1>3. ASSUME NEW p \in Procs, SaveFails(p) PROVE IInv' /\ RegisterStep
  BY <1>0, <1>3, SaveFailsIInv DEF SaveFails, RegisterStep, memory, files
<1>4. ASSUME NEW c \in Clients, Return(c) PROVE IInv' /\ RegisterStep
  <2>1. IInv' /\ acked' <= disk /\ acked <= acked'
    BY <1>0, <1>4, ReturnIInv
  <2>2. version' = version /\ disk' = disk
    BY <1>4 DEF Return, memory, files
  <2>3. QED
    BY <2>1, <2>2 DEF RegisterStep, IInv, TypeOK
<1>5. CASE CrashAndRestore
  BY <1>0, <1>5, CrashIInv DEF CrashAndRestore, RegisterStep, files
<1>6. QED
  BY <1>1, <1>2, <1>3, <1>4, <1>5, RequestOutside, ClientOutside, OtherOutside
     DEF Next

LEMMA Invariance == Spec => []IInv
<1>1. IInv /\ [Next]_vars => IInv'
  BY Step
<1>2. QED
  BY InitIInv, <1>1, PTL DEF Spec

\* Whatever the number of threads, timers, mutations, failed saves and
\* crashes: a caller that was told is never ahead of the state file.
THEOREM Durable == Spec => []DurableAck
<1>1. IInv => DurableAck
  BY ProcFacts DEF IInv, DiskBehind, AckedOnFile, DurableAck
<1>2. QED
  BY <1>1, Invariance, PTL

\* The state file never goes back to an older state.
THEOREM Monotone == Spec => DiskNeverRegresses
<1>1. IInv /\ [Next]_vars => [disk' # Torn /\ disk' >= disk]_disk
  <2> SUFFICES ASSUME IInv, [Next]_vars, disk' # disk
               PROVE  disk' # Torn /\ disk' >= disk
    OBVIOUS
  <2>1. IInv' /\ RegisterStep
    BY Step
  <2>2. disk \in Nat /\ disk' \in Nat
    BY <2>1 DEF IInv, DiskBehind
  <2>3. QED
    BY <2>1, <2>2, ProcFacts DEF RegisterStep
<1>2. QED
  BY <1>1, Invariance, PTL DEF Spec, DiskNeverRegresses

\* The session's file behaves as the write-behind register.
THEOREM Refinement == Spec => ImplementsWriteBehind
<1>1. Init => Register!Init
  BY DEF Init, Register!Init
<1>2. IInv /\ [Next]_vars => [Register!Next]_(Register!wbVars)
  <2> SUFFICES ASSUME IInv, [Next]_vars
               PROVE  Register!Next \/ UNCHANGED Register!wbVars
    OBVIOUS
  <2>1. RegisterStep
    BY Step
  <2>2. version \in Nat /\ disk \in Nat /\ acked \in Nat
    BY DEF IInv, TypeOK, DiskBehind
  <2>3. QED
    BY <2>1, <2>2
       DEF RegisterStep, Register!Next, Register!Mutate, Register!Save,
           Register!Acknowledge, Register!Restart, Register!wbVars
<1>3. QED
  BY <1>1, <1>2, Invariance, PTL DEF Spec, ImplementsWriteBehind, Register!Spec

(***************************************************************************)
(* No stray timer.  NoStrayTimer is not inductive: that the callback which *)
(* takes the pending save leaves no other timer pending rests on _timer    *)
(* being the one with the current token.                                   *)
(***************************************************************************)

TimerCurrent == timer \in {0, token}

TimersInv == IInv /\ TimerCurrent /\ NoStrayTimer

CanExpire == {"new", "armed"}
Cancelling == {"cancel", "cancelPrevious"}

\* A step that wakes no timer, takes none that can expire out of _timer and
\* leaves the cancellations under way alone.
NoTimerDropped ==
  /\ \A k \in Timers : pc'[k] \in CanExpire =>
       pc[k] \in CanExpire /\ (timer = k => timer' = k)
  /\ \A c \in Clients : pc[c] \in Cancelling =>
       pc'[c] = pc[c] /\ previous'[c] = previous[c]

LEMMA NotDropped ==
  ASSUME NoStrayTimer, NoTimerDropped
  PROVE  NoStrayTimer'
<1> SUFFICES ASSUME NEW k \in Timers, pc'[k] \in CanExpire
             PROVE  timer' = k \/ \E c \in Clients : WillCancel(c, k)'
  BY DEF NoStrayTimer, CanExpire
<1>1. pc[k] \in CanExpire /\ (timer = k => timer' = k)
  BY DEF NoTimerDropped
<1>2. timer = k \/ \E c \in Clients : WillCancel(c, k)
  BY <1>1 DEF NoStrayTimer, CanExpire
<1>3. \A c \in Clients : WillCancel(c, k) => WillCancel(c, k)'
  BY DEF WillCancel, NoTimerDropped, Cancelling
<1>4. QED
  BY <1>1, <1>2, <1>3

\* A thread that is not about to cancel goes to a label that cannot expire.
LEMMA GotoDropsNone ==
  ASSUME TypeOK, NEW p \in Procs, NEW label, Goto(p, label),
         label \notin CanExpire, pc[p] \notin Cancelling,
         previous' = previous, timer' = timer
  PROVE  NoTimerDropped
BY ProcFacts DEF TypeOK, Goto, NoTimerDropped

LEMMA ScheduleStray ==
  ASSUME TimersInv, NEW c \in Clients, Schedule(c), Debounced
  PROVE  TimerCurrent' /\ NoStrayTimer'
<1>1. /\ token' = token + 1 /\ timer' = token + 1
      /\ previous' = [previous EXCEPT ![c] = timer]
      /\ pc' = [pc EXCEPT ![c] = "cancelPrevious", ![token + 1] = "new"]
      /\ pc[c] = "schedule"
  BY DEF Schedule
<1>2. /\ \A d \in Clients : d # token + 1 /\ d \in DOMAIN pc /\ d \in DOMAIN previous
      /\ \A k \in Timers : k # c /\ k \in DOMAIN pc
  BY ProcFacts, ConstantsAssumption DEF TimersInv, IInv, TypeOK
<1>3. pc'[c] = "cancelPrevious" /\ previous'[c] = timer
  BY <1>1, <1>2
<1>4. ASSUME NEW d \in Clients, d # c PROVE pc'[d] = pc[d] /\ previous'[d] = previous[d]
  BY <1>1, <1>2, <1>4
<1>5. ASSUME NEW k \in Timers, pc'[k] \in CanExpire, k # token + 1
      PROVE  \E d \in Clients : WillCancel(d, k)'
  <2>1. pc[k] \in CanExpire
    BY <1>1, <1>2, <1>5
  <2>2. timer = k \/ \E d \in Clients : WillCancel(d, k)
    BY <2>1 DEF TimersInv, NoStrayTimer, CanExpire
  <2>3. CASE timer = k
    BY <1>3, <2>3 DEF WillCancel
  <2>4. ASSUME NEW d \in Clients, WillCancel(d, k) PROVE WillCancel(d, k)'
    <3>1. d # c
      BY <1>1, <2>4 DEF WillCancel
    <3>2. QED
      BY <1>4, <2>4, <3>1 DEF WillCancel
  <2>5. QED
    BY <2>2, <2>3, <2>4
<1>6. NoStrayTimer'
  BY <1>1, <1>5 DEF NoStrayTimer, CanExpire
<1>7. QED
  BY <1>1, <1>6 DEF TimerCurrent

LEMMA FlushStray ==
  ASSUME TimersInv, NEW c \in Clients, FlushImmediately(c)
  PROVE  TimerCurrent' /\ NoStrayTimer'
<1>1. /\ timer' = 0 /\ pc[c] = "flush"
      /\ previous' = [previous EXCEPT ![c] = timer]
      /\ pc' = [pc EXCEPT ![c] = "cancel"]
  BY DEF FlushImmediately, Goto
<1>2. /\ \A d \in Clients : d \in DOMAIN pc /\ d \in DOMAIN previous
      /\ \A k \in Timers : k # c
  BY ProcFacts DEF TimersInv, IInv, TypeOK
<1>3. ASSUME NEW k \in Timers, pc'[k] \in CanExpire
      PROVE  \E d \in Clients : WillCancel(d, k)'
  <2>1. pc[k] \in CanExpire
    BY <1>1, <1>2, <1>3
  <2>2. timer = k \/ \E d \in Clients : WillCancel(d, k)
    BY <2>1 DEF TimersInv, NoStrayTimer, CanExpire
  <2>3. CASE timer = k
    BY <1>1, <1>2, <2>3 DEF WillCancel
  <2>4. ASSUME NEW d \in Clients, WillCancel(d, k) PROVE WillCancel(d, k)'
    <3>1. d # c
      BY <1>1, <2>4 DEF WillCancel
    <3>2. QED
      BY <1>1, <1>2, <2>4, <3>1 DEF WillCancel
  <2>5. QED
    BY <2>2, <2>3, <2>4
<1>4. NoStrayTimer'
  BY <1>3 DEF NoStrayTimer, CanExpire
<1>5. QED
  BY <1>1, <1>4 DEF TimerCurrent

LEMMA CancelStray ==
  ASSUME TimersInv, NEW c \in Clients, CancelPrevious(c) \/ CancelPending(c)
  PROVE  TimerCurrent' /\ NoStrayTimer'
<1>1. PICK label \in {"startTimer", "persist"} : Cancel(c, label)
  BY DEF CancelPrevious, CancelPending
<1>2. /\ token' = token /\ timer' = timer
      /\ previous' = [previous EXCEPT ![c] = 0]
      /\ pc' = [p \in Procs |->
                  IF p = c THEN label
                  ELSE IF p = previous[c] /\ pc[p] \in CanExpire THEN "dead" ELSE pc[p]]
  BY <1>1 DEF CancelPrevious, CancelPending, Cancel, coord, CanExpire
<1>3. /\ \A d \in Clients : d \in DOMAIN previous /\ d \in Procs /\ d # previous[c]
      /\ \A k \in Timers : k # c /\ k \in Procs
  BY ProcFacts, ConstantsAssumption DEF TimersInv, IInv, TypeOK
<1>4. ASSUME NEW k \in Timers, pc'[k] \in CanExpire
      PROVE  timer' = k \/ \E d \in Clients : WillCancel(d, k)'
  <2>1. pc[k] \in CanExpire /\ k # previous[c]
    BY <1>2, <1>3, <1>4 DEF CanExpire
  <2>2. timer = k \/ \E d \in Clients : WillCancel(d, k)
    BY <2>1 DEF TimersInv, NoStrayTimer, CanExpire
  <2>3. ASSUME NEW d \in Clients, WillCancel(d, k) PROVE WillCancel(d, k)'
    <3>1. d # c
      BY <2>1, <2>3 DEF WillCancel
    <3>2. QED
      BY <1>2, <1>3, <2>3, <3>1 DEF WillCancel
  <2>4. QED
    BY <1>2, <2>2, <2>3
<1>5. NoStrayTimer'
  BY <1>4 DEF NoStrayTimer, CanExpire
<1>6. QED
  BY <1>2, <1>5 DEF TimerCurrent, TimersInv

LEMMA StartStray ==
  ASSUME TimersInv, NEW c \in Clients, StartTimer(c)
  PROVE  TimerCurrent' /\ NoStrayTimer'
<1>1. /\ token' = token /\ timer' = timer /\ previous' = previous
      /\ pc[c] = "startTimer"
      /\ pc' = [p \in Procs |->
                  IF p = c THEN "idle"
                  ELSE IF p = own[c] /\ pc[p] = "new" THEN "armed" ELSE pc[p]]
  BY DEF StartTimer, coord
<1>2. /\ \A d \in Clients : d \in Procs /\ pc[d] # "new"
      /\ \A k \in Timers : k # c /\ k \in Procs
  BY ProcFacts DEF TimersInv, IInv, TypeOK, ClientPC, FlushPC, SchedulePC, SavingPC, HoldingPC
<1>3. NoTimerDropped
  BY <1>1, <1>2 DEF NoTimerDropped, CanExpire, Cancelling
<1>4. QED
  BY <1>1, <1>3, NotDropped DEF TimersInv, TimerCurrent

LEMMA TimerStray ==
  ASSUME TimersInv, NEW k \in Timers, TimerStep(k)
  PROVE  TimerCurrent' /\ NoStrayTimer'
<1>1. PICK label \in {"expired", "dead", "persist"} :
        /\ pc' = [pc EXCEPT ![k] = label] /\ pc[k] \in {"armed", "expired"}
        /\ timer' = timer \/ (k = token /\ timer' = 0)
  BY DEF TimerStep, Expire, FlushDeferred, Goto, coord
<1>2. token' = token /\ previous' = previous
  BY DEF TimerStep, Expire, FlushDeferred, coord
<1>3. /\ \A d \in Clients : d # k
      /\ k \in DOMAIN pc
      /\ \A j \in Timers : j # 0
  BY ProcFacts DEF TimersInv, IInv, TypeOK, Timers
<1>4. ASSUME NEW j \in Timers, pc'[j] \in CanExpire
      PROVE  pc[j] \in CanExpire /\ (timer = j => timer' = j)
  <2>1. j # k /\ pc[j] \in CanExpire
    BY <1>1, <1>3, <1>4 DEF CanExpire
  <2>2. timer = j => timer' = timer
    BY <1>1, <1>3, <2>1 DEF TimersInv, TimerCurrent
  <2>3. QED
    BY <2>1, <2>2
<1>5. NoTimerDropped
  BY <1>1, <1>2, <1>3, <1>4 DEF NoTimerDropped
<1>6. QED
  BY <1>1, <1>2, <1>5, NotDropped DEF TimersInv, TimerCurrent

LEMMA TimersInvStep ==
  ASSUME TimersInv, [Next]_vars
  PROVE  TimersInv'
<1>0. TypeOK /\ TimerCurrent /\ NoStrayTimer
  BY DEF TimersInv, IInv
<1>1. ASSUME NoTimerDropped, token' = token, timer' = timer
      PROVE  TimerCurrent' /\ NoStrayTimer'
  <2>1. NoStrayTimer'
    BY <1>0, <1>1, NotDropped
  <2>2. TimerCurrent'
    BY <1>0, <1>1 DEF TimerCurrent
  <2>3. QED
    BY <2>1, <2>2
<1>2. ASSUME NEW p \in Procs, NEW label, Goto(p, label), label \notin CanExpire,
             pc[p] \notin Cancelling, UNCHANGED <<token, timer, previous>>
      PROVE  TimerCurrent' /\ NoStrayTimer'
  <2>1. NoTimerDropped
    BY <1>0, <1>2, GotoDropsNone
  <2>2. QED
    BY <1>1, <1>2, <2>1
<1>3. ASSUME NEW c \in Clients, Request(c) PROVE TimerCurrent' /\ NoStrayTimer'
  <2>1. ASSUME Start(c) PROVE TimerCurrent' /\ NoStrayTimer'
    <3>1. NoTimerDropped /\ token' = token /\ timer' = timer
      BY <2>1 DEF Start, coord, threads, NoTimerDropped
    <3>2. QED
      BY <1>1, <3>1
  <2>2. CASE RunImmediate(c) \/ RunDeferred(c) \/ Shutdown(c)
    BY <1>2, <2>2, ProcFacts DEF RunImmediate, RunDeferred, Shutdown, coord, CanExpire, Cancelling
  <2>3. QED
    BY <1>3, <2>1, <2>2 DEF Request
<1>4. ASSUME NEW c \in Clients, ClientStep(c) PROVE TimerCurrent' /\ NoStrayTimer'
  <2>1. CASE (Schedule(c) /\ ~Debounced) \/ Return(c)
    BY <1>2, <2>1, ProcFacts DEF Schedule, Return, coord, CanExpire, Cancelling
  <2>2. QED
    BY <1>4, <2>1, ScheduleStray, FlushStray, CancelStray, StartStray, ConstantsAssumption
       DEF ClientStep
<1>5. ASSUME NEW p \in Procs, SaveStep(p) \/ SaveFails(p) PROVE TimerCurrent' /\ NoStrayTimer'
  <2>1. /\ pc[p] \notin Cancelling /\ UNCHANGED <<token, timer, previous>>
        /\ \E label \in {"snapshot", "open", "dump", "replace", "return", "idle", "dead"} :
             Goto(p, label)
    BY <1>5 DEF SaveStep, SaveFails, AcquirePersistLock, TakeSnapshot, OpenTemp, DumpTemp,
                ReplaceFile, Saved, Cancelling, coord
  <2>2. QED
    BY <1>2, <2>1 DEF CanExpire
<1>6. ASSUME BackgroundStep \/ LoopExit \/ AtRest \/ UNCHANGED vars
      PROVE  TimerCurrent' /\ NoStrayTimer'
  <2>1. NoTimerDropped /\ token' = token /\ timer' = timer
    BY <1>6 DEF BackgroundStep, LoopExit, AtRest, vars, coord, threads, NoTimerDropped
  <2>2. QED
    BY <1>1, <2>1
<1>7. ASSUME CrashAndRestore PROVE TimerCurrent' /\ NoStrayTimer'
  <2>1. \A k \in Timers : pc'[k] = "none"
    BY <1>7, ProcFacts DEF CrashAndRestore, FreshPC
  <2>2. NoStrayTimer'
    BY <2>1 DEF NoStrayTimer
  <2>3. TimerCurrent'
    BY <1>7 DEF CrashAndRestore, TimerCurrent
  <2>4. QED
    BY <2>2, <2>3
<1>8. IInv'
  BY Step DEF TimersInv
<1>9. QED
  BY <1>3, <1>4, <1>5, <1>6, <1>7, <1>8, TimerStray DEF Next, TimersInv

\* Whatever the interleaving of any number of threads and timers, no timer that
\* was superseded or flushed away is left to run (SessionPersistence!NoStrayTimer),
\* and every variable keeps its type.
THEOREM NoTimerIsStray == Spec => []TimersConsistent
<1>1. Init => TimersInv
  <2>1. Init => TimerCurrent /\ NoStrayTimer
    BY ProcFacts DEF Init, FreshPC, TimerCurrent, NoStrayTimer
  <2>2. QED
    BY <2>1, InitIInv DEF TimersInv
<1>2. TimersInv /\ [Next]_vars => TimersInv'
  BY TimersInvStep
<1>3. TimersInv => TimersConsistent
  BY DEF TimersInv, IInv, TimersConsistent
<1>4. QED
  BY <1>1, <1>2, <1>3, PTL DEF Spec

(***************************************************************************)
(* No save that was asked for is lost.  NoLostPersist is not inductive: a  *)
(* cancellation under way must not hit the pending timer, and a snapshot   *)
(* must be as new as what was promised when it is taken.                   *)
(***************************************************************************)

\* What was promised has happened.
PromisedInMemory == promised <= version

\* What a thread is about to cancel was superseded: it is not the timer whose
\* token is current.
CancelsSuperseded ==
  /\ timer <= token
  /\ \A c \in Clients : previous[c] = 0 \/ previous[c] < token

Covered ==
  promised <= disk \/ TimerWillFire \/ \E p \in Procs : WillSave(p)

PersistInv ==
  /\ IInv /\ PromisedInMemory /\ CancelsSuperseded
  /\ faults = 0 => Covered

LEMMA PromisedStep ==
  ASSUME IInv, PromisedInMemory, [Next]_vars
  PROVE  PromisedInMemory'
<1> USE DEF IInv, TypeOK, PromisedInMemory
<1>1. ASSUME NEW c \in Clients, Request(c) PROVE promised' <= version'
  <2>1. CASE RunImmediate(c) \/ RunDeferred(c)
    <3>1. Mutated(c)
      BY <2>1, Zenon DEF RunImmediate, RunDeferred
    <3>2. QED
      BY <3>1 DEF Mutated
  <2>2. CASE Start(c)
    BY <2>2 DEF Start, history
  <2>3. CASE Shutdown(c)
    BY <2>3 DEF Shutdown
  <2>4. QED
    BY <1>1, <2>1, <2>2, <2>3 DEF Request
<1>2. ASSUME NEW c \in Clients, ClientStep(c) PROVE promised' <= version'
  BY <1>2 DEF ClientStep, Schedule, CancelPrevious, StartTimer, FlushImmediately,
              CancelPending, Return, memory, history
<1>3. ASSUME NEW k \in Timers, TimerStep(k) PROVE promised' <= version'
  BY <1>3 DEF TimerStep, Expire, FlushDeferred, memory, history
<1>4. ASSUME NEW p \in Procs, SaveStep(p) \/ SaveFails(p) PROVE promised' <= version'
  BY <1>4 DEF SaveStep, SaveFails, AcquirePersistLock, TakeSnapshot, OpenTemp,
              DumpTemp, ReplaceFile, memory, history
<1>5. CASE BackgroundStep \/ LoopExit \/ AtRest \/ UNCHANGED vars
  BY <1>5 DEF BackgroundStep, LoopExit, AtRest, vars, memory, history
<1>6. CASE CrashAndRestore
  BY <1>6, CrashIInv, TypeStep, FreshStep, ProcFacts DEF CrashAndRestore, DiskBehind
<1>7. QED
  BY <1>1, <1>2, <1>3, <1>4, <1>5, <1>6 DEF Next

LEMMA SupersededStep ==
  ASSUME IInv, CancelsSuperseded, [Next]_vars
  PROVE  CancelsSuperseded'
<1> USE DEF IInv, TypeOK, CancelsSuperseded
<1>1. CASE token' = token /\ previous' = previous /\ timer' \in {0, timer}
  BY <1>1
<1>2. ASSUME NEW c \in Clients, ClientStep(c) PROVE CancelsSuperseded'
  <2>1. CASE Schedule(c) /\ Debounced
    BY <2>1, ProcFacts DEF Schedule
  <2>2. CASE FlushImmediately(c)
    BY <2>2, ProcFacts DEF FlushImmediately
  <2>3. CASE CancelPrevious(c) \/ CancelPending(c)
    BY <2>3 DEF CancelPrevious, CancelPending, Cancel, coord
  <2>4. CASE (Schedule(c) /\ ~Debounced) \/ StartTimer(c) \/ Return(c)
    BY <2>4, <1>1 DEF Schedule, StartTimer, Return, coord
  <2>5. QED
    BY <1>2, <2>1, <2>2, <2>3, <2>4 DEF ClientStep
<1>3. CASE CrashAndRestore
  BY <1>3 DEF CrashAndRestore, NoTimer
<1>4. QED
  BY <1>1, <1>2, <1>3
     DEF Next, Request, RunImmediate, RunDeferred, Start, Shutdown, TimerStep, Expire,
         FlushDeferred, SaveStep, SaveFails, AcquirePersistLock, TakeSnapshot, OpenTemp,
         DumpTemp, ReplaceFile, BackgroundStep, LoopExit, AtRest, vars, coord, threads

\* What a step may leave alone of a covered promise.
LEMMA CoverKept ==
  ASSUME IInv, Covered, promised' = promised, disk' = disk,
         TimerWillFire => Covered',
         \A p \in Procs : WillSave(p) => Covered'
  PROVE  Covered'
BY DEF Covered

LEMMA RequestCovers ==
  ASSUME IInv, NEW c \in Clients, Request(c), Covered
  PROVE  Covered'
<1> USE DEF IInv, TypeOK
<1>1. CASE RunImmediate(c) \/ RunDeferred(c) \/ Shutdown(c)
  <2>1. Goto(c, "flush") \/ Goto(c, "schedule")
    BY <1>1 DEF RunImmediate, RunDeferred, Shutdown
  <2>2. WillSave(c)'
    BY <2>1, ProcFacts DEF Goto, WillSave, FlushPC
  <2>3. QED
    BY <2>2, ProcFacts DEF Covered
<1>2. CASE Start(c)
  BY <1>2 DEF Start, Covered, TimerWillFire, WillSave, coord, threads, files, history
<1>3. QED
  BY <1>1, <1>2 DEF Request

LEMMA ClientCovers ==
  ASSUME IInv, CancelsSuperseded, NEW c \in Clients, ClientStep(c), Covered
  PROVE  Covered'
<1> USE DEF IInv, TypeOK
<1>1. CASE Schedule(c) /\ Debounced
  <2>1. /\ token' = token + 1 /\ timer' = token + 1 /\ dirty' = TRUE
        /\ own' = [own EXCEPT ![c] = token + 1]
        /\ pc' = [pc EXCEPT ![c] = "cancelPrevious", ![token + 1] = "new"]
    BY <1>1 DEF Schedule
  <2>2. token + 1 \in Timers
    BY <1>1, ProcFacts DEF Schedule, Timers
  <2>3. TimerWillFire'
    BY <2>1, <2>2, ProcFacts DEF TimerWillFire
  <2>4. QED
    BY <2>3 DEF Covered
<1>2. CASE (Schedule(c) /\ ~Debounced) \/ FlushImmediately(c)
  <2>1. Goto(c, "flush") \/ Goto(c, "cancel")
    BY <1>2 DEF Schedule, FlushImmediately
  <2>2. WillSave(c)'
    BY <2>1, ProcFacts DEF Goto, WillSave, FlushPC
  <2>3. QED
    BY <2>2, ProcFacts DEF Covered
<1>3. CASE CancelPending(c)
  <2>1. WillSave(c)'
    BY <1>3, ProcFacts DEF CancelPending, Cancel, WillSave
  <2>2. QED
    BY <2>1, ProcFacts DEF Covered
<1>4. CASE CancelPrevious(c)
  <2>1. /\ pc[c] = "cancelPrevious"
        /\ pc' = [p \in Procs |->
                    IF p = c THEN "startTimer"
                    ELSE IF p = previous[c] /\ pc[p] \in {"new", "armed"} THEN "dead"
                    ELSE pc[p]]
    BY <1>4 DEF CancelPrevious, Cancel
  <2>2. /\ token' = token /\ timer' = timer /\ dirty' = dirty /\ own' = own
        /\ snap' = snap /\ disk' = disk /\ promised' = promised
    BY <1>4 DEF CancelPrevious, coord, files, history
  <2>3. ASSUME TimerWillFire PROVE TimerWillFire'
    <3>1. timer # previous[c] /\ timer # c /\ timer \in Procs
      BY <2>3, ProcFacts DEF TimerWillFire, CancelsSuperseded, Timers
    <3>2. pc'[timer] = pc[timer]
      BY <2>1, <3>1
    <3>3. ASSUME NEW d \in Clients, own[d] = timer, pc[d] \in {"cancelPrevious", "startTimer"}
          PROVE  own'[d] = timer' /\ pc'[d] \in {"cancelPrevious", "startTimer"}
      BY <2>1, <2>2, <3>3, ProcFacts
    <3>4. QED
      BY <2>2, <2>3, <3>2, <3>3 DEF TimerWillFire
  <2>4. ASSUME NEW p \in Procs, WillSave(p) PROVE WillSave(p)'
    BY <2>1, <2>2, <2>4 DEF WillSave, FlushPC
  <2>5. QED
    BY <2>2, <2>3, <2>4 DEF Covered
<1>5. CASE StartTimer(c)
  <2>1. /\ pc[c] = "startTimer"
        /\ own' = [own EXCEPT ![c] = 0]
        /\ pc' = [p \in Procs |->
                    IF p = c THEN "idle"
                    ELSE IF p = own[c] /\ pc[p] = "new" THEN "armed" ELSE pc[p]]
    BY <1>5 DEF StartTimer
  <2>2. /\ token' = token /\ timer' = timer /\ dirty' = dirty
        /\ snap' = snap /\ disk' = disk /\ promised' = promised
    BY <1>5 DEF StartTimer, coord, files
  <2>3. ASSUME TimerWillFire PROVE TimerWillFire'
    <3>1. timer \in Timers /\ timer \in Procs /\ timer # c
      BY <2>3, ProcFacts DEF TimerWillFire
    <3>2. CASE pc[timer] \in {"armed", "expired"}
      BY <2>1, <2>2, <2>3, <3>1, <3>2 DEF TimerWillFire
    <3>3. CASE pc[timer] = "new"
      <4>1. PICK d \in Clients : own[d] = timer /\ pc[d] \in {"cancelPrevious", "startTimer"}
        BY <2>3, <3>3 DEF TimerWillFire
      <4>2. CASE d = c
        BY <2>1, <2>2, <2>3, <3>1, <3>3, <4>1, <4>2 DEF TimerWillFire
      <4>3. CASE d # c
        <5>1. own'[d] = timer /\ pc'[d] = pc[d]
          BY <2>1, <4>1, <4>3, ProcFacts
        <5>2. pc'[timer] \in {"new", "armed"}
          BY <2>1, <3>1, <3>3
        <5>3. QED
          BY <2>2, <2>3, <3>1, <4>1, <5>1, <5>2 DEF TimerWillFire
      <4>4. QED
        BY <4>2, <4>3
    <3>4. QED
      BY <2>3, <3>2, <3>3 DEF TimerWillFire
  <2>4. ASSUME NEW p \in Procs, WillSave(p) PROVE WillSave(p)'
    BY <2>1, <2>2, <2>4 DEF WillSave, FlushPC
  <2>5. QED
    BY <2>2, <2>3, <2>4 DEF Covered
<1>6. CASE Return(c)
  <2>1. /\ pc[c] = "return" /\ pc' = [pc EXCEPT ![c] = "idle"]
        /\ token' = token /\ timer' = timer /\ dirty' = dirty /\ own' = own
        /\ snap' = snap /\ disk' = disk /\ promised' = promised
    BY <1>6 DEF Return, Goto, coord, files
  <2>2. TimerWillFire => TimerWillFire'
    BY <2>1, ProcFacts DEF TimerWillFire
  <2>3. \A p \in Procs : WillSave(p) => WillSave(p)'
    BY <2>1 DEF WillSave, FlushPC
  <2>4. QED
    BY <2>1, <2>2, <2>3 DEF Covered
<1>7. QED
  BY <1>1, <1>2, <1>3, <1>4, <1>5, <1>6 DEF ClientStep

LEMMA TimerCovers ==
  ASSUME IInv, NEW k \in Timers, TimerStep(k), Covered
  PROVE  Covered'
<1> USE DEF IInv, TypeOK
<1>1. PICK label \in {"expired", "dead", "persist"} :
        /\ pc' = [pc EXCEPT ![k] = label] /\ pc[k] \in {"armed", "expired"}
        /\ label = "expired" => dirty' = dirty /\ timer' = timer
        /\ label = "dead" => (k # token \/ ~dirty) /\ dirty' = dirty /\ timer' = timer
  BY DEF TimerStep, Expire, FlushDeferred, Goto, coord
<1>2. /\ token' = token /\ own' = own /\ snap' = snap /\ disk' = disk /\ promised' = promised
  BY DEF TimerStep, Expire, FlushDeferred, coord, files, history
<1>3. CASE label = "persist"
  <2>1. WillSave(k)'
    BY <1>1, <1>3, ProcFacts DEF WillSave
  <2>2. QED
    BY <2>1, ProcFacts DEF Covered
<1>4. CASE label # "persist"
  <2>1. ASSUME TimerWillFire PROVE TimerWillFire'
    <3>1. timer \in Timers /\ timer \in Procs /\ timer = token /\ dirty
      BY <2>1, ProcFacts DEF TimerWillFire
    <3>2. \A d \in Clients : pc'[d] = pc[d]
      BY <1>1, ProcFacts
    <3>3. CASE k = timer
      BY <1>1, <1>2, <1>4, <2>1, <3>1, <3>3, ProcFacts DEF TimerWillFire
    <3>4. CASE k # timer
      BY <1>1, <1>2, <1>4, <2>1, <3>1, <3>2, <3>4 DEF TimerWillFire
    <3>5. QED
      BY <3>3, <3>4
  <2>2. \A p \in Procs : WillSave(p) => WillSave(p)'
    BY <1>1, <1>2 DEF WillSave, FlushPC
  <2>3. QED
    BY <1>2, <2>1, <2>2 DEF Covered
<1>5. QED
  BY <1>3, <1>4

LEMMA SaveCovers ==
  ASSUME IInv, PromisedInMemory, NEW p \in Procs, SaveStep(p), Covered
  PROVE  Covered'
<1> USE DEF IInv, TypeOK
<1>1. PICK label \in {"snapshot", "open", "dump", "replace", "return", "dead"} :
        pc' = [pc EXCEPT ![p] = label] /\ pc[p] \in SavingPC
  BY DEF SaveStep, AcquirePersistLock, TakeSnapshot, OpenTemp, DumpTemp, ReplaceFile,
         Goto, Saved, SavingPC, HoldingPC
<1>2. /\ token' = token /\ timer' = timer /\ dirty' = dirty /\ own' = own
      /\ promised' = promised
      /\ disk' = disk \/ ReplaceFile(p)
  BY DEF SaveStep, AcquirePersistLock, TakeSnapshot, OpenTemp, DumpTemp, ReplaceFile,
         coord, files, history
<1>3. ASSUME TimerWillFire PROVE TimerWillFire'
  <2>1. timer \in Procs /\ \A d \in Clients : d \in Procs
    BY <1>3, ProcFacts DEF TimerWillFire
  <2>2. \A q \in Procs : pc[q] \notin SavingPC => pc'[q] = pc[q]
    BY <1>1
  <2>3. QED
    BY <1>2, <1>3, <2>1, <2>2 DEF TimerWillFire, SavingPC, HoldingPC
<1>4. /\ \A q \in Procs : q # p => snap'[q] = snap[q]
      /\ TakeSnapshot(p) => snap'[p] = version
      /\ AcquirePersistLock(p) \/ OpenTemp(p) \/ DumpTemp(p) => snap'[p] = snap[p]
  BY DEF SaveStep, AcquirePersistLock, TakeSnapshot, OpenTemp, DumpTemp, ReplaceFile
<1>5. ASSUME NEW q \in Procs, q # p, WillSave(q) PROVE WillSave(q)'
  BY <1>1, <1>2, <1>4, <1>5 DEF WillSave, FlushPC
<1>6. ASSUME WillSave(p) PROVE Covered'
  <2>1. CASE AcquirePersistLock(p)
    BY <2>1, <1>1 DEF AcquirePersistLock, Goto, WillSave, Covered
  <2>2. CASE TakeSnapshot(p)
    <3>1. pc'[p] = "open" /\ snap'[p] >= promised'
      BY <1>2, <1>4, <2>2 DEF TakeSnapshot, Goto, PromisedInMemory
    <3>2. QED
      BY <3>1 DEF WillSave, Covered
  <2>3. CASE OpenTemp(p) \/ DumpTemp(p)
    <3>1. pc[p] \in {"open", "dump"} /\ pc'[p] \in {"dump", "replace"}
      BY <2>3 DEF OpenTemp, DumpTemp, Goto
    <3>2. snap'[p] >= promised'
      BY <1>2, <1>4, <1>6, <2>3, <3>1 DEF WillSave, FlushPC
    <3>3. QED
      BY <3>1, <3>2 DEF WillSave, Covered
  <2>4. CASE ReplaceFile(p)
    <3>1. pc[p] = "replace" /\ disk' = snap[p] /\ snap[p] >= promised
      BY <1>6, <2>4 DEF ReplaceFile, WillSave, TempComplete, FlushPC
    <3>2. QED
      BY <1>2, <3>1 DEF Covered
  <2>5. QED
    BY <2>1, <2>2, <2>3, <2>4 DEF SaveStep
<1>7. ASSUME promised <= disk PROVE Covered'
  <2>1. CASE ReplaceFile(p)
    <3>1. [Next]_vars
      BY DEF Next
    <3>2. disk <= disk' /\ disk \in Nat /\ disk' \in Nat /\ promised' = promised
      BY <1>2, <2>1, <3>1, Step, ReplaceIInv, TypeStep, FreshStep DEF DiskBehind
    <3>3. QED
      BY <1>7, <3>2 DEF Covered
  <2>2. CASE disk' = disk
    BY <1>2, <1>7, <2>2 DEF Covered
  <2>3. QED
    BY <1>2, <2>1, <2>2
<1>8. QED
  BY <1>3, <1>5, <1>6, <1>7 DEF Covered

LEMMA PersistInvStep ==
  ASSUME PersistInv, [Next]_vars
  PROVE  PersistInv'
<1>1. IInv' /\ PromisedInMemory' /\ CancelsSuperseded'
  BY Step, PromisedStep, SupersededStep DEF PersistInv
<1>2. faults' = faults \/ \E p \in Procs : SaveFails(p)
  BY DEF Next, Request, RunImmediate, RunDeferred, Start, Shutdown,
     ClientStep, Schedule, CancelPrevious, StartTimer, FlushImmediately, CancelPending, Return,
     TimerStep, Expire, FlushDeferred, SaveStep, AcquirePersistLock, TakeSnapshot,
     OpenTemp, DumpTemp, ReplaceFile, BackgroundStep, LoopExit, CrashAndRestore, AtRest,
     vars, limits
<1>3. ASSUME faults' = 0 PROVE Covered'
  <2>1. ~(\E p \in Procs : SaveFails(p))
    BY <1>3 DEF SaveFails, PersistInv, IInv, TypeOK
  <2>2. faults = 0 /\ Covered
    BY <1>2, <1>3, <2>1 DEF PersistInv
  <2>3. CASE BackgroundStep \/ LoopExit \/ AtRest \/ UNCHANGED vars
    BY <2>2, <2>3 DEF BackgroundStep, LoopExit, AtRest, Covered, TimerWillFire, WillSave,
                      vars, coord, threads, files, history
  <2>4. CASE CrashAndRestore
    <3>1. promised' = version' /\ version' = disk /\ disk' = disk /\ disk \in Nat
      BY <2>4, CrashIInv, TypeStep, FreshStep
         DEF PersistInv, IInv, CrashAndRestore, files, DiskBehind
    <3>2. QED
      BY <3>1 DEF Covered
  <2>5. QED
    BY <2>1, <2>2, <2>3, <2>4, RequestCovers, ClientCovers, TimerCovers, SaveCovers
       DEF Next, PersistInv
<1>4. QED
  BY <1>1, <1>3 DEF PersistInv

\* In any order of schedules, flushes, cancels and expiries, by any number of
\* threads and through crashes: while the file is behind what a caller asked
\* to persist, somebody is on the way to save it.
THEOREM NothingLost == Spec => []NoLostPersist
<1>1. Init => PersistInv
  <2>1. Init => IInv
    BY InitIInv
  <2>2. Init => PromisedInMemory /\ CancelsSuperseded /\ Covered
    BY DEF Init, PromisedInMemory, CancelsSuperseded, Covered, NoTimer
  <2>3. QED
    BY <2>1, <2>2 DEF PersistInv
<1>2. PersistInv /\ [Next]_vars => PersistInv'
  BY PersistInvStep
<1>3. PersistInv => NoLostPersist
  BY DEF PersistInv, Covered, NoLostPersist
<1>4. QED
  BY <1>1, <1>2, <1>3, PTL DEF Spec

=============================================================================
