------------------------- MODULE SessionRegistry_proof -------------------------
(***************************************************************************)
(* Theorems about SessionRegistry, for any sessions, coordinators, cap and *)
(* finite set of handlers.                                                 *)
(***************************************************************************)
EXTENDS SessionRegistry, FiniteSetTheorems, SequenceTheorems, TLAPS

(***************************************************************************)
(* Sequences of coordinators.                                              *)
(***************************************************************************)

LEMMA BoundedSeqs ==
  ASSUME NEW q
  PROVE  q \in BoundedSeq(Coordinators, MaxSessions)
            <=> q \in Seq(Coordinators) /\ Len(q) <= MaxSessions
<1>1. ASSUME q \in Seq(Coordinators), Len(q) <= MaxSessions
      PROVE  q \in BoundedSeq(Coordinators, MaxSessions)
  <2>1. q \in [1 .. Len(q) -> Coordinators] /\ Len(q) \in 0 .. MaxSessions
    BY <1>1, RegistryAssumption
  <2>2. QED
    BY <2>1 DEF BoundedSeq, SeqOf
<1>2. ASSUME q \in BoundedSeq(Coordinators, MaxSessions)
      PROVE  q \in Seq(Coordinators) /\ Len(q) <= MaxSessions
  <2>1. PICK n \in 0 .. MaxSessions : q \in [1 .. n -> Coordinators]
    BY <1>2 DEF BoundedSeq, SeqOf
  <2>2. q \in Seq(Coordinators) /\ Len(q) = n
    BY <2>1
  <2>3. QED
    BY <2>1, <2>2, RegistryAssumption
<1>3. QED
  BY <1>1, <1>2

\* The place before of the entry that is at place k after place i moved to the end.
Place(k, i, len) == IF k < i THEN k ELSE IF k < len THEN k + 1 ELSE i

\* move_to_end keeps the entries, and sends each place to one of before.
LEMMA MovedToEnd ==
  ASSUME NEW q \in Seq(Coordinators), NEW i \in DOMAIN q, NEW n,
         n = Append(RemoveAt(q, i), q[i])
  PROVE  /\ n \in Seq(Coordinators) /\ Len(n) = Len(q)
         /\ \A k \in 1 .. Len(q) : n[k] = q[Place(k, i, Len(q))]
<1>1. i \in 1 .. Len(q) /\ Len(q) \in Nat
  OBVIOUS
<1>2. PICK a : a = SubSeq(q, 1, i - 1)
  OBVIOUS
<1>3. a \in Seq(Coordinators) /\ Len(a) = i - 1 /\ \A k \in 1 .. i - 1 : a[k] = q[k]
  BY <1>1, <1>2
<1>4. PICK b : b = SubSeq(q, i + 1, Len(q))
  OBVIOUS
<1>5. b \in Seq(Coordinators) /\ Len(b) = Len(q) - i
      /\ \A k \in 1 .. Len(q) - i : b[k] = q[k + i]
  BY <1>1, <1>4
<1>6. PICK c : c = a \o b
  OBVIOUS
<1>7. /\ c \in Seq(Coordinators) /\ Len(c) = Len(q) - 1
      /\ \A k \in 1 .. Len(q) - 1 : c[k] = IF k < i THEN q[k] ELSE q[k + 1]
  <2>1. c \in Seq(Coordinators) /\ Len(c) = Len(a) + Len(b)
    BY <1>3, <1>5, <1>6, ConcatProperties
  <2>2. \A k \in 1 .. Len(a) + Len(b) : c[k] = IF k <= Len(a) THEN a[k] ELSE b[k - Len(a)]
    BY <1>3, <1>5, <1>6, ConcatProperties
  <2>3. ASSUME NEW k \in 1 .. Len(q) - 1 PROVE c[k] = IF k < i THEN q[k] ELSE q[k + 1]
    <3>0. Len(a) \in Int /\ Len(b) \in Int /\ Len(a) = i - 1 /\ Len(b) = Len(q) - i
          /\ i \in Int /\ Len(q) \in Int /\ k \in Int /\ k \in 1 .. Len(a) + Len(b)
      BY <1>1, <1>3, <1>5
    <3>1. CASE k < i
      <4>1. k <= Len(a) /\ k \in 1 .. i - 1
        BY <3>0, <3>1
      <4>2. c[k] = a[k] /\ a[k] = q[k]
        BY <1>3, <2>2, <3>0, <4>1
      <4>3. QED
        BY <3>1, <4>2
    <3>2. CASE ~(k < i)
      <4>1. k - Len(a) \in 1 .. Len(q) - i /\ ~(k <= Len(a)) /\ (k - Len(a)) + i = k + 1
        <5>1. PICK la \in Int : la = Len(a)
          BY <3>0
        <5>2. PICK lb \in Int : lb = Len(b)
          BY <3>0
        <5>3. PICK lq \in Int : lq = Len(q)
          BY <3>0
        <5>4. /\ k - la \in 1 .. lq - i
              /\ ~(k <= la)
              /\ (k - la) + i = k + 1
          <6>1. la = i - 1 /\ lb = lq - i /\ i \in Int /\ k \in 1 .. la + lb
            BY <3>0, <5>1, <5>2, <5>3
          <6>2. i \in Int /\ k \in Int /\ k >= i /\ k <= (i - 1) + (lq - i) /\ k >= 1
            BY <3>0, <3>2, <6>1
          <6>3. k - (i - 1) \in Int /\ k - (i - 1) >= 1 /\ k - (i - 1) <= lq - i
            BY <6>2
          <6>4. ~(k <= i - 1) /\ (k - (i - 1)) + i = k + 1
            BY <6>2
          <6>5. k - la = k - (i - 1) /\ lq - i \in Int
            BY <6>1
          <6>6. QED
            BY <6>1, <6>3, <6>4, <6>5
        <5>5. QED
          BY <5>1, <5>3, <5>4
      <4>2. c[k] = b[k - Len(a)]
        BY <2>2, <3>0, <4>1
      <4>3. QED
        BY <1>5, <3>2, <4>1, <4>2
    <3>3. QED
      BY <3>1, <3>2
  <2>4. QED
    BY <1>1, <1>3, <1>5, <2>1, <2>3
<1>8. n = Append(c, q[i]) /\ q[i] \in Coordinators
  BY <1>1, <1>2, <1>4, <1>6 DEF RemoveAt
<1>9. /\ n \in Seq(Coordinators) /\ Len(n) = Len(q) /\ n[Len(q)] = q[i]
      /\ \A k \in 1 .. Len(q) - 1 : n[k] = c[k]
  BY <1>1, <1>7, <1>8
<1>10. ASSUME NEW k \in 1 .. Len(q)
       PROVE  n[k] = q[Place(k, i, Len(q))]
  <2>1. CASE k = Len(q)
    BY <1>1, <1>9, <2>1 DEF Place
  <2>2. CASE k # Len(q)
    <3>1. k \in 1 .. Len(q) - 1
      BY <1>1, <2>2
    <3>2. n[k] = IF k < i THEN q[k] ELSE q[k + 1]
      BY <1>7, <1>9, <3>1
    <3>3. QED
      BY <3>1, <3>2 DEF Place
  <2>3. QED
    BY <2>1, <2>2
<1>11. QED
  BY <1>9, <1>10

\* Place sends the places of a sequence to its places, onto them.
LEMMA Places ==
  ASSUME NEW len \in Nat, NEW i \in 1 .. len
  PROVE  /\ \A k \in 1 .. len : Place(k, i, len) \in 1 .. len
         /\ \A k, l \in 1 .. len : Place(k, i, len) = Place(l, i, len) => k = l
         /\ \A j \in 1 .. len : \E k \in 1 .. len : Place(k, i, len) = j
<1>1. \A k \in 1 .. len : Place(k, i, len) \in 1 .. len
  BY DEF Place
<1>2. \A k, l \in 1 .. len : Place(k, i, len) = Place(l, i, len) => k = l
  BY DEF Place
<1>3. ASSUME NEW j \in 1 .. len
      PROVE  \E k \in 1 .. len : Place(k, i, len) = j
  <2>1. CASE j < i
    <3>1. Place(j, i, len) = j
      BY <2>1 DEF Place
    <3>2. QED
      BY <3>1
  <2>2. CASE j = i
    <3>1. Place(len, i, len) = j /\ len \in 1 .. len
      BY <2>2 DEF Place
    <3>2. QED
      BY <3>1
  <2>3. CASE j > i
    <3>1. Place(j - 1, i, len) = j /\ j - 1 \in 1 .. len
      BY <2>3 DEF Place
    <3>2. QED
      BY <3>1
  <2>4. QED
    BY <2>1, <2>2, <2>3
<1>4. QED
  BY <1>1, <1>2, <1>3

LEMMA MovedRange ==
  ASSUME NEW q \in Seq(Coordinators), NEW i \in DOMAIN q, NEW n,
         n = Append(RemoveAt(q, i), q[i])
  PROVE  Range(n) = Range(q)
<1>1. /\ n \in Seq(Coordinators) /\ Len(n) = Len(q)
      /\ \A k \in 1 .. Len(q) : n[k] = q[Place(k, i, Len(q))]
  BY MovedToEnd
<1>0. Len(q) \in Nat /\ i \in 1 .. Len(q)
  OBVIOUS
<1>2. DOMAIN n = 1 .. Len(q) /\ DOMAIN q = 1 .. Len(q)
  <2>1. n \in Seq(Coordinators) /\ Len(n) = Len(q)
    BY <1>1
  <2>2. QED
    BY <2>1
<1>3. \A k \in DOMAIN n : \E j \in DOMAIN q : n[k] = q[j]
  <2> TAKE k \in DOMAIN n
  <2>1. Place(k, i, Len(q)) \in DOMAIN q
    BY <1>0, <1>2, Places
  <2>2. QED
    BY <1>1, <1>2, <2>1
<1>4. \A j \in DOMAIN q : \E k \in DOMAIN n : n[k] = q[j]
  <2> TAKE j \in DOMAIN q
  <2>1. PICK k \in 1 .. Len(q) : Place(k, i, Len(q)) = j
    BY <1>0, <1>2, Places
  <2>3. QED
    BY <1>1, <1>2, <2>1
<1>5. Range(n) \subseteq Range(q)
  BY <1>3 DEF Range
<1>6. Range(q) \subseteq Range(n)
  BY <1>4 DEF Range
<1>7. QED
  BY <1>5, <1>6

LEMMA HeadAndTail ==
  ASSUME NEW q \in Seq(Coordinators), q # << >>
  PROVE  /\ Head(q) = q[1] /\ Head(q) \in Coordinators /\ Head(q) \in Range(q)
         /\ Tail(q) \in Seq(Coordinators) /\ Len(Tail(q)) = Len(q) - 1 /\ Len(q) >= 1
         /\ \A k \in 1 .. Len(q) - 1 : Tail(q)[k] = q[k + 1]
         /\ Range(q) = {Head(q)} \cup Range(Tail(q))
<1>1. /\ Head(q) = q[1] /\ Head(q) \in Coordinators
      /\ Tail(q) \in Seq(Coordinators) /\ Len(Tail(q)) = Len(q) - 1 /\ Len(q) >= 1
      /\ \A k \in 1 .. Len(q) - 1 : Tail(q)[k] = q[k + 1]
      /\ DOMAIN q = 1 .. Len(q) /\ DOMAIN Tail(q) = 1 .. Len(q) - 1
  OBVIOUS
<1>2. \A k \in DOMAIN q : k = 1 \/ (k - 1 \in DOMAIN Tail(q) /\ Tail(q)[k - 1] = q[k])
  BY <1>1
<1>3. \A k \in DOMAIN Tail(q) : k + 1 \in DOMAIN q /\ Tail(q)[k] = q[k + 1]
  BY <1>1
<1>4. 1 \in DOMAIN q
  BY <1>1
<1>5. Range(q) \subseteq {Head(q)} \cup Range(Tail(q))
  <2> SUFFICES ASSUME NEW k \in DOMAIN q PROVE q[k] \in {Head(q)} \cup Range(Tail(q))
    BY DEF Range
  <2>1. QED
    BY <1>1, <1>2 DEF Range
<1>6. {Head(q)} \cup Range(Tail(q)) \subseteq Range(q)
  <2>1. Head(q) \in Range(q)
    BY <1>1, <1>4 DEF Range
  <2>2. ASSUME NEW k \in DOMAIN Tail(q) PROVE Tail(q)[k] \in Range(q)
    BY <1>3 DEF Range
  <2>3. QED
    BY <2>1, <2>2 DEF Range
<1>7. Range(q) = {Head(q)} \cup Range(Tail(q))
  BY <1>5, <1>6
<1>8. QED
  BY <1>1, <1>7

LEMMA AppendRange ==
  ASSUME NEW q \in Seq(Coordinators), NEW c \in Coordinators
  PROVE  Range(Append(q, c)) = Range(q) \cup {c}
<1>1. /\ DOMAIN q = 1 .. Len(q) /\ DOMAIN Append(q, c) = 1 .. Len(q) + 1
      /\ Append(q, c)[Len(q) + 1] = c /\ Len(q) \in Nat
      /\ \A k \in 1 .. Len(q) : Append(q, c)[k] = q[k]
  OBVIOUS
<1>2. Range(Append(q, c)) \subseteq Range(q) \cup {c}
  <2> SUFFICES ASSUME NEW k \in DOMAIN Append(q, c) PROVE Append(q, c)[k] \in Range(q) \cup {c}
    BY DEF Range
  <2>1. k = Len(q) + 1 \/ k \in DOMAIN q
    BY <1>1
  <2>2. QED
    BY <1>1, <2>1 DEF Range
<1>3. Range(q) \cup {c} \subseteq Range(Append(q, c))
  <2>1. c \in Range(Append(q, c))
    <3>1. Len(q) + 1 \in DOMAIN Append(q, c)
      BY <1>1
    <3>2. QED
      BY <1>1, <3>1 DEF Range
  <2>2. ASSUME NEW k \in DOMAIN q PROVE q[k] \in Range(Append(q, c))
    <3>1. k \in DOMAIN Append(q, c) /\ Append(q, c)[k] = q[k]
      BY <1>1
    <3>2. QED
      BY <3>1 DEF Range
  <2>3. QED
    BY <2>1, <2>2 DEF Range
<1>4. QED
  BY <1>2, <1>3

(***************************************************************************)
(* Types.                                                                  *)
(***************************************************************************)

\* A handler has the coordinators its next steps need.
HandlersHold ==
    \A h \in Handlers :
        /\ pc[h] # "idle" => held[h] \in Coordinators
        /\ pc[h] \in {"stop", "flush"} => evicted[h] \in Coordinators

Typed == TypeOK /\ HandlersHold

LEMMA Queues ==
  ASSUME TypeOK
  PROVE  /\ live \in Seq(Coordinators) /\ Len(live) <= MaxSessions
         /\ closing \in Seq(Coordinators) /\ Len(closing) <= MaxSessions
         /\ DOMAIN live = 1 .. Len(live) /\ DOMAIN closing = 1 .. Len(closing)
         /\ Len(live) \in Nat /\ Len(closing) \in Nat /\ MaxSessions \in Nat \ {0}
         /\ Range(live) \subseteq Coordinators /\ Range(closing) \subseteq Coordinators
<1>1. live \in Seq(Coordinators) /\ Len(live) <= MaxSessions
  BY BoundedSeqs DEF TypeOK
<1>2. closing \in Seq(Coordinators) /\ Len(closing) <= MaxSessions
  BY BoundedSeqs DEF TypeOK
<1>3. DOMAIN live = 1 .. Len(live) /\ DOMAIN closing = 1 .. Len(closing)
      /\ Len(live) \in Nat /\ Len(closing) \in Nat
  BY <1>1, <1>2
<1>4. Range(live) \subseteq Coordinators /\ Range(closing) \subseteq Coordinators
  <2>1. \A i \in DOMAIN live : live[i] \in Coordinators
    BY <1>1
  <2>2. \A i \in DOMAIN closing : closing[i] \in Coordinators
    BY <1>2
  <2>3. QED
    BY <2>1, <2>2 DEF Range
<1>5. QED
  BY <1>1, <1>2, <1>3, <1>4, RegistryAssumption

\* registry.get of a session that has no coordinator: c is made for it, and the
\* least recently used one leaves the registry when it was full.
LEMMA Created ==
  ASSUME TypeOK, NEW h \in Handlers, NEW s \in Sessions, Create(h, s)
  PROVE  \E c \in Coordinators :
            /\ Unused(c) /\ Constructed(c, s)
            /\ held' = [held EXCEPT ![h] = c]
            /\ \/ /\ live' = Append(live, c) /\ evicted' = evicted
                  /\ pc' = [pc EXCEPT ![h] = "act"] /\ Len(live) < MaxSessions
               \/ /\ live' = Tail(Append(live, c))
                  /\ evicted' = [evicted EXCEPT ![h] = Head(Append(live, c))]
                  /\ pc' = [pc EXCEPT ![h] = "stop"] /\ Len(live) = MaxSessions
<1>1. PICK c \in Coordinators : /\ Unused(c) /\ Constructed(c, s)
                               /\ Evict(h, Append(live, c))
                               /\ Give(h, c, IF Len(live) = MaxSessions THEN "stop" ELSE "act")
  BY DEF Create
<1>2. Len(Append(live, c)) = Len(live) + 1
  BY Queues
<1>3. Len(Append(live, c)) > MaxSessions <=> Len(live) = MaxSessions
  BY <1>2, Queues
<1>4. CASE Len(live) = MaxSessions
  <2>1. live' = Tail(Append(live, c)) /\ evicted' = [evicted EXCEPT ![h] = Head(Append(live, c))]
    BY <1>1, <1>3, <1>4 DEF Evict
  <2>2. held' = [held EXCEPT ![h] = c] /\ pc' = [pc EXCEPT ![h] = "stop"]
    BY <1>1, <1>4 DEF Give
  <2>3. QED
    BY <1>1, <1>4, <2>1, <2>2
<1>5. CASE Len(live) # MaxSessions
  <2>1. live' = Append(live, c) /\ evicted' = evicted
    BY <1>1, <1>3, <1>5 DEF Evict
  <2>2. held' = [held EXCEPT ![h] = c] /\ pc' = [pc EXCEPT ![h] = "act"]
    BY <1>1, <1>5 DEF Give
  <2>3. Len(live) < MaxSessions
    BY <1>5, Queues
  <2>4. QED
    BY <1>1, <2>1, <2>2, <2>3
<1>6. QED
  BY <1>4, <1>5

LEMMA TypeInit == Init => Typed
<1> SUFFICES ASSUME Init PROVE Typed
  OBVIOUS
<1>1. live \in BoundedSeq(Coordinators, MaxSessions) /\ closing \in BoundedSeq(Coordinators, MaxSessions)
  <2>1. << >> \in Seq(Coordinators) /\ Len(<< >>) <= MaxSessions
    BY RegistryAssumption
  <2>2. << >> \in BoundedSeq(Coordinators, MaxSessions)
    BY <2>1, BoundedSeqs
  <2>3. QED
    BY <2>2 DEF Init
<1>2. (CHOOSE s \in Sessions : TRUE) \in Sessions
  BY RegistryAssumption
<1>3. session \in [Coordinators -> Sessions]
  BY <1>2 DEF Init
<1>4. /\ edits \in [Coordinators -> SUBSET Edits] /\ file \in [Sessions -> SUBSET Edits]
      /\ acked \in [Sessions -> SUBSET Edits]
      /\ loop \in [Coordinators -> BOOLEAN] /\ timer \in [Coordinators -> BOOLEAN]
      /\ {up, overlapped} \subseteq BOOLEAN
  BY DEF Init
<1>5. /\ pc \in [Handlers -> {"idle", "stop", "flush", "act", "save"}]
      /\ held \in [Handlers -> Coordinators \cup {Nobody}]
      /\ evicted \in [Handlers -> Coordinators \cup {Nobody}]
      /\ HandlersHold
  BY DEF Init, HandlersHold
<1>6. last \in 0 .. MaxEdits /\ exits \in 0 .. MaxExits
  BY RegistryAssumption DEF Init
<1>7. QED
  BY <1>1, <1>3, <1>4, <1>5, <1>6 DEF Typed, TypeOK

LEMMA TypeStep == Typed /\ [Next]_vars => Typed'
<1> SUFFICES ASSUME Typed, [Next]_vars PROVE Typed'
  OBVIOUS
<1> USE DEF Typed
<1>0. /\ {up, overlapped} \subseteq BOOLEAN /\ MaxEdits \in Nat /\ last \in Int
      /\ \A h \in Handlers : pc[h] \in {"stop", "flush"} => evicted[h] \in Coordinators
      /\ \A h \in Handlers : pc[h] # "idle" => held[h] \in Coordinators
  BY RegistryAssumption DEF TypeOK, HandlersHold
<1>1. ASSUME NEW h \in Handlers, NEW s \in Sessions, Find(h, s) PROVE Typed'
  <2>1. PICK i \in DOMAIN live : live' = Append(RemoveAt(live, i), live[i]) /\ Give(h, live[i], "act")
    BY <1>1 DEF Find
  <2>2. live' \in Seq(Coordinators) /\ Len(live') = Len(live) /\ live[i] \in Coordinators
    <3>1. PICK n : n = live'
      OBVIOUS
    <3>2. live \in Seq(Coordinators) /\ i \in DOMAIN live
      BY Queues
    <3>3. n = Append(RemoveAt(live, i), live[i])
      BY <2>1, <3>1
    <3>4. n \in Seq(Coordinators) /\ Len(n) = Len(live)
      BY <3>2, <3>3, MovedToEnd
    <3>5. QED
      BY <3>1, <3>2, <3>4
  <2>3. live' \in BoundedSeq(Coordinators, MaxSessions)
    BY <2>2, BoundedSeqs, Queues
  <2>4. overlapped' \in BOOLEAN
    BY <1>1, <1>0, Zenon DEF Find, Overlap
  <2>5. /\ pc' \in [Handlers -> {"idle", "stop", "flush", "act", "save"}]
        /\ held' \in [Handlers -> Coordinators \cup {Nobody}]
        /\ HandlersHold'
    BY <1>1, <2>1, <2>2 DEF Find, Give, TypeOK, HandlersHold
  <2>6. QED
    BY <1>1, <2>3, <2>4, <2>5 DEF Find, TypeOK, objects
<1>2. ASSUME NEW h \in Handlers, NEW s \in Sessions, Create(h, s) PROVE Typed'
  <2>1. PICK c \in Coordinators :
            /\ Unused(c) /\ Constructed(c, s)
            /\ held' = [held EXCEPT ![h] = c]
            /\ \/ /\ live' = Append(live, c) /\ evicted' = evicted
                  /\ pc' = [pc EXCEPT ![h] = "act"] /\ Len(live) < MaxSessions
               \/ /\ live' = Tail(Append(live, c))
                  /\ evicted' = [evicted EXCEPT ![h] = Head(Append(live, c))]
                  /\ pc' = [pc EXCEPT ![h] = "stop"] /\ Len(live) = MaxSessions
    BY <1>2, Created
  <2>2. PICK q : q = Append(live, c)
    OBVIOUS
  <2>3. q \in Seq(Coordinators) /\ Len(q) = Len(live) + 1 /\ q # << >>
    BY <2>2, Queues
  <2>4. Head(q) \in Coordinators /\ Tail(q) \in Seq(Coordinators) /\ Len(Tail(q)) = Len(q) - 1
    BY <2>3, HeadAndTail
  <2>5. live' \in BoundedSeq(Coordinators, MaxSessions)
    <3>1. CASE live' = q /\ Len(live) < MaxSessions
      <4>1. Len(q) <= MaxSessions
        BY <2>3, <3>1, Queues
      <4>2. QED
        BY <2>3, <3>1, <4>1, BoundedSeqs
    <3>2. CASE live' = Tail(q) /\ Len(live) = MaxSessions
      <4>1. Len(Tail(q)) <= MaxSessions
        BY <2>3, <2>4, <3>2, Queues
      <4>2. QED
        BY <2>4, <3>2, <4>1, BoundedSeqs
    <3>3. QED
      BY <2>1, <2>2, <3>1, <3>2
  <2>6. /\ session' \in [Coordinators -> Sessions] /\ edits' \in [Coordinators -> SUBSET Edits]
        /\ timer' = timer
    BY <2>1 DEF Constructed, TypeOK
  <2>7. loop' \in [Coordinators -> BOOLEAN]
    BY <2>1, Zenon DEF Constructed, TypeOK
  <2>8. overlapped' \in BOOLEAN
    BY <1>2, <1>0, Zenon DEF Create, Overlap
  <2>9. /\ pc' \in [Handlers -> {"idle", "stop", "flush", "act", "save"}]
        /\ held' \in [Handlers -> Coordinators \cup {Nobody}]
        /\ evicted' \in [Handlers -> Coordinators \cup {Nobody}]
        /\ HandlersHold'
    BY <2>1, <2>2, <2>4, <1>2 DEF Create, TypeOK, HandlersHold
  <2>10. QED
    BY <1>2, <2>5, <2>6, <2>7, <2>8, <2>9 DEF Create, TypeOK
<1>3. ASSUME NEW h \in Handlers, StopEvicted(h) PROVE Typed'
  <2>1. loop' \in [Coordinators -> BOOLEAN]
    BY <1>0, <1>3, Zenon DEF StopEvicted, TypeOK
  <2>2. pc' \in [Handlers -> {"idle", "stop", "flush", "act", "save"}] /\ HandlersHold'
    BY <1>3 DEF StopEvicted, TypeOK, HandlersHold
  <2>3. QED
    BY <1>3, <2>1, <2>2 DEF StopEvicted, TypeOK
<1>4. ASSUME NEW c \in Coordinators, Flush(c)
      PROVE  /\ timer' \in [Coordinators -> BOOLEAN]
             /\ file' \in [Sessions -> SUBSET Edits]
  <2>1. timer' \in [Coordinators -> BOOLEAN]
    BY <1>4, Zenon DEF Flush, TypeOK
  <2>2. file' \in [Sessions -> SUBSET Edits]
    BY <1>4 DEF Flush, Save, TypeOK
  <2>3. QED
    BY <2>1, <2>2
<1>5. ASSUME NEW c \in Coordinators, NewEdit(c)
      PROVE  /\ last' \in 0 .. MaxEdits /\ last + 1 \in Edits
             /\ edits' \in [Coordinators -> SUBSET Edits]
  <2>1. last' \in 0 .. MaxEdits /\ last + 1 \in Edits
    BY <1>0, <1>5 DEF NewEdit, TypeOK, Edits
  <2>2. edits' \in [Coordinators -> SUBSET Edits]
    BY <1>5, <2>1 DEF NewEdit, TypeOK
  <2>3. QED
    BY <2>1, <2>2
<1>6. ASSUME NEW h \in Handlers, Done(h)
      PROVE  /\ pc' \in [Handlers -> {"idle", "stop", "flush", "act", "save"}]
             /\ held' \in [Handlers -> Coordinators \cup {Nobody}]
             /\ evicted' = evicted => HandlersHold'
  BY <1>6 DEF Done, TypeOK, HandlersHold
<1>7. ASSUME NEW h \in Handlers, FlushEvicted(h) PROVE Typed'
  <2>1. timer' \in [Coordinators -> BOOLEAN] /\ file' \in [Sessions -> SUBSET Edits]
    BY <1>0, <1>4, <1>7 DEF FlushEvicted
  <2>2. /\ pc' \in [Handlers -> {"idle", "stop", "flush", "act", "save"}]
        /\ evicted' \in [Handlers -> Coordinators \cup {Nobody}]
        /\ HandlersHold'
    BY <1>7 DEF FlushEvicted, TypeOK, HandlersHold
  <2>3. QED
    BY <1>7, <2>1, <2>2 DEF FlushEvicted, TypeOK
<1>8. ASSUME NEW h \in Handlers, Read(h) PROVE Typed'
  BY <1>6, <1>8 DEF Read, TypeOK, objects
<1>9. ASSUME NEW h \in Handlers, EditDeferred(h) PROVE Typed'
  <2>1. held[h] \in Coordinators
    BY <1>0, <1>9 DEF EditDeferred
  <2>2. /\ last' \in 0 .. MaxEdits /\ last + 1 \in Edits
        /\ edits' \in [Coordinators -> SUBSET Edits]
    BY <1>5, <1>9, <2>1 DEF EditDeferred
  <2>3. timer' \in [Coordinators -> BOOLEAN]
    BY <1>9, <2>1, Zenon DEF EditDeferred, TypeOK
  <2>4. acked' \in [Sessions -> SUBSET Edits]
    BY <1>9, <2>1, <2>2 DEF EditDeferred, TypeOK
  <2>5. QED
    BY <1>6, <1>9, <2>2, <2>3, <2>4 DEF EditDeferred, TypeOK
<1>10. ASSUME NEW h \in Handlers, EditImmediate(h) PROVE Typed'
  <2>1. held[h] \in Coordinators
    BY <1>0, <1>10 DEF EditImmediate
  <2>2. last' \in 0 .. MaxEdits /\ edits' \in [Coordinators -> SUBSET Edits]
    BY <1>5, <1>10, <2>1 DEF EditImmediate
  <2>3. pc' \in [Handlers -> {"idle", "stop", "flush", "act", "save"}] /\ HandlersHold'
    BY <1>10 DEF EditImmediate, TypeOK, HandlersHold
  <2>4. QED
    BY <1>10, <2>2, <2>3 DEF EditImmediate, TypeOK
<1>11. ASSUME NEW h \in Handlers, SaveImmediate(h) PROVE Typed'
  <2>1. held[h] \in Coordinators
    BY <1>0, <1>11 DEF SaveImmediate
  <2>2. timer' \in [Coordinators -> BOOLEAN] /\ file' \in [Sessions -> SUBSET Edits]
    BY <1>4, <1>11, <2>1 DEF SaveImmediate
  <2>3. acked' \in [Sessions -> SUBSET Edits]
    BY <1>11, <2>1 DEF SaveImmediate, TypeOK
  <2>4. QED
    BY <1>6, <1>11, <2>2, <2>3 DEF SaveImmediate, TypeOK
<1>12. ASSUME NEW c \in Coordinators, TimerFires(c) PROVE Typed'
  BY <1>4, <1>12 DEF TimerFires, TypeOK, HandlersHold, handlers
<1>13. ASSUME NEW c \in Coordinators, Tick(c) PROVE Typed'
  BY <1>5, <1>13 DEF Tick, TypeOK, HandlersHold, handlers
<1>14. ASSUME Exit PROVE Typed'
  <2>1. << >> \in BoundedSeq(Coordinators, MaxSessions)
    <3>1. << >> \in Seq(Coordinators) /\ Len(<< >>) <= MaxSessions
      BY RegistryAssumption
    <3>2. QED
      BY <3>1, BoundedSeqs
  <2>2. {up', overlapped'} \subseteq BOOLEAN
    BY <1>0, <1>14, Zenon DEF Exit, Overlap
  <2>3. exits' \in 0 .. MaxExits
    BY <1>14, RegistryAssumption DEF Exit, TypeOK
  <2>4. QED
    BY <1>14, <2>1, <2>2, <2>3 DEF Exit, TypeOK, HandlersHold, handlers, objects
<1>15. ASSUME CloseNext PROVE Typed'
  <2>1. Head(closing) \in Coordinators /\ closing' \in Seq(Coordinators) /\ Len(closing') = Len(closing) - 1
    BY <1>15, HeadAndTail, Queues DEF CloseNext
  <2>2. closing' \in BoundedSeq(Coordinators, MaxSessions)
    <3>1. Len(closing') <= MaxSessions
      BY <2>1, Queues
    <3>2. QED
      BY <2>1, <3>1, BoundedSeqs
  <2>3. timer' \in [Coordinators -> BOOLEAN] /\ file' \in [Sessions -> SUBSET Edits]
    BY <1>4, <1>15, <2>1 DEF CloseNext
  <2>4. loop' \in [Coordinators -> BOOLEAN]
    BY <1>15, <2>1, Zenon DEF CloseNext, TypeOK
  <2>5. QED
    BY <1>15, <2>2, <2>3, <2>4 DEF CloseNext, TypeOK, HandlersHold, handlers
<1>16. ASSUME Reboot PROVE Typed'
  <2>1. {up', overlapped'} \subseteq BOOLEAN
    BY <1>0, <1>16, Zenon DEF Reboot
  <2>2. closing' \in BoundedSeq(Coordinators, MaxSessions) /\ live' = closing'
    BY <1>16 DEF Reboot, TypeOK
  <2>3. QED
    BY <1>16, <2>1, <2>2 DEF Reboot, TypeOK, HandlersHold
<1>17. CASE UNCHANGED vars
  BY <1>17 DEF vars, objects, handlers, TypeOK, HandlersHold
<1>18. QED
  BY <1>1, <1>2, <1>3, <1>7, <1>8, <1>9, <1>10, <1>11, <1>12, <1>13, <1>14, <1>15, <1>16, <1>17
     DEF Next, Handle


(***************************************************************************)
(* The registry: what it holds is alive, and few threads run.              *)
(***************************************************************************)

\* The entries of q have different values of f.
Apart(q, f) == \A i, j \in DOMAIN q : f[q[i]] = f[q[j]] => i = j

LEMMA MovedApart ==
  ASSUME NEW q \in Seq(Coordinators), NEW i \in DOMAIN q, NEW n, NEW f,
         n = Append(RemoveAt(q, i), q[i]), Apart(q, f)
  PROVE  Apart(n, f)
<1>1. /\ n \in Seq(Coordinators) /\ Len(n) = Len(q)
      /\ \A k \in 1 .. Len(q) : n[k] = q[Place(k, i, Len(q))]
  BY MovedToEnd
<1>2. DOMAIN n = 1 .. Len(q) /\ DOMAIN q = 1 .. Len(q) /\ Len(q) \in Nat /\ i \in 1 .. Len(q)
  <2>1. n \in Seq(Coordinators) /\ Len(n) = Len(q)
    BY <1>1
  <2>2. QED
    BY <2>1
<1>3. ASSUME NEW k \in DOMAIN n, NEW l \in DOMAIN n, f[n[k]] = f[n[l]] PROVE k = l
  <2>1. Place(k, i, Len(q)) \in DOMAIN q /\ Place(l, i, Len(q)) \in DOMAIN q
    BY <1>2, Places
  <2>2. Place(k, i, Len(q)) = Place(l, i, Len(q))
    BY <1>1, <1>2, <1>3, <2>1 DEF Apart
  <2>3. QED
    BY <1>2, <2>2, Places
<1>4. QED
  BY <1>3 DEF Apart

LEMMA AppendApart ==
  ASSUME NEW q \in Seq(Coordinators), NEW c \in Coordinators, NEW s, NEW f, NEW g, NEW n,
         Apart(q, f), c \notin Range(q), \A d \in Range(q) : f[d] # s,
         \A d \in Range(q) : g[d] = f[d], g[c] = s, n = Append(q, c)
  PROVE  Apart(n, g)
<1>1. /\ DOMAIN q = 1 .. Len(q) /\ DOMAIN n = 1 .. Len(q) + 1
      /\ n[Len(q) + 1] = c /\ Len(q) \in Nat
      /\ \A k \in 1 .. Len(q) : n[k] = q[k]
  OBVIOUS
<1>2. \A k \in DOMAIN n : k = Len(q) + 1 \/ k \in DOMAIN q
  BY <1>1
<1>3. \A k \in DOMAIN q : n[k] \in Range(q) /\ g[n[k]] = f[q[k]] /\ f[q[k]] # s
  BY <1>1 DEF Range
<1>4. g[n[Len(q) + 1]] = s
  BY <1>1
<1>5. QED
  BY <1>2, <1>3, <1>4 DEF Apart

LEMMA TailApart ==
  ASSUME NEW q \in Seq(Coordinators), q # << >>, NEW f, Apart(q, f)
  PROVE  Apart(Tail(q), f) /\ Head(q) \notin Range(Tail(q))
<1>1. /\ DOMAIN q = 1 .. Len(q) /\ DOMAIN Tail(q) = 1 .. Len(q) - 1 /\ Len(q) \in Nat
      /\ \A k \in 1 .. Len(q) - 1 : Tail(q)[k] = q[k + 1]
      /\ Head(q) = q[1] /\ 1 \in DOMAIN q
  OBVIOUS
<1>2. \A k \in DOMAIN Tail(q) : k + 1 \in DOMAIN q /\ Tail(q)[k] = q[k + 1] /\ k + 1 # 1
  BY <1>1
<1>3. Apart(Tail(q), f)
  <2> SUFFICES ASSUME NEW k \in DOMAIN Tail(q), NEW l \in DOMAIN Tail(q),
                      f[Tail(q)[k]] = f[Tail(q)[l]]
               PROVE  k = l
    BY DEF Apart
  <2>1. k + 1 = l + 1
    BY <1>2 DEF Apart
  <2>2. QED
    BY <1>1, <2>1
<1>4. Head(q) \notin Range(Tail(q))
  <2> SUFFICES ASSUME NEW k \in DOMAIN Tail(q), Tail(q)[k] = Head(q) PROVE FALSE
    BY DEF Range
  <2>1. q[k + 1] = q[1] /\ k + 1 \in DOMAIN q
    BY <1>1, <1>2
  <2>2. k + 1 = 1
    BY <1>1, <2>1 DEF Apart
  <2>3. QED
    BY <1>2, <2>2
<1>5. QED
  BY <1>3, <1>4

\* Who runs a background loop: the registered, and those still to be shut down.
LoopsOwned ==
    \A c \in Coordinators :
        loop[c] => \/ c \in Range(live) \cup Range(closing)
                   \/ \E h \in Handlers : pc[h] = "stop" /\ evicted[h] = c

\* The inductive invariant: what eviction or the exit is about to stop is not
\* registered, and the process has nothing to close before its exit.
Alive ==
    /\ Apart(live, session)
    /\ \A c \in Range(live) : loop[c]
    /\ \A h \in Handlers : pc[h] = "stop" => evicted[h] \notin Range(live)
    /\ \A c \in Range(closing) : c \notin Range(live)
    /\ up => closing = << >>
    /\ LoopsOwned

\* A step that changes nothing the registry's invariant is about.
LEMMA AliveKept ==
  ASSUME Alive, UNCHANGED <<live, session, loop, up, closing, evicted>>,
         \A h \in Handlers : pc'[h] = "stop" <=> pc[h] = "stop"
  PROVE  Alive'
BY DEF Alive, Apart, LoopsOwned

\* What a create does to the registry.
LEMMA CreatedAlive ==
  ASSUME Typed, Alive, NEW h \in Handlers, NEW s \in Sessions, Create(h, s)
  PROVE  \E c \in Coordinators :
            /\ Unused(c) /\ Constructed(c, s) /\ c \in Range(live')
            /\ held' = [held EXCEPT ![h] = c]
            /\ Apart(live', session')
            /\ \/ /\ pc' = [pc EXCEPT ![h] = "act"] /\ evicted' = evicted
                  /\ Range(live') = Range(live) \cup {c}
               \/ /\ pc' = [pc EXCEPT ![h] = "stop"]
                  /\ \E old \in Range(live) :
                        /\ evicted' = [evicted EXCEPT ![h] = old]
                        /\ old \notin Range(live')
                        /\ Range(live) \cup {c} = Range(live') \cup {old}
<1>1. PICK c \in Coordinators :
            /\ Unused(c) /\ Constructed(c, s)
            /\ held' = [held EXCEPT ![h] = c]
            /\ \/ /\ live' = Append(live, c) /\ evicted' = evicted
                  /\ pc' = [pc EXCEPT ![h] = "act"] /\ Len(live) < MaxSessions
               \/ /\ live' = Tail(Append(live, c))
                  /\ evicted' = [evicted EXCEPT ![h] = Head(Append(live, c))]
                  /\ pc' = [pc EXCEPT ![h] = "stop"] /\ Len(live) = MaxSessions
  BY Created DEF Typed
<1>2. PICK q : q = Append(live, c)
  OBVIOUS
<1>3. PICK g : g = session'
  OBVIOUS
<1>4. /\ live \in Seq(Coordinators) /\ Len(live) \in Nat /\ Range(live) \subseteq Coordinators
      /\ MaxSessions \in Nat \ {0}
  BY Queues DEF Typed
<1>5. q \in Seq(Coordinators) /\ Len(q) = Len(live) + 1 /\ q # << >> /\ Range(q) = Range(live) \cup {c}
  <2>1. Range(q) = Range(live) \cup {c}
    BY <1>2, <1>4, AppendRange
  <2>2. QED
    BY <1>2, <1>4, <2>1
<1>6. c \notin Range(live)
  BY <1>1 DEF Unused
<1>7. g[c] = s /\ \A d \in Range(live) : g[d] = session[d]
  BY <1>1, <1>3, <1>4, <1>6 DEF Constructed, Typed, TypeOK
<1>8. Apart(q, g)
  <2>1. \A d \in Range(live) : session[d] # s
    BY DEF Create
  <2>2. Apart(live, session)
    BY DEF Alive
  <2>3. QED
    BY <1>2, <1>4, <1>6, <1>7, <2>1, <2>2, AppendApart
<1>9. CASE live' = q /\ evicted' = evicted /\ pc' = [pc EXCEPT ![h] = "act"]
  <2>1. Apart(live', session')
    BY <1>3, <1>8, <1>9
  <2>2. Range(live') = Range(live) \cup {c}
    BY <1>5, <1>9
  <2>3. QED
    BY <1>1, <1>9, <2>1, <2>2
<1>10. CASE /\ live' = Tail(q) /\ evicted' = [evicted EXCEPT ![h] = Head(q)]
            /\ pc' = [pc EXCEPT ![h] = "stop"] /\ Len(live) = MaxSessions
  <2>1. Apart(Tail(q), g) /\ Head(q) \notin Range(Tail(q))
    BY <1>5, <1>8, TailApart
  <2>2. Range(q) = {Head(q)} \cup Range(Tail(q)) /\ Head(q) = q[1]
    BY <1>5, HeadAndTail
  <2>3. Head(q) = live[1] /\ 1 \in DOMAIN live
    BY <1>2, <1>4, <1>10, <2>2
  <2>4. Head(q) \in Range(live)
    BY <2>3 DEF Range
  <2>5. PICK old \in Range(live) : old = Head(q)
    BY <2>4
  <2>6. old \notin Range(live') /\ Range(live) \cup {c} = Range(live') \cup {old}
    BY <1>5, <1>10, <2>1, <2>2, <2>5
  <2>7. Apart(live', session') /\ c \in Range(live') /\ evicted' = [evicted EXCEPT ![h] = old]
    BY <1>3, <1>6, <1>10, <2>1, <2>5, <2>6
  <2>8. QED
    BY <1>1, <1>10, <2>5, <2>6, <2>7
<1>11. QED
  BY <1>1, <1>2, <1>9, <1>10

LEMMA AliveInit == Init => Alive
<1> SUFFICES ASSUME Init PROVE Alive
  OBVIOUS
<1>1. live = << >> /\ closing = << >> /\ up = TRUE
  BY DEF Init
<1>2. DOMAIN live = {} /\ Range(live) = {} /\ Range(closing) = {}
  BY <1>1 DEF Range
<1>3. \A c \in Coordinators : ~loop[c]
  BY DEF Init
<1>4. \A h \in Handlers : pc[h] # "stop"
  BY DEF Init
<1>5. QED
  BY <1>1, <1>2, <1>3, <1>4 DEF Alive, Apart, LoopsOwned

LEMMA AliveStep == Typed /\ Alive /\ [Next]_vars => Alive'
<1> SUFFICES ASSUME Typed, Alive, [Next]_vars PROVE Alive'
  OBVIOUS
<1>0. /\ pc \in [Handlers -> {"idle", "stop", "flush", "act", "save"}]
      /\ evicted \in [Handlers -> Coordinators \cup {Nobody}]
      /\ loop \in [Coordinators -> BOOLEAN] /\ up \in BOOLEAN
      /\ Range(live) \subseteq Coordinators
      /\ \A h \in Handlers : pc[h] \in {"stop", "flush"} => evicted[h] \in Coordinators
  BY Queues DEF Typed, TypeOK, HandlersHold
<1>1. ASSUME NEW h \in Handlers, NEW s \in Sessions, Find(h, s) PROVE Alive'
  <2>1. PICK i \in DOMAIN live : live' = Append(RemoveAt(live, i), live[i]) /\ Give(h, live[i], "act")
    BY <1>1 DEF Find
  <2>2. PICK n : n = live'
    OBVIOUS
  <2>3. live \in Seq(Coordinators) /\ n = Append(RemoveAt(live, i), live[i]) /\ Apart(live, session)
    BY <2>1, <2>2, Queues DEF Typed, Alive
  <2>4. Apart(n, session) /\ Range(n) = Range(live)
    BY <2>3, MovedApart, MovedRange
  <2>5. Apart(live', session') /\ Range(live') = Range(live)
    BY <1>1, <2>2, <2>4 DEF Find, objects
  <2>6. \A g \in Handlers : pc'[g] = "stop" <=> pc[g] = "stop"
    BY <1>0, <1>1, <2>1 DEF Find, Give
  <2>7. UNCHANGED <<loop, up, closing, evicted>>
    BY <1>1 DEF Find, objects
  <2>8. QED
    BY <2>5, <2>6, <2>7 DEF Alive, LoopsOwned
<1>2. ASSUME NEW h \in Handlers, NEW s \in Sessions, Create(h, s) PROVE Alive'
  <2>1. PICK c \in Coordinators :
            /\ Unused(c) /\ Constructed(c, s) /\ c \in Range(live')
            /\ held' = [held EXCEPT ![h] = c]
            /\ Apart(live', session')
            /\ \/ /\ pc' = [pc EXCEPT ![h] = "act"] /\ evicted' = evicted
                  /\ Range(live') = Range(live) \cup {c}
               \/ /\ pc' = [pc EXCEPT ![h] = "stop"]
                  /\ \E old \in Range(live) :
                        /\ evicted' = [evicted EXCEPT ![h] = old]
                        /\ old \notin Range(live')
                        /\ Range(live) \cup {c} = Range(live') \cup {old}
    BY <1>2, CreatedAlive
  <2>2. loop' = [loop EXCEPT ![c] = TRUE] /\ up' = up /\ closing' = closing /\ pc[h] = "idle"
    BY <1>2, <2>1 DEF Constructed, Create
  <2>3. \A d \in Coordinators : loop'[d] <=> loop[d] \/ d = c
    BY <1>0, <2>2, Zenon
  <2>4. c \notin Range(closing) /\ \A g \in Handlers : evicted[g] # c
    BY <2>1 DEF Unused
  <2>5. Range(live') \subseteq Range(live) \cup {c}
    BY <2>1
  <2>6. \A d \in Range(live') : loop'[d]
    BY <1>0, <2>3, <2>5 DEF Alive
  <2>7. \A g \in Handlers : pc'[g] = "stop" => evicted'[g] \notin Range(live')
    <3> SUFFICES ASSUME NEW g \in Handlers, pc'[g] = "stop" PROVE evicted'[g] \notin Range(live')
      OBVIOUS
    <3>1. CASE g = h
      BY <1>0, <2>1, <3>1
    <3>2. CASE g # h
      <4>1. pc[g] = "stop" /\ evicted'[g] = evicted[g]
        BY <1>0, <2>1, <3>2
      <4>2. QED
        BY <2>4, <2>5, <4>1 DEF Alive
    <3>3. QED
      BY <3>1, <3>2
  <2>8. LoopsOwned'
    <3> SUFFICES ASSUME NEW d \in Coordinators, loop'[d], d \notin Range(live'),
                        d \notin Range(closing')
                 PROVE  \E g \in Handlers : pc'[g] = "stop" /\ evicted'[g] = d
      BY DEF LoopsOwned
    <3>1. d # c /\ loop[d]
      BY <2>1, <2>3
    <3>2. CASE d \in Range(live)
      <4>1. pc' = [pc EXCEPT ![h] = "stop"] /\ evicted' = [evicted EXCEPT ![h] = d]
        BY <2>1, <3>1, <3>2
      <4>2. QED
        BY <1>0, <4>1
    <3>3. CASE d \notin Range(live)
      <4>1. PICK g \in Handlers : pc[g] = "stop" /\ evicted[g] = d
        BY <2>2, <3>1, <3>3 DEF Alive, LoopsOwned
      <4>2. g # h
        BY <2>2, <4>1
      <4>3. pc'[g] = "stop" /\ evicted'[g] = d
        BY <1>0, <2>1, <4>1, <4>2
      <4>4. QED
        BY <4>3
    <3>4. QED
      BY <3>2, <3>3
  <2>9. \A d \in Range(closing') : d \notin Range(live')
    BY <2>2, <2>4, <2>5 DEF Alive
  <2>10. QED
    BY <2>1, <2>2, <2>6, <2>7, <2>8, <2>9 DEF Alive
<1>3. ASSUME NEW h \in Handlers, StopEvicted(h) PROVE Alive'
  <2>1. /\ pc[h] = "stop" /\ evicted[h] \in Coordinators /\ evicted[h] \notin Range(live)
        /\ UNCHANGED <<live, session, evicted, up, closing>>
    BY <1>0, <1>3 DEF StopEvicted, Alive
  <2>2. \A c \in Coordinators : loop'[c] <=> loop[c] /\ c # evicted[h]
    BY <1>0, <1>3, <2>1, Zenon DEF StopEvicted
  <2>3. \A g \in Handlers : pc'[g] = "stop" <=> pc[g] = "stop" /\ g # h
    BY <1>0, <1>3 DEF StopEvicted
  <2>4. LoopsOwned'
    <3> SUFFICES ASSUME NEW c \in Coordinators, loop[c], c # evicted[h], c \notin Range(live),
                        c \notin Range(closing)
                 PROVE  \E g \in Handlers : pc'[g] = "stop" /\ evicted[g] = c
      BY <2>1, <2>2 DEF LoopsOwned
    <3>1. PICK g \in Handlers : pc[g] = "stop" /\ evicted[g] = c
      BY DEF Alive, LoopsOwned
    <3>2. QED
      BY <2>3, <3>1
  <2>5. \A c \in Range(live) : loop'[c]
    BY <1>0, <2>1, <2>2 DEF Alive
  <2>6. QED
    BY <2>1, <2>3, <2>4, <2>5 DEF Alive, Apart
<1>4. ASSUME NEW h \in Handlers, FlushEvicted(h) PROVE Alive'
  <2>1. /\ pc[h] = "flush" /\ UNCHANGED <<live, session, loop, up, closing>>
        /\ pc' = [pc EXCEPT ![h] = "act"] /\ evicted' = [evicted EXCEPT ![h] = Nobody]
    BY <1>4 DEF FlushEvicted
  <2>2. \A g \in Handlers : /\ pc'[g] = "stop" <=> pc[g] = "stop"
                            /\ pc[g] = "stop" => evicted'[g] = evicted[g]
    BY <1>0, <2>1
  <2>3. QED
    BY <2>1, <2>2 DEF Alive, Apart, LoopsOwned
<1>5. ASSUME NEW h \in Handlers, Read(h) \/ EditDeferred(h) \/ EditImmediate(h) \/ SaveImmediate(h)
      PROVE  Alive'
  <2>1. UNCHANGED <<live, session, loop, up, closing, evicted>>
    BY <1>5 DEF Read, EditDeferred, EditImmediate, SaveImmediate, objects
  <2>2. \E l \in {"idle", "save"} : pc' = [pc EXCEPT ![h] = l]
    BY <1>5 DEF Read, EditDeferred, EditImmediate, SaveImmediate, Done
  <2>3. pc[h] # "stop"
    BY <1>5 DEF Read, EditDeferred, EditImmediate, SaveImmediate
  <2>4. \A g \in Handlers : pc'[g] = "stop" <=> pc[g] = "stop"
    BY <1>0, <2>2, <2>3
  <2>5. QED
    BY <2>1, <2>4, AliveKept
<1>6. ASSUME NEW c \in Coordinators, TimerFires(c) \/ Tick(c) PROVE Alive'
  <2>1. UNCHANGED <<live, session, loop, up, closing, evicted, pc>>
    BY <1>6 DEF TimerFires, Tick, handlers
  <2>2. QED
    BY <2>1, AliveKept
<1>7. ASSUME Exit PROVE Alive'
  <2>1. /\ live' = << >> /\ closing' = live /\ up /\ up' = FALSE
        /\ UNCHANGED <<loop, pc, evicted>>
    BY <1>7 DEF Exit, objects, handlers
  <2>2. DOMAIN live' = {} /\ Range(live') = {} /\ Range(closing) = {} /\ Range(closing') = Range(live)
    BY <2>1 DEF Range, Alive
  <2>3. LoopsOwned'
    BY <2>1, <2>2 DEF Alive, LoopsOwned
  <2>4. QED
    BY <2>1, <2>2, <2>3 DEF Alive, Apart
<1>8. ASSUME CloseNext PROVE Alive'
  <2>1. /\ ~up /\ closing # << >> /\ closing' = Tail(closing)
        /\ loop' = [loop EXCEPT ![Head(closing)] = FALSE]
        /\ UNCHANGED <<live, session, up, evicted, pc>>
    BY <1>8 DEF CloseNext, handlers
  <2>2. closing \in Seq(Coordinators)
    BY Queues DEF Typed
  <2>3. PICK e \in Coordinators : e = Head(closing)
    BY <2>1, <2>2, HeadAndTail
  <2>4. Range(closing) = {e} \cup Range(closing')
    BY <2>1, <2>2, <2>3, HeadAndTail
  <2>5. \A c \in Coordinators : loop'[c] <=> loop[c] /\ c # e
    BY <1>0, <2>1, <2>3, Zenon
  <2>6. e \notin Range(live) /\ \A c \in Range(closing') : c \notin Range(live')
    BY <2>1, <2>4 DEF Alive
  <2>7. \A c \in Range(live') : loop'[c]
    BY <1>0, <2>1, <2>5, <2>6 DEF Alive
  <2>8. LoopsOwned'
    <3> SUFFICES ASSUME NEW c \in Coordinators, loop[c], c # e, c \notin Range(live'),
                        c \notin Range(closing')
                 PROVE  \E h \in Handlers : pc'[h] = "stop" /\ evicted'[h] = c
      BY <2>5 DEF LoopsOwned
    <3>1. QED
      BY <2>1, <2>4 DEF Alive, LoopsOwned
  <2>9. QED
    BY <2>1, <2>6, <2>7, <2>8 DEF Alive, Apart
<1>9. ASSUME Reboot PROVE Alive'
  <2>1. live' = << >> /\ closing' = << >>
    BY <1>9 DEF Reboot
  <2>2. DOMAIN live' = {} /\ Range(live') = {} /\ Range(closing') = {}
    BY <2>1 DEF Range
  <2>3. \A h \in Handlers : pc'[h] # "stop"
    BY <1>9 DEF Reboot
  <2>4. \A c \in Coordinators : ~loop'[c]
    BY <1>9 DEF Reboot
  <2>5. QED
    BY <2>1, <2>2, <2>3, <2>4 DEF Alive, Apart, LoopsOwned
<1>10. CASE UNCHANGED vars
  BY <1>10, AliveKept DEF vars, objects, handlers
<1>11. QED
  BY <1>1, <1>2, <1>3, <1>4, <1>5, <1>6, <1>7, <1>8, <1>9, <1>10 DEF Next, Handle

\* A sequence has no more entries than its length.
LEMMA FewEntries ==
  ASSUME NEW q \in Seq(Coordinators)
  PROVE  /\ IsFiniteSet(Range(q)) /\ Cardinality(Range(q)) \in Nat
         /\ Cardinality(Range(q)) <= Len(q)
<1>1. Len(q) \in Nat /\ DOMAIN q = 1 .. Len(q)
  OBVIOUS
<1>2. q \in Surjection(1 .. Len(q), Range(q))
  <2>1. q \in [1 .. Len(q) -> Range(q)]
    BY <1>1 DEF Range
  <2>2. QED
    BY <1>1, <2>1 DEF Surjection, Range
<1>3. IsFiniteSet(1 .. Len(q)) /\ Cardinality(1 .. Len(q)) = Len(q)
  <2>1. PICK n \in Nat : n = Len(q)
    BY <1>1
  <2>2. IsFiniteSet(1 .. n) /\ Cardinality(1 .. n) = IF 1 > n THEN 0 ELSE n - 1 + 1
    BY FS_Interval
  <2>3. QED
    BY <2>1, <2>2
<1>4. IsFiniteSet(Range(q)) /\ Cardinality(Range(q)) <= Len(q)
  BY <1>2, <1>3, FS_Surjection
<1>5. QED
  BY <1>4, FS_CardinalityType

LEMMA UnionBound ==
  ASSUME NEW A, NEW B, IsFiniteSet(A), IsFiniteSet(B)
  PROVE  /\ IsFiniteSet(A \cup B) /\ Cardinality(A \cup B) \in Nat
         /\ Cardinality(A \cup B) <= Cardinality(A) + Cardinality(B)
<1>1. /\ IsFiniteSet(A \cup B)
      /\ Cardinality(A \cup B) = Cardinality(A) + Cardinality(B) - Cardinality(A \cap B)
  BY FS_Union
<1>2. IsFiniteSet(A \cap B) /\ Cardinality(A \cap B) \in Nat
  BY FS_Intersection, FS_CardinalityType
<1>3. Cardinality(A) \in Nat /\ Cardinality(B) \in Nat /\ Cardinality(A \cup B) \in Nat
  BY <1>1, FS_CardinalityType
<1>4. QED
  BY <1>1, <1>2, <1>3

\* No more loops run than the cap, the evictions under way and the coordinators
\* still to be closed allow.
LEMMA FewLoops ==
  ASSUME Typed, Alive
  PROVE  LoopsBounded
<1>1. PICK Stopping : Stopping = {h \in Handlers : pc[h] = "stop"}
  OBVIOUS
<1>2. PICK Out : Out = {evicted[h] : h \in Stopping}
  OBVIOUS
<1>3. IsFiniteSet(Stopping) /\ Cardinality(Stopping) \in Nat
  BY <1>1, RegistryAssumption, FS_Subset, FS_CardinalityType
<1>4. IsFiniteSet(Out) /\ Cardinality(Out) <= Cardinality(Stopping) /\ Cardinality(Out) \in Nat
  <2>1. PICK f : f = [h \in Stopping |-> evicted[h]]
    OBVIOUS
  <2>2. f \in Surjection(Stopping, Out)
    BY <1>2, <2>1 DEF Surjection
  <2>3. IsFiniteSet(Out) /\ Cardinality(Out) <= Cardinality(Stopping)
    BY <1>3, <2>2, FS_Surjection
  <2>4. QED
    BY <2>3, FS_CardinalityType
<1>5. PICK Reg : Reg = Range(live)
  OBVIOUS
<1>6. PICK Left : Left = Range(closing)
  OBVIOUS
<1>7. /\ IsFiniteSet(Reg) /\ Cardinality(Reg) \in Nat /\ Cardinality(Reg) <= Len(live)
      /\ Len(live) \in Nat /\ Len(live) <= MaxSessions /\ MaxSessions \in Nat
  BY <1>5, Queues, FewEntries DEF Typed
<1>8. /\ IsFiniteSet(Left) /\ Cardinality(Left) \in Nat /\ Cardinality(Left) <= Len(closing)
      /\ Len(closing) \in Nat
  BY <1>6, Queues, FewEntries DEF Typed
<1>9. PICK L : L = {c \in Coordinators : loop[c]}
  OBVIOUS
<1>10. L \subseteq (Reg \cup Left) \cup Out
  BY <1>1, <1>2, <1>5, <1>6, <1>9 DEF Alive, LoopsOwned
<1>11. /\ IsFiniteSet(Reg \cup Left) /\ Cardinality(Reg \cup Left) \in Nat
       /\ Cardinality(Reg \cup Left) <= Cardinality(Reg) + Cardinality(Left)
  BY <1>7, <1>8, UnionBound
<1>12. PICK U : U = (Reg \cup Left) \cup Out
  OBVIOUS
<1>13. /\ IsFiniteSet(U) /\ Cardinality(U) \in Nat
       /\ Cardinality(U) <= Cardinality(Reg \cup Left) + Cardinality(Out)
  BY <1>4, <1>11, <1>12, UnionBound
<1>14. Cardinality(L) <= Cardinality(U) /\ Cardinality(L) \in Nat
  <2>1. L \in SUBSET U
    BY <1>10, <1>12
  <2>2. QED
    BY <1>13, <2>1, FS_Subset, FS_CardinalityType
<1>15. Cardinality(L) <= MaxSessions + Cardinality(Stopping) + Len(closing)
  BY <1>3, <1>4, <1>7, <1>8, <1>11, <1>13, <1>14
<1>16. QED
  BY <1>1, <1>9, <1>15 DEF LoopsBounded

\* The registry is sound in every reachable state, whatever the number of
\* handlers: it hands out working coordinators only, one for each session, and
\* the background threads are at most the cap, the evictions under way and, at
\* the exit, the coordinators still to be closed.
THEOREM RegistryIsSound == Spec => []RegistryConsistent
<1>1. Init => Typed /\ Alive
  BY TypeInit, AliveInit
<1>2. Typed /\ Alive /\ [Next]_vars => (Typed /\ Alive)'
  BY TypeStep, AliveStep
<1>3. Typed /\ Alive => RegistryConsistent
  BY FewLoops DEF RegistryConsistent, RegisteredAreAlive, Typed, Alive, Apart
<1>4. QED
  BY <1>1, <1>2, <1>3, PTL DEF Spec


(***************************************************************************)
(* Requests that come one at a time lose nothing.                          *)
(***************************************************************************)

\* The coordinators that hold a session: registered, being closed at the exit,
\* or evicted and not yet flushed.
Carriers ==
    Range(live) \cup Range(closing)
        \cup {evicted[h] : h \in {g \in Handlers : pc[g] \in {"stop", "flush"}}}

\* The inductive invariant of a history without overlap: one request at a time,
\* none around an exit; a session is carried by at most one coordinator, which
\* holds every edit that was acknowledged, and by none only when its file does.
Serial ==
    /\ \A g, h \in Handlers : pc[g] # "idle" /\ pc[h] # "idle" => g = h
    /\ ~up => live = << >> /\ \A h \in Handlers : pc[h] = "idle"
    /\ \A h \in Handlers : pc[h] # "idle" => held[h] \in Range(live)

Carried ==
    /\ \A c \in Carriers : acked[session[c]] \subseteq edits[c]
    /\ \A c, d \in Carriers : session[c] = session[d] => c = d
    /\ \A s \in Sessions : (\A c \in Carriers : session[c] # s) => acked[s] \subseteq file[s]
    /\ \A c \in Coordinators : timer[c] => c \in Carriers

Lossless == ~overlapped => Serial /\ Carried

LEMMA CarriersAreCoordinators ==
  ASSUME Typed
  PROVE  Carriers \subseteq Coordinators
<1>1. Range(live) \subseteq Coordinators /\ Range(closing) \subseteq Coordinators
  BY Queues DEF Typed
<1>2. \A h \in Handlers : pc[h] \in {"stop", "flush"} => evicted[h] \in Coordinators
  BY DEF Typed, HandlersHold
<1>3. QED
  BY <1>1, <1>2 DEF Carriers

\* The file of e is written, and e may cease to carry its session.
LEMMA FlushKeeps ==
  ASSUME Typed, Carried, NEW e \in Carriers, Flush(e), UNCHANGED <<session, edits, acked>>,
         Carriers \ {e} \subseteq Carriers', Carriers' \subseteq Carriers
  PROVE  Carried'
<1>0. /\ e \in Coordinators /\ timer \in [Coordinators -> BOOLEAN]
      /\ session \in [Coordinators -> Sessions] /\ file \in [Sessions -> SUBSET Edits]
      /\ Carriers \subseteq Coordinators
  BY CarriersAreCoordinators DEF Typed, TypeOK
<1>1. \A s \in Sessions : file'[s] = IF s = session[e] THEN edits[e] ELSE file[s]
  BY <1>0 DEF Flush, Save
<1>2. \A c \in Coordinators : timer'[c] => c # e /\ timer[c]
  BY <1>0, Zenon DEF Flush
<1>3. ASSUME NEW s \in Sessions, \A c \in Carriers' : session[c] # s
      PROVE  acked[s] \subseteq file'[s]
  <2>1. CASE s = session[e]
    BY <1>1, <2>1 DEF Carried
  <2>2. CASE s # session[e]
    <3>1. \A c \in Carriers : session[c] # s
      BY <1>3, <2>2
    <3>2. QED
      BY <1>1, <2>2, <3>1 DEF Carried
  <2>3. QED
    BY <2>1, <2>2
<1>4. \A c \in Coordinators : timer'[c] => c \in Carriers'
  BY <1>2 DEF Carried
<1>5. QED
  BY <1>3, <1>4 DEF Carried

LEMMA LosslessInit == Init => Lossless
<1> SUFFICES ASSUME Init PROVE Lossless
  OBVIOUS
<1>1. Range(live) = {} /\ Range(closing) = {}
  <2>1. DOMAIN live = {} /\ DOMAIN closing = {}
    BY DEF Init
  <2>2. QED
    BY <2>1 DEF Range
<1>2. \A h \in Handlers : pc[h] = "idle"
  BY DEF Init
<1>3. Carriers = {}
  BY <1>1, <1>2 DEF Carriers
<1>4. \A s \in Sessions : acked[s] = {}
  BY DEF Init
<1>5. \A c \in Coordinators : ~timer[c]
  BY DEF Init
<1>up. up
  BY DEF Init
<1>6. QED
  BY <1>up, <1>2, <1>3, <1>4, <1>5 DEF Lossless, Serial, Carried

\* Carriers are those of before when the registry holds the same coordinators
\* and no handler starts, goes on with or ends an eviction.
LEMMA SameCarriers ==
  ASSUME Range(live') = Range(live), UNCHANGED <<closing, evicted>>,
         \A h \in Handlers : pc'[h] \in {"stop", "flush"} <=> pc[h] \in {"stop", "flush"}
  PROVE  Carriers' = Carriers
BY DEF Carriers

LEMMA LosslessStep == Typed /\ Alive /\ Lossless /\ [Next]_vars => Lossless'
<1> SUFFICES ASSUME Typed, Alive, Lossless, [Next]_vars, ~overlapped' PROVE Serial' /\ Carried'
  BY DEF Lossless
<1>types. /\ pc \in [Handlers -> {"idle", "stop", "flush", "act", "save"}]
          /\ held \in [Handlers -> Coordinators \cup {Nobody}]
          /\ evicted \in [Handlers -> Coordinators \cup {Nobody}]
          /\ session \in [Coordinators -> Sessions] /\ edits \in [Coordinators -> SUBSET Edits]
          /\ acked \in [Sessions -> SUBSET Edits] /\ file \in [Sessions -> SUBSET Edits]
          /\ timer \in [Coordinators -> BOOLEAN]
          /\ Range(live) \subseteq Coordinators /\ Carriers \subseteq Coordinators
          /\ \A h \in Handlers : pc[h] \in {"stop", "flush"} => evicted[h] \in Coordinators
          /\ \A h \in Handlers : pc[h] # "idle" => held[h] \in Coordinators
  BY Queues, CarriersAreCoordinators DEF Typed, TypeOK, HandlersHold
<1>alone. ~overlapped
  BY Zenon DEF Next, Find, Create, Handle, StopEvicted, FlushEvicted, Read, EditDeferred,
     EditImmediate, SaveImmediate, TimerFires, Tick, Exit, CloseNext, Reboot, Overlap, vars
<1>inv. Serial /\ Carried
  BY <1>alone DEF Lossless
<1>others. ASSUME NEW h \in Handlers, Overlap({g \in Handlers : g # h})
           PROVE  up /\ \A g \in Handlers : g # h => pc[g] = "idle"
  BY <1>others DEF Overlap
<1>1. ASSUME NEW h \in Handlers, NEW s \in Sessions, Find(h, s) PROVE Serial' /\ Carried'
  <2>1. PICK i \in DOMAIN live : live' = Append(RemoveAt(live, i), live[i]) /\ Give(h, live[i], "act")
    BY <1>1 DEF Find
  <2>2. Range(live') = Range(live) /\ live[i] \in Range(live)
    <3>1. PICK n : n = live'
      OBVIOUS
    <3>2. live \in Seq(Coordinators) /\ n = Append(RemoveAt(live, i), live[i])
      BY <2>1, <3>1, Queues DEF Typed
    <3>3. Range(n) = Range(live)
      BY <3>2, MovedRange
    <3>4. QED
      BY <3>1, <3>3 DEF Range
  <2>3. up /\ \A g \in Handlers : g # h => pc[g] = "idle"
    BY <1>1, <1>others DEF Find
  <2>4. up' = up /\ pc[h] = "idle" /\ UNCHANGED <<session, edits, timer, file, evicted, closing, acked>>
    BY <1>1 DEF Find, objects
  <2>5. /\ \A g \in Handlers : pc'[g] = IF g = h THEN "act" ELSE pc[g]
        /\ \A g \in Handlers : held'[g] = IF g = h THEN live[i] ELSE held[g]
    BY <1>types, <2>1 DEF Give
  <2>6. Serial'
    BY <2>2, <2>3, <2>4, <2>5 DEF Serial
  <2>7. Carriers' = Carriers
    BY <2>2, <2>4, <2>5, SameCarriers
  <2>8. QED
    BY <1>inv, <2>4, <2>6, <2>7 DEF Carried
<1>2. ASSUME NEW h \in Handlers, NEW s \in Sessions, Create(h, s) PROVE Serial' /\ Carried'
  <2>1. PICK c \in Coordinators :
            /\ Unused(c) /\ Constructed(c, s) /\ c \in Range(live')
            /\ held' = [held EXCEPT ![h] = c]
            /\ Apart(live', session')
            /\ \/ /\ pc' = [pc EXCEPT ![h] = "act"] /\ evicted' = evicted
                  /\ Range(live') = Range(live) \cup {c}
               \/ /\ pc' = [pc EXCEPT ![h] = "stop"]
                  /\ \E old \in Range(live) :
                        /\ evicted' = [evicted EXCEPT ![h] = old]
                        /\ old \notin Range(live')
                        /\ Range(live) \cup {c} = Range(live') \cup {old}
    BY <1>2, CreatedAlive
  <2>2. up /\ \A g \in Handlers : pc[g] = "idle"
    BY <1>2, <1>others DEF Create
  <2>3. up' = up /\ UNCHANGED <<file, closing, acked, timer>> /\ closing = << >>
    BY <1>2, <2>1, <2>2 DEF Create, Constructed, Alive
  <2>4. Range(closing) = {}
    <3>1. DOMAIN closing = {}
      BY <2>3
    <3>2. QED
      BY <3>1 DEF Range
  <2>5. Carriers = Range(live)
    BY <2>2, <2>4 DEF Carriers
  <2>6. Carriers' = Range(live) \cup {c}
    <3>1. CASE /\ pc' = [pc EXCEPT ![h] = "act"] /\ evicted' = evicted
               /\ Range(live') = Range(live) \cup {c}
      <4>1. \A g \in Handlers : pc'[g] \notin {"stop", "flush"}
        BY <1>types, <2>2, <3>1
      <4>2. QED
        BY <2>3, <2>4, <3>1, <4>1 DEF Carriers
    <3>2. ASSUME NEW old \in Range(live), pc' = [pc EXCEPT ![h] = "stop"],
                 evicted' = [evicted EXCEPT ![h] = old],
                 Range(live) \cup {c} = Range(live') \cup {old}
          PROVE  Carriers' = Range(live) \cup {c}
      <4>1. \A g \in Handlers : pc'[g] \in {"stop", "flush"} <=> g = h
        BY <1>types, <2>2, <3>2
      <4>2. evicted'[h] = old
        BY <1>types, <3>2
      <4>3. {evicted'[x] : x \in {g \in Handlers : pc'[g] \in {"stop", "flush"}}} = {old}
        BY <4>1, <4>2
      <4>4. QED
        BY <2>3, <2>4, <3>2, <4>3 DEF Carriers
    <3>3. QED
      BY <2>1, <3>1, <3>2
  <2>7. /\ \A d \in Range(live) : session'[d] = session[d] /\ edits'[d] = edits[d] /\ session[d] # s
        /\ session'[c] = s /\ edits'[c] = file[s] /\ c \notin Range(live)
    BY <1>types, <1>2, <2>1 DEF Constructed, Unused, Create
  <2>8. acked[s] \subseteq file[s]
    BY <1>inv, <2>5, <2>7 DEF Carried
  <2>9. Carried'
    <3>1. \A d \in Carriers' : acked'[session'[d]] \subseteq edits'[d]
      BY <1>inv, <2>3, <2>5, <2>6, <2>7, <2>8 DEF Carried
    <3>2. \A d, e \in Carriers' : session'[d] = session'[e] => d = e
      BY <1>inv, <2>5, <2>6, <2>7 DEF Carried
    <3>3. \A t \in Sessions : (\A d \in Carriers' : session'[d] # t) => acked'[t] \subseteq file'[t]
      BY <1>inv, <2>3, <2>5, <2>6, <2>7 DEF Carried
    <3>4. \A d \in Coordinators : timer'[d] => d \in Carriers'
      BY <1>inv, <2>3, <2>5, <2>6 DEF Carried
    <3>5. QED
      BY <3>1, <3>2, <3>3, <3>4 DEF Carried
  <2>10. /\ \A g \in Handlers : g # h => pc'[g] = "idle"
         /\ held'[h] = c
    BY <1>types, <2>1, <2>2
  <2>11. Serial'
    BY <2>1, <2>2, <2>3, <2>10 DEF Serial
  <2>12. QED
    BY <2>9, <2>11
<1>3. ASSUME NEW h \in Handlers, StopEvicted(h) PROVE Serial' /\ Carried'
  <2>1. /\ pc[h] = "stop"
        /\ UNCHANGED <<live, session, edits, timer, file, held, evicted, closing, up, acked>>
    BY <1>3 DEF StopEvicted
  <2>2. \A g \in Handlers : pc'[g] = IF g = h THEN "flush" ELSE pc[g]
    BY <1>types, <1>3 DEF StopEvicted
  <2>3. Carriers' = Carriers
    BY <2>1, <2>2, SameCarriers
  <2>4. Serial'
    BY <1>inv, <2>1, <2>2 DEF Serial
  <2>5. QED
    BY <1>inv, <2>1, <2>3, <2>4 DEF Carried
<1>4. ASSUME NEW h \in Handlers, FlushEvicted(h) PROVE Serial' /\ Carried'
  <2>1. /\ pc[h] = "flush" /\ Flush(evicted[h])
        /\ UNCHANGED <<live, session, edits, held, closing, up, acked>>
    BY <1>4 DEF FlushEvicted
  <2>2. /\ \A g \in Handlers : pc'[g] = IF g = h THEN "act" ELSE pc[g]
        /\ \A g \in Handlers : g # h => evicted'[g] = evicted[g]
    BY <1>types, <1>4 DEF FlushEvicted
  <2>3. evicted[h] \in Carriers
    BY <2>1 DEF Carriers
  <2>4. Carriers \ {evicted[h]} \subseteq Carriers' /\ Carriers' \subseteq Carriers
    <3>1. \A g \in Handlers : pc'[g] \in {"stop", "flush"} <=> pc[g] \in {"stop", "flush"} /\ g # h
      BY <2>1, <2>2
    <3>2. QED
      BY <2>1, <2>2, <3>1 DEF Carriers
  <2>5. Carried'
    BY <1>inv, <2>1, <2>3, <2>4, FlushKeeps
  <2>6. Serial'
    BY <1>inv, <2>1, <2>2 DEF Serial
  <2>7. QED
    BY <2>5, <2>6
<1>done. ASSUME NEW h \in Handlers, Done(h), live' = live, up' = up PROVE Serial'
  <2>1. /\ \A g \in Handlers : pc'[g] = IF g = h THEN "idle" ELSE pc[g]
        /\ \A g \in Handlers : g # h => held'[g] = held[g]
    BY <1>types, <1>done DEF Done
  <2>2. QED
    BY <1>inv, <1>done, <2>1 DEF Serial
<1>ends. ASSUME NEW h \in Handlers, pc[h] \in {"act", "save"}, Done(h),
             UNCHANGED <<live, closing, evicted>>
      PROVE  Carriers' = Carriers
  <2>1. \A g \in Handlers : pc'[g] = IF g = h THEN "idle" ELSE pc[g]
    BY <1>types, <1>ends DEF Done
  <2>2. QED
    BY <1>ends, <2>1, SameCarriers
<1>holder. ASSUME NEW h \in Handlers, pc[h] # "idle"
      PROVE  held[h] \in Carriers /\ held[h] \in Coordinators
  BY <1>types, <1>inv, <1>holder DEF Serial, Carriers
<1>5. ASSUME NEW h \in Handlers, Read(h) PROVE Serial' /\ Carried'
  <2>1. /\ pc[h] = "act" /\ Done(h)
        /\ UNCHANGED <<live, closing, evicted, up, session, edits, timer, file, acked>>
    BY <1>5 DEF Read, objects
  <2>2. Carriers' = Carriers
    BY <2>1, <1>ends
  <2>3. QED
    BY <1>inv, <1>done, <2>1, <2>2 DEF Carried
<1>6. ASSUME NEW h \in Handlers, EditDeferred(h) PROVE Serial' /\ Carried'
  <2>1. /\ pc[h] = "act" /\ Done(h)
        /\ UNCHANGED <<live, closing, evicted, up, session, file>>
    BY <1>6 DEF EditDeferred
  <2>2. Carriers' = Carriers
    BY <2>1, <1>ends
  <2>3. PICK c \in Carriers : c = held[h]
    BY <1>holder, <2>1
  <2>4. c \in Coordinators
    BY <1>types
  <2>5. /\ \A d \in Coordinators : edits'[d] = IF d = c THEN edits[d] \cup {last + 1} ELSE edits[d]
        /\ \A s \in Sessions : acked'[s] = IF s = session[c] THEN acked[s] \cup {last + 1} ELSE acked[s]
    BY <1>types, <1>6, <2>3, <2>4 DEF EditDeferred, NewEdit
  <2>6. \A d \in Coordinators : timer'[d] => timer[d] \/ d = c
    BY <1>types, <1>6, <2>3, <2>4, Zenon DEF EditDeferred
  <2>7. \A d \in Carriers : acked'[session[d]] \subseteq edits'[d]
    <3> SUFFICES ASSUME NEW d \in Carriers PROVE acked'[session[d]] \subseteq edits'[d]
      OBVIOUS
    <3>1. d \in Coordinators /\ session[d] \in Sessions /\ acked[session[d]] \subseteq edits[d]
      BY <1>types, <1>inv DEF Carried
    <3>2. CASE d = c
      BY <2>5, <3>1, <3>2
    <3>3. CASE d # c
      <4>1. session[d] # session[c]
        BY <1>inv, <3>3 DEF Carried
      <4>2. QED
        BY <2>5, <3>1, <3>3, <4>1
    <3>4. QED
      BY <3>2, <3>3
  <2>8. \A s \in Sessions : (\A d \in Carriers : session[d] # s) => acked'[s] \subseteq file[s]
    BY <1>inv, <2>5 DEF Carried
  <2>9. \A d \in Coordinators : timer'[d] => d \in Carriers
    BY <1>inv, <2>6 DEF Carried
  <2>10. Carried'
    BY <1>inv, <2>1, <2>2, <2>7, <2>8, <2>9 DEF Carried
  <2>11. QED
    BY <1>done, <2>1, <2>10
<1>7. ASSUME NEW c \in Coordinators, NewEdit(c), Carriers' = Carriers,
             UNCHANGED <<session, timer, file, acked>>
      PROVE  Carried'
  <2>1. \A d \in Coordinators : edits[d] \subseteq edits'[d]
    BY <1>types, <1>7 DEF NewEdit
  <2>2. QED
    BY <1>types, <1>inv, <1>7, <2>1 DEF Carried
<1>8. ASSUME NEW h \in Handlers, EditImmediate(h) PROVE Serial' /\ Carried'
  <2>1. /\ pc[h] = "act" /\ NewEdit(held[h])
        /\ UNCHANGED <<live, session, timer, file, held, evicted, closing, up, acked>>
    BY <1>8 DEF EditImmediate
  <2>2. \A g \in Handlers : pc'[g] = IF g = h THEN "save" ELSE pc[g]
    BY <1>types, <1>8 DEF EditImmediate
  <2>3. Carriers' = Carriers
    BY <2>1, <2>2, SameCarriers
  <2>4. Serial'
    BY <1>inv, <2>1, <2>2 DEF Serial
  <2>5. QED
    BY <1>7, <1>holder, <2>1, <2>3, <2>4
<1>9. ASSUME NEW h \in Handlers, SaveImmediate(h) PROVE Serial' /\ Carried'
  <2>1. /\ pc[h] = "save" /\ Done(h) /\ Flush(held[h])
        /\ UNCHANGED <<live, closing, evicted, up, session, edits>>
    BY <1>9 DEF SaveImmediate
  <2>2. Carriers' = Carriers
    BY <2>1, <1>ends
  <2>3. PICK c \in Carriers : c = held[h]
    BY <1>holder, <2>1
  <2>4. c \in Coordinators
    BY <1>types
  <2>5. /\ \A s \in Sessions : acked'[s] = IF s = session[c] THEN acked[s] \cup edits[c] ELSE acked[s]
        /\ \A s \in Sessions : s # session[c] => file'[s] = file[s]
    BY <1>types, <1>9, <2>1, <2>3, <2>4 DEF SaveImmediate, Flush, Save
  <2>6. \A d \in Coordinators : timer'[d] => timer[d]
    BY <1>types, <2>1, <2>3, <2>4, Zenon DEF Flush
  <2>7. \A d \in Carriers : acked'[session[d]] \subseteq edits[d]
    <3> SUFFICES ASSUME NEW d \in Carriers PROVE acked'[session[d]] \subseteq edits[d]
      OBVIOUS
    <3>1. d \in Coordinators /\ session[d] \in Sessions /\ acked[session[d]] \subseteq edits[d]
      BY <1>types, <1>inv DEF Carried
    <3>2. CASE d = c
      BY <2>5, <3>1, <3>2
    <3>3. CASE d # c
      <4>1. session[d] # session[c]
        BY <1>inv, <3>3 DEF Carried
      <4>2. QED
        BY <2>5, <3>1, <4>1
    <3>4. QED
      BY <3>2, <3>3
  <2>8. \A s \in Sessions : (\A d \in Carriers : session[d] # s) => acked'[s] \subseteq file'[s]
    BY <1>inv, <2>5 DEF Carried
  <2>9. \A d \in Coordinators : timer'[d] => d \in Carriers
    BY <1>inv, <2>6 DEF Carried
  <2>10. Carried'
    BY <1>inv, <2>1, <2>2, <2>7, <2>8, <2>9 DEF Carried
  <2>11. QED
    BY <1>done, <2>1, <2>10
<1>10. ASSUME NEW c \in Coordinators, TimerFires(c) PROVE Serial' /\ Carried'
  <2>1. /\ timer[c] /\ Flush(c)
        /\ UNCHANGED <<live, session, edits, pc, held, evicted, closing, up, acked>>
    BY <1>10 DEF TimerFires, handlers
  <2>2. c \in Carriers
    BY <1>inv, <2>1 DEF Carried
  <2>3. Carriers' = Carriers
    BY <2>1, SameCarriers
  <2>4. Carried'
    BY <1>inv, <2>1, <2>2, <2>3, FlushKeeps
  <2>5. Serial'
    BY <1>inv, <2>1 DEF Serial
  <2>6. QED
    BY <2>4, <2>5
<1>11. ASSUME NEW c \in Coordinators, Tick(c) PROVE Serial' /\ Carried'
  <2>1. /\ NewEdit(c)
        /\ UNCHANGED <<live, session, timer, file, pc, held, evicted, closing, up, acked>>
    BY <1>11 DEF Tick, handlers
  <2>2. Carriers' = Carriers
    BY <2>1, SameCarriers
  <2>3. Serial'
    BY <1>inv, <2>1 DEF Serial
  <2>4. QED
    BY <1>7, <2>1, <2>2, <2>3
<1>12. ASSUME Exit PROVE Serial' /\ Carried'
  <2>1. /\ up /\ up' = FALSE /\ closing' = live /\ live' = << >>
        /\ UNCHANGED <<session, edits, timer, file, pc, held, evicted, acked>>
    BY <1>12 DEF Exit, objects, handlers
  <2>2. \A h \in Handlers : pc[h] = "idle"
    BY <1>12 DEF Exit, Overlap
  <2>3. closing = << >>
    BY <2>1 DEF Alive
  <2>4. Range(closing) = {} /\ Range(live') = {}
    <3>1. DOMAIN closing = {} /\ DOMAIN live' = {}
      BY <2>1, <2>3
    <3>2. QED
      BY <3>1 DEF Range
  <2>5. Carriers' = Carriers
    BY <2>1, <2>2, <2>4 DEF Carriers
  <2>6. Serial'
    BY <2>1, <2>2 DEF Serial
  <2>7. QED
    BY <1>inv, <2>1, <2>5, <2>6 DEF Carried
<1>13. ASSUME CloseNext PROVE Serial' /\ Carried'
  <2>1. /\ closing # << >> /\ Flush(Head(closing)) /\ closing' = Tail(closing)
        /\ UNCHANGED <<live, session, edits, pc, held, evicted, up, acked>>
    BY <1>13 DEF CloseNext, handlers
  <2>2. closing \in Seq(Coordinators)
    BY Queues DEF Typed
  <2>3. Head(closing) \in Range(closing) /\ Range(closing) = {Head(closing)} \cup Range(Tail(closing))
    BY <2>1, <2>2, HeadAndTail
  <2>4. PICK e \in Carriers : e = Head(closing)
    BY <2>3 DEF Carriers
  <2>5. Carriers \ {e} \subseteq Carriers' /\ Carriers' \subseteq Carriers
    BY <2>1, <2>3, <2>4 DEF Carriers
  <2>6. Carried'
    BY <1>inv, <2>1, <2>4, <2>5, FlushKeeps
  <2>7. Serial'
    BY <1>inv, <2>1 DEF Serial
  <2>8. QED
    BY <2>6, <2>7
<1>14. ASSUME Reboot PROVE Serial' /\ Carried'
  <2>1. /\ live = << >> /\ closing = << >> /\ ~up /\ up'
        /\ UNCHANGED <<live, session, edits, file, closing, acked>>
    BY <1>14, <1>inv DEF Reboot, Serial
  <2>2. \A h \in Handlers : pc[h] = "idle" /\ pc'[h] = "idle"
    BY <1>14, <1>inv, <2>1 DEF Reboot, Serial
  <2>3. Range(live) = {} /\ Range(closing) = {}
    <3>1. DOMAIN live = {} /\ DOMAIN closing = {}
      BY <2>1
    <3>2. QED
      BY <3>1 DEF Range
  <2>4. Carriers = {} /\ Carriers' = {}
    BY <2>1, <2>2, <2>3 DEF Carriers
  <2>5. \A c \in Coordinators : ~timer'[c]
    BY <1>14 DEF Reboot
  <2>6. Carried'
    BY <1>inv, <2>1, <2>4, <2>5 DEF Carried
  <2>7. Serial'
    BY <2>1, <2>2 DEF Serial
  <2>8. QED
    BY <2>6, <2>7
<1>15. CASE UNCHANGED vars
  <2>1. UNCHANGED <<live, session, edits, timer, file, pc, held, evicted, closing, up, acked>>
    BY <1>15 DEF vars, objects, handlers
  <2>2. Carriers' = Carriers
    BY <2>1, SameCarriers
  <2>3. QED
    BY <1>inv, <2>1, <2>2 DEF Serial, Carried
<1>16. QED
  BY <1>1, <1>2, <1>3, <1>4, <1>5, <1>6, <1>8, <1>9, <1>10, <1>11, <1>12, <1>13, <1>14, <1>15
     DEF Next, Handle

\* As long as requests come one at a time and the process exits between them, a
\* session that is looked up holds every edit a client was told of, through any
\* number of evictions, debounced saves and process exits.
THEOREM SerialSessionsAreLossless == Spec => []SerialSessionsKeepEdits
<1>1. Init => Typed /\ Alive /\ Lossless
  BY TypeInit, AliveInit, LosslessInit
<1>2. Typed /\ Alive /\ Lossless /\ [Next]_vars => (Typed /\ Alive /\ Lossless)'
  BY TypeStep, AliveStep, LosslessStep
<1>3. Lossless => SerialSessionsKeepEdits
  BY DEF Lossless, Carried, Carriers, SerialSessionsKeepEdits, SessionsKeepEdits
<1>4. QED
  BY <1>1, <1>2, <1>3, PTL DEF Spec

=============================================================================
