------------------------------ MODULE RuleBatch ------------------------------
(***************************************************************************)
(* One generation in one pass over the cells (next_states of each rule),   *)
(* which is what SimulationEngine.step_board runs. It is written apart     *)
(* from next_state: it counts each neighbour once into tables, lets each   *)
(* source mark its target before any cell is decided, and restates the     *)
(* whirlpool's conditions over the tables.                                 *)
(***************************************************************************)
EXTENDS Rules

BinaryLifeBatch(topology, board, births, survives) ==
    [c \in topology.cells |->
        LET live == CountLive(topology, board, c)
            thresholds == IF board[c] = 1 THEN survives[c] ELSE births[c]
        IN  IF live \in thresholds THEN 1 ELSE 0]

WireWorldBatch(topology, board) ==
    [c \in topology.cells |->
        IF board[c] \in {1, 2} THEN board[c] + 1
        ELSE IF board[c] = 3 /\ CountNeighbors(topology, board, c, 1) \in {1, 2} THEN 1
        ELSE board[c]]

\* A plausible slip: the cycle does not close.
ExcitableBatch_KeepsCounting(topology, board) ==
    [c \in topology.cells |->
        IF board[c] # Resting THEN board[c] + 1
        ELSE IF \E n \in topology.adjacent[c] : board[n] = Excited THEN Excited ELSE Resting]

ExcitableBatch(topology, board) ==
    LET lit == {c \in topology.cells : board[c] = Excited}
    IN  [c \in topology.cells |->
            CASE board[c] = Excited  -> Trailing
              [] board[c] = Trailing -> Refractory
              [] board[c] = Refractory -> Resting
              [] OTHER -> IF topology.adjacent[c] \cap lit # {} THEN Excited ELSE Resting]

\* The first loop: the tables.
TallyOf(topology, board, c) ==
    LET links == topology.frame[c].links
        lies(s, radial) == Cardinality({l \in links : board[l.cell] = s /\ l.radial = radial})
        turns(s, turn) == Cardinality({l \in links : board[l.cell] = s /\ l.turn = turn})
    IN  [outward |-> lies(Excited, "outward"), inward |-> lies(Excited, "inward"),
         clockwise |-> turns(Excited, "clockwise"),
         counter |-> turns(Excited, "counterclockwise"),
         total |-> CountNeighbors(topology, board, c, Excited),
         wakeIn |-> lies(Trailing, "inward"),
         wakeClock |-> turns(Trailing, "clockwise"),
         resistance |-> turns(Refractory, "counterclockwise") + lies(Refractory, "outward")]

Tally(topology, board) == Tabulated([c \in topology.cells |-> TallyOf(topology, board, c)])

\* A plausible slip: the wakes around a target do not count.
CandidateKey_NoWake(l, tally) ==
    <<SourceSelectionTier(l.radial, l.turn), 0, 0 - l.nearness, 0 - l.swing, l.order>>

CandidateKey(l, tally) ==
    LET n == tally[l.cell]
    IN  <<SourceSelectionTier(l.radial, l.turn), n.resistance - (n.wakeClock + n.wakeIn),
          0 - l.nearness, 0 - l.swing, l.order>>

\* The second loop: each source marks its best resting neighbour.
Pulsed(topology, board, tally) ==
    LET open(source) == {l \in topology.frame[source].links :
                           board[l.cell] = Resting /\ SourceSelectionTier(l.radial, l.turn) >= 0}
        best(source) == {l \in open(source) : \A m \in open(source) :
                           ~TupleBefore(CandidateKey(m, tally), CandidateKey(l, tally))}
    IN  {l.cell : l \in UNION {best(source) :
                                 source \in {c \in topology.cells : board[c] = Source}}}

OuterGuidedRelayFrom(n) ==
    LET support == n.wakeClock + n.wakeIn
        tangential == n.wakeClock >= 1 /\ n.resistance = 0 /\ n.counter = 0 /\ n.outward = 0
    IN  /\ support >= 2 \/ tangential
        /\ n.resistance = 0
        /\ n.clockwise + Least(1, n.wakeClock) >= 1
        /\ n.clockwise - n.counter + support - n.resistance >= 1
        /\ n.outward <= 1

ShouldExciteFrom(zone, n) ==
    LET support == n.wakeClock + n.wakeIn
        inward == n.inward + Least(1, n.wakeIn)
        clockwise == n.clockwise + Least(1, n.wakeClock)
        swirl == n.clockwise - n.counter + support - n.resistance
        tangential == n.wakeClock >= 1 /\ n.resistance = 0 /\ n.counter = 0 /\ n.outward = 0
    IN  \/ zone = "eye" /\ n.total >= 1
        \/ /\ zone = "inner"
           /\ n.inward >= 1 /\ swirl >= 0
           /\ clockwise >= 1 \/ n.total >= 2
        \/ /\ zone = "shear"
           /\ inward >= 1 /\ clockwise >= 1 /\ (n.total >= 1 \/ support >= 2)
           /\ 2 * inward + 3 * clockwise + support - 2 * n.counter - 3 * n.resistance >= 5
        \/ /\ zone = "outer"
           /\ swirl >= 1 /\ n.outward <= 1
           /\ inward >= 2 \/ support >= 2 \/ tangential
           /\ clockwise >= 1 \/ n.total >= 3 \/ support >= 2
        \/ zone = "rim" /\ inward >= 2 /\ clockwise >= 1 /\ swirl >= 1

EyeLit(topology, n, c) == topology.frame[c].shell = 0 /\ n.total >= 1

Rejoins(topology, n, c) ==
    \/ EyeLit(topology, n, c)
    \/ /\ ZoneOf(topology.frame[c]) = "outer"
       /\ \/ n.inward >= 1 /\ (n.clockwise >= 1 \/ n.total >= 2)
          \/ OuterGuidedRelayFrom(n)

Lights(topology, n, c) ==
    EyeLit(topology, n, c) \/ ShouldExciteFrom(ZoneOf(topology.frame[c]), n)

WhirlpoolBatch(topology, board) ==
    LET tally == Tally(topology, board)
        pulsed == Pulsed(topology, board, tally)
    IN  [c \in topology.cells |->
            CASE board[c] = Source     -> Source
              [] board[c] = Excited    -> Trailing
              [] board[c] = Trailing   -> Refractory
              [] board[c] = Refractory ->
                   IF Rejoins(topology, tally[c], c) THEN Excited ELSE Resting
              [] board[c] = Resting    ->
                   IF c \in pulsed \/ Lights(topology, tally[c], c) THEN Excited ELSE Resting]

\* AutomatonRule.next_states, and step_board around it.
Generation(rule, topology, board) ==
    CASE rule.style = "life" ->
           BinaryLifeBatch(topology, board, [c \in topology.cells |-> rule.births],
                                            [c \in topology.cells |-> rule.survives])
      [] rule.style = "kind" ->
           BinaryLifeBatch(topology, board,
               [c \in topology.cells |-> rule.births[ResolveKind(rule, topology.kind[c])]],
               [c \in topology.cells |-> rule.survives[ResolveKind(rule, topology.kind[c])]])
      [] rule.style = "wireworld" -> WireWorldBatch(topology, board)
      [] rule.style = "excitable" -> ExcitableBatch(topology, board)
      [] rule.style = "whirlpool" -> WhirlpoolBatch(topology, board)
===============================================================================
