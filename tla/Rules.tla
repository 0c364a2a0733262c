-------------------------------- MODULE Rules --------------------------------
(***************************************************************************)
(* The rules (backend/rules): each states the next state of one cell       *)
(* (next_state, over a RuleContext) and, a second time, the next states of *)
(* all cells in one pass (next_states, which the engine runs). A topology  *)
(* is a record of its cells, their adjacency, their kinds and, where a     *)
(* rule asks for directions, its frame; a board maps cells to states.      *)
(***************************************************************************)
EXTENDS TopologyFrame

LifeRule(births, survives) ==
    [style |-> "life", states |-> 0 .. 1, births |-> births, survives |-> survives]

Conway   == LifeRule({3}, {2, 3})
HighLife == LifeRule({3, 6}, {2, 3})
HexLife  == LifeRule({2}, {3, 4})
TriLife  == LifeRule({4}, {3, 4, 5})
LifeB2S23 == LifeRule({2}, {2, 3})

\* Births for each kind of cell; aliases and the default resolve a kind that
\* has none. Every kind survives on two or three.
KindRule(births, aliases, default) ==
    [style |-> "kind", states |-> 0 .. 1,
     births |-> births, survives |-> [k \in DOMAIN births |-> {2, 3}],
     aliases |-> aliases, default |-> default]

KagomeLife ==
    KindRule([triangle |-> {2}, hexagon |-> {2, 3, 4}],
             [k \in {"triangle-up", "triangle-down"} |-> "triangle"], "hexagon")

Plain == [k \in {} |-> k]

ArchLife488   == KindRule([square |-> {2}, octagon |-> {3}], Plain, "octagon")
ArchLife31212 == KindRule([triangle |-> {2}, dodecagon |-> {3, 4}], Plain, "dodecagon")
ArchLife3464  == KindRule([triangle |-> {2}, square |-> {2}, hexagon |-> {3}], Plain, "hexagon")
ArchLife4612  == KindRule([square |-> {2}, hexagon |-> {3}, dodecagon |-> {3, 4}], Plain, "dodecagon")
ArchLife33434 == KindRule([triangle |-> {2}, square |-> {3}], Plain, "square")
ArchLife33344 == KindRule([triangle |-> {2}, square |-> {2, 3}], Plain, "square")

WireWorld  == [style |-> "wireworld", states |-> 0 .. 3]
Excitable  == [style |-> "excitable", states |-> 0 .. 3]
Whirlpool  == [style |-> "whirlpool", states |-> 0 .. 4]

\* RULE_TYPES: every rule the registry offers (the aliases add none).
Registry ==
    {Conway, HighLife, HexLife, TriLife, LifeB2S23, KagomeLife, ArchLife488, ArchLife31212,
     ArchLife3464, ArchLife4612, ArchLife33434, ArchLife33344, WireWorld, Excitable, Whirlpool}

Resting    == 0
Excited    == 1
Trailing   == 2
Refractory == 3
Source     == 4

Least(a, b) == IF a < b THEN a ELSE b

-------------------------------------------------------------------------------
(* What a context counts around a cell. *)

CountNeighbors(topology, board, c, s) ==
    Cardinality({n \in topology.adjacent[c] : board[n] = s})

CountLive(topology, board, c) ==
    Cardinality({n \in topology.adjacent[c] : board[n] # 0})

DirectionalCounts(topology, board, c, s) ==
    LET found == {l \in topology.frame[c].links : board[l.cell] = s}
        lies(radial) == Cardinality({l \in found : l.radial = radial})
        turns(turn) == Cardinality({l \in found : l.turn = turn})
    IN  [outward |-> lies("outward"), inward |-> lies("inward"),
         clockwise |-> turns("clockwise"),
         counterclockwise |-> turns("counterclockwise"),
         total |-> Cardinality(found)]

-------------------------------------------------------------------------------
(* The rules that only look at adjacency. *)

ApplyBinaryLife(current, live, births, survives) ==
    IF current = 1 THEN (IF live \in survives THEN 1 ELSE 0)
    ELSE (IF live \in births THEN 1 ELSE 0)

ResolveKind(rule, kind) ==
    LET normalized == IF kind \in DOMAIN rule.aliases THEN rule.aliases[kind] ELSE kind
    IN  IF normalized \in DOMAIN rule.births THEN normalized ELSE rule.default

WireNext(topology, board, c) ==
    CASE board[c] = 0 -> 0
      [] board[c] = 1 -> 2
      [] board[c] = 2 -> 3
      [] board[c] = 3 -> IF CountNeighbors(topology, board, c, 1) \in {1, 2} THEN 1 ELSE 3

ExcitableNext(topology, board, c) ==
    CASE board[c] = Excited    -> Trailing
      [] board[c] = Trailing   -> Refractory
      [] board[c] = Refractory -> Resting
      [] board[c] = Resting    ->
           IF \E n \in topology.adjacent[c] : board[n] = Excited THEN Excited ELSE Resting

-------------------------------------------------------------------------------
(* The whirlpool, cell by cell. *)

\* zone_for_radius: the thresholds 0.10, 0.26, 0.56 and 0.86 of the largest
\* radius, squared.
ZoneOf(cell) ==
    LET within(percent) == 10000 * cell.radius2 <= percent * percent * cell.farthest2
    IN  IF within(10) THEN "eye" ELSE IF within(26) THEN "inner"
        ELSE IF within(56) THEN "shear" ELSE IF within(86) THEN "outer" ELSE "rim"

WakeCounts(topology, board, c) ==
    LET trailing == DirectionalCounts(topology, board, c, Trailing)
        refractory == DirectionalCounts(topology, board, c, Refractory)
    IN  [support |-> trailing.clockwise + trailing.inward,
         resistance |-> refractory.counterclockwise + refractory.outward,
         clockwise |-> trailing.clockwise, inward |-> trailing.inward]

WakeScore(wake) == wake.support - wake.resistance

\* A plausible slip: the last tier, which takes any neighbour, is left out.
SourceSelectionTier_NoCatchAll(radial, turn) ==
    IF radial = "outward" THEN (IF turn = "clockwise" THEN 0 ELSE 1)
    ELSE IF turn = "clockwise" THEN 2 ELSE -1

\* (outward, clockwise), (outward, any), (any, clockwise), (any, any);
\* -1 would stand for none.
SourceSelectionTier(radial, turn) ==
    IF radial = "outward" THEN (IF turn = "clockwise" THEN 0 ELSE 1)
    ELSE IF turn = "clockwise" THEN 2 ELSE 3

\* Tuples compare by the first component that differs.
TupleBefore(a, b) ==
    \E i \in DOMAIN a : a[i] < b[i] /\ \A j \in 1 .. i - 1 : a[j] = b[j]

\* source_emission_target_id: the resting neighbours of a source, ordered.
EmissionKey(topology, board, l) ==
    <<SourceSelectionTier(l.radial, l.turn),
      0 - WakeScore(WakeCounts(topology, board, l.cell)),
      0 - l.nearness, 0 - l.swing, l.order>>

IsEmissionTarget(topology, board, source, c) ==
    \E l \in topology.frame[source].links :
        LET candidates == {m \in topology.frame[source].links :
                             /\ board[m.cell] = Resting
                             /\ SourceSelectionTier(m.radial, m.turn) >= 0}
        IN  /\ l.cell = c /\ l \in candidates
            /\ \A m \in candidates \ {l} :
                 TupleBefore(EmissionKey(topology, board, l), EmissionKey(topology, board, m))

HasIncomingSourcePulse(topology, board, c) ==
    \E l \in topology.frame[c].links :
        board[l.cell] = Source /\ IsEmissionTarget(topology, board, l.cell, c)

EyeHasExcitedSupport(topology, c, counts) ==
    topology.frame[c].shell = 0 /\ counts.total >= 1

TangentialRelay(counts, wake) ==
    /\ wake.clockwise >= 1 /\ wake.resistance = 0
    /\ counts.counterclockwise = 0 /\ counts.outward = 0

GuidedSwirl(counts, wake) ==
    counts.clockwise - counts.counterclockwise + WakeScore(wake)

HasOuterGuidedRelay(counts, wake) ==
    /\ wake.support >= 2 \/ TangentialRelay(counts, wake)
    /\ wake.resistance = 0
    /\ counts.clockwise + Least(1, wake.clockwise) >= 1
    /\ GuidedSwirl(counts, wake) >= 1
    /\ counts.outward <= 1

ShouldExciteResting(zone, counts, wake) ==
    LET inward == counts.inward + Least(1, wake.inward)
        clockwise == counts.clockwise + Least(1, wake.clockwise)
        swirl == GuidedSwirl(counts, wake)
        strong == wake.support >= 2
    IN  CASE zone = "eye" -> counts.total >= 1
          [] zone = "inner" ->
               /\ counts.inward >= 1
               /\ clockwise >= 1 \/ counts.total >= 2
               /\ swirl >= 0
          [] zone = "shear" ->
               /\ 2 * inward + 3 * clockwise + wake.support
                    - 2 * counts.counterclockwise - 3 * wake.resistance >= 5
               /\ inward >= 1 /\ clockwise >= 1
               /\ counts.total >= 1 \/ strong
          [] zone = "outer" ->
               /\ inward >= 2 \/ strong \/ TangentialRelay(counts, wake)
               /\ swirl >= 1
               /\ clockwise >= 1 \/ counts.total >= 3 \/ strong
               /\ counts.outward <= 1
          [] zone = "rim" -> inward >= 2 /\ clockwise >= 1 /\ swirl >= 1

RejoinsRefractory(topology, c, counts, wake) ==
    \/ EyeHasExcitedSupport(topology, c, counts)
    \/ /\ ZoneOf(topology.frame[c]) = "outer"
       /\ \/ counts.inward >= 1 /\ (counts.clockwise >= 1 \/ counts.total >= 2)
          \/ HasOuterGuidedRelay(counts, wake)

WhirlpoolNext(topology, board, c) ==
    LET counts == DirectionalCounts(topology, board, c, Excited)
        wake == WakeCounts(topology, board, c)
        excites(yes) == IF yes THEN Excited ELSE Resting
    IN  CASE board[c] = Source     -> Source
          [] board[c] = Excited    -> Trailing
          [] board[c] = Trailing   -> Refractory
          [] board[c] = Refractory -> excites(RejoinsRefractory(topology, c, counts, wake))
          [] board[c] = Resting    ->
               excites(\/ HasIncomingSourcePulse(topology, board, c)
                       \/ EyeHasExcitedSupport(topology, c, counts)
                       \/ ShouldExciteResting(ZoneOf(topology.frame[c]), counts, wake))

\* AutomatonRule.next_state.
NextState(rule, topology, board, c) ==
    CASE rule.style = "life" ->
           ApplyBinaryLife(board[c], CountLive(topology, board, c), rule.births, rule.survives)
      [] rule.style = "kind" ->
           LET kind == ResolveKind(rule, topology.kind[c])
           IN  ApplyBinaryLife(board[c], CountLive(topology, board, c),
                               rule.births[kind], rule.survives[kind])
      [] rule.style = "wireworld" -> WireNext(topology, board, c)
      [] rule.style = "excitable" -> ExcitableNext(topology, board, c)
      [] rule.style = "whirlpool" -> WhirlpoolNext(topology, board, c)
===============================================================================
