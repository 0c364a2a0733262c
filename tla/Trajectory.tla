------------------------------ MODULE Trajectory ------------------------------
(***************************************************************************)
(* A board evolving under a rule, measured as it goes                      *)
(* (backend/simulation/seeding/trajectory.py, iter_trajectory): the engine *)
(* takes one generation after another up to a budget, every board is       *)
(* compared with all earlier ones, and the first repetition gives the      *)
(* cycle. The comparison stops there and labels the outcome                *)
(* (comparison.py _run_single, metrics.py classify); a filmstrip goes on   *)
(* to the end of its budget.                                               *)
(***************************************************************************)
EXTENDS RuleBatch

CONSTANTS
    Cases,      \* names of the boards that are run
    Topology,   \* the topology of each
    Rule,       \* its rule
    Seeds,      \* the boards it may start from
    MaxSteps    \* max_steps, the budget

ASSUME BudgetAssumption == MaxSteps \in Nat

\* A directional frame has a link for each neighbour and no other, and its
\* links come one after the other in clockwise order; neighbours are mutual.
FrameFits(t) ==
    \A c \in t.cells :
        LET links == t.frame[c].links
        IN  /\ {l.cell : l \in links} = t.adjacent[c]
            /\ \A l, m \in links : l.cell = m.cell \/ l.order = m.order => l = m
            /\ \A l \in links : /\ {l.nearness, l.swing, l.order} \subseteq Int
                                /\ c \in t.adjacent[l.cell]

\* Each board runs one of the rules of the registry on a finite topology
\* whose links stay on it, from states of that rule.
ASSUME RulesAssumption == \A n \in Cases : Rule[n] \in Registry

ASSUME TopologyAssumption ==
    \A n \in Cases :
        LET t == Topology[n]
        IN  /\ IsFiniteSet(t.cells)
            /\ \A c \in t.cells : t.adjacent[c] \subseteq t.cells
            /\ Rule[n] = Whirlpool => FrameFits(t)

ASSUME SeedsAssumption ==
    \A n \in Cases : Seeds[n] \subseteq [Topology[n].cells -> Rule[n].states]

VARIABLES
    case,          \* which topology and rule
    stopOnCycle,   \* stop_on_cycle
    board, generation,
    seen,          \* the boards before the first repetition, by generation
    extinction,    \* extinction_step
    cycleStart, period

trajectoryVars == <<case, stopOnCycle, board, generation, seen, extinction, cycleStart, period>>

None == -1

Here == Topology[case]

\* "Live" is any state but zero.
Population(b) == Cardinality({c \in DOMAIN b : b[c] # 0})

\* A plausible slip: a board is compared with the one before it only.
SeenAt_Previous(b) ==
    IF generation \in DOMAIN seen /\ seen[generation] = b THEN generation ELSE None

\* The generation that first had this board.
SeenAt(b) ==
    LET at == {g \in DOMAIN seen : seen[g] = b}
    IN  IF at = {} THEN None ELSE CHOOSE g \in at : TRUE

Finished == (stopOnCycle /\ period # None) \/ generation = MaxSteps

-------------------------------------------------------------------------------
(* Generation zero is measured before any step. *)
TrajectoryInit ==
    /\ case \in Cases
    /\ stopOnCycle \in BOOLEAN
    /\ board \in Seeds[case]
    /\ generation = 0
    /\ seen = [g \in {0} |-> board]
    /\ extinction = IF Population(board) = 0 THEN 0 ELSE None
    /\ cycleStart = None
    /\ period = None

\* _measure_frame and the bookkeeping after it, for the board just reached.
Measure(b, g) ==
    /\ extinction' = IF extinction = None /\ Population(b) = 0 THEN g ELSE extinction
    /\ IF period # None THEN UNCHANGED <<seen, cycleStart, period>>
       ELSE IF SeenAt(b) = None
       THEN /\ seen' = [n \in DOMAIN seen \cup {g} |-> IF n = g THEN b ELSE seen[n]]
            /\ UNCHANGED <<cycleStart, period>>
       ELSE /\ cycleStart' = SeenAt(b)
            /\ period' = g - SeenAt(b)
            /\ UNCHANGED seen

Advance ==
    /\ ~Finished
    /\ board' = Generation(Rule[case], Here, board)
    /\ generation' = generation + 1
    /\ Measure(board', generation')
    /\ UNCHANGED <<case, stopOnCycle>>

TrajectoryNext == Advance

TrajectorySpec == TrajectoryInit /\ [][TrajectoryNext]_trajectoryVars

\* A plausible slip: the period is looked at before the population.
Classify_PeriodFirst(population, p) ==
    IF p = 1 THEN "still-life" ELSE IF p > 1 THEN "oscillator"
    ELSE IF population = 0 THEN "extinct" ELSE "unsettled"

\* The label of a finished comparison; the period is part of an oscillator's.
Classify(population, p) ==
    IF population = 0 THEN "extinct"
    ELSE IF p = 1 THEN "still-life" ELSE IF p > 1 THEN "oscillator" ELSE "unsettled"

-------------------------------------------------------------------------------
(* Boards hold states of their rule, and the bookkeeping is consistent. *)
TrajectoryTypeOK ==
    /\ board \in [Here.cells -> Rule[case].states]
    /\ generation \in 0 .. MaxSteps
    /\ DOMAIN seen \subseteq 0 .. generation
    /\ extinction \in {None} \cup 0 .. generation
    /\ (cycleStart = None) <=> (period = None)
    /\ period # None => cycleStart \in DOMAIN seen

(***************************************************************************)
(* The two statements of every rule agree: the pass over the whole board   *)
(* that the engine runs (next_states) gives each cell what the rule says   *)
(* of that cell alone (next_state).                                        *)
(***************************************************************************)
BatchAgrees ==
    LET batch == Generation(Rule[case], Here, board)
    IN  \A c \in Here.cells : batch[c] = NextState(Rule[case], Here, board, c)

(***************************************************************************)
(* Adjacency is mutual on every topology run: a cell is among the          *)
(* neighbours of each of its neighbours, on both parities of rows and      *)
(* orientations and at the edges of the board.                             *)
(***************************************************************************)
AdjacencyMutual ==
    \A c \in Here.cells : \A n \in Here.adjacent[c] :
        n # c /\ n \in Here.cells /\ c \in Here.adjacent[n]

\* The topology run and the board on it are well formed.
BoardWellFormed == TrajectoryTypeOK /\ AdjacencyMutual

(***************************************************************************)
(* A reported cycle is the evolution's: from cycleStart on, however far a  *)
(* filmstrip goes on past the repetition, the board is the one seen the    *)
(* period before, and no shorter or earlier cycle was missed.              *)
(***************************************************************************)
CyclesAreReal ==
    /\ \A g, h \in DOMAIN seen : seen[g] = seen[h] => g = h
    /\ IF period = None THEN generation \in DOMAIN seen /\ seen[generation] = board
       ELSE board = seen[cycleStart + ((generation - cycleStart) % period)]

(***************************************************************************)
(* The label of a comparison tells how the board would go on: an extinct   *)
(* board stays empty, a still life stays as it is with cells alive, an     *)
(* oscillator comes back after its period and not before, and an unsettled *)
(* board used up the budget without a repetition.                          *)
(***************************************************************************)
LabelForetells ==
    LET later[n \in 0 .. MaxSteps + 1] ==
            IF n = 0 THEN board ELSE Generation(Rule[case], Here, later[n - 1])
        label == Classify(Population(board), period)
    IN  Finished /\ stopOnCycle =>
          CASE label = "extinct"    -> Population(board) = 0 /\ later[1] = board
            [] label = "still-life" -> Population(board) > 0 /\ later[1] = board
            [] label = "oscillator" ->
                 /\ later[period] = board
                 /\ \A n \in 1 .. period - 1 : later[n] # board /\ Population(later[n]) > 0
            [] label = "unsettled"  -> generation = MaxSteps /\ Cardinality(DOMAIN seen) = MaxSteps + 1

(***************************************************************************)
(* Extinction is final: once a frame had no live cell, no rule brings one  *)
(* back, so the step reported as extinction_step never needs correcting.   *)
(***************************************************************************)
ExtinctionIsFinal == [][extinction # None => Population(board') = 0]_trajectoryVars

(***************************************************************************)
(* A whirlpool source never goes out and never idles: the next generation  *)
(* has it again and, while one of its neighbours rests, has one of these   *)
(* excited, wherever on the board it stands and whatever is around it.     *)
(***************************************************************************)
SourcesEmit ==
    [][Rule[case] = Whirlpool =>
         \A s \in Here.cells : board[s] = Source =>
            /\ board'[s] = Source
            /\ (\E n \in Here.adjacent[s] : board[n] = Resting)
                 => \E n \in Here.adjacent[s] : board[n] = Resting /\ board'[n] = Excited]_trajectoryVars
===============================================================================
