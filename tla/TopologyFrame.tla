---------------------------- MODULE TopologyFrame ----------------------------
(***************************************************************************)
(* The directional frame of a square board                                 *)
(* (backend/simulation/rule_context_frames.py): how far each cell lies     *)
(* from the centre, in graph steps and in distance, and for each neighbour *)
(* whether it lies further out and on which side it turns around the       *)
(* centre.                                                                 *)
(*                                                                         *)
(* Square centres are halves, so twice the vector from the centre of the   *)
(* board is a pair of integers and every comparison the code makes between *)
(* distances and angles is one between integers here. (On the other        *)
(* tilings the code compares rounded floating-point numbers.)              *)
(***************************************************************************)
EXTENDS RegularLattice, FiniteSets, FiniteSetsExt

\* The same function; TLC tabulates it instead of evaluating it at each use.
Tabulated(f) == CHOOSE g \in {f} : g = f

\* Twice the vector from the centre of the board, y upwards as in the code's
\* atan2(-dy, dx).
FromCentre(width, height, c) == <<2 * c[1] + 1 - width, height - 1 - 2 * c[2]>>

\* atan2(-0.0, 0.0) is 0: a cell in the very centre heads to the right.
Heading(v) == IF v = <<0, 0>> THEN <<1, 0>> ELSE v

Distance2(v) == v[1] * v[1] + v[2] * v[2]

Cross(u, v) == u[1] * v[2] - u[2] * v[1]

\* The sign of the normalised angle from u to v, which lies in (-pi, pi].
Turn(u, v) ==
    IF Cross(u, v) < 0 THEN "clockwise"
    ELSE IF Cross(u, v) = 0 /\ u[1] * v[1] + u[2] * v[2] > 0 THEN "aligned"
    ELSE "counterclockwise"

\* clockwise_sort_key: angles grow clockwise from straight up.
ClockwiseBefore(u, v) ==
    LET half(w) == IF w[1] > 0 \/ (w[1] = 0 /\ w[2] > 0) THEN 0 ELSE 1
    IN  half(u) < half(v) \/ (half(u) = half(v) /\ Cross(u, v) < 0)

\* Rings of cells by their distance in the graph from the cells nearest to
\* the centre (one, two or four of them on a square board).
Shells(width, height) ==
    LET cells == Coordinates(width, height)
        away(c) == Distance2(FromCentre(width, height, c))
        roots == {c \in cells : \A d \in cells : away(c) <= away(d)}
        reached[k \in 0 .. width + height] ==
            IF k = 0 THEN roots
            ELSE LET ring == reached[k - 1]
                 IN  ring \cup UNION {Neighbors("square", width, height, c) : c \in ring}
        rings == Tabulated(reached)
    IN  Tabulated([c \in cells |-> Min({k \in DOMAIN rings : c \in rings[k]})])

(***************************************************************************)
(* topology_frame_for. A cell has its shell, its squared distance next to  *)
(* that of the farthest cell (their ratio decides its zone) and a link for *)
(* each neighbour: radial, turn, and what the code's radial_delta,         *)
(* angle_delta and clockwise_index are used for, as integers that order    *)
(* the neighbours alike: how much nearer to the centre (nearness), how far *)
(* clockwise (swing, a rank), and the place in clockwise order.            *)
(***************************************************************************)
DirectionalFrame(width, height) ==
    LET cells == Coordinates(width, height)
        shell == Shells(width, height)
        vector(c) == FromCentre(width, height, c)
        farthest2 == Max({Distance2(vector(d)) : d \in cells})
        around(c) == Neighbors("square", width, height, c)
        turn(c, n) == Turn(Heading(vector(c)), Heading(vector(n)))
        step(c, n) == <<n[1] - c[1], c[2] - n[2]>>
        link(c, n) ==
            [cell   |-> n,
             radial |-> IF shell[n] < shell[c] THEN "inward"
                        ELSE IF shell[n] > shell[c] THEN "outward" ELSE "level",
             turn   |-> turn(c, n),
             nearness |-> Max({0, Distance2(vector(c)) - Distance2(vector(n))}),
             swing  |-> IF turn(c, n) # "clockwise" THEN 0
                        ELSE 1 + Cardinality({m \in around(c) :
                               /\ turn(c, m) = "clockwise"
                               /\ Cross(Heading(vector(m)), Heading(vector(n))) < 0}),
             order  |-> Cardinality({m \in around(c) :
                               ClockwiseBefore(step(c, m), step(c, n))})]
    IN  [c \in cells |->
            [shell  |-> shell[c],
             radius2 |-> Distance2(vector(c)),
             farthest2 |-> farthest2,
             links  |-> {link(c, n) : n \in around(c)}]]
==============================================================================
