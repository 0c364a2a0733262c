----------------------------- MODULE MCTrajectory -----------------------------
(***************************************************************************)
(* Small boards of every regular tiling and of two mixed tilings, with the *)
(* rules made for them. The 7x7 square has all five zones of a whirlpool;  *)
(* the 4x4 one has an eye of four cells.                                   *)
(***************************************************************************)
EXTENDS Trajectory

Regular(geometry, width, height) ==
    [cells    |-> Coordinates(width, height),
     adjacent |-> Tabulated([c \in Coordinates(width, height) |-> Neighbors(geometry, width, height, c)]),
     kind     |-> Tabulated([c \in Coordinates(width, height) |-> "cell"])]

Framed(width, height) ==
    [cells    |-> Coordinates(width, height),
     adjacent |-> Tabulated([c \in Coordinates(width, height) |-> Neighbors("square", width, height, c)]),
     frame    |-> Tabulated(DirectionalFrame(width, height))]

\* The 2x2 board of the trihexagonal tiling: each hexagon's triangles.
Hexagons ==
    [h00 |-> {"td00", "tu00", "tu01"},
     h10 |-> {"td00", "td01", "td10", "tu01", "tu10", "tu11"},
     h01 |-> {"td01", "tu01"},
     h11 |-> {"td01", "td11", "tu11"}]

Trihexagonal ==
    LET up == {"tu00", "tu01", "tu10", "tu11"}
        down == {"td00", "td01", "td10", "td11"}
        hexagons == DOMAIN Hexagons
        cells == hexagons \cup up \cup down
    IN  [cells    |-> cells,
         adjacent |-> Tabulated([c \in cells |-> IF c \in hexagons THEN Hexagons[c]
                                       ELSE {h \in hexagons : c \in Hexagons[h]}]),
         kind     |-> Tabulated([c \in cells |-> IF c \in hexagons THEN "hexagon"
                                       ELSE IF c \in up THEN "triangle-up" ELSE "triangle-down"])]

\* The 2x1 board of the square-octagon tiling.
Octagons ==
    [o0 |-> {"s00", "s10", "s11", "s01"}, o1 |-> {"s10", "s20", "s21", "s11"}]

SquareOctagon ==
    LET squares == UNION {Octagons[o] : o \in DOMAIN Octagons}
        cells == squares \cup DOMAIN Octagons
    IN  [cells    |-> cells,
         adjacent |-> Tabulated([c \in cells |->
                        IF c \in squares THEN {o \in DOMAIN Octagons : c \in Octagons[o]}
                        ELSE Octagons[c] \cup (DOMAIN Octagons \ {c})]),
         kind     |-> Tabulated([c \in cells |-> IF c \in squares THEN "square" ELSE "octagon"])]

Boards ==
    [conway |-> Regular("square", 3, 3), highlife |-> Regular("square", 4, 3),
     hexlife |-> Regular("hex", 3, 3), trilife |-> Regular("triangle", 4, 3),
     kagome |-> Trihexagonal, mixed |-> SquareOctagon, wire |-> Regular("square", 3, 3),
     waves |-> Regular("hex", 3, 4), eye4 |-> Framed(4, 4),
     whirl |-> Framed(5, 5), zones |-> Framed(7, 7)]

MCCases == DOMAIN Boards

Rulebook ==
    [conway |-> Conway, highlife |-> HighLife, hexlife |-> HexLife, trilife |-> TriLife,
     kagome |-> KagomeLife, mixed |-> ArchLife488, wire |-> WireWorld, waves |-> Excitable, eye4 |-> Whirlpool,
     whirl |-> Whirlpool, zones |-> Whirlpool]

\* Boards with n cells painted, one after the other.
RECURSIVE Painted(_, _, _)
Painted(cells, states, n) ==
    IF n = 0 THEN {[c \in cells |-> 0]}
    ELSE {Tabulated([b EXCEPT ![c] = s]) : b \in Painted(cells, states, n - 1), c \in cells, s \in states}

SeedsOf(width, height, rule, n) == Painted(Coordinates(width, height), rule.states, n)

WithSource(boards) == {Tabulated([b EXCEPT ![c] = Source]) : b \in boards, c \in Coordinates(5, 5)}

FirstBoards ==
    [conway  |-> SeedsOf(3, 3, Conway, 9),   highlife |-> SeedsOf(4, 3, HighLife, 5),
     hexlife |-> SeedsOf(3, 3, HexLife, 9),  trilife  |-> SeedsOf(4, 3, TriLife, 4),
     kagome  |-> Painted(Trihexagonal.cells, KagomeLife.states, 4),
     mixed   |-> Painted(SquareOctagon.cells, ArchLife488.states, 8),
    wire    |-> SeedsOf(3, 3, WireWorld, 3), waves   |-> SeedsOf(3, 4, Excitable, 2),
     eye4    |-> SeedsOf(4, 4, Whirlpool, 2), whirl   |-> WithSource(SeedsOf(5, 5, Whirlpool, 1)),
     zones   |-> SeedsOf(7, 7, Whirlpool, 1)]

\* Named twice, so that TLC evaluates each table once.
MCTopology == Boards
MCRule == Rulebook
MCSeeds == FirstBoards
===============================================================================
