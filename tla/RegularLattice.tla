--------------------------- MODULE RegularLattice ---------------------------
(***************************************************************************)
(* The regular tilings (backend/simulation/topology_regular.py): a cell is *)
(* its coordinates <<x, y>>, x growing to the right and y downwards, and   *)
(* its neighbours are the cells of the board at the offsets its geometry,  *)
(* and the parity of its row or of its orientation, selects.               *)
(***************************************************************************)
EXTENDS Integers

RegularGeometries == {"square", "hex", "triangle"}

Coordinates(width, height) == (0 .. width - 1) \X (0 .. height - 1)

SquareOffsets == ((-1 .. 1) \X (-1 .. 1)) \ {<<0, 0>>}

HexOffsetsEvenRow ==
    {<<-1, -1>>, <<0, -1>>, <<1, 0>>, <<0, 1>>, <<-1, 1>>, <<-1, 0>>}

HexOffsetsOddRow ==
    {<<0, -1>>, <<1, -1>>, <<1, 0>>, <<1, 1>>, <<0, 1>>, <<-1, 0>>}

\* A triangle touches, along an edge or at a corner, two cells on each side
\* in its row, three in the row its apex points to and five in the row its
\* base lies on.
TriangleOffsetsUp ==
    {<<dx, 0>> : dx \in (-2 .. 2) \ {0}}
        \cup ((-1 .. 1) \X {-1}) \cup ((-2 .. 2) \X {1})

TriangleOffsetsDown ==
    {<<dx, 0>> : dx \in (-2 .. 2) \ {0}}
        \cup ((-2 .. 2) \X {-1}) \cup ((-1 .. 1) \X {1})

HexOffsets(y) == IF y % 2 = 1 THEN HexOffsetsOddRow ELSE HexOffsetsEvenRow

\* build_triangle_cells: the row decides which orientation the even columns
\* have, the column picks one of the two.
TriangleOffsets(x, y) ==
    LET evenColumns == IF y % 2 = 0 THEN TriangleOffsetsUp ELSE TriangleOffsetsDown
        oddColumns  == IF y % 2 = 0 THEN TriangleOffsetsDown ELSE TriangleOffsetsUp
    IN  IF x % 2 = 0 THEN evenColumns ELSE oddColumns

Offsets(geometry, c) ==
    CASE geometry = "square"   -> SquareOffsets
      [] geometry = "hex"      -> HexOffsets(c[2])
      [] geometry = "triangle" -> TriangleOffsets(c[1], c[2])

\* _regular_neighbor_id: an offset that leaves the board has no neighbour.
Neighbors(geometry, width, height, c) ==
    {n \in Coordinates(width, height) :
        <<n[1] - c[1], n[2] - c[2]>> \in Offsets(geometry, c)}
=============================================================================
