----------------------------- MODULE Playfield -----------------------------
(***************************************************************************)
(* The playfield operations of the engine, as operators on the set of      *)
(* occupied cells.  The code keeps a matrix of block pointers in which     *)
(* nullptr is an empty cell; the block of the falling shape and the blocks *)
(* already locked are stored alike.  RowClear.tla keeps the pointers.      *)
(***************************************************************************)
EXTENDS Shape, FiniteSets

CONSTANTS W,  (* playfield width,  10 in game::run *)
          H   (* playfield height, 20 in game::run *)

ASSUME SizeAssumption == W \in Nat \ {0} /\ H \in Nat \ {0}

Cells == [x : 0 .. W - 1, y : 0 .. H - 1]

Rows == 0 .. H - 1

Origin == Vect(0, 0)

InBounds(c) == 0 <= c.x /\ c.x < W /\ 0 <= c.y /\ c.y < H

\* The cells a shape covers when it stands at a position.
CellsAt(s, position) == {Add(b, position) : b \in s.blocks}

(***************************************************************************)
(* polynoMoveCheck.  The vector of ignored cells is created with one       *)
(* default entry per block, so the origin is always among them; the other  *)
(* entries are the cells the shape covers now, left out for a block that   *)
(* would leave the board.                                                  *)
(***************************************************************************)

IgnoredCells(s, position, ignoreCurrentPos) ==
  {Origin} \cup
  (IF ignoreCurrentPos /\ s.pos.x # OffBoard.x /\ s.pos.y # OffBoard.y
     THEN {Add(b, s.pos) : b \in {c \in s.blocks : InBounds(Add(c, position))}}
     ELSE {})

\* Mutant: no bounds checking.
MoveCheckUnbounded(g, s, position, ignoreCurrentPos) ==
  \A b \in s.blocks :
    \/ Add(b, position) \in IgnoredCells(s, position, ignoreCurrentPos)
    \/ Add(b, position) \notin g

polynoMoveCheck(g, s, position, ignoreCurrentPos) ==
  \A b \in s.blocks :
    \/ Add(b, position) \in IgnoredCells(s, position, ignoreCurrentPos)
    \/ InBounds(Add(b, position)) /\ Add(b, position) \notin g

deletePolynoBlocks(g, s) ==
  IF s.pos # OffBoard THEN g \ CellsAt(s, s.pos) ELSE g

\* The board after setPolynoPos; the shape itself moves to the position too.
setPolynoPos(g, s, position) == deletePolynoBlocks(g, s) \cup CellsAt(s, position)

(***************************************************************************)
(* Filled rows.                                                            *)
(***************************************************************************)

RowFilled(g, y) == \A x \in 0 .. W - 1 : Vect(x, y) \in g

hasFilledRow(g) == \E y \in Rows : RowFilled(g, y)

checkFilledRows(g) == [y \in Rows |-> RowFilled(g, y)]

\* clearRow(p, 0) runs its loop zero times: a filled top row stays.
RowsCleared(rows) == {y \in Rows \ {0} : rows[y]}

\* Mutant: the rows cleared above.
RowsClearedAbove(rows, y) == Cardinality({i \in RowsCleared(rows) : i < y})

\* How far the cells of row y sink.
RowsClearedBelow(rows, y) == Cardinality({i \in RowsCleared(rows) : i > y})

clearFilledRows(g, rows) ==
  {Vect(c.x, c.y + RowsClearedBelow(rows, c.y)) :
     c \in {d \in g : d.y \notin RowsCleared(rows)}}
=============================================================================
