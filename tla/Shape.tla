------------------------------- MODULE Shape -------------------------------
(***************************************************************************)
(* Polyominoes: their coordinates, the seven prototypes the engine loads,  *)
(* and the clockwise quarter turn.                                         *)
(*                                                                         *)
(* A polyomino keeps its blocks as offsets from its own position.  The     *)
(* colour of a block and the order of the block vector only matter to the  *)
(* renderer, so the blocks are the set of their offsets.                   *)
(***************************************************************************)
EXTENDS Integers

Vect2D == [x : Int, y : Int]

Vect(x, y) == [x |-> x, y |-> y]

Add(a, b) == Vect(a.x + b.x, a.y + b.y)

Sub(a, b) == Vect(a.x - b.x, a.y - b.y)

Polyomino == [pos : Vect2D, pivot : Vect2D, h : Nat, w : Nat, blocks : SUBSET Vect2D]

\* The position of a polyomino that is not on the board.
OffBoard == Vect(-32, -32)

initPolyomino(pos, h, w, blocks) ==
  [pos    |-> pos,
   pivot  |-> Vect(w \div 2, h \div 2),
   h      |-> h,
   w      |-> w,
   blocks |-> blocks]

(***************************************************************************)
(* The prototypes.                                                         *)
(***************************************************************************)

TetroNames == {"I", "O", "T", "L", "J", "S", "Z"}

BoxSize == [I |-> 4, O |-> 2, T |-> 3, L |-> 3, J |-> 3, S |-> 3, Z |-> 3]

TetroBlocks ==
  [I |-> {Vect(0,1), Vect(1,1), Vect(2,1), Vect(3,1)},
   O |-> {Vect(0,0), Vect(1,0), Vect(0,1), Vect(1,1)},
   T |-> {Vect(1,0), Vect(0,1), Vect(1,1), Vect(2,1)},
   L |-> {Vect(2,0), Vect(0,1), Vect(1,1), Vect(2,1)},
   J |-> {Vect(0,0), Vect(0,1), Vect(1,1), Vect(2,1)},
   S |-> {Vect(1,0), Vect(2,0), Vect(1,1), Vect(0,1)},
   Z |-> {Vect(0,0), Vect(1,0), Vect(1,1), Vect(2,1)}]

\* Mutant: a prototype only one of whose coordinates is the sentinel.
loadTetroHalfOff(name) ==
  initPolyomino(Vect(-32, 0), BoxSize[name], BoxSize[name], TetroBlocks[name])

loadTetro(name) ==
  initPolyomino(OffBoard, BoxSize[name], BoxSize[name], TetroBlocks[name])

(***************************************************************************)
(* rotatePolyomino: one clockwise quarter turn.  The code takes a          *)
(* direction and an amount and uses neither.  Blocks and pivot are flipped *)
(* along the diagonal, mirrored, and shifted back by the distance the      *)
(* pivot travelled; a pivot on a grid line (even width) is not mirrored    *)
(* but shifted.                                                            *)
(***************************************************************************)

FlipDiagonally(v, h) == Vect(v.y - h, v.x + h)

\* Mutant: cells mirrored as if they were points.
FlipPoint(v) == Vect(-v.x, v.y)

FlipHorizontally(v) == Vect(-v.x - 1, v.y)

\* Mutant: a pivot on a grid line treated as one in a cell.
PivotTrackerOdd(p) == FlipHorizontally(FlipDiagonally(p.pivot, p.h))

PivotTracker(p) ==
  LET flipped == FlipDiagonally(p.pivot, p.h)
  IN  IF p.w % 2 = 0
        THEN Vect(flipped.x + p.w, flipped.y)
        ELSE FlipHorizontally(flipped)

TurnBlock(p, b) ==
  Sub(FlipHorizontally(FlipDiagonally(b, p.h)), Sub(PivotTracker(p), p.pivot))

rotatePolyomino(p) ==
  [pos    |-> p.pos,
   pivot  |-> p.pivot,
   h      |-> p.w,
   w      |-> p.h,
   blocks |-> {TurnBlock(p, b) : b \in p.blocks}]

(***************************************************************************)
(* What every polyomino of the game looks like: a square box, turned about *)
(* its middle, holding at least one block.                                 *)
(***************************************************************************)

Box(n) == [x : 0 .. n - 1, y : 0 .. n - 1]

SquareShape(p) ==
  /\ p \in Polyomino
  /\ p.h = p.w
  /\ p.h \in 1 .. 4
  /\ p.pivot = Vect(p.w \div 2, p.h \div 2)
  /\ p.blocks # {}
  /\ p.blocks \subseteq Box(p.h)

\* A quarter turn of an n by n box, the reference rotatePolyomino is held to.
QuarterTurn(blocks, n) == {Vect(n - 1 - b.y, b.x) : b \in blocks}
=============================================================================
