------------------------------- MODULE Engine -------------------------------
(***************************************************************************)
(* The engine as game::run uses it: one playfield, the falling shape, the  *)
(* next shape and the bag of tetrominoes.  Each action is one call the     *)
(* game makes, with its return value as a parameter where the caller reads *)
(* it.                                                                     *)
(***************************************************************************)
EXTENDS Playfield, Sequences, Functions

CONSTANT Tetros  (* the shapes a bag holds, all seven in the code *)

ASSUME TetrosAssumption ==
  /\ Tetros \subseteq TetroNames
  /\ \E s, t \in Tetros : s # t
  /\ \A t \in Tetros : TetroBlocks[t] \subseteq Cells

VARIABLES
  grid,       (* occupied cells of the playfield                           *)
  shape,      (* the falling shape                                         *)
  nextShape,  (* the shape shown as next                                   *)
  bag,        (* tetroBag: drawn from its back                             *)
  corrupt     (* a block was written outside the matrix: from here on the  *)
              (* program has undefined behaviour and nothing is promised   *)

engineVars == <<grid, shape, nextShape, bag, corrupt>>

-----------------------------------------------------------------------------
(* drawTetro and shakeTetroBag. *)

\* Every order in which the shake loop can empty undrawnTetros.
Shuffles == Bijection(1 .. Cardinality(Tetros), Tetros)

\* The bags drawTetro may pop from, shaken first when the bag is empty.
BagToDraw(b) == IF b = <<>> THEN Shuffles ELSE {b}

Back(b) == b[Len(b)]

PopBack(b) == SubSeq(b, 1, Len(b) - 1)

\* What is left in the bag between two draws.
PartialBags == UNION {Injection(1 .. n, Tetros) : n \in 0 .. Cardinality(Tetros) - 1}

DrawNext ==
  \E b \in BagToDraw(bag) :
    /\ nextShape' = loadTetro(Back(b))
    /\ bag' = PopBack(b)

-----------------------------------------------------------------------------
(* Moving, turning and dropping the falling shape. *)

Placed(s) == s.pos # OffBoard

At(s, position) == [s EXCEPT !.pos = position]

\* setPolynoPos writes one block per cell without a bounds check of its own.
PlaceOn(g, s, position) ==
  IF CellsAt(s, position) \subseteq Cells
    THEN /\ grid' = setPolynoPos(g, s, position)
         /\ shape' = At(s, position)
         /\ UNCHANGED corrupt
    ELSE /\ corrupt' = TRUE
         /\ UNCHANGED <<grid, shape>>

movePolyno(d, moved) ==
  LET position == Add(d, shape.pos)
  IN  /\ moved = polynoMoveCheck(grid, shape, position, TRUE)
      /\ IF moved
           THEN PlaceOn(grid, shape, position)
           ELSE UNCHANGED <<grid, shape, corrupt>>
      /\ UNCHANGED <<nextShape, bag>>

\* Mutant: the check of a turned shape ignores the cells it would cover.
TurnFitsItself(lifted, r) == polynoMoveCheck(lifted, r, r.pos, TRUE)

TurnFits(lifted, r) == polynoMoveCheck(lifted, r, r.pos, FALSE)

\* Mutant: a shape that could not turn stays lifted.
LeaveLifted(lifted) == grid' = lifted /\ UNCHANGED <<shape, corrupt>>

PutBack(lifted) == PlaceOn(lifted, shape, shape.pos)

\* rotate: lift the shape off the board, try the turned copy, and put back
\* whichever of the two stays.
rotate(turned) ==
  LET rotatedShape == rotatePolyomino(shape)
      lifted       == deletePolynoBlocks(grid, shape)
  IN  /\ turned = TurnFits(lifted, rotatedShape)
      /\ IF turned
           THEN PlaceOn(lifted, rotatedShape, rotatedShape.pos)
           ELSE PutBack(lifted)
      /\ UNCHANGED <<nextShape, bag>>

Below(k) == Add(Vect(0, k), shape.pos)

\* The board and the check movePolyno makes once the shape has sunk k rows.
GridSunk(k) == IF k = 0 THEN grid ELSE setPolynoPos(grid, shape, Below(k))

CanSinkFrom(k) == polynoMoveCheck(GridSunk(k), At(shape, Below(k)), Below(k + 1), TRUE)

CanFall == CanSinkFrom(0)

\* dropPolyno moves the shape down until movePolyno refuses.
DropsBy(k) ==
  /\ \A j \in 0 .. k - 1 : CanSinkFrom(j)
  /\ ~CanSinkFrom(k)

-----------------------------------------------------------------------------
(* timeoutAction. *)

ClearedGrid(g) ==
  IF hasFilledRow(g) THEN clearFilledRows(g, checkFilledRows(g)) ELSE g

\* The part of timeoutAction after the shape could not move down: the shape
\* object is freed, its blocks stay on the board g, rows are cleared, the
\* next shape is promoted and placed if it fits.  ret is the return value.
LockAndSpawn(g, ret) ==
  /\ DrawNext
  /\ IF polynoMoveCheck(ClearedGrid(g), nextShape, Origin, TRUE)
       THEN /\ PlaceOn(ClearedGrid(g), nextShape, Origin)
            /\ ret = 0
       ELSE /\ grid' = ClearedGrid(g)
            /\ shape' = nextShape
            /\ ret = 1
            /\ UNCHANGED corrupt

timeoutAction(ret) ==
  \/ movePolyno(Vect(0, 1), TRUE) /\ ret = 0
  \/ ~CanFall /\ LockAndSpawn(grid, ret)

\* GAME_DROP: dropPolyno, then the fall through to timeoutAction.
dropThenTimeout(ret) ==
  \E k \in 0 .. H : DropsBy(k) /\ LockAndSpawn(GridSunk(k), ret)

-----------------------------------------------------------------------------

\* A game starts on an empty board with two draws.  The bag is static and
\* not reset by ngin::init, so the draws start from whatever an earlier game
\* left; the first shape is placed without a check.
EngineInit ==
  \E left \in PartialBags :
    \E b1 \in BagToDraw(left) :
      \E b2 \in BagToDraw(PopBack(b1)) :
        /\ shape = At(loadTetro(Back(b1)), Origin)
        /\ grid = CellsAt(shape, Origin)
        /\ nextShape = loadTetro(Back(b2))
        /\ bag = PopBack(b2)
        /\ corrupt = FALSE

MoveLeft == \E moved \in BOOLEAN : movePolyno(Vect(-1, 0), moved)

MoveRight == \E moved \in BOOLEAN : movePolyno(Vect(1, 0), moved)

Rotate == \E turned \in BOOLEAN : rotate(turned)

Down == \E ret \in {0, 1} : timeoutAction(ret)

Drop == \E ret \in {0, 1} : dropThenTimeout(ret)

\* After undefined behaviour the model follows the program no further.
Undefined == corrupt /\ UNCHANGED engineVars

EngineNext ==
  \/ ~corrupt /\ MoveLeft
  \/ ~corrupt /\ MoveRight
  \/ ~corrupt /\ Rotate
  \/ ~corrupt /\ Down
  \/ ~corrupt /\ Drop
  \/ Undefined

EngineSpec == EngineInit /\ [][EngineNext]_engineVars

-----------------------------------------------------------------------------
(* Properties. *)

ShapeCells == IF Placed(shape) THEN CellsAt(shape, shape.pos) ELSE {}

\* The blocks that no longer belong to the falling shape.
Stack == grid \ ShapeCells

\* Blocks and shapes stay in the representation the code assumes: a square
\* shape with at least one block, a matrix index for every block, a bag of
\* the shapes of the game.
EngineTypeOK ==
  /\ grid \subseteq Cells
  /\ SquareShape(shape)
  /\ nextShape \in {loadTetro(t) : t \in Tetros}
  /\ bag \in Seq(Tetros)
  /\ corrupt \in BOOLEAN

\* A shape that has a position on the board covers only cells of the matrix
\* and every one of them holds a block: the separate bookkeeping of the
\* shape object and of the matrix never drift apart, through rejected moves,
\* undone rotations and cleared rows.
PieceDrawn == ShapeCells \subseteq grid

\* The coordinate -32 marks a shape that is off the board, and two places
\* test it differently (either coordinate in polynoMoveCheck, both in
\* deletePolynoBlocks): a shape on the board never has it, though positions
\* left of the board are legal.
SentinelSafe == Placed(shape) => shape.pos.x # -32 /\ shape.pos.y # -32

\* setPolynoPos writes without a bounds check of its own, and the check made
\* before it lets an ignored cell pass before it looks at the bounds: still,
\* as long as the shape is on the board, no block is written outside it.
WritesInBounds == [][Placed(shape) => corrupt' = corrupt]_engineVars

\* However often it was turned, the falling shape is one of the four
\* orientations of a tetromino of the bag inside the box it started with.
ShapeIsTetromino ==
  \E t \in Tetros :
    LET n  == BoxSize[t]
        r0 == TetroBlocks[t]
        r1 == QuarterTurn(r0, n)
        r2 == QuarterTurn(r1, n)
        r3 == QuarterTurn(r2, n)
    IN  shape.h = n /\ shape.blocks \in {r0, r1, r2, r3}

\* A step in which no shape was drawn from the bag.
SameShape == bag' = bag

\* Moving, turning and sinking the shape leaves every locked block where it
\* is and adds none, though each of them deletes and rewrites cells of the
\* shared matrix.  The origin is left out: see StackIntact.
StackStable ==
  [][SameShape => (Stack' \ {Origin}) = (Stack \ {Origin})]_engineVars

\* A refused move or turn leaves the board as it was: rotate deletes the
\* shape's blocks before it checks and has to put all of them back.
RefusalKeepsBoard == [][SameShape /\ shape' = shape => grid' = grid]_engineVars

\* Row clearing by its definition: going down the board, a filled row is
\* taken out and everything above it sinks by one row.  sunk[n] is what
\* becomes of the top n rows.
Collapsed(g) ==
  LET sunk[n \in 0 .. H] ==
        IF n = 0 THEN {}
        ELSE IF RowFilled(g, n - 1)
               THEN {Vect(c.x, c.y + 1) : c \in sunk[n - 1]}
               ELSE sunk[n - 1] \cup {c \in g : c.y = n - 1}
  IN  sunk[H]

\* The board once the shape has sunk as far as it can.
GridAtRest == GridSunk(CHOOSE k \in 0 .. H : DropsBy(k))

\* When a shape locks, what is left of the board is the board with the shape
\* at rest, its filled rows removed and the rest sunk by the right amount,
\* however many rows are filled at once and wherever they are.  A filled top
\* row is left out: see FilledRowsCleared.
LockCollapses ==
  [][~SameShape /\ ~RowFilled(GridAtRest, 0)
       => (Stack' \ {Origin}) = (Collapsed(GridAtRest) \ {Origin})]_engineVars

\* engine.cpp:170 says the cells the move check ignores are the previous
\* position of the shape: then no move, turn or spawn takes a locked block
\* away, and only row clearing does.
StackIntact ==
  [][IF SameShape
       THEN Stack' = Stack
       ELSE ~RowFilled(GridAtRest, 0) => Stack' = Collapsed(GridAtRest)]_engineVars

\* README.md:14 lists line clearing: after a shape locked and rows were
\* cleared no filled row is left among the locked blocks.
FilledRowsCleared == [][~SameShape => ~hasFilledRow(Stack')]_engineVars
=============================================================================
