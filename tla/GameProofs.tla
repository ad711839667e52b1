----------------------------- MODULE GameProofs -----------------------------
(***************************************************************************)
(* The safety of the engine and of the game for every board, every set of  *)
(* shapes and every limit of the timers.                                   *)
(*                                                                         *)
(* The first part is about Engine.tla: the types, the agreement of the     *)
(* shape object with the matrix, the sentinel coordinate, the locked       *)
(* blocks, the orientations of the shape, the clearing of rows and the     *)
(* order of the shapes.  The second part is about Game.tla: how far the    *)
(* shape can sink, what each engine call does to that number, and from     *)
(* this that the game implements PieceTimer.tla and has the properties     *)
(* proved there.                                                           *)
(***************************************************************************)
EXTENDS Game, FiniteSetTheorems, SequenceTheorems, NaturalsInduction, TLAPS

-----------------------------------------------------------------------------
(* The quarter turn: flip, mirror and pivot tracking of rotatePolyomino come
   down to a clockwise turn of the shape's box, and the shapes of the game
   keep the form the engine relies on. *)

\* The shift by the travelled pivot is one box height down, for the boxes
\* with a middle cell and for those with a middle grid line.
LEMMA PivotShift ==
  ASSUME NEW p, SquareShape(p)
  PROVE  Sub(PivotTracker(p), p.pivot) = Vect(0, p.h)
<1>1. /\ p.h \in 1 .. 4 /\ p.w = p.h
      /\ p.pivot = Vect(p.w \div 2, p.h \div 2)
  BY DEF SquareShape
<1>2. /\ p.pivot.x = p.h \div 2 /\ p.pivot.y = p.h \div 2
  BY <1>1 DEF Vect
<1>3. p.h = 1 \/ p.h = 2 \/ p.h = 3 \/ p.h = 4
  BY <1>1
<1>4. CASE p.h = 1
  BY <1>1, <1>2, <1>4 DEF PivotTracker, FlipDiagonally, FlipHorizontally, Sub, Vect
<1>5. CASE p.h = 2
  BY <1>1, <1>2, <1>5 DEF PivotTracker, FlipDiagonally, FlipHorizontally, Sub, Vect
<1>6. CASE p.h = 3
  BY <1>1, <1>2, <1>6 DEF PivotTracker, FlipDiagonally, FlipHorizontally, Sub, Vect
<1>7. CASE p.h = 4
  BY <1>1, <1>2, <1>7 DEF PivotTracker, FlipDiagonally, FlipHorizontally, Sub, Vect
<1> QED
  BY <1>3, <1>4, <1>5, <1>6, <1>7

\* A block turns about the middle of the box.
LEMMA BlockTurns ==
  ASSUME NEW p, SquareShape(p), NEW b \in p.blocks
  PROVE  TurnBlock(p, b) = Vect(p.h - 1 - b.y, b.x)
<1>1. p.h \in 1 .. 4 /\ b \in Box(p.h)
  BY DEF SquareShape
<1>2. p.h \in Int /\ b.x \in Int /\ b.y \in Int
  BY <1>1 DEF Box
<1> DEFINE u == -(b.y - p.h) - 1
           v == b.x + p.h
<1>3. FlipHorizontally(FlipDiagonally(b, p.h)) = Vect(u, v)
  BY DEF FlipHorizontally, FlipDiagonally, Vect
<1>4. u - 0 = p.h - 1 - b.y /\ v - p.h = b.x
  BY <1>2
<1> HIDE DEF u, v
<1>5. Sub(Vect(u, v), Vect(0, p.h)) = Vect(u - 0, v - p.h)
  BY DEF Sub, Vect
<1> QED
  BY <1>3, <1>4, <1>5, PivotShift DEF TurnBlock

\* rotatePolyomino is a quarter turn of the box, for every shape of the game.
THEOREM RotateIsQuarterTurn ==
  ASSUME NEW p, SquareShape(p)
  PROVE  rotatePolyomino(p).blocks = QuarterTurn(p.blocks, p.h)
<1>1. rotatePolyomino(p).blocks = {TurnBlock(p, b) : b \in p.blocks}
  BY DEF rotatePolyomino
<1> QED
  BY <1>1, BlockTurns DEF QuarterTurn

\* The turned shape has the box, the pivot and the position it had, and its
\* blocks are in the box: a shape can be turned any number of times.
THEOREM RotateKeepsSquare ==
  ASSUME NEW p, SquareShape(p)
  PROVE  /\ SquareShape(rotatePolyomino(p))
         /\ rotatePolyomino(p).pos = p.pos
         /\ rotatePolyomino(p).h = p.h
<1> DEFINE r == rotatePolyomino(p)
<1>1. /\ p.pos \in Vect2D /\ p.pivot \in Vect2D /\ p.h = p.w /\ p.h \in 1 .. 4
      /\ p.pivot = Vect(p.w \div 2, p.h \div 2)
      /\ p.blocks # {} /\ p.blocks \subseteq Box(p.h)
  BY DEF SquareShape, Polyomino
<1>2. r = [pos |-> p.pos, pivot |-> p.pivot, h |-> p.h, w |-> p.h,
           blocks |-> {TurnBlock(p, b) : b \in p.blocks}]
  BY <1>1 DEF rotatePolyomino
<1>3. \A b \in p.blocks : TurnBlock(p, b) \in Box(p.h)
  <2> SUFFICES ASSUME NEW b \in p.blocks PROVE TurnBlock(p, b) \in Box(p.h)
    OBVIOUS
  <2>1. b.x \in 0 .. p.h - 1 /\ b.y \in 0 .. p.h - 1 /\ p.h \in Int
    BY <1>1 DEF Box
  <2>2. p.h - 1 - b.y \in 0 .. p.h - 1
    BY <2>1
  <2> QED
    BY <2>1, <2>2, BlockTurns DEF Box, Vect
<1>4. r.blocks # {} /\ r.blocks \subseteq Box(r.h)
  BY <1>1, <1>2, <1>3
<1>5. Box(p.h) \subseteq Vect2D
  BY <1>1 DEF Box, Vect2D
<1>6. r \in Polyomino
  BY <1>1, <1>2, <1>4, <1>5 DEF Polyomino
<1> QED
  BY <1>1, <1>2, <1>4, <1>6 DEF SquareShape

\* Four quarter turns of a box bring every block back to where it was.
LEMMA QuarterTurnsCancel ==
  ASSUME NEW n \in Nat, NEW blocks \in SUBSET Box(n)
  PROVE  QuarterTurn(QuarterTurn(QuarterTurn(QuarterTurn(blocks, n), n), n), n) = blocks
<1> DEFINE T(b) == Vect(n - 1 - b.y, b.x)
<1>1. ASSUME NEW b \in Box(n)
      PROVE  T(b) \in Box(n)
  <2>1. b.x \in 0 .. n - 1 /\ b.y \in 0 .. n - 1 /\ n - 1 - b.y \in 0 .. n - 1
    BY DEF Box
  <2> QED
    BY <2>1 DEF Box, Vect
<1>2. ASSUME NEW b \in Box(n)
      PROVE  T(T(T(T(b)))) = b
  <2>1. b.x \in Int /\ b.y \in Int /\ b = [x |-> b.x, y |-> b.y]
    BY DEF Box
  <2>2. T(T(b)) = Vect(n - 1 - b.x, n - 1 - b.y)
    BY DEF Vect
  <2>3. T(T(T(T(b)))) = Vect(n - 1 - (n - 1 - b.x), n - 1 - (n - 1 - b.y))
    BY <2>2 DEF Vect
  <2>4. n - 1 - (n - 1 - b.x) = b.x /\ n - 1 - (n - 1 - b.y) = b.y
    BY <2>1
  <2> QED
    BY <2>1, <2>3, <2>4 DEF Vect
<1>3. \A s : QuarterTurn(s, n) = {T(b) : b \in s}
  BY DEF QuarterTurn
<1> HIDE DEF T
<1>4. QuarterTurn(QuarterTurn(QuarterTurn(QuarterTurn(blocks, n), n), n), n)
        = {T(T(T(T(b)))) : b \in blocks}
  BY <1>3
<1>5. {T(T(T(T(b)))) : b \in blocks} = blocks
  BY <1>2
<1> QED
  BY <1>4, <1>5

\* Four calls of rotatePolyomino give the shape it started from: the corrections
\* about the pivot, which differ for even and odd boxes, never add up, and neither
\* the box, the pivot nor the position drifts.
THEOREM FourTurnsAreNone ==
  ASSUME NEW p, SquareShape(p)
  PROVE  rotatePolyomino(rotatePolyomino(rotatePolyomino(rotatePolyomino(p)))) = p
<1> DEFINE p1 == rotatePolyomino(p)
           p2 == rotatePolyomino(p1)
           p3 == rotatePolyomino(p2)
           p4 == rotatePolyomino(p3)
<1>1. /\ SquareShape(p1) /\ p1.pos = p.pos /\ p1.h = p.h
      /\ p1.blocks = QuarterTurn(p.blocks, p.h)
  BY RotateKeepsSquare, RotateIsQuarterTurn
<1> HIDE DEF p1
<1>2. /\ SquareShape(p2) /\ p2.pos = p.pos /\ p2.h = p.h
      /\ p2.blocks = QuarterTurn(p1.blocks, p.h)
  BY <1>1, RotateKeepsSquare, RotateIsQuarterTurn
<1> HIDE DEF p2
<1>3. /\ SquareShape(p3) /\ p3.pos = p.pos /\ p3.h = p.h
      /\ p3.blocks = QuarterTurn(p2.blocks, p.h)
  BY <1>2, RotateKeepsSquare, RotateIsQuarterTurn
<1> HIDE DEF p3
<1>4. /\ SquareShape(p4) /\ p4.pos = p.pos /\ p4.h = p.h
      /\ p4.blocks = QuarterTurn(p3.blocks, p.h)
  BY <1>3, RotateKeepsSquare, RotateIsQuarterTurn
<1> HIDE DEF p4
<1>5. p4.blocks = p.blocks
  <2>1. p.h \in Nat /\ p.blocks \in SUBSET Box(p.h)
    BY DEF SquareShape
  <2> QED
    BY <1>1, <1>2, <1>3, <1>4, <2>1, QuarterTurnsCancel
<1>6. p4.w = p.w /\ p4.pivot = p.pivot
  BY <1>4 DEF SquareShape
<1>7. p \in Polyomino /\ p4 \in Polyomino
  BY <1>4 DEF SquareShape
<1>8. p4 = p
  BY <1>4, <1>5, <1>6, <1>7 DEF Polyomino
<1> QED
  BY <1>8 DEF p1, p2, p3, p4

-----------------------------------------------------------------------------
(* The inductive invariant. *)

Inv == EngineTypeOK /\ PieceDrawn

-----------------------------------------------------------------------------
(* The playfield operators. *)

\* Every row that was cleared below another leaves room for it to sink.
LEMMA RoomToSink ==
  ASSUME NEW rows, NEW y \in Rows
  PROVE  RowsClearedBelow(rows, y) \in 0 .. H - 1 - y
<1> DEFINE S == {i \in RowsCleared(rows) : i > y}
<1>1. S \subseteq y + 1 .. H - 1 /\ y + 1 \in Int /\ H - 1 \in Int
  BY SizeAssumption DEF RowsCleared, Rows
<1>2. IsFiniteSet(y + 1 .. H - 1) /\ Cardinality(y + 1 .. H - 1) = IF y + 1 > H - 1 THEN 0 ELSE H - 1 - (y + 1) + 1
  BY <1>1, FS_Interval
<1>3. /\ IsFiniteSet(S)
      /\ Cardinality(S) <= Cardinality(y + 1 .. H - 1)
      /\ Cardinality(S) \in Nat
  BY <1>1, <1>2, FS_Subset, FS_CardinalityType
<1>4. y \in 0 .. H - 1 /\ H \in Nat
  BY SizeAssumption DEF Rows
<1>5. Cardinality(y + 1 .. H - 1) \in Int /\ Cardinality(y + 1 .. H - 1) <= H - 1 - y
  BY <1>2, <1>4
<1>6. RowsClearedBelow(rows, y) = Cardinality(S)
  BY DEF RowsClearedBelow
<1> HIDE DEF S
<1> QED
  BY <1>3, <1>4, <1>5, <1>6

\* Clearing rows leaves every block on the board.
LEMMA ClearingStaysOnBoard ==
  ASSUME NEW g \in SUBSET Cells
  PROVE  ClearedGrid(g) \subseteq Cells
<1>1. ASSUME NEW rows, NEW c \in g
      PROVE  Vect(c.x, c.y + RowsClearedBelow(rows, c.y)) \in Cells
  <2>1. c.x \in 0 .. W - 1 /\ c.y \in Rows
    BY DEF Cells, Rows
  <2>2. RowsClearedBelow(rows, c.y) \in 0 .. H - 1 - c.y
    BY <2>1, RoomToSink
  <2>3. c.y + RowsClearedBelow(rows, c.y) \in 0 .. H - 1
    BY <2>1, <2>2, SizeAssumption DEF Rows
  <2> QED
    BY <2>1, <2>3 DEF Cells, Vect
<1>2. clearFilledRows(g, checkFilledRows(g)) \subseteq Cells
  BY <1>1 DEF clearFilledRows
<1> QED
  BY <1>2 DEF ClearedGrid

\* The cells of a board are places with integer coordinates.
LEMMA CellsAreVects == Cells \subseteq Vect2D
  BY SizeAssumption DEF Cells, Vect2D

\* A shape keeps its blocks inside its box, so a shape none of whose blocks
\* is off the board has a position near the board.
LEMMA NearBoard ==
  ASSUME NEW s, SquareShape(s), NEW position \in Vect2D, CellsAt(s, position) \subseteq Cells
  PROVE  position.x >= -3 /\ position.y >= -3
<1>1. PICK b \in s.blocks : b \in Box(s.h)
  BY DEF SquareShape
<1>2. /\ b.x \in 0 .. s.h - 1 /\ b.y \in 0 .. s.h - 1 /\ s.h \in 1 .. 4
      /\ position.x \in Int /\ position.y \in Int
  BY <1>1 DEF SquareShape, Box, Vect2D
<1>3. Add(b, position) \in Cells
  BY <1>1 DEF CellsAt
<1>4. b.x + position.x \in 0 .. W - 1 /\ b.y + position.y \in 0 .. H - 1
  BY <1>3 DEF Add, Vect, Cells
<1> QED
  BY <1>2, <1>4, SizeAssumption

\* Moving the position keeps the shape.
LEMMA AtKeepsSquare ==
  ASSUME NEW s, SquareShape(s), NEW position \in Vect2D
  PROVE  /\ SquareShape(At(s, position))
         /\ At(s, position).pos = position
         /\ At(s, position).blocks = s.blocks
  BY DEF SquareShape, At, Polyomino

\* Positions stay integer.
LEMMA AddIsVect ==
  ASSUME NEW a \in Vect2D, NEW b \in Vect2D
  PROVE  Add(a, b) \in Vect2D
  BY DEF Add, Vect, Vect2D

\* The prototypes have the form every shape has, whatever the set of names.
LEMMA PrototypesAreSquare ==
  ASSUME NEW t \in TetroNames
  PROVE  /\ SquareShape(loadTetro(t))
         /\ loadTetro(t).pos = OffBoard
         /\ loadTetro(t).blocks = TetroBlocks[t]
<1>0. /\ loadTetro(t) = [pos |-> OffBoard,
                         pivot |-> Vect(BoxSize[t] \div 2, BoxSize[t] \div 2),
                         h |-> BoxSize[t], w |-> BoxSize[t], blocks |-> TetroBlocks[t]]
  BY DEF loadTetro, initPolyomino
<1>1. /\ BoxSize[t] \in 1 .. 4
      /\ TetroBlocks[t] # {}
      /\ TetroBlocks[t] \subseteq Box(BoxSize[t])
  <2>1. t = "I" \/ t = "O" \/ t = "T" \/ t = "L" \/ t = "J" \/ t = "S" \/ t = "Z"
    BY DEF TetroNames
  <2>2. CASE t = "I"
    <3>1. BoxSize[t] = 4 /\ TetroBlocks[t] = {Vect(0,1), Vect(1,1), Vect(2,1), Vect(3,1)}
      BY <2>2 DEF BoxSize, TetroBlocks
    <3> QED
      BY <3>1 DEF Box, Vect
  <2>3. CASE t = "O"
    <3>1. BoxSize[t] = 2 /\ TetroBlocks[t] = {Vect(0,0), Vect(1,0), Vect(0,1), Vect(1,1)}
      BY <2>3 DEF BoxSize, TetroBlocks
    <3> QED
      BY <3>1 DEF Box, Vect
  <2>4. CASE t = "T"
    <3>1. BoxSize[t] = 3 /\ TetroBlocks[t] = {Vect(1,0), Vect(0,1), Vect(1,1), Vect(2,1)}
      BY <2>4 DEF BoxSize, TetroBlocks
    <3> QED
      BY <3>1 DEF Box, Vect
  <2>5. CASE t = "L"
    <3>1. BoxSize[t] = 3 /\ TetroBlocks[t] = {Vect(2,0), Vect(0,1), Vect(1,1), Vect(2,1)}
      BY <2>5 DEF BoxSize, TetroBlocks
    <3> QED
      BY <3>1 DEF Box, Vect
  <2>6. CASE t = "J"
    <3>1. BoxSize[t] = 3 /\ TetroBlocks[t] = {Vect(0,0), Vect(0,1), Vect(1,1), Vect(2,1)}
      BY <2>6 DEF BoxSize, TetroBlocks
    <3> QED
      BY <3>1 DEF Box, Vect
  <2>7. CASE t = "S"
    <3>1. BoxSize[t] = 3 /\ TetroBlocks[t] = {Vect(1,0), Vect(2,0), Vect(1,1), Vect(0,1)}
      BY <2>7 DEF BoxSize, TetroBlocks
    <3> QED
      BY <3>1 DEF Box, Vect
  <2>8. CASE t = "Z"
    <3>1. BoxSize[t] = 3 /\ TetroBlocks[t] = {Vect(0,0), Vect(1,0), Vect(1,1), Vect(2,1)}
      BY <2>8 DEF BoxSize, TetroBlocks
    <3> QED
      BY <3>1 DEF Box, Vect
  <2> QED
    BY <2>1, <2>2, <2>3, <2>4, <2>5, <2>6, <2>7, <2>8
<1>2. /\ BoxSize[t] \div 2 \in Int /\ Box(BoxSize[t]) \subseteq Vect2D
      /\ OffBoard \in Vect2D
  BY <1>1 DEF Box, Vect2D, OffBoard, Vect
<1>3. Vect(BoxSize[t] \div 2, BoxSize[t] \div 2) \in Vect2D
  BY <1>2 DEF Vect, Vect2D
<1>4. loadTetro(t) \in Polyomino
  BY <1>0, <1>1, <1>2, <1>3 DEF Polyomino
<1> QED
  BY <1>0, <1>1, <1>4 DEF SquareShape

-----------------------------------------------------------------------------
(* The bag and the shapes drawn from it. *)

\* A shaken bag is a sequence of at least two shapes.
LEMMA ShakenBag ==
  ASSUME NEW b \in Shuffles
  PROVE  b \in Seq(Tetros) /\ Len(b) \in Nat /\ Len(b) >= 2
<1>1. IsFiniteSet(TetroNames)
  <2>1. IsFiniteSet({"I"})
    BY FS_Singleton
  <2>2. IsFiniteSet({"I"} \cup {"O"})
    BY <2>1, FS_AddElement
  <2>3. IsFiniteSet({"I"} \cup {"O"} \cup {"T"})
    BY <2>2, FS_AddElement
  <2>4. IsFiniteSet({"I"} \cup {"O"} \cup {"T"} \cup {"L"})
    BY <2>3, FS_AddElement
  <2>5. IsFiniteSet({"I"} \cup {"O"} \cup {"T"} \cup {"L"} \cup {"J"})
    BY <2>4, FS_AddElement
  <2>6. IsFiniteSet({"I"} \cup {"O"} \cup {"T"} \cup {"L"} \cup {"J"} \cup {"S"})
    BY <2>5, FS_AddElement
  <2>7. IsFiniteSet({"I"} \cup {"O"} \cup {"T"} \cup {"L"} \cup {"J"} \cup {"S"} \cup {"Z"})
    BY <2>6, FS_AddElement
  <2>8. TetroNames = {"I"} \cup {"O"} \cup {"T"} \cup {"L"} \cup {"J"} \cup {"S"} \cup {"Z"}
    BY DEF TetroNames
  <2> QED
    BY <2>7, <2>8
<1>2. IsFiniteSet(Tetros) /\ Cardinality(Tetros) \in Nat
  BY <1>1, TetrosAssumption, FS_Subset, FS_CardinalityType
<1>3. Cardinality(Tetros) >= 2
  <2>1. PICK s, t \in Tetros : s # t
    BY TetrosAssumption
  <2>2. Cardinality(Tetros) # 0
    BY <1>2, <2>1, FS_EmptySet
  <2>3. Cardinality(Tetros) # 1
    BY <1>2, <2>1, FS_Singleton
  <2> QED
    BY <1>2, <2>2, <2>3
<1>4. b \in [1 .. Cardinality(Tetros) -> Tetros]
  BY DEF Shuffles, Bijection, Injection
<1> QED
  BY <1>2, <1>3, <1>4

\* The length SubSeqProperties gives for all of a sequence but its back.
LEMMA LengthWithoutBack ==
  ASSUME NEW n \in Nat, n >= 1, NEW l, l = IF 1 <= n - 1 THEN n - 1 - 1 + 1 ELSE 0
  PROVE  l = n - 1
  OBVIOUS

\* What is left of a sequence without its back.
LEMMA PopsBack ==
  ASSUME NEW S, NEW b \in Seq(S), Len(b) >= 1
  PROVE  /\ SubSeq(b, 1, Len(b) - 1) \in Seq(S)
         /\ Len(SubSeq(b, 1, Len(b) - 1)) = Len(b) - 1
<1>1. Len(b) \in Nat /\ Len(b) - 1 \in Int /\ \A i \in 1 .. Len(b) - 1 : b[i] \in S
  OBVIOUS
<1>2. /\ SubSeq(b, 1, Len(b) - 1) \in Seq(S)
      /\ Len(SubSeq(b, 1, Len(b) - 1))
           = IF 1 <= Len(b) - 1 THEN Len(b) - 1 - 1 + 1 ELSE 0
  BY <1>1, SubSeqProperties
<1> QED
  BY <1>1, <1>2, LengthWithoutBack

\* The bag a draw takes its shape from, and what it leaves.
LEMMA BagAfterDraw ==
  ASSUME NEW b \in Seq(Tetros), NEW c \in BagToDraw(b)
  PROVE  /\ c \in Seq(Tetros) /\ Len(c) \in Nat /\ Len(c) >= 1
         /\ Back(c) \in Tetros
         /\ PopBack(c) \in Seq(Tetros) /\ Len(PopBack(c)) = Len(c) - 1
<1>1. c \in Seq(Tetros) /\ Len(c) \in Nat /\ Len(c) >= 1
  <2>1. CASE b = <<>>
    BY <2>1, ShakenBag DEF BagToDraw
  <2>2. CASE b # <<>>
    BY <2>2 DEF BagToDraw
  <2> QED
    BY <2>1, <2>2
<1>2. Back(c) \in Tetros
  BY <1>1 DEF Back
<1> QED
  BY <1>1, <1>2, PopsBack DEF PopBack

\* drawTetro draws a prototype of the game, and leaves a shorter bag or,
\* after a shake, one that is not empty.
LEMMA DrawIsSound ==
  ASSUME bag \in Seq(Tetros), DrawNext
  PROVE  /\ nextShape' \in {loadTetro(t) : t \in Tetros}
         /\ bag' \in Seq(Tetros)
         /\ bag' # bag
<1>1. PICK b \in BagToDraw(bag) : nextShape' = loadTetro(Back(b)) /\ bag' = PopBack(b)
  BY DEF DrawNext
<1>2. /\ b \in Seq(Tetros) /\ Len(b) \in Nat
      /\ Back(b) \in Tetros
      /\ bag' \in Seq(Tetros) /\ Len(bag') = Len(b) - 1
  BY <1>1, BagAfterDraw
<1>3. bag' # bag
  <2>1. CASE bag = <<>>
    BY <1>1, <1>2, <2>1, ShakenBag DEF BagToDraw
  <2>2. CASE bag # <<>>
    BY <1>1, <1>2, <2>2 DEF BagToDraw
  <2> QED
    BY <2>1, <2>2
<1> QED
  BY <1>1, <1>2, <1>3

-----------------------------------------------------------------------------
(* The engine calls. *)

\* What PlaceOn leaves: the shape drawn on the board at its new position, or
\* everything as it was and the note that the program's behaviour is
\* undefined.
LEMMA PlacingDraws ==
  ASSUME NEW g \in SUBSET Cells, NEW s, SquareShape(s), NEW position \in Vect2D,
         SquareShape(shape), PieceDrawn, grid \subseteq Cells,
         corrupt \in BOOLEAN, PlaceOn(g, s, position)
  PROVE  /\ grid' \subseteq Cells
         /\ SquareShape(shape')
         /\ PieceDrawn'
         /\ corrupt' \in BOOLEAN
<1>1. CASE CellsAt(s, position) \subseteq Cells
  <2>1. /\ grid' = deletePolynoBlocks(g, s) \cup CellsAt(s, position)
        /\ shape' = At(s, position)
        /\ corrupt' = corrupt
    BY <1>1 DEF PlaceOn, setPolynoPos
  <2>2. deletePolynoBlocks(g, s) \subseteq Cells
    BY DEF deletePolynoBlocks
  <2>3. SquareShape(shape') /\ shape'.pos = position /\ shape'.blocks = s.blocks
    BY <2>1, AtKeepsSquare
  <2>4. CellsAt(shape', shape'.pos) = CellsAt(s, position)
    BY <2>3 DEF CellsAt
  <2> QED
    BY <1>1, <2>1, <2>2, <2>3, <2>4 DEF PieceDrawn, ShapeCells
<1>2. CASE ~(CellsAt(s, position) \subseteq Cells)
  BY <1>2 DEF PlaceOn, PieceDrawn, ShapeCells
<1> QED
  BY <1>1, <1>2

\* The next shape replaces the locked one and is drawn if it was placed.
LEMMA LockingDraws ==
  ASSUME Inv, NEW g \in SUBSET Cells, NEW ret, LockAndSpawn(g, ret)
  PROVE  Inv'
<1>1. /\ nextShape' \in {loadTetro(t) : t \in Tetros}
      /\ bag' \in Seq(Tetros)
  BY DrawIsSound DEF Inv, EngineTypeOK, LockAndSpawn
<1>2. PICK t \in Tetros : nextShape = loadTetro(t)
  BY DEF Inv, EngineTypeOK
<1>3. SquareShape(nextShape) /\ nextShape.pos = OffBoard
  BY <1>2, PrototypesAreSquare, TetrosAssumption
<1>4. ClearedGrid(g) \in SUBSET Cells /\ Origin \in Vect2D
  BY ClearingStaysOnBoard DEF Origin, Vect, Vect2D
<1>5. CASE PlaceOn(ClearedGrid(g), nextShape, Origin)
  BY <1>1, <1>3, <1>4, <1>5, PlacingDraws DEF Inv, EngineTypeOK
<1>6. CASE /\ grid' = ClearedGrid(g)
           /\ shape' = nextShape
           /\ UNCHANGED corrupt
  <2>1. ShapeCells' = {}
    BY <1>3, <1>6 DEF ShapeCells, Placed
  <2> QED
    BY <1>1, <1>3, <1>4, <1>6, <2>1 DEF Inv, EngineTypeOK, PieceDrawn
<1> QED
  BY <1>5, <1>6 DEF LockAndSpawn

\* movePolyno, moved or refused.
LEMMA MovingDraws ==
  ASSUME Inv, NEW d \in Vect2D, NEW moved, movePolyno(d, moved)
  PROVE  Inv'
<1>1. shape.pos \in Vect2D /\ SquareShape(shape)
  BY DEF Inv, EngineTypeOK, SquareShape, Polyomino
<1>2. Add(d, shape.pos) \in Vect2D
  BY <1>1, AddIsVect
<1>3. UNCHANGED <<nextShape, bag>>
  BY DEF movePolyno
<1>4. CASE PlaceOn(grid, shape, Add(d, shape.pos))
  BY <1>1, <1>2, <1>3, <1>4, PlacingDraws DEF Inv, EngineTypeOK
<1>5. CASE UNCHANGED <<grid, shape, corrupt>>
  BY <1>3, <1>5 DEF Inv, EngineTypeOK, PieceDrawn, ShapeCells
<1> QED
  BY <1>4, <1>5 DEF movePolyno

\* rotate, turned or put back.
LEMMA TurningDraws ==
  ASSUME Inv, NEW turned, rotate(turned)
  PROVE  Inv'
<1>1. SquareShape(shape) /\ shape.pos \in Vect2D /\ grid \in SUBSET Cells
  BY DEF Inv, EngineTypeOK, SquareShape, Polyomino
<1>2. SquareShape(rotatePolyomino(shape)) /\ rotatePolyomino(shape).pos = shape.pos
  BY <1>1, RotateKeepsSquare
<1>3. deletePolynoBlocks(grid, shape) \in SUBSET Cells
  BY <1>1 DEF deletePolynoBlocks
<1>4. UNCHANGED <<nextShape, bag>>
  BY DEF rotate
<1>5. CASE PlaceOn(deletePolynoBlocks(grid, shape), rotatePolyomino(shape), rotatePolyomino(shape).pos)
  BY <1>1, <1>2, <1>3, <1>4, <1>5, PlacingDraws DEF Inv, EngineTypeOK
<1>6. CASE PlaceOn(deletePolynoBlocks(grid, shape), shape, shape.pos)
  BY <1>1, <1>3, <1>4, <1>6, PlacingDraws DEF Inv, EngineTypeOK
<1> QED
  BY <1>5, <1>6 DEF rotate, PutBack

\* What the check lets pass is on the board, though ignored cells pass before
\* their bounds are looked at: they are on the board already.
LEMMA CheckedIsOnBoard ==
  ASSUME NEW g, NEW s, SquareShape(s), NEW position \in Vect2D, NEW ignore \in BOOLEAN,
         \A b \in s.blocks :
            /\ ignore /\ s.pos.x # -32 /\ s.pos.y # -32
            /\ InBounds(Add(b, position))
            => Add(b, s.pos) \in Cells,
         polynoMoveCheck(g, s, position, ignore)
  PROVE  /\ CellsAt(s, position) \subseteq Cells
         /\ CellsAt(s, position) \cap g \subseteq IgnoredCells(s, position, ignore)
<1>1. Origin \in Cells
  BY SizeAssumption DEF Origin, Vect, Cells
<1>2. IgnoredCells(s, position, ignore) \subseteq Cells
  BY <1>1 DEF IgnoredCells, OffBoard, Vect
<1>3. ASSUME NEW b \in s.blocks, InBounds(Add(b, position))
      PROVE  Add(b, position) \in Cells
  <2>1. b.x \in Int /\ b.y \in Int /\ position.x \in Int /\ position.y \in Int
    BY DEF SquareShape, Box, Vect2D
  <2> QED
    BY <1>3, <2>1, SizeAssumption DEF InBounds, Add, Vect, Cells
<1> QED
  BY <1>2, <1>3 DEF polynoMoveCheck, CellsAt

\* A shape that may sink is on the board after it did.
LEMMA SunkStaysOnBoard ==
  ASSUME Inv, NEW k \in Nat, DropsBy(k)
  PROVE  GridSunk(k) \in SUBSET Cells
<1>1. SquareShape(shape) /\ shape.pos \in Vect2D /\ grid \in SUBSET Cells
  BY DEF Inv, EngineTypeOK, SquareShape, Polyomino
<1>2. CASE k = 0
  BY <1>1, <1>2 DEF GridSunk
<1>3. CASE k # 0
  <2> DEFINE s == At(shape, Below(k - 1))
  <2>1. polynoMoveCheck(GridSunk(k - 1), s, Below(k), TRUE)
    <3>1. k - 1 \in 0 .. k - 1 /\ k - 1 + 1 = k
      BY <1>3
    <3> QED
      BY <3>1 DEF DropsBy, CanSinkFrom
  <2>2. /\ Below(k) \in Vect2D /\ Below(k - 1) \in Vect2D
        /\ Below(k).x = shape.pos.x /\ Below(k).y = shape.pos.y + k
        /\ Below(k - 1).x = shape.pos.x /\ Below(k - 1).y = shape.pos.y + k - 1
    BY <1>1 DEF Below, Add, Vect, Vect2D
  <2>3. SquareShape(s) /\ s.pos = Below(k - 1) /\ s.blocks = shape.blocks
    BY <1>1, <2>2, AtKeepsSquare
  <2>4. ASSUME NEW b \in s.blocks, s.pos.x # -32, s.pos.y # -32, InBounds(Add(b, Below(k)))
        PROVE  Add(b, s.pos) \in Cells
    <3>1. b.x \in Int /\ b.y \in Int /\ shape.pos.x \in Int /\ shape.pos.y \in Int
      BY <1>1, <2>3 DEF SquareShape, Box, Vect2D
    <3>2. Add(b, shape.pos) \in Cells
      <4>1. Placed(shape)
        BY <2>2, <2>3, <2>4 DEF Placed, OffBoard, Vect
      <4> QED
        BY <2>3, <4>1 DEF Inv, EngineTypeOK, PieceDrawn, ShapeCells, CellsAt
    <3>3. b.y + shape.pos.y >= 0
      BY <3>2 DEF Add, Vect, Cells
    <3>4. /\ 0 <= b.x + shape.pos.x /\ b.x + shape.pos.x < W
          /\ b.y + (shape.pos.y + k) < H
      BY <2>2, <2>4 DEF InBounds, Add, Vect
    <3>5. b.y + (shape.pos.y + k - 1) \in 0 .. H - 1 /\ b.x + shape.pos.x \in 0 .. W - 1
      BY <1>3, <3>1, <3>3, <3>4, SizeAssumption
    <3> QED
      BY <2>2, <2>3, <3>5 DEF Add, Vect, Cells
  <2>5. CellsAt(s, Below(k)) \subseteq Cells
    BY <2>1, <2>2, <2>3, <2>4, CheckedIsOnBoard
  <2>6. GridSunk(k) = deletePolynoBlocks(grid, shape) \cup CellsAt(s, Below(k))
    BY <1>3, <2>3 DEF GridSunk, setPolynoPos, CellsAt
  <2> QED
    BY <1>1, <2>5, <2>6 DEF deletePolynoBlocks
<1> QED
  BY <1>2, <1>3

\* A game starts with the first shape drawn.
LEMMA InitInv == EngineInit => Inv
<1> SUFFICES ASSUME EngineInit PROVE Inv
  OBVIOUS
<1> DEFINE Starts(b1, b2) ==
             /\ shape = At(loadTetro(Back(b1)), Origin)
             /\ grid = CellsAt(shape, Origin)
             /\ nextShape = loadTetro(Back(b2))
             /\ bag = PopBack(b2)
             /\ corrupt = FALSE
<1>0. PICK left \in PartialBags :
        \E b1 \in BagToDraw(left) : \E b2 \in BagToDraw(PopBack(b1)) : Starts(b1, b2)
  BY DEF EngineInit
<1>1. PICK b1 \in BagToDraw(left) : \E b2 \in BagToDraw(PopBack(b1)) : Starts(b1, b2)
  BY <1>0
<1>2. PICK b2 \in BagToDraw(PopBack(b1)) : Starts(b1, b2)
  BY <1>1
<1>3. left \in Seq(Tetros)
  BY DEF PartialBags, Injection
<1>4. b1 \in Seq(Tetros) /\ Back(b1) \in Tetros /\ PopBack(b1) \in Seq(Tetros)
  BY <1>3, BagAfterDraw
<1>5. b2 \in Seq(Tetros) /\ Back(b2) \in Tetros /\ PopBack(b2) \in Seq(Tetros)
  BY <1>4, BagAfterDraw
<1>6. /\ SquareShape(loadTetro(Back(b1)))
      /\ loadTetro(Back(b1)).blocks = TetroBlocks[Back(b1)]
  BY <1>4, PrototypesAreSquare, TetrosAssumption
<1>7. Origin \in Vect2D
  BY DEF Origin, Vect, Vect2D
<1>8. SquareShape(shape) /\ shape.pos = Origin /\ shape.blocks = TetroBlocks[Back(b1)]
  BY <1>2, <1>6, <1>7, AtKeepsSquare
<1>9. CellsAt(shape, Origin) \subseteq Cells
  <2>1. shape.blocks \subseteq Cells
    BY <1>4, <1>8, TetrosAssumption
  <2>2. ASSUME NEW b \in shape.blocks PROVE Add(b, Origin) = b
    BY <2>1 DEF Cells, Add, Origin, Vect
  <2> QED
    BY <2>1, <2>2 DEF CellsAt
<1>10. PieceDrawn
  BY <1>2, <1>8 DEF PieceDrawn, ShapeCells
<1> QED
  BY <1>2, <1>5, <1>8, <1>9, <1>10 DEF Inv, EngineTypeOK

\* Every call of the engine keeps the invariant.
LEMMA StepInv == Inv /\ [EngineNext]_engineVars => Inv'
<1> SUFFICES ASSUME Inv, [EngineNext]_engineVars PROVE Inv'
  OBVIOUS
<1>v. Vect(-1, 0) \in Vect2D /\ Vect(1, 0) \in Vect2D /\ Vect(0, 1) \in Vect2D
  BY DEF Vect, Vect2D
<1>1. CASE MoveLeft
  BY <1>1, <1>v, MovingDraws DEF MoveLeft
<1>2. CASE MoveRight
  BY <1>2, <1>v, MovingDraws DEF MoveRight
<1>3. CASE Rotate
  BY <1>3, TurningDraws DEF Rotate
<1>4. CASE Down
  <2>1. PICK ret \in {0, 1} : timeoutAction(ret)
    BY <1>4 DEF Down
  <2>2. CASE movePolyno(Vect(0, 1), TRUE)
    BY <2>2, <1>v, MovingDraws
  <2>3. CASE LockAndSpawn(grid, ret)
    BY <2>3, LockingDraws DEF Inv, EngineTypeOK
  <2> QED
    BY <2>1, <2>2, <2>3 DEF timeoutAction
<1>5. CASE Drop
  <2>1. PICK ret \in {0, 1}, k \in 0 .. H : DropsBy(k) /\ LockAndSpawn(GridSunk(k), ret)
    BY <1>5 DEF Drop, dropThenTimeout
  <2>2. GridSunk(k) \in SUBSET Cells
    BY <2>1, SunkStaysOnBoard
  <2> QED
    BY <2>1, <2>2, LockingDraws
<1>6. CASE UNCHANGED engineVars
  BY <1>6 DEF engineVars, Inv, EngineTypeOK, PieceDrawn, ShapeCells
<1> QED
  BY <1>1, <1>2, <1>3, <1>4, <1>5, <1>6 DEF EngineNext, Undefined

\* The invariant holds in every behaviour.
THEOREM AlwaysInv == EngineSpec => []Inv
  BY InitInv, StepInv, PTL DEF EngineSpec

-----------------------------------------------------------------------------

\* The engine keeps its representation for every board size and bag.
THEOREM TypeCorrect == EngineSpec => []EngineTypeOK
<1>1. Inv => EngineTypeOK
  BY DEF Inv
<1> QED
  BY <1>1, AlwaysInv, PTL

\* The falling shape is always drawn where the shape object says it is.
THEOREM ShapeIsDrawn == EngineSpec => []PieceDrawn
<1>1. Inv => PieceDrawn
  BY DEF Inv
<1> QED
  BY <1>1, AlwaysInv, PTL

\* The sentinel coordinate is met only by a shape that is off the board.
THEOREM SentinelIsSafe == EngineSpec => []SentinelSafe
<1>1. ASSUME Inv PROVE SentinelSafe
  <2> SUFFICES ASSUME Placed(shape) PROVE shape.pos.x # -32 /\ shape.pos.y # -32
    BY DEF SentinelSafe
  <2>1. SquareShape(shape) /\ shape.pos \in Vect2D /\ CellsAt(shape, shape.pos) \subseteq Cells
    BY <1>1 DEF Inv, EngineTypeOK, PieceDrawn, ShapeCells, SquareShape, Polyomino
  <2>2. shape.pos.x >= -3 /\ shape.pos.y >= -3
    BY <2>1, NearBoard
  <2> QED
    BY <2>1, <2>2 DEF Vect2D
<1> QED
  BY <1>1, AlwaysInv, PTL

-----------------------------------------------------------------------------
(* What the calls leave alone. *)

\* A shape placed on the board: what is written, and what of the board does
\* not belong to it.
LEMMA PlacedOnBoard ==
  ASSUME NEW g, NEW s, SquareShape(s), NEW position \in Vect2D,
         CellsAt(s, position) \subseteq Cells, PlaceOn(g, s, position)
  PROVE  /\ grid' = deletePolynoBlocks(g, s) \cup CellsAt(s, position)
         /\ shape' = At(s, position)
         /\ corrupt' = corrupt
         /\ Stack' = deletePolynoBlocks(g, s) \ CellsAt(s, position)
<1>1. /\ grid' = deletePolynoBlocks(g, s) \cup CellsAt(s, position)
      /\ shape' = At(s, position)
      /\ corrupt' = corrupt
  BY DEF PlaceOn, setPolynoPos
<1>2. shape'.pos = position /\ shape'.blocks = s.blocks
  BY <1>1, AtKeepsSquare
<1>3. position # OffBoard
  BY NearBoard DEF OffBoard, Vect
<1>4. ShapeCells' = CellsAt(s, position)
  BY <1>2, <1>3 DEF ShapeCells, Placed, CellsAt
<1> QED
  BY <1>1, <1>4 DEF Stack

\* A move that the check lets pass lands on the board, and of the cells it
\* lands on only the origin can hold a locked block.
LEMMA MoveLands ==
  ASSUME Inv, NEW position \in Vect2D, polynoMoveCheck(grid, shape, position, TRUE)
  PROVE  /\ CellsAt(shape, position) \subseteq Cells
         /\ CellsAt(shape, position) \cap Stack \subseteq {Origin}
<1>1. SquareShape(shape)
  BY DEF Inv, EngineTypeOK
<1>2. ASSUME shape.pos.x # -32, shape.pos.y # -32
      PROVE  CellsAt(shape, shape.pos) \subseteq Cells /\ ShapeCells = CellsAt(shape, shape.pos)
  BY <1>2 DEF Inv, EngineTypeOK, PieceDrawn, ShapeCells, Placed, OffBoard, Vect
<1>3. \A b \in shape.blocks :
         TRUE /\ shape.pos.x # -32 /\ shape.pos.y # -32 /\ InBounds(Add(b, position))
         => Add(b, shape.pos) \in Cells
  BY <1>2 DEF CellsAt
<1>4. /\ CellsAt(shape, position) \subseteq Cells
      /\ CellsAt(shape, position) \cap grid \subseteq IgnoredCells(shape, position, TRUE)
  BY <1>1, <1>3, CheckedIsOnBoard
<1>5. IgnoredCells(shape, position, TRUE) \subseteq {Origin} \cup ShapeCells
  BY <1>2 DEF IgnoredCells, CellsAt, OffBoard, Vect
<1> QED
  BY <1>4, <1>5 DEF Stack

\* The same of a turn, made on the board the shape was lifted from.
LEMMA TurnLands ==
  ASSUME Inv,
         polynoMoveCheck(deletePolynoBlocks(grid, shape), rotatePolyomino(shape),
                         rotatePolyomino(shape).pos, FALSE)
  PROVE  /\ CellsAt(rotatePolyomino(shape), shape.pos) \subseteq Cells
         /\ CellsAt(rotatePolyomino(shape), shape.pos) \cap Stack \subseteq {Origin}
         /\ Placed(shape)
<1> DEFINE r == rotatePolyomino(shape)
<1>1. SquareShape(shape) /\ shape.pos \in Vect2D
  BY DEF Inv, EngineTypeOK, SquareShape, Polyomino
<1>2. SquareShape(r) /\ r.pos = shape.pos
  BY <1>1, RotateKeepsSquare
<1>3. deletePolynoBlocks(grid, shape) = Stack
  BY DEF deletePolynoBlocks, Stack, ShapeCells, Placed
<1> HIDE DEF r
<1>4. /\ CellsAt(r, shape.pos) \subseteq Cells
      /\ CellsAt(r, shape.pos) \cap Stack \subseteq IgnoredCells(r, shape.pos, FALSE)
  BY <1>1, <1>2, <1>3, CheckedIsOnBoard DEF r
<1>5. IgnoredCells(r, shape.pos, FALSE) = {Origin}
  BY DEF IgnoredCells
<1>6. Placed(shape)
  BY <1>1, <1>2, <1>4, NearBoard DEF Placed, OffBoard, Vect
<1> QED
  BY <1>4, <1>5, <1>6 DEF r

\* A lock draws a shape, so that it is told from the other calls.
LEMMA LockDraws ==
  ASSUME Inv, NEW g, NEW ret, LockAndSpawn(g, ret)
  PROVE  ~SameShape
  BY DrawIsSound DEF Inv, EngineTypeOK, LockAndSpawn, SameShape

\* What every call but a lock leaves alone.
LocalEffect ==
  /\ Stack' \ {Origin} = Stack \ {Origin}
  /\ shape' = shape => grid' = grid
  /\ Placed(shape) => corrupt' = corrupt

\* movePolyno.
LEMMA MoveIsLocal ==
  ASSUME Inv, NEW d \in Vect2D, d # Origin, NEW moved, movePolyno(d, moved)
  PROVE  LocalEffect
<1> DEFINE position == Add(d, shape.pos)
<1>1. shape.pos \in Vect2D /\ SquareShape(shape)
  BY DEF Inv, EngineTypeOK, SquareShape, Polyomino
<1>2. position \in Vect2D
  BY <1>1, AddIsVect
<1>3. position # shape.pos
  BY <1>1 DEF Add, Vect, Vect2D, Origin
<1>4. \/ polynoMoveCheck(grid, shape, position, TRUE) /\ PlaceOn(grid, shape, position)
      \/ UNCHANGED <<grid, shape, corrupt>>
  BY DEF movePolyno
<1> HIDE DEF position
<1>5. CASE polynoMoveCheck(grid, shape, position, TRUE) /\ PlaceOn(grid, shape, position)
  <2>1. /\ CellsAt(shape, position) \subseteq Cells
        /\ CellsAt(shape, position) \cap Stack \subseteq {Origin}
    BY <1>2, <1>5, MoveLands
  <2>2. /\ shape' = At(shape, position)
        /\ corrupt' = corrupt
        /\ Stack' = deletePolynoBlocks(grid, shape) \ CellsAt(shape, position)
    BY <1>1, <1>2, <1>5, <2>1, PlacedOnBoard
  <2>3. deletePolynoBlocks(grid, shape) = Stack
    BY DEF deletePolynoBlocks, Stack, ShapeCells, Placed
  <2>4. shape' # shape
    BY <1>1, <1>2, <1>3, <2>2, AtKeepsSquare
  <2> QED
    BY <2>1, <2>2, <2>3, <2>4 DEF LocalEffect
<1>6. CASE UNCHANGED <<grid, shape, corrupt>>
  BY <1>6 DEF LocalEffect, Stack, ShapeCells
<1> QED
  BY <1>4, <1>5, <1>6

\* rotate.
LEMMA TurnIsLocal ==
  ASSUME Inv, NEW turned, rotate(turned)
  PROVE  LocalEffect
<1> DEFINE r == rotatePolyomino(shape)
           lifted == deletePolynoBlocks(grid, shape)
<1>1. SquareShape(shape) /\ shape.pos \in Vect2D /\ PieceDrawn /\ grid \subseteq Cells
  BY DEF Inv, EngineTypeOK, SquareShape, Polyomino
<1>2. SquareShape(r) /\ r.pos = shape.pos
  BY <1>1, RotateKeepsSquare
<1>3. lifted = Stack
  BY DEF deletePolynoBlocks, Stack, ShapeCells, Placed
<1>4. \/ polynoMoveCheck(lifted, r, r.pos, FALSE) /\ PlaceOn(lifted, r, r.pos)
      \/ PlaceOn(lifted, shape, shape.pos)
  BY DEF rotate, TurnFits, PutBack
<1>5. CASE polynoMoveCheck(lifted, r, r.pos, FALSE) /\ PlaceOn(lifted, r, r.pos)
  <2>1. /\ CellsAt(r, shape.pos) \subseteq Cells
        /\ CellsAt(r, shape.pos) \cap Stack \subseteq {Origin}
        /\ Placed(shape)
    BY <1>5, TurnLands
  <2> HIDE DEF r, lifted
  <2>2. /\ grid' = deletePolynoBlocks(lifted, r) \cup CellsAt(r, shape.pos)
        /\ shape' = At(r, shape.pos)
        /\ corrupt' = corrupt
        /\ Stack' = deletePolynoBlocks(lifted, r) \ CellsAt(r, shape.pos)
    BY <1>1, <1>2, <1>5, <2>1, PlacedOnBoard
  <2>3. deletePolynoBlocks(lifted, r) = Stack \ CellsAt(r, shape.pos)
    BY <1>2, <1>3, <2>1 DEF deletePolynoBlocks, Placed
  <2>4. ASSUME shape' = shape PROVE grid' = grid
    <3>1. r.blocks = shape.blocks
      <4>1. At(r, shape.pos).blocks = r.blocks
        BY <1>1, <1>2, AtKeepsSquare
      <4>2. At(r, shape.pos) = shape
        BY <2>2, <2>4
      <4> QED
        BY <4>1, <4>2
    <3>2. CellsAt(r, shape.pos) = ShapeCells /\ ShapeCells \subseteq grid
      BY <1>1, <2>1, <3>1 DEF CellsAt, ShapeCells, PieceDrawn
    <3> QED
      BY <2>2, <2>3, <3>2 DEF Stack
  <2> QED
    BY <2>1, <2>2, <2>3, <2>4 DEF LocalEffect
<1>6. CASE PlaceOn(lifted, shape, shape.pos)
  <2>1. CASE Placed(shape)
    <3>1. ShapeCells = CellsAt(shape, shape.pos) /\ ShapeCells \subseteq grid
      BY <1>1, <2>1 DEF ShapeCells, PieceDrawn
    <3>2. CellsAt(shape, shape.pos) \subseteq Cells
      BY <1>1, <3>1
    <3> HIDE DEF lifted
    <3>3. /\ grid' = deletePolynoBlocks(lifted, shape) \cup CellsAt(shape, shape.pos)
          /\ corrupt' = corrupt
          /\ Stack' = deletePolynoBlocks(lifted, shape) \ CellsAt(shape, shape.pos)
      BY <1>1, <1>6, <3>2, PlacedOnBoard
    <3>4. deletePolynoBlocks(lifted, shape) = Stack
      BY <1>3, <2>1, <3>1 DEF deletePolynoBlocks, Placed, Stack
    <3> QED
      BY <3>1, <3>3, <3>4 DEF LocalEffect, Stack
  <2>2. CASE ~Placed(shape)
    <3>1. ~(CellsAt(shape, shape.pos) \subseteq Cells)
      BY <1>1, <2>2, NearBoard DEF Placed, OffBoard, Vect
    <3>2. UNCHANGED <<grid, shape>>
      BY <1>6, <3>1 DEF PlaceOn
    <3> QED
      BY <2>2, <3>2 DEF LocalEffect, Stack, ShapeCells
  <2> QED
    BY <2>1, <2>2
<1> QED
  BY <1>4, <1>5, <1>6

\* A lock places the next shape on the board or not at all.
LEMMA LockStaysInBounds ==
  ASSUME Inv, NEW g \in SUBSET Cells, NEW ret, LockAndSpawn(g, ret)
  PROVE  corrupt' = corrupt
<1>1. PICK t \in Tetros : nextShape = loadTetro(t)
  BY DEF Inv, EngineTypeOK
<1>2. SquareShape(nextShape) /\ nextShape.pos = OffBoard
  BY <1>1, PrototypesAreSquare, TetrosAssumption
<1>3. Origin \in Vect2D /\ nextShape.pos.x = -32
  BY <1>2 DEF Origin, OffBoard, Vect, Vect2D
<1>4. CASE polynoMoveCheck(ClearedGrid(g), nextShape, Origin, TRUE)
  <2>1. CellsAt(nextShape, Origin) \subseteq Cells
    BY <1>2, <1>3, <1>4, CheckedIsOnBoard
  <2> QED
    BY <1>2, <1>3, <1>4, <2>1, PlacedOnBoard DEF LockAndSpawn
<1>5. CASE ~polynoMoveCheck(ClearedGrid(g), nextShape, Origin, TRUE)
  BY <1>5 DEF LockAndSpawn
<1> QED
  BY <1>4, <1>5

\* Every step is local or a lock that writes inside the matrix.
LEMMA StepIsLocal ==
  ASSUME Inv, [EngineNext]_engineVars
  PROVE  LocalEffect \/ (~SameShape /\ corrupt' = corrupt)
<1>v. /\ Vect(-1, 0) \in Vect2D /\ Vect(1, 0) \in Vect2D /\ Vect(0, 1) \in Vect2D
      /\ Vect(-1, 0) # Origin /\ Vect(1, 0) # Origin /\ Vect(0, 1) # Origin
  BY DEF Vect, Vect2D, Origin
<1>1. CASE MoveLeft
  BY <1>1, <1>v, MoveIsLocal DEF MoveLeft
<1>2. CASE MoveRight
  BY <1>2, <1>v, MoveIsLocal DEF MoveRight
<1>3. CASE Rotate
  BY <1>3, TurnIsLocal DEF Rotate
<1>4. CASE Down
  <2>1. PICK ret \in {0, 1} : timeoutAction(ret)
    BY <1>4 DEF Down
  <2>2. CASE movePolyno(Vect(0, 1), TRUE)
    BY <2>2, <1>v, MoveIsLocal
  <2>3. CASE LockAndSpawn(grid, ret)
    BY <2>3, LockDraws, LockStaysInBounds DEF Inv, EngineTypeOK
  <2> QED
    BY <2>1, <2>2, <2>3 DEF timeoutAction
<1>5. CASE Drop
  <2>1. PICK ret \in {0, 1}, k \in 0 .. H : DropsBy(k) /\ LockAndSpawn(GridSunk(k), ret)
    BY <1>5 DEF Drop, dropThenTimeout
  <2>2. GridSunk(k) \in SUBSET Cells
    BY <2>1, SunkStaysOnBoard
  <2> QED
    BY <2>1, <2>2, LockDraws, LockStaysInBounds
<1>6. CASE UNCHANGED engineVars
  BY <1>6 DEF engineVars, LocalEffect, Stack, ShapeCells
<1> QED
  BY <1>1, <1>2, <1>3, <1>4, <1>5, <1>6 DEF EngineNext, Undefined

\* Locked blocks stay where they are until a shape locks, on every board and
\* with every shape, but for the origin.
THEOREM StackIsStable == EngineSpec => StackStable
<1>1. Inv /\ [EngineNext]_engineVars
        => [SameShape => (Stack' \ {Origin}) = (Stack \ {Origin})]_engineVars
  BY StepIsLocal DEF LocalEffect
<1> QED
  BY <1>1, AlwaysInv, PTL DEF EngineSpec, StackStable

\* A refused move or turn changes no block.
THEOREM RefusalIsHarmless == EngineSpec => RefusalKeepsBoard
<1>1. Inv /\ [EngineNext]_engineVars
        => [SameShape /\ shape' = shape => grid' = grid]_engineVars
  BY StepIsLocal DEF LocalEffect
<1> QED
  BY <1>1, AlwaysInv, PTL DEF EngineSpec, RefusalKeepsBoard

\* A shape on the board is never written outside the matrix.
THEOREM WritesStayInBounds == EngineSpec => WritesInBounds
<1>1. Inv /\ [EngineNext]_engineVars
        => [Placed(shape) => corrupt' = corrupt]_engineVars
  BY StepIsLocal DEF LocalEffect
<1> QED
  BY <1>1, AlwaysInv, PTL DEF EngineSpec, WritesInBounds

-----------------------------------------------------------------------------
(* The shape stays a tetromino. *)

\* The four orientations of a tetromino in its box.
Orientations(t) ==
  LET n  == BoxSize[t]
      r0 == TetroBlocks[t]
      r1 == QuarterTurn(r0, n)
      r2 == QuarterTurn(r1, n)
      r3 == QuarterTurn(r2, n)
  IN  {r0, r1, r2, r3}

Oriented(s, t) == s.h = BoxSize[t] /\ s.blocks \in Orientations(t)

OrientedInv == Inv /\ \E t \in Tetros : Oriented(shape, t)

\* A turn takes an orientation to the next one, and the last to the first.
LEMMA TurnKeepsOrientations ==
  ASSUME NEW t \in TetroNames, NEW s, SquareShape(s), Oriented(s, t)
  PROVE  Oriented(rotatePolyomino(s), t)
<1> DEFINE n == BoxSize[t]
           r0 == TetroBlocks[t]
           r1 == QuarterTurn(r0, n)
           r2 == QuarterTurn(r1, n)
           r3 == QuarterTurn(r2, n)
<1>1. rotatePolyomino(s).blocks = QuarterTurn(s.blocks, n) /\ rotatePolyomino(s).h = n
  BY RotateIsQuarterTurn, RotateKeepsSquare DEF Oriented
<1>2. n \in Nat /\ r0 \in SUBSET Box(n)
  <2>1. SquareShape(loadTetro(t)) /\ loadTetro(t).blocks = r0 /\ loadTetro(t).h = n
    BY PrototypesAreSquare DEF loadTetro, initPolyomino
  <2> QED
    BY <2>1 DEF SquareShape
<1>3. QuarterTurn(r3, n) = r0
  BY <1>2, QuarterTurnsCancel
<1>4. s.blocks \in {r0, r1, r2, r3}
  BY DEF Oriented, Orientations
<1>5. QuarterTurn(s.blocks, n) \in {r0, r1, r2, r3}
  BY <1>3, <1>4
<1> QED
  BY <1>1, <1>5 DEF Oriented, Orientations

\* A drawn prototype stands as it was drawn, at any position.
LEMMA PrototypesAreOriented ==
  ASSUME NEW t \in Tetros
  PROVE  Oriented(loadTetro(t), t)
  BY DEF Oriented, Orientations, loadTetro, initPolyomino

\* Placing a shape does not turn it.
LEMMA AtKeepsOrientation ==
  ASSUME NEW s, SquareShape(s), NEW position, NEW t, Oriented(s, t)
  PROVE  Oriented(At(s, position), t)
  BY DEF Oriented, At, SquareShape, Polyomino

\* PlaceOn keeps the shape it is given, or the one there was.
LEMMA PlacingKeepsOrientation ==
  ASSUME NEW g, NEW s, SquareShape(s), NEW position, NEW t, Oriented(s, t),
         \E u \in Tetros : Oriented(shape, u), t \in Tetros,
         PlaceOn(g, s, position)
  PROVE  \E u \in Tetros : Oriented(shape', u)
<1>1. shape' = At(s, position) \/ shape' = shape
  BY DEF PlaceOn
<1> QED
  BY <1>1, AtKeepsOrientation

\* A lock brings a prototype.
LEMMA LockKeepsOrientation ==
  ASSUME OrientedInv, NEW g, NEW ret, LockAndSpawn(g, ret)
  PROVE  \E u \in Tetros : Oriented(shape', u)
<1>1. PICK t \in Tetros : nextShape = loadTetro(t)
  BY DEF OrientedInv, Inv, EngineTypeOK
<1>2. SquareShape(nextShape) /\ Oriented(nextShape, t)
  BY <1>1, PrototypesAreSquare, PrototypesAreOriented, TetrosAssumption
<1>3. shape' = nextShape \/ PlaceOn(ClearedGrid(g), nextShape, Origin)
  BY DEF LockAndSpawn
<1> QED
  BY <1>2, <1>3, PlacingKeepsOrientation DEF OrientedInv

\* Every call keeps the shape one of the four orientations.
LEMMA StepKeepsOrientation == OrientedInv /\ [EngineNext]_engineVars => OrientedInv'
<1> SUFFICES ASSUME OrientedInv, [EngineNext]_engineVars
             PROVE  \E u \in Tetros : Oriented(shape', u)
  BY StepInv DEF OrientedInv
<1>0. PICK t \in Tetros : Oriented(shape, t) /\ t \in TetroNames
  BY TetrosAssumption DEF OrientedInv
<1>s. SquareShape(shape)
  BY DEF OrientedInv, Inv, EngineTypeOK
<1>m. ASSUME NEW d, NEW moved, movePolyno(d, moved)
      PROVE  \E u \in Tetros : Oriented(shape', u)
  <2>1. PlaceOn(grid, shape, Add(d, shape.pos)) \/ shape' = shape
    BY <1>m DEF movePolyno
  <2> QED
    BY <1>0, <1>s, <2>1, PlacingKeepsOrientation
<1>1. CASE MoveLeft \/ MoveRight
  BY <1>1, <1>m DEF MoveLeft, MoveRight
<1>2. CASE Rotate
  <2> DEFINE r == rotatePolyomino(shape)
             lifted == deletePolynoBlocks(grid, shape)
  <2>1. SquareShape(r) /\ Oriented(r, t)
    BY <1>0, <1>s, RotateKeepsSquare, TurnKeepsOrientations
  <2>2. PlaceOn(lifted, r, r.pos) \/ PlaceOn(lifted, shape, shape.pos)
    BY <1>2 DEF Rotate, rotate, PutBack
  <2> HIDE DEF r, lifted
  <2> QED
    BY <1>0, <1>s, <2>1, <2>2, PlacingKeepsOrientation
<1>3. CASE Down
  BY <1>3, <1>m, LockKeepsOrientation DEF Down, timeoutAction
<1>4. CASE Drop
  BY <1>4, LockKeepsOrientation DEF Drop, dropThenTimeout
<1>5. CASE UNCHANGED engineVars
  BY <1>0, <1>5 DEF engineVars
<1> QED
  BY <1>1, <1>2, <1>3, <1>4, <1>5 DEF EngineNext, Undefined

\* However often it was turned, the falling shape is a tetromino of the bag
\* in one of its four orientations.
THEOREM ShapeStaysTetromino == EngineSpec => []ShapeIsTetromino
<1>1. EngineInit => OrientedInv
  <2> SUFFICES ASSUME EngineInit PROVE \E u \in Tetros : Oriented(shape, u)
    BY InitInv DEF OrientedInv
  <2>0. PICK left \in PartialBags :
          \E b \in BagToDraw(left) : shape = At(loadTetro(Back(b)), Origin)
    BY DEF EngineInit
  <2>1. PICK b \in BagToDraw(left) : shape = At(loadTetro(Back(b)), Origin)
    BY <2>0
  <2>2. left \in Seq(Tetros)
    BY DEF PartialBags, Injection
  <2>3. Back(b) \in Tetros /\ Back(b) \in TetroNames
    BY <2>2, BagAfterDraw, TetrosAssumption
  <2> QED
    BY <2>1, <2>3, PrototypesAreSquare, PrototypesAreOriented, AtKeepsOrientation
<1>2. OrientedInv => ShapeIsTetromino
  BY DEF OrientedInv, Oriented, Orientations, ShapeIsTetromino
<1> QED
  BY <1>1, <1>2, StepKeepsOrientation, PTL DEF EngineSpec

-----------------------------------------------------------------------------
(* How far the shape can sink. *)

\* Least numbers exist.
LEMMA LeastOf ==
  ASSUME NEW S, S \subseteq Nat, S # {}
  PROVE  \E n \in S : \A m \in S : n <= m
<1>1. IsWellFoundedOn(OpToRel(<, Nat), Nat)
  BY NatLessThanWellFounded
<1>2. PICK n \in S : \A m \in S : ~(<<m, n>> \in OpToRel(<, Nat))
  BY <1>1, WFMin
<1>3. \A m \in S : ~(m < n)
  BY <1>2 DEF OpToRel
<1>4. n \in Nat /\ \A m \in S : m \in Nat
  OBVIOUS
<1> QED
  BY <1>3, <1>4

\* The shape may stand k rows further down.
ClearAt(k) ==
  \A b \in shape.blocks :
    \/ Add(b, Below(k)) = Origin
    \/ InBounds(Add(b, Below(k))) /\ Add(b, Below(k)) \notin Stack

\* The coordinates of a block of the shape k rows down.
LEMMA BlockBelow ==
  ASSUME Inv, NEW k \in Int, NEW b \in shape.blocks
  PROVE  /\ b.x \in 0 .. 3 /\ b.y \in 0 .. 3
         /\ shape.pos.x \in Int /\ shape.pos.y \in Int
         /\ Below(k) = Vect(shape.pos.x, shape.pos.y + k)
         /\ Add(b, Below(k)) = Vect(b.x + shape.pos.x, b.y + (shape.pos.y + k))
<1>1. SquareShape(shape) /\ shape.pos \in Vect2D
  BY DEF Inv, EngineTypeOK, SquareShape, Polyomino
<1>2. b \in Box(shape.h) /\ shape.h \in 1 .. 4
  BY <1>1 DEF SquareShape
<1>3. b.x \in 0 .. 3 /\ b.y \in 0 .. 3
  BY <1>2 DEF Box
<1>4. shape.pos.x \in Int /\ shape.pos.y \in Int
  BY <1>1 DEF Vect2D
<1>5. Below(k) = Vect(0 + shape.pos.x, k + shape.pos.y)
  BY DEF Below, Add, Vect
<1>6. 0 + shape.pos.x = shape.pos.x /\ k + shape.pos.y = shape.pos.y + k
  BY <1>4
<1>7. Below(k) = Vect(shape.pos.x, shape.pos.y + k)
  BY <1>5, <1>6
<1>8. Add(b, Below(k)) = Vect(b.x + shape.pos.x, b.y + (shape.pos.y + k))
  BY <1>7 DEF Add, Vect
<1> QED
  BY <1>3, <1>4, <1>7, <1>8

\* The shape k rows down.
LEMMA ShapeBelow ==
  ASSUME Inv, NEW k \in Int
  PROVE  /\ SquareShape(At(shape, Below(k)))
         /\ At(shape, Below(k)).pos = Below(k)
         /\ At(shape, Below(k)).blocks = shape.blocks
         /\ Below(k) \in Vect2D
         /\ Below(k).x = shape.pos.x
         /\ Below(k).y = shape.pos.y + k
<1>1. SquareShape(shape) /\ shape.pos \in Vect2D
  BY DEF Inv, EngineTypeOK, SquareShape, Polyomino
<1>2. Below(k) \in Vect2D /\ Below(k).x = shape.pos.x /\ Below(k).y = shape.pos.y + k
  BY <1>1 DEF Below, Add, Vect, Vect2D
<1> QED
  BY <1>1, <1>2, AtKeepsSquare

\* The shape where it is.
LEMMA ShapeHere ==
  ASSUME Inv
  PROVE  Below(0) = shape.pos /\ At(shape, Below(0)) = shape
<1>1. shape \in Polyomino /\ shape.pos \in Vect2D
  BY DEF Inv, EngineTypeOK, SquareShape, Polyomino
<1>2. PICK x \in Int, y \in Int : shape.pos = [x |-> x, y |-> y]
  BY <1>1 DEF Vect2D
<1>3. Below(0) = [x |-> 0 + x, y |-> 0 + y]
  BY <1>2 DEF Below, Add, Vect
<1>4. Below(0) = shape.pos
  BY <1>2, <1>3
<1>5. [shape EXCEPT !.pos = shape.pos] = shape
  BY <1>1 DEF Polyomino
<1> QED
  BY <1>4, <1>5 DEF At

\* Gravity and the lockout ask the same question as the move down.
LEMMA SinksIfCanFall ==
  ASSUME Inv
  PROVE  CanFall <=> polynoMoveCheck(grid, shape, Add(Vect(0, 1), shape.pos), TRUE)
<1>1. CanFall <=> polynoMoveCheck(grid, At(shape, Below(0)), Below(1), TRUE)
  <2>1. 0 + 1 = 1
    OBVIOUS
  <2> QED
    BY <2>1 DEF CanFall, CanSinkFrom, GridSunk
<1> QED
  BY <1>1, ShapeHere DEF Below

\* A shape on the board is clear where it stands, and cannot sink as many
\* rows as the board has.
LEMMA ClearHere ==
  ASSUME Inv, Placed(shape)
  PROVE  ClearAt(0) /\ ~ClearAt(H)
<1>1. \A b \in shape.blocks : Add(b, shape.pos) \in ShapeCells
  BY DEF ShapeCells, CellsAt
<1>2. ShapeCells \subseteq Cells
  BY DEF Inv, EngineTypeOK, PieceDrawn
<1>3. ClearAt(0)
  <2>1. \A c \in Cells : InBounds(c)
    BY SizeAssumption DEF Cells, InBounds
  <2> QED
    BY <1>1, <1>2, <2>1, ShapeHere DEF ClearAt, Stack
<1>4. PICK b \in shape.blocks : TRUE
  BY DEF Inv, EngineTypeOK, SquareShape
<1>5. Add(b, Below(0)) \in Cells
  BY <1>1, <1>2, ShapeHere
<1>6. b.y + (shape.pos.y + 0) >= 0
  BY <1>5, BlockBelow DEF Cells, Vect
<1>7. /\ Add(b, Below(H)) = Vect(b.x + shape.pos.x, b.y + (shape.pos.y + H))
      /\ b.y \in Int /\ shape.pos.y \in Int /\ H \in Nat /\ H > 0
  BY BlockBelow, SizeAssumption
<1>8. b.y + (shape.pos.y + H) >= H
  BY <1>6, <1>7
<1>9. Add(b, Below(H)).y >= H
  BY <1>7, <1>8 DEF Vect
<1>10. Add(b, Below(H)) # Origin /\ ~InBounds(Add(b, Below(H)))
  BY <1>7, <1>9 DEF Origin, Vect, InBounds
<1> QED
  BY <1>3, <1>10 DEF ClearAt

\* What the board holds once the shape has sunk k rows.
LEMMA SunkGrid ==
  ASSUME Inv, Placed(shape), NEW k \in Nat
  PROVE  GridSunk(k) = Stack \cup CellsAt(shape, Below(k))
<1>1. ShapeCells = CellsAt(shape, shape.pos) /\ ShapeCells \subseteq grid
  BY DEF Inv, PieceDrawn, ShapeCells
<1>2. CASE k = 0
  BY <1>1, <1>2, ShapeHere DEF GridSunk, Stack
<1>3. CASE k # 0
  BY <1>1, <1>3 DEF GridSunk, setPolynoPos, deletePolynoBlocks, Stack, Placed
<1> QED
  BY <1>2, <1>3

\* Sinking one more row is allowed exactly when the row below is clear.
LEMMA SinksIfClear ==
  ASSUME Inv, Placed(shape), NEW k \in Nat, ClearAt(k)
  PROVE  CanSinkFrom(k) <=> ClearAt(k + 1)
<1> DEFINE ignored == IgnoredCells(At(shape, Below(k)), Below(k + 1), TRUE)
           lower(b) == Add(b, Below(k + 1))
<1>0. k + 1 \in Nat /\ k \in Int /\ k + 1 \in Int
  OBVIOUS
<1>1. CanSinkFrom(k) <=>
        \A b \in shape.blocks :
          lower(b) \in ignored \/ (InBounds(lower(b)) /\ lower(b) \notin GridSunk(k))
  BY <1>0, ShapeBelow DEF CanSinkFrom, polynoMoveCheck
<1>2. At(shape, Below(k)).pos.x # -32 /\ At(shape, Below(k)).pos.y # -32
  <2>1. shape.pos \in Vect2D /\ CellsAt(shape, shape.pos) \subseteq Cells /\ SquareShape(shape)
    BY DEF Inv, EngineTypeOK, PieceDrawn, ShapeCells, SquareShape, Polyomino
  <2>2. shape.pos.x >= -3 /\ shape.pos.y >= -3 /\ shape.pos.x \in Int /\ shape.pos.y \in Int
    BY <2>1, NearBoard DEF Vect2D
  <2> QED
    BY <1>0, <2>2, ShapeBelow
<1>3. ignored = {Origin} \cup {Add(c, Below(k)) : c \in {b \in shape.blocks : InBounds(lower(b))}}
  BY <1>0, <1>2, ShapeBelow DEF IgnoredCells, OffBoard, Vect
<1>4. GridSunk(k) = Stack \cup CellsAt(shape, Below(k))
  BY SunkGrid
<1> HIDE DEF ignored
<1>5. ASSUME CanSinkFrom(k), NEW b \in shape.blocks
      PROVE  lower(b) = Origin \/ (InBounds(lower(b)) /\ lower(b) \notin Stack)
  <2>1. CASE lower(b) \in ignored /\ lower(b) # Origin
    <3>1. PICK c \in shape.blocks : lower(b) = Add(c, Below(k)) /\ InBounds(lower(c))
      BY <1>3, <2>1
    <3>2. InBounds(lower(b)) /\ lower(b) \notin Stack
      BY <2>1, <3>1 DEF ClearAt
    <3> QED
      BY <3>2
  <2> QED
    BY <1>1, <1>4, <1>5, <2>1
<1>6. ASSUME ClearAt(k + 1), NEW b \in shape.blocks
      PROVE  lower(b) \in ignored \/ (InBounds(lower(b)) /\ lower(b) \notin GridSunk(k))
  <2>1. CASE lower(b) \in CellsAt(shape, Below(k))
    <3>1. PICK c \in shape.blocks : lower(b) = Add(c, Below(k))
      BY <2>1 DEF CellsAt
    <3>2. InBounds(Origin)
      BY SizeAssumption DEF InBounds, Origin, Vect
    <3>3. InBounds(lower(c))
      BY <1>6, <3>2 DEF ClearAt
    <3> QED
      BY <1>3, <3>1, <3>3
  <2>2. CASE lower(b) = Origin
    BY <1>3, <2>2
  <2> QED
    BY <1>4, <1>6, <2>1, <2>2 DEF ClearAt
<1> QED
  BY <1>1, <1>5, <1>6 DEF ClearAt

\* The shape drops as many rows as are clear below it.
LEMMA DropsWhileClear ==
  ASSUME Inv, Placed(shape), NEW k \in Nat,
         \A j \in 0 .. k : ClearAt(j), ~ClearAt(k + 1)
  PROVE  DropsBy(k)
<1>1. ASSUME NEW j \in 0 .. k - 1 PROVE CanSinkFrom(j)
  <2>1. j \in Nat /\ ClearAt(j) /\ ClearAt(j + 1)
    <3>1. j \in Nat /\ j \in 0 .. k /\ j + 1 \in 0 .. k
      OBVIOUS
    <3> QED
      BY <3>1
  <2> QED
    BY <2>1, SinksIfClear
<1>2. ~CanSinkFrom(k)
  <2>1. ClearAt(k)
    OBVIOUS
  <2> QED
    BY <2>1, SinksIfClear
<1> QED
  BY <1>1, <1>2 DEF DropsBy

\* dropPolyno ends in one place only.
LEMMA DropsOneWay ==
  ASSUME NEW j \in Nat, NEW k \in Nat, DropsBy(j), DropsBy(k)
  PROVE  j = k
<1>1. ~(j < k)
  BY DEF DropsBy
<1>2. ~(k < j)
  BY DEF DropsBy
<1> QED
  BY <1>1, <1>2

\* A shape on the board comes to rest: dropPolyno ends.
LEMMA DropEnds ==
  ASSUME Inv, Placed(shape)
  PROVE  \E k \in 0 .. H : /\ DropsBy(k)
                           /\ \A j \in 0 .. k : ClearAt(j)
                           /\ ~ClearAt(k + 1)
<1> DEFINE S == {k \in Nat : ~ClearAt(k)}
<1>1. H \in S /\ 0 \notin S /\ H \in Nat
  BY ClearHere, SizeAssumption
<1>2. PICK n \in S : \A m \in S : n <= m
  BY <1>1, LeastOf
<1>3. n \in Nat /\ n # 0 /\ n <= H
  BY <1>1, <1>2
<1>4. PICK k \in Nat : n = k + 1 /\ k \in 0 .. H
  <2>1. n - 1 \in Nat /\ n = (n - 1) + 1 /\ n - 1 \in 0 .. H
    BY <1>1, <1>3
  <2> QED
    BY <2>1
<1>5. \A j \in 0 .. k : ClearAt(j)
  <2>1. ASSUME NEW j \in 0 .. k, ~ClearAt(j) PROVE FALSE
    <3>1. j \in S /\ j < n
      BY <1>4, <2>1
    <3> QED
      BY <1>2, <1>3, <3>1
  <2> QED
    BY <2>1
<1>6. ~ClearAt(k + 1)
  BY <1>4
<1> QED
  BY <1>4, <1>5, <1>6, DropsWhileClear

-----------------------------------------------------------------------------
(* Row clearing takes out the filled rows one by one. *)

\* The rows of R that lie below row v among the top n rows.
Under(R, v, n) == Cardinality({r \in R : v < r /\ r < n})

\* Of the rows above row n, none is below a row that is not above row n.
LEMMA UnderNone ==
  ASSUME NEW R, \A r \in R : r \in Nat, NEW v \in Nat, NEW n \in Nat, n <= v + 1
  PROVE  Under(R, v, n) = 0
<1>1. {r \in R : v < r /\ r < n} = {}
  OBVIOUS
<1> QED
  BY <1>1, FS_EmptySet DEF Under

\* Taking row n in adds one to what the rows above it have below them, if it
\* is one of R.
LEMMA UnderNext ==
  ASSUME NEW R, \A r \in R : r \in Nat, NEW v \in Nat, NEW n \in Nat, v < n
  PROVE  /\ Under(R, v, n) \in Nat
         /\ Under(R, v, n + 1) = IF n \in R THEN Under(R, v, n) + 1 ELSE Under(R, v, n)
<1> DEFINE S == {r \in R : v < r /\ r < n}
           T == {r \in R : v < r /\ r < n + 1}
<1>1. \A r \in R : r < n + 1 <=> r < n \/ r = n
  OBVIOUS
<1>2. IsFiniteSet(S)
  <2>1. S \subseteq 0 .. n /\ IsFiniteSet(0 .. n)
    BY FS_Interval
  <2> HIDE DEF S
  <2> QED
    BY <2>1, FS_Subset
<1>3. \A r : /\ r \in S <=> r \in R /\ v < r /\ r < n
             /\ r \in T <=> r \in R /\ v < r /\ r < n + 1
  OBVIOUS
<1>4. ~(n < n) /\ n < n + 1
  OBVIOUS
<1> HIDE DEF S, T
<1>5. CASE n \in R
  <2>1. T = S \cup {n} /\ n \notin S
    BY <1>1, <1>3, <1>4, <1>5
  <2> QED
    BY <1>2, <1>5, <2>1, FS_AddElement, FS_CardinalityType DEF Under, S, T
<1>6. CASE n \notin R
  <2>1. T = S
    BY <1>1, <1>3, <1>6
  <2> QED
    BY <1>2, <1>6, <2>1, FS_CardinalityType DEF Under, S, T
<1> QED
  BY <1>5, <1>6

Filled(g) == {r \in Rows : RowFilled(g, r)}

\* The cells of the top n rows, each sunk over the filled rows among them.
TopSunk(g, n) ==
  {Vect(c.x, c.y + Under(Filled(g), c.y, n)) : c \in {d \in g : d.y < n /\ d.y \notin Filled(g)}}

\* One row more.
TopNext(g, n, top) ==
  IF RowFilled(g, n - 1)
    THEN {Vect(c.x, c.y + 1) : c \in top}
    ELSE top \cup {c \in g : c.y = n - 1}

\* Adding a row to those that have sunk.
LEMMA TopSunkNext ==
  ASSUME NEW g \in SUBSET Cells, NEW n \in 1 .. H
  PROVE  TopSunk(g, n) = TopNext(g, n, TopSunk(g, n - 1))
<1> DEFINE R == Filled(g)
           m == n - 1
           Old == {d \in g : d.y < m /\ d.y \notin R}
           New == {d \in g : d.y < n /\ d.y \notin R}
           To(c, k) == Vect(c.x, c.y + Under(R, c.y, k))
<1>1. m \in Nat /\ n = m + 1 /\ m \in Rows /\ \A r \in R : r \in Nat
  BY SizeAssumption DEF Filled, Rows
<1>2. \A c \in g : c.x \in Int /\ c.y \in Nat /\ c = Vect(c.x, c.y)
  BY SizeAssumption DEF Cells, Vect
<1>3. TopSunk(g, m) = {To(c, m) : c \in Old} /\ TopSunk(g, n) = {To(c, n) : c \in New}
  BY DEF TopSunk
<1>4. m \in R <=> RowFilled(g, m)
  BY <1>1 DEF Filled
<1>5. \A c \in g : c.y < n <=> c.y < m \/ c.y = m
  BY <1>1, <1>2
<1> HIDE DEF R, m
<1>6. ASSUME m \in R
      PROVE  {To(c, n) : c \in New} = {Vect(c.x, c.y + 1) : c \in {To(d, m) : d \in Old}}
  <2>1. New = Old
    BY <1>2, <1>5, <1>6
  <2>2. ASSUME NEW c \in Old
        PROVE  To(c, n) = Vect(To(c, m).x, To(c, m).y + 1)
    <3>1. c.y \in Nat /\ c.y < m
      BY <1>2
    <3>2. Under(R, c.y, m) \in Nat /\ Under(R, c.y, n) = Under(R, c.y, m) + 1
      BY <1>1, <1>6, <3>1, UnderNext
    <3>3. c.y + Under(R, c.y, n) = (c.y + Under(R, c.y, m)) + 1
      BY <3>1, <3>2
    <3> QED
      BY <3>3 DEF Vect
  <2> HIDE DEF To, Old, New
  <2> QED
    BY <2>1, <2>2
<1>7. ASSUME m \notin R
      PROVE  {To(c, n) : c \in New} = {To(d, m) : d \in Old} \cup {c \in g : c.y = m}
  <2>1. New = Old \cup {c \in g : c.y = m}
    BY <1>2, <1>5, <1>7
  <2>2. ASSUME NEW c \in Old
        PROVE  To(c, n) = To(c, m)
    <3>1. c.y \in Nat /\ c.y < m
      BY <1>2
    <3> QED
      BY <1>1, <1>7, <3>1, UnderNext
  <2>3. ASSUME NEW c \in g, c.y = m
        PROVE  To(c, n) = c
    <3>1. Under(R, m, n) = 0
      BY <1>1, UnderNone
    <3>2. m + 0 = m
      BY <1>1
    <3> QED
      BY <1>2, <2>3, <3>1, <3>2
  <2> HIDE DEF To, Old, New
  <2> QED
    BY <2>1, <2>2, <2>3
<1> QED
  BY <1>3, <1>4, <1>6, <1>7 DEF TopNext, m

\* Collapsed by its defining equation.
LEMMA CollapsedByRows ==
  ASSUME NEW g \in SUBSET Cells
  PROVE  Collapsed(g) = TopSunk(g, H)
<1> DEFINE Eq(f) == f = [n \in 0 .. H |-> IF n = 0 THEN {} ELSE
                             IF RowFilled(g, n - 1)
                               THEN {Vect(c.x, c.y + 1) : c \in f[n - 1]}
                               ELSE f[n - 1] \cup {c \in g : c.y = n - 1}]
           G == [n \in 0 .. H |-> TopSunk(g, n)]
           F == CHOOSE f : Eq(f)
<1>0. H \in Nat /\ H > 0
  BY SizeAssumption
<1>1. Collapsed(g) = F[H]
  BY DEF Collapsed
<1>2. TopSunk(g, 0) = {}
  BY SizeAssumption DEF TopSunk, Cells
<1>3. Eq(G)
  <2>1. ASSUME NEW n \in 0 .. H, n # 0
        PROVE  TopSunk(g, n) = TopNext(g, n, G[n - 1])
    <3>1. n \in 1 .. H /\ n - 1 \in 0 .. H
      BY <1>0, <2>1
    <3>2. G[n - 1] = TopSunk(g, n - 1)
      BY <3>1
    <3> QED
      BY <3>1, <3>2, TopSunkNext
  <2> QED
    BY <1>2, <2>1 DEF TopNext
<1>4. Eq(F)
  BY <1>3
<1>5. /\ F[0] = {}
      /\ \A n \in 1 .. H : F[n] = TopNext(g, n, F[n - 1])
  <2>1. \A n \in 0 .. H : F[n] = IF n = 0 THEN {} ELSE TopNext(g, n, F[n - 1])
    BY <1>4 DEF TopNext
  <2>2. 0 \in 0 .. H /\ \A n \in 1 .. H : n \in 0 .. H /\ n # 0
    BY <1>0
  <2> HIDE DEF F
  <2> QED
    BY <2>1, <2>2
<1> HIDE DEF F, Eq, G
<1> DEFINE Bad == {n \in 0 .. H : F[n] # TopSunk(g, n)}
<1>6. Bad = {}
  <2> SUFFICES ASSUME Bad # {} PROVE FALSE
    OBVIOUS
  <2>0. Bad \subseteq Nat
    BY <1>0
  <2>1. PICK n \in Bad : \A m \in Bad : n <= m
    <3> HIDE DEF Bad
    <3> QED
      BY <2>0, LeastOf
  <2>2. n \in 1 .. H /\ n - 1 \in 0 .. H /\ n - 1 < n /\ n \in Int
    BY <1>0, <1>2, <1>5
  <2>3. F[n - 1] = TopSunk(g, n - 1)
    BY <2>1, <2>2
  <2> QED
    BY <1>5, <2>1, <2>2, <2>3, TopSunkNext
<1> QED
  BY <1>0, <1>1, <1>6

\* The closed form of clearFilledRows is the same, if row 0 is not filled.
LEMMA ClearingCollapses ==
  ASSUME NEW g \in SUBSET Cells, ~RowFilled(g, 0)
  PROVE  ClearedGrid(g) = Collapsed(g)
<1> DEFINE rows == checkFilledRows(g)
<1>1. RowsCleared(rows) = Filled(g)
  BY DEF RowsCleared, checkFilledRows, Filled
<1>2. \A c \in g : c.y \in Rows /\ c.y < H /\ c = Vect(c.x, c.y) /\ c.y \in Nat
  BY SizeAssumption DEF Cells, Rows, Vect
<1>3. ASSUME NEW y \in Rows
      PROVE  RowsClearedBelow(rows, y) = Under(Filled(g), y, H)
  <2>1. \A r \in Filled(g) : r < H /\ r \in Nat
    BY SizeAssumption DEF Filled, Rows
  <2>2. {i \in Filled(g) : i > y} = {r \in Filled(g) : y < r /\ r < H}
    BY <2>1, SizeAssumption DEF Rows
  <2> QED
    BY <1>1, <2>2 DEF RowsClearedBelow, Under
<1>4. {d \in g : d.y \notin RowsCleared(rows)} = {d \in g : d.y < H /\ d.y \notin Filled(g)}
  BY <1>1, <1>2
<1>5. clearFilledRows(g, rows) = TopSunk(g, H)
  BY <1>2, <1>3, <1>4 DEF clearFilledRows, TopSunk
<1>6. CASE hasFilledRow(g)
  BY <1>5, <1>6, CollapsedByRows DEF ClearedGrid
<1>7. CASE ~hasFilledRow(g)
  <2>1. Filled(g) = {}
    BY <1>7 DEF hasFilledRow, Filled
  <2>2. Under({}, 0, 0) = 0 /\ \A y : Under({}, y, H) = 0
    BY FS_EmptySet DEF Under
  <2>3. \A c \in g : Vect(c.x, c.y + 0) = c
    BY <1>2
  <2>4. TopSunk(g, H) = g
    BY <1>2, <2>1, <2>2, <2>3 DEF TopSunk
  <2> QED
    BY <1>7, <2>4, CollapsedByRows DEF ClearedGrid
<1> QED
  BY <1>6, <1>7

\* The top n rows once their filled rows are out: they stay the top n rows,
\* and none of them is filled.
Cleaned(g, n) ==
  /\ \A c \in TopSunk(g, n) : c.y \in 0 .. n - 1
  /\ \A y : ~RowFilled(TopSunk(g, n), y)

\* One row more: a filled one goes, one that is not filled stays so.
LEMMA CleanedNext ==
  ASSUME NEW g \in SUBSET Cells, NEW n \in 1 .. H, Cleaned(g, n - 1)
  PROVE  Cleaned(g, n)
<1> DEFINE top == TopSunk(g, n - 1)
           new == TopSunk(g, n)
<1>0. /\ n \in Int /\ n >= 1 /\ 0 \in 0 .. W - 1
      /\ \A c \in top : c.y \in 0 .. n - 2
      /\ \A y : ~RowFilled(top, y)
      /\ \A c \in g : c = Vect(c.x, c.y) /\ c.y \in Int
      /\ \A x, y : Vect(x, y).y = y /\ Vect(x, y).x = x
  BY SizeAssumption DEF Cleaned, Cells, Vect
<1>1. /\ RowFilled(g, n - 1) => new = {Vect(c.x, c.y + 1) : c \in top}
      /\ ~RowFilled(g, n - 1) => new = top \cup {c \in g : c.y = n - 1}
  BY TopSunkNext DEF TopNext
<1> HIDE DEF top, new
<1>2. CASE RowFilled(g, n - 1)
  <2>1. \A c \in new : c.y \in 0 .. n - 1
    BY <1>0, <1>1, <1>2
  <2>2. ASSUME NEW y, RowFilled(new, y) PROVE FALSE
    <3>1. ASSUME NEW x \in 0 .. W - 1
          PROVE  \E c \in top : c.x = x /\ c.y + 1 = y
      <4>1. Vect(x, y) \in new
        BY <2>2 DEF RowFilled
      <4> QED
        BY <1>0, <1>1, <1>2, <4>1
    <3>2. y \in Int
      BY <1>0, <3>1
    <3>3. ASSUME NEW x \in 0 .. W - 1 PROVE Vect(x, y - 1) \in top
      <4>1. PICK c \in top : c.x = x /\ c.y + 1 = y
        BY <3>1
      <4>2. c.y = y - 1
        BY <1>0, <3>2, <4>1
      <4>3. c = Vect(c.x, c.y)
        BY DEF top, TopSunk, Vect
      <4> QED
        BY <4>1, <4>2, <4>3
    <3> QED
      BY <1>0, <3>3 DEF RowFilled
  <2> QED
    BY <2>1, <2>2 DEF Cleaned, new
<1>3. CASE ~RowFilled(g, n - 1)
  <2>1. \A c \in new : c.y \in 0 .. n - 1
    BY <1>0, <1>1, <1>3
  <2>2. ASSUME NEW y, RowFilled(new, y) PROVE FALSE
    <3>1. CASE y = n - 1
      <4>1. ASSUME NEW x \in 0 .. W - 1 PROVE Vect(x, y) \in g
        <5>1. Vect(x, y) \in new /\ Vect(x, y).y = n - 1
          BY <1>0, <2>2, <3>1 DEF RowFilled
        <5>2. Vect(x, y) \notin top
          BY <1>0, <5>1
        <5> QED
          BY <1>1, <1>3, <5>1, <5>2
      <4> QED
        BY <1>3, <3>1, <4>1 DEF RowFilled
    <3>2. CASE y # n - 1
      <4>1. ASSUME NEW x \in 0 .. W - 1 PROVE Vect(x, y) \in top
        BY <1>0, <1>1, <1>3, <2>2, <3>2 DEF RowFilled
      <4> QED
        BY <1>0, <4>1 DEF RowFilled
    <3> QED
      BY <3>1, <3>2
  <2> QED
    BY <2>1, <2>2 DEF Cleaned, new
<1> QED
  BY <1>2, <1>3

\* Nothing filled is left of a board whose top row is not filled.
LEMMA NothingFilledLeft ==
  ASSUME NEW g \in SUBSET Cells, ~RowFilled(g, 0)
  PROVE  ~hasFilledRow(ClearedGrid(g))
<1> DEFINE Bad == {n \in 0 .. H : ~Cleaned(g, n)}
<1>0. H \in Nat /\ H > 0 /\ W \in Nat /\ W > 0
  BY SizeAssumption
<1>1. Cleaned(g, 0)
  <2>1. TopSunk(g, 0) = {}
    BY <1>0 DEF TopSunk, Cells
  <2> QED
    BY <1>0, <2>1 DEF Cleaned, RowFilled
<1>2. Bad = {}
  <2> SUFFICES ASSUME Bad # {} PROVE FALSE
    OBVIOUS
  <2>1. Bad \subseteq Nat
    BY <1>0
  <2>2. PICK n \in Bad : \A m \in Bad : n <= m
    <3> HIDE DEF Bad
    <3> QED
      BY <2>1, LeastOf
  <2>3. n \in 1 .. H /\ n - 1 \in 0 .. H /\ ~(n <= n - 1)
    BY <1>0, <1>1
  <2> QED
    BY <2>2, <2>3, CleanedNext
<1>3. Cleaned(g, H)
  BY <1>0, <1>2
<1> QED
  BY <1>3, ClearingCollapses, CollapsedByRows DEF Cleaned, hasFilledRow

-----------------------------------------------------------------------------
(* What a lock leaves on the board. *)

\* What a lock leaves of the board it locked on.
LEMMA LockLeaves ==
  ASSUME Inv, NEW g \in SUBSET Cells, NEW ret, LockAndSpawn(g, ret)
  PROVE  /\ Stack' \ {Origin} = ClearedGrid(g) \ {Origin}
         /\ Stack' \subseteq ClearedGrid(g)
<1>1. PICK t \in Tetros : nextShape = loadTetro(t)
  BY DEF Inv, EngineTypeOK
<1>2. SquareShape(nextShape) /\ nextShape.pos = OffBoard
  BY <1>1, PrototypesAreSquare, TetrosAssumption
<1>3. Origin \in Vect2D /\ nextShape.pos.x = -32
  BY <1>2 DEF Origin, OffBoard, Vect, Vect2D
<1>4. CASE polynoMoveCheck(ClearedGrid(g), nextShape, Origin, TRUE)
  <2>1. /\ CellsAt(nextShape, Origin) \subseteq Cells
        /\ CellsAt(nextShape, Origin) \cap ClearedGrid(g)
             \subseteq IgnoredCells(nextShape, Origin, TRUE)
    BY <1>2, <1>3, <1>4, CheckedIsOnBoard
  <2>2. IgnoredCells(nextShape, Origin, TRUE) = {Origin}
    BY <1>2 DEF IgnoredCells
  <2>3. Stack' = deletePolynoBlocks(ClearedGrid(g), nextShape) \ CellsAt(nextShape, Origin)
    BY <1>2, <1>3, <1>4, <2>1, PlacedOnBoard DEF LockAndSpawn
  <2>4. deletePolynoBlocks(ClearedGrid(g), nextShape) = ClearedGrid(g)
    BY <1>2 DEF deletePolynoBlocks
  <2> QED
    BY <2>1, <2>2, <2>3, <2>4
<1>5. CASE ~polynoMoveCheck(ClearedGrid(g), nextShape, Origin, TRUE)
  <2>1. grid' = ClearedGrid(g) /\ shape' = nextShape
    BY <1>5 DEF LockAndSpawn
  <2>2. Stack' = ClearedGrid(g)
    BY <1>2, <2>1 DEF Stack, ShapeCells, Placed
  <2> QED
    BY <2>2
<1> QED
  BY <1>4, <1>5

\* The board at rest is the one dropPolyno left.
LEMMA RestIsUnique ==
  ASSUME NEW k \in 0 .. H, DropsBy(k)
  PROVE  GridAtRest = GridSunk(k)
<1> DEFINE n == CHOOSE j \in 0 .. H : DropsBy(j)
<1>1. n \in 0 .. H /\ DropsBy(n)
  OBVIOUS
<1> HIDE DEF n
<1>2. n = k
  BY <1>1, DropsOneWay, SizeAssumption
<1> QED
  BY <1>2 DEF GridAtRest, n

\* Every draw from the bag is a lock of the shape at rest.
LEMMA DrawsAreLocks ==
  ASSUME Inv, EngineNext, ~SameShape
  PROVE  GridAtRest \in SUBSET Cells /\ \E ret : LockAndSpawn(GridAtRest, ret)
<1>1. ASSUME NEW k \in 0 .. H, DropsBy(k)
      PROVE  GridAtRest = GridSunk(k) /\ GridSunk(k) \in SUBSET Cells
  BY <1>1, RestIsUnique, SunkStaysOnBoard, SizeAssumption
<1>2. CASE MoveLeft \/ MoveRight \/ Rotate \/ Undefined
  BY <1>2 DEF MoveLeft, MoveRight, Rotate, Undefined, movePolyno, rotate, engineVars, SameShape
<1>3. CASE Down
  <2>1. PICK ret \in {0, 1} : ~CanFall /\ LockAndSpawn(grid, ret)
    BY <1>3 DEF Down, timeoutAction, movePolyno, SameShape
  <2>2. DropsBy(0) /\ GridSunk(0) = grid /\ 0 \in 0 .. H
    BY <2>1, SizeAssumption DEF DropsBy, CanFall, GridSunk
  <2> QED
    BY <1>1, <2>1, <2>2
<1>4. CASE Drop
  <2>1. PICK ret \in {0, 1}, k \in 0 .. H : DropsBy(k) /\ LockAndSpawn(GridSunk(k), ret)
    BY <1>4 DEF Drop, dropThenTimeout
  <2> QED
    BY <1>1, <2>1
<1> QED
  BY <1>2, <1>3, <1>4 DEF EngineNext

\* When a shape locks, the filled rows of the board at rest are taken out and
\* nothing else changes among the locked blocks, on every board.
THEOREM LocksCollapse == EngineSpec => LockCollapses
<1>1. ASSUME Inv, EngineNext, ~SameShape, ~RowFilled(GridAtRest, 0)
      PROVE  (Stack' \ {Origin}) = (Collapsed(GridAtRest) \ {Origin})
  BY <1>1, DrawsAreLocks, LockLeaves, ClearingCollapses
<1>2. ASSUME Inv, [EngineNext]_engineVars
      PROVE  [~SameShape /\ ~RowFilled(GridAtRest, 0)
                => (Stack' \ {Origin}) = (Collapsed(GridAtRest) \ {Origin})]_engineVars
  BY <1>1, <1>2
<1>3. Inv /\ [EngineNext]_engineVars
        => [~SameShape /\ ~RowFilled(GridAtRest, 0)
              => (Stack' \ {Origin}) = (Collapsed(GridAtRest) \ {Origin})]_engineVars
  BY <1>2
<1> QED
  BY <1>3, AlwaysInv, PTL DEF EngineSpec, LockCollapses

\* A filled top row is the only way a lock leaves a filled row behind: what
\* FilledRowsCleared says holds of every other lock.
THEOREM OnlyTopRowStays ==
  EngineSpec => [][~SameShape /\ ~RowFilled(GridAtRest, 0) => ~hasFilledRow(Stack')]_engineVars
<1>1. ASSUME Inv, EngineNext, ~SameShape, ~RowFilled(GridAtRest, 0)
      PROVE  ~hasFilledRow(Stack')
  <2>1. Stack' \subseteq ClearedGrid(GridAtRest) /\ ~hasFilledRow(ClearedGrid(GridAtRest))
    BY <1>1, DrawsAreLocks, LockLeaves, NothingFilledLeft
  <2> QED
    BY <2>1 DEF hasFilledRow, RowFilled
<1>2. Inv /\ [EngineNext]_engineVars
        => [~SameShape /\ ~RowFilled(GridAtRest, 0) => ~hasFilledRow(Stack')]_engineVars
  BY <1>1
<1> QED
  BY <1>2, AlwaysInv, PTL DEF EngineSpec

-----------------------------------------------------------------------------
(* The order in which the shapes of a game come. *)

\* No shape is in the bag twice.
NoRepeats(b) == \A i, j \in 1 .. Len(b) : b[i] = b[j] => i = j

Prototypes == {loadTetro(t) : t \in Tetros}

\* The prototypes of the shapes in a bag.
InBag(b) == {loadTetro(b[i]) : i \in 1 .. Len(b)}

\* FairDeal with the prototypes of the engine for shapes: the bag is what is
\* left of the round, the next shape the one dealt last.  A prototype is never
\* a bare position, so OffBoard serves as no shape.
Dealt == INSTANCE FairDeal WITH
  Tetros <- Prototypes, None <- OffBoard, left <- InBag(bag), drawn <- nextShape

\* The seven prototypes differ in their blocks.
LEMMA PrototypesDiffer ==
  ASSUME NEW s \in TetroNames, NEW t \in TetroNames, loadTetro(s) = loadTetro(t)
  PROVE  s = t
<1>1. TetroBlocks[s] = TetroBlocks[t]
  BY PrototypesAreSquare
<1> DEFINE Has(u, x, y) == Vect(x, y) \in TetroBlocks[u]
<1>2. Has("I", 3, 1)
  BY DEF TetroBlocks
<1>3. ~Has("O", 3, 1) /\ Has("O", 0, 0) /\ Has("O", 1, 0) /\ Has("O", 0, 1)
  BY DEF TetroBlocks, Vect
<1>4. ~Has("T", 3, 1) /\ ~Has("T", 0, 0) /\ Has("T", 1, 0) /\ ~Has("T", 2, 0)
  BY DEF TetroBlocks, Vect
<1>5. ~Has("L", 3, 1) /\ ~Has("L", 0, 0) /\ ~Has("L", 1, 0)
  BY DEF TetroBlocks, Vect
<1>6. ~Has("J", 3, 1) /\ Has("J", 0, 0) /\ ~Has("J", 1, 0)
  BY DEF TetroBlocks, Vect
<1>7. ~Has("S", 3, 1) /\ ~Has("S", 0, 0) /\ Has("S", 1, 0) /\ Has("S", 2, 0)
  BY DEF TetroBlocks, Vect
<1>8. ~Has("Z", 3, 1) /\ Has("Z", 0, 0) /\ Has("Z", 1, 0) /\ ~Has("Z", 0, 1)
  BY DEF TetroBlocks, Vect
<1>9. \A x, y : Has(s, x, y) <=> Has(t, x, y)
  BY <1>1
<1> HIDE DEF Has
<1> QED
  BY <1>2, <1>3, <1>4, <1>5, <1>6, <1>7, <1>8, <1>9 DEF TetroNames

\* The bag a draw takes its shape from has each shape of the round once, and
\* so has what the draw leaves.
LEMMA PopKeepsDistinct ==
  ASSUME NEW b \in Seq(Tetros), NoRepeats(b), NEW c \in BagToDraw(b)
  PROVE  /\ NoRepeats(c)
         /\ InBag(c) = IF InBag(b) = {} THEN Prototypes ELSE InBag(b)
         /\ NoRepeats(PopBack(c))
         /\ InBag(PopBack(c)) = InBag(c) \ {loadTetro(Back(c))}
<1>1. /\ c \in Seq(Tetros) /\ Len(c) \in Nat /\ Len(c) >= 1
      /\ PopBack(c) \in Seq(Tetros) /\ Len(PopBack(c)) = Len(c) - 1
  BY BagAfterDraw
<1>2. /\ NoRepeats(c)
      /\ InBag(c) = IF InBag(b) = {} THEN Prototypes ELSE InBag(b)
  <2>1. CASE b = <<>>
    <3>1. c \in Bijection(1 .. Cardinality(Tetros), Tetros)
      BY <2>1 DEF BagToDraw, Shuffles
    <3>2. /\ c \in Injection(1 .. Cardinality(Tetros), Tetros)
          /\ c \in Surjection(1 .. Cardinality(Tetros), Tetros)
      BY <3>1 DEF Bijection
    <3>3. DOMAIN c = 1 .. Cardinality(Tetros) /\ DOMAIN c = 1 .. Len(c)
      BY <1>1, <3>2, LenProperties DEF Injection
    <3>4. NoRepeats(c)
      BY <3>2, <3>3 DEF Injection, IsInjective, NoRepeats
    <3>5. \A t \in Tetros : \E i \in 1 .. Len(c) : c[i] = t
      BY <3>2, <3>3 DEF Surjection
    <3>6. InBag(c) = Prototypes
      BY <1>1, <3>5 DEF InBag, Prototypes
    <3>7. InBag(b) = {}
      BY <2>1 DEF InBag
    <3> QED
      BY <3>4, <3>6, <3>7
  <2>2. CASE b # <<>>
    <3>1. c = b
      BY <2>2 DEF BagToDraw
    <3>2. loadTetro(c[1]) \in InBag(c)
      BY <1>1 DEF InBag
    <3> QED
      BY <3>1, <3>2
  <2> QED
    BY <2>1, <2>2
<1>3. \A i \in 1 .. Len(PopBack(c)) : i \in 1 .. Len(c) - 1 /\ PopBack(c)[i] = c[i]
  BY <1>1, SubSeqProperties DEF PopBack
<1>4. NoRepeats(PopBack(c))
  BY <1>1, <1>2, <1>3 DEF NoRepeats
<1>5. InBag(PopBack(c)) = InBag(c) \ {loadTetro(Back(c))}
  <2>1. \A i, j \in 1 .. Len(c) : loadTetro(c[i]) = loadTetro(c[j]) => i = j
    BY <1>1, <1>2, PrototypesDiffer, TetrosAssumption DEF NoRepeats
  <2>2. \A i \in 1 .. Len(c) : i \in 1 .. Len(PopBack(c)) \/ i = Len(c)
    BY <1>1
  <2>3. \A i \in 1 .. Len(c) - 1 : i \in 1 .. Len(c) /\ i # Len(c)
    BY <1>1
  <2> QED
    BY <1>1, <1>3, <2>1, <2>2, <2>3 DEF InBag, Back
<1> QED
  BY <1>2, <1>4, <1>5

\* A draw is a deal.
LEMMA DrawDeals ==
  ASSUME bag \in Seq(Tetros), NoRepeats(bag), DrawNext
  PROVE  NoRepeats(bag') /\ Dealt!Deal
<1>1. PICK b \in BagToDraw(bag) : nextShape' = loadTetro(Back(b)) /\ bag' = PopBack(b)
  BY DEF DrawNext
<1>2. NoRepeats(bag') /\ InBag(b) = Dealt!Round /\ InBag(bag') = InBag(b) \ {nextShape'}
  BY <1>1, PopKeepsDistinct DEF Dealt!Round
<1>3. b \in Seq(Tetros) /\ Len(b) \in Nat /\ Len(b) >= 1
  BY <1>1, BagAfterDraw
<1>4. nextShape' \in InBag(b)
  BY <1>1, <1>3 DEF InBag, Back
<1> QED
  BY <1>2, <1>4 DEF Dealt!Deal

\* A step of the engine deals one shape or none.
LEMMA StepDeals ==
  ASSUME Inv, NoRepeats(bag), [EngineNext]_engineVars
  PROVE  NoRepeats(bag') /\ [Dealt!Deal]_Dealt!dealVars
<1>1. CASE MoveLeft \/ MoveRight \/ Rotate \/ Undefined \/ UNCHANGED engineVars
  <2>1. UNCHANGED <<bag, nextShape>>
    BY <1>1 DEF MoveLeft, MoveRight, Rotate, Undefined, movePolyno, rotate, engineVars
  <2> QED
    BY <2>1 DEF Dealt!dealVars
<1>2. CASE Down
  <2>1. UNCHANGED <<bag, nextShape>> \/ DrawNext
    BY <1>2 DEF Down, timeoutAction, movePolyno, LockAndSpawn
  <2> QED
    BY <2>1, DrawDeals DEF Dealt!dealVars, Inv, EngineTypeOK
<1>3. CASE Drop
  <2>1. DrawNext
    BY <1>3 DEF Drop, dropThenTimeout, LockAndSpawn
  <2> QED
    BY <2>1, DrawDeals DEF Inv, EngineTypeOK
<1> QED
  BY <1>1, <1>2, <1>3 DEF EngineNext

\* A game starts with no shape twice in the bag.
LEMMA InitDeals == EngineInit => NoRepeats(bag)
<1> SUFFICES ASSUME EngineInit PROVE NoRepeats(bag)
  OBVIOUS
<1>1. PICK left \in PartialBags :
        \E b1 \in BagToDraw(left) : \E b2 \in BagToDraw(PopBack(b1)) : bag = PopBack(b2)
  BY DEF EngineInit
<1>2. PICK b1 \in BagToDraw(left) : \E b2 \in BagToDraw(PopBack(b1)) : bag = PopBack(b2)
  BY <1>1
<1>3. PICK b2 \in BagToDraw(PopBack(b1)) : bag = PopBack(b2)
  BY <1>2
<1>4. left \in Seq(Tetros) /\ NoRepeats(left)
  <2>1. PICK n \in 0 .. Cardinality(Tetros) - 1 : left \in Injection(1 .. n, Tetros)
    BY DEF PartialBags
  <2>2. left \in [1 .. n -> Tetros] /\ IsInjective(left) /\ n \in Nat
    BY <2>1 DEF Injection
  <2>3. left \in Seq(Tetros) /\ DOMAIN left = 1 .. Len(left)
    BY <2>2, LenProperties
  <2> QED
    BY <2>2, <2>3 DEF IsInjective, NoRepeats
<1>5. PopBack(b1) \in Seq(Tetros) /\ NoRepeats(PopBack(b1))
  BY <1>4, BagAfterDraw, PopKeepsDistinct
<1> QED
  BY <1>3, <1>5, PopKeepsDistinct

\* engine.cpp:129: the shapes of a game, through moves, locks and rows, are dealt
\* in rounds of one each, beginning with what an earlier game left of a round.
THEOREM ShapesAreDealt == EngineSpec => [][Dealt!Deal]_Dealt!dealVars
<1>1. Inv /\ NoRepeats(bag) /\ [EngineNext]_engineVars
        => NoRepeats(bag)' /\ [Dealt!Deal]_Dealt!dealVars
  BY StepDeals
<1> QED
  BY <1>1, AlwaysInv, InitDeals, PTL DEF EngineSpec

-----------------------------------------------------------------------------
(* The game: its steps call the engine or leave it alone. *)

\* Every step of the loop calls the engine once or leaves it alone.
LEMMA GameStepsEngine == [Next]_vars => [EngineNext]_engineVars
<1> SUFFICES ASSUME [Next]_vars PROVE [EngineNext]_engineVars
  OBVIOUS
<1>1. CASE ~corrupt /\ (Left \/ Right \/ Turn)
  BY <1>1 DEF Left, Right, Turn, EngineNext, MoveLeft, MoveRight, Rotate
<1>2. CASE ~corrupt /\ (SinkKey \/ LocksAfterGrace \/ Sinks)
  BY <1>2 DEF SinkKey, LocksAfterGrace, Sinks, EngineNext, Down
<1>3. CASE ~corrupt /\ DropKey
  BY <1>3 DEF DropKey, EngineNext, Drop
<1>4. CASE UNCHANGED engineVars
  BY <1>4
<1> QED
  BY <1>1, <1>2, <1>3, <1>4 DEF Next, ComesFree, Control, vars

\* game::run uses the engine as Engine.tla says: what is proved of the engine
\* by itself holds in the game, under the keys, timers and flags of the loop.
THEOREM GameRunsEngine == Spec => EngineSpec
<1>1. Init => EngineInit
  BY DEF Init
<1> QED
  BY <1>1, GameStepsEngine, PTL DEF Spec, EngineSpec

\* The engine's invariant in the game.
LEMMA GameInv == Spec => []Inv
  BY GameRunsEngine, AlwaysInv, PTL

-----------------------------------------------------------------------------
(* How far the shape falls, in the game's variables. *)

\* The shape can sink n rows and no more.
ClearDown(n) == (\A j \in 0 .. n : ClearAt(j)) /\ ~ClearAt(n + 1)

OnlyFall == \A n \in Nat : ClearDown(n) => FallDistance = n

\* How far the shape falls, read off the board.
LEMMA Falls ==
  Inv /\ ~corrupt =>
    /\ ~Placed(shape) => FallDistance = -1
    /\ Placed(shape) =>
         /\ FallDistance \in 0 .. H
         /\ DropsBy(FallDistance)
         /\ ClearDown(FallDistance)
         /\ OnlyFall
<1> SUFFICES ASSUME Inv, ~corrupt, Placed(shape)
             PROVE  /\ FallDistance \in 0 .. H
                    /\ DropsBy(FallDistance)
                    /\ ClearDown(FallDistance)
                    /\ OnlyFall
  BY DEF FallDistance
<1>2. FallDistance = CHOOSE k \in 0 .. H : DropsBy(k)
  BY DEF FallDistance
<1>3. PICK n \in 0 .. H : DropsBy(n) /\ ClearDown(n)
  BY DropEnds DEF ClearDown
<1>4. FallDistance \in 0 .. H /\ DropsBy(FallDistance)
  BY <1>2, <1>3
<1>5. H \in Nat /\ n \in Nat /\ FallDistance \in Nat
  BY <1>3, <1>4, SizeAssumption
<1>6. FallDistance = n
  BY <1>3, <1>4, <1>5, DropsOneWay
<1>7. OnlyFall
  BY <1>4, <1>5, DropsWhileClear, DropsOneWay DEF OnlyFall, ClearDown
<1> QED
  BY <1>3, <1>4, <1>6, <1>7

-----------------------------------------------------------------------------
(* What the engine calls do to the distance. *)

\* A shape that is not on the board can go nowhere.
LEMMA OffBoardIsRefused ==
  ASSUME NEW s, SquareShape(s), s.pos = OffBoard, NEW position \in Vect2D,
         position.x <= -31, NEW g, NEW ignore
  PROVE  /\ ~polynoMoveCheck(g, s, position, ignore)
         /\ ~(CellsAt(s, position) \subseteq Cells)
<1>1. PICK b \in s.blocks : b \in Box(s.h) /\ s.h \in 1 .. 4
  BY DEF SquareShape
<1>2. b.x \in 0 .. 3 /\ position.x \in Int
  BY <1>1 DEF Box, Vect2D
<1>3. Add(b, position).x < 0
  BY <1>2 DEF Add, Vect
<1>4. Add(b, position) # Origin /\ ~InBounds(Add(b, position)) /\ Add(b, position) \notin Cells
  <2>1. Add(b, position).x \in Int
    BY <1>2 DEF Add, Vect
  <2>2. Add(b, position) # Origin
    BY <1>3 DEF Origin, Vect
  <2>3. ~InBounds(Add(b, position))
    BY <1>3, <2>1 DEF InBounds
  <2>4. ASSUME Add(b, position) \in Cells PROVE FALSE
    <3>1. Add(b, position).x \in 0 .. W - 1
      BY <2>4 DEF Cells
    <3> QED
      BY <1>3, <3>1, SizeAssumption
  <2> QED
    BY <2>2, <2>3, <2>4
<1>5. IgnoredCells(s, position, ignore) = {Origin}
  BY DEF IgnoredCells
<1> QED
  BY <1>1, <1>4, <1>5 DEF polynoMoveCheck, CellsAt

\* Nothing changes while the engine is not called.
LEMMA FallKept ==
  ASSUME UNCHANGED engineVars
  PROVE  FallDistance' = FallDistance
<1>1. grid' = grid /\ shape' = shape /\ corrupt' = corrupt
  BY DEF engineVars
<1>2. ASSUME NEW k PROVE CanSinkFrom(k)' = CanSinkFrom(k)
  BY <1>1 DEF CanSinkFrom, GridSunk, Below
<1>3. ASSUME NEW k PROVE DropsBy(k)' = DropsBy(k)
  BY <1>2 DEF DropsBy
<1> QED
  BY <1>1, <1>3 DEF FallDistance

\* A shape that is placed falls at most as far as the board is high.
LEMMA PlacedFalls ==
  ASSUME Inv', ~corrupt', Placed(shape')
  PROVE  FallDistance' \in 0 .. H
<1>1. (Inv /\ ~corrupt)' => (Placed(shape) => FallDistance \in 0 .. H)'
  BY Falls, PTL
<1> QED
  BY <1>1 DEF Placed

\* A refused spawn leaves the shape off the board.
LEMMA UnplacedHangs ==
  ASSUME Inv', ~corrupt', ~Placed(shape')
  PROVE  FallDistance' = -1
<1>1. (Inv /\ ~corrupt)' => (~Placed(shape) => FallDistance = -1)'
  BY Falls, PTL
<1> QED
  BY <1>1 DEF Placed

\* The engine can sink the shape while the distance is positive.
LEMMA CanFallIsPositive ==
  ASSUME Inv, ~corrupt
  PROVE  /\ CanFall <=> FallDistance > 0
         /\ CanFall => Placed(shape)
         /\ FallDistance \in 0 .. H \/ FallDistance = -1
         /\ Placed(shape) <=> FallDistance # -1
<1>1. CASE Placed(shape)
  <2>1. FallDistance \in 0 .. H /\ DropsBy(FallDistance)
    BY <1>1, Falls
  <2>2. FallDistance > 0 => CanSinkFrom(0)
    BY <2>1, SizeAssumption DEF DropsBy
  <2>3. FallDistance = 0 => ~CanSinkFrom(0)
    BY <2>1 DEF DropsBy
  <2> QED
    BY <1>1, <2>1, <2>2, <2>3, SizeAssumption DEF CanFall
<1>2. CASE ~Placed(shape)
  <2>1. FallDistance = -1
    BY <1>2, Falls
  <2>2. SquareShape(shape) /\ shape.pos = OffBoard
    BY <1>2 DEF Inv, EngineTypeOK, Placed
  <2>3. Add(Vect(0, 1), shape.pos) \in Vect2D /\ Add(Vect(0, 1), shape.pos).x <= -31
    BY <2>2 DEF Add, OffBoard, Vect, Vect2D
  <2>4. ~CanFall
    BY <2>2, <2>3, SinksIfCanFall, OffBoardIsRefused
  <2> QED
    BY <1>2, <2>1, <2>4
<1> QED
  BY <1>1, <1>2

\* A placed shape that is moved or turned stays placed.
LEMMA PlacedStays ==
  ASSUME NEW g, NEW s, SquareShape(s), NEW position \in Vect2D,
         CellsAt(s, position) \subseteq Cells, PlaceOn(g, s, position)
  PROVE  Placed(shape') /\ corrupt' = corrupt
<1>1. shape' = At(s, position) /\ corrupt' = corrupt
  BY DEF PlaceOn
<1>3. shape'.pos = position
  BY <1>1, AtKeepsSquare
<1>2. position # OffBoard
  BY NearBoard DEF OffBoard, Vect
<1> QED
  BY <1>1, <1>2, <1>3 DEF Placed

\* A move: to any distance if it was made, and only of a shape on the board.
LEMMA MoveChangesFall ==
  ASSUME Inv, ~corrupt, NEW d \in {Vect(-1, 0), Vect(1, 0)},
         NEW moved \in BOOLEAN, movePolyno(d, moved)
  PROVE  /\ moved => Placed(shape)
         /\ FallDistance' \in IF moved THEN 0 .. H ELSE {FallDistance}
<1>1. d \in Vect2D /\ SquareShape(shape) /\ shape.pos \in Vect2D
  BY DEF Vect, Vect2D, Inv, EngineTypeOK, SquareShape, Polyomino
<1> DEFINE position == Add(d, shape.pos)
<1>2. position \in Vect2D
  BY <1>1, AddIsVect
<1>3. CASE moved
  <2>1. polynoMoveCheck(grid, shape, position, TRUE) /\ PlaceOn(grid, shape, position)
    BY <1>3 DEF movePolyno
  <2>2. Placed(shape)
    <3>1. ASSUME ~Placed(shape) PROVE position.x <= -31
      BY <3>1 DEF Placed, OffBoard, Vect, Add
    <3> HIDE DEF position
    <3> QED
      BY <1>1, <1>2, <2>1, <3>1, OffBoardIsRefused DEF Placed
  <2>3. Placed(shape') /\ corrupt' = corrupt
    BY <1>1, <1>2, <2>1, MoveLands, PlacedStays
  <2>4. Inv'
    BY <1>1, MovingDraws
  <2> QED
    BY <1>3, <2>2, <2>3, <2>4, PlacedFalls
<1>4. CASE ~moved
  BY <1>4, FallKept DEF movePolyno, engineVars
<1> QED
  BY <1>3, <1>4

\* A turn: the same, but a shape off the board is written outside it.
LEMMA TurnChangesFall ==
  ASSUME Inv, ~corrupt, NEW turned \in BOOLEAN, rotate(turned)
  PROVE  IF Placed(shape)
           THEN FallDistance' \in IF turned THEN 0 .. H ELSE {FallDistance}
           ELSE FallDistance' = -2 /\ ~turned
<1> DEFINE r == rotatePolyomino(shape)
           lifted == deletePolynoBlocks(grid, shape)
<1>1. SquareShape(shape) /\ shape.pos \in Vect2D
  BY DEF Inv, EngineTypeOK, SquareShape, Polyomino
<1>2. SquareShape(r) /\ r.pos = shape.pos
  BY <1>1, RotateKeepsSquare
<1>3. /\ turned = polynoMoveCheck(lifted, r, r.pos, FALSE)
      /\ turned => PlaceOn(lifted, r, r.pos)
      /\ ~turned => PlaceOn(lifted, shape, shape.pos)
      /\ UNCHANGED <<nextShape, bag>>
  BY DEF rotate, TurnFits, PutBack
<1>4. Inv'
  BY TurningDraws
<1>5. CASE turned
  <2>1. CellsAt(r, shape.pos) \subseteq Cells /\ Placed(shape)
    BY <1>3, <1>5, TurnLands
  <2> HIDE DEF r, lifted
  <2>2. Placed(shape') /\ corrupt' = corrupt
    BY <1>1, <1>2, <1>3, <1>5, <2>1, PlacedStays
  <2> QED
    BY <1>4, <1>5, <2>1, <2>2, PlacedFalls
<1>6. CASE ~turned /\ Placed(shape)
  <2>1. CellsAt(shape, shape.pos) \subseteq Cells
    BY <1>6 DEF Inv, EngineTypeOK, PieceDrawn, ShapeCells
  <2> HIDE DEF r, lifted
  <2>2. shape' = At(shape, shape.pos) /\ corrupt' = corrupt
    BY <1>1, <1>3, <1>6, <2>1, PlacedOnBoard
  <2>3. shape' = shape
    BY <2>2, ShapeHere
  <2>4. grid' = grid
    BY <2>3, TurnIsLocal DEF LocalEffect
  <2> QED
    BY <1>3, <1>6, <2>2, <2>3, <2>4, FallKept DEF engineVars
<1>7. CASE ~turned /\ ~Placed(shape)
  <2>1. ~(CellsAt(shape, shape.pos) \subseteq Cells)
    <3>1. shape.pos = OffBoard /\ shape.pos.x <= -31
      BY <1>7 DEF Placed, OffBoard, Vect
    <3> QED
      BY <1>1, <3>1, OffBoardIsRefused
  <2>2. corrupt'
    BY <1>3, <1>7, <2>1 DEF PlaceOn
  <2> QED
    BY <1>7, <2>2 DEF FallDistance
<1> QED
  BY <1>5, <1>6, <1>7

\* A move down takes one row off the distance.
LEMMA SinkChangesFall ==
  ASSUME Inv, ~corrupt, movePolyno(Vect(0, 1), TRUE)
  PROVE  FallDistance > 0 /\ FallDistance' = FallDistance - 1
<1>1. SquareShape(shape) /\ shape.pos \in Vect2D
  BY DEF Inv, EngineTypeOK, SquareShape, Polyomino
<1>2. /\ polynoMoveCheck(grid, shape, Below(1), TRUE)
      /\ PlaceOn(grid, shape, Below(1))
  BY DEF movePolyno, Below
<1>3. CanFall /\ FallDistance > 0 /\ FallDistance \in 0 .. H /\ Placed(shape)
  BY <1>2, SinksIfCanFall, CanFallIsPositive DEF Below
<1>4. Below(1) \in Vect2D
  BY ShapeBelow
<1>5. CellsAt(shape, Below(1)) \subseteq Cells
  BY <1>2, <1>4, MoveLands
<1>6. shape' = At(shape, Below(1)) /\ corrupt' = corrupt /\ Placed(shape')
  BY <1>1, <1>2, <1>4, <1>5, PlacedOnBoard, PlacedStays
<1>7. Vect(0, 1) \in Vect2D /\ Vect(0, 1) # Origin
  BY DEF Vect, Vect2D, Origin
<1>8. Inv' /\ Stack' \ {Origin} = Stack \ {Origin}
  BY <1>7, MovingDraws, MoveIsLocal DEF LocalEffect
<1>9. shape'.blocks = shape.blocks /\ shape'.pos = Below(1)
  BY <1>6, ShapeBelow
<1>10. ASSUME NEW j \in Int
       PROVE  ClearAt(j)' = ClearAt(j + 1)
  <2>1. Below(j)' = Below(j + 1)
    <3>1. Below(1) = Vect(shape.pos.x, shape.pos.y + 1) /\ shape.pos.y \in Int /\ shape.pos.x \in Int
      BY <1>1 DEF Below, Add, Vect, Vect2D
    <3>2. Below(j)' = Vect(0 + shape.pos.x, j + (shape.pos.y + 1))
      BY <1>9, <3>1 DEF Below, Add, Vect
    <3>3. Below(j + 1) = Vect(0 + shape.pos.x, (j + 1) + shape.pos.y)
      BY DEF Below, Add, Vect
    <3>4. j + (shape.pos.y + 1) = (j + 1) + shape.pos.y
      BY <3>1
    <3> QED
      BY <3>2, <3>3, <3>4
  <2> QED
    BY <1>8, <1>9, <2>1 DEF ClearAt
<1>11. PICK k \in Nat : k + 1 = FallDistance
  <2>1. FallDistance - 1 \in Nat /\ (FallDistance - 1) + 1 = FallDistance
    BY <1>3, SizeAssumption
  <2> QED
    BY <2>1
<1>12. (\A j \in 0 .. FallDistance : ClearAt(j)) /\ ~ClearAt(FallDistance + 1)
  BY <1>3, Falls DEF ClearDown
<1>13. (\A j \in 0 .. k : ClearAt(j)') /\ ~(ClearAt(k + 1)')
  <2>1. ASSUME NEW j \in 0 .. k PROVE ClearAt(j)'
    <3>1. j \in Int /\ j + 1 \in 0 .. FallDistance
      BY <1>11
    <3> QED
      BY <1>10, <1>12, <3>1
  <2>2. k + 1 \in Int /\ (k + 1) + 1 = FallDistance + 1
    BY <1>11
  <2> QED
    BY <1>10, <1>12, <2>1, <2>2
<1>14. (Inv /\ ~corrupt)' => (Placed(shape) => OnlyFall)'
  BY Falls, PTL
<1>15. OnlyFall' /\ ClearDown(k)'
  BY <1>6, <1>8, <1>13, <1>14 DEF Placed, ClearDown
<1>16. FallDistance' = k
  BY <1>15 DEF OnlyFall
<1> QED
  BY <1>3, <1>11, <1>16

\* A lock brings the next shape, on the board or refused.
LEMMA LockChangesFall ==
  ASSUME Inv, ~corrupt, NEW g \in SUBSET Cells, NEW ret, LockAndSpawn(g, ret)
  PROVE  \/ ret = 0 /\ FallDistance' \in 0 .. H
         \/ ret = 1 /\ FallDistance' = -1
<1>1. Inv' /\ corrupt' = corrupt
  BY LockingDraws, LockStaysInBounds
<1>2. PICK t \in Tetros : nextShape = loadTetro(t)
  BY DEF Inv, EngineTypeOK
<1>3. SquareShape(nextShape) /\ nextShape.pos = OffBoard
  BY <1>2, PrototypesAreSquare, TetrosAssumption
<1>4. Origin \in Vect2D /\ nextShape.pos.x = -32
  BY <1>3 DEF Origin, OffBoard, Vect, Vect2D
<1>5. CASE polynoMoveCheck(ClearedGrid(g), nextShape, Origin, TRUE)
  <2>1. CellsAt(nextShape, Origin) \subseteq Cells
    BY <1>3, <1>4, <1>5, CheckedIsOnBoard
  <2>2. PlaceOn(ClearedGrid(g), nextShape, Origin) /\ ret = 0
    BY <1>5 DEF LockAndSpawn
  <2>3. Placed(shape')
    BY <1>3, <1>4, <2>1, <2>2, PlacedStays
  <2> QED
    BY <1>1, <2>2, <2>3, PlacedFalls
<1>6. CASE ~polynoMoveCheck(ClearedGrid(g), nextShape, Origin, TRUE)
  <2>1. shape' = nextShape /\ ret = 1
    BY <1>6 DEF LockAndSpawn
  <2> QED
    BY <1>1, <1>3, <2>1, UnplacedHangs DEF Placed
<1> QED
  BY <1>5, <1>6

-----------------------------------------------------------------------------
(* The game implements PieceTimer. *)

\* timeoutAction as PieceTimer has it.
LEMMA TimeoutMaps ==
  ASSUME Inv, ~corrupt, NEW ret \in {0, 1}, timeoutAction(ret)
  PROVE  Abstract!timeoutAction(ret)
<1>1. CASE movePolyno(Vect(0, 1), TRUE) /\ ret = 0
  BY <1>1, SinkChangesFall
     DEF Abstract!timeoutAction, Abstract!SinksOneRow, Abstract!CanFall
<1>2. CASE ~CanFall /\ LockAndSpawn(grid, ret)
  <2>1. grid \in SUBSET Cells
    BY DEF Inv, EngineTypeOK
  <2> QED
    BY <1>2, <2>1, LockChangesFall, CanFallIsPositive
       DEF Abstract!timeoutAction, Abstract!Respawns, Abstract!CanFall,
           Abstract!Falls, Abstract!Unplaced
<1> QED
  BY <1>1, <1>2 DEF timeoutAction

\* The lock of a drop.
LEMMA DropMaps ==
  ASSUME Inv, ~corrupt, NEW ret \in {0, 1}, dropThenTimeout(ret)
  PROVE  Abstract!Respawns(ret)
<1>1. PICK k \in 0 .. H : DropsBy(k) /\ LockAndSpawn(GridSunk(k), ret)
  BY DEF dropThenTimeout
<1>2. GridSunk(k) \in SUBSET Cells
  BY <1>1, SunkStaysOnBoard, SizeAssumption
<1> QED
  BY <1>1, <1>2, LockChangesFall DEF Abstract!Respawns, Abstract!Falls, Abstract!Unplaced

\* A shape that cannot fall locks in timeoutAction.
LEMMA RestingLocks ==
  ASSUME Inv, ~corrupt, ~CanFall, NEW ret \in {0, 1}, timeoutAction(ret)
  PROVE  Abstract!Respawns(ret)
<1>1. ~movePolyno(Vect(0, 1), TRUE)
  BY SinksIfCanFall DEF movePolyno
<1>2. LockAndSpawn(grid, ret) /\ grid \in SUBSET Cells
  BY <1>1 DEF timeoutAction, Inv, EngineTypeOK
<1> QED
  BY <1>2, LockChangesFall DEF Abstract!Respawns, Abstract!Falls, Abstract!Unplaced

\* PieceTimer's view of the state.
LEMMA ViewsAgree ==
  ASSUME Inv
  PROVE  /\ ~corrupt => (Abstract!CanFall <=> CanFall)
         /\ ~corrupt => (Abstract!Placed <=> Placed(shape))
         /\ ~corrupt <=> Abstract!Running
<1>1. ~corrupt => (Abstract!CanFall <=> CanFall) /\ (Abstract!Placed <=> Placed(shape))
  BY CanFallIsPositive DEF Abstract!CanFall, Abstract!Placed, Abstract!Unplaced
<1>2. ASSUME ~corrupt PROVE FallDistance # -2
  BY <1>2, CanFallIsPositive, SizeAssumption
<1>3. corrupt => FallDistance = -2
  BY DEF FallDistance
<1> QED
  BY <1>1, <1>2, <1>3 DEF Abstract!Running, Abstract!Corrupt

\* The loop is the same on both sides: the actions of the keys,
LEMMA KeysAgree ==
  ASSUME NEW moved, NEW bind, NEW ret
  PROVE  /\ KeyLeft(moved) <=> Abstract!KeyLeft(moved)
         /\ KeyRight(moved) <=> Abstract!KeyRight(moved)
         /\ KeyRotate(moved) <=> Abstract!KeyRotate(moved)
         /\ KeyDown(bind, ret) <=> Abstract!KeyDown(bind, ret)
         /\ KeyQuit <=> Abstract!KeyQuit
         /\ KeyOther <=> Abstract!KeyOther
<1>1. /\ \A b : Key(b) <=> Abstract!Key(b)
      /\ ShortCircuits(moved) <=> Abstract!ShortCircuits(moved)
      /\ NoteMove(moved) <=> Abstract!NoteMove(moved)
      /\ Restarted = Abstract!Restarted
  BY DEF Key, Abstract!Key, ShortCircuits, Abstract!ShortCircuits, NoteMove,
         Abstract!NoteMove, Restarted, Abstract!Restarted
<1> QED
  BY <1>1 DEF KeyLeft, Abstract!KeyLeft, KeyRight, Abstract!KeyRight, KeyRotate,
              Abstract!KeyRotate, KeyDown, Abstract!KeyDown, KeyQuit, Abstract!KeyQuit,
              KeyOther, Abstract!KeyOther

\* ... of the head and the end of a pass,
LEMMA PassAgrees ==
  /\ UpdateTimers <=> Abstract!UpdateTimers
  /\ InputDone <=> Abstract!InputDone
  /\ Sleep <=> Abstract!Sleep
  /\ Delay <=> Abstract!Delay
<1>1. /\ Batches = Abstract!Batches
      /\ \A age, limit : Tick(age, limit) = Abstract!Tick(age, limit)
  BY DEF Batches, Abstract!Batches, Tick, Abstract!Tick, Never, Abstract!Never
<1>2. TimePasses <=> Abstract!TimePasses
  BY <1>1 DEF TimePasses, Abstract!TimePasses
<1> QED
  BY <1>1, <1>2 DEF UpdateTimers, Abstract!UpdateTimers, InputDone, Abstract!InputDone,
                    Sleep, Abstract!Sleep, Delay, Abstract!Delay

\* ... and of the lockout and gravity blocks.
LEMMA BlocksAgree ==
  ASSUME NEW canFall, NEW ret
  PROVE  /\ NoLockout <=> Abstract!NoLockout
         /\ LockoutHolds(canFall) <=> Abstract!LockoutHolds(canFall)
         /\ LockoutEnds(canFall) <=> Abstract!LockoutEnds(canFall)
         /\ GravityWaits <=> Abstract!GravityWaits
         /\ GravitySinks(canFall, ret) <=> Abstract!GravitySinks(canFall, ret)
         /\ GravityStartsLockout(canFall) <=> Abstract!GravityStartsLockout(canFall)
         /\ GravityInLockout <=> Abstract!GravityInLockout
<1>1. /\ GraceTimer = Abstract!GraceTimer
      /\ GraceOver <=> Abstract!GraceOver
      /\ TimedOut <=> Abstract!TimedOut
      /\ GravityFires <=> Abstract!GravityFires
      /\ PrimedTimeout = Abstract!PrimedTimeout
      /\ PrimedLockout = Abstract!PrimedLockout
      /\ Never = Abstract!Never
  BY DEF GraceTimer, Abstract!GraceTimer, GraceOver, Abstract!GraceOver, TimedOut,
         Abstract!TimedOut, GravityFires, Abstract!GravityFires, PrimedTimeout,
         Abstract!PrimedTimeout, PrimedLockout, Abstract!PrimedLockout, Restarted,
         Abstract!Restarted, Never, Abstract!Never
<1> QED
  BY <1>1 DEF NoLockout, Abstract!NoLockout, LockoutHolds, Abstract!LockoutHolds,
              LockoutEnds, Abstract!LockoutEnds, GravityWaits, Abstract!GravityWaits,
              GravitySinks, Abstract!GravitySinks, GravityStartsLockout,
              Abstract!GravityStartsLockout, GravityInLockout, Abstract!GravityInLockout

\* A key that calls the engine unless the shape has moved in this pass.
LEMMA SkippedKey ==
  ASSUME NEW moved \in BOOLEAN, ShortCircuits(moved), hasMoved, UNCHANGED engineVars
  PROVE  Abstract!Moves(moved) /\ Abstract!Turns(moved)
<1>1. ~moved /\ FallDistance' = FallDistance
  BY FallKept DEF ShortCircuits
<1> QED
  BY <1>1 DEF Abstract!Moves, Abstract!Turns

\* A left or right key.
LEMMA MoveMaps ==
  ASSUME Inv, ~corrupt, NEW d \in {Vect(-1, 0), Vect(1, 0)}, NEW moved \in BOOLEAN,
         ShortCircuits(moved),
         IF hasMoved THEN UNCHANGED engineVars ELSE movePolyno(d, moved)
  PROVE  Abstract!Moves(moved)
<1>1. CASE hasMoved
  BY <1>1, SkippedKey
<1>2. CASE ~hasMoved
  <2>1. /\ moved => Placed(shape)
        /\ FallDistance' \in IF moved THEN 0 .. H ELSE {FallDistance}
    BY <1>2, MoveChangesFall
  <2> QED
    BY <2>1, ViewsAgree DEF Abstract!Moves, Abstract!Falls
<1> QED
  BY <1>1, <1>2

\* A rotate key.
LEMMA TurnMaps ==
  ASSUME Inv, ~corrupt, NEW turned \in BOOLEAN, ShortCircuits(turned),
         IF hasMoved THEN UNCHANGED engineVars ELSE rotate(turned)
  PROVE  Abstract!Turns(turned)
<1>1. CASE hasMoved
  BY <1>1, SkippedKey
<1>2. CASE ~hasMoved
  <2>1. IF Placed(shape)
          THEN FallDistance' \in IF turned THEN 0 .. H ELSE {FallDistance}
          ELSE FallDistance' = -2 /\ ~turned
    BY <1>2, TurnChangesFall
  <2> QED
    BY <1>2, <2>1, ViewsAgree
       DEF Abstract!Turns, Abstract!Moves, Abstract!Falls, Abstract!Corrupt
<1> QED
  BY <1>1, <1>2

\* Gravity.
LEMMA SinksMaps ==
  ASSUME Inv, ~corrupt, Sinks
  PROVE  Abstract!Sinks
<1>1. PICK ret \in {0, 1} : GravitySinks(CanFall, ret) /\ timeoutAction(ret)
  BY DEF Sinks
<1>2. Abstract!CanFall
  BY <1>1, ViewsAgree DEF GravitySinks
<1>3. Abstract!GravitySinks(CanFall, ret)
  BY <1>1, BlocksAgree
<1>4. Abstract!GravitySinks(Abstract!CanFall, ret)
  BY <1>2, <1>3 DEF Abstract!GravitySinks
<1> QED
  BY <1>1, <1>4, TimeoutMaps DEF Abstract!Sinks

\* The lock that ends a grace period.
LEMMA GraceMaps ==
  ASSUME Inv, ~corrupt, LocksAfterGrace
  PROVE  Abstract!LocksAfterGrace
<1>1. LockoutEnds(FALSE) /\ ~CanFall
  BY DEF LocksAfterGrace
<1>2. PICK ret \in {0, 1} : timeoutAction(ret)
  BY DEF LocksAfterGrace
<1>3. Abstract!Respawns(ret) /\ Abstract!LockoutEnds(FALSE) /\ ~Abstract!CanFall
  BY <1>1, <1>2, RestingLocks, ViewsAgree, BlocksAgree
<1> QED
  BY <1>3 DEF Abstract!LocksAfterGrace

\* Every step of the game is a step PieceTimer allows, or changes nothing it
\* keeps.
LEMMA GameStepMaps ==
  ASSUME Inv, [Next]_vars
  PROVE  [Abstract!Next]_Abstract!vars
<1>0. ~corrupt => Abstract!Running
  BY ViewsAgree
<1>1. CASE ~corrupt /\ Left
  <2>1. PICK moved \in BOOLEAN :
          /\ KeyLeft(moved)
          /\ IF hasMoved THEN UNCHANGED engineVars ELSE movePolyno(Vect(-1, 0), moved)
    BY <1>1 DEF Left
  <2>2. Abstract!Moves(moved)
    BY <1>1, <2>1, MoveMaps DEF KeyLeft
  <2> QED
    BY <1>0, <1>1, <2>1, <2>2, KeysAgree
       DEF Abstract!Left, Abstract!LoopStep, Abstract!Next
<1>2. CASE ~corrupt /\ Right
  <2>1. PICK moved \in BOOLEAN :
          /\ KeyRight(moved)
          /\ IF hasMoved THEN UNCHANGED engineVars ELSE movePolyno(Vect(1, 0), moved)
    BY <1>2 DEF Right
  <2>2. Abstract!Moves(moved)
    BY <1>2, <2>1, MoveMaps DEF KeyRight
  <2> QED
    BY <1>0, <1>2, <2>1, <2>2, KeysAgree
       DEF Abstract!Right, Abstract!LoopStep, Abstract!Next
<1>3. CASE ~corrupt /\ Turn
  <2>1. PICK turned \in BOOLEAN :
          /\ KeyRotate(turned)
          /\ IF hasMoved THEN UNCHANGED engineVars ELSE rotate(turned)
    BY <1>3 DEF Turn
  <2>2. Abstract!Turns(turned)
    BY <1>3, <2>1, TurnMaps DEF KeyRotate
  <2> QED
    BY <1>0, <1>3, <2>1, <2>2, KeysAgree
       DEF Abstract!Rotate, Abstract!LoopStep, Abstract!Next
<1>4. CASE ~corrupt /\ SinkKey
  <2>1. PICK ret \in {0, 1} : KeyDown("GAME_DOWN", ret) /\ timeoutAction(ret)
    BY <1>4 DEF SinkKey
  <2> QED
    BY <1>0, <1>4, <2>1, TimeoutMaps, KeysAgree
       DEF Abstract!Down, Abstract!LoopStep, Abstract!Next
<1>5. CASE ~corrupt /\ DropKey
  <2>1. PICK ret \in {0, 1} : KeyDown("GAME_DROP", ret) /\ dropThenTimeout(ret)
    BY <1>5 DEF DropKey
  <2> QED
    BY <1>0, <1>5, <2>1, DropMaps, KeysAgree
       DEF Abstract!Drop, Abstract!LoopStep, Abstract!Next
<1>6. CASE ~corrupt /\ ComesFree
  <2>1. Abstract!CanFall /\ Abstract!LockoutEnds(TRUE) /\ FallDistance' = FallDistance
    BY <1>6, ViewsAgree, BlocksAgree, FallKept DEF ComesFree
  <2> QED
    BY <1>0, <1>6, <2>1 DEF Abstract!ComesFree, Abstract!LoopStep, Abstract!Next
<1>7. CASE ~corrupt /\ LocksAfterGrace
  BY <1>0, <1>7, GraceMaps DEF Abstract!LoopStep, Abstract!Next
<1>8. CASE ~corrupt /\ Sinks
  BY <1>0, <1>8, SinksMaps DEF Abstract!LoopStep, Abstract!Next
<1>9. CASE ~corrupt /\ Control
  <2>1. FallDistance' = FallDistance
    BY <1>9, FallKept DEF Control
  <2>2. CASE \/ UpdateTimers
             \/ KeyQuit
             \/ KeyOther
             \/ InputDone
             \/ NoLockout
             \/ LockoutHolds(CanFall)
             \/ GravityWaits
             \/ GravityStartsLockout(CanFall)
             \/ GravityInLockout
             \/ Sleep
    <3>1. /\ LockoutHolds(CanFall) => Abstract!LockoutHolds(Abstract!CanFall)
          /\ GravityStartsLockout(CanFall) => Abstract!GravityStartsLockout(Abstract!CanFall)
      <4>1. Abstract!CanFall <=> CanFall
        BY <1>9, ViewsAgree
      <4>2. /\ LockoutHolds(CanFall) <=> Abstract!LockoutHolds(CanFall)
            /\ GravityStartsLockout(CanFall) <=> Abstract!GravityStartsLockout(CanFall)
        BY BlocksAgree
      <4> QED
        BY <4>1, <4>2 DEF Abstract!LockoutHolds, Abstract!GravityStartsLockout
    <3>2. Abstract!Control
      BY <2>1, <2>2, <3>1, KeysAgree, PassAgrees, BlocksAgree DEF Abstract!Control
    <3> QED
      BY <1>0, <1>9, <3>2 DEF Abstract!LoopStep, Abstract!Next
  <2>3. CASE Delay
    BY <1>0, <1>9, <2>1, <2>3, PassAgrees DEF Abstract!Wait, Abstract!Next
  <2> QED
    BY <1>9, <2>2, <2>3 DEF Control
<1>10. CASE UNCHANGED vars
  <2>1. FallDistance' = FallDistance /\ UNCHANGED loopVars
    BY <1>10, FallKept DEF vars
  <2> QED
    BY <2>1 DEF Abstract!vars, Abstract!loopVars, loopVars
<1> QED
  BY <1>1, <1>2, <1>3, <1>4, <1>5, <1>6, <1>7, <1>8, <1>9, <1>10 DEF Next

\* A game starts as PieceTimer starts.
LEMMA InitMaps == Init => Abstract!Init
<1> SUFFICES ASSUME Init PROVE Abstract!Init
  OBVIOUS
<1>1. Abstract!LoopInit
  BY DEF Init, LoopInit, Abstract!LoopInit, Batches, Abstract!Batches, Never, Abstract!Never
<1>2. Inv /\ ~corrupt /\ Placed(shape)
  <2>1. PICK left \in PartialBags :
          \E b \in BagToDraw(left) : shape = At(loadTetro(Back(b)), Origin) /\ corrupt = FALSE
    BY DEF Init, EngineInit
  <2>2. shape.pos = Origin
    BY <2>1 DEF At, loadTetro, initPolyomino
  <2> QED
    BY <2>1, <2>2, InitInv DEF Init, Placed, OffBoard, Origin, Vect
<1> QED
  BY <1>1, <1>2, Falls DEF Abstract!Init, Abstract!Falls

\* The game with its board is a game as PieceTimer tells it.
THEOREM GameRefinesPieceTimer == Spec => ImplementsPieceTimer
<1>1. Inv /\ [Next]_vars => [Abstract!Next]_Abstract!vars
  BY GameStepMaps
<1> QED
  BY <1>1, InitMaps, GameInv, PTL DEF Spec, ImplementsPieceTimer, Abstract!Safe

-----------------------------------------------------------------------------
(* What is proved of PieceTimer holds of the game. *)

Timer == INSTANCE PieceTimerProofs WITH fall <- FallDistance, MaxFall <- H

\* The constants of the game meet PieceTimer's assumptions.
LEMMA TimerAssumptions == Timer!LoopAssumption /\ Timer!FallAssumption
  BY LoopAssumption, SizeAssumption
     DEF Timer!LoopAssumption, Timer!FallAssumption, GameBinds, Timer!GameBinds

\* PieceTimer is the same module with and without its proofs.
LEMMA SameTimer ==
  /\ Abstract!Init <=> Timer!Init
  /\ Abstract!LocksAfterGrace <=> Timer!LocksAfterGrace
  /\ Abstract!Sinks <=> Timer!Sinks
  /\ [Abstract!Next]_Abstract!vars => [Timer!Next]_Timer!vars
  BY DEF Abstract!Init, Timer!Init, Abstract!vars, Timer!vars, Abstract!Next,
         Timer!Next, Abstract!loopVars, Timer!loopVars, Abstract!LoopInit,
         Timer!LoopInit, Abstract!Batches, Timer!Batches, Abstract!Never,
         Timer!Never, Abstract!Falls, Timer!Falls, Abstract!LoopStep,
         Timer!LoopStep, Abstract!Wait, Timer!Wait, Abstract!Stopped,
         Timer!Stopped, Abstract!Ended, Timer!Ended, Abstract!Running,
         Timer!Running, Abstract!Corrupt, Timer!Corrupt, Abstract!Unplaced,
         Timer!Unplaced, Abstract!CanFall, Timer!CanFall, Abstract!Placed,
         Timer!Placed, Abstract!Moves, Timer!Moves, Abstract!Turns, Timer!Turns,
         Abstract!Respawns, Timer!Respawns, Abstract!SinksOneRow,
         Timer!SinksOneRow, Abstract!timeoutAction, Timer!timeoutAction,
         Abstract!Left, Timer!Left, Abstract!Right, Timer!Right, Abstract!Rotate,
         Timer!Rotate, Abstract!Down, Timer!Down, Abstract!Drop, Timer!Drop,
         Abstract!ComesFree, Timer!ComesFree, Abstract!LocksAfterGrace,
         Timer!LocksAfterGrace, Abstract!Sinks, Timer!Sinks, Abstract!Control,
         Timer!Control, Abstract!KeyLeft, Timer!KeyLeft, Abstract!KeyRight,
         Timer!KeyRight, Abstract!KeyRotate, Timer!KeyRotate, Abstract!KeyDown,
         Timer!KeyDown, Abstract!KeyQuit, Timer!KeyQuit, Abstract!KeyOther,
         Timer!KeyOther, Abstract!Key, Timer!Key, Abstract!ShortCircuits,
         Timer!ShortCircuits, Abstract!NoteMove, Timer!NoteMove,
         Abstract!Restarted, Timer!Restarted, Abstract!UpdateTimers,
         Timer!UpdateTimers, Abstract!InputDone, Timer!InputDone, Abstract!Sleep,
         Timer!Sleep, Abstract!Delay, Timer!Delay, Abstract!TimePasses,
         Timer!TimePasses, Abstract!Tick, Timer!Tick, Abstract!NoLockout,
         Timer!NoLockout, Abstract!LockoutHolds, Timer!LockoutHolds,
         Abstract!LockoutEnds, Timer!LockoutEnds, Abstract!GraceOver,
         Timer!GraceOver, Abstract!GraceTimer, Timer!GraceTimer,
         Abstract!PrimedTimeout, Timer!PrimedTimeout, Abstract!PrimedLockout,
         Timer!PrimedLockout, Abstract!GravityWaits, Timer!GravityWaits,
         Abstract!GravityFires, Timer!GravityFires, Abstract!GravitySinks,
         Timer!GravitySinks, Abstract!GravityStartsLockout,
         Timer!GravityStartsLockout, Abstract!GravityInLockout,
         Timer!GravityInLockout, Abstract!TimedOut, Timer!TimedOut

\* The game runs as PieceTimer's theorems suppose.
LEMMA GameTimers == Spec => Timer!Safe
<1>1. Abstract!Init => Timer!Init
  BY SameTimer
<1>2. [Abstract!Next]_Abstract!vars => [Timer!Next]_Timer!vars
  BY SameTimer
<1> QED
  BY <1>1, <1>2, GameRefinesPieceTimer, PTL DEF ImplementsPieceTimer, Abstract!Safe, Timer!Safe

\* game.cpp locks a shape without the player's doing only after lockoutMax
\* without a move, a turn or a spawn: on the real board too.
THEOREM GameGrantsGrace ==
  Spec => [][~corrupt /\ LocksAfterGrace => sinceMove >= LockoutMax]_vars
<1>1. ASSUME Inv, ~corrupt, LocksAfterGrace
      PROVE  Timer!LocksAfterGrace /\ Timer!vars' # Timer!vars
  <2>1. Abstract!LocksAfterGrace
    BY <1>1, GraceMaps
  <2>2. pc' # pc
    BY <1>1 DEF LocksAfterGrace, LockoutEnds
  <2> QED
    BY <2>1, <2>2, SameTimer DEF Timer!vars, Timer!loopVars
<1>2. Inv /\ [Timer!LocksAfterGrace => sinceMove >= LockoutMax]_Timer!vars
        => [~corrupt /\ LocksAfterGrace => sinceMove >= LockoutMax]_vars
  BY <1>1
<1>3. Timer!Safe => [][Timer!LocksAfterGrace => sinceMove >= LockoutMax]_Timer!vars
  BY TimerAssumptions, Timer!GraceGranted DEF Timer!GracePeriod
<1> QED
  BY <1>2, <1>3, GameInv, GameTimers, PTL

\* Once the lockout block has been passed, a shape that the flag says is
\* resting rests on the board.
THEOREM GameShapesRest ==
  Spec => [](~corrupt /\ isLockout /\ pc \in {"gravity", "sleep", "timers"} => ~CanFall)
<1>1. Inv /\ Timer!LockoutRests =>
        (~corrupt /\ isLockout /\ pc \in {"gravity", "sleep", "timers"} => ~CanFall)
  BY CanFallIsPositive DEF Timer!LockoutRests, Timer!CanFall
<1> QED
  BY <1>1, GameInv, GameTimers, TimerAssumptions, Timer!LockoutIsTrue, PTL

\* Gravity moves a shape only after a full timeout, on the real board too.
THEOREM GameNeverPlummets ==
  Spec => [][~corrupt /\ Sinks => sinceFall >= TimeoutMax]_vars
<1>1. ASSUME Inv, ~corrupt, Sinks
      PROVE  Timer!Sinks /\ Timer!vars' # Timer!vars
  <2>1. PICK ret \in {0, 1} : GravitySinks(CanFall, ret) /\ timeoutAction(ret)
    BY <1>1 DEF Sinks
  <2>2. Abstract!Sinks
    BY <1>1, SinksMaps
  <2>3. pc' # pc
    BY <2>1 DEF GravitySinks, GravityFires
  <2> QED
    BY <2>2, <2>3, SameTimer DEF Timer!vars, Timer!loopVars
<1>2. Inv /\ [Timer!Sinks => sinceFall >= TimeoutMax]_Timer!vars
        => [~corrupt /\ Sinks => sinceFall >= TimeoutMax]_vars
  BY <1>1
<1>3. Timer!Safe => [][Timer!Sinks => sinceFall >= TimeoutMax]_Timer!vars
  BY TimerAssumptions, Timer!NeverPlummets DEF Timer!NoPlummet
<1> QED
  BY <1>2, <1>3, GameInv, GameTimers, PTL

\* The gravity block never exchanges the shape for the next one: it moves it
\* or leaves it.
THEOREM GameGravityNeverLocks ==
  Spec => [][pc = "gravity" => SameShape]_vars
<1>1. ASSUME Inv, [Next]_vars, pc = "gravity"
      PROVE  SameShape
  <2>1. CASE Sinks
    <3>1. PICK ret \in {0, 1} : GravitySinks(CanFall, ret) /\ timeoutAction(ret)
      BY <2>1 DEF Sinks
    <3>2. CanFall
      BY <3>1 DEF GravitySinks
    <3> QED
      BY <3>1, <3>2 DEF timeoutAction, movePolyno, SameShape
  <2>2. CASE UNCHANGED engineVars
    BY <2>2 DEF engineVars, SameShape
  <2>3. ~Left /\ ~Right /\ ~Turn /\ ~SinkKey /\ ~DropKey /\ ~LocksAfterGrace
    BY <1>1 DEF Left, Right, Turn, SinkKey, DropKey, LocksAfterGrace, KeyLeft, KeyRight,
                KeyRotate, KeyDown, Key, LockoutEnds
  <2> QED
    BY <1>1, <2>1, <2>2, <2>3 DEF Next, ComesFree, Control, vars
<1>2. Inv /\ [Next]_vars => [pc = "gravity" => SameShape]_vars
  BY <1>1
<1> QED
  BY <1>2, GameInv, PTL DEF Spec
=============================================================================
