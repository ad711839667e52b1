--------------------------- MODULE RowClearProofs ---------------------------
(***************************************************************************)
(* Row clearing with the block pointers, for boards of every size: no      *)
(* block is deleted twice or lost, the rows found filled are still filled  *)
(* when the loop comes to them, and what the loops leave is what the       *)
(* formula of Playfield.tla says.                                          *)
(***************************************************************************)
EXTENDS RowClear, FiniteSetTheorems, TLAPS

-----------------------------------------------------------------------------
(* The inductive invariant. *)

\* Where the loops are: a row is cleared from row i up, and the lines above
\* that row are yet to sink.
Control ==
  /\ pc \in {"clear", "copy", "empty"} => i < H /\ y <= i
  /\ pc \in {"copy", "empty"} => y >= 1
  /\ pc = "copy" => \A c \in Cells : c.y = y => blocks[c] = Null

\* No two cells hold one block, and the blocks of these cells are the ones
\* allocated.  Between copying a row and emptying the row above, that row
\* does not count.
Owners == {c \in Occupied : pc = "empty" => c.y # y - 1}

Owned ==
  /\ \A c, d \in Owners : blocks[c] = blocks[d] => c = d
  /\ alive = {blocks[c] : c \in Owners}
  /\ pc = "empty" => \A c \in Cells : c.y = y => blocks[c] = blocks[Vect(c.x, y - 1)]

\* The rows the loop has not visited are as they were found.
Ahead ==
  /\ pc = "scan" => \A r \in i .. H - 1 : rows[r] = RowFilled(Occupied, r)
  /\ pc \in {"clear", "copy", "empty"} =>
       \A r \in i + 1 .. H - 1 : rows[r] = RowFilled(Occupied, r)

Inv == TypeOK /\ Control /\ Owned /\ Ahead

(***************************************************************************)
(* Where the blocks are.  A block is named by the cell it stood on, so an  *)
(* allocated block tells the column and the row it comes from.             *)
(***************************************************************************)

\* How many of the rows R below row v, and above row n, have been cleared.
Sunk(R, v, n) == Cardinality({r \in R : v < r /\ r < n})

\* The rows above this one have been cleared as far as cell c can tell ...
Upto(c) ==
  IF pc = "done" THEN H
  ELSE IF pc \in {"check", "scan"} \/ c.y < y \/ (pc # "empty" /\ c.y = y) THEN i
  ELSE i + 1

\* ... and as far as the deleted blocks can.
Gone ==
  IF pc = "done" THEN H
  ELSE IF pc \in {"copy", "empty"} \/ (pc = "clear" /\ y < i) THEN i + 1
  ELSE i

Traced ==
  /\ \A c \in Owners :
       blocks[c].x = c.x /\ c.y = blocks[c].y + Sunk(RowsCleared(rows), blocks[c].y, Upto(c))
  /\ alive = {c \in home : c.y \in RowsCleared(rows) => c.y >= Gone}

Progress ==
  /\ pc = "check" => Occupied = home /\ i = 0
  /\ pc # "check" => rows = checkFilledRows(home)
  /\ pc \in {"clear", "copy", "empty"} => rows[i]
  /\ pc = "clear" /\ y < i => \A c \in Cells : c.y = y => blocks[c] = Null

FullInv == Inv /\ Traced /\ Progress

-----------------------------------------------------------------------------
(* Cells. *)

\* A cell is its coordinates, and Null is none.
LEMMA CellFacts ==
  /\ \A c \in Cells : c.x \in 0 .. W - 1 /\ c.y \in 0 .. H - 1 /\ c = Vect(c.x, c.y)
  /\ \A u \in 0 .. W - 1, v \in 0 .. H - 1 :
       Vect(u, v) \in Cells /\ Vect(u, v).x = u /\ Vect(u, v).y = v
  /\ Null \notin Cells
BY SizeAssumption DEF Cells, Vect, Null

\* Whether a row is filled depends on its cells only.
LEMMA RowsApart ==
  ASSUME NEW r \in Rows, NEW g, NEW h, \A c \in Cells : c.y = r => (c \in g <=> c \in h)
  PROVE  RowFilled(g, r) = RowFilled(h, r)
BY CellFacts DEF RowFilled, Rows

-----------------------------------------------------------------------------
(* Every action keeps the invariant. *)

\* The invariant holds at the start: every block is where its name says.
LEMMA InitInv == Init => Inv
<1>1. SUFFICES ASSUME Init
               PROVE  Inv
  OBVIOUS
<1>2. blocks = [c \in Cells |-> IF c \in home THEN c ELSE Null] /\ home \subseteq Cells
  BY <1>1 DEF Init
<1>3. Occupied = home /\ \A c \in home : blocks[c] = c
  BY <1>2, CellFacts DEF Occupied
<1>4. TypeOK
  BY <1>1, <1>2, SizeAssumption DEF Init, TypeOK, Rows
<1>5. Owned
  BY <1>1, <1>3 DEF Init, Owned, Owners
<1> QED
  BY <1>1, <1>4, <1>5 DEF Init, Inv, Control, Ahead

\* The steps that touch no block.
LEMMA LoopKeeps ==
  ASSUME Inv, CheckRows \/ SkipRow \/ CallClearRow \/ ScanDone \/ ClearRowReturns
  PROVE  Inv'
<1>1. /\ pc \in {"check", "scan", "clear"} /\ pc' \in {"scan", "clear", "done"}
      /\ UNCHANGED <<blocks, alive, home>>
  BY DEF CheckRows, SkipRow, CallClearRow, ScanDone, ClearRowReturns
<1>2. Owned'
  BY <1>1 DEF Inv, Owned, Owners, Occupied
<1>3. i \in 0 .. H /\ H \in Nat /\ Rows = 0 .. H - 1
  BY SizeAssumption DEF Inv, TypeOK, Rows
<1>4. rows' \in [Rows -> BOOLEAN]
  BY DEF Inv, TypeOK, checkFilledRows, RowFilled, CheckRows, SkipRow, CallClearRow, ScanDone,
         ClearRowReturns
<1>5. i' \in 0 .. H /\ y' \in Rows
  BY <1>3 DEF Inv, TypeOK, Control, CheckRows, SkipRow, CallClearRow, ScanDone, ClearRowReturns
<1>6. TypeOK'
  BY <1>1, <1>4, <1>5 DEF Inv, TypeOK
<1>7. Control'
  BY <1>1, <1>3 DEF Control, CallClearRow, CheckRows, SkipRow, ScanDone, ClearRowReturns
<1>8. Ahead'
  <2>1. Occupied' = Occupied
    BY <1>1 DEF Occupied
  <2>2. ASSUME pc' = "scan", NEW r \in i' .. H - 1
        PROVE  rows'[r] = RowFilled(Occupied, r)
    <3>1. CASE CheckRows
      BY <1>3, <1>5, <2>2, <3>1 DEF CheckRows, checkFilledRows
    <3>2. CASE SkipRow \/ ClearRowReturns
      BY <1>3, <2>2, <3>2 DEF Inv, Ahead, SkipRow, ClearRowReturns
    <3> QED
      BY <2>2, <3>1, <3>2 DEF CallClearRow, ScanDone
  <2>3. ASSUME pc' = "clear", NEW r \in i' + 1 .. H - 1
        PROVE  rows'[r] = RowFilled(Occupied, r)
    BY <1>3, <2>3 DEF Inv, Ahead, CallClearRow, CheckRows, SkipRow, ScanDone, ClearRowReturns
  <2> HIDE DEF Occupied
  <2> QED
    BY <1>1, <2>1, <2>2, <2>3 DEF Ahead, RowFilled
<1> QED
  BY <1>2, <1>6, <1>7, <1>8 DEF Inv

\* The steps of clearRow touch rows y and y - 1 only, which the loop has passed.
LEMMA AheadKept ==
  ASSUME Inv, pc \in {"clear", "copy", "empty"}, pc' \in {"clear", "copy", "empty"},
         \A c \in Cells : c.y > i => blocks'[c] = blocks[c],
         UNCHANGED <<rows, i>>
  PROVE  Ahead'
<1>1. SUFFICES ASSUME NEW r \in i + 1 .. H - 1
               PROVE  rows'[r] = RowFilled(Occupied', r)
  BY DEF Ahead, RowFilled
<1>2. i \in Nat /\ H \in Nat /\ r \in Rows /\ r > i
  BY SizeAssumption DEF Inv, TypeOK, Rows
<1>3. rows[r] = RowFilled(Occupied, r)
  BY DEF Inv, Ahead
<1>4. \A c \in Cells : c.y = r => (c \in Occupied <=> c \in Occupied')
  BY <1>2 DEF Occupied
<1> QED
  BY <1>2, <1>3, <1>4, RowsApart

\* deleteBlock frees the blocks of a row, each once, and no other.
LEMMA DeleteKeeps == ASSUME Inv, DeleteRow PROVE Inv'
<1>1. /\ pc = "clear" /\ pc' = "copy" /\ y >= 1 /\ y \in Rows
      /\ UNCHANGED <<rows, i, y, home>>
      /\ i < H /\ y <= i /\ i \in Nat
  BY DEF Inv, Control, DeleteRow, TypeOK
<1>2. /\ \A c \in Cells : blocks'[c] = IF c.y = y THEN Null ELSE blocks[c]
      /\ blocks' \in [Cells -> Cells \cup {Null}]
      /\ alive' = alive \ {blocks[c] : c \in {d \in Cells : d.y = y}}
  BY DEF DeleteRow, Inv, TypeOK
<1>3. Occupied' = {c \in Occupied : c.y # y} /\ Owners = Occupied /\ Owners' = Occupied'
  BY <1>1, <1>2 DEF Occupied, Owners
<1>4. TypeOK' /\ Control'
  BY <1>1, <1>2 DEF Inv, TypeOK, Control
<1>5. Owned'
  <2>1. /\ \A c, d \in Occupied : blocks[c] = blocks[d] => c = d
        /\ alive = {blocks[c] : c \in Occupied}
    BY <1>3 DEF Inv, Owned
  <2>2. \A c \in Occupied' : blocks'[c] = blocks[c]
    BY <1>2, <1>3 DEF Occupied
  <2>3. alive' = {blocks[c] : c \in Occupied'}
    BY <1>2, <1>3, <2>1, CellFacts DEF Occupied
  <2>4. alive' = {blocks'[c] : c \in Occupied'}
    BY <2>2, <2>3
  <2> QED
    BY <1>1, <1>3, <2>1, <2>2, <2>4 DEF Owned
<1>6. Ahead'
  <2>1. \A c \in Cells : c.y > i => blocks'[c] = blocks[c]
    BY <1>1, <1>2, CellFacts DEF Rows
  <2> QED
    BY <1>1, <2>1, AheadKept
<1> QED
  BY <1>4, <1>5, <1>6 DEF Inv

\* Copying a row shares its blocks with the row below, which was empty.
LEMMA CopyKeeps == ASSUME Inv, CopyRow PROVE Inv'
<1>1. /\ pc = "copy" /\ pc' = "empty" /\ y >= 1 /\ y \in Rows /\ y - 1 \in Rows
      /\ UNCHANGED <<alive, rows, i, y, home>>
      /\ i < H /\ y <= i /\ i \in Nat
      /\ \A c \in Cells : c.y = y => blocks[c] = Null
  BY SizeAssumption DEF Inv, Control, CopyRow, TypeOK, Rows
<1> DEFINE Above(c) == Vect(c.x, y - 1)
<1>2. /\ \A c \in Cells : blocks'[c] = IF c.y = y THEN blocks[Above(c)] ELSE blocks[c]
      /\ \A c \in Cells : Above(c) \in Cells /\ Above(c).x = c.x /\ Above(c).y = y - 1
      /\ blocks' \in [Cells -> Cells \cup {Null}]
  <2>1. \A c \in Cells : Above(c) \in Cells /\ Above(c).x = c.x /\ Above(c).y = y - 1
    BY <1>1, CellFacts DEF Rows
  <2> QED
    BY <2>1 DEF CopyRow, Inv, TypeOK
<1>3. \A c, d \in Cells : c.y = y /\ d.y = y /\ Above(c) = Above(d) => c = d
  BY <1>2, CellFacts
<1>4. \A c \in Cells : c.y = y - 1 => \E d \in Cells : d.y = y /\ Above(d) = c
  <2>1. ASSUME NEW c \in Cells, c.y = y - 1
        PROVE  \E d \in Cells : d.y = y /\ Above(d) = c
    <3>1. Vect(c.x, y) \in Cells /\ Vect(c.x, y).x = c.x /\ Vect(c.x, y).y = y
      BY <1>1, CellFacts DEF Rows
    <3>2. Above(Vect(c.x, y)) = c
      BY <2>1, <3>1, CellFacts
    <3> QED
      BY <3>1, <3>2
  <2> QED
    BY <2>1
<1>5. TypeOK' /\ Control'
  BY <1>1, <1>2 DEF Inv, TypeOK, Control
<1> HIDE DEF Above
<1>6. /\ \A c, d \in Occupied : blocks[c] = blocks[d] => c = d
      /\ alive = {blocks[c] : c \in Occupied}
      /\ \A c \in Occupied : c.y # y
  BY <1>1 DEF Inv, Owned, Owners, Occupied
<1>7. \A c \in Owners' : c \in Cells /\ c.y # y - 1 /\ blocks'[c] # Null
  BY <1>1 DEF Owners, Occupied
<1>8. \A c \in Owners' :
        \/ c.y = y /\ Above(c) \in Occupied /\ blocks'[c] = blocks[Above(c)]
        \/ c.y # y /\ c \in Occupied /\ blocks'[c] = blocks[c]
  BY <1>2, <1>7 DEF Occupied
<1>9. \A c, d \in Owners' : blocks'[c] = blocks'[d] => c = d
  <2>1. \A c \in Owners' : c.y = y => Above(c).y = y - 1
    BY <1>2, <1>7
  <2> QED
    BY <1>3, <1>6, <1>7, <1>8, <2>1
<1>10. alive' = {blocks'[c] : c \in Owners'}
  <2>1. \A c \in Owners' : blocks'[c] \in alive
    BY <1>6, <1>8
  <2>2. ASSUME NEW c \in Occupied
        PROVE  \E d \in Owners' : blocks'[d] = blocks[c]
    <3>1. CASE c.y = y - 1
      <4>1. PICK d \in Cells : d.y = y /\ Above(d) = c
        BY <1>4, <3>1 DEF Occupied
      <4>2. blocks'[d] = blocks[c] /\ blocks'[d] # Null
        BY <1>2, <4>1 DEF Occupied
      <4>3. d.y # y - 1
        BY <1>1, <4>1 DEF Rows
      <4> QED
        BY <1>1, <4>1, <4>2, <4>3 DEF Owners, Occupied
    <3>2. CASE c.y # y - 1
      <4>1. blocks'[c] = blocks[c] /\ blocks'[c] # Null /\ c \in Cells
        BY <1>2, <1>6 DEF Occupied
      <4> QED
        BY <1>1, <3>2, <4>1 DEF Owners, Occupied
    <3> QED
      BY <3>1, <3>2
  <2>3. alive' = alive
    BY <1>1
  <2> QED
    BY <1>6, <2>1, <2>2, <2>3
<1>11. \A c \in Cells : c.y = y => blocks'[c] = blocks'[Vect(c.x, y - 1)]
  BY <1>1, <1>2 DEF Above, Rows
<1>12. Owned'
  BY <1>1, <1>9, <1>10, <1>11 DEF Owned
<1>13. Ahead'
  <2>1. \A c \in Cells : c.y > i => blocks'[c] = blocks[c]
    BY <1>1, <1>2, CellFacts DEF Rows
  <2> QED
    BY <1>1, <2>1, AheadKept
<1> QED
  BY <1>5, <1>12, <1>13 DEF Inv

\* Emptying the row above leaves every block with one cell.
LEMMA EmptyKeeps == ASSUME Inv, EmptyRow PROVE Inv'
<1>1. /\ pc = "empty" /\ pc' = "clear" /\ y >= 1 /\ y \in Rows /\ y' = y - 1 /\ y' \in Rows
      /\ UNCHANGED <<alive, rows, i, home>>
      /\ i < H /\ y <= i /\ i \in Nat
  BY SizeAssumption DEF Inv, Control, EmptyRow, TypeOK, Rows
<1>2. /\ \A c \in Cells : blocks'[c] = IF c.y = y - 1 THEN Null ELSE blocks[c]
      /\ blocks' \in [Cells -> Cells \cup {Null}]
  BY DEF EmptyRow, Inv, TypeOK
<1>3. TypeOK' /\ Control'
  BY <1>1, <1>2 DEF Inv, TypeOK, Control, Rows
<1>4. Owners' = Owners /\ \A c \in Owners : blocks'[c] = blocks[c]
  BY <1>1, <1>2 DEF Owners, Occupied
<1>5. Owned'
  <2>1. {blocks'[c] : c \in Owners'} = {blocks[c] : c \in Owners}
    BY <1>4
  <2> QED
    BY <1>1, <1>4, <2>1 DEF Inv, Owned
<1>6. Ahead'
  <2>1. \A c \in Cells : c.y > i => blocks'[c] = blocks[c]
    BY <1>1, <1>2, CellFacts DEF Rows
  <2> QED
    BY <1>1, <2>1, AheadKept
<1> QED
  BY <1>3, <1>5, <1>6 DEF Inv

\* Every step keeps it.
LEMMA StepInv == Inv /\ [Next]_vars => Inv'
<1>1. SUFFICES ASSUME Inv, [Next]_vars
               PROVE  Inv'
  OBVIOUS
<1>2. CASE CheckRows \/ SkipRow \/ CallClearRow \/ ScanDone \/ ClearRowReturns
  BY <1>1, <1>2, LoopKeeps
<1>3. CASE DeleteRow \/ CopyRow \/ EmptyRow
  BY <1>1, <1>3, DeleteKeeps, CopyKeeps, EmptyKeeps
<1>4. CASE UNCHANGED vars
  BY <1>1, <1>4 DEF vars, Inv, TypeOK, Control, Owned, Owners, Occupied, Ahead
<1> QED
  BY <1>1, <1>2, <1>3, <1>4 DEF Next, Step

\* The invariant holds throughout.
LEMMA Invariance == Spec => []Inv
BY InitInv, StepInv, PTL DEF Spec

-----------------------------------------------------------------------------
(* How far a row sinks. *)

\* It sinks over rows that lie between it and row n.
LEMMA SunkBounds ==
  ASSUME NEW R, \A r \in R : r \in Nat, NEW v \in Nat, NEW n \in Nat
  PROVE  /\ Sunk(R, v, n) \in Nat
         /\ n <= v + 1 => Sunk(R, v, n) = 0
         /\ v < n => v + Sunk(R, v, n) <= n - 1
<1> DEFINE S == {r \in R : v < r /\ r < n}
<1>1. IsFiniteSet((v + 1) .. (n - 1))
  BY FS_Interval
<1>2. S \subseteq (v + 1) .. (n - 1)
  OBVIOUS
<1>3. IsFiniteSet(S) /\ Cardinality(S) <= Cardinality((v + 1) .. (n - 1))
  BY <1>1, <1>2, FS_Subset
<1>4. Cardinality(S) \in Nat
  BY <1>3, FS_CardinalityType
<1>5. ASSUME n <= v + 1
      PROVE  Cardinality(S) = 0
  <2>1. S = {}
    BY <1>5
  <2> QED
    BY <2>1, FS_EmptySet
<1>6. ASSUME v < n
      PROVE  v + Cardinality(S) <= n - 1
  <2>1. Cardinality((v + 1) .. (n - 1)) =
          IF v + 1 > n - 1 THEN 0 ELSE n - 1 - (v + 1) + 1
    BY FS_Interval
  <2> QED
    BY <1>3, <1>4, <1>6, <2>1
<1> QED
  BY <1>3, <1>4, <1>5, <1>6 DEF Sunk

\* Clearing row n makes the rows above it sink by one, and no other.
LEMMA SunkNext ==
  ASSUME NEW R, \A r \in R : r \in Nat, NEW v \in Nat, NEW n \in Nat
  PROVE  Sunk(R, v, n + 1) = IF n \in R /\ v < n THEN Sunk(R, v, n) + 1 ELSE Sunk(R, v, n)
<1> DEFINE S == {r \in R : v < r /\ r < n}
           T == {r \in R : v < r /\ r < n + 1}
<1>1. CASE n \in R /\ v < n
  <2>1. T = S \cup {n} /\ n \notin S
    <3>1. \A r : r \in T <=> r \in R /\ v < r /\ r < n + 1
      OBVIOUS
    <3>2. \A r : r \in S <=> r \in R /\ v < r /\ r < n
      OBVIOUS
    <3>3. \A r \in R : r < n + 1 <=> r < n \/ r = n
      OBVIOUS
    <3>4. v < n + 1 /\ v < n /\ n \in R /\ n < n + 1 /\ ~(n < n)
      BY <1>1
    <3> HIDE DEF S, T
    <3>5. \A r : r \in T <=> r \in S \/ r = n
      BY <3>1, <3>2, <3>3, <3>4
    <3>6. n \notin S
      BY <3>2, <3>4
    <3> QED
      BY <3>5, <3>6
  <2>2. IsFiniteSet(S)
    <3>1. S \subseteq 0 .. n
      OBVIOUS
    <3> HIDE DEF S
    <3>2. IsFiniteSet(0 .. n)
      BY FS_Interval
    <3> QED
      BY <3>1, <3>2, FS_Subset
  <2> HIDE DEF S, T
  <2>3. Cardinality(T) = Cardinality(S) + 1
    BY <2>1, <2>2, FS_AddElement
  <2> QED
    BY <1>1, <2>3 DEF Sunk, S, T
<1>2. CASE ~(n \in R /\ v < n)
  <2>1. T = S
    BY <1>2
  <2> QED
    BY <1>2, <2>1 DEF Sunk
<1> QED
  BY <1>1, <1>2

\* What the invariant says of the rows to clear and of a block.
LEMMA BlockFacts ==
  ASSUME FullInv
  PROVE  /\ \A r \in RowsCleared(rows) : r \in Rows /\ r \in Nat
         /\ i \in 0 .. H /\ H \in Nat \ {0} /\ Rows = 0 .. H - 1
         /\ \A r \in Rows : r \in RowsCleared(rows) <=> rows[r] /\ r # 0
         /\ \A c \in Owners : /\ c \in Cells /\ c.y \in Nat
                              /\ blocks[c] \in Cells /\ blocks[c].y \in Nat
                              /\ blocks[c].x = c.x
                              /\ c.y = blocks[c].y
                                         + Sunk(RowsCleared(rows), blocks[c].y, Upto(c))
<1>1. /\ \A r \in RowsCleared(rows) : r \in Rows /\ r \in Nat
      /\ Rows = 0 .. H - 1 /\ H \in Nat \ {0}
  BY SizeAssumption DEF RowsCleared, Rows
<1>2. \A c \in Owners : c \in Cells /\ blocks[c] \in Cells
  BY DEF FullInv, Inv, TypeOK, Owners, Occupied
<1>3. \A c \in Cells : c.y \in Nat
  BY CellFacts, SizeAssumption
<1> QED
  BY <1>1, <1>2, <1>3 DEF FullInv, Inv, TypeOK, Traced, RowsCleared

-----------------------------------------------------------------------------
(* Every action keeps track of the blocks. *)

\* At the start every block is on the cell it is named by.
LEMMA InitTraced == Init => Traced /\ Progress
<1>1. SUFFICES ASSUME Init
               PROVE  Traced /\ Progress
  OBVIOUS
<1>2. pc = "check" /\ i = 0 /\ alive = home /\ home \subseteq Cells
  BY <1>1 DEF Init
<1>3. Occupied = home /\ \A c \in home : blocks[c] = c
  BY <1>1, CellFacts DEF Init, Occupied
<1>4. \A r \in RowsCleared(rows) : r \in Nat
  BY SizeAssumption DEF RowsCleared, Rows
<1>5. \A c \in home : c.y \in Nat
  BY <1>2, CellFacts, SizeAssumption
<1>6. \A c \in home : Sunk(RowsCleared(rows), c.y, 0) = 0
  BY <1>4, <1>5, SunkBounds
<1>7. Owners = home /\ Gone = 0 /\ \A c \in home : Upto(c) = 0
  BY <1>2, <1>3 DEF Owners, Gone, Upto
<1>8. alive = {c \in home : c.y \in RowsCleared(rows) => c.y >= Gone}
  BY <1>2, <1>5, <1>7
<1>9. Traced
  BY <1>3, <1>5, <1>6, <1>7, <1>8 DEF Traced
<1> QED
  BY <1>2, <1>3, <1>9 DEF Progress

\* No row has been cleared when the filled rows are found.
LEMMA CheckTraces == ASSUME FullInv, CheckRows PROVE Traced' /\ Progress'
<1>1. /\ pc = "check" /\ pc' = IF hasFilledRow(home) THEN "scan" ELSE "done"
      /\ rows' = checkFilledRows(home)
      /\ UNCHANGED <<blocks, alive, i, y, home>>
      /\ Occupied = home /\ i = 0
  BY DEF FullInv, Progress, CheckRows
<1> DEFINE R == RowsCleared(rows')
<1>2. H \in Nat /\ \A r \in R : r \in Nat
  BY SizeAssumption DEF RowsCleared, Rows
<1>3. ~hasFilledRow(home) => R = {}
  BY <1>1 DEF RowsCleared, checkFilledRows, hasFilledRow
<1> HIDE DEF R
<1>4. Owners = home /\ Owners' = home
  BY <1>1 DEF Owners, Occupied
<1>5. \A v \in Nat : Sunk(RowsCleared(rows), v, 0) = 0 /\ Sunk(R, v, 0) = 0
  BY <1>2, BlockFacts, SunkBounds
<1>6. \A v \in Nat : R = {} => Sunk(R, v, H) = 0
  BY FS_EmptySet DEF Sunk
<1>7. \A c \in home : /\ Upto(c) = 0
                      /\ Upto(c)' = IF hasFilledRow(home) THEN 0 ELSE H
  BY <1>1 DEF Upto
<1>8. ASSUME NEW c \in home
      PROVE  /\ blocks'[c].x = c.x
             /\ c.y = blocks'[c].y + Sunk(R, blocks'[c].y, Upto(c)')
  BY <1>1, <1>3, <1>4, <1>5, <1>6, <1>7, BlockFacts
<1>9. alive' = {c \in home : c.y \in R => c.y >= Gone'}
  <2>1. alive = home
    <3>1. alive = {c \in home : c.y \in RowsCleared(rows) => c.y >= 0}
      BY <1>1 DEF FullInv, Traced, Gone
    <3>2. \A c \in home : c.y \in Nat
      BY <1>4, BlockFacts
    <3> QED
      BY <3>1, <3>2
  <2>2. Gone' = IF hasFilledRow(home) THEN 0 ELSE H
    BY <1>1 DEF Gone
  <2>3. \A c \in home : c.y \in Nat
    BY CellFacts, SizeAssumption DEF FullInv, Inv, TypeOK
  <2> QED
    BY <1>1, <1>3, <2>1, <2>2, <2>3
<1>10. Traced'
  BY <1>1, <1>4, <1>8, <1>9 DEF Traced, R
<1>11. Progress'
  BY <1>1 DEF Progress, Occupied
<1> QED
  BY <1>10, <1>11

\* A block in row i or below it has not moved.
LEMMA BelowIsStill ==
  ASSUME FullInv, pc \in {"scan", "clear"}, NEW c \in Owners, Upto(c) = i
  PROVE  blocks[c].y < i <=> c.y < i
<1>1. /\ blocks[c].y \in Nat /\ c.y \in Nat /\ i \in Nat
      /\ c.y = blocks[c].y + Sunk(RowsCleared(rows), blocks[c].y, i)
      /\ \A r \in RowsCleared(rows) : r \in Nat
  BY BlockFacts
<1>2. /\ Sunk(RowsCleared(rows), blocks[c].y, i) \in Nat
      /\ blocks[c].y < i => blocks[c].y + Sunk(RowsCleared(rows), blocks[c].y, i) <= i - 1
  BY <1>1, SunkBounds
<1> QED
  BY <1>1, <1>2

\* Where a row that is not to be cleared is passed, nothing sinks.
LEMMA SkipTraces ==
  ASSUME FullInv, pc' = "scan", SkipRow \/ ClearRowReturns
  PROVE  Traced' /\ Progress'
<1> DEFINE R == RowsCleared(rows)
<1>1. /\ UNCHANGED <<blocks, alive, rows, y, home>> /\ i' = i + 1
      /\ pc \in {"scan", "clear"} /\ i \in Nat /\ i < H /\ i \in Rows
      /\ Owners' = Owners /\ RowsCleared(rows') = R
  BY SizeAssumption DEF SkipRow, ClearRowReturns, Owners, Occupied, FullInv, Inv, TypeOK, Control, Rows
<1>2. \/ pc = "scan" /\ i \notin R
      \/ pc = "clear" /\ y = 0 /\ (i = 0 => i \notin R)
  <2>1. y < 1 => y = 0
    BY SizeAssumption DEF FullInv, Inv, TypeOK, Rows
  <2> QED
    BY <2>1 DEF SkipRow, ClearRowReturns, RowsCleared
<1>3. \A r \in R : r \in Nat
  BY BlockFacts
<1> HIDE DEF R
<1>4. ASSUME NEW c \in Owners
      PROVE  blocks[c].x = c.x /\ c.y = blocks[c].y + Sunk(R, blocks[c].y, i + 1)
  <2>1. /\ blocks[c].x = c.x /\ c.y = blocks[c].y + Sunk(R, blocks[c].y, Upto(c))
        /\ blocks[c].y \in Nat /\ c.y \in Nat /\ c \in Cells /\ blocks[c] # Null
    BY BlockFacts DEF R, Owners, Occupied
  <2>2. CASE i \notin R
    <3>1. Upto(c) = i \/ Upto(c) = i + 1
      BY <1>1 DEF Upto
    <3>2. Sunk(R, blocks[c].y, i + 1) = Sunk(R, blocks[c].y, i)
      BY <1>1, <1>3, <2>1, <2>2, SunkNext
    <3> QED
      BY <2>1, <3>1, <3>2
  <2>3. CASE pc = "clear" /\ y = 0 /\ i > 0
    <3>1. c.y # y
      BY <1>1, <2>1, <2>3 DEF FullInv, Progress
    <3>2. Upto(c) = i + 1
      BY <2>1, <2>3, <3>1 DEF Upto
    <3> QED
      BY <2>1, <3>2
  <2> QED
    BY <1>1, <1>2, <2>2, <2>3
<1>5. \A c \in Owners : Upto(c)' = i + 1
  BY <1>1 DEF Upto
<1>6. alive' = {c \in home : c.y \in R => c.y >= Gone'}
  <2>1. Gone' = i + 1 /\ alive = {c \in home : c.y \in R => c.y >= Gone}
    BY <1>1 DEF Gone, FullInv, Traced, R
  <2>2. CASE i \notin R
    <3>1. Gone = i \/ Gone = i + 1
      BY <1>1 DEF Gone
    <3>2. \A r \in R : r >= i <=> r >= i + 1
      BY <1>1, <1>3, <2>2
    <3> QED
      BY <1>1, <2>1, <3>1, <3>2
  <2>3. CASE pc = "clear" /\ y = 0 /\ i > 0
    <3>1. Gone = i + 1
      BY <1>1, <2>3 DEF Gone
    <3> QED
      BY <1>1, <2>1, <3>1
  <2> QED
    BY <1>1, <1>2, <2>2, <2>3
<1>7. Traced'
  BY <1>1, <1>4, <1>5, <1>6 DEF Traced
<1>8. Progress'
  BY <1>1 DEF FullInv, Progress
<1> QED
  BY <1>7, <1>8

\* A call of clearRow finds the rows below row i where they were.
LEMMA CallTraces == ASSUME FullInv, CallClearRow PROVE Traced' /\ Progress'
<1> DEFINE R == RowsCleared(rows)
<1>1. /\ UNCHANGED <<blocks, alive, rows, i, home>> /\ y' = i
      /\ pc = "scan" /\ pc' = "clear" /\ i \in Nat /\ i < H /\ rows[i]
      /\ Owners' = Owners /\ RowsCleared(rows') = R
  BY SizeAssumption DEF CallClearRow, Owners, Occupied, FullInv, Inv, TypeOK
<1>2. \A r \in R : r \in Nat
  BY BlockFacts
<1> HIDE DEF R
<1>3. ASSUME NEW c \in Owners
      PROVE  blocks[c].x = c.x /\ c.y = blocks[c].y + Sunk(R, blocks[c].y, Upto(c)')
  <2>1. /\ blocks[c].x = c.x /\ c.y = blocks[c].y + Sunk(R, blocks[c].y, i)
        /\ blocks[c].y \in Nat /\ c.y \in Nat /\ Upto(c) = i
    BY <1>1, BlockFacts DEF R, Upto
  <2>2. Upto(c)' = IF c.y <= i THEN i ELSE i + 1
    BY <1>1, <2>1 DEF Upto
  <2>3. ASSUME ~(c.y <= i)
        PROVE  Sunk(R, blocks[c].y, i + 1) = Sunk(R, blocks[c].y, i)
    <3>1. ~(blocks[c].y < i)
      BY <1>1, <2>1, <2>3, BelowIsStill
    <3> QED
      BY <1>1, <1>2, <2>1, <3>1, SunkNext
  <2> QED
    BY <2>1, <2>2, <2>3
<1>4. Gone' = Gone
  BY <1>1 DEF Gone
<1>5. Traced'
  BY <1>1, <1>3, <1>4 DEF FullInv, Traced, R
<1>6. Progress'
  BY <1>1 DEF FullInv, Progress
<1> QED
  BY <1>5, <1>6

\* The loop ends at row H.
LEMMA ScanTraces == ASSUME FullInv, ScanDone PROVE Traced' /\ Progress'
<1>1. /\ UNCHANGED <<blocks, alive, rows, i, y, home>>
      /\ pc = "scan" /\ pc' = "done" /\ i = H /\ Owners' = Owners
  BY DEF ScanDone, Owners, Occupied
<1>2. Gone' = Gone /\ \A c \in Owners : Upto(c)' = Upto(c)
  BY <1>1 DEF Gone, Upto
<1> QED
  BY <1>1, <1>2 DEF FullInv, Traced, Progress

\* The blocks of row i are those that stood in row i.
LEMMA RowOfBlocks ==
  ASSUME FullInv, pc = "clear", y = i, NEW b \in alive
  PROVE  b.y = i <=> \E c \in Cells : c.y = i /\ blocks[c] = b
<1>1. i \in Nat /\ \A r \in RowsCleared(rows) : r \in Nat
  BY BlockFacts
<1>2. ASSUME NEW c \in Owners, blocks[c] = b
      PROVE  b.y = i <=> c.y = i
  <2>1. /\ b.y \in Nat /\ c.y \in Nat
        /\ c.y = b.y + Sunk(RowsCleared(rows), b.y, Upto(c))
    BY <1>2, BlockFacts
  <2>2. CASE c.y <= i
    <3>1. Upto(c) = i
      BY <1>1, <2>1, <2>2 DEF Upto
    <3>2. /\ Sunk(RowsCleared(rows), b.y, i) \in Nat
          /\ i <= b.y + 1 => Sunk(RowsCleared(rows), b.y, i) = 0
          /\ b.y < i => b.y + Sunk(RowsCleared(rows), b.y, i) <= i - 1
      BY <1>1, <2>1, SunkBounds
    <3> QED
      BY <1>1, <2>1, <3>1, <3>2
  <2>3. CASE ~(c.y <= i)
    <3>1. Upto(c) = i + 1
      BY <1>1, <2>1, <2>3 DEF Upto
    <3>2. i + 1 <= b.y + 1 => Sunk(RowsCleared(rows), b.y, i + 1) = 0
      BY <1>1, <2>1, SunkBounds
    <3> QED
      BY <1>1, <2>1, <2>3, <3>1, <3>2
  <2> QED
    BY <2>2, <2>3
<1>3. PICK c \in Owners : blocks[c] = b
  BY DEF FullInv, Inv, Owned
<1>4. Owners = Occupied /\ Null \notin alive
  BY CellFacts DEF Owners, FullInv, Inv, TypeOK
<1>5. \A d \in Cells : blocks[d] = b => d \in Owners
  BY <1>4 DEF Occupied
<1> QED
  BY <1>2, <1>3, <1>5, BlockFacts

\* Deleting row i leaves the blocks of the other rows; later there is nothing
\* in the row to delete.
LEMMA DeleteTraces == ASSUME FullInv, DeleteRow PROVE Traced' /\ Progress'
<1> DEFINE R == RowsCleared(rows)
<1>1. /\ UNCHANGED <<rows, i, y, home>> /\ pc = "clear" /\ pc' = "copy"
      /\ y >= 1 /\ y <= i /\ i < H /\ rows[i] /\ i \in Nat /\ y \in Nat
      /\ RowsCleared(rows') = R
      /\ \A c \in Cells : blocks'[c] = IF c.y = y THEN Null ELSE blocks[c]
      /\ alive' = alive \ {blocks[c] : c \in {d \in Cells : d.y = y}}
  BY SizeAssumption DEF DeleteRow, FullInv, Inv, TypeOK, Control, Progress, Rows
<1>2. /\ Owners' = {c \in Owners : c.y # y}
      /\ \A c \in Owners' : blocks'[c] = blocks[c]
  BY <1>1 DEF Owners, Occupied
<1>3. \A c \in Owners' : Upto(c)' = Upto(c)
  BY <1>1, <1>2 DEF Upto
<1>4. i \in R /\ \A r \in R : r \in Nat
  BY <1>1, BlockFacts
<1>5. alive = {c \in home : c.y \in R => c.y >= Gone} /\ Gone' = i + 1
  BY <1>1 DEF Gone, FullInv, Traced
<1> HIDE DEF R
<1>6. alive' = {c \in home : c.y \in R => c.y >= i + 1}
  <2>1. CASE y < i
    <3>1. {blocks[c] : c \in {d \in Cells : d.y = y}} \subseteq {Null}
      BY <1>1, <2>1 DEF FullInv, Progress
    <3>2. Null \notin alive /\ Gone = i + 1
      BY <1>1, <2>1, CellFacts DEF FullInv, Inv, TypeOK, Gone
    <3>3. alive' = alive
      BY <1>1, <3>1, <3>2
    <3> QED
      BY <1>5, <3>2, <3>3
  <2>2. CASE y = i
    <3>1. alive' = {b \in alive : ~ \E c \in Cells : c.y = i /\ blocks[c] = b}
      BY <1>1, <2>2
    <3>2. alive' = {b \in alive : b.y # i}
      BY <1>1, <2>2, <3>1, RowOfBlocks
    <3>3. Gone = i
      BY <1>1, <2>2 DEF Gone
    <3>4. \A r \in R : r >= i /\ r # i <=> r >= i + 1
      BY <1>1, <1>4
    <3> QED
      BY <1>4, <1>5, <3>2, <3>3, <3>4
  <2> QED
    BY <1>1, <2>1, <2>2
<1>7. Traced'
  BY <1>1, <1>2, <1>3, <1>5, <1>6 DEF FullInv, Traced, R
<1>8. Progress'
  BY <1>1 DEF FullInv, Progress
<1> QED
  BY <1>7, <1>8

\* A copied row has sunk by the row that is being cleared.
LEMMA CopyTraces == ASSUME FullInv, CopyRow PROVE Traced' /\ Progress'
<1> DEFINE R == RowsCleared(rows)
<1>1. /\ UNCHANGED <<alive, rows, i, y, home>> /\ pc = "copy" /\ pc' = "empty"
      /\ y >= 1 /\ y <= i /\ i < H /\ rows[i] /\ i \in Nat /\ y \in Nat
      /\ RowsCleared(rows') = R
      /\ \A c \in Cells : blocks'[c] = IF c.y = y THEN blocks[Vect(c.x, y - 1)] ELSE blocks[c]
  BY SizeAssumption DEF CopyRow, FullInv, Inv, TypeOK, Control, Progress, Rows
<1>2. i \in R /\ \A r \in R : r \in Nat
  BY <1>1, BlockFacts
<1>3. \A c \in Owners' : c \in Cells /\ c.y \in Nat /\ c.y # y - 1 /\ blocks'[c] # Null
  BY <1>1, CellFacts, SizeAssumption DEF Owners, Occupied
<1> HIDE DEF R
<1>4. ASSUME NEW c \in Owners'
      PROVE  blocks'[c].x = c.x /\ c.y = blocks'[c].y + Sunk(R, blocks'[c].y, Upto(c)')
  <2>1. CASE c.y = y
    <3>1. PICK d : d = Vect(c.x, y - 1)
      OBVIOUS
    <3>2. d \in Cells /\ d.x = c.x /\ d.y = y - 1
      BY <1>1, <1>3, <3>1, CellFacts, SizeAssumption
    <3>3. blocks'[c] = blocks[d]
      BY <1>1, <1>3, <2>1, <3>1
    <3>4. d \in Owners
      BY <1>1, <1>3, <3>2, <3>3 DEF Owners, Occupied
    <3>5. Upto(d) = i /\ Upto(c)' = i + 1
      BY <1>1, <2>1, <3>2 DEF Upto
    <3>6. /\ blocks[d].x = c.x /\ blocks[d].y \in Nat
          /\ y - 1 = blocks[d].y + Sunk(R, blocks[d].y, i)
      BY <3>2, <3>4, <3>5, BlockFacts DEF R
    <3>7. Sunk(R, blocks[d].y, i) \in Nat
      BY <1>1, <1>2, <3>6, SunkBounds
    <3>8. blocks[d].y < i
      BY <1>1, <3>6, <3>7
    <3>9. Sunk(R, blocks[d].y, i + 1) = Sunk(R, blocks[d].y, i) + 1
      BY <1>1, <1>2, <3>6, <3>8, SunkNext
    <3> QED
      BY <1>1, <2>1, <3>3, <3>5, <3>6, <3>7, <3>9
  <2>2. CASE c.y # y
    <3>1. blocks'[c] = blocks[c] /\ c \in Owners
      BY <1>1, <1>3, <2>2 DEF Owners, Occupied
    <3>2. Upto(c)' = Upto(c)
      BY <1>1, <2>2 DEF Upto
    <3> QED
      BY <3>1, <3>2, BlockFacts DEF R
  <2> QED
    BY <2>1, <2>2
<1>5. Gone' = Gone
  BY <1>1 DEF Gone
<1>6. Traced'
  BY <1>1, <1>4, <1>5 DEF FullInv, Traced, R
<1>7. Progress'
  BY <1>1 DEF FullInv, Progress
<1> QED
  BY <1>6, <1>7

\* Emptying the row above moves no block.
LEMMA EmptyTraces == ASSUME FullInv, EmptyRow PROVE Traced' /\ Progress'
<1>1. /\ UNCHANGED <<alive, rows, i, home>> /\ pc = "empty" /\ pc' = "clear" /\ y' = y - 1
      /\ y >= 1 /\ y <= i /\ i < H /\ rows[i] /\ i \in Nat /\ y \in Nat
      /\ \A c \in Cells : blocks'[c] = IF c.y = y - 1 THEN Null ELSE blocks[c]
  BY SizeAssumption DEF EmptyRow, FullInv, Inv, TypeOK, Control, Progress, Rows
<1>2. Owners' = Owners /\ \A c \in Owners : blocks'[c] = blocks[c] /\ c.y # y - 1
  BY <1>1 DEF Owners, Occupied
<1>3. \A c \in Owners : Upto(c)' = Upto(c)
  <2>1. \A c \in Owners : c.y \in Nat
    BY BlockFacts
  <2> QED
    BY <1>1, <1>2, <2>1 DEF Upto
<1>4. Gone' = Gone
  BY <1>1 DEF Gone
<1>5. Traced'
  BY <1>1, <1>2, <1>3, <1>4 DEF FullInv, Traced
<1>6. Progress'
  BY <1>1 DEF FullInv, Progress
<1> QED
  BY <1>5, <1>6

\* The full invariant holds throughout.
LEMMA FullInvariance == Spec => []FullInv
<1>1. Init => FullInv
  BY InitInv, InitTraced DEF FullInv
<1>2. FullInv /\ [Next]_vars => FullInv'
  <2>1. SUFFICES ASSUME FullInv, [Next]_vars
                 PROVE  FullInv'
    OBVIOUS
  <2>2. Inv'
    BY <2>1, StepInv DEF FullInv
  <2>3. CASE CheckRows \/ CallClearRow \/ ScanDone
    BY <2>1, <2>2, <2>3, CheckTraces, CallTraces, ScanTraces DEF FullInv
  <2>4. CASE SkipRow \/ ClearRowReturns
    BY <2>1, <2>2, <2>4, SkipTraces DEF FullInv, SkipRow, ClearRowReturns
  <2>5. CASE DeleteRow \/ CopyRow \/ EmptyRow
    BY <2>1, <2>2, <2>5, DeleteTraces, CopyTraces, EmptyTraces DEF FullInv
  <2>6. CASE UNCHANGED vars
    BY <2>1, <2>2, <2>6
       DEF vars, FullInv, Traced, Progress, Owners, Occupied, Upto, Gone
  <2> QED
    BY <2>1, <2>3, <2>4, <2>5, <2>6 DEF Next, Step
<1> QED
  BY <1>1, <1>2, PTL DEF Spec

\* What is left on the board, and from where each of its blocks came, is what
\* Engine.tla and Playfield!clearFilledRows say.
LEMMA DoneIsStated == FullInv => ClearsAsStated
<1>1. SUFFICES ASSUME FullInv, pc = "done"
               PROVE  /\ Occupied = IF hasFilledRow(home)
                                      THEN clearFilledRows(home, checkFilledRows(home))
                                      ELSE home
                      /\ \A c \in home : c.y \notin RowsCleared(rows) => blocks[SunkTo(c)] = c
  BY DEF ClearsAsStated
<1>2. rows = checkFilledRows(home) /\ Owners = Occupied /\ home \subseteq Cells
  BY <1>1 DEF FullInv, Inv, TypeOK, Progress, Owners
<1>3. \A c \in home : c \in Cells /\ c.x \in 0 .. W - 1 /\ c.y \in 0 .. H - 1 /\ c = Vect(c.x, c.y)
  BY <1>2, CellFacts
<1>4. /\ \A r \in RowsCleared(rows) : r \in 0 .. H - 1
      /\ H \in Nat
  BY <1>1, BlockFacts
<1>5. \A v : Sunk(RowsCleared(rows), v, H) = RowsClearedBelow(rows, v)
  <2>1. SUFFICES ASSUME NEW v
                 PROVE  Sunk(RowsCleared(rows), v, H) = RowsClearedBelow(rows, v)
    OBVIOUS
  <2>2. {r \in RowsCleared(rows) : v < r /\ r < H} = {r \in RowsCleared(rows) : r > v}
    BY <1>4
  <2> QED
    BY <2>2 DEF Sunk, RowsClearedBelow
<1>6. alive = {c \in home : c.y \notin RowsCleared(rows)}
  <2>1. alive = {c \in home : c.y \in RowsCleared(rows) => c.y >= H}
    BY <1>1 DEF FullInv, Traced, Gone
  <2>2. \A r \in RowsCleared(rows) : ~(r >= H)
    BY <1>4
  <2> QED
    BY <2>1, <2>2
<1>7. alive = {blocks[c] : c \in Occupied}
  BY <1>1, <1>2 DEF FullInv, Inv, Owned
<1>8. ASSUME NEW d \in Occupied
      PROVE  d = SunkTo(blocks[d])
  <2>1. /\ d \in Cells /\ blocks[d].x = d.x
        /\ d.y = blocks[d].y + Sunk(RowsCleared(rows), blocks[d].y, Upto(d))
    BY <1>1, <1>2, BlockFacts
  <2>2. Upto(d) = H
    BY <1>1 DEF Upto
  <2>3. d = Vect(d.x, d.y)
    BY <2>1, CellFacts
  <2> QED
    BY <1>5, <2>1, <2>2, <2>3 DEF SunkTo
<1>9. \A c \in alive : SunkTo(c) \in Occupied /\ blocks[SunkTo(c)] = c
  <2>1. SUFFICES ASSUME NEW c \in alive
                 PROVE  SunkTo(c) \in Occupied /\ blocks[SunkTo(c)] = c
    OBVIOUS
  <2>2. PICK d \in Occupied : c = blocks[d]
    BY <1>7
  <2> QED
    BY <1>8, <2>2
<1>10. Occupied = {SunkTo(c) : c \in alive}
  BY <1>7, <1>8, <1>9
<1>11. CASE hasFilledRow(home)
  <2>1. clearFilledRows(home, rows) = {SunkTo(c) : c \in alive}
    BY <1>6 DEF clearFilledRows, SunkTo
  <2> QED
    BY <1>2, <1>6, <1>9, <1>10, <1>11, <2>1
<1>12. CASE ~hasFilledRow(home)
  <2>1. RowsCleared(rows) = {}
    BY <1>2, <1>12 DEF RowsCleared, checkFilledRows, hasFilledRow
  <2>2. \A v : RowsClearedBelow(rows, v) = 0
    BY <2>1, FS_EmptySet DEF RowsClearedBelow
  <2>3. \A c \in home : SunkTo(c) = c
    BY <1>3, <1>4, <2>2 DEF SunkTo
  <2>4. alive = home
    BY <1>6, <2>1
  <2>5. Occupied = home
    BY <1>10, <2>3, <2>4
  <2> QED
    BY <1>6, <1>9, <1>12, <2>5
<1> QED
  BY <1>11, <1>12

-----------------------------------------------------------------------------
(* The theorems. *)

\* Every state of the loops is of its types, on boards of every size.
THEOREM TypeCorrect == Spec => []TypeOK
<1>1. Inv => TypeOK
  BY DEF Inv
<1> QED
  BY <1>1, Invariance, PTL

\* No block is deleted twice, used after it was deleted, or lost.
THEOREM HeapIsSound == Spec => []HeapOK
<1>1. Inv => HeapOK
  BY DEF Inv, Owned, Owners, HeapOK
<1> QED
  BY <1>1, Invariance, PTL

\* The vector of filled rows is never stale where the loop uses it.
THEOREM FoundRowsStayTrue == Spec => []RowsNotStale
<1>1. Inv => RowsNotStale
  BY DEF Inv, Ahead, RowsNotStale
<1> QED
  BY <1>1, Invariance, PTL

\* Exactly the blocks of the filled rows below the top row go, and every
\* other block sinks by the number of rows cleared below it.
THEOREM ClearingIsAsStated == Spec => []ClearsAsStated
  BY FullInvariance, DoneIsStated, PTL

=============================================================================
