------------------------------ MODULE RowClear ------------------------------
(***************************************************************************)
(* Row clearing with the block pointers: the end of timeoutAction, with    *)
(* checkFilledRows, clearFilledRows and clearRow as the loops they are.    *)
(* Engine.tla takes the whole call in one step and only keeps which cells  *)
(* are occupied; here every block has an identity, rows are shared for a   *)
(* moment while they are copied, and blocks are deleted by hand.           *)
(***************************************************************************)
EXTENDS Playfield

VARIABLES
  pc,      (* where the thread is                                     *)
  blocks,  (* p->blocks: a block or Null for every cell               *)
  alive,   (* blocks allocated and not yet deleted                    *)
  rows,    (* the vector checkFilledRows returned                     *)
  i,       (* loop index of clearFilledRows                           *)
  y,       (* loop index of clearRow                                  *)
  home     (* history: the occupied cells when timeoutAction was here *)

vars == <<pc, blocks, alive, rows, i, y, home>>

\* A block is named by the cell it stood on.
Null == Vect(-1, -1)

Occupied == {c \in Cells : blocks[c] # Null}

-----------------------------------------------------------------------------

Init ==
  /\ pc = "check"
  /\ home \in SUBSET Cells
  /\ blocks = [c \in Cells |-> IF c \in home THEN c ELSE Null]
  /\ alive = home
  /\ rows = [r \in Rows |-> FALSE]
  /\ i = 0
  /\ y = 0

\* if (hasFilledRow(p)) with checkFilledRows(p)
CheckRows ==
  /\ pc = "check"
  /\ pc' = IF hasFilledRow(Occupied) THEN "scan" ELSE "done"
  /\ rows' = checkFilledRows(Occupied)
  /\ UNCHANGED <<blocks, alive, i, y, home>>

\* An iteration of clearFilledRows on a row that was not filled.
SkipRow ==
  /\ pc = "scan"
  /\ i < H
  /\ ~rows[i]
  /\ i' = i + 1
  /\ UNCHANGED <<pc, blocks, alive, rows, y, home>>

\* Mutants: the row after the filled one; the whole board sinks.
CallClearNextRow ==
  /\ pc = "scan"
  /\ i < H
  /\ rows[i]
  /\ pc' = "clear"
  /\ y' = i + 1
  /\ UNCHANGED <<blocks, alive, rows, i, home>>

CallClearBoard ==
  /\ pc = "scan"
  /\ i < H
  /\ rows[i]
  /\ pc' = "clear"
  /\ y' = H - 1
  /\ UNCHANGED <<blocks, alive, rows, i, home>>

CallClearRow ==
  /\ pc = "scan"
  /\ i < H
  /\ rows[i]
  /\ pc' = "clear"
  /\ y' = i
  /\ UNCHANGED <<blocks, alive, rows, i, home>>

ScanDone ==
  /\ pc = "scan"
  /\ i = H
  /\ pc' = "done"
  /\ UNCHANGED <<blocks, alive, rows, i, y, home>>

\* Mutant: the row is overwritten and its blocks leak.
ForgetRow ==
  /\ pc = "clear"
  /\ y >= 1
  /\ pc' = "copy"
  /\ blocks' = [c \in Cells |-> IF c.y = y THEN Null ELSE blocks[c]]
  /\ UNCHANGED <<alive, rows, i, y, home>>

\* deleteBlock on every cell of row y.
DeleteRow ==
  /\ pc = "clear"
  /\ y >= 1
  /\ pc' = "copy"
  /\ alive' = alive \ {blocks[c] : c \in {d \in Cells : d.y = y}}
  /\ blocks' = [c \in Cells |-> IF c.y = y THEN Null ELSE blocks[c]]
  /\ UNCHANGED <<rows, i, y, home>>

\* p->blocks[y] = p->blocks[y - 1] copies the pointers.
CopyRow ==
  /\ pc = "copy"
  /\ pc' = "empty"
  /\ blocks' = [c \in Cells |-> IF c.y = y THEN blocks[Vect(c.x, y - 1)] ELSE blocks[c]]
  /\ UNCHANGED <<alive, rows, i, y, home>>

\* Mutants: the row above keeps its pointers; the loop index stays.
KeepRow ==
  /\ pc = "empty"
  /\ pc' = "clear"
  /\ y' = y - 1
  /\ UNCHANGED <<blocks, alive, rows, i, home>>

EmptySameRow ==
  /\ pc = "empty"
  /\ pc' = "clear"
  /\ blocks' = [c \in Cells |-> IF c.y = y - 1 THEN Null ELSE blocks[c]]
  /\ UNCHANGED <<alive, rows, i, y, home>>

EmptyRow ==
  /\ pc = "empty"
  /\ pc' = "clear"
  /\ blocks' = [c \in Cells |-> IF c.y = y - 1 THEN Null ELSE blocks[c]]
  /\ y' = y - 1
  /\ UNCHANGED <<alive, rows, i, home>>

ClearRowReturns ==
  /\ pc = "clear"
  /\ y < 1
  /\ pc' = "scan"
  /\ i' = i + 1
  /\ UNCHANGED <<blocks, alive, rows, y, home>>

Step ==
  \/ CheckRows
  \/ SkipRow
  \/ CallClearRow
  \/ ScanDone
  \/ DeleteRow
  \/ CopyRow
  \/ EmptyRow
  \/ ClearRowReturns

Next == Step \/ (pc = "done" /\ UNCHANGED vars)

\* Sequential code that nothing blocks.
Spec == Init /\ [][Next]_vars /\ WF_vars(Step)

-----------------------------------------------------------------------------
(* Properties. *)

TypeOK ==
  /\ pc \in {"check", "scan", "clear", "copy", "empty", "done"}
  /\ blocks \in [Cells -> Cells \cup {Null}]
  /\ alive \subseteq Cells
  /\ rows \in [Rows -> BOOLEAN]
  /\ i \in 0 .. H
  /\ y \in Rows
  /\ home \subseteq Cells

\* Between the iterations no block is on two cells, which would delete it
\* twice later, none on the board is deleted, and none that is not deleted
\* has left the board, which would leak it.
HeapOK ==
  pc \in {"check", "scan", "clear", "done"} =>
    /\ \A c, d \in Occupied : blocks[c] = blocks[d] => c = d
    /\ alive = {blocks[c] : c \in Occupied}

\* The vector of filled rows was taken before the first row was cleared.
\* Clearing moves rows, yet what it says of the rows still to visit stays
\* true: this is why the loop has to run downwards on the board.
RowsNotStale ==
  pc = "scan" => \A r \in i .. H - 1 : rows[r] = RowFilled(Occupied, r)

\* Playfield!clearFilledRows and Engine.tla say with a formula what these
\* loops leave on the board, and every block that stays is the one that
\* stood higher up in the same column, so it keeps its colour.
SunkTo(c) == Vect(c.x, c.y + RowsClearedBelow(rows, c.y))

ClearsAsStated ==
  pc = "done" =>
    /\ Occupied = IF hasFilledRow(home)
                    THEN clearFilledRows(home, checkFilledRows(home))
                    ELSE home
    /\ \A c \in home : c.y \notin RowsCleared(rows) => blocks[SunkTo(c)] = c

\* Both loops end on every board.
Terminates == <>(pc = "done")
=============================================================================
