-------------------------------- MODULE Game --------------------------------
(***************************************************************************)
(* game::run: the loop of GameLoop.tla with the engine of Engine.tla.      *)
(* Every action is one action of the loop together with the engine call    *)
(* it makes, if any.                                                       *)
(***************************************************************************)
EXTENDS Engine, GameLoop

vars == <<loopVars, engineVars>>

-----------------------------------------------------------------------------

Init == LoopInit /\ EngineInit

\* A left, right or rotate key calls the engine unless an earlier key of the
\* pass has moved the shape.
Left ==
  \E moved \in BOOLEAN :
    /\ KeyLeft(moved)
    /\ IF hasMoved THEN UNCHANGED engineVars ELSE movePolyno(Vect(-1, 0), moved)

Right ==
  \E moved \in BOOLEAN :
    /\ KeyRight(moved)
    /\ IF hasMoved THEN UNCHANGED engineVars ELSE movePolyno(Vect(1, 0), moved)

Turn ==
  \E turned \in BOOLEAN :
    /\ KeyRotate(turned)
    /\ IF hasMoved THEN UNCHANGED engineVars ELSE rotate(turned)

SinkKey == \E ret \in {0, 1} : KeyDown("GAME_DOWN", ret) /\ timeoutAction(ret)

DropKey == \E ret \in {0, 1} : KeyDown("GAME_DROP", ret) /\ dropThenTimeout(ret)

ComesFree == LockoutEnds(TRUE) /\ CanFall /\ UNCHANGED engineVars

LocksAfterGrace ==
  /\ LockoutEnds(FALSE)
  /\ ~CanFall
  /\ \E ret \in {0, 1} : timeoutAction(ret)

\* Mutant: gravity acts on a resting shape too.
SinksAnyway == \E ret \in {0, 1} : GravitySinks(TRUE, ret) /\ timeoutAction(ret)

Sinks == \E ret \in {0, 1} : GravitySinks(CanFall, ret) /\ timeoutAction(ret)

Control ==
  /\ \/ UpdateTimers
     \/ KeyQuit
     \/ KeyOther
     \/ InputDone
     \/ NoLockout
     \/ LockoutHolds(CanFall)
     \/ GravityWaits
     \/ GravityStartsLockout(CanFall)
     \/ GravityInLockout
     \/ Sleep
     \/ Delay
  /\ UNCHANGED engineVars

Ended == pc = "done" \/ corrupt

Next ==
  \/ ~corrupt /\ Left
  \/ ~corrupt /\ Right
  \/ ~corrupt /\ Turn
  \/ ~corrupt /\ SinkKey
  \/ ~corrupt /\ DropKey
  \/ ~corrupt /\ ComesFree
  \/ ~corrupt /\ LocksAfterGrace
  \/ ~corrupt /\ Sinks
  \/ ~corrupt /\ Control
  \/ Ended /\ UNCHANGED vars

Spec == Init /\ [][Next]_vars

-----------------------------------------------------------------------------
(* Properties. *)

\* How many rows the shape can still sink, as PieceTimer keeps it.
FallDistance ==
  CASE corrupt        -> -2
    [] ~corrupt /\ ~Placed(shape) -> -1
    [] OTHER          -> CHOOSE k \in 0 .. H : DropsBy(k)

Abstract == INSTANCE PieceTimer WITH fall <- FallDistance, MaxFall <- H

\* The game with its board behaves as PieceTimer says, whatever the shapes
\* and the board: so what holds there of locking, gravity and quitting holds
\* of the game.
ImplementsPieceTimer == Abstract!Safe

\* game.cpp:84 calls a spawn that does not fit the end of the game: no pass
\* ends with an unplaced shape and the loop still running.
GameOverEndsGame == pc = "sleep" /\ ~corrupt /\ ~Placed(shape) => ~loop

\* A game over that a down or drop key has noticed is not taken back: the loop
\* ends, whichever keys are still to be read in the pass (game.cpp:84, :153).
GameOverIsFinal == [][~corrupt /\ ~loop /\ ~Placed(shape) => ~loop']_vars

=============================================================================
