----------------------------- MODULE PieceTimer -----------------------------
(***************************************************************************)
(* When does a piece sink, rest and lock?  The loop of game::run over an   *)
(* engine of which only one number is kept: how many rows the falling      *)
(* shape can still sink.  A move or a turn may change it to anything, a    *)
(* spawn may be refused.  Game.tla implements this module with the board.  *)
(***************************************************************************)
EXTENDS GameLoop

CONSTANT MaxFall  (* rows a shape can sink at most *)

ASSUME FallAssumption == MaxFall \in Nat

VARIABLE fall  (* rows the shape can still sink, or one of the two below *)

vars == <<loopVars, fall>>

Unplaced == -1  (* the shape did not fit when it was spawned             *)
Corrupt  == -2  (* blocks were written outside the board (engine.cpp:250) *)

Falls == 0 .. MaxFall

CanFall == fall > 0

Placed == fall # Unplaced

Running == fall # Corrupt

-----------------------------------------------------------------------------
(* What the engine may answer and do. *)

\* A move of a shape that is not on the board is always refused.
Moves(moved) ==
  /\ moved => Placed
  /\ fall' \in IF moved THEN Falls ELSE {fall}

\* rotate puts a refused shape back where it was: off the board.
Turns(turned) ==
  IF Placed \/ hasMoved
    THEN Moves(turned)
    ELSE fall' = Corrupt /\ ~turned

\* A shape locked and the next one was spawned, if it fits.
Respawns(ret) ==
  \/ ret = 0 /\ fall' \in Falls
  \/ ret = 1 /\ fall' = Unplaced

SinksOneRow == CanFall /\ fall' = fall - 1

timeoutAction(ret) ==
  \/ SinksOneRow /\ ret = 0
  \/ ~CanFall /\ Respawns(ret)

-----------------------------------------------------------------------------

Init == LoopInit /\ fall \in Falls

Left == \E moved \in BOOLEAN : KeyLeft(moved) /\ Moves(moved)

Right == \E moved \in BOOLEAN : KeyRight(moved) /\ Moves(moved)

Rotate == \E turned \in BOOLEAN : KeyRotate(turned) /\ Turns(turned)

Down == \E ret \in {0, 1} : KeyDown("GAME_DOWN", ret) /\ timeoutAction(ret)

Drop == \E ret \in {0, 1} : KeyDown("GAME_DROP", ret) /\ Respawns(ret)

ComesFree == CanFall /\ LockoutEnds(TRUE) /\ UNCHANGED fall

LocksAfterGrace ==
  /\ ~CanFall
  /\ LockoutEnds(FALSE)
  /\ \E ret \in {0, 1} : Respawns(ret)

Sinks == \E ret \in {0, 1} : GravitySinks(CanFall, ret) /\ timeoutAction(ret)

Control ==
  /\ \/ UpdateTimers
     \/ KeyQuit
     \/ KeyOther
     \/ InputDone
     \/ NoLockout
     \/ LockoutHolds(CanFall)
     \/ GravityWaits
     \/ GravityStartsLockout(CanFall)
     \/ GravityInLockout
     \/ Sleep
  /\ UNCHANGED fall

LoopStep ==
  /\ Running
  /\ \/ Left
     \/ Right
     \/ Rotate
     \/ Down
     \/ Drop
     \/ ComesFree
     \/ LocksAfterGrace
     \/ Sinks
     \/ Control

Wait == Running /\ Delay /\ UNCHANGED fall

\* game::run returned, or its behaviour is undefined.
Ended == pc = "done" \/ ~Running

Stopped == Ended /\ UNCHANGED vars

Next == LoopStep \/ Wait \/ Stopped

Safe == Init /\ [][Next]_vars

\* The loop is one thread that nothing blocks: it keeps taking steps, and
\* the clock advances at least while it sleeps.
Spec == Safe /\ WF_vars(LoopStep)

-----------------------------------------------------------------------------
(* Properties. *)

TypeOK == LoopTypeOK /\ fall \in Falls \cup {Unplaced, Corrupt}

\* While a shape rests, the lockout timer runs: it was primed when the rest
\* began (game.cpp:208) and is not left at time_point::max() by an earlier
\* rest, so the rest can end.
LockoutPrimed == isLockout => lockout.age # Never

\* Once the lockout block has been passed, a shape the flag says is resting
\* does rest: the flag survives whole passes, and the keys of each pass may
\* have freed the shape in between.
LockoutRests == isLockout /\ pc \in {"gravity", "sleep", "timers"} => ~CanFall

\* A shape locks without the player's doing only after it has rested for the
\* whole grace period since it last moved, turned or was spawned, whichever
\* keys came in between and however late the timers were sampled.
GracePeriod ==
  [][LocksAfterGrace => sinceMove >= LockoutMax]_vars

\* Gravity moves a shape only when a full timeout has passed since it last
\* sank, was spawned, or came free after a rest: it never plummets
\* (game.cpp:190).
NoPlummet == [][Sinks => sinceFall >= TimeoutMax]_vars

\* Gravity alone never locks: in the gravity block the shape sinks one row
\* or stays, it is never exchanged for the next one.  Locking is left to the
\* player and to the lockout, though the block calls the same timeoutAction
\* that locks.
GravityNeverLocks ==
  [][pc = "gravity" => UNCHANGED fall \/ SinksOneRow]_vars

\* Once the player stops typing, shapes go on locking for ever unless the
\* game ends: no combination of a stale timer and the two flags leaves a
\* shape hanging.
Settles ==
  <>[](inputBuffer = <<>>) => ([]<><<LocksAfterGrace>>_vars \/ <>Ended)

\* A quit that no key of the same batch overwrites ends the game, unless the
\* gravity block is about to sink the shape: also when the shape locks in the
\* same pass and the next one is spawned free, with the old timeout sampled
\* (game.cpp:192).
QuitEnds ==
  (pc = "lockout" /\ ~loop /\ (TimedOut /\ CanFall => isLockout)) ~> Ended

=============================================================================
