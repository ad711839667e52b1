------------------------------ MODULE GameLoop ------------------------------
(***************************************************************************)
(* The control of game::run: one pass of its loop is UpdateTimers, one     *)
(* action per key in the input buffer, the lockout block, the gravity      *)
(* block and the sleep.  What the engine answers to a call is a parameter  *)
(* of the action: PieceTimer.tla lets the answers vary, Game.tla takes     *)
(* them from the board.                                                    *)
(*                                                                         *)
(* A timer keeps a time point post and the delta sampled by updateTimers.  *)
(* Here it keeps its age, the time since post, and the sampled delta; both *)
(* are capped at the limit they are compared with.                         *)
(***************************************************************************)
EXTENDS Integers, Sequences

CONSTANTS
  TimeoutMax,  (* timeoutMax of game::run in clock ticks *)
  LockoutMax,  (* lockoutMax of game::run in clock ticks *)
  Binds,       (* the binds the player's keys stand for  *)
  MaxBatch     (* keys waiting in the terminal at a fetch *)

GameBinds == {"GAME_LEFT", "GAME_RIGHT", "GAME_DOWN", "GAME_DROP",
              "GAME_ROTATE", "GAME_QUIT", "NONE"}

ASSUME LoopAssumption ==
  /\ TimeoutMax \in Nat \ {0}
  /\ LockoutMax \in Nat \ {0}
  /\ Binds \subseteq GameBinds
  /\ MaxBatch \in Nat

VARIABLES
  pc,           (* where game::run is                                      *)
  loop,         (* keep running                                            *)
  isLockout,    (* the shape rests and its grace period runs               *)
  hasMoved,     (* the shape moved in this pass                            *)
  timeout,      (* TIMER_TIMEOUT                                           *)
  lockout,      (* TIMER_LOCKOUT                                           *)
  inputBuffer,  (* keys fetched and not yet handled                        *)
  sinceMove,    (* history: ticks since the shape moved, turned or spawned *)
  sinceFall     (* history: ticks since the shape sank, spawned, or came   *)
                (* free again in a lockout                                 *)

loopVars == <<pc, loop, isLockout, hasMoved, timeout, lockout, inputBuffer,
              sinceMove, sinceFall>>

\* The age of a timer whose post is time_point::max().
Never == -1

Tick(age, limit) == IF age = Never \/ age = limit THEN age ELSE age + 1

\* Time passes: the clock every timer reads moves on by one tick.
TimePasses ==
  /\ timeout' = [timeout EXCEPT !.age = Tick(@, TimeoutMax)]
  /\ lockout' = [lockout EXCEPT !.age = Tick(@, LockoutMax)]
  /\ sinceMove' = Tick(sinceMove, LockoutMax)
  /\ sinceFall' = Tick(sinceFall, TimeoutMax)

Restarted == [age |-> 0, delta |-> 0]

Batches == UNION {[1 .. n -> Binds] : n \in 0 .. MaxBatch}

-----------------------------------------------------------------------------

\* initTimers samples TIMER_TIMEOUT against the epoch, which is always past
\* its limit.  Keys typed ahead in the menu are still in the buffer.
LoopInit ==
  /\ pc = "timers"
  /\ loop = TRUE
  /\ isLockout = FALSE
  /\ hasMoved = FALSE
  /\ timeout = [age |-> 0, delta |-> TimeoutMax]
  /\ lockout = [age |-> Never, delta |-> 0]
  /\ inputBuffer \in Batches
  /\ sinceMove = 0
  /\ sinceFall = 0

\* The head of the pass: sample the timers and fetch what the player typed.
UpdateTimers ==
  /\ pc = "timers"
  /\ pc' = "input"
  /\ timeout' = [timeout EXCEPT !.delta = timeout.age]
  /\ lockout' = [lockout EXCEPT !.delta = lockout.age]
  /\ hasMoved' = FALSE
  /\ \E batch \in Batches : inputBuffer' = inputBuffer \o batch
  /\ UNCHANGED <<loop, isLockout, sinceMove, sinceFall>>

Key(bind) ==
  /\ pc = "input"
  /\ inputBuffer # <<>>
  /\ Head(inputBuffer) = bind
  /\ inputBuffer' = Tail(inputBuffer)
  /\ UNCHANGED pc

NoteMove(moved) ==
  /\ sinceMove' = IF moved THEN 0 ELSE sinceMove
  /\ UNCHANGED sinceFall

KeyQuit ==
  /\ Key("GAME_QUIT")
  /\ loop' = FALSE
  /\ UNCHANGED <<isLockout, hasMoved, timeout, lockout, sinceMove, sinceFall>>

\* hasMoved || call: the engine is not called once the shape has moved.
ShortCircuits(moved) == hasMoved => ~moved

KeyLeft(moved) ==
  /\ Key("GAME_LEFT")
  /\ ShortCircuits(moved)
  /\ hasMoved' = (hasMoved \/ moved)
  /\ NoteMove(moved)
  /\ UNCHANGED <<loop, isLockout, timeout, lockout>>

KeyRight(moved) ==
  /\ Key("GAME_RIGHT")
  /\ ShortCircuits(moved)
  /\ hasMoved' = TRUE
  /\ NoteMove(moved)
  /\ UNCHANGED <<loop, isLockout, timeout, lockout>>

KeyRotate(turned) ==
  /\ Key("GAME_ROTATE")
  /\ ShortCircuits(turned)
  /\ hasMoved' = (hasMoved \/ turned)
  /\ NoteMove(turned)
  /\ UNCHANGED <<loop, isLockout, timeout, lockout>>

\* GAME_DOWN, and GAME_DROP which falls through to it; ret is what
\* timeoutAction returned.
KeyDown(bind, ret) ==
  /\ Key(bind)
  /\ loop' = (ret # 1)
  /\ hasMoved' = TRUE
  /\ timeout' = Restarted
  /\ isLockout' = FALSE
  /\ sinceMove' = 0
  /\ sinceFall' = 0
  /\ UNCHANGED lockout

\* A key without a bind in the game map.
KeyOther ==
  /\ Key("NONE")
  /\ UNCHANGED <<loop, isLockout, hasMoved, timeout, lockout, sinceMove, sinceFall>>

InputDone ==
  /\ pc = "input"
  /\ inputBuffer = <<>>
  /\ pc' = "lockout"
  /\ UNCHANGED <<loop, isLockout, hasMoved, timeout, lockout, inputBuffer,
                 sinceMove, sinceFall>>

-----------------------------------------------------------------------------
(* The lockout block. *)

\* Mutant: a move does not restart the grace period.
GraceTimerKept == lockout

\* The lockout timer after a move restarted the grace period.
GraceTimer == IF hasMoved THEN Restarted ELSE lockout

\* Mutants: not primed, only its post primed, TIMER_LOCKOUT's post given to it.
TimeoutNotPrimed == timeout

TimeoutHalfPrimed == [timeout EXCEPT !.age = 0]

TimeoutPrimedNever == [timeout EXCEPT !.age = Never]

\* "Prime the timeout timer so the shape doesn't plummet."
PrimedTimeout == Restarted

GraceOver == GraceTimer.delta >= LockoutMax

NoLockout ==
  /\ pc = "lockout"
  /\ ~isLockout
  /\ pc' = "gravity"
  /\ UNCHANGED <<loop, isLockout, hasMoved, timeout, lockout, inputBuffer,
                 sinceMove, sinceFall>>

\* Mutant: the lockout holds although the shape can fall again.
LockoutHoldsInAir(canFall) ==
  /\ pc = "lockout"
  /\ isLockout
  /\ ~GraceOver
  /\ pc' = "gravity"
  /\ lockout' = GraceTimer
  /\ UNCHANGED <<loop, isLockout, hasMoved, timeout, inputBuffer, sinceMove, sinceFall>>

LockoutHolds(canFall) ==
  /\ pc = "lockout"
  /\ isLockout
  /\ ~GraceOver
  /\ ~canFall
  /\ pc' = "gravity"
  /\ lockout' = GraceTimer
  /\ UNCHANGED <<loop, isLockout, hasMoved, timeout, inputBuffer, sinceMove, sinceFall>>

\* The lockout ends because the shape can fall again or the grace period is
\* over; in the second case the caller also locks the shape, and what
\* timeoutAction returns is dropped.
LockoutEnds(canFall) ==
  /\ pc = "lockout"
  /\ isLockout
  /\ GraceOver \/ canFall
  /\ pc' = "gravity"
  /\ isLockout' = FALSE
  /\ lockout' = [GraceTimer EXCEPT !.age = Never]
  /\ timeout' = PrimedTimeout
  /\ sinceMove' = IF canFall THEN sinceMove ELSE 0
  /\ sinceFall' = 0
  /\ UNCHANGED <<loop, hasMoved, inputBuffer>>

-----------------------------------------------------------------------------
(* The gravity block. *)

TimedOut == timeout.delta >= TimeoutMax

GravityWaits ==
  /\ pc = "gravity"
  /\ ~TimedOut
  /\ pc' = "sleep"
  /\ UNCHANGED <<loop, isLockout, hasMoved, timeout, lockout, inputBuffer,
                 sinceMove, sinceFall>>

\* Every pass that timed out leaves the block through the restart of the
\* timer's post; its delta keeps the old sample until the next pass.
GravityFires ==
  /\ pc = "gravity"
  /\ TimedOut
  /\ pc' = "sleep"
  /\ timeout' = [timeout EXCEPT !.age = 0]
  /\ UNCHANGED <<hasMoved, inputBuffer>>

\* Mutant: no look at whether the shape can fall.
GravitySinksAnyway(canFall, ret) ==
  /\ GravityFires
  /\ ~isLockout
  /\ loop' = (ret # 1)
  /\ sinceMove' = 0
  /\ sinceFall' = 0
  /\ UNCHANGED <<isLockout, lockout>>

GravitySinks(canFall, ret) ==
  /\ GravityFires
  /\ ~isLockout
  /\ canFall
  /\ loop' = (ret # 1)
  /\ sinceMove' = 0
  /\ sinceFall' = 0
  /\ UNCHANGED <<isLockout, lockout>>

\* Mutant: not primed.
LockoutNotPrimed == lockout

\* "Prime the lockout timer."
PrimedLockout == [lockout EXCEPT !.age = 0]

GravityStartsLockout(canFall) ==
  /\ GravityFires
  /\ ~isLockout
  /\ ~canFall
  /\ isLockout' = TRUE
  /\ lockout' = PrimedLockout
  /\ UNCHANGED <<loop, sinceMove, sinceFall>>

GravityInLockout ==
  /\ GravityFires
  /\ isLockout
  /\ UNCHANGED <<loop, isLockout, lockout, sinceMove, sinceFall>>

-----------------------------------------------------------------------------

\* sleep_for a millisecond, then the loop condition.
Sleep ==
  /\ pc = "sleep"
  /\ pc' = IF loop THEN "timers" ELSE "done"
  /\ TimePasses
  /\ UNCHANGED <<loop, isLockout, hasMoved, inputBuffer>>

\* Drawing to a slow terminal, or the scheduler, takes time anywhere else.
Delay ==
  /\ pc \notin {"sleep", "done"}
  /\ TimePasses
  /\ UNCHANGED <<pc, loop, isLockout, hasMoved, inputBuffer>>

LoopTypeOK ==
  /\ pc \in {"timers", "input", "lockout", "gravity", "sleep", "done"}
  /\ loop \in BOOLEAN
  /\ isLockout \in BOOLEAN
  /\ hasMoved \in BOOLEAN
  /\ timeout \in [age : 0 .. TimeoutMax, delta : 0 .. TimeoutMax]
  /\ lockout \in [age : Never .. LockoutMax, delta : Never .. LockoutMax]
  /\ inputBuffer \in Seq(Binds)
  /\ sinceMove \in 0 .. LockoutMax
  /\ sinceFall \in 0 .. TimeoutMax
=============================================================================
