-------------------------- MODULE PieceTimerProofs --------------------------
(***************************************************************************)
(* The safety properties of PieceTimer.tla, for every timeout, lockout,    *)
(* set of keys, batch size and board height.                               *)
(***************************************************************************)
EXTENDS PieceTimer, TLAPS

\* A timer never claims more time than has really passed: what it sampled at
\* the head of the pass is at most its age now, and its age at most the time
\* since the event it stands for.  Which of the two flags say that the sample
\* is still meaningful depends on where the loop is.
TimersHonest ==
  /\ timeout.age <= sinceFall
  /\ pc \in {"input", "lockout", "gravity"} => timeout.delta <= timeout.age
  /\ pc \in {"input", "lockout"} /\ isLockout /\ ~hasMoved =>
       lockout.delta <= lockout.age /\ lockout.age <= sinceMove
  /\ pc \in {"gravity", "sleep", "timers"} /\ isLockout =>
       lockout.age <= sinceMove

Inv == TypeOK /\ TimersHonest /\ LockoutPrimed /\ LockoutRests

-----------------------------------------------------------------------------

\* The model starts with honest timers.
LEMMA InitInv == Init => Inv
<1> SUFFICES ASSUME Init PROVE Inv
  OBVIOUS
<1>1. inputBuffer \in Seq(Binds)
  BY LoopAssumption DEF Init, LoopInit, Batches
<1>2. TypeOK
  <2>1. timeout \in [age : 0 .. TimeoutMax, delta : 0 .. TimeoutMax]
    BY LoopAssumption DEF Init, LoopInit
  <2>2. lockout \in [age : Never .. LockoutMax, delta : Never .. LockoutMax]
    BY LoopAssumption DEF Init, LoopInit, Never
  <2>3. sinceMove \in 0 .. LockoutMax /\ sinceFall \in 0 .. TimeoutMax /\ fall \in Falls
    BY LoopAssumption DEF Init, LoopInit
  <2>4. loop \in BOOLEAN /\ isLockout \in BOOLEAN /\ hasMoved \in BOOLEAN
    BY DEF Init, LoopInit
  <2> QED
    BY <1>1, <2>1, <2>2, <2>3, <2>4 DEF Init, LoopInit, TypeOK, LoopTypeOK
<1> QED
  BY <1>2, LoopAssumption DEF Init, LoopInit, Inv, TimersHonest, LockoutPrimed, LockoutRests

\* No step of the loop, the clock or the environment leaves the types.
LEMMA TypeStep == TypeOK /\ [Next]_vars => TypeOK'
<1> SUFFICES ASSUME TypeOK, [Next]_vars PROVE TypeOK'
  OBVIOUS
<1> USE LoopAssumption, FallAssumption DEF TypeOK, LoopTypeOK, Never, Falls
<1>k. ASSUME NEW bind, Key(bind)
      PROVE  inputBuffer' \in Seq(Binds) /\ pc' \in {"timers", "input", "lockout", "gravity", "sleep", "done"}
  BY <1>k DEF Key
<1>r. /\ Restarted \in [age : 0 .. TimeoutMax, delta : 0 .. TimeoutMax]
      /\ Restarted \in [age : Never .. LockoutMax, delta : Never .. LockoutMax]
  BY DEF Restarted
<1>g. GraceTimer \in [age : Never .. LockoutMax, delta : Never .. LockoutMax]
  BY <1>r DEF GraceTimer
<1>e. ASSUME LockoutEnds(TRUE) \/ LockoutEnds(FALSE)
      PROVE  LoopTypeOK'
  <2>1. lockout' \in [age : Never .. LockoutMax, delta : Never .. LockoutMax]
    BY <1>e, <1>g DEF LockoutEnds
  <2>2. sinceMove' \in 0 .. LockoutMax /\ sinceFall' \in 0 .. TimeoutMax
    BY <1>e DEF LockoutEnds
  <2>3. timeout' \in [age : 0 .. TimeoutMax, delta : 0 .. TimeoutMax]
    BY <1>e, <1>r DEF LockoutEnds, PrimedTimeout
  <2>4. /\ pc' = "gravity" /\ isLockout' = FALSE
        /\ UNCHANGED <<loop, hasMoved, inputBuffer>>
    BY <1>e DEF LockoutEnds
  <2> QED
    BY <2>1, <2>2, <2>3, <2>4
<1>a. ASSUME TimePasses
      PROVE  /\ timeout' \in [age : 0 .. TimeoutMax, delta : 0 .. TimeoutMax]
             /\ lockout' \in [age : Never .. LockoutMax, delta : Never .. LockoutMax]
             /\ sinceMove' \in 0 .. LockoutMax
             /\ sinceFall' \in 0 .. TimeoutMax
  <2>1. /\ Tick(timeout.age, TimeoutMax) \in 0 .. TimeoutMax
        /\ Tick(lockout.age, LockoutMax) \in Never .. LockoutMax
        /\ Tick(sinceMove, LockoutMax) \in 0 .. LockoutMax
        /\ Tick(sinceFall, TimeoutMax) \in 0 .. TimeoutMax
    BY DEF Tick
  <2> QED
    BY <1>a, <2>1 DEF TimePasses
<1>d. ASSUME NEW bind, NEW ret, KeyDown(bind, ret)
      PROVE  LoopTypeOK'
  <2>1. loop' \in BOOLEAN
    BY <1>d DEF KeyDown
  <2>2. pc' = "input" /\ inputBuffer' \in Seq(Binds)
    BY <1>d DEF KeyDown, Key
  <2>3. timeout' \in [age : 0 .. TimeoutMax, delta : 0 .. TimeoutMax]
    BY <1>d, <1>r DEF KeyDown
  <2>4. /\ hasMoved' = TRUE /\ isLockout' = FALSE
        /\ lockout' = lockout
    BY <1>d DEF KeyDown
  <2>5. sinceMove' \in 0 .. LockoutMax /\ sinceFall' \in 0 .. TimeoutMax
    BY <1>d DEF KeyDown
  <2> QED
    BY <2>1, <2>2, <2>3, <2>4, <2>5
<1>1. CASE Left
  BY <1>1, <1>k DEF Left, KeyLeft, NoteMove, Moves
<1>2. CASE Right
  BY <1>2, <1>k DEF Right, KeyRight, NoteMove, Moves
<1>3. CASE Rotate
  BY <1>3, <1>k DEF Rotate, KeyRotate, NoteMove, Moves, Turns
<1>4. CASE Down
  <2>1. fall' \in Falls \cup {Unplaced, Corrupt}
    BY <1>4 DEF Down, timeoutAction, SinksOneRow, CanFall, Respawns, Unplaced, Corrupt
  <2> QED
    BY <1>4, <1>d, <2>1 DEF Down
<1>5. CASE Drop
  BY <1>5, <1>d DEF Drop, Respawns
<1>6. CASE ComesFree
  BY <1>6, <1>e DEF ComesFree
<1>7. CASE LocksAfterGrace
  BY <1>7, <1>e DEF LocksAfterGrace, Respawns
<1>8. CASE Sinks
  <2>1. fall' \in Falls \cup {Unplaced, Corrupt}
    BY <1>8 DEF Sinks, timeoutAction, SinksOneRow, CanFall, Respawns, Unplaced, Corrupt
  <2>2. timeout' \in [age : 0 .. TimeoutMax, delta : 0 .. TimeoutMax]
    BY <1>8 DEF Sinks, GravitySinks, GravityFires
  <2>3. loop' \in BOOLEAN
    BY <1>8 DEF Sinks, GravitySinks
  <2>4. /\ pc' = "sleep" /\ sinceMove' = 0 /\ sinceFall' = 0
        /\ UNCHANGED <<isLockout, lockout, hasMoved, inputBuffer>>
    BY <1>8 DEF Sinks, GravitySinks, GravityFires
  <2> QED
    BY <2>1, <2>2, <2>3, <2>4
<1>9. CASE Control
  <2>1. CASE UpdateTimers
    <3>1. inputBuffer' \in Seq(Binds)
      <4>1. PICK batch \in Batches : inputBuffer' = inputBuffer \o batch
        BY <2>1 DEF UpdateTimers
      <4>2. batch \in Seq(Binds)
        BY <4>1 DEF Batches
      <4> QED
        BY <4>1, <4>2
    <3>2. /\ timeout' \in [age : 0 .. TimeoutMax, delta : 0 .. TimeoutMax]
          /\ lockout' \in [age : Never .. LockoutMax, delta : Never .. LockoutMax]
      BY <2>1 DEF UpdateTimers
    <3> QED
      BY <1>9, <2>1, <3>1, <3>2 DEF Control, UpdateTimers
  <2>2. CASE KeyQuit
    BY <1>9, <2>2, <1>k DEF Control, KeyQuit
  <2>3. CASE KeyOther
    BY <1>9, <2>3, <1>k DEF Control, KeyOther
  <2>4. CASE InputDone
    BY <1>9, <2>4 DEF Control, InputDone
  <2>5. CASE NoLockout
    BY <1>9, <2>5 DEF Control, NoLockout
  <2>6. CASE LockoutHolds(CanFall)
    BY <1>9, <1>g, <2>6 DEF Control, LockoutHolds
  <2>7. CASE GravityWaits
    BY <1>9, <2>7 DEF Control, GravityWaits
  <2>8. CASE GravityStartsLockout(CanFall)
    BY <1>9, <2>8 DEF Control, GravityStartsLockout, PrimedLockout, GravityFires
  <2>9. CASE GravityInLockout
    BY <1>9, <2>9 DEF Control, GravityInLockout, GravityFires
  <2>10. CASE Sleep
    BY <1>9, <1>a, <2>10 DEF Control, Sleep
  <2> QED
    BY <1>9, <2>1, <2>2, <2>3, <2>4, <2>5, <2>6, <2>7, <2>8, <2>9, <2>10 DEF Control
<1>10. CASE Wait
  BY <1>10, <1>a DEF Wait, Delay
<1>11. CASE UNCHANGED vars
  BY <1>11 DEF vars, loopVars
<1> QED
  BY <1>1, <1>2, <1>3, <1>4, <1>5, <1>6, <1>7, <1>8, <1>9, <1>10, <1>11
  DEF Next, LoopStep, Stopped

\* The clock moves every age on alike, so none overtakes another.
LEMMA TicksInStep ==
  ASSUME NEW limit \in Nat, NEW a \in -1 .. limit, NEW b \in 0 .. limit
  PROVE  /\ a <= b => Tick(a, limit) <= Tick(b, limit)
         /\ a <= Tick(a, limit)
         /\ a # Never => Tick(a, limit) # Never
  BY DEF Tick, Never

\* Every step keeps the timers honest and the flag in line with the board.
LEMMA StepInv == Inv /\ [Next]_vars => Inv'
<1> SUFFICES ASSUME Inv, [Next]_vars PROVE Inv'
  OBVIOUS
<1>t. TypeOK'
  BY TypeStep DEF Inv
<1> USE LoopAssumption DEF Inv, TypeOK, LoopTypeOK, TimersHonest, LockoutPrimed, LockoutRests, CanFall
<1>p. ASSUME TimePasses
      PROVE  /\ timeout.age <= timeout'.age /\ timeout'.delta = timeout.delta
             /\ lockout.age <= lockout'.age /\ lockout'.delta = lockout.delta
             /\ timeout'.age <= sinceFall'
             /\ lockout.age <= sinceMove => lockout'.age <= sinceMove'
             /\ lockout.age # Never => lockout'.age # Never
  <2>1. /\ timeout' = [timeout EXCEPT !.age = Tick(timeout.age, TimeoutMax)]
        /\ lockout' = [lockout EXCEPT !.age = Tick(lockout.age, LockoutMax)]
        /\ sinceMove' = Tick(sinceMove, LockoutMax)
        /\ sinceFall' = Tick(sinceFall, TimeoutMax)
    BY <1>p DEF TimePasses
  <2>2. /\ timeout'.age = Tick(timeout.age, TimeoutMax) /\ timeout'.delta = timeout.delta
        /\ lockout'.age = Tick(lockout.age, LockoutMax) /\ lockout'.delta = lockout.delta
    BY <2>1
  <2>3. /\ timeout.age \in -1 .. TimeoutMax /\ sinceFall \in 0 .. TimeoutMax
        /\ lockout.age \in -1 .. LockoutMax /\ sinceMove \in 0 .. LockoutMax
    BY DEF Never
  <2> QED
    BY <2>1, <2>2, <2>3, TicksInStep
<1>1. CASE Left
  BY <1>t, <1>1 DEF Left, KeyLeft, Key, NoteMove
<1>2. CASE Right
  BY <1>t, <1>2 DEF Right, KeyRight, Key, NoteMove
<1>3. CASE Rotate
  BY <1>t, <1>3 DEF Rotate, KeyRotate, Key, NoteMove
<1>4. CASE Down
  BY <1>t, <1>4 DEF Down, KeyDown, Key, Restarted
<1>5. CASE Drop
  BY <1>t, <1>5 DEF Drop, KeyDown, Key, Restarted
<1>6. CASE ComesFree
  BY <1>t, <1>6 DEF ComesFree, LockoutEnds, PrimedTimeout, Restarted
<1>7. CASE LocksAfterGrace
  BY <1>t, <1>7 DEF LocksAfterGrace, LockoutEnds, PrimedTimeout, Restarted
<1>8. CASE Sinks
  BY <1>t, <1>8 DEF Sinks, GravitySinks, GravityFires
<1>9. CASE Control
  <2>1. CASE UpdateTimers
    BY <1>t, <1>9, <2>1 DEF Control, UpdateTimers
  <2>2. CASE KeyQuit
    BY <1>t, <1>9, <2>2 DEF Control, KeyQuit, Key
  <2>3. CASE KeyOther
    BY <1>t, <1>9, <2>3 DEF Control, KeyOther, Key
  <2>4. CASE InputDone
    BY <1>t, <1>9, <2>4 DEF Control, InputDone
  <2>5. CASE NoLockout
    BY <1>t, <1>9, <2>5 DEF Control, NoLockout
  <2>6. CASE LockoutHolds(CanFall)
    BY <1>t, <1>9, <2>6 DEF Control, LockoutHolds, GraceTimer, Restarted, Never
  <2>7. CASE GravityWaits
    BY <1>t, <1>9, <2>7 DEF Control, GravityWaits
  <2>8. CASE GravityStartsLockout(CanFall)
    BY <1>t, <1>9, <2>8 DEF Control, GravityStartsLockout, PrimedLockout, GravityFires, Never
  <2>9. CASE GravityInLockout
    BY <1>t, <1>9, <2>9 DEF Control, GravityInLockout, GravityFires
  <2>10. CASE Sleep
    BY <1>t, <1>9, <1>p, <2>10 DEF Control, Sleep
  <2> QED
    BY <1>9, <2>1, <2>2, <2>3, <2>4, <2>5, <2>6, <2>7, <2>8, <2>9, <2>10 DEF Control
<1>10. CASE Wait
  BY <1>t, <1>10, <1>p DEF Wait, Delay
<1>11. CASE UNCHANGED vars
  BY <1>t, <1>11 DEF vars, loopVars
<1> QED
  BY <1>1, <1>2, <1>3, <1>4, <1>5, <1>6, <1>7, <1>8, <1>9, <1>10, <1>11
  DEF Next, LoopStep, Stopped

\* The honest timers hold in every behaviour.
THEOREM AlwaysInv == Safe => []Inv
  BY InitInv, StepInv, PTL DEF Safe

-----------------------------------------------------------------------------

\* Every state of the loop is of its types.
THEOREM TypeCorrect == Safe => []TypeOK
<1>1. Inv => TypeOK
  BY DEF Inv
<1> QED
  BY <1>1, AlwaysInv, PTL

\* A resting shape always has a running lockout timer, so the rest can end.
THEOREM LockoutIsPrimed == Safe => []LockoutPrimed
<1>1. Inv => LockoutPrimed
  BY DEF Inv
<1> QED
  BY <1>1, AlwaysInv, PTL

\* After the lockout block the resting flag tells the truth of the board.
THEOREM LockoutIsTrue == Safe => []LockoutRests
<1>1. Inv => LockoutRests
  BY DEF Inv
<1> QED
  BY <1>1, AlwaysInv, PTL

\* The grace period is granted in full, for every lockoutMax and every order
\* of keys, however late the thread is scheduled.
THEOREM GraceGranted == Safe => GracePeriod
<1>1. ASSUME Inv, LocksAfterGrace
      PROVE  sinceMove >= LockoutMax
  <2>1. /\ pc = "lockout" /\ isLockout
        /\ GraceOver
    BY <1>1 DEF LocksAfterGrace, LockoutEnds
  <2>2. ~hasMoved
    BY <2>1, LoopAssumption DEF GraceOver, GraceTimer, Restarted
  <2>3. lockout.delta >= LockoutMax
    BY <2>1, <2>2 DEF GraceOver, GraceTimer
  <2> QED
    BY <1>1, <2>1, <2>2, <2>3, LoopAssumption
    DEF Inv, TypeOK, LoopTypeOK, TimersHonest, Never
<1>2. Inv /\ [Next]_vars => [LocksAfterGrace => sinceMove >= LockoutMax]_vars
  BY <1>1
<1> QED
  BY <1>2, AlwaysInv, PTL DEF Safe, GracePeriod

\* Gravity waits for a full timeout after every sink, spawn and end of a
\* rest, for every timeoutMax.
THEOREM NeverPlummets == Safe => NoPlummet
<1>1. ASSUME Inv, Sinks
      PROVE  sinceFall >= TimeoutMax
  BY <1>1, LoopAssumption
  DEF Sinks, GravitySinks, GravityFires, TimedOut, Inv, TypeOK, LoopTypeOK, TimersHonest
<1>2. Inv /\ [Next]_vars => [Sinks => sinceFall >= TimeoutMax]_vars
  BY <1>1
<1> QED
  BY <1>2, AlwaysInv, PTL DEF Safe, NoPlummet

\* The gravity block never exchanges the shape.
THEOREM GravityKeepsShape == Safe => GravityNeverLocks
<1>1. ASSUME [Next]_vars, pc = "gravity"
      PROVE  UNCHANGED fall \/ SinksOneRow
  BY <1>1
  DEF vars, loopVars, Next, LoopStep, Wait, Stopped, Left, Right, Rotate, Down, Drop,
      KeyLeft, KeyRight, KeyRotate, KeyDown, Key, ComesFree, LocksAfterGrace,
      LockoutEnds, Sinks, GravitySinks, timeoutAction, Control
<1>2. [Next]_vars => [pc = "gravity" => UNCHANGED fall \/ SinksOneRow]_vars
  BY <1>1
<1> QED
  BY <1>2, PTL DEF Safe, GravityNeverLocks
=============================================================================
