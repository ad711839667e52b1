# A TLA+ model of grzetris

grzetris is a falling-block game for the terminal in about 2300 lines of C++
(`src/*.cpp`, `include/*.hpp`; `lib/` is vendored).  It is one thread: a menu
calls `game::run`, which loops about a thousand times a second over timers,
keys, lockout and gravity, and calls an engine that keeps the board twice, as
shape objects and as a matrix of block pointers.

Paths below are relative to the repository.

## The system

| component | state | operations | calls / is called by |
|---|---|---|---|
| shapes: `shape.cpp`, `maths.hpp` | none; a polyomino is a value on the heap | init, copy, deinit, rotate | engine |
| engine, board: `engine.cpp` | `playfield::blocks`, the shape's `pos` and blocks | move check, set, move, drop, rotate, row checks and clears | game loop |
| engine, bag: `engine.cpp:27,129-161` | static `tetroBag`, generator | `drawTetro`, `shakeTetroBag` | game loop |
| engine, life cycle | `tetrominoes`, `playfields` | `init`, `initPlayfield`, `deinit` | game loop |
| game loop: `game.cpp` | `loop`, `isLockout`, `hasMoved`, timers, the two shapes | one pass: timers, keys, lockout, gravity, sleep | menu; calls engine, input, UI |
| input: `ui/input.cpp` | `inputBuffer`, `bindings`, `currentMap` | fetch, getNext, setBind, getBind, getReverseBind, name tables | game loop, menu, config |
| config: `config.cpp` | the JSON file | load, default binds, save | `main`; calls input |
| menu: `ui/menu.cpp` | ring of nodes, `selected` | run, inputDriver, nested `game::run` | `main` |
| UI: `ui/main.cpp` | cache of windows, last terminal size | draw, hasResized | game loop, menu |

What makes them hard, with the line where it bites, is in `PROJECT.json` under
`hazards`.  In short:

* The engine deletes and rewrites cells of one matrix for every move, and its
  checks depend on which cells may be ignored; rotating deletes first and has
  to undo.  Correct: the shape object and the matrix agree, locked blocks
  change only by row clearing, no write leaves the matrix.
* Row clearing works from a vector computed before the rows move, and copies
  and clears pointers by hand.  Correct: exactly the filled rows go, nothing
  is leaked or deleted twice.
* The bag lives across games.  Correct: rounds, no droughts.
* The game loop samples timers once per pass, then lets keys, the lockout
  block and the gravity block change what was sampled, and keeps four pieces
  of control state that each of them assigns.  Correct: a resting shape has
  its whole grace period and then locks, gravity keeps its pace, quitting and
  losing end the game.
* Menu and session: a game is nested in the menu's handling of one key, and
  both share the queue of keys and the current map.  Correct: no key changes
  sides at the end of a game, selecting Quit quits, every object is freed once.
* Config: the file is truncated and rewritten at exit, in another shape than
  the binds have in memory, by any number of instances.  Correct: the keys a
  user wrote are the keys he plays with, today and after any number of saves.
* UI: windows made once, against a terminal whose size changes inside the very
  calls that draw.  Correct: no change of size goes without a draw, and the
  panels end up where they belong.

## The modules

| module | models | uses |
|---|---|---|
| `Shape` | coordinates, the seven prototypes, the quarter turn | |
| `Playfield` | the board operations as operators on the set of occupied cells | `Shape` |
| `Engine` | the engine as a state machine, one action per call the game makes | `Playfield` |
| `RowClear` | `checkFilledRows`, `clearFilledRows`, `clearRow` loop by loop, with block identities | `Playfield` |
| `FairDeal` | abstract: shapes are dealt in rounds | |
| `TetroBag` | `drawTetro`, `shakeTetroBag` loop by loop; implements `FairDeal` | `FairDeal` |
| `GameLoop` | the control of `game::run`; what the engine answers is a parameter | |
| `PieceTimer` | abstract: the loop over an engine of which only "rows the shape can still sink" is kept | `GameLoop` |
| `Game` | the loop with the real board; implements `PieceTimer` | `Engine`, `GameLoop` |
| `Bindings` | the bind maps in memory and in the file, load and save, the name tables | |
| `Config` | `cfg::init` and `cfg::deinit` of several instances, the user's edits, crashes | `Bindings` |
| `Session` | the menu, the games nested in it, the shared queue, who owns which object | `Bindings` |
| `Windows` | the window cache, `hasResized`, `drawGame`, and what of ncurses moves windows | |
| `GameProofs` (engine and game), `PieceTimerProofs`, `TetroBagProofs`, `RowClearProofs`, `BindingsProofs`, `ConfigProofs`, `SessionProofs`, `WindowsProofs` | the theorems | |

### How state and actions correspond to the code

*Board.*  `grid` is the set of cells of `p->blocks` that are not `nullptr`.
`shape` and `nextShape` are records of a `polyomino`; the vector of blocks is
the set of their offsets, since colour and order matter to the renderer only.
`OffBoard` is the sentinel (-32,-32).  The vector of ignored cells in
`polynoMoveCheck` is modelled with the zero entries the code creates it with,
so the origin is always ignored.  A write outside the matrix is undefined
behaviour: `corrupt` becomes TRUE and the model promises nothing from there.
`LockAndSpawn` is everything `timeoutAction` does after the shape could not
sink: free the shape object, clear rows, promote the next shape, draw, check,
place.

*Rows.*  `Playfield!clearFilledRows` says with a formula what the loops leave.
`RowClear` keeps the loops and the pointers, a block being named by the cell
it stood on, and `ClearsAsStated` ties the two together.

*Bag.*  A random index is any element left.  In `Engine` a shake is one step
that yields any order; `TetroBag` has the loop.

*Loop.*  `pc` stands before one block of the pass: `timers` (118-126 and
`fetch`), `input` (one action per key), `lockout`, `gravity`, `sleep`.  A timer
is `age`, the time since `post` (`Never` for `time_point::max()`), and `delta`,
the value `updateTimers` sampled.  Both are capped at the limit they are
compared with, which loses nothing since the code only tests `>=`.
`TimePasses` moves all ages on by one tick; it happens in `Sleep` and, because
drawing and the scheduler take time, between any two steps (`Delay`).  A key is
already the bind it stands for.  `hasMoved || call` is `ShortCircuits` with an
engine call that is left out.  `sinceMove` and `sinceFall` are history
variables, read by properties only.

*Refinement.*  `Game` maps `fall` to the distance the shape can sink on its
board (`FallDistance`), to `Unplaced` when the shape did not fit, and to
`Corrupt` after undefined behaviour.

*Binds.*  In memory a map is a function from codes to binds, in the file a
section is a function from names of binds to names of codes; an enumerator is
written as its own name.  Both directions lose: two names for one code, two
codes for one bind, unknown names.  Which one wins depends on the order of
`std::map` and of JSON objects, so `CodeOrder` and `NameOrder` are those orders.
`currentMap` is an argument here and a variable in `Session`.

*Config.*  `Open` is where `saveConfig` truncates the file, `Close` where it
writes: the stream buffers, and the file is far shorter than its buffer.
`CutShort` is a crash or a full disk in between, or in the middle of the write.
`Broken` is a file on which `json::parse` throws.  `wishes`, `reset`, `torn` and
`clash` are history variables; `clash` is set by a `Close` while another instance,
with different binds to save, has the file open, and like `torn` it is over with the
next truncation.

*Session.*  `pc` stands in the menu's loop, in its loop over keys, in a block of
the game's pass, or in one of the steps after the game's loop.  A key in the
queue carries the loop that fetched it.  The engine is left with what it
allocates and frees: `board` are the cells that hold a block, each the name of
its block; `heap` is what is allocated.  The local playfield of `game::run` is
at the same address in every game, so the `playfields` list is a length.

*Windows.*  `windows` is the map of the UI, with `Absent` for a panel without an
entry and `NULL` for the entry `newwin` leaves on a small terminal.  ncurses
changes `LINES` and `COLS` inside `getch` and inside every refresh (`Refresh`,
`Fetch`), resizes the windows it knows (`resize_term`, `adjust_window`) and
pushes `KEY_RESIZE`.  The menu's `getch` takes that key too (`MenuFetch`).  `fresh` is a history variable: the panels drawn since the
last change.

## What the runs check

| run | instance | what it shows |
|---|---|---|
| `engine` | 4 x 6, I and Z; 39,441 states | the eight properties of `Engine`, below |
| `piece_timer` | timeout 2, lockout 3, batches of 2, fall 2; 121,579 states | locking, gravity and quitting for all timings, with liveness |
| `game` | 3 x 3, O and T, limits 1, batches of 2; 76,433 states | `Game` implements `PieceTimer` |
| `tetro_bag` | 5 shapes; 104,007 states | the bag deals in rounds |
| `row_clear` | every 2 x 5 board; 15,694 states | loops and pointers of row clearing |
| `config` | two instances, one section with three names and two codes, one edit; 176,479 states | the keys of the user through saves, crashes and restarts |
| `session` | two games, batches of 2, four keys, every file of up to three sections; 35,863 states | keys, maps and objects across menu and games |
| `windows` | the 20 x 10 board, six terminal sizes, three changes of size; 108,444 states | resizing at every point of a pass |
| `stack_intact`, `filled_rows_cleared`, `game_over`, `game_over_is_final` | small | four places where the code does not do what it says, below |

*Engine.*  `PieceDrawn`: every cell of the shape holds a block.  `SentinelSafe`:
a placed shape has no coordinate -32, so that the two different tests of it
agree.  `ShapeIsTetromino`: any number of turns leaves one of the four
orientations in the original box.  `StackStable`: moving, turning and sinking
change no locked block (but at the origin).  `RefusalKeepsBoard`: an undone
rotation is undone completely.  `LockCollapses`: locking leaves the board with
exactly the filled rows removed, as taking them out one after the other down the
board (`Collapsed`) would leave it.
`WritesInBounds`: while the shape is placed no write leaves the matrix, though
ignored cells skip the bounds check.

*PieceTimer.*  `LockoutPrimed` and `LockoutRests`: during a lockout its timer
runs, and past the lockout block the shape does rest.  `GracePeriod`: a shape
locks by itself only when it has not moved for the whole grace period.
`NoPlummet`: gravity waits a full timeout since the last sinking, spawn or
coming free.  `GravityNeverLocks`: the gravity block never exchanges the shape.
`Settles`: if the player stops typing, shapes go on locking or the game ends.
`QuitEnds`: a quit that reaches the lockout block ends the game, unless gravity
is about to sink the shape.

*RowClear.*  `HeapOK`: no block is on two cells or lost.  `RowsNotStale`: the
vector of filled rows stays true for the rows to come.  `ClearsAsStated`: the
loops leave what the formula says, every block where its own fall takes it.

*Config.*  `KeysKept`: an instance runs on keys the user wrote, however many
sessions ago; only a save cut short, or a start inside a save, replaces them by
the default keys.  `SurvivesRestart`: a save and a load give every key the bind
it had.  `ReadableUnlessTorn`: the program by itself makes the file unreadable
only by a torn write, or by two saves of different binds of which one writes while the
other has the file open, and only until the next save truncates it.  The type invariant
also has the bind that `loadBindings` sets as a must have, which no save writes.

*Session.*  `NoKeyLeftForMenu`: a game ends with an empty queue, however it
ends.  `ControlsDrawable`: `getReverseBind`, which throws without a map, always
finds one when a game draws.  `NoBadFree`, `NothingLeaked`: though
`ngin::deinit` of the n-th game goes over n entries of the list.
`QuitIsFollowed`: selecting Quit ends the program whatever follows in the batch.

*Windows.*  `ResizeNoticed`: at the start of a pass all panels are drawn for the
size there is, or `KEY_RESIZE` is on its way.  It is the key, which is bound to
nothing but followed by a draw like any other, that makes this true:
`hasResized` alone would miss a size that changes and changes back in one pass.
`CentredIfRoomy`: on a terminal that was always roomy no move of a window is
refused.  `ResizeIsDrawn`: a game draws all panels for the last size.

*Bounds.* The 4 x 6 board lets several rows, also rows that are not adjacent,
fill at once and a stack reach the top in two locks; the I and the Z have an
even and an odd box, so both branches of the turn are taken, and the I hangs
below the top of its box and turns to negative positions. Two ticks of timeout
and three of lockout separate "not at all", "in part" and "whole", and make
the limits differ; two keys per batch are the least with an order; since a
fetch appends to the keys typed ahead, a first pass may see four. A distance
of two to sink separates the last row from the ones before. The 3 x 3 board of
`game` is the least on which shapes turn, slide off a ledge during a lockout,
fill rows and leave no room. 2 x 5 boards hold filled rows that are adjacent,
apart, at the top and at the bottom. Five shapes let rounds of all orders meet
(`waits` reaches 2N - 2 = 8); `TetroBagProofs` lifts the number.  In `config`
two instances are the least that meet in a save; GAME_LEFT and GAME_PAUSE
are a bind with and one without a default key, JUMP and F1 unknown names, so that
collisions of names and of codes occur; one edit meets every state of both
instances; one section is enough, since sections do not interact.  In
`session` the sections EDITOR (unknown), GAME and MENU are there or not, keys
are bound, bound twice or not bound, and two games are the least in which the
list has an old entry.  In `windows` 24
lines are too few for the playfield, 45 and 60 are roomy, and 82 columns are the
least on which the controls have a place; so sizes grow and shrink in both
directions, with and without windows that are missing or cut, and three changes
let a size change, change back and change again.

*Fairness.*  `PieceTimer` assumes weak fairness of `LoopStep` and nothing of
`Wait`: the loop is one thread that never blocks (`getch` is set to not wait,
`input.cpp:21`; the sleep is a millisecond), so it goes on taking steps, and time
passes at least in the sleep.  `RowClear` assumes that its loops go on running.
`Session` assumes weak fairness of `Step` for the same reason: a step, not a key,
since a fetch of nothing is a step too.  `Windows` assumes weak fairness of `Pass`,
the steps of a game's pass, none of which blocks, and nothing of the menu, of the
end of a game, or of the terminal.  `Config` states safety only: nobody has to start or
leave an instance.  Nothing is assumed about the player.

*Environment.*  The user does not edit the config file in the instants of a
save.  The terminal's size is taken over only where ncurses handles the signal,
inside a refresh or `getch`, and several signals may count as one.

*Deadlock* is checked in every run; a game that is over, one with undefined
behaviour and finished row clearing stutter explicitly, and so does a session that has
ended or reached the bound on games.

### Where the code departs from what it says

1. `engine.cpp:172` (`StackIntact`).  The vector of ignored cells starts with
   one (0,0) per block, so a shape may pass over a locked block in the top left
   corner and delete it, against the comment at 170-171.
2. `engine.cpp:355` (`FilledRowsCleared`).  `clearRow(p, 0)` does nothing.
3. `game.cpp:195` (`GameOverEndsGame`).  The lockout block drops the return
   value of `timeoutAction`, so the game over of line 84 is lost when the shape
   locked after its grace period.  A rotate key then writes at row -32.
4. `game.cpp:153` (`GameOverIsFinal`).  A down or drop key assigns `loop` from its own
   result.  When an earlier one of the same pass has met the game over of line 84,
   the later one draws another shape, and if that fits the game goes on.

The other properties are stated so that these four do not hide further
ones: `StackStable` and `LockCollapses` leave out the origin, `LockCollapses`
a filled top row, `QuitEnds` starts behind the keys of a pass.  `OnlyTopRowStays` proves
that a filled top row is the one case in which a lock leaves a filled row.

Behaviour that contradicts no line of the repository, and that a player may meet:

* `game.cpp:153`, `:212`: a quit key is lost if a down or drop key follows it in the
  same pass, or if gravity sinks the shape in it.
* `game.cpp:143`: a right key against a wall counts as a move and restarts the grace
  period, a left key does not.
* `ui/main.cpp:196`: on a terminal of fewer than 42 lines or columns `newwin` gives
  NULL, which is cached: the playfield and the panels beside it stay away when the
  terminal grows.  Between 42 and 81 columns the same happens to the controls.
* `ui/main.cpp:205`: on a terminal of exactly 42 lines ncurses takes the playfield
  for a window that fills the screen and stretches it whenever the terminal grows;
  it then fits nowhere but at the top, and is never centred again.
* `config.cpp:76`: a config file without a MENU section leaves the menu without keys.
* `config.cpp:83`: an unknown key name binds `NOT_IMPLEMENTED`, which is also what
  `KEY_RESIZE` becomes: until the next save, resizing the terminal triggers the bind.

## What is proved

The theorems hold for all values of the constants under the assumptions next to
their declarations: positive board sizes on which every prototype fits and at
least two shapes (`SizeAssumption`, `TetrosAssumption`), positive timer limits
(`LoopAssumption`, `FallAssumption`), a finite non-empty set of shapes
(`BagAssumption`), names of binds the order covers (`EditAssumption`), positive
sizes of board and terminal (`WindowsAssumption`), three shape objects
(`SessionAssumption`) and bounds that are numbers.  TLC evaluates them in the runs.

* `GameProofs`, the quarter turn.  `rotatePolyomino` is the quarter turn of the
  box for every square box up to 4; so it keeps blocks in the box, and four calls
  give back the very shape, position and pivot included (`FourTurnsAreNone`).  The proof splits on the size of the box, since the code treats the
  pivot of an even and of an odd box differently.  A turn thus takes each of the four
  orientations of a prototype to the next, which makes `OrientedInv` inductive and
  gives `ShapeIsTetromino`.
* `GameProofs`, the board.  The inductive invariant is `EngineTypeOK /\ PieceDrawn`.  The
  types alone are not inductive: the ignored cells skip the bounds check, and
  only because a placed shape lies in the matrix (both parts together) are they
  on the board.  `SentinelSafe` follows, since a shape with a block on the board
  has a position near it.  The invariant also gives `StackStable`,
  `RefusalKeepsBoard` and `WritesInBounds`; drops of several rows use the lemma
  that a sunk board is the stack with the shape further down.
* `GameProofs`, locking.  `LockCollapses` compares two computations.  `clearFilledRows`
  is the formula of `Playfield` (a block sinks by the filled rows below it, which
  `RowClearProofs` proves of the loops); `Collapsed` takes one row after the other.
  `CollapsedByRows` shows that after n rows the second is the first on a board cut at
  row n (`TopSunk`), from a least n for which it were not, since the induction
  theorems cannot be used.  That `dropPolyno` comes to rest, and in one place only
  (`DropsOneWay`, `RestIsUnique`), makes the board at rest well defined.
* `GameProofs`, the order of shapes.  `ShapesAreDealt`: each draw of the engine is a deal
  of `FairDeal`, the bag read as what is left of the round and the next shape as the one
  dealt.  It needs that the bag repeats no shape, also the bag an earlier game left, and
  that the prototypes differ in their blocks (`PrototypesDiffer`).
* `GameProofs`, the game.  `GameRunsEngine`: whatever the keys, timers and flags,
  `game::run` calls the engine as `Engine` says, so every theorem about the engine
  is one about the game.  `GameRefinesPieceTimer`: each step of the game is a step of
  `PieceTimer` under the mapping above.  The work is in the mapped distance
  (`FallDistance`, a CHOOSE): `ClearAt` says that some number of rows is the distance
  exactly if the shape fits that far and no farther; a lemma for each engine call
  (`MoveChangesFall`, `TurnChangesFall`, `SinkChangesFall`, `LockChangesFall`) says what it
  may do to it, also when the new shape found no room or a write was bad.  Through the
  refinement, `GracePeriod`, `LockoutRests` and `NoPlummet` come over from
  `PieceTimerProofs` to the real board (`GameGrantsGrace`, `GameShapesRest`,
  `GameNeverPlummets`), up to undefined behaviour; `GameGravityNeverLocks` is proved directly.
* `PieceTimerProofs`. The inductive invariant relates each timer's sample to
  its age and the ages to the history variables: while a sample is in use it
  is at most the age, and an age is at most the time since the last event that
  should have restarted the timer (`TimersHonest`); which flags say that a
  sample is in use depends on where the loop is. From it follow
  `LockoutPrimed`, `LockoutRests`, `GracePeriod`, `NoPlummet`;
  `GravityNeverLocks` needs the type invariant only.
* `TetroBagProofs`.  `ShakeSplits` needs that the bag has no repetition, by
  cardinality; `NoDrought` needs `WaitBound`, which splits the bound between the
  shapes still in the round and the others; `BagDealsFairly` maps every step to
  a deal or a stutter.  `BagsAreEngineBags` ties the loop to `Engine`, which shakes in
  one step: the bags it leaves are those `Engine` draws from and starts games with.
* `RowClearProofs`.  `HeapOK` and `RowsNotStale` need `Owned` and `Ahead`: between the
  copy of a row and the emptying of the row above it, that row does not count,
  and the rows the loop has not visited are as they were found.
  `ClearsAsStated` needs to know where each block is (`Traced`): a block is named by
  the cell it stood on, it is in the column of its name, and it has sunk by the
  number of rows cleared below its name so far (`Sunk`, `Upto`).  That number
  grows by one exactly where a row is copied (`SunkNext`).
* `BindingsProofs`.  Binds that were loaded once (`Loaded`) bind no name to two codes,
  and on such binds a save and a load are inverse to each other, as far as keys
  (`KeysSurvive`) and the next save (`SaveIsStable`) can tell.
* `ConfigProofs`.  The inductive invariant traces the binds of every instance and the
  content of the file to a file the user wrote (`InstancesTraced`, `FileTraced`),
  up to what the theorems of `BindingsProofs` say a save and a load keep.  For
  `ReadableUnlessTorn` it says what a save under way finds in the file (`ClashNoted`):
  as long as nobody clashed, nothing, a torn write, or just what it will write itself.
* `SessionProofs`.  Ownership has three phases, `Idle` in the menu, `Playing` in a game,
  `Freeing` in `ngin::deinit`; after the first entry of the list the board is empty,
  which is why the others free nothing.  A turn needs a third shape object, which
  `UnusedIsFree` shows there to be.
* `WindowsProofs`.  `ResizeNoticed` follows from `Noticed`, which says at every point of
  a pass what a change of size has left behind: the signal, then the key, then a
  draw.  `CentredIfRoomy` follows from `Centred`: as long as the terminal is roomy
  ncurses leaves every window as large as it was made, whatever the order in which
  lines and columns grow and shrink, so that every move succeeds.

Only model-checked: liveness (`Settles`, `QuitEnds`, `Terminates`, `QuitIsFollowed`,
`ResizeIsDrawn`), which the prover does not cover.  Every other property of a passing
run is a theorem.

## Not modelled

Colours, text and layout within the panels, the logo, `drawStats` (never called):
pure output.  `TIMER_FRAME` (never read), `scoreFilledRows` (never called), `vect2DF`
and `box` (unused).  The erase inside the loop of `ui::deinit` (`ui/main.cpp:59`) is
undefined behaviour of one loop at the very end, which no state here could show.
`ui::init` sets the terminal up, `colour.hpp`, `defs.hpp` and the build files have no
behaviour.

`lib/` holds ncurses 6.3 and nlohmann json 3.11.3, more than nine tenths of the
lines of the repository.  Of ncurses, `Windows` has what the window cache depends
on.  The rest, terminfo, the widget libraries and programs, the other back ends, and the
parser of json, is third-party code of which the game sees what `Windows`,
`Session` and `Config` say: keys come out of `getch` in the order they were typed, a
text that is not JSON throws, objects are iterated in the order of their keys.

## What is left

`Session` has its own, shorter board.  That its placing, turning and clearing own and
free what `Engine` and `RowClear` say is by inspection.
