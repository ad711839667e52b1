------------------------------- MODULE Session -------------------------------
(***************************************************************************)
(* One run of the program from cfg::init to ui::deinit: the menu's loop,   *)
(* the loop of a game nested in its handling of a key, the queue of keys   *)
(* and the current map that both share, and the objects a game allocates.  *)
(* Of the engine only who owns what is kept; Game.tla has the rest.        *)
(***************************************************************************)
EXTENDS Bindings, FiniteSets

CONSTANTS
  Typed,     (* the keys the player uses                                     *)
  MaxBatch,  (* bound: keys typed between two fetches                        *)
  MaxGames,  (* bound: games started                                         *)
  Cells,     (* of the board; also the name of the block object a cell holds *)
  Polynos,   (* names of polyomino objects                                   *)
  Prototypes,(* the seven polyominoes of loadTetros, made and freed together *)
  Null

ASSUME SessionAssumption ==
  /\ Typed \subseteq Keys
  /\ MaxBatch \in Nat
  /\ MaxGames \in Nat
  /\ Cardinality(Polynos) >= 3
  /\ Cells \cap Polynos = {}
  /\ Prototypes \notin Cells \cup Polynos
  /\ Null \notin Polynos

VARIABLES
  pc,         (* "menu": about to fetch, "menuKeys": in the loop over keys,   *)
              (* "game", "gameKeys", "lockout", "gravity": the same of a      *)
              (* game, with its two later blocks, "over": past its loop,      *)
              (* "deinit": in ngin::deinit, "left": past the menu's loop      *)
  selected,   (* the index of the selected node                               *)
  buffer,     (* inputBuffer; with every key the loop that fetched it         *)
  currentMap,
  bindings,
  loop,       (* of the game                                                  *)
  heap,       (* the objects allocated and not freed                          *)
  board,      (* the cells that are not nullptr                               *)
  shape, nextShape,
  playfields, (* the length of the list: its entries are all the address of   *)
              (* the local of game::run, the same in every game               *)
  walk,       (* how many of them ngin::deinit has been through               *)
  badFree     (* something was deleted that is not allocated                  *)

menuVars == <<selected, bindings>>
objectVars == <<heap, board, shape, nextShape, playfields, walk, badFree>>
vars == <<pc, selected, buffer, currentMap, bindings, loop, objectVars>>

-----------------------------------------------------------------------------
(* The menu's ring. *)

\* Play, Settings, Info, Quit.
NodeCount == 4
Play == 0
Quit == NodeCount - 1

\* linkNodes, with isCircular as initMain leaves it.
next == [n \in 0 .. NodeCount - 1 |-> IF n # NodeCount - 1 THEN n + 1 ELSE 0]
prev == [n \in 0 .. NodeCount - 1 |-> IF n # 0 THEN n - 1 ELSE NodeCount - 1]

-----------------------------------------------------------------------------
(* Objects. *)

\* A polyomino that is not allocated.
Unused(live) == CHOOSE s \in Polynos : s \notin live

\* setPolynoPos, deletePolynoBlocks and the clearing of rows, as far as
\* ownership goes: cells emptied are freed, cells filled allocated.
Redraw(live) ==
  /\ board' \in SUBSET Cells
  /\ heap' = (live \ (board \ board')) \cup (board' \ board)

Moves == Redraw(heap) /\ UNCHANGED <<shape, nextShape, playfields, walk, badFree>>

\* The copy replaces the shape, or is freed.
Turns ==
  LET rotatedShape == Unused(heap)
  IN  /\ shape' = rotatedShape
      /\ Redraw((heap \cup {rotatedShape}) \ {shape})
      /\ badFree' = (badFree \/ shape \notin heap)
      /\ UNCHANGED <<nextShape, playfields, walk>>

\* timeoutAction where the shape cannot sink.
LockAndSpawn ==
  LET drawn == Unused(heap \ {shape})
  IN  /\ shape' = nextShape
      /\ nextShape' = drawn
      /\ Redraw((heap \ {shape}) \cup {drawn})
      /\ badFree' = (badFree \/ shape \notin heap)
      /\ UNCHANGED <<playfields, walk>>

-----------------------------------------------------------------------------

Init ==
  /\ \E f \in UserFiles : bindings = loadBindings(f)
  /\ pc = "menu"
  /\ selected = Play
  /\ buffer = <<>>
  /\ currentMap = "NONE"
  /\ loop = FALSE
  /\ heap = {}
  /\ board = {}
  /\ shape = Null
  /\ nextShape = Null
  /\ playfields = 0
  /\ walk = 0
  /\ badFree = FALSE

\* getch until there is nothing more to read.
Fetch(loopName) ==
  \E keys \in UNION {[1 .. n -> Typed] : n \in 0 .. MaxBatch} :
    buffer' = buffer \o [i \in 1 .. Len(keys) |-> [code |-> keys[i], by |-> loopName]]

MenuFetch ==
  /\ pc = "menu"
  /\ Fetch("menu")
  /\ pc' = "menuKeys"
  /\ UNCHANGED <<menuVars, currentMap, loop, objectVars>>

MenuSleep ==
  /\ pc = "menuKeys"
  /\ buffer = <<>>
  /\ pc' = "menu"
  /\ UNCHANGED <<menuVars, buffer, currentMap, loop, objectVars>>

\* inputDriver, up to the bind of the next key.
NextMenuBind(binds) ==
  /\ pc = "menuKeys"
  /\ buffer # <<>>
  /\ getBind(bindings, "MENU", Head(buffer).code) \in binds
  /\ buffer' = Tail(buffer)

MenuMove ==
  /\ NextMenuBind({"MENU_NEXT", "MENU_PREV"})
  /\ currentMap' = "MENU"
  /\ selected' = IF getBind(bindings, "MENU", Head(buffer).code) = "MENU_NEXT"
                   THEN next[selected] ELSE prev[selected]
  /\ UNCHANGED <<pc, bindings, loop, objectVars>>

\* Settings and Info do nothing when selected.
MenuIgnores ==
  /\ \/ NextMenuBind(Binds \ {"MENU_NEXT", "MENU_PREV", "MENU_SELECT"})
     \/ NextMenuBind({"MENU_SELECT"}) /\ selected \notin {Play, Quit}
  /\ currentMap' = "MENU"
  /\ UNCHANGED <<menuVars, pc, loop, objectVars>>

\* Mutant: the loop over the keys goes on, and a later key overwrites doRun.
QuitGoesOn ==
  /\ NextMenuBind({"MENU_SELECT"})
  /\ selected = Quit
  /\ currentMap' = "MENU"
  /\ pc' = IF buffer' = <<>> THEN "left" ELSE "menuKeys"
  /\ UNCHANGED <<menuVars, loop, objectVars>>

MenuQuit ==
  /\ NextMenuBind({"MENU_SELECT"})
  /\ selected = Quit
  /\ currentMap' = "MENU"
  /\ pc' = "left"
  /\ UNCHANGED <<menuVars, loop, objectVars>>

\* game::run up to its loop.  The board is new, the list is not.
StartGame ==
  /\ NextMenuBind({"MENU_SELECT"})
  /\ selected = Play
  /\ playfields < MaxGames
  /\ currentMap' = "GAME"
  /\ pc' = "game"
  /\ loop' = TRUE
  /\ LET first  == Unused(heap)
         second == Unused(heap \cup {first})
     IN  /\ shape' = first
         /\ nextShape' = second
         /\ board' \in SUBSET Cells \ {{}}
         /\ heap' = heap \cup {Prototypes, first, second} \cup board'
  /\ playfields' = playfields + 1
  /\ UNCHANGED <<menuVars, walk, badFree>>

-----------------------------------------------------------------------------
(* The game's loop. *)

GameFetch ==
  /\ pc = "game"
  /\ Fetch("game")
  /\ pc' = "gameKeys"
  /\ UNCHANGED <<menuVars, currentMap, loop, objectVars>>

NextGameBind(binds) ==
  /\ pc = "gameKeys"
  /\ buffer # <<>>
  /\ getBind(bindings, "GAME", Head(buffer).code) \in binds
  /\ buffer' = Tail(buffer)
  /\ currentMap' = "GAME"
  /\ UNCHANGED <<menuVars, pc>>

KeyQuit ==
  /\ NextGameBind({"GAME_QUIT"})
  /\ loop' = FALSE
  /\ UNCHANGED objectVars

\* Left, right and rotate may be refused, or left out after an earlier move.
KeyMoves ==
  /\ NextGameBind({"GAME_LEFT", "GAME_RIGHT", "GAME_ROTATE"})
  /\ \/ UNCHANGED objectVars
     \/ Moves
     \/ getBind(bindings, "GAME", Head(buffer).code) = "GAME_ROTATE" /\ Turns
  /\ UNCHANGED loop

\* Down and drop assign loop from what timeoutAction answers.
KeyDown ==
  /\ NextGameBind({"GAME_DOWN", "GAME_DROP"})
  /\ \/ Moves /\ loop' = TRUE
     \/ LockAndSpawn /\ loop' \in BOOLEAN

KeyOther ==
  /\ NextGameBind({"GAME_PAUSE", "GAME_NO_ACTION", "MENU_NEXT", "MENU_PREV",
                   "MENU_SELECT", "NONE"})
  /\ UNCHANGED <<loop, objectVars>>

\* Mutant: the loop over the keys ends with the game.
LeavesKeys ==
  /\ pc = "gameKeys"
  /\ buffer = <<>> \/ ~loop
  /\ pc' = "lockout"
  /\ UNCHANGED <<menuVars, buffer, currentMap, loop, objectVars>>

KeysDone ==
  /\ pc = "gameKeys"
  /\ buffer = <<>>
  /\ pc' = "lockout"
  /\ UNCHANGED <<menuVars, buffer, currentMap, loop, objectVars>>

\* The lockout block ignores the answer of timeoutAction.
Lockout ==
  /\ pc = "lockout"
  /\ pc' = "gravity"
  /\ LockAndSpawn \/ UNCHANGED objectVars
  /\ UNCHANGED <<menuVars, buffer, currentMap, loop>>

Gravity ==
  /\ pc = "gravity"
  /\ \/ UNCHANGED <<loop, objectVars>>
     \/ Moves /\ loop' = TRUE
     \/ LockAndSpawn /\ loop' \in BOOLEAN
  /\ pc' = IF loop' THEN "game" ELSE "over"
  /\ UNCHANGED <<menuVars, buffer, currentMap>>

-----------------------------------------------------------------------------
(* The end of a game, and of the program. *)

\* Mutant: the shape in play is freed, the next one is not.
FreeOneShape ==
  /\ pc = "over"
  /\ heap' = heap \ {shape}
  /\ badFree' = (badFree \/ shape \notin heap)
  /\ shape' = Null
  /\ nextShape' = Null
  /\ pc' = "deinit"
  /\ UNCHANGED <<menuVars, buffer, currentMap, loop, board, playfields, walk>>

FreeShapes ==
  /\ pc = "over"
  /\ heap' = heap \ {shape, nextShape}
  /\ badFree' = (badFree \/ ~({shape, nextShape} \subseteq heap) \/ shape = nextShape)
  /\ shape' = Null
  /\ nextShape' = Null
  /\ pc' = "deinit"
  /\ UNCHANGED <<menuVars, buffer, currentMap, loop, board, playfields, walk>>

\* Mutant: the cells keep their pointers.
FreeBlocksOnly ==
  /\ pc = "deinit"
  /\ walk < playfields
  /\ heap' = heap \ board
  /\ badFree' = (badFree \/ ~(board \subseteq heap))
  /\ walk' = walk + 1
  /\ UNCHANGED <<menuVars, pc, buffer, currentMap, loop, board, shape, nextShape, playfields>>

\* One entry of the list, with the entries of earlier games the same board again.
FreeBlocks ==
  /\ pc = "deinit"
  /\ walk < playfields
  /\ heap' = heap \ board
  /\ badFree' = (badFree \/ ~(board \subseteq heap))
  /\ board' = {}
  /\ walk' = walk + 1
  /\ UNCHANGED <<menuVars, pc, buffer, currentMap, loop, shape, nextShape, playfields>>

\* game::run returns into inputDriver, and the loop over the keys goes on.
FreePrototypes ==
  /\ pc = "deinit"
  /\ walk = playfields
  /\ heap' = heap \ {Prototypes}
  /\ badFree' = (badFree \/ Prototypes \notin heap)
  /\ walk' = 0
  /\ pc' = "menuKeys"
  /\ UNCHANGED <<menuVars, buffer, currentMap, loop, board, shape, nextShape, playfields>>

\* ui::deinit empties the queue.
Deinit ==
  /\ pc = "left"
  /\ buffer' = <<>>
  /\ pc' = "done"
  /\ UNCHANGED <<menuVars, currentMap, loop, objectVars>>

\* A key that would start one game more than the bound ends the behaviour too.
Ended ==
  /\ \/ pc = "done"
     \/ /\ pc = "menuKeys" /\ buffer # <<>> /\ selected = Play
        /\ playfields = MaxGames
        /\ getBind(bindings, "MENU", Head(buffer).code) = "MENU_SELECT"
  /\ UNCHANGED vars

Step ==
  \/ MenuFetch
  \/ MenuSleep
  \/ MenuMove
  \/ MenuIgnores
  \/ MenuQuit
  \/ StartGame
  \/ GameFetch
  \/ KeyQuit
  \/ KeyMoves
  \/ KeyDown
  \/ KeyOther
  \/ KeysDone
  \/ Lockout
  \/ Gravity
  \/ FreeShapes
  \/ FreeBlocks
  \/ FreePrototypes
  \/ Deinit

Next == Step \/ Ended

Spec == Init /\ [][Next]_vars /\ WF_vars(Step)

-----------------------------------------------------------------------------
(* Properties. *)

InMenu == pc \in {"menu", "menuKeys", "left", "done"}

\* The variables hold what their comments say.
TypeOK ==
  /\ pc \in {"menu", "menuKeys", "game", "gameKeys", "lockout", "gravity",
             "over", "deinit", "left", "done"}
  /\ selected \in 0 .. NodeCount - 1
  /\ buffer \in Seq([code : Typed, by : {"menu", "game"}])
  /\ currentMap \in Maps \cup {"NONE"}
  /\ BindMap(bindings)
  /\ {loop, badFree} \subseteq BOOLEAN
  /\ heap \subseteq Cells \cup Polynos \cup {Prototypes}
  /\ board \subseteq Cells
  /\ {shape, nextShape} \subseteq Polynos \cup {Null}
  /\ playfields \in 0 .. MaxGames
  /\ walk \in 0 .. playfields

\* No key typed into a game is left for the menu, however the game ended: the
\* game empties the queue it shares with the menu before it looks at loop.
NoKeyLeftForMenu ==
  InMenu => \A i \in DOMAIN buffer : buffer[i].by = "menu"

\* Whenever a game draws, getReverseBind finds the game's map (it throws where
\* there is none), whatever the file and the menu did before.
ControlsDrawable ==
  pc \in {"game", "gameKeys", "lockout", "gravity"} =>
    currentMap = "GAME" /\ ~ReverseBindThrows(bindings, currentMap)

\* Nothing is freed twice, though the list of playfields holds the one board
\* of a game once for every game before it.
NoBadFree == ~badFree

\* A game leaves nothing allocated behind, and during a game all that is
\* allocated has an owner, and the two shapes are two objects.
NothingLeaked ==
  /\ heap = IF InMenu THEN {}
            ELSE {Prototypes} \cup board \cup ({shape, nextShape} \ {Null})
  /\ shape = nextShape => shape = Null

\* Selecting Quit ends the program, whatever keys follow in the same batch.
QuitIsFollowed ==
  (pc = "menuKeys" /\ selected = Quit /\ buffer # <<>>
     /\ getBind(bindings, "MENU", Head(buffer).code) = "MENU_SELECT")
  ~> (pc = "done")

=============================================================================
