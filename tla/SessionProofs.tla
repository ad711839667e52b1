--------------------------- MODULE SessionProofs ---------------------------
(***************************************************************************)
(* The menu and its games, for any keys, batches, number of games and      *)
(* size of the board.                                                      *)
(***************************************************************************)
EXTENDS Session, BindingsProofs, FiniteSetTheorems

-----------------------------------------------------------------------------
(* The inductive invariant. *)

Types ==
  /\ pc \in {"menu", "menuKeys", "game", "gameKeys", "lockout", "gravity",
             "over", "deinit", "left", "done"}
  /\ selected \in 0 .. NodeCount - 1
  /\ buffer \in Seq([code : Typed, by : {"menu", "game"}])
  /\ currentMap \in Maps \cup {"NONE"}
  /\ loop \in BOOLEAN

\* The game leaves its loop over the keys with an empty queue.
Queue ==
  /\ NoKeyLeftForMenu
  /\ pc \in {"lockout", "gravity", "over", "deinit"} => buffer = <<>>

MapsThere ==
  /\ Loaded(bindings)
  /\ pc \in {"game", "gameKeys", "lockout", "gravity"} => currentMap = "GAME"

\* What is allocated in the menu, in a game, and in ngin::deinit.
Idle ==
  /\ shape = Null /\ nextShape = Null
  /\ board = {} /\ heap = {}
  /\ playfields \in 0 .. MaxGames /\ walk = 0
  /\ badFree = FALSE

Playing ==
  /\ shape \in Polynos /\ nextShape \in Polynos /\ shape # nextShape
  /\ board \subseteq Cells
  /\ heap = {Prototypes} \cup board \cup {shape, nextShape}
  /\ playfields \in 1 .. MaxGames /\ walk = 0
  /\ badFree = FALSE

Freeing ==
  /\ shape = Null /\ nextShape = Null
  /\ board \subseteq Cells
  /\ heap = {Prototypes} \cup board
  /\ playfields \in 1 .. MaxGames /\ walk \in 0 .. playfields
  /\ walk > 0 => board = {}
  /\ badFree = FALSE

Owned ==
  /\ InMenu => Idle
  /\ pc \in {"game", "gameKeys", "lockout", "gravity", "over"} => Playing
  /\ pc = "deinit" => Freeing

Inv == Types /\ Queue /\ MapsThere /\ Owned

-----------------------------------------------------------------------------
(* Objects. *)

\* There is always a third polyomino.
LEMMA UnusedIsFree ==
  ASSUME NEW live, NEW a, NEW b, live \cap Polynos \subseteq {a, b}
  PROVE  Unused(live) \in Polynos \ live
<1>1. SUFFICES ASSUME Polynos \subseteq {a, b}
               PROVE  FALSE
  BY DEF Unused
<1>2. IsFiniteSet({a, b}) /\ Cardinality({a, b}) <= 2
  <2>1. IsFiniteSet({a}) /\ Cardinality({a}) = 1
    BY FS_Singleton
  <2>2. IsFiniteSet({a} \cup {b}) /\ Cardinality({a} \cup {b}) <= 2
    BY <2>1, FS_AddElement
  <2>3. {a, b} = {a} \cup {b}
    OBVIOUS
  <2> QED
    BY <2>2, <2>3
<1>3. Cardinality(Polynos) <= 2
  <2>1. IsFiniteSet(Polynos) /\ Cardinality(Polynos) <= Cardinality({a, b})
    BY <1>1, <1>2, FS_Subset
  <2>2. Cardinality(Polynos) \in Nat /\ Cardinality({a, b}) \in Nat
    BY <1>2, <2>1, FS_CardinalityType
  <2> QED
    BY <1>2, <2>1, <2>2
<1>4. Cardinality(Polynos) \in Nat
  BY <1>1, <1>2, FS_Subset, FS_CardinalityType
<1> QED
  BY <1>3, <1>4, SessionAssumption

\* movePolyno moves blocks only.
LEMMA MovesPlaying == ASSUME Playing, Moves PROVE Playing'
BY SessionAssumption DEF Playing, Moves, Redraw

\* rotate exchanges the shape for its copy.
LEMMA TurnsPlaying == ASSUME Playing, Turns PROVE Playing'
<1>1. Unused(heap) \in Polynos \ heap
  <2>1. heap \cap Polynos \subseteq {shape, nextShape}
    BY SessionAssumption DEF Playing
  <2> QED
    BY <2>1, UnusedIsFree
<1>2. shape' \in Polynos /\ shape' # nextShape /\ shape' # shape
  BY <1>1 DEF Playing, Turns
<1> QED
  BY <1>2, SessionAssumption DEF Playing, Turns, Redraw

\* timeoutAction frees the shape, promotes the next one and draws another.
LEMMA LocksPlaying == ASSUME Playing, LockAndSpawn PROVE Playing'
<1>1. Unused(heap \ {shape}) \in Polynos \ (heap \ {shape})
  <2>1. (heap \ {shape}) \cap Polynos \subseteq {nextShape, nextShape}
    BY SessionAssumption DEF Playing
  <2> QED
    BY <2>1, UnusedIsFree
<1>2. nextShape' \in Polynos /\ nextShape' # nextShape /\ shape' = nextShape
  BY <1>1 DEF Playing, LockAndSpawn
<1> QED
  BY <1>1, <1>2, SessionAssumption DEF Playing, LockAndSpawn, Redraw

\* The rest of a game touches no object.
LEMMA KeepsPlaying == ASSUME Playing, UNCHANGED objectVars PROVE Playing'
BY DEF Playing, objectVars

-----------------------------------------------------------------------------
(* Every action keeps the invariant. *)

\* The invariant holds at the start.
LEMMA InitInv == Init => Inv
<1>1. SUFFICES ASSUME Init
               PROVE  Inv
  OBVIOUS
<1>2. Loaded(bindings)
  BY <1>1, UserFilesAreReadable, LoadIsLoaded DEF Init
<1>3. Types /\ Queue
  <2>1. buffer = <<>> /\ buffer \in Seq([code : Typed, by : {"menu", "game"}])
    BY <1>1 DEF Init
  <2>2. selected \in 0 .. NodeCount - 1 /\ currentMap \in Maps \cup {"NONE"}
    BY <1>1 DEF Init, NodeCount, Play
  <2>3. pc = "menu" /\ loop \in BOOLEAN
    BY <1>1 DEF Init
  <2> QED
    BY <2>1, <2>2, <2>3 DEF Types, Queue, NoKeyLeftForMenu
<1>4. Owned
  BY <1>1, SessionAssumption DEF Init, Owned, InMenu, Idle
<1> QED
  BY <1>1, <1>2, <1>3, <1>4 DEF Init, Inv, MapsThere

\* A fetch appends keys of the loop that fetches.
LEMMA FetchAppends ==
  ASSUME buffer \in Seq([code : Typed, by : {"menu", "game"}]),
         NEW loopName \in {"menu", "game"}, Fetch(loopName)
  PROVE  /\ buffer' \in Seq([code : Typed, by : {"menu", "game"}])
         /\ (\A i \in DOMAIN buffer : buffer[i].by = loopName) =>
              \A i \in DOMAIN buffer' : buffer'[i].by = loopName
<1>0. PICK n \in 0 .. MaxBatch : \E keys \in [1 .. n -> Typed] :
        buffer' = buffer \o [i \in 1 .. Len(keys) |-> [code |-> keys[i], by |-> loopName]]
  BY DEF Fetch
<1>1. PICK keys \in [1 .. n -> Typed] :
        buffer' = buffer \o [i \in 1 .. Len(keys) |-> [code |-> keys[i], by |-> loopName]]
  BY <1>0
<1> DEFINE typed == [i \in 1 .. Len(keys) |-> [code |-> keys[i], by |-> loopName]]
<1>2. n \in Nat /\ Len(keys) = n
  <2>1. n \in Nat
    BY SessionAssumption
  <2> QED
    BY <2>1
<1>3. /\ typed \in Seq([code : Typed, by : {"menu", "game"}])
      /\ Len(typed) = n
      /\ \A i \in 1 .. n : typed[i].by = loopName
  BY <1>2
<1> HIDE DEF typed
<1>4. buffer' = buffer \o typed
  BY <1>1 DEF typed
<1>5. /\ buffer' \in Seq([code : Typed, by : {"menu", "game"}])
      /\ Len(buffer') = Len(buffer) + n
      /\ \A i \in 1 .. Len(buffer') :
           buffer'[i] = IF i <= Len(buffer) THEN buffer[i] ELSE typed[i - Len(buffer)]
  <2> DEFINE K == [code : Typed, by : {"menu", "game"}]
  <2>1. buffer \in Seq(K) /\ typed \in Seq(K)
    BY <1>3
  <2> HIDE DEF K
  <2>2. /\ buffer \o typed \in Seq(K)
        /\ Len(buffer \o typed) = Len(buffer) + Len(typed)
        /\ \A i \in 1 .. Len(buffer) + Len(typed) :
             (buffer \o typed)[i] =
               IF i <= Len(buffer) THEN buffer[i] ELSE typed[i - Len(buffer)]
    BY <2>1
  <2> QED
    BY <1>3, <1>4, <2>2 DEF K
<1>6. ASSUME \A i \in DOMAIN buffer : buffer[i].by = loopName, NEW i \in DOMAIN buffer'
      PROVE  buffer'[i].by = loopName
  BY <1>2, <1>3, <1>5, <1>6
<1> QED
  BY <1>5, <1>6

\* The rest of the queue is a queue, and belongs to whom the queue belonged.
LEMMA TailKeeps ==
  ASSUME buffer \in Seq([code : Typed, by : {"menu", "game"}]), buffer # <<>>,
         buffer' = Tail(buffer)
  PROVE  /\ buffer' \in Seq([code : Typed, by : {"menu", "game"}])
         /\ (\A i \in DOMAIN buffer : buffer[i].by = "menu") =>
              \A i \in DOMAIN buffer' : buffer'[i].by = "menu"
<1>1. /\ Len(buffer') = Len(buffer) - 1
      /\ \A i \in 1 .. Len(buffer') : buffer'[i] = buffer[i + 1]
  OBVIOUS
<1> QED
  BY <1>1

\* The steps of the menu between two games.
LEMMA MenuKeeps ==
  ASSUME Inv, MenuFetch \/ MenuSleep \/ MenuMove \/ MenuIgnores \/ MenuQuit \/ Deinit
  PROVE  Inv'
<1>1. /\ UNCHANGED <<bindings, loop, objectVars>>
      /\ InMenu /\ InMenu'
      /\ pc' \in {"menu", "menuKeys", "left", "done"}
  BY DEF MenuFetch, MenuSleep, MenuMove, MenuIgnores, MenuQuit, Deinit, NextMenuBind,
         menuVars, InMenu
<1>2. Owned' /\ MapsThere'
  BY <1>1 DEF Inv, Owned, Idle, objectVars, InMenu, MapsThere
<1>3. CASE MenuFetch
  <2>1. Fetch("menu") /\ UNCHANGED <<selected, currentMap, loop>>
    BY <1>3 DEF MenuFetch, menuVars
  <2>2. /\ buffer' \in Seq([code : Typed, by : {"menu", "game"}])
        /\ \A i \in DOMAIN buffer' : buffer'[i].by = "menu"
    BY <1>1, <2>1, FetchAppends DEF Inv, Types, Queue, NoKeyLeftForMenu
  <2> QED
    BY <1>1, <1>2, <2>1, <2>2 DEF Inv, Types, Queue, NoKeyLeftForMenu
<1>4. CASE MenuSleep
  BY <1>1, <1>2, <1>4 DEF Inv, Types, Queue, NoKeyLeftForMenu, MenuSleep, menuVars
<1>5. CASE MenuMove \/ MenuIgnores \/ MenuQuit
  <2>1. /\ buffer # <<>> /\ buffer' = Tail(buffer) /\ currentMap' = "MENU"
        /\ selected' = selected \/ selected' \in {next[selected], prev[selected]}
    BY <1>5 DEF MenuMove, MenuIgnores, MenuQuit, NextMenuBind, menuVars
  <2>2. selected' \in 0 .. NodeCount - 1
    BY <2>1 DEF Inv, Types, next, prev, NodeCount
  <2>3. /\ buffer' \in Seq([code : Typed, by : {"menu", "game"}])
        /\ \A i \in DOMAIN buffer' : buffer'[i].by = "menu"
    BY <1>1, <2>1, TailKeeps DEF Inv, Types, Queue, NoKeyLeftForMenu
  <2> QED
    BY <1>1, <1>2, <2>1, <2>2, <2>3 DEF Inv, Types, Queue, NoKeyLeftForMenu, Maps
<1>6. CASE Deinit
  BY <1>1, <1>2, <1>6 DEF Inv, Types, Queue, NoKeyLeftForMenu, Deinit, menuVars
<1> QED
  BY <1>3, <1>4, <1>5, <1>6

\* A game allocates its objects in an empty heap.
LEMMA StartKeeps == ASSUME Inv, StartGame PROVE Inv'
<1>1. Idle /\ buffer # <<>> /\ buffer' = Tail(buffer)
  BY DEF Inv, Owned, InMenu, StartGame, NextMenuBind
<1>2. buffer' \in Seq([code : Typed, by : {"menu", "game"}])
  BY <1>1, TailKeeps DEF Inv, Types
<1>3. /\ Unused(heap) \in Polynos
      /\ Unused(heap \cup {Unused(heap)}) \in Polynos \ {Unused(heap)}
  <2>1. heap \cap Polynos \subseteq {Null, Null}
    BY <1>1 DEF Idle
  <2>2. (heap \cup {Unused(heap)}) \cap Polynos \subseteq {Unused(heap), Unused(heap)}
    BY <1>1 DEF Idle
  <2>3. Unused(heap) \in Polynos \ heap
    BY <2>1, UnusedIsFree
  <2>4. Unused(heap \cup {Unused(heap)}) \in Polynos \ (heap \cup {Unused(heap)})
    BY <2>2, UnusedIsFree
  <2> QED
    BY <2>3, <2>4
<1>4. Playing'
  <2>1. /\ shape' = Unused(heap) /\ nextShape' = Unused(heap \cup {Unused(heap)})
        /\ board' \subseteq Cells
        /\ heap' = heap \cup {Prototypes, Unused(heap), Unused(heap \cup {Unused(heap)})}
                     \cup board'
        /\ playfields < MaxGames /\ playfields' = playfields + 1
        /\ UNCHANGED <<walk, badFree>>
    BY DEF StartGame
  <2>2. /\ shape' \in Polynos /\ nextShape' \in Polynos /\ shape' # nextShape'
        /\ heap' = {Prototypes} \cup board' \cup {shape', nextShape'}
    BY <1>1, <1>3, <2>1 DEF Idle
  <2>3. playfields' \in 1 .. MaxGames /\ walk' = 0 /\ badFree' = FALSE
    BY <1>1, <2>1, SessionAssumption DEF Idle
  <2> QED
    BY <2>1, <2>2, <2>3 DEF Playing
<1>5. /\ pc' = "game" /\ currentMap' = "GAME" /\ loop' = TRUE
      /\ UNCHANGED <<selected, bindings>>
  BY DEF StartGame, menuVars
<1> QED
  BY <1>2, <1>4, <1>5
     DEF Inv, Types, Queue, NoKeyLeftForMenu, MapsThere, Owned, InMenu, Maps

\* The steps of a game's loop touch objects as a game may.
LEMMA GameKeepsObjects ==
  ASSUME Playing,
         GameFetch \/ KeyQuit \/ KeyMoves \/ KeyDown \/ KeyOther \/ KeysDone
           \/ Lockout \/ Gravity
  PROVE  Playing'
<1>1. UNCHANGED objectVars \/ Moves \/ Turns \/ LockAndSpawn
  BY DEF GameFetch, KeyQuit, KeyMoves, KeyDown, KeyOther, KeysDone, Lockout, Gravity
<1> QED
  BY <1>1, MovesPlaying, TurnsPlaying, LocksPlaying, KeepsPlaying

\* The steps of a game's loop.
LEMMA GameKeeps ==
  ASSUME Inv,
         GameFetch \/ KeyQuit \/ KeyMoves \/ KeyDown \/ KeyOther \/ KeysDone
           \/ Lockout \/ Gravity
  PROVE  Inv'
<1>1. /\ pc \in {"game", "gameKeys", "lockout", "gravity"}
      /\ pc' \in {"game", "gameKeys", "lockout", "gravity", "over"}
      /\ UNCHANGED <<selected, bindings>>
      /\ currentMap' = currentMap \/ currentMap' = "GAME"
  BY DEF GameFetch, KeyQuit, KeyMoves, KeyDown, KeyOther, KeysDone, Lockout, Gravity,
         NextGameBind, menuVars
<1>2. Playing'
  BY <1>1, GameKeepsObjects DEF Inv, Owned
<1>3. Owned' /\ MapsThere'
  BY <1>1, <1>2 DEF Inv, Owned, MapsThere, InMenu
<1>4. loop' \in BOOLEAN
  BY DEF Inv, Types, GameFetch, KeyQuit, KeyMoves, KeyDown, KeyOther, KeysDone, Lockout,
         Gravity
<1>5. currentMap' \in Maps \cup {"NONE"}
  BY <1>1 DEF Inv, Types, Maps
<1>6. CASE GameFetch
  <2>1. Fetch("game") /\ pc' = "gameKeys"
    BY <1>6 DEF GameFetch
  <2>2. buffer' \in Seq([code : Typed, by : {"menu", "game"}])
    BY <2>1, FetchAppends DEF Inv, Types
  <2> QED
    BY <1>1, <1>3, <1>4, <1>5, <2>1, <2>2
       DEF Inv, Types, Queue, NoKeyLeftForMenu, InMenu
<1>7. CASE KeyQuit \/ KeyMoves \/ KeyDown \/ KeyOther
  <2>1. buffer # <<>> /\ buffer' = Tail(buffer) /\ pc' = "gameKeys"
    BY <1>7 DEF KeyQuit, KeyMoves, KeyDown, KeyOther, NextGameBind
  <2>2. buffer' \in Seq([code : Typed, by : {"menu", "game"}])
    BY <2>1, TailKeeps DEF Inv, Types
  <2> QED
    BY <1>1, <1>3, <1>4, <1>5, <2>1, <2>2
       DEF Inv, Types, Queue, NoKeyLeftForMenu, InMenu
<1>8. CASE KeysDone \/ Lockout \/ Gravity
  <2>1. buffer = <<>> /\ buffer' = buffer
    BY <1>8 DEF Inv, Queue, KeysDone, Lockout, Gravity
  <2> QED
    BY <1>1, <1>3, <1>4, <1>5, <2>1 DEF Inv, Types, Queue, NoKeyLeftForMenu, InMenu
<1> QED
  BY <1>6, <1>7, <1>8

\* ngin::deinit frees what the game allocated, each object once: the first
\* entry of the list empties the board, the others find it empty.
LEMMA EndKeeps ==
  ASSUME Inv, FreeShapes \/ FreeBlocks \/ FreePrototypes
  PROVE  Inv'
<1>1. /\ pc \in {"over", "deinit"} /\ pc' \in {"deinit", "menuKeys"}
      /\ buffer = <<>>
      /\ UNCHANGED <<selected, bindings, buffer, currentMap, loop>>
  BY DEF Inv, Queue, FreeShapes, FreeBlocks, FreePrototypes, menuVars
<1>2. Types' /\ Queue' /\ MapsThere'
  BY <1>1 DEF Inv, Types, Queue, NoKeyLeftForMenu, MapsThere, InMenu
<1>3. CASE FreeShapes
  <2>1. Playing /\ pc' = "deinit"
    BY <1>3 DEF Inv, Owned, FreeShapes
  <2>2. shape' = Null /\ nextShape' = Null /\ UNCHANGED <<board, playfields, walk>>
    BY <1>3 DEF FreeShapes
  <2>3. heap' = {Prototypes} \cup board
    BY <1>3, <2>1, SessionAssumption DEF Playing, FreeShapes
  <2>4. badFree' = FALSE
    BY <1>3, <2>1 DEF Playing, FreeShapes
  <2>5. walk \in 0 .. playfields /\ ~(walk > 0)
    BY <2>1, SessionAssumption DEF Playing
  <2>6. Freeing'
    BY <2>1, <2>2, <2>3, <2>4, <2>5 DEF Playing, Freeing
  <2> QED
    BY <1>2, <2>1, <2>6 DEF Inv, Owned, InMenu
<1>4. CASE FreeBlocks
  <2>1. Freeing /\ pc' = "deinit"
    BY <1>4 DEF Inv, Owned, FreeBlocks
  <2>2. Freeing'
    <3>1. heap' = {Prototypes}
      BY <1>4, <2>1, SessionAssumption DEF Freeing, FreeBlocks
    <3>2. badFree' = FALSE
      BY <1>4, <2>1 DEF Freeing, FreeBlocks
    <3>3. walk' \in 0 .. playfields
      BY <1>4, <2>1, SessionAssumption DEF Freeing, FreeBlocks
    <3> QED
      BY <1>4, <2>1, <3>1, <3>2, <3>3 DEF Freeing, FreeBlocks
  <2> QED
    BY <1>2, <2>1, <2>2 DEF Inv, Owned, InMenu
<1>5. CASE FreePrototypes
  <2>1. Freeing /\ pc' = "menuKeys"
    BY <1>5 DEF Inv, Owned, FreePrototypes
  <2>2. board = {}
    BY <1>5, <2>1, SessionAssumption DEF Freeing, FreePrototypes
  <2>3. Idle'
    <3>1. heap' = {} /\ badFree' = FALSE /\ walk' = 0
      BY <1>5, <2>1, <2>2 DEF Freeing, FreePrototypes
    <3>2. UNCHANGED <<board, shape, nextShape, playfields>>
      BY <1>5 DEF FreePrototypes
    <3>3. playfields \in 0 .. MaxGames
      BY <2>1, SessionAssumption DEF Freeing
    <3> QED
      BY <2>1, <2>2, <3>1, <3>2, <3>3 DEF Freeing, Idle
  <2> QED
    BY <1>2, <2>1, <2>3 DEF Inv, Owned, InMenu
<1> QED
  BY <1>3, <1>4, <1>5

\* The invariant holds throughout.
LEMMA Invariance == Spec => []Inv
<1>1. Inv /\ [Next]_vars => Inv'
  <2>1. SUFFICES ASSUME Inv, [Next]_vars
                 PROVE  Inv'
    OBVIOUS
  <2>2. CASE MenuFetch \/ MenuSleep \/ MenuMove \/ MenuIgnores \/ MenuQuit \/ Deinit
    BY <2>1, <2>2, MenuKeeps
  <2>3. CASE StartGame
    BY <2>1, <2>3, StartKeeps
  <2>4. CASE GameFetch \/ KeyQuit \/ KeyMoves \/ KeyDown \/ KeyOther \/ KeysDone
               \/ Lockout \/ Gravity
    BY <2>1, <2>4, GameKeeps
  <2>5. CASE FreeShapes \/ FreeBlocks \/ FreePrototypes
    BY <2>1, <2>5, EndKeeps
  <2>6. CASE UNCHANGED vars
    BY <2>1, <2>6 DEF Inv, Types, Queue, NoKeyLeftForMenu, MapsThere, Owned, InMenu,
                      Idle, Playing, Freeing, vars, objectVars
  <2> QED
    BY <2>1, <2>2, <2>3, <2>4, <2>5, <2>6 DEF Next, Step, Ended
<1> QED
  BY <1>1, InitInv, PTL DEF Spec

-----------------------------------------------------------------------------
(* The theorems. *)

\* The variables hold what their comments say, whatever the binds in the file.
THEOREM TypeCorrect == Spec => []TypeOK
<1>1. Inv => TypeOK
  <2>1. SUFFICES ASSUME Inv
                 PROVE  TypeOK
    OBVIOUS
  <2>2. BindMap(bindings)
    BY <2>1 DEF Inv, MapsThere, Loaded
  <2>3. Idle \/ Playing \/ Freeing
    BY <2>1 DEF Inv, Types, Owned, InMenu
  <2>4. /\ badFree \in BOOLEAN
        /\ heap \subseteq Cells \cup Polynos \cup {Prototypes}
        /\ board \subseteq Cells
        /\ {shape, nextShape} \subseteq Polynos \cup {Null}
        /\ playfields \in 0 .. MaxGames /\ walk \in 0 .. playfields
    <3>1. CASE Idle
      <4>1. playfields \in 0 .. MaxGames /\ walk \in 0 .. playfields
        BY <3>1, SessionAssumption DEF Idle
      <4> QED
        BY <3>1, <4>1 DEF Idle
    <3>2. CASE Playing
      <4>1. playfields \in 0 .. MaxGames /\ walk \in 0 .. playfields
        BY <3>2, SessionAssumption DEF Playing
      <4> QED
        BY <3>2, <4>1 DEF Playing
    <3>3. CASE Freeing
      <4>1. playfields \in 0 .. MaxGames /\ walk \in 0 .. playfields
        BY <3>3, SessionAssumption DEF Freeing
      <4> QED
        BY <3>3, <4>1 DEF Freeing
    <3> QED
      BY <2>3, <3>1, <3>2, <3>3
  <2> QED
    BY <2>1, <2>2, <2>4 DEF Inv, Types, TypeOK
<1> QED
  BY <1>1, Invariance, PTL

\* No key typed into a game is left for the menu, for any keys and batches.
THEOREM NoKeyLeft == Spec => []NoKeyLeftForMenu
<1>1. Inv => NoKeyLeftForMenu
  BY DEF Inv, Queue
<1> QED
  BY <1>1, Invariance, PTL

\* getReverseBind finds the game's map whenever a game draws, whatever sections
\* the user's file has or lacks.
THEOREM ControlsAreDrawable == Spec => []ControlsDrawable
<1>1. Inv => ControlsDrawable
  BY DEF Inv, MapsThere, Loaded, ControlsDrawable, ReverseBindThrows
<1> QED
  BY <1>1, Invariance, PTL

\* Nothing is freed twice, for any number of games and any board.
THEOREM NothingFreedTwice == Spec => []NoBadFree
<1>1. Inv => NoBadFree
  BY DEF Inv, Types, Owned, InMenu, Idle, Playing, Freeing, NoBadFree
<1> QED
  BY <1>1, Invariance, PTL

\* Every object has an owner, and a game leaves none behind.
THEOREM NoLeak == Spec => []NothingLeaked
<1>1. Inv => NothingLeaked
  <2>1. SUFFICES ASSUME Inv
                 PROVE  NothingLeaked
    OBVIOUS
  <2>2. CASE InMenu
    BY <2>1, <2>2 DEF Inv, Owned, Idle, NothingLeaked
  <2>3. CASE ~InMenu
    <3>1. Playing \/ Freeing
      BY <2>1, <2>3 DEF Inv, Types, Owned, InMenu
    <3>2. CASE Playing
      BY <2>3, <3>2, SessionAssumption DEF Playing, NothingLeaked
    <3>3. CASE Freeing
      BY <2>3, <3>3 DEF Freeing, NothingLeaked
    <3> QED
      BY <3>1, <3>2, <3>3
  <2> QED
    BY <2>2, <2>3
<1> QED
  BY <1>1, Invariance, PTL

=============================================================================
