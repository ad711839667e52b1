------------------------------- MODULE Windows -------------------------------
(***************************************************************************)
(* The windows of a game on a terminal that changes its size.  They are    *)
(* made once, at the first draw, and moved at every draw.  ncurses takes   *)
(* notice of a new size inside getch and inside every refresh, thus also   *)
(* between the parts of one drawGame: it resizes the windows it knows,     *)
(* updates LINES and COLS and pushes the key KEY_RESIZE.                   *)
(***************************************************************************)
EXTENDS Integers

CONSTANTS
  H, W,        (* of the board                                  *)
  Lines, Cols, (* the sizes the terminal may have               *)
  MaxKeys,     (* bound: keys in the queue                      *)
  MaxResizes   (* bound: changes of size                        *)

ASSUME WindowsAssumption ==
  /\ H \in Nat \ {0} /\ W \in Nat \ {0}
  /\ Lines \subseteq Nat \ {0} /\ Cols \subseteq Nat \ {0}
  /\ MaxKeys \in Nat \ {0}
  /\ MaxResizes \in Nat

VARIABLES
  size,     (* LINES and COLS                                             *)
  seen,     (* currentLines and currentCols                               *)
  windows,  (* of every panel: Absent, NULL, or where and how large       *)
  pushed,   (* KEY_RESIZE waits for getch                                 *)
  keys,     (* in a game: the keys in inputBuffer, of whatever kind       *)
  pc,       (* "menu", the parts of a pass ("check", "fetch", "keys",     *)
            (* "lockout", "gravity") and of drawGame ("clear", a panel,   *)
            (* "flush")                                                   *)
  after,    (* where drawGame returns to                                  *)
  resizes,  (* changes of size so far                                     *)
  fresh,    (* history: the panels drawn for the size there is: since the *)
            (* last change, and beside a playfield that was               *)
  cramped   (* history: the layout has not always fitted                  *)

vars == <<size, seen, windows, pushed, keys, pc, after, resizes, fresh, cramped>>

Panels == {"playfield", "nextShape", "controls"}

Sizes == [lines : Lines, cols : Cols]

-----------------------------------------------------------------------------
(* ncurses. *)

\* The map has no window, and it has NULL: two different things.
Absent == [made |-> FALSE]
NULL == [made |-> TRUE, y |-> -1, x |-> -1, h |-> 0, w |-> -1]

Window(y, x, h, w) == [made |-> TRUE, y |-> y, x |-> x, h |-> h, w |-> w]

\* Mutant: a window may begin outside the screen.
newwinAnywhere(h, w, y, x) == Window(y, x, h, w)

\* Whether the window fits on the screen is not asked.
newwin(h, w, y, x) == IF y < 0 \/ x < 0 THEN NULL ELSE Window(y, x, h, w)

\* A move that leaves the screen is refused.
mvwin(win, y, x) ==
  IF win = NULL \/ y < 0 \/ x < 0 \/ y + win.h > size.lines \/ x + win.w > size.cols
    THEN win
    ELSE [win EXCEPT !.y = y, !.x = x]

LeastOf(a, b) == IF a < b THEN a ELSE b

\* One window, as the screen goes from one size to another.  What is as large
\* as the screen is taken for a window that should fill it.
adjust_window(win, to, cur) ==
  LET below  == win.y >= cur.lines
      height == IF ~below /\ win.h = cur.lines THEN to.lines ELSE win.h
      width  == LeastOf(win.w, to.cols)
  IN  Window(IF below THEN win.y + to.lines - cur.lines ELSE win.y,
             win.x,
             LeastOf(height, to.lines),
             IF width = cur.cols THEN to.cols ELSE width)

\* First more lines, then more columns, then less of either.
resize_term(win, to) ==
  LET taller == [size EXCEPT !.lines = IF to.lines > @ THEN to.lines ELSE @]
      larger == [taller EXCEPT !.cols = IF to.cols > @ THEN to.cols ELSE @]
      one    == IF taller # size THEN adjust_window(win, taller, size) ELSE win
      two    == IF larger # taller THEN adjust_window(one, larger, taller) ELSE one
  IN  IF to # larger THEN adjust_window(two, to, larger) ELSE two

\* The layout is there in full, and no window is as large as the screen.
Roomy(s) ==
  /\ s.lines > 2 * H + 2 /\ s.lines > 15
  /\ s.lines \div 2 - (H + 1) + 15 <= s.lines
  /\ s.cols \div 2 - (2 * W + 1) >= 20

\* A new size, or the size it has.
Resize(s, wins, drawn) ==
  /\ s = size \/ resizes < MaxResizes
  /\ size' = s
  /\ windows' = [k \in Panels |->
                   IF s = size \/ wins[k] \in {Absent, NULL} THEN wins[k]
                   ELSE resize_term(wins[k], s)]
  /\ resizes' = IF s = size THEN resizes ELSE resizes + 1
  /\ fresh' = IF s = size THEN drawn ELSE {}
  /\ cramped' = (cramped \/ ~Roomy(s))

\* doupdate handles a signal that came before it.  If the size is back to what
\* it was, only the key is pushed.
Refresh(wins, drawn) ==
  \E s \in Sizes :
    /\ Resize(s, wins, drawn)
    /\ pushed' \in IF s = size THEN {pushed, TRUE} ELSE {TRUE}

Idle == UNCHANGED <<size, windows, pushed, resizes, fresh, cramped>>

-----------------------------------------------------------------------------

Init ==
  /\ size \in Sizes
  /\ seen = [lines |-> -1, cols |-> -1]
  /\ windows = [k \in Panels |-> Absent]
  /\ pushed = FALSE
  /\ keys = 0
  /\ pc = "menu"
  /\ after = "menu"
  /\ resizes = 0
  /\ fresh = {}
  /\ cramped = ~Roomy(size)

\* The menu fetches keys like a game, KEY_RESIZE among them, and works them all
\* off, but for those StartGame leaves.
MenuFetch ==
  /\ pc = "menu"
  /\ \E s \in Sizes : Resize(s, windows, fresh)
  /\ pushed' = FALSE
  /\ UNCHANGED <<seen, keys, pc, after>>

\* After every key it draws windows of its own, which it deletes.
MenuDraw ==
  /\ pc = "menu"
  /\ Refresh(windows, fresh)
  /\ UNCHANGED <<seen, keys, pc, after>>

DrawGame(then) ==
  /\ pc' = "clear"
  /\ after' = then

\* Keys behind the one that started the game are still in the queue.
StartGame ==
  /\ pc = "menu"
  /\ keys' \in 0 .. MaxKeys
  /\ DrawGame("check")
  /\ Idle
  /\ UNCHANGED seen

hasResized ==
  /\ pc = "check"
  /\ seen' = size
  /\ IF seen # size THEN DrawGame("fetch") ELSE pc' = "fetch" /\ UNCHANGED after
  /\ Idle
  /\ UNCHANGED keys

\* getch handles a signal too, and a key that is pushed is fetched.
Fetch ==
  /\ pc = "fetch"
  /\ pc' = "keys"
  /\ \E s \in Sizes, signal \in BOOLEAN :
       /\ s # size => signal
       /\ Resize(s, windows, fresh)
       /\ keys' \in {n \in keys .. MaxKeys : pushed \/ signal => n > 0}
  /\ pushed' = FALSE
  /\ UNCHANGED <<seen, after>>

\* Mutant: a key that stands for nothing is not followed by a draw.
IgnoredKey ==
  /\ pc = "keys"
  /\ keys > 0
  /\ keys' = keys - 1
  /\ DrawGame("keys") \/ UNCHANGED <<pc, after>>
  /\ Idle
  /\ UNCHANGED seen

\* Every key is followed by a draw, also KEY_RESIZE, which is bound to nothing.
Key ==
  /\ pc = "keys"
  /\ keys > 0
  /\ keys' = keys - 1
  /\ DrawGame("keys")
  /\ Idle
  /\ UNCHANGED seen

KeysDone ==
  /\ pc = "keys"
  /\ keys = 0
  /\ pc' = "lockout"
  /\ Idle
  /\ UNCHANGED <<seen, keys, after>>

\* The lockout block and the gravity block draw if they moved the shape.
Lockout ==
  /\ pc = "lockout"
  /\ DrawGame("gravity") \/ (pc' = "gravity" /\ UNCHANGED after)
  /\ Idle
  /\ UNCHANGED <<seen, keys>>

Gravity ==
  /\ pc = "gravity"
  /\ DrawGame("check") \/ (pc' = "check" /\ UNCHANGED after)
  /\ Idle
  /\ UNCHANGED <<seen, keys>>

\* while (loop)
GameOver ==
  /\ pc = "check"
  /\ pc' = "menu"
  /\ Idle
  /\ UNCHANGED <<seen, keys, after>>

-----------------------------------------------------------------------------
(* drawGame. *)

Clear ==
  /\ pc = "clear"
  /\ pc' = "playfield"
  /\ Refresh(windows, fresh)
  /\ UNCHANGED <<seen, keys, after>>

\* The two other panels are placed beside the playfield.
Drawn(panel) == fresh \cup IF panel = "playfield" \/ "playfield" \in fresh
                            THEN {panel} ELSE {}

\* Mutant: a window that is there is drawn where it is.
DrawnInPlace(panel, h, w, y, x) ==
  LET win == IF windows[panel] = Absent THEN newwin(h, w, y, x) ELSE windows[panel]
  IN  IF win = NULL
        THEN /\ windows' = [windows EXCEPT ![panel] = win]
             /\ fresh' = Drawn(panel)
             /\ UNCHANGED <<size, pushed, resizes, cramped>>
        ELSE Refresh([windows EXCEPT ![panel] = win], Drawn(panel))

\* Made at the first draw, moved at every draw, refreshed.  A NULL window is
\* kept, and drawing it does nothing: not even doupdate is called.
DrawPanel(panel, h, w, y, x) ==
  LET made == IF windows[panel] = Absent THEN newwin(h, w, y, x) ELSE windows[panel]
      win  == mvwin(made, y, x)
  IN  IF win = NULL
        THEN /\ windows' = [windows EXCEPT ![panel] = win]
             /\ fresh' = Drawn(panel)
             /\ UNCHANGED <<size, pushed, resizes, cramped>>
        ELSE Refresh([windows EXCEPT ![panel] = win], Drawn(panel))

drawPlayfield ==
  /\ pc = "playfield"
  /\ pc' = "nextShape"
  /\ DrawPanel("playfield", 2 * H + 2, 4 * W + 2,
               size.lines \div 2 - (H + 1), size.cols \div 2 - (2 * W + 1))
  /\ UNCHANGED <<seen, keys, after>>

\* getmaxx, getbegx and getbegy of NULL are ERR, that is -1.
drawNextShape ==
  LET p == windows["playfield"]
  IN  /\ pc = "nextShape"
      /\ pc' = "controls"
      /\ DrawPanel("nextShape", 8, 14, p.y, p.x + p.w)
      /\ UNCHANGED <<seen, keys, after>>

drawControls ==
  LET p == windows["playfield"]
  IN  /\ pc = "controls"
      /\ pc' = "flush"
      /\ DrawPanel("controls", 15, 20, p.y, p.x - 20)
      /\ UNCHANGED <<seen, keys, after>>

Flush ==
  /\ pc = "flush"
  /\ pc' = after
  /\ Refresh(windows, fresh)
  /\ UNCHANGED <<seen, keys, after>>

Pass ==
  \/ hasResized
  \/ Fetch
  \/ Key
  \/ KeysDone
  \/ Lockout
  \/ Gravity
  \/ Clear
  \/ drawPlayfield
  \/ drawNextShape
  \/ drawControls
  \/ Flush

Next == MenuFetch \/ MenuDraw \/ StartGame \/ GameOver \/ Pass

Spec == Init /\ [][Next]_vars /\ WF_vars(Pass)

-----------------------------------------------------------------------------
(* Properties. *)

\* The variables hold what their comments say; a window has a place on or
\* beyond the screen, but none above or to the left of it.
TypeOK ==
  /\ size \in Sizes
  /\ seen.lines \in Lines \cup {-1}
  /\ seen.cols \in Cols \cup {-1}
  /\ DOMAIN windows = Panels
  /\ \A k \in Panels :
       \/ windows[k] \in {Absent, NULL}
       \/ /\ windows[k] = Window(windows[k].y, windows[k].x, windows[k].h, windows[k].w)
          /\ {windows[k].y, windows[k].x} \subseteq Nat
          /\ {windows[k].h, windows[k].w} \subseteq Nat \ {0}
  /\ {pushed, cramped} \subseteq BOOLEAN
  /\ keys \in 0 .. MaxKeys
  /\ pc \in Panels \cup {"menu", "check", "fetch", "keys", "lockout", "gravity",
                         "clear", "flush"}
  /\ after \in {"menu", "check", "fetch", "keys", "gravity"}
  /\ resizes \in 0 .. MaxResizes
  /\ fresh \subseteq Panels

\* At the start of a pass all panels have been drawn for the size there is, or
\* KEY_RESIZE is on its way and will have them drawn.  The comparison of sizes in
\* hasResized alone would miss a size that changed and changed back within a
\* pass, after which ncurses may have moved the windows.
ResizeNoticed == pc = "check" => fresh = Panels \/ pushed

\* Where each panel belongs.
Layout ==
  LET y == size.lines \div 2 - (H + 1)
      x == size.cols \div 2 - (2 * W + 1)
  IN  [playfield |-> Window(y, x, 2 * H + 2, 4 * W + 2),
       nextShape |-> Window(y, x + 4 * W + 2, 8, 14),
       controls  |-> Window(y, x - 20, 15, 20)]

\* On a terminal that has always been large enough, all panels that were drawn
\* for the size there is are in the middle and side by side: no move
\* was refused because of where a window stood, or what ncurses made of it.
CentredIfRoomy ==
  ~cramped => \A k \in fresh : windows[k] = Layout[k]

\* A game draws all its panels for the size the terminal ends up with.
ResizeIsDrawn == (pc # "menu" /\ fresh # Panels) ~> (fresh = Panels \/ pc = "menu")

=============================================================================
