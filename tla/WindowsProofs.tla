---------------------------- MODULE WindowsProofs ----------------------------
(***************************************************************************)
(* The windows of a game, for boards and terminals of any size and for any *)
(* number of keys and changes of size.                                     *)
(***************************************************************************)
EXTENDS Windows, TLAPS

-----------------------------------------------------------------------------
(* The inductive invariant. *)

\* A window, and what the map may hold.
Sound(win) ==
  /\ win = Window(win.y, win.x, win.h, win.w)
  /\ win.y \in Nat /\ win.x \in Nat
  /\ win.h \in Nat \ {0} /\ win.w \in Nat \ {0}

Known(win) == win = Absent \/ win = NULL \/ Sound(win)

Terminal ==
  /\ size \in Sizes
  /\ DOMAIN windows = Panels
  /\ \A k \in Panels : Known(windows[k])
  /\ pushed \in BOOLEAN /\ cramped \in BOOLEAN
  /\ resizes \in 0 .. MaxResizes
  /\ fresh \subseteq Panels
  /\ fresh # {} => "playfield" \in fresh

Control ==
  /\ seen.lines \in Lines \cup {-1}
  /\ seen.cols \in Cols \cup {-1}
  /\ keys \in 0 .. MaxKeys
  /\ pc \in Panels \cup {"menu", "check", "fetch", "keys", "lockout", "gravity",
                         "clear", "flush"}
  /\ after \in {"menu", "check", "fetch", "keys", "gravity"}
  /\ pc \in {"nextShape", "controls"} => windows["playfield"] # Absent

\* The panels a draw has behind it are drawn for the size there is, unless
\* KEY_RESIZE waits; the fetch turns it into a key, and a key into a draw.
Noticed ==
  /\ pc \in {"check", "fetch", "lockout", "gravity", "flush"} => fresh = Panels \/ pushed
  /\ pc = "keys" => keys > 0 \/ fresh = Panels \/ pushed
  /\ pc = "nextShape" => "playfield" \in fresh \/ pushed
  /\ pc = "controls" => {"playfield", "nextShape"} \subseteq fresh \/ pushed

\* The heights and widths the windows are made with.
Height == [playfield |-> 2 * H + 2, nextShape |-> 8, controls |-> 15]
Width == [playfield |-> 4 * W + 2, nextShape |-> 14, controls |-> 20]

\* A window that ncurses has left as large as it was made.
Whole(win, k) ==
  /\ win = Window(win.y, win.x, Height[k], Width[k])
  /\ win.y \in Nat /\ win.x \in Nat
  /\ k = "playfield" => win.x >= 20

Centred ==
  ~cramped => /\ Roomy(size)
              /\ \A k \in Panels : windows[k] = Absent \/ Whole(windows[k], k)
              /\ \A k \in fresh : windows[k] = Layout[k]

Inv == Terminal /\ Control /\ Noticed /\ Centred

-----------------------------------------------------------------------------
(* ncurses. *)

Measured(s) == s.lines \in Nat \ {0} /\ s.cols \in Nat \ {0}

\* A screen that a window of the size of panel k does not fill.
Over(s, k) == Measured(s) /\ s.lines > Height[k] /\ s.cols > Width[k]

\* The fields of a window.
LEMMA WindowFields ==
  ASSUME NEW y, NEW x, NEW h, NEW w
  PROVE  /\ Window(y, x, h, w).y = y /\ Window(y, x, h, w).x = x
         /\ Window(y, x, h, w).h = h /\ Window(y, x, h, w).w = w
         /\ Window(y, x, h, w) # Absent
         /\ Window(y, x, h, w) = NULL => y = -1
<1>1. Window(y, x, h, w).made = TRUE /\ Absent.made = FALSE
  BY DEF Window, Absent
<1>2. NULL.y = -1
  BY DEF NULL
<1> QED
  BY <1>1, <1>2 DEF Window

\* Absent and NULL are two things, and no window is one of them.
LEMMA KindsDiffer ==
  /\ Absent # NULL
  /\ \A win : Sound(win) => win # Absent /\ win # NULL
  /\ \A win, k : Whole(win, k) => win # Absent /\ win # NULL
<1>1. Absent.made = FALSE /\ NULL.made = TRUE /\ NULL.y = -1
  BY DEF Absent, NULL
<1>2. ASSUME NEW win, win = Window(win.y, win.x, win.h, win.w), win.y \in Nat
      PROVE  win # Absent /\ win # NULL
  BY <1>1, <1>2, WindowFields
<1>3. ASSUME NEW win, NEW k, Whole(win, k)
      PROVE  win # Absent /\ win # NULL
  BY <1>1, <1>3, WindowFields DEF Whole
<1> QED
  BY <1>1, <1>2, <1>3 DEF Sound

\* A change of the screen leaves a window a window.
LEMMA AdjustIsSound ==
  ASSUME NEW win, Sound(win), NEW to, Measured(to), NEW cur, Measured(cur)
  PROVE  Sound(adjust_window(win, to, cur))
<1> DEFINE below  == win.y >= cur.lines
           height == IF ~below /\ win.h = cur.lines THEN to.lines ELSE win.h
           width  == LeastOf(win.w, to.cols)
           y == IF below THEN win.y + to.lines - cur.lines ELSE win.y
           h == LeastOf(height, to.lines)
           w == IF width = cur.cols THEN to.cols ELSE width
<1>1. y \in Nat /\ h \in Nat \ {0} /\ w \in Nat \ {0}
  BY DEF Sound, Measured, LeastOf
<1>2. adjust_window(win, to, cur) = Window(y, win.x, h, w)
  BY DEF adjust_window
<1> HIDE DEF y, h, w
<1> QED
  BY <1>1, <1>2, WindowFields DEF Sound

\* It leaves a window that does not fill the screen as large as it was, and in
\* its columns.
LEMMA AdjustIsWhole ==
  ASSUME NEW k \in Panels, NEW win, Whole(win, k),
         NEW to, Over(to, k), NEW cur, Over(cur, k)
  PROVE  Whole(adjust_window(win, to, cur), k)
<1> DEFINE y == IF win.y >= cur.lines THEN win.y + to.lines - cur.lines ELSE win.y
<1>1. y \in Nat
  BY DEF Whole, Over, Measured
<1>2. win.h = Height[k] /\ win.w = Width[k] /\ win.x \in Nat
  BY WindowFields DEF Whole
<1>3. Height[k] \in Nat /\ Width[k] \in Nat
  BY WindowsAssumption DEF Panels, Height, Width
<1>4. adjust_window(win, to, cur) = Window(y, win.x, Height[k], Width[k])
  BY <1>2, <1>3 DEF adjust_window, Over, Measured, LeastOf
<1> HIDE DEF y
<1> QED
  BY <1>1, <1>2, <1>4, WindowFields DEF Whole

\* The sizes a change goes through.
Taller(to) == [size EXCEPT !.lines = IF to.lines > @ THEN to.lines ELSE @]
Larger(to) == [Taller(to) EXCEPT !.cols = IF to.cols > @ THEN to.cols ELSE @]

\* Neither is smaller than both ends of the change.
LEMMA Through ==
  ASSUME size \in Sizes, Measured(size), NEW to, Measured(to)
  PROVE  /\ Measured(Taller(to)) /\ Measured(Larger(to))
         /\ \A k \in Panels : Over(size, k) /\ Over(to, k)
                                => Over(Taller(to), k) /\ Over(Larger(to), k)
<1>1. /\ Taller(to).lines \in {size.lines, to.lines} /\ Taller(to).cols = size.cols
      /\ Larger(to).lines = Taller(to).lines /\ Larger(to).cols \in {size.cols, to.cols}
  BY DEF Sizes, Taller, Larger
<1> QED
  BY <1>1 DEF Measured, Over

\* resize_term leaves a window a window.
LEMMA ResizeIsSound ==
  ASSUME size \in Sizes, Measured(size), NEW to, Measured(to), NEW win, Sound(win)
  PROVE  Sound(resize_term(win, to))
<1> DEFINE one == IF Taller(to) # size THEN adjust_window(win, Taller(to), size) ELSE win
           two == IF Larger(to) # Taller(to) THEN adjust_window(one, Larger(to), Taller(to)) ELSE one
<1>1. resize_term(win, to) = IF to # Larger(to) THEN adjust_window(two, to, Larger(to)) ELSE two
  BY DEF resize_term, Taller, Larger
<1>2. Sound(one)
  BY Through, AdjustIsSound
<1> HIDE DEF one
<1>3. Sound(two)
  BY <1>2, Through, AdjustIsSound
<1> HIDE DEF two
<1> QED
  BY <1>1, <1>3, Through, AdjustIsSound

\* Between roomy sizes it leaves a panel as large as it was, and in its columns.
LEMMA ResizeIsWhole ==
  ASSUME size \in Sizes, Measured(size), NEW to, Measured(to),
         NEW k \in Panels, Over(size, k), Over(to, k), NEW win, Whole(win, k)
  PROVE  Whole(resize_term(win, to), k)
<1> DEFINE one == IF Taller(to) # size THEN adjust_window(win, Taller(to), size) ELSE win
           two == IF Larger(to) # Taller(to) THEN adjust_window(one, Larger(to), Taller(to)) ELSE one
<1>1. resize_term(win, to) = IF to # Larger(to) THEN adjust_window(two, to, Larger(to)) ELSE two
  BY DEF resize_term, Taller, Larger
<1>2. Whole(one, k)
  BY Through, AdjustIsWhole
<1> HIDE DEF one
<1>3. Whole(two, k)
  BY <1>2, Through, AdjustIsWhole
<1> HIDE DEF two
<1> QED
  BY <1>1, <1>3, Through, AdjustIsWhole

\* A size the terminal may have can be calculated with.
LEMMA SizesAreMeasured == \A s \in Sizes : Measured(s)
BY WindowsAssumption DEF Sizes, Measured

\* On a roomy terminal no panel fills the screen, and each has its place on it.
LEMMA RoomyHolds ==
  ASSUME NEW s \in Sizes, Roomy(s), NEW k \in Panels
  PROVE  Over(s, k)
<1>1. /\ s.lines > 2 * H + 2 /\ s.lines > 15
      /\ s.cols \div 2 - (2 * W + 1) >= 20
      /\ s.lines \in Nat /\ s.cols \in Nat
  BY SizesAreMeasured DEF Roomy, Measured
<1>2. s.cols > 4 * W + 2 /\ s.cols > 20
  BY <1>1, WindowsAssumption
<1>3. Height[k] \in {2 * H + 2, 8, 15} /\ Width[k] \in {4 * W + 2, 14, 20}
  BY DEF Panels, Height, Width
<1> QED
  BY <1>1, <1>2, <1>3, SizesAreMeasured, WindowsAssumption DEF Over

\* newwin makes a window or gives NULL.
LEMMA NewIsKnown ==
  ASSUME NEW h \in Nat \ {0}, NEW w \in Nat \ {0}, NEW y \in Int, NEW x \in Int
  PROVE  newwin(h, w, y, x) = NULL \/ Sound(newwin(h, w, y, x))
BY WindowFields DEF newwin, Sound

\* mvwin moves a window or leaves it where it is.
LEMMA MovedOrNot ==
  ASSUME NEW win, NEW v, NEW u, NEW h, NEW w, win = Window(v, u, h, w),
         win # NULL, NEW y, NEW x
  PROVE  mvwin(win, y, x) = IF y < 0 \/ x < 0 \/ y + h > size.lines \/ x + w > size.cols
                              THEN win ELSE Window(y, x, h, w)
<1>1. PICK moved : moved = [win EXCEPT !.y = y, !.x = x]
  OBVIOUS
<1>2. moved = Window(y, x, h, w)
  BY <1>1, Zenon DEF Window
<1>3. win.h = h /\ win.w = w
  BY WindowFields
<1> QED
  BY <1>1, <1>2, <1>3 DEF mvwin

\* A window stays one, and NULL stays NULL.
LEMMA MovedIsKnown ==
  ASSUME NEW win, win = NULL \/ Sound(win), NEW y \in Int, NEW x \in Int
  PROVE  mvwin(win, y, x) = win \/ Sound(mvwin(win, y, x))
<1>1. CASE win = NULL
  BY <1>1 DEF mvwin
<1>2. CASE Sound(win) /\ win # NULL
  <2>1. PICK v, u, h, w : win = Window(v, u, h, w) /\ h \in Nat \ {0} /\ w \in Nat \ {0}
    BY <1>2 DEF Sound
  <2>2. \/ mvwin(win, y, x) = win
        \/ mvwin(win, y, x) = Window(y, x, h, w) /\ y \in Nat /\ x \in Nat
    BY <1>2, <2>1, MovedOrNot
  <2> QED
    BY <2>1, <2>2, WindowFields DEF Sound
<1> QED
  BY <1>1, <1>2

-----------------------------------------------------------------------------
(* Changes of size, and the drawing of a panel. *)

\* Resize keeps what the terminal and the windows are, and forgets what was
\* drawn if the size is another.
LEMMA ResizeTerminal ==
  ASSUME Terminal, NEW s \in Sizes, NEW wins, NEW drawn, Resize(s, wins, drawn),
         \A k \in Panels : Known(wins[k]),
         drawn \subseteq Panels, drawn # {} => "playfield" \in drawn,
         pushed' \in BOOLEAN
  PROVE  /\ Terminal'
         /\ \A k \in Panels : wins[k] # Absent => windows'[k] # Absent
         /\ fresh' = drawn \/ s # size
<1>1. Measured(size) /\ Measured(s) /\ size \in Sizes
  BY SizesAreMeasured DEF Terminal
<1>2. ASSUME NEW k \in Panels
      PROVE  Known(windows'[k]) /\ (wins[k] # Absent => windows'[k] # Absent)
  <2>1. windows'[k] = IF s = size \/ wins[k] \in {Absent, NULL} THEN wins[k]
                      ELSE resize_term(wins[k], s)
    BY DEF Resize
  <2>2. CASE s = size \/ wins[k] \in {Absent, NULL}
    BY <2>1, <2>2
  <2>3. CASE ~(s = size \/ wins[k] \in {Absent, NULL})
    <3>1. Sound(wins[k])
      BY <2>3 DEF Known
    <3>2. Sound(resize_term(wins[k], s))
      BY <1>1, <3>1, ResizeIsSound
    <3> QED
      BY <2>1, <2>3, <3>2, KindsDiffer DEF Known
  <2> QED
    BY <2>2, <2>3
<1>3. resizes' \in 0 .. MaxResizes
  BY WindowsAssumption DEF Terminal, Resize
<1>4. size' \in Sizes /\ DOMAIN windows' = Panels /\ cramped' \in BOOLEAN
  BY DEF Terminal, Resize
<1>5. fresh' \subseteq Panels /\ (fresh' # {} => "playfield" \in fresh')
  BY DEF Resize
<1> QED
  BY <1>2, <1>3, <1>4, <1>5 DEF Terminal, Resize

\* On a terminal that stays roomy the panels stay as large as they were made,
\* and where they were drawn as long as the size stays.
LEMMA ResizeCentred ==
  ASSUME Terminal, NEW s \in Sizes, NEW wins, NEW drawn, Resize(s, wins, drawn),
         ~cramped => /\ Roomy(size)
                     /\ \A k \in Panels : wins[k] = Absent \/ Whole(wins[k], k)
                     /\ \A k \in drawn : wins[k] = Layout[k],
         drawn \subseteq Panels
  PROVE  Centred'
<1>1. SUFFICES ASSUME ~cramped'
               PROVE  /\ Roomy(size')
                      /\ \A k \in Panels : windows'[k] = Absent \/ Whole(windows'[k], k)
                      /\ \A k \in fresh' : windows'[k] = Layout'[k]
  BY DEF Centred, Whole, Height, Width
<1>2. ~cramped /\ Roomy(size) /\ Roomy(s) /\ size' = s
  BY <1>1 DEF Resize
<1>3. Measured(size) /\ Measured(s) /\ size \in Sizes
  BY SizesAreMeasured DEF Terminal
<1>4. ASSUME NEW k \in Panels
      PROVE  windows'[k] = Absent \/ Whole(windows'[k], k)
  <2>1. windows'[k] = IF s = size \/ wins[k] \in {Absent, NULL} THEN wins[k]
                      ELSE resize_term(wins[k], s)
    BY DEF Resize
  <2>2. wins[k] = Absent \/ Whole(wins[k], k)
    BY <1>2
  <2>3. CASE s = size \/ wins[k] \in {Absent, NULL}
    BY <2>1, <2>2, <2>3
  <2>4. CASE ~(s = size \/ wins[k] \in {Absent, NULL})
    <3>1. Whole(resize_term(wins[k], s), k)
      BY <1>2, <1>3, <2>2, <2>4, RoomyHolds, ResizeIsWhole
    <3> QED
      BY <2>1, <2>4, <3>1
  <2> QED
    BY <2>3, <2>4
<1>5. ASSUME NEW k \in fresh'
      PROVE  windows'[k] = Layout'[k]
  <2>1. s = size /\ k \in drawn
    BY <1>5 DEF Resize
  <2>2. windows'[k] = wins[k]
    BY <2>1 DEF Resize
  <2>3. Layout' = Layout
    BY <1>2, <2>1 DEF Layout
  <2> QED
    BY <1>2, <2>1, <2>2, <2>3
<1> QED
  BY <1>2, <1>4, <1>5

\* The window a panel is drawn in.
Made(panel, h, w, y, x) ==
  IF windows[panel] = Absent THEN newwin(h, w, y, x) ELSE windows[panel]

Placed(panel, h, w, y, x) == mvwin(Made(panel, h, w, y, x), y, x)

\* Drawing a panel puts its window into the map, with or without a refresh.
LEMMA PanelStep ==
  ASSUME NEW panel, NEW h, NEW w, NEW y, NEW x, DrawPanel(panel, h, w, y, x)
  PROVE  LET wins == [windows EXCEPT ![panel] = Placed(panel, h, w, y, x)]
         IN  \/ /\ Placed(panel, h, w, y, x) = NULL
                /\ windows' = wins /\ fresh' = Drawn(panel)
                /\ UNCHANGED <<size, pushed, resizes, cramped>>
             \/ Refresh(wins, Drawn(panel))
BY DEF DrawPanel, Placed, Made

\* A refresh keeps what the terminal is, and pushes a key if the size changes.
LEMMA RefreshTerminal ==
  ASSUME Terminal, NEW wins, NEW drawn, Refresh(wins, drawn),
         \A k \in Panels : Known(wins[k]),
         drawn \subseteq Panels, drawn # {} => "playfield" \in drawn
  PROVE  /\ Terminal'
         /\ \A k \in Panels : wins[k] # Absent => windows'[k] # Absent
         /\ fresh' = drawn \/ pushed'
         /\ pushed => pushed'
<1>1. PICK s \in Sizes : /\ Resize(s, wins, drawn)
                         /\ pushed' \in IF s = size THEN {pushed, TRUE} ELSE {TRUE}
  BY DEF Refresh
<1>2. /\ pushed' \in BOOLEAN
      /\ s # size => pushed'
      /\ pushed => pushed'
  BY <1>1 DEF Terminal
<1>3. /\ Terminal'
      /\ \A k \in Panels : wins[k] # Absent => windows'[k] # Absent
      /\ fresh' = drawn \/ s # size
  BY <1>1, <1>2, ResizeTerminal
<1> QED
  BY <1>2, <1>3

\* Drawing a panel keeps what the terminal is.
LEMMA PanelTerminal ==
  ASSUME Terminal, NEW panel \in Panels,
         NEW h \in Nat \ {0}, NEW w \in Nat \ {0}, NEW y \in Int, NEW x \in Int,
         DrawPanel(panel, h, w, y, x)
  PROVE  /\ Terminal'
         /\ windows'[panel] # Absent
         /\ \A k \in Panels : windows[k] # Absent => windows'[k] # Absent
         /\ fresh' = Drawn(panel) \/ pushed'
         /\ pushed => pushed'
<1> DEFINE win == Placed(panel, h, w, y, x)
           wins == [windows EXCEPT ![panel] = win]
<1>1. win = NULL \/ Sound(win)
  <2>1. Made(panel, h, w, y, x) = NULL \/ Sound(Made(panel, h, w, y, x))
    BY NewIsKnown DEF Terminal, Known, Made
  <2> QED
    BY <2>1, MovedIsKnown DEF Placed
<1>2. \/ /\ win = NULL
         /\ windows' = wins /\ fresh' = Drawn(panel)
         /\ UNCHANGED <<size, pushed, resizes, cramped>>
      \/ Refresh(wins, Drawn(panel))
  BY PanelStep
<1> HIDE DEF win
<1>3. /\ DOMAIN wins = Panels /\ wins[panel] = win
      /\ \A k \in Panels \ {panel} : wins[k] = windows[k]
  BY DEF Terminal
<1>4. /\ \A k \in Panels : Known(wins[k])
      /\ \A k \in Panels : windows[k] # Absent => wins[k] # Absent
      /\ wins[panel] # Absent
  BY <1>1, <1>3, KindsDiffer DEF Terminal, Known
<1>5. Drawn(panel) \subseteq Panels /\ (Drawn(panel) # {} => "playfield" \in Drawn(panel))
  BY DEF Terminal, Drawn, Panels
<1> HIDE DEF wins
<1>6. CASE windows' = wins /\ fresh' = Drawn(panel)
             /\ UNCHANGED <<size, pushed, resizes, cramped>>
  BY <1>3, <1>4, <1>5, <1>6 DEF Terminal, wins
<1>7. CASE Refresh(wins, Drawn(panel))
  BY <1>4, <1>5, <1>7, RefreshTerminal
<1> QED
  BY <1>2, <1>6, <1>7

\* On a terminal that stays roomy it keeps the panels whole and in their places,
\* if the window it draws is whole and, beside a playfield in its place, in its.
LEMMA PanelCentred ==
  ASSUME Terminal, Centred, NEW panel \in Panels,
         NEW h, NEW w, NEW y, NEW x, DrawPanel(panel, h, w, y, x),
         ~cramped => /\ Whole(Placed(panel, h, w, y, x), panel)
                     /\ panel \in Drawn(panel) =>
                          Placed(panel, h, w, y, x) = Layout[panel]
  PROVE  Centred'
<1> DEFINE win == Placed(panel, h, w, y, x)
           wins == [windows EXCEPT ![panel] = win]
<1>1. \/ /\ win = NULL
         /\ windows' = wins /\ fresh' = Drawn(panel)
         /\ UNCHANGED <<size, pushed, resizes, cramped>>
      \/ Refresh(wins, Drawn(panel))
  BY PanelStep
<1> HIDE DEF win
<1>2. /\ DOMAIN wins = Panels /\ wins[panel] = win
      /\ \A k \in Panels \ {panel} : wins[k] = windows[k]
  BY DEF Terminal
<1> HIDE DEF wins
<1>3. ~cramped => win # NULL
  BY KindsDiffer DEF win
<1>4. ~cramped => /\ Roomy(size)
                  /\ \A k \in Panels : wins[k] = Absent \/ Whole(wins[k], k)
                  /\ \A k \in Drawn(panel) : wins[k] = Layout[k]
  BY <1>2 DEF Centred, Drawn, Terminal, win
<1>5. Drawn(panel) \subseteq Panels
  BY DEF Terminal, Drawn
<1>6. CASE win = NULL /\ UNCHANGED cramped
  BY <1>3, <1>6 DEF Centred
<1>7. CASE Refresh(wins, Drawn(panel))
  BY <1>4, <1>5, <1>7, ResizeCentred DEF Refresh
<1> QED
  BY <1>1, <1>6, <1>7

\* A panel at a place that is not above or to the left of the screen is drawn
\* whole, and there if that is on the screen.
LEMMA PlacedWhole ==
  ASSUME Measured(size),
         NEW panel \in Panels, windows[panel] = Absent \/ Whole(windows[panel], panel),
         NEW y \in Nat, NEW x \in Nat, panel = "playfield" => x >= 20
  PROVE  /\ Whole(Placed(panel, Height[panel], Width[panel], y, x), panel)
         /\ y + Height[panel] <= size.lines /\ x + Width[panel] <= size.cols
              => Placed(panel, Height[panel], Width[panel], y, x)
                   = Window(y, x, Height[panel], Width[panel])
<1> DEFINE h == Height[panel]
           w == Width[panel]
           made == Made(panel, h, w, y, x)
<1>1. h \in Nat \ {0} /\ w \in Nat \ {0}
  BY WindowsAssumption DEF Panels, Height, Width
<1> HIDE DEF h, w
<1>2. \A v \in Nat, u \in Nat : (panel = "playfield" => u >= 20)
                                  => Whole(Window(v, u, h, w), panel)
  BY WindowFields DEF Whole, h, w
<1>3. Whole(made, panel)
  <2>1. CASE windows[panel] = Absent
    <3>1. made = Window(y, x, h, w)
      BY <2>1 DEF Made, newwin
    <3> QED
      BY <1>2, <3>1
  <2>2. CASE windows[panel] # Absent
    BY <2>2 DEF Made
  <2> QED
    BY <2>1, <2>2
<1> HIDE DEF made
<1>4. PICK v, u : made = Window(v, u, h, w) /\ made # NULL
  BY <1>3, KindsDiffer DEF Whole, h, w
<1>5. mvwin(made, y, x) =
        IF y < 0 \/ x < 0 \/ y + h > size.lines \/ x + w > size.cols
          THEN made ELSE Window(y, x, h, w)
  BY <1>1, <1>4, MovedOrNot
<1>6. Placed(panel, h, w, y, x) = mvwin(made, y, x)
  BY DEF Placed, made
<1>7. Whole(Placed(panel, h, w, y, x), panel)
  BY <1>2, <1>3, <1>5, <1>6
<1>8. ASSUME y + h <= size.lines, x + w <= size.cols
      PROVE  Placed(panel, h, w, y, x) = Window(y, x, h, w)
  BY <1>1, <1>5, <1>6, <1>8 DEF Measured
<1> QED
  BY <1>7, <1>8 DEF h, w

\* Where the layout puts the panels on a roomy terminal.
LEMMA LayoutOnScreen ==
  ASSUME size \in Sizes, Roomy(size),
         NEW y, y = size.lines \div 2 - (H + 1),
         NEW x, x = size.cols \div 2 - (2 * W + 1)
  PROVE  /\ y \in Nat /\ x \in Nat /\ x >= 20
         /\ y + 2 * H + 2 <= size.lines /\ y + 8 <= size.lines /\ y + 15 <= size.lines
         /\ x + 4 * W + 2 + 14 <= size.cols
<1>1. size.lines \in Nat /\ size.cols \in Nat /\ H \in Nat \ {0} /\ W \in Nat \ {0}
  BY SizesAreMeasured, WindowsAssumption DEF Measured
<1>2. /\ size.lines > 2 * H + 2 /\ y + 15 <= size.lines /\ x >= 20
  BY DEF Roomy
<1>3. y \in Int /\ x \in Int
  BY <1>1
<1>4. y >= 0 /\ y + 2 * H + 2 <= size.lines
  BY <1>1, <1>2
<1>5. x + 4 * W + 2 + 14 <= size.cols
  BY <1>1, <1>2
<1> QED
  BY <1>1, <1>2, <1>3, <1>4, <1>5

\* The integers the panels are drawn with.
LEMMA Arguments ==
  ASSUME Terminal
  PROVE  /\ 2 * H + 2 \in Nat \ {0} /\ 4 * W + 2 \in Nat \ {0}
         /\ size.lines \div 2 - (H + 1) \in Int /\ size.cols \div 2 - (2 * W + 1) \in Int
         /\ \A win : win = NULL \/ Sound(win) =>
              win.y \in Int /\ win.x + win.w \in Int /\ win.x - 20 \in Int
<1>1. size.lines \in Nat /\ size.cols \in Nat /\ H \in Nat /\ W \in Nat
  BY SizesAreMeasured, WindowsAssumption DEF Measured, Terminal
<1>2. NULL.y = -1 /\ NULL.x = -1 /\ NULL.w = -1
  BY DEF NULL
<1> QED
  BY <1>1, <1>2 DEF Sound

-----------------------------------------------------------------------------
(* Every action keeps the invariant. *)

\* The playfield goes to the middle, from wherever it is.
LEMMA PlayfieldKeeps == ASSUME Inv, drawPlayfield PROVE Inv'
<1> DEFINE y == size.lines \div 2 - (H + 1)
           x == size.cols \div 2 - (2 * W + 1)
<1>1. /\ pc = "playfield" /\ pc' = "nextShape" /\ UNCHANGED <<seen, keys, after>>
      /\ DrawPanel("playfield", 2 * H + 2, 4 * W + 2, y, x)
  BY DEF drawPlayfield
<1>2. y \in Int /\ x \in Int /\ 2 * H + 2 \in Nat \ {0} /\ 4 * W + 2 \in Nat \ {0}
  BY Arguments DEF Inv
<1>3. ASSUME ~cramped
      PROVE  Placed("playfield", 2 * H + 2, 4 * W + 2, y, x) = Layout["playfield"]
             /\ Whole(Placed("playfield", 2 * H + 2, 4 * W + 2, y, x), "playfield")
  <2>1. Roomy(size) /\ (windows["playfield"] = Absent \/ Whole(windows["playfield"], "playfield"))
    BY <1>3 DEF Inv, Centred, Panels
  <2>2. /\ y \in Nat /\ x \in Nat /\ x >= 20
        /\ y + 2 * H + 2 <= size.lines /\ x + 4 * W + 2 + 14 <= size.cols
    BY <2>1, LayoutOnScreen DEF Inv, Terminal
  <2>3. Measured(size)
    BY SizesAreMeasured DEF Inv, Terminal
  <2>4. /\ Height["playfield"] = 2 * H + 2 /\ Width["playfield"] = 4 * W + 2
        /\ Layout["playfield"] = Window(y, x, 2 * H + 2, 4 * W + 2)
    BY DEF Height, Width, Layout
  <2> HIDE DEF y, x
  <2>5. /\ Whole(Placed("playfield", 2 * H + 2, 4 * W + 2, y, x), "playfield")
        /\ y + (2 * H + 2) <= size.lines /\ x + (4 * W + 2) <= size.cols =>
             Placed("playfield", 2 * H + 2, 4 * W + 2, y, x)
               = Window(y, x, 2 * H + 2, 4 * W + 2)
    BY <2>1, <2>2, <2>3, <2>4, PlacedWhole DEF Panels
  <2>6. y + (2 * H + 2) <= size.lines /\ x + (4 * W + 2) <= size.cols
    BY <2>2, <2>3, WindowsAssumption DEF Measured
  <2> QED
    BY <2>4, <2>5, <2>6
<1> HIDE DEF y, x
<1>4. /\ Terminal' /\ windows'["playfield"] # Absent
      /\ fresh' = Drawn("playfield") \/ pushed'
  BY <1>1, <1>2, PanelTerminal DEF Inv, Panels
<1>5. Centred'
  BY <1>1, <1>3, PanelCentred DEF Inv, Panels
<1>6. "playfield" \in Drawn("playfield")
  BY DEF Drawn
<1>7. Control'
  BY <1>1, <1>4 DEF Inv, Control, Panels
<1>8. Noticed'
  BY <1>1, <1>4, <1>6 DEF Noticed
<1> QED
  BY <1>4, <1>5, <1>7, <1>8 DEF Inv

\* What the two other panels are drawn beside.
LEMMA Beside ==
  ASSUME Inv, pc \in {"nextShape", "controls"}, NEW p, p = windows["playfield"]
  PROVE  /\ p.y \in Int /\ p.x + p.w \in Int /\ p.x - 20 \in Int
         /\ ~cramped => p.y \in Nat /\ p.x + p.w \in Nat /\ p.x - 20 \in Nat
<1>1. p = NULL \/ Sound(p)
  BY DEF Inv, Control, Terminal, Known, Panels
<1>2. p.y \in Int /\ p.x + p.w \in Int /\ p.x - 20 \in Int
  BY <1>1, Arguments DEF Inv
<1>3. ASSUME ~cramped
      PROVE  p.y \in Nat /\ p.x + p.w \in Nat /\ p.x - 20 \in Nat
  <2>1. Whole(p, "playfield")
    BY <1>3 DEF Inv, Control, Centred, Panels
  <2>2. p.w = 4 * W + 2
    BY <2>1, WindowFields DEF Whole, Width
  <2> QED
    BY <2>1, <2>2, WindowsAssumption DEF Whole
<1> QED
  BY <1>2, <1>3

\* The next shape goes to the right of the playfield, the controls to the left;
\* beside a playfield in its place that is theirs.
LEMMA BesideInPlace ==
  ASSUME Inv, ~cramped, "playfield" \in fresh,
         NEW p, p = windows["playfield"]
  PROVE  /\ Layout["nextShape"] = Window(p.y, p.x + p.w, 8, 14)
         /\ Layout["controls"] = Window(p.y, p.x - 20, 15, 20)
         /\ p.y + 8 <= size.lines /\ p.x + p.w + 14 <= size.cols
         /\ p.y + 15 <= size.lines /\ p.x - 20 + 20 <= size.cols
<1> DEFINE y == size.lines \div 2 - (H + 1)
           x == size.cols \div 2 - (2 * W + 1)
<1>1. p = Window(y, x, 2 * H + 2, 4 * W + 2)
  <2>1. p = Layout["playfield"]
    BY DEF Inv, Centred, Panels
  <2>2. Layout["playfield"] = Window(y, x, 2 * H + 2, 4 * W + 2)
    BY DEF Layout
  <2> QED
    BY <2>1, <2>2
<1>2. p.y = y /\ p.x = x /\ p.w = 4 * W + 2
  BY <1>1, WindowFields
<1>3. /\ y \in Nat /\ x \in Nat /\ x >= 20
      /\ y + 8 <= size.lines /\ y + 15 <= size.lines
      /\ x + 4 * W + 2 + 14 <= size.cols
  BY LayoutOnScreen DEF Inv, Terminal, Centred
<1>4. size.cols \in Nat /\ W \in Nat
  BY SizesAreMeasured, WindowsAssumption DEF Inv, Terminal, Measured
<1>5. /\ Layout["nextShape"] = Window(y, x + 4 * W + 2, 8, 14)
      /\ Layout["controls"] = Window(y, x - 20, 15, 20)
  BY DEF Layout
<1> HIDE DEF y, x
<1>6. x + (4 * W + 2) = x + 4 * W + 2 /\ x - 20 + 20 = x
  BY <1>3, <1>4
<1>7. x <= size.cols
  BY <1>3, <1>4
<1> QED
  BY <1>2, <1>3, <1>5, <1>6, <1>7

\* The next shape goes to the right of the playfield.
LEMMA NextShapeKeeps == ASSUME Inv, drawNextShape PROVE Inv'
<1>0. PICK p : p = windows["playfield"]
  OBVIOUS
<1>1. /\ pc = "nextShape" /\ pc' = "controls" /\ UNCHANGED <<seen, keys, after>>
      /\ DrawPanel("nextShape", 8, 14, p.y, p.x + p.w)
  BY <1>0 DEF drawNextShape
<1>2. /\ p.y \in Int /\ p.x + p.w \in Int
      /\ ~cramped => p.y \in Nat /\ p.x + p.w \in Nat
  BY <1>0, <1>1, Beside
<1>3. Height["nextShape"] = 8 /\ Width["nextShape"] = 14
  BY DEF Height, Width
<1>4. ASSUME ~cramped
      PROVE  /\ Whole(Placed("nextShape", 8, 14, p.y, p.x + p.w), "nextShape")
             /\ "nextShape" \in Drawn("nextShape") =>
                  Placed("nextShape", 8, 14, p.y, p.x + p.w) = Layout["nextShape"]
  <2>1. windows["nextShape"] = Absent \/ Whole(windows["nextShape"], "nextShape")
    BY <1>4 DEF Inv, Centred, Panels
  <2>2. /\ Whole(Placed("nextShape", 8, 14, p.y, p.x + p.w), "nextShape")
        /\ p.y + 8 <= size.lines /\ p.x + p.w + 14 <= size.cols =>
             Placed("nextShape", 8, 14, p.y, p.x + p.w) = Window(p.y, p.x + p.w, 8, 14)
    BY <1>2, <1>3, <1>4, <2>1, PlacedWhole, SizesAreMeasured DEF Inv, Terminal, Panels
  <2>3. "nextShape" \in Drawn("nextShape") => "playfield" \in fresh
    BY DEF Drawn, Inv, Terminal
  <2> QED
    BY <1>0, <1>4, <2>2, <2>3, BesideInPlace
<1>5. /\ Terminal'
      /\ windows["playfield"] # Absent => windows'["playfield"] # Absent
      /\ fresh' = Drawn("nextShape") \/ pushed'
      /\ pushed => pushed'
  BY <1>1, <1>2, PanelTerminal DEF Inv, Panels
<1>6. Centred'
  BY <1>1, <1>4, PanelCentred DEF Inv, Panels
<1>7. Control'
  BY <1>1, <1>5 DEF Inv, Control, Panels
<1>8. Noticed'
  BY <1>1, <1>5 DEF Inv, Noticed, Drawn
<1> QED
  BY <1>5, <1>6, <1>7, <1>8 DEF Inv

\* The controls go to the left of it.
LEMMA ControlsKeep == ASSUME Inv, drawControls PROVE Inv'
<1>0. PICK p : p = windows["playfield"]
  OBVIOUS
<1>1. /\ pc = "controls" /\ pc' = "flush" /\ UNCHANGED <<seen, keys, after>>
      /\ DrawPanel("controls", 15, 20, p.y, p.x - 20)
  BY <1>0 DEF drawControls
<1>2. /\ p.y \in Int /\ p.x - 20 \in Int
      /\ ~cramped => p.y \in Nat /\ p.x - 20 \in Nat
  BY <1>0, <1>1, Beside
<1>3. Height["controls"] = 15 /\ Width["controls"] = 20
  BY DEF Height, Width
<1>4. ASSUME ~cramped
      PROVE  /\ Whole(Placed("controls", 15, 20, p.y, p.x - 20), "controls")
             /\ "controls" \in Drawn("controls") =>
                  Placed("controls", 15, 20, p.y, p.x - 20) = Layout["controls"]
  <2>1. windows["controls"] = Absent \/ Whole(windows["controls"], "controls")
    BY <1>4 DEF Inv, Centred, Panels
  <2>2. /\ Whole(Placed("controls", 15, 20, p.y, p.x - 20), "controls")
        /\ p.y + 15 <= size.lines /\ p.x - 20 + 20 <= size.cols =>
             Placed("controls", 15, 20, p.y, p.x - 20) = Window(p.y, p.x - 20, 15, 20)
    BY <1>2, <1>3, <1>4, <2>1, PlacedWhole, SizesAreMeasured DEF Inv, Terminal, Panels
  <2>3. "controls" \in Drawn("controls") => "playfield" \in fresh
    BY DEF Drawn, Inv, Terminal
  <2> QED
    BY <1>0, <1>4, <2>2, <2>3, BesideInPlace
<1>5. /\ Terminal'
      /\ fresh' = Drawn("controls") \/ pushed'
      /\ pushed => pushed'
  <2>1. "controls" \in Panels /\ 15 \in Nat \ {0} /\ 20 \in Nat \ {0}
    BY DEF Panels
  <2>2. Terminal /\ DrawPanel("controls", 15, 20, p.y, p.x - 20)
    BY <1>1 DEF Inv
  <2> QED
    BY <1>2, <2>1, <2>2, PanelTerminal
<1>6. Centred'
  BY <1>1, <1>4, PanelCentred DEF Inv, Panels
<1>7. Control'
  BY <1>1, <1>5 DEF Inv, Control, Panels
<1>8. Noticed'
  BY <1>1, <1>5 DEF Inv, Terminal, Noticed, Drawn, Panels
<1> QED
  BY <1>5, <1>6, <1>7, <1>8 DEF Inv

\* A refresh of other windows: at the ends of drawGame, and in the menu.
LEMMA RefreshKeeps == ASSUME Inv, MenuDraw \/ Clear \/ Flush PROVE Inv'
<1>1. Refresh(windows, fresh) /\ UNCHANGED <<seen, keys, after>>
  BY DEF MenuDraw, Clear, Flush
<1>2. /\ Terminal'
      /\ fresh' = fresh \/ pushed'
      /\ pushed => pushed'
  BY <1>1, RefreshTerminal DEF Inv, Terminal
<1>3. Centred'
  BY <1>1, ResizeCentred DEF Refresh, Inv, Centred, Terminal
<1>4. Control'
  BY <1>1 DEF Inv, Control, Panels, MenuDraw, Clear, Flush
<1>5. Noticed'
  <2>1. CASE MenuDraw \/ Clear
    BY <2>1 DEF Noticed, MenuDraw, Clear
  <2>2. CASE Flush
    BY <1>2, <2>2 DEF Inv, Control, Noticed, Flush
  <2> QED
    BY <2>1, <2>2 DEF MenuDraw, Clear, Flush
<1> QED
  BY <1>2, <1>3, <1>4, <1>5 DEF Inv

\* The steps that leave the terminal alone.
LEMMA IdleKeeps ==
  ASSUME Inv, StartGame \/ GameOver \/ hasResized \/ Key \/ KeysDone \/ Lockout \/ Gravity
  PROVE  Inv'
<1>1. Idle /\ pc' \in {"menu", "fetch", "check", "clear", "lockout", "gravity"}
  BY DEF StartGame, GameOver, hasResized, Key, KeysDone, Lockout, Gravity, DrawGame
<1>2. Terminal' /\ Centred'
  BY <1>1 DEF Idle, Inv, Terminal, Centred, Layout
<1>3. Control'
  <2>1. seen' = seen \/ seen' = size
    BY DEF StartGame, GameOver, hasResized, Key, KeysDone, Lockout, Gravity
  <2>2. seen'.lines \in Lines \cup {-1} /\ seen'.cols \in Cols \cup {-1}
    BY <2>1 DEF Inv, Control, Terminal, Sizes
  <2>3. keys' \in 0 .. MaxKeys
    BY WindowsAssumption DEF Inv, Control, StartGame, GameOver, hasResized, Key, KeysDone, Lockout, Gravity
  <2>4. after' \in {"menu", "check", "fetch", "keys", "gravity"}
    BY DEF Inv, Control, StartGame, GameOver, hasResized, Key, KeysDone, Lockout, Gravity,
           DrawGame
  <2> QED
    BY <1>1, <2>2, <2>3, <2>4 DEF Control
<1>4. Noticed'
  BY <1>1 DEF Idle, Inv, Control, Noticed, StartGame, GameOver, hasResized, Key, KeysDone,
              Lockout, Gravity, DrawGame
<1> QED
  BY <1>2, <1>3, <1>4 DEF Inv

\* getch turns KEY_RESIZE into a key, and may push and fetch one itself.
LEMMA FetchKeeps == ASSUME Inv, Fetch PROVE Inv'
<1>1. PICK s \in Sizes, signal \in BOOLEAN :
        /\ s # size => signal
        /\ Resize(s, windows, fresh)
        /\ keys' \in {n \in keys .. MaxKeys : pushed \/ signal => n > 0}
  BY DEF Fetch
<1>2. /\ pc = "fetch" /\ pc' = "keys" /\ pushed' = FALSE /\ UNCHANGED <<seen, after>>
  BY DEF Fetch
<1>3. Terminal' /\ (fresh' = fresh \/ s # size)
  BY <1>1, <1>2, ResizeTerminal DEF Inv, Terminal
<1>4. Centred'
  BY <1>1, ResizeCentred DEF Inv, Centred, Terminal
<1>5. Control'
  <2>1. keys' \in 0 .. MaxKeys
    BY <1>1, WindowsAssumption DEF Inv, Control
  <2> QED
    BY <1>2, <2>1 DEF Inv, Control
<1>6. Noticed'
  BY <1>1, <1>2, <1>3 DEF Inv, Noticed
<1> QED
  BY <1>3, <1>4, <1>5, <1>6 DEF Inv

\* The menu's getch takes KEY_RESIZE away, but StartGame draws all panels anew.
LEMMA MenuFetchKeeps == ASSUME Inv, MenuFetch PROVE Inv'
<1>1. PICK s \in Sizes : Resize(s, windows, fresh)
  BY DEF MenuFetch
<1>2. pc = "menu" /\ pushed' = FALSE /\ UNCHANGED <<seen, keys, pc, after>>
  BY DEF MenuFetch
<1>3. Terminal'
  BY <1>1, <1>2, ResizeTerminal DEF Inv, Terminal
<1>4. Centred'
  BY <1>1, ResizeCentred DEF Inv, Centred, Terminal
<1>5. Control' /\ Noticed'
  BY <1>2 DEF Inv, Control, Noticed
<1> QED
  BY <1>3, <1>4, <1>5 DEF Inv

\* The invariant holds at the start.
LEMMA InitInv == Init => Inv
<1>1. SUFFICES ASSUME Init
               PROVE  Inv
  OBVIOUS
<1>2. Terminal
  <2>1. cramped \in BOOLEAN
    BY <1>1, Zenon DEF Init
  <2>2. pushed \in BOOLEAN /\ resizes = 0 /\ fresh = {}
    BY <1>1, Zenon DEF Init
  <2>3. DOMAIN windows = Panels /\ \A k \in Panels : windows[k] = Absent
    BY <1>1 DEF Init
  <2> QED
    BY <1>1, <2>1, <2>2, <2>3, WindowsAssumption DEF Init, Terminal, Known
<1>3. Control
  BY <1>1, WindowsAssumption DEF Init, Control
<1>4. Noticed
  BY <1>1 DEF Init, Noticed
<1>5. Centred
  BY <1>1 DEF Init, Centred
<1> QED
  BY <1>2, <1>3, <1>4, <1>5 DEF Inv

\* The invariant holds throughout.
LEMMA Invariance == Spec => []Inv
<1>1. Inv /\ [Next]_vars => Inv'
  <2>1. SUFFICES ASSUME Inv, [Next]_vars
                 PROVE  Inv'
    OBVIOUS
  <2>2. CASE StartGame \/ GameOver \/ hasResized \/ Key \/ KeysDone \/ Lockout \/ Gravity
    BY <2>1, <2>2, IdleKeeps
  <2>3. CASE MenuDraw \/ Clear \/ Flush
    BY <2>1, <2>3, RefreshKeeps
  <2>4. CASE Fetch
    BY <2>1, <2>4, FetchKeeps
  <2>5. CASE MenuFetch
    BY <2>1, <2>5, MenuFetchKeeps
  <2>6. CASE drawPlayfield \/ drawNextShape \/ drawControls
    BY <2>1, <2>6, PlayfieldKeeps, NextShapeKeeps, ControlsKeep
  <2>7. CASE UNCHANGED vars
    BY <2>1, <2>7 DEF vars, Inv, Terminal, Control, Noticed, Centred, Layout
  <2> QED
    BY <2>1, <2>2, <2>3, <2>4, <2>5, <2>6, <2>7 DEF Next, Pass
<1> QED
  BY <1>1, InitInv, PTL DEF Spec

-----------------------------------------------------------------------------
(* The theorems. *)

\* The variables hold what their comments say: no window is ever placed above
\* or to the left of the screen, whatever sizes the terminal goes through.
THEOREM TypeCorrect == Spec => []TypeOK
<1>1. Inv => TypeOK
  BY DEF Inv, Terminal, Control, Known, Sound, TypeOK
<1> QED
  BY <1>1, Invariance, PTL

\* No change of size is missed, whenever it comes, however many there are.
THEOREM NoResizeMissed == Spec => []ResizeNoticed
<1>1. Inv => ResizeNoticed
  BY DEF Inv, Noticed, ResizeNoticed
<1> QED
  BY <1>1, Invariance, PTL

\* The panels are in their places, on any roomy terminal.
THEOREM PanelsCentred == Spec => []CentredIfRoomy
<1>1. Inv => CentredIfRoomy
  BY DEF Inv, Centred, CentredIfRoomy
<1> QED
  BY <1>1, Invariance, PTL

==============================================================================
