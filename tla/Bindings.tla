------------------------------ MODULE Bindings ------------------------------
(***************************************************************************)
(* The bind maps of ui::input, and how cfg loads them from the "bindings"  *)
(* object of the config file and saves them to it.  In memory a map is a   *)
(* function from codes to binds, in the file a section is a function from  *)
(* names of binds to names of codes, so that both directions can lose.     *)
(* An enumerator is written as its own name.                               *)
(***************************************************************************)
EXTENDS Integers, Sequences

CONSTANTS
  EditSections, (* the sections a user may write in the file *)
  EditNames,    (* the names of binds ...                    *)
  EditCodes     (* ... and of codes a user may write there   *)

\* enum class code.  std::map iterates over its codes in this order.
CodeOrder ==
  << "KEY_A", "KEY_B", "KEY_C", "KEY_D", "KEY_E", "KEY_F", "KEY_G", "KEY_H",
     "KEY_I", "KEY_J", "KEY_K", "KEY_L", "KEY_M", "KEY_N", "KEY_O", "KEY_P",
     "KEY_Q", "KEY_R", "KEY_S", "KEY_T", "KEY_U", "KEY_V", "KEY_W", "KEY_X",
     "KEY_Y", "KEY_Z", "KEY_SPACE", "KEY_RETURN", "KEY_ARROW_UP",
     "KEY_ARROW_DOWN", "KEY_ARROW_LEFT", "KEY_ARROW_RIGHT", "ERROR",
     "NOT_IMPLEMENTED" >>

Codes == {CodeOrder[i] : i \in DOMAIN CodeOrder}

\* What ncursesToLocalCode makes of a key it knows.
Keys == Codes \ {"ERROR", "NOT_IMPLEMENTED"}

\* The keys of a JSON object are iterated in alphabetical order.  FIRE and JUMP
\* stand for names the program does not know.
NameOrder ==
  << "FIRE", "GAME_DOWN", "GAME_DROP", "GAME_LEFT", "GAME_PAUSE", "GAME_QUIT",
     "GAME_RIGHT", "GAME_ROTATE", "JUMP", "MENU_NEXT", "MENU_PREV",
     "MENU_SELECT", "NONE" >>

Names == {NameOrder[i] : i \in DOMAIN NameOrder}

NamedBinds == Names \ {"FIRE", "JUMP", "NONE"}

\* enum class bind.
Binds == NamedBinds \cup {"GAME_NO_ACTION", "NONE"}

Maps == {"GAME", "MENU"}

ASSUME EditAssumption == EditNames \subseteq Names

-----------------------------------------------------------------------------
(* The name tables. *)

\* Mutant: a case of the switch is missing.
NoPauseToString(bind) == IF bind \in NamedBinds \ {"GAME_PAUSE"} THEN bind ELSE "NONE"

\* GAME_NO_ACTION has no name.
bindToString(bind) == IF bind \in NamedBinds THEN bind ELSE "NONE"

stringToBind(name) == IF name \in NamedBinds THEN name ELSE "NONE"

codeToString(code) == IF code \in Codes THEN code ELSE "NOT_IMPLEMENTED"

stringToCode(name) == IF name \in Codes THEN name ELSE "NOT_IMPLEMENTED"

stringToMap(name) == IF name \in Maps THEN name ELSE "NONE"

-----------------------------------------------------------------------------
(* The bind maps in memory. *)

NoBinds == [m \in {} |-> {}]

setBind(bindings, currentMap, bind, code) ==
  IF currentMap = "NONE" THEN bindings
  ELSE LET old == IF currentMap \in DOMAIN bindings
                    THEN bindings[currentMap] ELSE NoBinds
       IN  [m \in DOMAIN bindings \cup {currentMap} |->
              IF m # currentMap THEN bindings[m]
              ELSE [c \in DOMAIN old \cup {code} |-> IF c = code THEN bind ELSE old[c]]]

getBind(bindings, currentMap, code) ==
  IF currentMap \in DOMAIN bindings /\ code \in DOMAIN bindings[currentMap]
    THEN bindings[currentMap][code]
    ELSE "NONE"

\* typedef bindMap.
BindMap(bindings) ==
  /\ DOMAIN bindings \subseteq Maps
  /\ \A m \in DOMAIN bindings :
       /\ DOMAIN bindings[m] \subseteq Codes
       /\ \A c \in DOMAIN bindings[m] : bindings[m][c] \in Binds

\* "values that must have for correct game function".
MustHave(bindings) == getBind(bindings, "GAME", "ERROR") = "GAME_NO_ACTION"

\* bindings.at(currentMap) throws when the map is not there.
ReverseBindThrows(bindings, currentMap) == currentMap \notin DOMAIN bindings

\* What every key does, in the game and in the menu.
KeyMap(bindings) == [m \in Maps |-> [c \in Keys |-> getBind(bindings, m, c)]]

Defaults ==
  [GAME |-> [KEY_H |-> "GAME_LEFT", KEY_J |-> "GAME_DOWN", KEY_K |-> "GAME_RIGHT",
             KEY_SPACE |-> "GAME_DROP", KEY_R |-> "GAME_ROTATE",
             KEY_Q |-> "GAME_QUIT", ERROR |-> "GAME_NO_ACTION"],
   MENU |-> [KEY_J |-> "MENU_NEXT", KEY_K |-> "MENU_PREV",
             KEY_RETURN |-> "MENU_SELECT"]]

-----------------------------------------------------------------------------
(* The file. *)

\* No file, an empty one, or one without "bindings".
Unset == [kind |-> "unset", sections |-> NoBinds]

\* json::parse or a conversion throws, and nothing catches it.
Broken == [kind |-> "broken", sections |-> NoBinds]

Holding(sections) == [kind |-> "binds", sections |-> sections]

UserSections == UNION {[S -> EditCodes] : S \in SUBSET EditNames}

UserFiles ==
  {Unset} \cup
    {Holding(f) : f \in UNION {[T -> UserSections] : T \in SUBSET EditSections}}

\* The last element of S in an order: the one whose assignment stays.
LastOf(S, order) ==
  order[CHOOSE i \in DOMAIN order :
          order[i] \in S /\ \A j \in DOMAIN order : order[j] \in S => j <= i]

\* The binds a section gives to a map that has none: of the names that give a
\* code, the last one assigned to it.
LoadedSection(section) ==
  [c \in {stringToCode(section[n]) : n \in DOMAIN section} |->
     stringToBind(LastOf({n \in DOMAIN section : stringToCode(section[n]) = c}, NameOrder))]

\* Mutant: sections of unknown name are loaded too.
AllSections(sections) == [m \in DOMAIN sections |-> LoadedSection(sections[m])]

\* Sections of unknown name are skipped, empty ones set no bind.
LoadedMaps(sections) ==
  LET maps == {m \in DOMAIN sections : stringToMap(m) # "NONE" /\ DOMAIN sections[m] # {}}
  IN  [m \in maps |-> LoadedSection(sections[m])]

\* Mutant: the values the game must have are not set.
BareLoad(file) == IF file.kind = "unset" THEN Defaults ELSE LoadedMaps(file.sections)

\* loadBindings, on a file that parses, at the start of the program.
loadBindings(file) ==
  IF file.kind = "unset" THEN Defaults
  ELSE setBind(LoadedMaps(file.sections), "GAME", "GAME_NO_ACTION", "ERROR")

\* The codes saveBindings does not skip.
SavedCodes(map) == {c \in DOMAIN map : c \notin {"ERROR", "NOT_IMPLEMENTED"}}

\* Of the codes with one name, the last one assigned to it stays.
SavedSection(map) ==
  [n \in {bindToString(map[c]) : c \in SavedCodes(map)} |->
     codeToString(LastOf({c \in SavedCodes(map) : bindToString(map[c]) = n}, CodeOrder))]

\* Mutant: only the binds of the game are saved.
SaveGameOnly(bindings) == Holding([m \in {"GAME"} |-> SavedSection(bindings[m])])

\* A map all of whose codes are skipped makes no section; no sections at all
\* are saved as null, which loads like an empty object.
saveBindings(bindings) ==
  Holding([m \in {k \in DOMAIN bindings : SavedCodes(bindings[k]) # {}} |->
             SavedSection(bindings[m])])

=============================================================================
