--------------------------- MODULE BindingsProofs ---------------------------
(***************************************************************************)
(* What loading and saving do to the binds, for every file: the two are    *)
(* inverse to each other as far as the player and the next save can tell.  *)
(***************************************************************************)
EXTENDS Bindings, TLAPS, NaturalsInduction, WellFoundedInduction

\* What saveBindings makes of the binds of a map.
Saveable(map) ==
  /\ DOMAIN map \subseteq Codes
  /\ \A c \in SavedCodes(map) : map[c] \in NamedBinds \cup {"NONE"}
  /\ \A c, d \in SavedCodes(map) : map[c] = map[d] /\ map[c] # "NONE" => c = d

\* Binds that loadBindings can give: no name is bound to two codes.
Loaded(bindings) ==
  /\ BindMap(bindings)
  /\ "GAME" \in DOMAIN bindings
  /\ \A m \in DOMAIN bindings : Saveable(bindings[m])

\* A file that parses.
Readable(file) ==
  \/ file = Unset
  \/ /\ file = Holding(file.sections)
     /\ \A m \in DOMAIN file.sections : DOMAIN file.sections[m] \subseteq Names

-----------------------------------------------------------------------------
(* The last element in an order. *)

\* LastOf picks an element of the set, if the order has one.
LEMMA LastOfIsIn ==
  ASSUME NEW order, NEW n \in Nat, DOMAIN order = 1 .. n, NEW S,
         \E i \in DOMAIN order : order[i] \in S
  PROVE  LastOf(S, order) \in S
<1> DEFINE Back(i) == n - i
           Places == {i \in DOMAIN order : order[i] \in S}
           Backs == {Back(i) : i \in Places}
<1>1. Backs \subseteq Nat /\ Backs # {}
  OBVIOUS
<1>2. PICK b \in Backs : \A c \in Backs : <<c, b>> \notin OpToRel(<, Nat)
  BY <1>1, WFMin, NatLessThanWellFounded, Zenon
<1>3. \A c \in Backs : ~(c < b)
  BY <1>1, <1>2, Zenon DEF OpToRel
<1>4. PICK i \in Places : b = Back(i)
  OBVIOUS
<1>5. \A j \in DOMAIN order : order[j] \in S => j <= i
  <2>1. SUFFICES ASSUME NEW j \in DOMAIN order, order[j] \in S
                 PROVE  j <= i
    OBVIOUS
  <2>2. Back(j) \in Backs
    BY <2>1
  <2>3. ~(Back(j) < Back(i))
    BY <1>3, <1>4, <2>2
  <2> QED
    BY <2>3
<1> QED
  BY <1>4, <1>5 DEF LastOf

\* Every name and every code is in its order.
LEMMA OrdersAreComplete ==
  /\ DOMAIN NameOrder = 1 .. 13 /\ DOMAIN CodeOrder = 1 .. 34
  /\ \A S : S \subseteq Names /\ S # {} => LastOf(S, NameOrder) \in S
  /\ \A S : S \subseteq Codes /\ S # {} => LastOf(S, CodeOrder) \in S
<1>1. DOMAIN NameOrder = 1 .. 13
  BY DEF NameOrder
<1>2. DOMAIN CodeOrder = 1 .. 34
  BY DEF CodeOrder
<1>3. ASSUME NEW S, S \subseteq Names, S # {}
      PROVE  LastOf(S, NameOrder) \in S
  <2>1. \E i \in DOMAIN NameOrder : NameOrder[i] \in S
    BY <1>3 DEF Names
  <2> QED
    BY <1>1, <2>1, LastOfIsIn
<1>4. ASSUME NEW S, S \subseteq Codes, S # {}
      PROVE  LastOf(S, CodeOrder) \in S
  <2>1. \E i \in DOMAIN CodeOrder : CodeOrder[i] \in S
    BY <1>4 DEF Codes
  <2> QED
    BY <1>2, <2>1, LastOfIsIn
<1> QED
  BY <1>1, <1>2, <1>3, <1>4

\* The names the proofs speak of.
LEMMA NamesAndCodes ==
  /\ NamedBinds \subseteq Names \ {"NONE"}
  /\ "NONE" \in Names
  /\ "NOT_IMPLEMENTED" \in Codes /\ "ERROR" \in Codes
  /\ "GAME_NO_ACTION" \notin NamedBinds
<1>1. NameOrder[13] = "NONE" /\ CodeOrder[33] = "ERROR" /\ CodeOrder[34] = "NOT_IMPLEMENTED"
  BY DEF NameOrder, CodeOrder
<1>2. \A i \in 1 .. 13 : NameOrder[i] # "GAME_NO_ACTION"
  BY DEF NameOrder
<1> QED
  BY <1>1, <1>2, OrdersAreComplete DEF Names, Codes, NamedBinds

-----------------------------------------------------------------------------
(* Sections. *)

\* Saving a map keeps one of the codes of every name.
LEMMA SavedSectionKeepsNames ==
  ASSUME NEW map, Saveable(map)
  PROVE  /\ DOMAIN SavedSection(map) = {map[c] : c \in SavedCodes(map)}
         /\ \A n \in DOMAIN SavedSection(map) :
              /\ SavedSection(map)[n] \in SavedCodes(map)
              /\ map[SavedSection(map)[n]] = n
<1>1. \A c \in SavedCodes(map) : bindToString(map[c]) = map[c]
  BY DEF Saveable, bindToString
<1>2. SavedCodes(map) \subseteq Codes
  BY DEF Saveable, SavedCodes
<1>3. DOMAIN SavedSection(map) = {map[c] : c \in SavedCodes(map)}
  BY <1>1 DEF SavedSection
<1>4. ASSUME NEW n \in DOMAIN SavedSection(map)
      PROVE  /\ SavedSection(map)[n] \in SavedCodes(map)
             /\ map[SavedSection(map)[n]] = n
  <2> DEFINE Same == {c \in SavedCodes(map) : bindToString(map[c]) = n}
  <2>1. Same \subseteq Codes /\ Same # {}
    BY <1>2, <1>4 DEF SavedSection
  <2>2. LastOf(Same, CodeOrder) \in Same
    BY <2>1, OrdersAreComplete
  <2>3. SavedSection(map)[n] = LastOf(Same, CodeOrder)
    BY <1>2, <1>4, <2>2 DEF SavedSection, codeToString
  <2> QED
    BY <1>1, <2>2, <2>3
<1> QED
  BY <1>3, <1>4

\* Whatever a section names, no name ends up on two codes.
LEMMA LoadedSectionIsSaveable ==
  ASSUME NEW section, DOMAIN section \subseteq Names
  PROVE  /\ Saveable(LoadedSection(section))
         /\ \A c \in DOMAIN LoadedSection(section) :
              LoadedSection(section)[c] \in NamedBinds \cup {"NONE"}
<1> DEFINE map == LoadedSection(section)
           At(c) == {n \in DOMAIN section : stringToCode(section[n]) = c}
<1>1. DOMAIN map \subseteq Codes
  BY NamesAndCodes DEF LoadedSection, stringToCode
<1>2. ASSUME NEW c \in DOMAIN map
      PROVE  /\ LastOf(At(c), NameOrder) \in At(c)
             /\ map[c] = stringToBind(LastOf(At(c), NameOrder))
  <2>1. At(c) \subseteq Names /\ At(c) # {}
    BY <1>2 DEF LoadedSection
  <2> QED
    BY <1>2, <2>1, OrdersAreComplete DEF LoadedSection
<1>3. \A c \in DOMAIN map : map[c] \in NamedBinds \cup {"NONE"}
  BY <1>2 DEF stringToBind
<1>4. \A c, d \in DOMAIN map : map[c] = map[d] /\ map[c] # "NONE" => c = d
  <2>1. SUFFICES ASSUME NEW c \in DOMAIN map, NEW d \in DOMAIN map,
                        map[c] = map[d], map[c] # "NONE"
                 PROVE  c = d
    OBVIOUS
  <2>2. LastOf(At(c), NameOrder) = LastOf(At(d), NameOrder)
    BY <1>2, <2>1 DEF stringToBind
  <2> QED
    BY <1>2, <2>2
<1> QED
  BY <1>1, <1>3, <1>4 DEF Saveable, SavedCodes

\* A section with one code for every name is loaded as it is.
LEMMA LoadedSectionInverts ==
  ASSUME NEW section, DOMAIN section \subseteq NamedBinds \cup {"NONE"},
         \A n \in DOMAIN section : section[n] \in Codes,
         \A n, k \in DOMAIN section : section[n] = section[k] => n = k
  PROVE  /\ DOMAIN LoadedSection(section) = {section[n] : n \in DOMAIN section}
         /\ \A n \in DOMAIN section : LoadedSection(section)[section[n]] = n
<1>1. \A n \in DOMAIN section : stringToCode(section[n]) = section[n]
  BY DEF stringToCode
<1>2. DOMAIN LoadedSection(section) = {section[n] : n \in DOMAIN section}
  BY <1>1 DEF LoadedSection
<1>3. ASSUME NEW n \in DOMAIN section
      PROVE  LoadedSection(section)[section[n]] = n
  <2> DEFINE At == {k \in DOMAIN section : stringToCode(section[k]) = section[n]}
  <2>1. At = {n}
    BY <1>1
  <2>2. LastOf(At, NameOrder) \in At
    <3>1. At \subseteq Names /\ At # {}
      BY <2>1, NamesAndCodes
    <3> QED
      BY <3>1, OrdersAreComplete
  <2>3. LoadedSection(section)[section[n]] = stringToBind(LastOf(At, NameOrder))
    BY <1>2, <1>3 DEF LoadedSection
  <2> QED
    BY <2>1, <2>2, <2>3 DEF stringToBind
<1> QED
  BY <1>2, <1>3

-----------------------------------------------------------------------------
(* Files. *)

\* What the binds of a file set, before the values the game must have.
LEMMA LoadedMapsAreSaveable ==
  ASSUME NEW sections, \A m \in DOMAIN sections : DOMAIN sections[m] \subseteq Names
  PROVE  /\ DOMAIN LoadedMaps(sections) \subseteq Maps
         /\ \A m \in DOMAIN LoadedMaps(sections) :
              /\ Saveable(LoadedMaps(sections)[m])
              /\ \A c \in DOMAIN LoadedMaps(sections)[m] :
                   LoadedMaps(sections)[m][c] \in NamedBinds \cup {"NONE"}
<1>1. DOMAIN LoadedMaps(sections) \subseteq DOMAIN sections \cap Maps
  BY DEF LoadedMaps, stringToMap
<1>2. \A m \in DOMAIN LoadedMaps(sections) :
        LoadedMaps(sections)[m] = LoadedSection(sections[m])
  BY DEF LoadedMaps
<1> QED
  BY <1>1, <1>2, LoadedSectionIsSaveable

\* What the last setBind of loadBindings makes of the maps before it.
Completed(b, maps) ==
  LET old == IF "GAME" \in DOMAIN maps THEN maps["GAME"] ELSE NoBinds
  IN  /\ DOMAIN b = DOMAIN maps \cup {"GAME"}
      /\ \A m \in DOMAIN maps \ {"GAME"} : b[m] = maps[m]
      /\ DOMAIN b["GAME"] = DOMAIN old \cup {"ERROR"}
      /\ \A c \in DOMAIN old \ {"ERROR"} : b["GAME"][c] = old[c]
      /\ b["GAME"]["ERROR"] = "GAME_NO_ACTION"

\* setBind does that.
LEMMA MustHaveSet ==
  ASSUME NEW maps
  PROVE  Completed(setBind(maps, "GAME", "GAME_NO_ACTION", "ERROR"), maps)
BY DEF setBind, Completed

\* The default binds have one code for every name.
LEMMA DefaultsAreLoaded == Loaded(Defaults)
<1>1. /\ DOMAIN Defaults = {"GAME", "MENU"}
      /\ DOMAIN Defaults["GAME"] = {"KEY_H", "KEY_J", "KEY_K", "KEY_SPACE", "KEY_R",
                                    "KEY_Q", "ERROR"}
      /\ DOMAIN Defaults["MENU"] = {"KEY_J", "KEY_K", "KEY_RETURN"}
  BY DEF Defaults
<1>2. {"KEY_H", "KEY_J", "KEY_K", "KEY_SPACE", "KEY_R", "KEY_Q", "ERROR", "KEY_RETURN"}
        \subseteq Codes
  <2>1. /\ CodeOrder[8] = "KEY_H" /\ CodeOrder[10] = "KEY_J" /\ CodeOrder[11] = "KEY_K"
        /\ CodeOrder[27] = "KEY_SPACE" /\ CodeOrder[18] = "KEY_R"
        /\ CodeOrder[17] = "KEY_Q" /\ CodeOrder[33] = "ERROR"
        /\ CodeOrder[28] = "KEY_RETURN"
    BY DEF CodeOrder
  <2> QED
    BY <2>1, OrdersAreComplete DEF Codes
<1>3. {"GAME_LEFT", "GAME_DOWN", "GAME_RIGHT", "GAME_DROP", "GAME_ROTATE", "GAME_QUIT",
       "MENU_NEXT", "MENU_PREV", "MENU_SELECT"} \subseteq NamedBinds
  <2>1. /\ NameOrder[4] = "GAME_LEFT" /\ NameOrder[2] = "GAME_DOWN"
        /\ NameOrder[7] = "GAME_RIGHT" /\ NameOrder[3] = "GAME_DROP"
        /\ NameOrder[8] = "GAME_ROTATE" /\ NameOrder[6] = "GAME_QUIT"
        /\ NameOrder[10] = "MENU_NEXT" /\ NameOrder[11] = "MENU_PREV"
        /\ NameOrder[12] = "MENU_SELECT"
    BY DEF NameOrder
  <2> QED
    BY <2>1, OrdersAreComplete DEF Names, NamedBinds
<1>4. BindMap(Defaults)
  BY <1>1, <1>2, <1>3 DEF BindMap, Maps, Binds, Defaults
<1>5. Saveable(Defaults["GAME"])
  BY <1>1, <1>2, <1>3 DEF Saveable, SavedCodes, Defaults
<1>6. Saveable(Defaults["MENU"])
  BY <1>1, <1>2, <1>3 DEF Saveable, SavedCodes, Defaults
<1> QED
  BY <1>1, <1>4, <1>5, <1>6 DEF Loaded

\* loadBindings gives binds that can be saved without a loss, from any file.
THEOREM LoadIsLoaded ==
  ASSUME NEW file, Readable(file)
  PROVE  Loaded(loadBindings(file))
<1>1. CASE file = Unset
  <2>1. loadBindings(file) = Defaults
    BY <1>1 DEF loadBindings, Unset
  <2> QED
    BY <2>1, DefaultsAreLoaded
<1>2. CASE file # Unset
  <2> DEFINE maps == LoadedMaps(file.sections)
             b    == setBind(maps, "GAME", "GAME_NO_ACTION", "ERROR")
             old  == IF "GAME" \in DOMAIN maps THEN maps["GAME"] ELSE NoBinds
  <2>1. /\ file = Holding(file.sections)
        /\ \A m \in DOMAIN file.sections : DOMAIN file.sections[m] \subseteq Names
    BY <1>2 DEF Readable
  <2>2. loadBindings(file) = b
    <3>1. file.kind = "binds"
      BY <2>1 DEF Holding
    <3> QED
      BY <3>1 DEF loadBindings
  <2>3. /\ DOMAIN maps \subseteq Maps
        /\ \A m \in DOMAIN maps :
             /\ Saveable(maps[m])
             /\ \A c \in DOMAIN maps[m] : maps[m][c] \in NamedBinds \cup {"NONE"}
    BY <2>1, LoadedMapsAreSaveable
  <2>4. /\ DOMAIN b = DOMAIN maps \cup {"GAME"}
        /\ \A m \in DOMAIN maps \ {"GAME"} : b[m] = maps[m]
        /\ DOMAIN b["GAME"] = DOMAIN old \cup {"ERROR"}
        /\ \A c \in DOMAIN old \ {"ERROR"} : b["GAME"][c] = old[c]
        /\ b["GAME"]["ERROR"] = "GAME_NO_ACTION"
    BY MustHaveSet DEF Completed
  <2>5. /\ Saveable(old)
        /\ \A c \in DOMAIN old : old[c] \in NamedBinds \cup {"NONE"}
    <3>1. CASE "GAME" \in DOMAIN maps
      BY <2>3, <3>1
    <3>2. CASE "GAME" \notin DOMAIN maps
      BY <3>2 DEF NoBinds, Saveable, SavedCodes
    <3> QED
      BY <3>1, <3>2
  <2>6. SavedCodes(b["GAME"]) = SavedCodes(old)
    BY <2>4 DEF SavedCodes
  <2>7. Saveable(b["GAME"])
    <3>1. \A c \in SavedCodes(old) : b["GAME"][c] = old[c]
      BY <2>4 DEF SavedCodes
    <3> QED
      BY <2>4, <2>5, <2>6, <3>1, NamesAndCodes DEF Saveable
  <2>8. \A c \in DOMAIN b["GAME"] : c \in Codes /\ b["GAME"][c] \in Binds
    BY <2>4, <2>5, NamesAndCodes DEF Saveable, Binds
  <2>9. \A m \in DOMAIN b \ {"GAME"} :
          /\ Saveable(b[m])
          /\ \A c \in DOMAIN b[m] : c \in Codes /\ b[m][c] \in Binds
    BY <2>3, <2>4 DEF Saveable, Binds
  <2>10. BindMap(b)
    BY <2>3, <2>4, <2>8, <2>9 DEF BindMap, Maps
  <2> QED
    BY <2>2, <2>4, <2>7, <2>9, <2>10 DEF Loaded
<1> QED
  BY <1>1, <1>2

\* loadBindings sets the value the game must have, from any file.
LEMMA MustHaveIsLoaded ==
  ASSUME NEW file
  PROVE  MustHave(loadBindings(file))
<1>1. CASE file.kind = "unset"
  BY <1>1 DEF loadBindings, MustHave, getBind, Defaults
<1>2. CASE file.kind # "unset"
  <2> DEFINE maps == LoadedMaps(file.sections)
             b    == setBind(maps, "GAME", "GAME_NO_ACTION", "ERROR")
             old  == IF "GAME" \in DOMAIN maps THEN maps["GAME"] ELSE NoBinds
  <2>1. /\ DOMAIN b = DOMAIN maps \cup {"GAME"}
        /\ DOMAIN b["GAME"] = DOMAIN old \cup {"ERROR"}
        /\ b["GAME"]["ERROR"] = "GAME_NO_ACTION"
    BY MustHaveSet DEF Completed
  <2>2. loadBindings(file) = b
    BY <1>2 DEF loadBindings
  <2> QED
    BY <2>1, <2>2 DEF MustHave, getBind
<1> QED
  BY <1>1, <1>2

\* What a save writes: one code of every name.
Written(s, bindings) ==
  /\ DOMAIN s = {m \in DOMAIN bindings : SavedCodes(bindings[m]) # {}}
  /\ \A m \in DOMAIN s :
       /\ DOMAIN s[m] = {bindings[m][c] : c \in SavedCodes(bindings[m])}
       /\ DOMAIN s[m] \subseteq NamedBinds \cup {"NONE"}
       /\ \A n \in DOMAIN s[m] :
            /\ s[m][n] \in SavedCodes(bindings[m])
            /\ bindings[m][s[m][n]] = n
  /\ s = [m \in DOMAIN s |-> [n \in DOMAIN s[m] |-> s[m][n]]]

\* Saving writes that.
LEMMA SavedSections ==
  ASSUME NEW bindings, Loaded(bindings), NEW s, s = saveBindings(bindings).sections
  PROVE  saveBindings(bindings) = Holding(s) /\ Written(s, bindings)
<1>1. saveBindings(bindings) = Holding(s)
  BY DEF saveBindings, Holding
<1>2. /\ DOMAIN s = {m \in DOMAIN bindings : SavedCodes(bindings[m]) # {}}
      /\ \A m \in DOMAIN s : s[m] = SavedSection(bindings[m])
  BY DEF saveBindings, Holding
<1>3. ASSUME NEW m \in DOMAIN s
      PROVE  /\ DOMAIN s[m] = {bindings[m][c] : c \in SavedCodes(bindings[m])}
             /\ DOMAIN s[m] \subseteq NamedBinds \cup {"NONE"}
             /\ \A n \in DOMAIN s[m] :
                  /\ s[m][n] \in SavedCodes(bindings[m])
                  /\ bindings[m][s[m][n]] = n
  <2>1. s[m] = SavedSection(bindings[m]) /\ Saveable(bindings[m])
    BY <1>2, <1>3 DEF Loaded
  <2>2. /\ DOMAIN s[m] = {bindings[m][c] : c \in SavedCodes(bindings[m])}
        /\ \A n \in DOMAIN s[m] :
             /\ s[m][n] \in SavedCodes(bindings[m])
             /\ bindings[m][s[m][n]] = n
    BY <2>1, SavedSectionKeepsNames
  <2>3. DOMAIN s[m] \subseteq NamedBinds \cup {"NONE"}
    BY <2>1, <2>2 DEF Saveable
  <2> QED
    BY <2>2, <2>3
<1>4. s = [m \in DOMAIN s |-> [n \in DOMAIN s[m] |-> s[m][n]]]
  BY DEF saveBindings, SavedSection, Holding
<1> QED
  BY <1>1, <1>2, <1>3, <1>4 DEF Written

\* What is saved can be loaded.
THEOREM SaveIsReadable ==
  ASSUME NEW bindings, Loaded(bindings)
  PROVE  Readable(saveBindings(bindings)) /\ saveBindings(bindings).kind = "binds"
<1>1. PICK s : s = saveBindings(bindings).sections
  OBVIOUS
<1>2. saveBindings(bindings) = Holding(s) /\ Written(s, bindings)
  BY <1>1, SavedSections
<1>3. \A m \in DOMAIN s : DOMAIN s[m] \subseteq Names
  BY <1>2, NamesAndCodes DEF Written
<1> QED
  BY <1>1, <1>2, <1>3 DEF Readable, Holding

\* The codes of a section.
Kept(section) == {section[n] : n \in DOMAIN section}

\* What loading what was saved gives, map by map: the codes the save has kept, with
\* the binds they had.
LEMMA SavedAndLoaded ==
  ASSUME NEW bindings, Loaded(bindings), NEW s, s = saveBindings(bindings).sections,
         NEW b, b = loadBindings(saveBindings(bindings))
  PROVE  /\ DOMAIN b = DOMAIN s \cup {"GAME"}
         /\ \A m \in DOMAIN s :
              /\ DOMAIN b[m] \ {"ERROR"} = Kept(s[m])
              /\ \A c \in Kept(s[m]) : b[m][c] = bindings[m][c]
         /\ "GAME" \notin DOMAIN s => DOMAIN b["GAME"] = {"ERROR"}
<1>1. /\ saveBindings(bindings) = Holding(s)
      /\ DOMAIN s = {m \in DOMAIN bindings : SavedCodes(bindings[m]) # {}}
      /\ \A m \in DOMAIN s :
           /\ DOMAIN s[m] = {bindings[m][c] : c \in SavedCodes(bindings[m])}
           /\ DOMAIN s[m] \subseteq NamedBinds \cup {"NONE"}
           /\ \A n \in DOMAIN s[m] :
                /\ s[m][n] \in SavedCodes(bindings[m])
                /\ bindings[m][s[m][n]] = n
  <2>1. saveBindings(bindings) = Holding(s) /\ Written(s, bindings)
    BY SavedSections
  <2> QED
    BY <2>1 DEF Written
<1>2. DOMAIN s \subseteq Maps
  BY <1>1 DEF Loaded, BindMap
<1>3. ASSUME NEW m \in DOMAIN s
      PROVE  /\ Kept(s[m]) \subseteq Codes \ {"ERROR", "NOT_IMPLEMENTED"}
             /\ DOMAIN LoadedSection(s[m]) = Kept(s[m])
             /\ \A c \in Kept(s[m]) : LoadedSection(s[m])[c] = bindings[m][c]
  <2>1. SavedCodes(bindings[m]) \subseteq Codes \ {"ERROR", "NOT_IMPLEMENTED"}
    BY <1>1, <1>3 DEF Loaded, Saveable, SavedCodes
  <2>2. Kept(s[m]) \subseteq Codes \ {"ERROR", "NOT_IMPLEMENTED"}
    BY <1>1, <1>3, <2>1 DEF Kept
  <2>3. /\ \A n, k \in DOMAIN s[m] : s[m][n] = s[m][k] => n = k
        /\ \A n \in DOMAIN s[m] : s[m][n] \in Codes
    BY <1>1, <1>3, <2>1
  <2> DEFINE section == s[m]
  <2>4. /\ DOMAIN LoadedSection(section) = Kept(section)
        /\ \A n \in DOMAIN section : LoadedSection(section)[section[n]] = n
    <3>1. DOMAIN section \subseteq NamedBinds \cup {"NONE"}
      BY <1>1, <1>3
    <3> HIDE DEF section
    <3> QED
      BY <2>3, <3>1, LoadedSectionInverts DEF section, Kept
  <2> QED
    BY <1>1, <1>3, <2>2, <2>4 DEF Kept
<1> DEFINE maps == LoadedMaps(s)
           old  == IF "GAME" \in DOMAIN maps THEN maps["GAME"] ELSE NoBinds
<1>4. /\ DOMAIN maps = DOMAIN s
      /\ \A m \in DOMAIN s : maps[m] = LoadedSection(s[m])
  <2>1. \A m \in DOMAIN s : stringToMap(m) # "NONE" /\ DOMAIN s[m] # {}
    BY <1>1, <1>2 DEF stringToMap, Maps
  <2> QED
    BY <2>1 DEF LoadedMaps
<1>5. b = setBind(maps, "GAME", "GAME_NO_ACTION", "ERROR")
  BY <1>1 DEF loadBindings, Holding
<1> HIDE DEF maps
<1>6. /\ DOMAIN b = DOMAIN maps \cup {"GAME"}
      /\ \A m \in DOMAIN maps \ {"GAME"} : b[m] = maps[m]
      /\ DOMAIN b["GAME"] = DOMAIN old \cup {"ERROR"}
      /\ \A c \in DOMAIN old \ {"ERROR"} : b["GAME"][c] = old[c]
  <2>1. Completed(b, maps)
    BY <1>5, MustHaveSet
  <2> QED
    BY <2>1 DEF Completed
<1>7. ASSUME NEW m \in DOMAIN s
      PROVE  /\ DOMAIN b[m] \ {"ERROR"} = Kept(s[m])
             /\ \A c \in Kept(s[m]) : b[m][c] = bindings[m][c]
  <2>1. CASE m = "GAME"
    <3>1. old = LoadedSection(s[m])
      BY <1>4, <1>7, <2>1
    <3> HIDE DEF old
    <3> QED
      BY <1>3, <1>6, <1>7, <2>1, <3>1
  <2>2. CASE m # "GAME"
    <3>1. b[m] = LoadedSection(s[m])
      BY <1>4, <1>6, <1>7, <2>2
    <3> QED
      BY <1>3, <1>7, <3>1
  <2> QED
    BY <2>1, <2>2
<1>8. "GAME" \notin DOMAIN s => DOMAIN b["GAME"] = {"ERROR"}
  BY <1>4, <1>6 DEF NoBinds
<1> QED
  BY <1>4, <1>6, <1>7, <1>8

\* After a save and a load every key does what it did.
THEOREM KeysSurvive ==
  ASSUME NEW bindings, Loaded(bindings)
  PROVE  KeyMap(loadBindings(saveBindings(bindings))) = KeyMap(bindings)
<1>1. PICK s : s = saveBindings(bindings).sections
  OBVIOUS
<1>2. PICK b : b = loadBindings(saveBindings(bindings))
  OBVIOUS
<1>3. /\ DOMAIN b = DOMAIN s \cup {"GAME"}
      /\ \A k \in DOMAIN s :
           /\ DOMAIN b[k] \ {"ERROR"} = Kept(s[k])
           /\ \A d \in Kept(s[k]) : b[k][d] = bindings[k][d]
      /\ "GAME" \notin DOMAIN s => DOMAIN b["GAME"] = {"ERROR"}
  BY <1>1, <1>2, SavedAndLoaded
<1>4. /\ DOMAIN s = {k \in DOMAIN bindings : SavedCodes(bindings[k]) # {}}
      /\ \A k \in DOMAIN s :
           /\ DOMAIN s[k] = {bindings[k][d] : d \in SavedCodes(bindings[k])}
           /\ \A n \in DOMAIN s[k] :
                /\ s[k][n] \in SavedCodes(bindings[k])
                /\ bindings[k][s[k][n]] = n
  <2>1. Written(s, bindings)
    BY <1>1, SavedSections
  <2> QED
    BY <2>1 DEF Written
<1>5. ASSUME NEW m \in Maps, NEW c \in Keys
      PROVE  getBind(b, m, c) = getBind(bindings, m, c)
  <2>1. c # "ERROR" /\ c # "NOT_IMPLEMENTED"
    BY DEF Keys
  <2>2. CASE m \in DOMAIN s /\ c \in Kept(s[m])
    <3>1. c \in DOMAIN bindings[m]
      BY <1>4, <2>2 DEF SavedCodes, Kept
    <3>2. m \in DOMAIN b /\ c \in DOMAIN b[m] /\ b[m][c] = bindings[m][c]
      BY <1>3, <2>2
    <3> QED
      BY <1>4, <2>2, <3>1, <3>2 DEF getBind
  <2>3. CASE m \in DOMAIN s /\ c \notin Kept(s[m])
    <3>1. getBind(b, m, c) = "NONE"
      BY <1>3, <2>1, <2>3 DEF getBind
    <3>2. CASE c \notin DOMAIN bindings[m]
      BY <3>1, <3>2 DEF getBind
    <3>3. CASE c \in DOMAIN bindings[m]
      <4>1. c \in SavedCodes(bindings[m])
        BY <2>1, <3>3 DEF SavedCodes
      <4>2. Saveable(bindings[m])
        BY <1>4, <2>3 DEF Loaded
      <4>3. bindings[m][c] \in DOMAIN s[m]
        BY <1>4, <2>3, <4>1
      <4>4. bindings[m][c] = "NONE"
        BY <1>4, <2>3, <4>1, <4>2, <4>3 DEF Saveable, Kept
      <4> QED
        BY <1>4, <2>3, <3>1, <3>3, <4>4 DEF getBind
    <3> QED
      BY <3>2, <3>3
  <2>4. CASE m \notin DOMAIN s
    <3>1. getBind(b, m, c) = "NONE"
      BY <1>3, <2>1, <2>4 DEF getBind
    <3>2. getBind(bindings, m, c) = "NONE"
      BY <1>4, <2>1, <2>4 DEF getBind, SavedCodes
    <3> QED
      BY <3>1, <3>2
  <2> QED
    BY <2>2, <2>3, <2>4
<1> QED
  BY <1>2, <1>5 DEF KeyMap

\* After a save and a load the next save writes the same file again.
THEOREM SaveIsStable ==
  ASSUME NEW bindings, Loaded(bindings)
  PROVE  saveBindings(loadBindings(saveBindings(bindings))) = saveBindings(bindings)
<1>1. PICK s : s = saveBindings(bindings).sections
  OBVIOUS
<1>2. PICK b : b = loadBindings(saveBindings(bindings))
  OBVIOUS
<1>3. PICK t : t = saveBindings(b).sections
  OBVIOUS
<1>4. Loaded(b)
  BY <1>2, SaveIsReadable, LoadIsLoaded
<1>5. /\ saveBindings(bindings) = Holding(s) /\ Written(s, bindings)
      /\ saveBindings(b) = Holding(t) /\ Written(t, b)
  BY <1>1, <1>3, <1>4, SavedSections
<1>6. /\ DOMAIN b = DOMAIN s \cup {"GAME"}
      /\ \A m \in DOMAIN s :
           /\ DOMAIN b[m] \ {"ERROR"} = Kept(s[m])
           /\ \A c \in Kept(s[m]) : b[m][c] = bindings[m][c]
      /\ "GAME" \notin DOMAIN s => DOMAIN b["GAME"] = {"ERROR"}
  BY <1>1, <1>2, SavedAndLoaded
<1>7. ASSUME NEW m \in DOMAIN s
      PROVE  SavedCodes(b[m]) = Kept(s[m]) /\ Kept(s[m]) # {}
  <2>1. "NOT_IMPLEMENTED" \notin Kept(s[m])
    BY <1>5, <1>7 DEF Written, SavedCodes, Kept
  <2>2. SavedCodes(b[m]) = Kept(s[m])
    BY <1>6, <1>7, <2>1 DEF SavedCodes
  <2>3. DOMAIN s[m] # {}
    BY <1>5, <1>7 DEF Written
  <2> QED
    BY <2>2, <2>3 DEF Kept
<1>8. DOMAIN t = DOMAIN s
  <2>1. "GAME" \notin DOMAIN s => SavedCodes(b["GAME"]) = {}
    BY <1>6 DEF SavedCodes
  <2>2. DOMAIN t = {m \in DOMAIN b : SavedCodes(b[m]) # {}}
    <3>1. Written(t, b)
      BY <1>5
    <3> QED
      BY <3>1 DEF Written
  <2> QED
    BY <1>6, <1>7, <2>1, <2>2
<1>9. ASSUME NEW m \in DOMAIN s
      PROVE  /\ DOMAIN t[m] = DOMAIN s[m]
             /\ \A n \in DOMAIN s[m] : t[m][n] = s[m][n]
  <2>1. \A n \in DOMAIN s[m] : bindings[m][s[m][n]] = n
    BY <1>5, <1>9 DEF Written
  <2>2. \A n \in DOMAIN s[m] : s[m][n] \in Kept(s[m]) /\ b[m][s[m][n]] = n
    BY <1>6, <1>9, <2>1 DEF Kept
  <2>3. /\ DOMAIN t[m] = {b[m][c] : c \in SavedCodes(b[m])}
        /\ \A n \in DOMAIN t[m] : t[m][n] \in SavedCodes(b[m]) /\ b[m][t[m][n]] = n
    <3>1. Written(t, b)
      BY <1>5
    <3> QED
      BY <1>8, <1>9, <3>1 DEF Written
  <2>4. SavedCodes(b[m]) = Kept(s[m])
    BY <1>7, <1>9
  <2>5. DOMAIN t[m] = DOMAIN s[m]
    BY <2>2, <2>3, <2>4 DEF Kept
  <2>6. \A n \in DOMAIN s[m] : t[m][n] = s[m][n]
    <3>1. SUFFICES ASSUME NEW n \in DOMAIN s[m]
                   PROVE  t[m][n] = s[m][n]
      OBVIOUS
    <3>2. t[m][n] \in Kept(s[m]) /\ b[m][t[m][n]] = n
      BY <2>3, <2>4, <2>5
    <3>3. PICK k \in DOMAIN s[m] : t[m][n] = s[m][k]
      BY <3>2 DEF Kept
    <3> QED
      BY <2>2, <3>2, <3>3
  <2> QED
    BY <2>5, <2>6
<1>10. s = t
  <2>1. /\ s = [m \in DOMAIN s |-> [n \in DOMAIN s[m] |-> s[m][n]]]
        /\ t = [m \in DOMAIN t |-> [n \in DOMAIN t[m] |-> t[m][n]]]
    BY <1>5 DEF Written
  <2>2. \A m \in DOMAIN s : [n \in DOMAIN s[m] |-> s[m][n]] = [n \in DOMAIN t[m] |-> t[m][n]]
    BY <1>9
  <2> QED
    BY <1>8, <2>1, <2>2
<1> QED
  BY <1>2, <1>5, <1>10

\* The files a user may write can be loaded.
LEMMA UserFilesAreReadable ==
  ASSUME NEW file \in UserFiles
  PROVE  Readable(file) /\ file # Broken /\ file.kind \in {"unset", "binds"}
<1>1. CASE file = Unset
  BY <1>1 DEF Readable, Unset, Broken
<1>2. CASE file # Unset
  <2>1. PICK f \in UNION {[T -> UserSections] : T \in SUBSET EditSections} : file = Holding(f)
    BY <1>2 DEF UserFiles
  <2>2. \A m \in DOMAIN f : f[m] \in UserSections
    BY <2>1
  <2>3. \A g \in UserSections : DOMAIN g \subseteq Names
    BY EditAssumption DEF UserSections
  <2> QED
    BY <2>1, <2>2, <2>3 DEF Readable, Holding, Broken
<1> QED
  BY <1>1, <1>2

=============================================================================
