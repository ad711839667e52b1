---------------------------- MODULE ConfigProofs ----------------------------
(***************************************************************************)
(* The config file keeps the user's keys, for any number of instances,     *)
(* sections, names and codes.  The inductive invariant traces the binds of *)
(* every instance and the content of the file back to something the user   *)
(* wrote, up to what a save and a load leave alike.                        *)
(***************************************************************************)
EXTENDS Config, BindingsProofs

-----------------------------------------------------------------------------
(* The inductive invariant. *)

\* Binds that come from a file: they do the same and are saved the same.
From(b, f) ==
  /\ Loaded(b) /\ MustHave(b)
  /\ KeyMap(b) = KeyMap(loadBindings(f))
  /\ saveBindings(b) = saveBindings(loadBindings(f))

Types ==
  /\ pc \in [Instances -> {"off", "running", "saving"}]
  /\ bindings = [p \in Instances |-> bindings[p]]
  /\ \A p \in Instances : pc[p] = "off" => bindings[p] = NoBinds
  /\ edits \in 0 .. MaxEdits
  /\ wishes \subseteq UserFiles
  /\ reset \in BOOLEAN
  /\ torn \in BOOLEAN
  /\ clash \in BOOLEAN

InstancesTraced ==
  \A p \in Instances : pc[p] # "off" => \E f \in Wanted : From(bindings[p], f)

\* Without a clash an instance in its save finds the file as it has truncated
\* it, torn, or written by another one just as it will write it itself.
ClashNoted ==
  \A p \in Instances :
    pc[p] = "saving" => file \in {Unset, Broken, saveBindings(bindings[p])} \/ clash

FileTraced ==
  \/ file = Unset /\ (Unset \in Wanted \/ Saving)
  \/ file = Broken
  \/ /\ file.kind = "binds" /\ Readable(file)
     /\ \E f \in Wanted : From(loadBindings(file), f)

Inv ==
  /\ Types
  /\ InstancesTraced
  /\ ClashNoted
  /\ FileTraced
  /\ ReadableUnlessTorn

-----------------------------------------------------------------------------
(* Lemmas. *)

\* The three kinds of file are told apart by their kind.
LEMMA KindsDiffer ==
  /\ Unset.kind = "unset" /\ Broken.kind = "broken" /\ Unset # Broken
  /\ Readable(Unset)
BY DEF Unset, Broken, Readable

\* What is loaded from a file comes from it.
LEMMA LoadedIsFrom ==
  ASSUME NEW f, Readable(f)
  PROVE  From(loadBindings(f), f)
BY LoadIsLoaded, MustHaveIsLoaded DEF From

\* A save passes on where the binds come from.
LEMMA SavedIsFrom ==
  ASSUME NEW b, NEW f, From(b, f)
  PROVE  /\ saveBindings(b) = saveBindings(loadBindings(f))
         /\ Readable(saveBindings(b)) /\ saveBindings(b).kind = "binds"
         /\ From(loadBindings(saveBindings(b)), f)
BY SaveIsReadable, LoadIsLoaded, MustHaveIsLoaded, KeysSurvive, SaveIsStable DEF From

\* All files that are wanted can be loaded.
LEMMA WantedIsReadable ==
  ASSUME Types, NEW f \in Wanted
  PROVE  Readable(f)
BY UserFilesAreReadable, KindsDiffer DEF Types, Wanted

\* The invariant holds at the start.
LEMMA InitInv == Init => Inv
<1>1. SUFFICES ASSUME Init
               PROVE  Inv
  OBVIOUS
<1>2. file \in Wanted /\ Readable(file) /\ file # Broken /\ file.kind \in {"unset", "binds"}
  BY <1>1, UserFilesAreReadable DEF Init, Wanted
<1>3. Types
  <2>1. bindings = [p \in Instances |-> bindings[p]]
    BY <1>1 DEF Init
  <2>2. /\ pc \in [Instances -> {"off", "running", "saving"}]
        /\ \A p \in Instances : pc[p] = "off" => bindings[p] = NoBinds
        /\ edits \in 0 .. MaxEdits /\ wishes \subseteq UserFiles
    BY <1>1, ConfigAssumption DEF Init
  <2> QED
    BY <1>1, <2>1, <2>2 DEF Init, Types
<1>4. InstancesTraced /\ ClashNoted
  BY <1>1 DEF Init, InstancesTraced, ClashNoted
<1>5. FileTraced
  <2>1. CASE file = Unset
    BY <1>2, <2>1 DEF FileTraced
  <2>2. CASE file # Unset
    <3>1. file.kind = "binds"
      BY <1>2, <2>2 DEF Readable, Holding
    <3> QED
      BY <1>2, <3>1, LoadedIsFrom DEF FileTraced
  <2> QED
    BY <2>1, <2>2
<1> QED
  BY <1>2, <1>3, <1>4, <1>5 DEF Inv, ReadableUnlessTorn

\* An instance that is left loses its binds, and so does no other.
LEMMA LeaveTypes ==
  ASSUME Types, NEW p \in Instances, pc[p] # "off", Leave(p)
  PROVE  /\ pc' \in [Instances -> {"off", "running", "saving"}]
         /\ bindings' = [q \in Instances |-> bindings'[q]]
         /\ \A q \in Instances : pc'[q] = "off" => bindings'[q] = NoBinds
         /\ \A q \in Instances : pc'[q] # "off" =>
              q # p /\ pc'[q] = pc[q] /\ bindings'[q] = bindings[q]
BY DEF Types, Leave

-----------------------------------------------------------------------------
(* Every action keeps the invariant. *)

LEMMA StartInv == ASSUME Inv, NEW p \in Instances, Start(p) PROVE Inv'
<1>1. Types'
  BY DEF Inv, Types, Start
<1>2. Wanted \subseteq Wanted'
  BY DEF Start, Wanted, Inv, Types
<1>3. PICK f \in Wanted' : From(loadBindings(file), f)
  <2>1. CASE file = Unset
    <3>1. Unset \in Wanted'
      BY <1>2, <2>1, KindsDiffer DEF Inv, FileTraced, Start, Wanted
    <3> QED
      BY <2>1, <3>1, LoadedIsFrom, KindsDiffer
  <2>2. CASE file # Unset
    BY <1>2, <2>2 DEF Inv, FileTraced, Start
  <2> QED
    BY <2>1, <2>2
<1>4. InstancesTraced'
  BY <1>2, <1>3 DEF Inv, Types, InstancesTraced, Start
<1>5. Saving' = Saving
  BY DEF Inv, Types, Start, Saving
<1>6. ClashNoted'
  BY DEF Inv, Types, ClashNoted, Start
<1>7. FileTraced'
  BY <1>2, <1>5 DEF Inv, FileTraced, Start
<1>8. ReadableUnlessTorn'
  BY DEF Start, ReadableUnlessTorn
<1> QED
  BY <1>1, <1>4, <1>6, <1>7, <1>8 DEF Inv

LEMMA EndUnsavedInv == ASSUME Inv, NEW p \in Instances, EndUnsaved(p) PROVE Inv'
<1>1. Types'
  BY LeaveTypes DEF Inv, Types, EndUnsaved, Leave
<1>2. Wanted' = Wanted
  BY DEF EndUnsaved, Leave, Wanted
<1>3. InstancesTraced'
  BY <1>2, LeaveTypes DEF Inv, InstancesTraced, EndUnsaved
<1>4. Saving' = Saving
  BY DEF Inv, Types, EndUnsaved, Leave, Saving
<1>5. ClashNoted'
  BY LeaveTypes DEF Inv, ClashNoted, EndUnsaved
<1>6. FileTraced' /\ ReadableUnlessTorn'
  BY <1>2, <1>4 DEF Inv, FileTraced, ReadableUnlessTorn, EndUnsaved
<1> QED
  BY <1>1, <1>3, <1>5, <1>6 DEF Inv

LEMMA OpenInv == ASSUME Inv, NEW p \in Instances, Open(p) PROVE Inv'
<1>1. Types'
  BY DEF Inv, Types, Open
<1>2. Wanted' = Wanted
  BY DEF Open, Wanted
<1>3. InstancesTraced'
  BY <1>2 DEF Inv, Types, InstancesTraced, Open
<1>4. Saving'
  BY DEF Inv, Types, Open, Saving
<1>5. ClashNoted' /\ FileTraced' /\ ReadableUnlessTorn'
  BY <1>4, KindsDiffer DEF ClashNoted, FileTraced, ReadableUnlessTorn, Open
<1> QED
  BY <1>1, <1>3, <1>5 DEF Inv

LEMMA CloseInv == ASSUME Inv, NEW p \in Instances, Close(p) PROVE Inv'
<1> DEFINE saved == saveBindings(bindings[p])
<1>1. Types'
  BY LeaveTypes DEF Inv, Types, Close, Leave
<1>2. Wanted' = Wanted
  BY DEF Close, Leave, Wanted
<1>3. InstancesTraced'
  BY <1>2, LeaveTypes DEF Inv, InstancesTraced, Close
<1>4. PICK f \in Wanted : From(bindings[p], f)
  BY DEF Inv, InstancesTraced, Close
<1>5. CASE file' = saved
  <2>1. ClashNoted'
    BY <1>5, LeaveTypes DEF Inv, ClashNoted, Close
  <2>2. FileTraced'
    BY <1>2, <1>4, <1>5, SavedIsFrom DEF FileTraced
  <2>3. ReadableUnlessTorn'
    BY <1>4, <1>5, SavedIsFrom, KindsDiffer DEF ReadableUnlessTorn
  <2> QED
    BY <1>1, <1>3, <2>1, <2>2, <2>3 DEF Inv
<1>6. CASE file \notin {Unset, saved} /\ file' = Broken
  <2>1. ClashNoted' /\ FileTraced'
    BY <1>6 DEF ClashNoted, FileTraced
  <2>2. ReadableUnlessTorn'
    <3>1. CASE file = Broken
      BY <3>1 DEF Inv, ReadableUnlessTorn, Close
    <3>2. CASE file # Broken
      <4>1. clash
        BY <1>6, <3>2 DEF Inv, ClashNoted, Close
      <4> QED
        BY <4>1 DEF ReadableUnlessTorn, Close
    <3> QED
      BY <3>1, <3>2
  <2> QED
    BY <1>1, <1>3, <2>1, <2>2 DEF Inv
<1> QED
  BY <1>5, <1>6 DEF Close

LEMMA CutShortInv == ASSUME Inv, NEW p \in Instances, CutShort(p) PROVE Inv'
<1>1. Types'
  BY LeaveTypes DEF Inv, Types, CutShort, Leave
<1>2. Wanted \subseteq Wanted'
  BY DEF CutShort, Leave, Wanted, Inv, Types
<1>3. InstancesTraced'
  BY <1>2, LeaveTypes DEF Inv, InstancesTraced, CutShort
<1>4. CASE file' = file
  <2>1. ClashNoted'
    BY <1>4, LeaveTypes DEF Inv, ClashNoted, CutShort
  <2>2. FileTraced'
    <3>1. CASE file = Unset
      BY <1>4, <3>1 DEF FileTraced, CutShort, Wanted
    <3>2. CASE file # Unset
      BY <1>2, <1>4, <3>2 DEF Inv, FileTraced
    <3> QED
      BY <3>1, <3>2
  <2>3. ReadableUnlessTorn'
    BY <1>4 DEF Inv, ReadableUnlessTorn, CutShort
  <2> QED
    BY <1>1, <1>3, <2>1, <2>2, <2>3 DEF Inv
<1>5. CASE file' = Broken
  BY <1>1, <1>3, <1>5 DEF Inv, ClashNoted, FileTraced, ReadableUnlessTorn, CutShort
<1> QED
  BY <1>4, <1>5 DEF CutShort

LEMMA EditInv == ASSUME Inv, Edit PROVE Inv'
<1>1. Types'
  <2>1. torn' \in BOOLEAN /\ clash' \in BOOLEAN /\ reset' \in BOOLEAN
    BY DEF Edit
  <2>2. edits' \in 0 .. MaxEdits /\ wishes' \subseteq UserFiles
    BY ConfigAssumption DEF Inv, Types, Edit
  <2> QED
    BY <2>1, <2>2 DEF Inv, Types, Edit
<1>2. ~AllOff => Wanted \subseteq Wanted'
  BY DEF Edit, Wanted, Inv, Types
<1>3. InstancesTraced'
  BY <1>2 DEF Inv, InstancesTraced, Edit, AllOff
<1>4. ClashNoted'
  BY DEF Edit, ClashNoted, Saving
<1>5. FileTraced' /\ ReadableUnlessTorn'
  <2>1. CASE file' = Broken
    BY <2>1 DEF FileTraced, ReadableUnlessTorn, Edit
  <2>2. CASE file' # Broken
    <3>1. file' \in Wanted' /\ Readable(file')
      BY <2>2, UserFilesAreReadable DEF Edit, Wanted
    <3>2. FileTraced'
      <4>1. CASE file' = Unset
        BY <3>1, <4>1 DEF FileTraced
      <4>2. CASE file' # Unset
        <5>1. file'.kind = "binds"
          BY <3>1, <4>2 DEF Readable, Holding
        <5> QED
          BY <3>1, <5>1, LoadedIsFrom DEF FileTraced
      <4> QED
        BY <4>1, <4>2
    <3> QED
      BY <2>2, <3>2 DEF ReadableUnlessTorn
  <2> QED
    BY <2>1, <2>2
<1> QED
  BY <1>1, <1>3, <1>4, <1>5 DEF Inv

\* The invariant is inductive.
LEMMA StepInv == Inv /\ [Next]_vars => Inv'
<1>1. SUFFICES ASSUME Inv, [Next]_vars
               PROVE  Inv'
  OBVIOUS
<1>2. ASSUME NEW p \in Instances, Start(p)
      PROVE  Inv'
  BY <1>1, <1>2, StartInv
<1>3. ASSUME NEW p \in Instances, EndUnsaved(p)
      PROVE  Inv'
  BY <1>1, <1>3, EndUnsavedInv
<1>4. ASSUME NEW p \in Instances, Open(p)
      PROVE  Inv'
  BY <1>1, <1>4, OpenInv
<1>5. ASSUME NEW p \in Instances, Close(p)
      PROVE  Inv'
  BY <1>1, <1>5, CloseInv
<1>6. ASSUME NEW p \in Instances, CutShort(p)
      PROVE  Inv'
  BY <1>1, <1>6, CutShortInv
<1>7. CASE Edit
  BY <1>1, <1>7, EditInv
<1>8. CASE UNCHANGED vars
  BY <1>1, <1>8 DEF vars, Inv, Types, InstancesTraced, ClashNoted, FileTraced,
                    ReadableUnlessTorn, Saving, Wanted
<1>9. ASSUME NEW p \in Instances, StartFails(p)
      PROVE  Inv'
  BY <1>8, <1>9 DEF StartFails
<1> QED
  BY <1>1, <1>2, <1>3, <1>4, <1>5, <1>6, <1>7, <1>8, <1>9 DEF Next

\* The invariant holds in every state.
LEMMA Invariance == Spec => []Inv
<1>1. Init => Inv
  BY InitInv
<1>2. Inv /\ [Next]_vars => Inv'
  BY StepInv
<1> QED
  BY <1>1, <1>2, PTL DEF Spec

-----------------------------------------------------------------------------
(* The theorems. *)

\* The variables of cfg and of its file keep their types, in particular are the binds
\* of every instance maps from codes to binds, and the bind loadBindings must have is
\* there, whatever the user has written.
THEOREM TypeCorrect == Spec => []TypeOK
<1>1. ASSUME Inv
      PROVE  TypeOK
  <2>1. file.kind \in {"unset", "broken", "binds"}
    BY <1>1, KindsDiffer DEF Inv, FileTraced
  <2>2. DOMAIN bindings = Instances
    BY <1>1 DEF Inv, Types
  <2>3. ASSUME NEW p \in Instances
        PROVE  BindMap(bindings[p])
    <3>1. CASE pc[p] = "off"
      BY <1>1, <3>1 DEF Inv, Types, NoBinds, BindMap
    <3>2. CASE pc[p] # "off"
      BY <1>1, <3>2 DEF Inv, InstancesTraced, From, Loaded
    <3> QED
      BY <3>1, <3>2
  <2>4. \A p \in Instances : pc[p] # "off" => MustHave(bindings[p])
    BY <1>1 DEF Inv, InstancesTraced, From
  <2> QED
    BY <1>1, <2>1, <2>2, <2>3, <2>4 DEF Inv, Types, TypeOK
<1> QED
  BY <1>1, Invariance, PTL

\* An instance runs on keys the user wrote, or on the default keys after a save that was
\* cut short or had not ended when an instance started (loadConfig, saveConfig).
THEOREM KeysAreKept == Spec => []KeysKept
<1>1. Inv => KeysKept
  BY DEF Inv, InstancesTraced, From, KeysKept
<1> QED
  BY <1>1, Invariance, PTL

\* No session's keys are lost between its saveBindings and the next loadBindings.
THEOREM BindsSurvive == Spec => []SurvivesRestart
<1>1. Inv => SurvivesRestart
  BY KeysSurvive DEF Inv, InstancesTraced, From, SurvivesRestart
<1> QED
  BY <1>1, Invariance, PTL

\* json::parse of loadConfig throws only if, since the file was last truncated or edited,
\* a write was torn, that edit does not parse, or an instance wrote its binds while
\* another one with different binds to save had its file open (saveConfig).
THEOREM FileStaysReadable == Spec => []ReadableUnlessTorn
<1>1. Inv => ReadableUnlessTorn
  BY DEF Inv
<1> QED
  BY <1>1, Invariance, PTL

=============================================================================
