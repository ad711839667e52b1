------------------------------- MODULE Config -------------------------------
(***************************************************************************)
(* cfg::init and cfg::deinit of any number of instances of the program, on *)
(* the one config file they share, with the user who edits it.  An         *)
(* instance loads at its start and saves when it is left through the menu. *)
(* It may be killed at any time, and a save may be cut short: by a crash,  *)
(* or by a disk that is full, which saveConfig does not test.              *)
(***************************************************************************)
EXTENDS Bindings

CONSTANTS
  Instances, (* running at the same time                       *)
  MaxEdits   (* bound: how often the user rewrites the file    *)

ASSUME ConfigAssumption == MaxEdits \in Nat

VARIABLES
  file,
  pc,        (* of every instance: "off", "running", or "saving": in saveConfig *)
             (* between open, which truncates the file, and close, which writes *)
             (* what the stream has buffered                                    *)
  bindings,  (* of every instance                                               *)
  edits,     (* by the user so far                                              *)
  wishes,    (* history: the files the user wrote since an edit that met no     *)
             (* instance running                                                *)
  reset,     (* history: since then a save was cut short after the truncation,  *)
             (* or an instance started between a truncation and the write       *)
  torn,      (* history: since the file was last truncated or edited a write was *)
             (* cut short in the middle, or that edit does not parse            *)
  clash      (* history: since then an instance has written its binds while     *)
             (* another one, with different binds to save, was still saving     *)

vars == <<file, pc, bindings, edits, wishes, reset, torn, clash>>

AllOff == \A p \in Instances : pc[p] = "off"

Saving == \E p \in Instances : pc[p] = "saving"

-----------------------------------------------------------------------------

Init ==
  /\ file \in UserFiles
  /\ pc = [p \in Instances |-> "off"]
  /\ bindings = [p \in Instances |-> NoBinds]
  /\ edits = 0
  /\ wishes = {file}
  /\ reset = FALSE
  /\ torn = FALSE
  /\ clash = FALSE

Start(p) ==
  /\ pc[p] = "off"
  /\ file # Broken
  /\ pc' = [pc EXCEPT ![p] = "running"]
  /\ bindings' = [bindings EXCEPT ![p] = loadBindings(file)]
  /\ reset' = (reset \/ (file = Unset /\ Saving))
  /\ UNCHANGED <<file, edits, wishes, torn, clash>>

\* The exception ends the program before the terminal is touched.
StartFails(p) ==
  /\ pc[p] = "off"
  /\ file = Broken
  /\ UNCHANGED vars

Leave(p) ==
  /\ pc' = [pc EXCEPT ![p] = "off"]
  /\ bindings' = [bindings EXCEPT ![p] = NoBinds]
  /\ UNCHANGED <<edits, wishes>>

\* Killed, or the directory cannot be made or the file not opened: in all
\* three the file stays as it is.
EndUnsaved(p) ==
  /\ pc[p] = "running"
  /\ Leave(p)
  /\ UNCHANGED <<file, reset, torn, clash>>

\* Mutant: the file is opened without truncating it.
OpenOnly(p) ==
  /\ pc[p] = "running"
  /\ pc' = [pc EXCEPT ![p] = "saving"]
  /\ UNCHANGED <<file, bindings, edits, wishes, reset, torn, clash>>

Open(p) ==
  /\ pc[p] = "running"
  /\ pc' = [pc EXCEPT ![p] = "saving"]
  /\ file' = Unset
  /\ torn' = FALSE
  /\ clash' = FALSE
  /\ UNCHANGED <<bindings, edits, wishes, reset>>

\* Written from the start of the file: over what another instance has written
\* in the meantime, of which a tail stays if it was longer.
Close(p) ==
  LET saved == saveBindings(bindings[p])
  IN  /\ pc[p] = "saving"
      /\ file' = saved \/ (file \notin {Unset, saved} /\ file' = Broken)
      /\ clash' = (clash \/ \E q \in Instances \ {p} :
                              pc[q] = "saving" /\ saveBindings(bindings[q]) # saved)
      /\ Leave(p)
      /\ UNCHANGED <<reset, torn>>

\* Nothing gets written, or a part.
CutShort(p) ==
  /\ pc[p] = "saving"
  /\ file' = file \/ (file # saveBindings(bindings[p]) /\ file' = Broken)
  /\ reset' = (reset \/ file' = Unset)
  /\ torn' = (torn \/ file' = Broken)
  /\ Leave(p)
  /\ UNCHANGED clash

\* A save takes no time for the user: no edit falls into it.
Edit ==
  /\ edits < MaxEdits
  /\ ~Saving
  /\ file' \in UserFiles \cup {Broken}
  /\ edits' = edits + 1
  /\ wishes' = (IF AllOff THEN {} ELSE wishes) \cup ({file'} \ {Broken})
  /\ reset' = (reset /\ ~AllOff)
  /\ torn' = (file' = Broken)
  /\ clash' = FALSE
  /\ UNCHANGED <<pc, bindings>>

Next ==
  \/ \E p \in Instances :
       \/ Start(p)
       \/ StartFails(p)
       \/ EndUnsaved(p)
       \/ Open(p)
       \/ Close(p)
       \/ CutShort(p)
  \/ Edit

Spec == Init /\ [][Next]_vars

-----------------------------------------------------------------------------
(* Properties. *)

\* The variables hold what their comments say.  Every instance that runs has
\* the bind that loadBindings calls a must have, whatever is in the file and
\* however often it was saved, which leaves that bind out.
TypeOK ==
  /\ file.kind \in {"unset", "broken", "binds"}
  /\ pc \in [Instances -> {"off", "running", "saving"}]
  /\ DOMAIN bindings = Instances
  /\ \A p \in Instances : BindMap(bindings[p])
  /\ \A p \in Instances : pc[p] # "off" => MustHave(bindings[p])
  /\ edits \in 0 .. MaxEdits
  /\ wishes \subseteq UserFiles
  /\ reset \in BOOLEAN
  /\ torn \in BOOLEAN
  /\ clash \in BOOLEAN

\* What the user asked for, or what the program may fall back to.
Wanted == wishes \cup (IF reset THEN {Unset} ELSE {})

\* An instance runs on keys the user wrote, in however many sessions, starts,
\* ends and crashes ago and through however many saves; only a save cut short,
\* or a start inside one, puts the default keys in their place.
KeysKept ==
  \A p \in Instances :
    pc[p] # "off" => \E f \in Wanted : KeyMap(bindings[p]) = KeyMap(loadBindings(f))

\* Saving and loading the binds of a session gives every key the bind it had,
\* whatever the file was like that they came from.
SurvivesRestart ==
  \A p \in Instances :
    pc[p] # "off" =>
      KeyMap(loadBindings(saveBindings(bindings[p]))) = KeyMap(bindings[p])

\* The program itself makes the file unreadable only by a write that is torn,
\* or when two instances with different binds to save write at the same time:
\* one wrote while the other had opened the file and not yet closed it.  As
\* soon as the file is truncated again nothing earlier counts.
ReadableUnlessTorn == file = Broken => torn \/ clash

=============================================================================
