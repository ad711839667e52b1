------------------------------ MODULE FairDeal ------------------------------
(***************************************************************************)
(* What a player may expect of the order in which shapes come: they are    *)
(* dealt in rounds, and every round deals each shape once.  TetroBag.tla   *)
(* implements this.                                                        *)
(***************************************************************************)
CONSTANTS
  Tetros,  (* the shapes                   *)
  None     (* no shape, before the first   *)

VARIABLES
  left,   (* the shapes still to come in this round *)
  drawn   (* the shape dealt last                   *)

dealVars == <<left, drawn>>

\* The round a deal takes its shape from: a new one when none is left.
Round == IF left = {} THEN Tetros ELSE left

DealInit == left = {} /\ drawn = None

Deal ==
  \E t \in Round :
    /\ drawn' = t
    /\ left' = Round \ {t}

DealSpec == DealInit /\ [][Deal]_dealVars
=============================================================================
