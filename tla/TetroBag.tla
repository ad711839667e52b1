------------------------------ MODULE TetroBag ------------------------------
(***************************************************************************)
(* drawTetro and shakeTetroBag of the engine.  tetroBag is a vector that   *)
(* outlives the games: ngin::init reseeds the generator and leaves it as   *)
(* it is, so a game goes on with the round of the one before.              *)
(***************************************************************************)
EXTENDS Integers, FiniteSets, Sequences

CONSTANTS
  Tetros,  (* the shapes undrawnTetros starts with, seven in the code *)
  None     (* no shape                                                *)

ASSUME BagAssumption ==
  /\ IsFiniteSet(Tetros)
  /\ Tetros # {}
  /\ None \notin Tetros

VARIABLES
  pc,             (* "draw": outside drawTetro, "shake": in its loop,      *)
                  (* "pop": about to take the back of the bag              *)
  tetroBag,
  undrawnTetros,  (* the vector the shake loop draws its elements from; an *)
                  (* index drawn at random is any of its elements          *)
  drawn,          (* the shape drawTetro returned last, None before        *)
  waits           (* history: for every shape, the draws since it came     *)

bagVars == <<pc, tetroBag, undrawnTetros, drawn, waits>>

N == Cardinality(Tetros)

-----------------------------------------------------------------------------

BagInit ==
  /\ pc = "draw"
  /\ tetroBag = <<>>
  /\ undrawnTetros = {}
  /\ drawn = None
  /\ waits = [t \in Tetros |-> 0]

\* drawTetro on an empty bag calls shakeTetroBag first.
StartShake ==
  /\ pc = "draw"
  /\ tetroBag = <<>>
  /\ pc' = "shake"
  /\ tetroBag' = <<>>
  /\ undrawnTetros' = Tetros
  /\ UNCHANGED <<drawn, waits>>

DrawFromRest ==
  /\ pc = "draw"
  /\ tetroBag # <<>>
  /\ pc' = "pop"
  /\ UNCHANGED <<tetroBag, undrawnTetros, drawn, waits>>

\* Mutant: one shape short.
BagAlmostFull == Len(tetroBag) >= N - 1

\* while (tetroBag.size() < 7)
BagFull == Len(tetroBag) >= N

\* Mutant: the drawn shape is not erased from the undrawn ones.
ShakeKeeping ==
  /\ pc = "shake"
  /\ ~BagFull
  /\ \E t \in undrawnTetros : tetroBag' = Append(tetroBag, t)
  /\ UNCHANGED <<pc, undrawnTetros, drawn, waits>>

ShakeOne ==
  /\ pc = "shake"
  /\ ~BagFull
  /\ \E t \in undrawnTetros :
       /\ tetroBag' = Append(tetroBag, t)
       /\ undrawnTetros' = undrawnTetros \ {t}
  /\ UNCHANGED <<pc, drawn, waits>>

ShakeDone ==
  /\ pc = "shake"
  /\ BagFull
  /\ pc' = "pop"
  /\ UNCHANGED <<tetroBag, undrawnTetros, drawn, waits>>

\* Mutant: no pop_back.
PeekBag ==
  /\ pc = "pop"
  /\ pc' = "draw"
  /\ drawn' = tetroBag[Len(tetroBag)]
  /\ waits' = [s \in Tetros |-> IF s = drawn' THEN 0 ELSE waits[s] + 1]
  /\ UNCHANGED <<tetroBag, undrawnTetros>>

PopBag ==
  /\ pc = "pop"
  /\ pc' = "draw"
  /\ drawn' = tetroBag[Len(tetroBag)]
  /\ tetroBag' = SubSeq(tetroBag, 1, Len(tetroBag) - 1)
  /\ waits' = [s \in Tetros |-> IF s = drawn' THEN 0 ELSE waits[s] + 1]
  /\ UNCHANGED undrawnTetros

BagStep == StartShake \/ DrawFromRest \/ ShakeOne \/ ShakeDone \/ PopBag

BagSpec == BagInit /\ [][BagStep]_bagVars

-----------------------------------------------------------------------------
(* Properties. *)

InBag == {tetroBag[i] : i \in 1 .. Len(tetroBag)}

BagTypeOK ==
  /\ pc \in {"draw", "shake", "pop"}
  /\ tetroBag \in Seq(Tetros)
  /\ undrawnTetros \subseteq Tetros
  /\ drawn \in Tetros \cup {None}
  /\ waits \in [Tetros -> Nat]

NoRepeats == \A i, j \in 1 .. Len(tetroBag) : tetroBag[i] = tetroBag[j] => i = j

\* While the bag is shaken, every shape is in the bag or still undrawn, in
\* one place only and once: the loop can neither run out of shapes before
\* the bag is full nor fill it with a shape missing.
ShakeSplits ==
  /\ NoRepeats
  /\ pc = "shake" => /\ InBag \cup undrawnTetros = Tetros
                     /\ InBag \cap undrawnTetros = {}
                     /\ Cardinality(undrawnTetros) = N - Len(tetroBag)

\* The round in progress.  A shaken bag from which nothing was taken is a
\* round that has not begun.
RoundLeft == IF pc = "shake" \/ Len(tetroBag) = N THEN {} ELSE InBag

Abstract == INSTANCE FairDeal WITH left <- RoundLeft

\* Drawing from the bag, with all its reshuffles, deals in rounds.
ImplementsFairDeal == Abstract!DealSpec

\* Between two draws of a shape lie at most 2N - 2 others, over any two
\* successive bags: no shape stays away longer.
NoDrought == \A t \in Tetros : waits[t] <= 2 * N - 2

\* The bound a round in progress gives: a shape still to come may have waited
\* since early in the round before, one already drawn only since this round
\* began.  This is NoDrought made inductive.
LeftInRound == IF RoundLeft = {} THEN 0 ELSE Len(tetroBag)

WaitBound ==
  \A t \in Tetros :
    waits[t] <= IF t \in RoundLeft THEN 2 * N - 1 - LeftInRound
                                    ELSE N - 1 - LeftInRound
=============================================================================
