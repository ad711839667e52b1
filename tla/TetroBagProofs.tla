--------------------------- MODULE TetroBagProofs ---------------------------
(***************************************************************************)
(* tetroBag deals in rounds, for any finite set of shapes, and the wait    *)
(* for a shape is bounded.                                                 *)
(***************************************************************************)
EXTENDS TetroBag, Functions, FiniteSetTheorems, SequenceTheorems, TLAPS

\* What the bag is between the steps of drawTetro: never full outside it,
\* never empty when its back is taken, and full only with every shape in it.
BagShape ==
  /\ Len(tetroBag) <= N
  /\ pc = "draw" => Len(tetroBag) < N
  /\ pc = "pop" => tetroBag # <<>>
  /\ pc = "pop" /\ Len(tetroBag) = N => InBag = Tetros

Inv == BagTypeOK /\ ShakeSplits /\ BagShape /\ WaitBound

-----------------------------------------------------------------------------

\* There is at least one shape.
LEMMA NIsPositive == N \in Nat /\ N > 0
  BY BagAssumption, FS_CardinalityType, FS_EmptySet DEF N

\* push_back adds one shape at the back and nothing else.
LEMMA PushBag ==
  ASSUME tetroBag \in Seq(Tetros), NEW t \in Tetros, tetroBag' = Append(tetroBag, t)
  PROVE  /\ tetroBag' \in Seq(Tetros)
         /\ Len(tetroBag') = Len(tetroBag) + 1
         /\ InBag' = InBag \cup {t}
         /\ NoRepeats /\ t \notin InBag => NoRepeats'
<1>1. /\ tetroBag' \in Seq(Tetros)
      /\ Len(tetroBag') = Len(tetroBag) + 1
      /\ \A i \in 1 .. Len(tetroBag) : tetroBag'[i] = tetroBag[i]
      /\ tetroBag'[Len(tetroBag) + 1] = t
  OBVIOUS
<1>2. Len(tetroBag) \in Nat
  OBVIOUS
<1>3. \A i \in 1 .. Len(tetroBag') : i \in 1 .. Len(tetroBag) \/ i = Len(tetroBag) + 1
  BY <1>1, <1>2
<1>4. 1 .. Len(tetroBag) \subseteq 1 .. Len(tetroBag') /\ Len(tetroBag) + 1 \in 1 .. Len(tetroBag')
  BY <1>1, <1>2
<1>5. InBag' = InBag \cup {t}
  BY <1>1, <1>3, <1>4 DEF InBag
<1>6. ASSUME NoRepeats, t \notin InBag PROVE NoRepeats'
  BY <1>1, <1>3, <1>6 DEF NoRepeats, InBag
<1> QED
  BY <1>1, <1>5, <1>6

\* The length SubSeqProperties gives for all of a sequence but its back.
LEMMA LengthWithoutBack ==
  ASSUME NEW n \in Nat, n >= 1, NEW l, l = IF 1 <= n - 1 THEN n - 1 - 1 + 1 ELSE 0
  PROVE  l = n - 1
  OBVIOUS

\* pop_back takes the back, which is nowhere else in a bag without repeats.
LEMMA PopsBack ==
  ASSUME tetroBag \in Seq(Tetros), tetroBag # <<>>, NoRepeats,
         tetroBag' = SubSeq(tetroBag, 1, Len(tetroBag) - 1)
  PROVE  /\ tetroBag[Len(tetroBag)] \in InBag
         /\ tetroBag[Len(tetroBag)] \in Tetros
         /\ tetroBag' \in Seq(Tetros)
         /\ Len(tetroBag') = Len(tetroBag) - 1
         /\ InBag' = InBag \ {tetroBag[Len(tetroBag)]}
         /\ NoRepeats'
<1> DEFINE n == Len(tetroBag)
<1>1. n \in Nat /\ n >= 1
  OBVIOUS
<1>2. /\ tetroBag' \in Seq(Tetros)
      /\ Len(tetroBag') = n - 1
      /\ \A i \in 1 .. n - 1 : tetroBag'[i] = tetroBag[i]
  <2>1. \A i \in 1 .. n - 1 : tetroBag[i] \in Tetros
    BY <1>1
  <2>2. n - 1 \in Int /\ 1 \in Int
    BY <1>1
  <2>3. /\ SubSeq(tetroBag, 1, n - 1) \in Seq(Tetros)
        /\ Len(SubSeq(tetroBag, 1, n - 1)) = IF 1 <= n - 1 THEN n - 1 - 1 + 1 ELSE 0
        /\ \A i \in 1 .. n - 1 - 1 + 1 : SubSeq(tetroBag, 1, n - 1)[i] = tetroBag[1 + i - 1]
    BY <2>1, <2>2, SubSeqProperties
  <2>4. /\ n - 1 - 1 + 1 = n - 1
        /\ \A i \in 1 .. n - 1 : 1 + i - 1 = i
    BY <1>1
  <2>l. Len(SubSeq(tetroBag, 1, n - 1)) = n - 1
    BY <1>1, <2>3, LengthWithoutBack
  <2>5. \A i \in 1 .. n - 1 : SubSeq(tetroBag, 1, n - 1)[i] = tetroBag[i]
    BY <2>3, <2>4
  <2> QED
    BY <2>3, <2>l, <2>5
<1>3. n \in 1 .. n /\ \A i \in 1 .. n : i \in 1 .. n - 1 \/ i = n
  BY <1>1
<1>4. \A i \in 1 .. n - 1 : i \in 1 .. n /\ i # n
  BY <1>1
<1>5. InBag' = InBag \ {tetroBag[n]}
  <2>1. ASSUME NEW t \in InBag' PROVE t \in InBag \ {tetroBag[n]}
    <3>1. PICK i \in 1 .. n - 1 : t = tetroBag[i]
      BY <1>2 DEF InBag
    <3> QED
      BY <1>3, <1>4, <3>1 DEF InBag, NoRepeats
  <2>2. ASSUME NEW t \in InBag \ {tetroBag[n]} PROVE t \in InBag'
    <3>1. PICK i \in 1 .. n : t = tetroBag[i]
      BY DEF InBag
    <3>2. i \in 1 .. n - 1
      BY <1>3, <3>1
    <3> QED
      BY <1>2, <3>1, <3>2 DEF InBag
  <2> QED
    BY <2>1, <2>2
<1>6. NoRepeats'
  BY <1>2, <1>4 DEF NoRepeats
<1>7. tetroBag[n] \in InBag /\ tetroBag[n] \in Tetros
  BY <1>1, <1>3 DEF InBag
<1> QED
  BY <1>2, <1>5, <1>6, <1>7

\* Before the first draw the bag is empty and nobody has waited.
LEMMA InitInv == BagInit => Inv
<1> SUFFICES ASSUME BagInit PROVE Inv
  OBVIOUS
<1>1. tetroBag = <<>> /\ Len(tetroBag) = 0
  BY DEF BagInit
<1>2. BagTypeOK
  BY DEF BagInit, BagTypeOK
<1>3. ShakeSplits /\ BagShape
  BY <1>1, NIsPositive DEF BagInit, ShakeSplits, NoRepeats, BagShape
<1>4. WaitBound
  <2>1. LeftInRound = 0 /\ RoundLeft = {}
    BY <1>1, NIsPositive DEF BagInit, LeftInRound, RoundLeft, InBag
  <2> QED
    BY <2>1, NIsPositive DEF BagInit, WaitBound
<1> QED
  BY <1>2, <1>3, <1>4 DEF Inv

\* A step that neither changes the round in progress nor the waits.
LEMMA WaitsUnchanged ==
  ASSUME WaitBound, RoundLeft' = RoundLeft, LeftInRound' = LeftInRound, waits' = waits
  PROVE  WaitBound'
  BY DEF WaitBound

\* Every step of drawTetro and of its shake loop keeps the invariant.
LEMMA StepInv == Inv /\ [BagStep]_bagVars => Inv'
<1> SUFFICES ASSUME Inv, [BagStep]_bagVars PROVE Inv'
  OBVIOUS
<1>n. N \in Nat /\ N > 0 /\ Len(tetroBag) \in Nat
  BY NIsPositive DEF Inv, BagTypeOK
<1>1. CASE StartShake
  <2>1. /\ tetroBag = <<>> /\ tetroBag' = <<>> /\ pc = "draw" /\ pc' = "shake"
        /\ undrawnTetros' = Tetros /\ waits' = waits /\ drawn' = drawn
        /\ Len(tetroBag) = 0 /\ Len(tetroBag') = 0
    BY <1>1 DEF StartShake
  <2>2. BagTypeOK'
    BY <2>1 DEF Inv, BagTypeOK
  <2>3. InBag' = {} /\ InBag = {}
    BY <2>1 DEF InBag
  <2>4. ShakeSplits'
    BY <2>1, <2>3, <1>n DEF ShakeSplits, NoRepeats, N
  <2>5. BagShape'
    BY <2>1, <1>n DEF BagShape
  <2>6. WaitBound'
    BY <2>1, <2>3, WaitsUnchanged DEF Inv, RoundLeft, LeftInRound
  <2> QED
    BY <2>2, <2>4, <2>5, <2>6 DEF Inv
<1>2. CASE DrawFromRest
  <2>1. /\ pc = "draw" /\ pc' = "pop" /\ tetroBag # <<>>
        /\ UNCHANGED <<tetroBag, undrawnTetros, drawn, waits>>
    BY <1>2 DEF DrawFromRest
  <2>2. BagTypeOK' /\ ShakeSplits'
    BY <2>1 DEF Inv, BagTypeOK, ShakeSplits, NoRepeats
  <2>3. BagShape'
    BY <2>1, <1>n DEF Inv, BagShape
  <2>4. WaitBound'
    BY <2>1, WaitsUnchanged DEF Inv, RoundLeft, LeftInRound, InBag
  <2> QED
    BY <2>2, <2>3, <2>4 DEF Inv
<1>3. CASE ShakeOne
  <2>1. PICK t \in undrawnTetros :
          /\ tetroBag' = Append(tetroBag, t)
          /\ undrawnTetros' = undrawnTetros \ {t}
    BY <1>3 DEF ShakeOne
  <2>2. /\ pc = "shake" /\ pc' = "shake" /\ Len(tetroBag) < N
        /\ UNCHANGED <<drawn, waits>>
    BY <1>3, <1>n DEF ShakeOne, BagFull
  <2>3. t \in Tetros /\ t \notin InBag
    BY <2>2 DEF Inv, BagTypeOK, ShakeSplits
  <2>4. /\ tetroBag' \in Seq(Tetros) /\ Len(tetroBag') = Len(tetroBag) + 1
        /\ InBag' = InBag \cup {t} /\ NoRepeats'
    BY <2>1, <2>3, PushBag DEF Inv, BagTypeOK, ShakeSplits
  <2>5. BagTypeOK'
    BY <2>1, <2>2, <2>4 DEF Inv, BagTypeOK
  <2>6. Cardinality(undrawnTetros') = N - Len(tetroBag')
    <3>1. IsFiniteSet(undrawnTetros)
      BY BagAssumption, FS_Subset DEF Inv, BagTypeOK
    <3>2. Cardinality(undrawnTetros') = Cardinality(undrawnTetros) - 1
      BY <2>1, <3>1, FS_RemoveElement
    <3> QED
      BY <3>2, <2>2, <2>4, <1>n DEF Inv, ShakeSplits
  <2>7. ShakeSplits'
    BY <2>1, <2>2, <2>4, <2>6 DEF Inv, ShakeSplits
  <2>8. BagShape'
    BY <2>2, <2>4, <1>n DEF Inv, BagShape
  <2>9. WaitBound'
    BY <2>2, WaitsUnchanged DEF Inv, RoundLeft, LeftInRound
  <2> QED
    BY <2>5, <2>7, <2>8, <2>9 DEF Inv
<1>4. CASE ShakeDone
  <2>1. /\ pc = "shake" /\ pc' = "pop" /\ Len(tetroBag) >= N
        /\ UNCHANGED <<tetroBag, undrawnTetros, drawn, waits>>
    BY <1>4 DEF ShakeDone, BagFull
  <2>2. Len(tetroBag) = N
    BY <2>1, <1>n DEF Inv, BagShape
  <2>3. InBag = Tetros
    <3>1. IsFiniteSet(undrawnTetros) /\ Cardinality(undrawnTetros) = 0
      BY <2>1, <2>2, <1>n, BagAssumption, FS_Subset DEF Inv, BagTypeOK, ShakeSplits
    <3>2. undrawnTetros = {}
      BY <3>1, FS_EmptySet
    <3> QED
      BY <2>1, <3>2 DEF Inv, ShakeSplits
  <2>4. BagTypeOK' /\ ShakeSplits'
    BY <2>1 DEF Inv, BagTypeOK, ShakeSplits, NoRepeats
  <2>5. BagShape'
    BY <2>1, <2>2, <2>3, <1>n DEF BagShape, InBag
  <2>6. WaitBound'
    BY <2>1, <2>2, WaitsUnchanged DEF Inv, RoundLeft, LeftInRound
  <2> QED
    BY <2>4, <2>5, <2>6 DEF Inv
<1>5. CASE PopBag
  <2> DEFINE back == tetroBag[Len(tetroBag)]
  <2>1. /\ pc = "pop" /\ pc' = "draw" /\ drawn' = back
        /\ tetroBag' = SubSeq(tetroBag, 1, Len(tetroBag) - 1)
        /\ waits' = [s \in Tetros |-> IF s = back THEN 0 ELSE waits[s] + 1]
        /\ undrawnTetros' = undrawnTetros
    BY <1>5 DEF PopBag
  <2>2. /\ back \in InBag /\ back \in Tetros
        /\ tetroBag' \in Seq(Tetros)
        /\ Len(tetroBag') = Len(tetroBag) - 1
        /\ InBag' = InBag \ {back}
        /\ NoRepeats'
    BY <2>1, PopsBack DEF Inv, BagTypeOK, ShakeSplits, BagShape
  <2>3. BagTypeOK'
    BY <2>1, <2>2 DEF Inv, BagTypeOK
  <2>4. ShakeSplits'
    BY <2>1, <2>2 DEF ShakeSplits
  <2>5. BagShape' /\ Len(tetroBag) >= 1 /\ Len(tetroBag') \in Nat /\ Len(tetroBag') < N
    BY <2>1, <2>2, <1>n DEF Inv, BagShape
  <2>6. RoundLeft' = InBag'
    BY <2>1, <2>5 DEF RoundLeft
  <2>7. LeftInRound' = Len(tetroBag')
    <3>1. CASE Len(tetroBag') = 0
      BY <3>1 DEF LeftInRound
    <3>2. CASE Len(tetroBag') # 0
      <4>1. 1 \in 1 .. Len(tetroBag')
        BY <3>2, <2>5
      <4>2. InBag' # {}
        BY <4>1 DEF InBag
      <4> QED
        BY <4>2, <2>6 DEF LeftInRound
    <3> QED
      BY <3>1, <3>2
  <2>8. ASSUME NEW t \in Tetros
        PROVE  waits'[t] <= IF t \in RoundLeft' THEN 2 * N - 1 - LeftInRound'
                                                ELSE N - 1 - LeftInRound'
    <3>w. /\ waits[t] \in Nat
          /\ waits'[t] = IF t = back THEN 0 ELSE waits[t] + 1
      BY <2>1 DEF Inv, BagTypeOK
    <3>1. CASE Len(tetroBag) = N
      <4>1. RoundLeft = {} /\ LeftInRound = 0 /\ InBag = Tetros
        BY <3>1, <2>1 DEF RoundLeft, LeftInRound, Inv, BagShape
      <4>2. waits[t] <= N - 1
        BY <4>1, <1>n DEF Inv, WaitBound
      <4>3. t \in RoundLeft' <=> t # back
        BY <4>1, <2>2, <2>6
      <4> QED
        BY <4>2, <4>3, <3>w, <3>1, <2>2, <2>7, <1>n
    <3>2. CASE Len(tetroBag) # N
      <4>1. RoundLeft = InBag /\ LeftInRound = Len(tetroBag)
        BY <3>2, <2>1, <2>2 DEF RoundLeft, LeftInRound
      <4>2. waits[t] <= IF t \in InBag THEN 2 * N - 1 - Len(tetroBag)
                                       ELSE N - 1 - Len(tetroBag)
        BY <4>1 DEF Inv, WaitBound
      <4>3. t \in RoundLeft' <=> t \in InBag /\ t # back
        BY <2>2, <2>6
      <4> QED
        BY <4>2, <4>3, <3>w, <2>2, <2>5, <2>7, <1>n
    <3> QED
      BY <3>1, <3>2
  <2>9. WaitBound'
    BY <2>8 DEF WaitBound
  <2> QED
    BY <2>3, <2>4, <2>5, <2>9 DEF Inv
<1>6. CASE UNCHANGED bagVars
  <2>1. UNCHANGED <<pc, tetroBag, undrawnTetros, drawn, waits>>
    BY <1>6 DEF bagVars
  <2>2. WaitBound'
    BY <2>1, WaitsUnchanged DEF Inv, RoundLeft, LeftInRound, InBag
  <2> QED
    BY <2>1, <2>2 DEF Inv, BagTypeOK, ShakeSplits, NoRepeats, BagShape, InBag
<1> QED
  BY <1>1, <1>2, <1>3, <1>4, <1>5, <1>6 DEF BagStep

\* The invariant holds in every behaviour.
THEOREM AlwaysInv == BagSpec => []Inv
  BY InitInv, StepInv, PTL DEF BagSpec

-----------------------------------------------------------------------------

\* The shake loop is never out of shapes while the bag is short of one, and
\* a shape is in the bag once at most: for any finite set of shapes.
THEOREM ShakeIsSound == BagSpec => [](BagTypeOK /\ ShakeSplits)
<1>1. Inv => BagTypeOK /\ ShakeSplits
  BY DEF Inv
<1> QED
  BY <1>1, AlwaysInv, PTL

\* No shape stays away for more than 2N - 2 draws.
THEOREM DroughtBounded == BagSpec => []NoDrought
<1>1. ASSUME Inv PROVE NoDrought
  <2>1. N \in Nat /\ N > 0 /\ Len(tetroBag) \in Nat
    BY <1>1, NIsPositive DEF Inv, BagTypeOK
  <2>2. SUFFICES ASSUME NEW t \in Tetros PROVE waits[t] <= 2 * N - 2
    BY DEF NoDrought
  <2>3. waits[t] \in Nat /\ waits[t] <= IF t \in RoundLeft THEN 2 * N - 1 - LeftInRound
                                                           ELSE N - 1 - LeftInRound
    BY <1>1 DEF Inv, BagTypeOK, WaitBound
  <2>4. CASE t \in RoundLeft
    <3>1. RoundLeft # {} /\ LeftInRound = Len(tetroBag)
      BY <2>4 DEF LeftInRound
    <3>2. Len(tetroBag) # 0
      <4>1. t \in InBag
        BY <2>4 DEF RoundLeft
      <4> QED
        BY <2>1, <4>1 DEF InBag
    <3> QED
      BY <2>1, <2>3, <2>4, <3>1, <3>2
  <2>5. CASE t \notin RoundLeft
    <3>1. LeftInRound \in Nat
      BY <2>1 DEF LeftInRound
    <3> QED
      BY <2>1, <2>3, <2>5, <3>1
  <2> QED
    BY <2>4, <2>5
<1> QED
  BY <1>1, AlwaysInv, PTL

\* A step of drawTetro deals from the round in progress, or is not seen.
LEMMA StepDeals == Inv /\ [BagStep]_bagVars => [Abstract!Deal]_<<RoundLeft, drawn>>
<1> SUFFICES ASSUME Inv, [BagStep]_bagVars
             PROVE  [Abstract!Deal]_<<RoundLeft, drawn>>
  OBVIOUS
<1>n. N \in Nat /\ N > 0 /\ Len(tetroBag) \in Nat
  BY NIsPositive DEF Inv, BagTypeOK
<1>1. CASE StartShake
  <2>1. RoundLeft = {} /\ RoundLeft' = {}
    BY <1>1, <1>n DEF StartShake, RoundLeft, InBag
  <2> QED
    BY <1>1, <2>1 DEF StartShake
<1>2. CASE DrawFromRest
  BY <1>2 DEF DrawFromRest, RoundLeft, InBag
<1>3. CASE ShakeOne
  BY <1>3 DEF ShakeOne, RoundLeft
<1>4. CASE ShakeDone
  <2>1. Len(tetroBag) = N
    BY <1>4, <1>n DEF Inv, BagShape, ShakeDone, BagFull
  <2> QED
    BY <1>4, <2>1 DEF ShakeDone, RoundLeft
<1>5. CASE PopBag
  <2> DEFINE back == tetroBag[Len(tetroBag)]
  <2>1. /\ pc = "pop" /\ pc' = "draw" /\ drawn' = back
        /\ tetroBag' = SubSeq(tetroBag, 1, Len(tetroBag) - 1)
    BY <1>5 DEF PopBag
  <2>2. /\ back \in InBag
        /\ Len(tetroBag') = Len(tetroBag) - 1
        /\ InBag' = InBag \ {back}
    BY <2>1, PopsBack DEF Inv, BagTypeOK, ShakeSplits, BagShape
  <2>3. RoundLeft' = InBag \ {back}
    BY <2>1, <2>2, <1>n DEF RoundLeft, Inv, BagShape
  <2>4. Abstract!Round = InBag
    <3>1. CASE Len(tetroBag) = N
      BY <3>1, <2>1 DEF Abstract!Round, RoundLeft, Inv, BagShape
    <3>2. CASE Len(tetroBag) # N
      BY <3>2, <2>1, <2>2 DEF Abstract!Round, RoundLeft
    <3> QED
      BY <3>1, <3>2
  <2> QED
    BY <2>1, <2>2, <2>3, <2>4 DEF Abstract!Deal
<1>6. CASE UNCHANGED bagVars
  BY <1>6 DEF bagVars, RoundLeft, InBag
<1> QED
  BY <1>1, <1>2, <1>3, <1>4, <1>5, <1>6 DEF BagStep

\* tetroBag deals in rounds in which every shape comes once.
THEOREM BagDealsFairly == BagSpec => ImplementsFairDeal
<1>1. BagInit => Abstract!DealInit
  <2> SUFFICES ASSUME BagInit PROVE Abstract!DealInit
    OBVIOUS
  <2>1. RoundLeft = {}
    BY DEF BagInit, RoundLeft, InBag
  <2> QED
    BY <2>1 DEF BagInit, Abstract!DealInit
<1> QED
  BY <1>1, StepDeals, AlwaysInv, PTL
  DEF BagSpec, ImplementsFairDeal, Abstract!DealSpec, Abstract!dealVars
-----------------------------------------------------------------------------
(* The bags Engine.tla draws from in one step. *)

\* A bag without repeats is an injection.
LEMMA BagIsInjection ==
  ASSUME tetroBag \in Seq(Tetros), NoRepeats
  PROVE  tetroBag \in Injection(1 .. Len(tetroBag), Tetros)
<1>1. DOMAIN tetroBag = 1 .. Len(tetroBag) /\ tetroBag \in [1 .. Len(tetroBag) -> Tetros]
  BY LenProperties
<1> QED
  BY <1>1 DEF Injection, IsInjective, NoRepeats

\* engine.cpp:129, :151: outside drawTetro the bag is one of Engine!PartialBags, and
\* a bag drawn from while it is full, which the shake loop has just left, is
\* one of Engine!Shuffles: what Engine.tla does in one step is what the loop does.
THEOREM BagsAreEngineBags ==
  BagSpec => []( /\ pc = "draw" => \E n \in 0 .. N - 1 : tetroBag \in Injection(1 .. n, Tetros)
                 /\ pc = "pop" /\ Len(tetroBag) = N => tetroBag \in Bijection(1 .. N, Tetros) )
<1> DEFINE Rest == pc = "draw" => \E n \in 0 .. N - 1 : tetroBag \in Injection(1 .. n, Tetros)
           Shaken == pc = "pop" /\ Len(tetroBag) = N => tetroBag \in Bijection(1 .. N, Tetros)
<1>1. ASSUME Inv PROVE Rest /\ Shaken
  <2>1. tetroBag \in Injection(1 .. Len(tetroBag), Tetros) /\ Len(tetroBag) \in Nat /\ N \in Nat
    BY <1>1, BagIsInjection, NIsPositive DEF Inv, BagTypeOK, ShakeSplits
  <2>2. ASSUME pc = "draw" PROVE Len(tetroBag) \in 0 .. N - 1
    BY <1>1, <2>1, <2>2 DEF Inv, BagShape
  <2>3. ASSUME pc = "pop", Len(tetroBag) = N PROVE tetroBag \in Surjection(1 .. N, Tetros)
    <3>1. InBag = Tetros
      BY <1>1, <2>3 DEF Inv, BagShape
    <3>2. \A t \in Tetros : \E i \in 1 .. N : tetroBag[i] = t
      BY <2>3, <3>1 DEF InBag
    <3>3. tetroBag \in [1 .. N -> Tetros]
      BY <2>1, <2>3 DEF Injection
    <3> QED
      BY <3>2, <3>3 DEF Surjection
  <2> QED
    BY <2>1, <2>2, <2>3 DEF Bijection
<1> QED
  BY <1>1, AlwaysInv, PTL
=============================================================================
