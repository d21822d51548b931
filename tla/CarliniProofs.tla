---------------------------- MODULE CarliniProofs ----------------------------
(***************************************************************************)
(* CarliniLInf for every model, every decrease factor and every sweep, and *)
(* CarliniL0 for every number of features, samples, rounds and steps and   *)
(* every way of splitting the samples into batches.                        *)
(***************************************************************************)
EXTENDS CarliniLInf, CarliniL0, FiniteSetTheorems, TLAPS

-----------------------------------------------------------------------------
(* CarliniLInf                                                             *)

(***************************************************************************)
(* The distance to beat is the distance of what is kept, and the least of  *)
(* what was found.                                                         *)
(***************************************************************************)
Beaten ==
  /\ x_adv \in Images \cup {orig}
  /\ \A d \in found : d < One => delta_i_best <= d
  /\ delta_i_best < One => /\ x_adv.delta = delta_i_best /\ x_adv.label # Y
                           /\ delta_i_best \in found
  /\ delta_i_best = One => x_adv = orig

(***************************************************************************)
(* At the end of a sweep the limit is already below what is kept.          *)
(***************************************************************************)
TauBetweenRounds ==
  phase = "round" /\ x_adv # orig => tau < x_adv.delta

IInv == TypeOK /\ Beaten /\ TauBetweenRounds /\ TauBelowKept

(***************************************************************************)
(* Distances are numbers.                                                  *)
(***************************************************************************)
LEMMA Numbers ==
  /\ Deltas \cup {0} \subseteq Nat /\ One \in Nat /\ One > 0
  /\ \A d \in Deltas : d \in Nat /\ d > 0
<1>1. Deltas \subseteq Nat \ {0} /\ One \in Nat \ {0}
  BY ImageAssumption
<1>2. \A d \in Deltas : d \in Nat /\ d > 0
  BY <1>1
<1> QED
  BY <1>1, <1>2

(***************************************************************************)
(* A proper fraction of a positive number is less than the number.         *)
(***************************************************************************)
LEMMA Shrinks ==
  ASSUME NEW m \in Nat
  PROVE  /\ (m * Num) \div Den \in Nat /\ (m * Num) \div Den <= m
         /\ m > 0 => (m * Num) \div Den < m
<1> DEFINE q == (m * Num) \div Den
<1>1. Num \in Nat /\ Den \in Nat \ {0} /\ Num < Den
  BY FactorAssumption
<1>2. m * Num \in Nat
  BY <1>1
<1>3. q \in Nat /\ Den * q <= m * Num
  BY <1>1, <1>2, Z3
<1> HIDE DEF q
<1>4. m = 0 => q = 0
  BY <1>1, <1>3, Z3
<1>5. m > 0 => m * Num < m * Den
  BY <1>1, Z3
<1>6. m > 0 => q < m
  <2> SUFFICES ASSUME m > 0, q >= m PROVE FALSE
    BY <1>3
  <2>1. Den * m <= Den * q
    BY <1>1, <1>3, Z3
  <2> QED
    BY <1>1, <1>3, <1>5, <2>1, Z3
<1> QED
  BY <1>3, <1>4, <1>6 DEF q

(***************************************************************************)
(* The limit of the next round is below this one's and below what is kept. *)
(***************************************************************************)
LEMMA NextTauShrinks ==
  ASSUME TypeOK
  PROVE  /\ NextTau \in 0 .. One
         /\ x_adv.delta > 0 => NextTau < x_adv.delta
<1> DEFINE m == IF x_adv.delta < tau THEN x_adv.delta ELSE tau
<1>1. x_adv.delta \in Deltas \cup {0}
  BY DEF TypeOK, Images, Originals
<1>2. x_adv.delta \in Nat /\ tau \in Nat /\ tau <= One /\ One \in Nat
  BY <1>1, Numbers DEF TypeOK
<1>3. m \in Nat /\ m <= One /\ m <= x_adv.delta
  BY <1>2
<1>4. NextTau = (m * Num) \div Den
  BY DEF NextTau
<1> HIDE DEF m
<1>5. /\ NextTau \in Nat /\ NextTau <= m
      /\ m > 0 => NextTau < m
  BY <1>3, <1>4, Shrinks
<1> QED
  BY <1>2, <1>3, <1>5

LEMMA InitInv == Init => IInv
<1> SUFFICES ASSUME Init PROVE IInv
  OBVIOUS
<1>1. One \in 0 .. One /\ InitialConst \in Nat
  BY Numbers, FactorAssumption
<1>2. TypeOK
  BY <1>1 DEF Init, TypeOK
<1>3. Beaten
  BY Numbers DEF Init, Beaten
<1> QED
  BY <1>2, <1>3 DEF Init, IInv, Beaten, TauBetweenRounds, TauBelowKept

LEMMA NextInv == IInv /\ [Next]_vars => IInv'
<1> SUFFICES ASSUME IInv, [Next]_vars PROVE IInv'
  OBVIOUS
<1>0. TypeOK /\ Beaten /\ TauBetweenRounds /\ TauBelowKept
  BY DEF IInv
<1>1. CASE Round
  <2>1. /\ phase = "round" /\ phase' = "sweep" /\ sample_done' = TRUE
        /\ const' = InitialConst
        /\ UNCHANGED <<tau, delta_i_best, orig, x_adv, found>>
    BY <1>1 DEF Round
  <2>2. TypeOK'
    BY <1>0, <2>1, FactorAssumption DEF TypeOK
  <2>3. Beaten'
    BY <1>0, <2>1 DEF Beaten
  <2>4. TauBetweenRounds' /\ TauBelowKept'
    BY <1>0, <2>1 DEF TauBetweenRounds, TauBelowKept
  <2> QED
    BY <2>2, <2>3, <2>4 DEF IInv
<1>2. CASE Stop
  BY <1>0, <1>2 DEF Stop, IInv, TypeOK, Beaten, TauBetweenRounds, TauBelowKept
<1>3. CASE EndSweep
  <2>1. /\ phase = "sweep" /\ phase' = "round" /\ tau' = NextTau
        /\ UNCHANGED <<const, sample_done, delta_i_best, orig, x_adv, found>>
    BY <1>3 DEF EndSweep
  <2>2. TypeOK'
    BY <1>0, <2>1, NextTauShrinks DEF TypeOK
  <2>3. Beaten'
    BY <1>0, <2>1 DEF Beaten
  <2>4. TauBetweenRounds'
    <3> SUFFICES ASSUME x_adv # orig PROVE NextTau < x_adv.delta
      BY <2>1 DEF TauBetweenRounds
    <3>1. x_adv \in Images
      BY <1>0 DEF Beaten
    <3>2. x_adv.delta \in Deltas
      BY <3>1 DEF Images
    <3>3. x_adv.delta \in Nat /\ x_adv.delta > 0
      BY <3>2, Numbers
    <3> QED
      BY <1>0, <3>3, NextTauShrinks
  <2>5. TauBelowKept'
    BY <2>1 DEF TauBelowKept
  <2> QED
    BY <2>2, <2>3, <2>4, <2>5 DEF IInv
<1>4. ASSUME NEW image \in Images \cup {orig}, TryConst(image) PROVE IInv'
  <2>1. /\ phase = "sweep" /\ UNCHANGED <<phase, tau, orig>>
        /\ const' = const * ConstFactor
        /\ found' = found \cup IF image.label # Y THEN {image.delta} ELSE {}
    BY <1>4 DEF TryConst, NextConst
  <2>2. image \in Images \cup Originals /\ image.delta \in Deltas \cup {0}
    BY <1>0 DEF TypeOK, Images, Originals
  <2>3. /\ image.delta \in Nat /\ delta_i_best \in Nat /\ delta_i_best <= One /\ One \in Nat
        /\ found \subseteq Nat
    <3>1. delta_i_best \in 0 .. One /\ found \subseteq Deltas \cup {0}
      BY <1>0 DEF TypeOK
    <3> QED
      BY <2>2, <3>1, Numbers
  <2>4. const' \in Nat
    BY <1>0, <2>1, FactorAssumption, Z3 DEF TypeOK
  <2>5. found' \subseteq Deltas \cup {0}
    BY <1>0, <2>1, <2>2 DEF TypeOK
  <2>6. TauBetweenRounds'
    BY <2>1 DEF TauBetweenRounds
  <2>7. CASE Accepts(image)
    <3>1. x_adv' = image /\ delta_i_best' = image.delta /\ sample_done' = FALSE
      BY <1>4, <2>7 DEF TryConst
    <3>2. image.label # Y /\ image.delta < delta_i_best
      BY <2>7 DEF Accepts
    <3>3. found' = found \cup {image.delta}
      BY <2>1, <3>2
    <3>4. TypeOK'
      <4>1. delta_i_best' \in 0 .. One
        BY <2>3, <3>1, <3>2
      <4> QED
        BY <1>0, <2>1, <2>2, <2>4, <2>5, <3>1, <4>1 DEF TypeOK
    <3>5. Beaten'
      BY <1>0, <2>1, <2>3, <3>1, <3>2, <3>3 DEF Beaten
    <3> QED
      BY <2>6, <3>1, <3>4, <3>5 DEF IInv, TauBelowKept
  <2>8. CASE ~Accepts(image)
    <3>1. UNCHANGED <<x_adv, delta_i_best, sample_done>>
      BY <1>4, <2>8 DEF TryConst
    <3>2. image.label = Y \/ delta_i_best <= image.delta
      BY <2>3, <2>8 DEF Accepts
    <3>3. TypeOK'
      BY <1>0, <2>1, <2>4, <2>5, <3>1 DEF TypeOK
    <3>4. Beaten'
      BY <1>0, <2>1, <3>1, <3>2 DEF Beaten
    <3>5. TauBelowKept'
      BY <1>0, <2>1, <3>1 DEF TauBelowKept
    <3> QED
      BY <2>6, <3>3, <3>4, <3>5 DEF IInv
  <2> QED
    BY <2>7, <2>8
<1>5. CASE Returned \/ UNCHANGED vars
  BY <1>0, <1>5 DEF Returned, vars, IInv, TypeOK, Beaten, TauBetweenRounds, TauBelowKept
<1> QED
  BY <1>1, <1>2, <1>3, <1>4, <1>5 DEF Next, Work

(***************************************************************************)
(* The state keeps its types.                                              *)
(***************************************************************************)
THEOREM TypeCorrect == Spec => []TypeOK
<1>1. IInv => TypeOK
  BY DEF IInv
<1> QED
  BY <1>1, InitInv, NextInv, PTL DEF Spec

(***************************************************************************)
(* The image handed back is the nearest of another class that was tried.   *)
(***************************************************************************)
THEOREM KeptIsNearestAlways == Spec => []KeptIsNearest
<1>1. IInv => KeptIsNearest
  <2> SUFFICES ASSUME IInv PROVE KeptIsNearest
    OBVIOUS
  <2>1. TypeOK /\ Beaten
    BY DEF IInv
  <2>2. One \in Nat /\ delta_i_best \in 0 .. One /\ found \subseteq Nat
    BY <2>1, ImageAssumption DEF TypeOK
  <2>3. CASE delta_i_best < One
    BY <2>1, <2>2, <2>3 DEF Beaten, KeptIsNearest
  <2>4. CASE delta_i_best = One
    BY <2>1, <2>2, <2>4 DEF Beaten, KeptIsNearest
  <2> QED
    BY <2>2, <2>3, <2>4
<1> QED
  BY <1>1, InitInv, NextInv, PTL DEF Spec

(***************************************************************************)
(* Every new round looks for something nearer than what is kept.           *)
(***************************************************************************)
THEOREM TauBelowKeptAlways == Spec => []TauBelowKept
<1>1. IInv => TauBelowKept
  BY DEF IInv
<1> QED
  BY <1>1, InitInv, NextInv, PTL DEF Spec
-----------------------------------------------------------------------------
(* CarliniL0                                                               *)

(***************************************************************************)
(* What is chosen before the loop stays what it was, and a sample succeeds *)
(* at most once a round.                                                   *)
(***************************************************************************)
Settled ==
  /\ batches \in Batchings /\ mask \in Masks /\ warm_start \in BOOLEAN
  /\ \A s \in Samples : wins[s] <= round
  /\ phase \in {"batch", "iterate", "judge"} => round < Rounds
  /\ phase = "exhausted" => round = Rounds
  /\ phase = "judge" => batch_id = 1

(***************************************************************************)
(* A success fixes an active feature as long as there is one.              *)
(***************************************************************************)
Left(n) == IF n >= Cardinality(mask) THEN 0 ELSE Cardinality(mask) - n

Counted ==
  \A s \in Samples :
    /\ Cardinality(activation[s]) = Left(wins[s])
    /\ wins[s] > 0 => Cardinality(old_activation[s]) = Left(wins[s] - 1)

(***************************************************************************)
(* Without a warm start the images of a round change active features only, *)
(* from where the batch at work has come to and from the batches before it.*)
(***************************************************************************)
Attacked(s) == phase = "judge" \/ \E b \in 1 .. batch_id - 1 : s \in batches[b]

InsideActive ==
  ~warm_start =>
    \A s \in Samples :
      /\ phase \in {"batch", "iterate", "judge"} /\ Attacked(s) => x_adv[s] \subseteq activation[s]
      /\ phase = "iterate" /\ s \in Batch =>
           x_adv_batch[s] \subseteq activation[s] /\ best_x_adv_batch[s] \subseteq activation[s]

(***************************************************************************)
(* What is kept of the successes.                                          *)
(***************************************************************************)
Kept ==
  \A s \in Samples :
    /\ wins[s] = 0 => final_adversarial_example[s] = Original
    /\ wins[s] > 0 => final_adversarial_example[s] \in adversarial
    /\ ~warm_start /\ wins[s] > 0 => final_adversarial_example[s] \subseteq old_activation[s]

(***************************************************************************)
(* With a warm start a sample broken before begins a batch where it will   *)
(* end it: at the best image, at distance 0 as soon as it is recorded.     *)
(***************************************************************************)
AtBest(s) ==
  /\ best_x_adv_batch[s] = x_adv[s]
  /\ \/ best_l0dist_batch[s] = 0
     \/ /\ best_l0dist_batch[s] = Inf
        /\ x_adv_batch[s] = x_adv[s] /\ attack_success[s]

StandsStill ==
  warm_start =>
    \A s \in Samples :
      wins[s] > 0 => /\ x_adv[s] \in adversarial
                     /\ phase = "iterate" /\ s \in Batch => AtBest(s)

(***************************************************************************)
(* How the two ways out are reached.                                       *)
(***************************************************************************)
WaysOut ==
  /\ phase = "early" => \A s \in Samples : x_adv[s] \notin adversarial
  /\ phase = "exhausted" =>
       \A s \in Samples : wins[s] > 0 /\ wins[s] = Rounds => x_adv[s] \in adversarial

L0Inv ==
  L0TypeOK /\ Settled /\ Counted /\ InsideActive /\ Kept /\ StandsStill /\ WaysOut

(***************************************************************************)
(* The sizes of images and of differences of images.                       *)
(***************************************************************************)
LEMMA ImageSizes ==
  /\ Inf \in Nat \ {0} /\ Rounds \in Nat /\ Steps \in Nat \ {0} /\ MaxIter \in Nat
  /\ \A image \in L0Images : IsFiniteSet(image)
  /\ \A image \in L0Images, from \in L0Images : L0(image, from) \in 0 .. Inf - 1
  /\ \A image \in L0Images : L0(image, image) = 0
<1>1. IsFiniteSet(Features) /\ Cardinality(Features) \in Nat
  BY SizesAssumption, FS_CardinalityType
<1>2. Inf \in Nat \ {0} /\ Inf - 1 = Cardinality(Features)
  BY <1>1 DEF Inf
<1>3. \A image \in L0Images :
         /\ IsFiniteSet(image) /\ Cardinality(image) \in Nat
         /\ Cardinality(image) <= Cardinality(Features)
  BY <1>1, FS_Subset, FS_CardinalityType DEF L0Images
<1>4. ASSUME NEW image \in L0Images, NEW from \in L0Images PROVE L0(image, from) \in 0 .. Inf - 1
  <2>1. (image \ from) \cup (from \ image) \in L0Images
    BY DEF L0Images
  <2> QED
    BY <2>1, <1>1, <1>2, <1>3 DEF L0
<1>5. ASSUME NEW image \in L0Images PROVE L0(image, image) = 0
  <2>1. (image \ image) \cup (image \ image) = {}
    OBVIOUS
  <2> QED
    BY <2>1, FS_EmptySet DEF L0
<1> QED
  BY <1>2, <1>3, <1>4, <1>5, SizesAssumption

(***************************************************************************)
(* The values of the functions, one by one.                                *)
(***************************************************************************)
LEMMA L0Values ==
  ASSUME L0TypeOK
  PROVE  /\ x_adv \in [Samples -> L0Images] /\ x_adv_batch \in [Samples -> L0Images]
         /\ best_x_adv_batch \in [Samples -> L0Images] /\ activation \in [Samples -> L0Images]
         /\ old_activation \in [Samples -> L0Images]
         /\ final_adversarial_example \in [Samples -> L0Images]
         /\ best_l0dist_batch \in [Samples -> 0 .. Inf] /\ wins \in [Samples -> 0 .. Rounds]
         /\ attack_success \in [Samples -> BOOLEAN]
         /\ Original \in L0Images /\ (\A s \in Samples : Begin(s) \in L0Images)
  BY DEF L0TypeOK, Begin, Original, L0Images

(***************************************************************************)
(* The number of active features left, and one less.                       *)
(***************************************************************************)
LEMMA LeftOver ==
  ASSUME Settled
  PROVE  /\ mask \in L0Images /\ Cardinality(mask) \in Nat /\ Left(0) = Cardinality(mask)
         /\ \A n \in Nat : /\ Left(n) \in Nat
                           /\ Left(n + 1) = IF Left(n) = 0 THEN 0 ELSE Left(n) - 1
<1>1. mask \in L0Images /\ Cardinality(mask) \in Nat
  BY ImageSizes, SizesAssumption, FS_CardinalityType DEF Settled, L0Images
<1> QED
  BY <1>1 DEF Left

LEMMA L0InitInv == L0Init => L0Inv
<1> SUFFICES ASSUME L0Init PROVE L0Inv
  OBVIOUS
<1>1. mask \in L0Images /\ Original \in L0Images /\ warm_start \in BOOLEAN
  BY SizesAssumption DEF L0Init, L0Images, Original
<1>2. batch_id \in DOMAIN batches
  BY BatchingAssumption DEF L0Init
<1>3. L0TypeOK
  BY <1>1, <1>2, ImageSizes DEF L0Init, L0TypeOK
<1>4. Settled
  BY <1>1, ImageSizes DEF L0Init, Settled
<1>5. Counted
  BY <1>4, LeftOver DEF L0Init, Counted
<1>6. InsideActive
  BY DEF L0Init, InsideActive, Attacked
<1>7. Kept /\ StandsStill /\ WaysOut
  BY DEF L0Init, Kept, StandsStill, WaysOut
<1> QED
  BY <1>3, <1>4, <1>5, <1>6, <1>7 DEF L0Inv

LEMMA StartBatchInv == L0Inv /\ StartBatch => L0Inv'
<1> SUFFICES ASSUME L0Inv, StartBatch PROVE L0Inv'
  OBVIOUS
<1>1. /\ UNCHANGED <<adversarial, batches, mask, warm_start, round, batch_id>>
      /\ UNCHANGED <<x_adv, activation, old_activation, final_adversarial_example, wins>>
      /\ Samples' = Samples /\ Batch' = Batch
      /\ phase = "batch" /\ phase' = "iterate" /\ bss' = 0 /\ i_iter' = 0
      /\ best_l0dist_batch' = [s \in Samples |-> Inf]
      /\ best_x_adv_batch' = [s \in Samples |-> Begin(s)]
      /\ x_adv_batch' = [s \in Samples |-> IF s \in Batch THEN Begin(s) ELSE x_adv_batch[s]]
      /\ attack_success' =
           [s \in Samples |-> IF s \in Batch THEN Begin(s) \in adversarial ELSE attack_success[s]]
  BY DEF StartBatch, StartStep, config, outer, Samples, Batch
<1>2. L0TypeOK /\ Settled /\ Counted /\ InsideActive /\ Kept /\ StandsStill /\ WaysOut
  BY DEF L0Inv
<1>3. L0TypeOK'
  <2>1. x_adv_batch' \in [Samples -> L0Images] /\ best_x_adv_batch' \in [Samples -> L0Images]
    BY <1>1, <1>2, L0Values
  <2>2. attack_success' \in [Samples -> BOOLEAN]
    <3>1. attack_success \in [Samples -> BOOLEAN]
      BY <1>2, L0Values
    <3>2. ASSUME NEW s \in Samples
          PROVE  (IF s \in Batch THEN Begin(s) \in adversarial ELSE attack_success[s]) \in BOOLEAN
      <4>1. CASE s \in Batch
        BY <4>1
      <4>2. CASE s \notin Batch
        BY <4>2, <3>1, Zenon
      <4> QED
        BY <4>1, <4>2, Zenon
    <3> QED
      BY <3>2, <1>1, Zenon
  <2>3. best_l0dist_batch' \in [Samples -> 0 .. Inf] /\ bss' \in 0 .. Steps - 1 /\ i_iter' \in 0 .. MaxIter
    BY <1>1, ImageSizes
  <2> QED
    BY <1>1, <1>2, <2>1, <2>2, <2>3, L0Values DEF L0TypeOK, L0Images
<1>4. Settled' /\ Counted' /\ Kept' /\ WaysOut'
  BY <1>1, <1>2 DEF Settled, Counted, Left, Kept, WaysOut
<1>5. InsideActive'
  BY <1>1, <1>2 DEF InsideActive, Attacked, Begin, Original
<1>6. StandsStill'
  BY <1>1, <1>2 DEF StandsStill, AtBest, Begin
<1> QED
  BY <1>3, <1>4, <1>5, <1>6 DEF L0Inv

(***************************************************************************)
(* What keeping the best does to the best images and their distances.      *)
(***************************************************************************)
LEMMA BestKept ==
  ASSUME L0Inv, phase = "iterate", KeepBest
  PROVE  /\ best_l0dist_batch' \in [Samples -> 0 .. Inf]
         /\ best_x_adv_batch' \in [Samples -> L0Images]
         /\ ~warm_start => \A s \in Samples : s \in Batch => best_x_adv_batch'[s] \subseteq activation[s]
         /\ warm_start => \A s \in Samples :
              s \in Batch /\ wins[s] > 0 => best_x_adv_batch'[s] = x_adv[s] /\ best_l0dist_batch'[s] = 0
<1>1. L0TypeOK /\ InsideActive /\ StandsStill
  BY DEF L0Inv
<1>2. \A s \in Samples : Dist(s) \in 0 .. Inf - 1
  BY <1>1, L0Values, ImageSizes DEF Dist
<1>3. /\ best_l0dist_batch' = [s \in Samples |-> IF Improves(s) THEN Dist(s) ELSE best_l0dist_batch[s]]
      /\ best_x_adv_batch' = [s \in Samples |-> IF Improves(s) THEN x_adv_batch[s] ELSE best_x_adv_batch[s]]
  BY DEF KeepBest
<1>4. best_l0dist_batch' \in [Samples -> 0 .. Inf]
  BY <1>1, <1>2, <1>3, L0Values, ImageSizes
<1>5. best_x_adv_batch' \in [Samples -> L0Images]
  BY <1>1, <1>3, L0Values
<1>6. ASSUME ~warm_start, NEW s \in Samples, s \in Batch
      PROVE  best_x_adv_batch'[s] \subseteq activation[s]
  BY <1>1, <1>3, <1>6 DEF InsideActive
<1>7. ASSUME warm_start, NEW s \in Samples, s \in Batch, wins[s] > 0
      PROVE  best_x_adv_batch'[s] = x_adv[s] /\ best_l0dist_batch'[s] = 0
  <2>1. AtBest(s)
    BY <1>1, <1>7 DEF StandsStill
  <2>2. CASE best_l0dist_batch[s] = 0
    <3>1. ~Improves(s)
      BY <2>2, <1>2 DEF Improves
    <3> QED
      BY <3>1, <2>1, <2>2, <1>3 DEF AtBest
  <2>3. CASE /\ best_l0dist_batch[s] = Inf
             /\ x_adv_batch[s] = x_adv[s] /\ attack_success[s]
    <3>1. x_adv[s] \in L0Images /\ Begin(s) = x_adv[s]
      BY <1>1, <1>7, L0Values DEF Begin
    <3>2. Dist(s) = 0 /\ 0 < Inf
      BY <3>1, <2>3, ImageSizes DEF Dist
    <3>3. Improves(s)
      BY <3>2, <2>3, <1>7 DEF Improves
    <3> QED
      BY <3>2, <3>3, <2>3, <1>3
  <2> QED
    BY <2>1, <2>2, <2>3 DEF AtBest
<1> QED
  BY <1>4, <1>5, <1>6, <1>7

LEMMA IterateInv ==
  ASSUME L0Inv, NEW end, Iterate(end)
  PROVE  L0Inv'
<1>1. /\ UNCHANGED <<adversarial, batches, mask, warm_start, round, batch_id, phase, bss>>
      /\ UNCHANGED <<x_adv, activation, old_activation, final_adversarial_example, wins>>
      /\ Samples' = Samples /\ Batch' = Batch
      /\ phase = "iterate" /\ i_iter' = i_iter + 1 /\ i_iter < MaxIter /\ KeepBest
      /\ end \in Ends
      /\ x_adv_batch' = [s \in Samples |->
           IF s \in Batch /\ end[s].taken THEN end[s].image ELSE x_adv_batch[s]]
  BY DEF Iterate, config, outer, Samples, Batch
<1>2. L0TypeOK /\ Settled /\ Counted /\ InsideActive /\ Kept /\ StandsStill /\ WaysOut
  BY DEF L0Inv
<1>3. \A s \in Batch : end[s].image \in L0Images
                       /\ end[s].image \ activation[s] = x_adv_batch[s] \ activation[s]
  BY <1>1 DEF Ends, Reachable
<1>4. L0TypeOK'
  <2>1. x_adv_batch' \in [Samples -> L0Images]
    BY <1>1, <1>2, <1>3, L0Values
  <2>2. best_l0dist_batch' \in [Samples -> 0 .. Inf] /\ best_x_adv_batch' \in [Samples -> L0Images]
    BY <1>1, BestKept
  <2>3. attack_success' \in [Samples -> BOOLEAN]
    <3>1. attack_success \in [Samples -> BOOLEAN]
      BY <1>2, L0Values
    <3>2. ASSUME NEW s \in Samples
          PROVE  (IF s \in Batch THEN end[s].image \in adversarial ELSE attack_success[s]) \in BOOLEAN
      <4>1. CASE s \in Batch
        BY <4>1
      <4>2. CASE s \notin Batch
        BY <4>2, <3>1, Zenon
      <4> QED
        BY <4>1, <4>2, Zenon
    <3>3. \/ attack_success' = attack_success
          \/ attack_success' = [s \in Samples |->
               IF s \in Batch THEN end[s].image \in adversarial ELSE attack_success[s]]
      BY DEF Iterate
    <3> QED
      BY <3>2, <3>1, <3>3, Zenon
  <2>4. i_iter' \in 0 .. MaxIter
    BY <1>1, <1>2, ImageSizes DEF L0TypeOK
  <2> QED
    BY <1>1, <1>2, <2>1, <2>2, <2>3, <2>4, L0Values DEF L0TypeOK, L0Images
<1>5. Settled' /\ Counted' /\ Kept' /\ WaysOut'
  BY <1>1, <1>2 DEF Settled, Counted, Left, Kept, WaysOut
<1>6. InsideActive'
  <2> SUFFICES ASSUME ~warm_start, NEW s \in Samples, s \in Batch
               PROVE  x_adv_batch'[s] \subseteq activation[s] /\ best_x_adv_batch'[s] \subseteq activation[s]
    BY <1>1, <1>2 DEF InsideActive, Attacked
  <2>1. best_x_adv_batch'[s] \subseteq activation[s]
    BY <1>1, BestKept
  <2>2. x_adv_batch[s] \subseteq activation[s]
    BY <1>1, <1>2 DEF InsideActive
  <2>3. end[s].image \subseteq activation[s]
    BY <2>2, <1>3
  <2> QED
    BY <2>1, <2>2, <2>3, <1>1
<1>7. StandsStill'
  BY <1>1, <1>2, BestKept DEF StandsStill, AtBest
<1> QED
  BY <1>4, <1>5, <1>6, <1>7 DEF L0Inv

LEMMA NextStepInv == L0Inv /\ NextStep => L0Inv'
<1> SUFFICES ASSUME L0Inv, NextStep PROVE L0Inv'
  OBVIOUS
<1>1. /\ UNCHANGED <<adversarial, batches, mask, warm_start, round, batch_id, phase>>
      /\ UNCHANGED <<x_adv, activation, old_activation, final_adversarial_example, wins>>
      /\ Samples' = Samples /\ Batch' = Batch
      /\ phase = "iterate" /\ i_iter' = 0 /\ bss' = bss + 1 /\ bss + 1 < Steps /\ KeepBest
      /\ x_adv_batch' = [s \in Samples |-> IF s \in Batch THEN Begin(s) ELSE x_adv_batch[s]]
      /\ attack_success' =
           [s \in Samples |-> IF s \in Batch THEN Begin(s) \in adversarial ELSE attack_success[s]]
  BY DEF NextStep, StartStep, config, outer, Samples, Batch
<1>2. L0TypeOK /\ Settled /\ Counted /\ InsideActive /\ Kept /\ StandsStill /\ WaysOut
  BY DEF L0Inv
<1>3. L0TypeOK'
  <2>1. x_adv_batch' \in [Samples -> L0Images]
    BY <1>1, <1>2, L0Values
  <2>2. best_l0dist_batch' \in [Samples -> 0 .. Inf] /\ best_x_adv_batch' \in [Samples -> L0Images]
    BY <1>1, BestKept
  <2>3. attack_success' \in [Samples -> BOOLEAN]
    <3>1. attack_success \in [Samples -> BOOLEAN]
      BY <1>2, L0Values
    <3>2. ASSUME NEW s \in Samples
          PROVE  (IF s \in Batch THEN Begin(s) \in adversarial ELSE attack_success[s]) \in BOOLEAN
      <4>1. CASE s \in Batch
        BY <4>1
      <4>2. CASE s \notin Batch
        BY <4>2, <3>1, Zenon
      <4> QED
        BY <4>1, <4>2, Zenon
    <3> QED
      BY <3>2, <1>1, Zenon
  <2>4. i_iter' \in 0 .. MaxIter /\ bss' \in 0 .. Steps - 1
    BY <1>1, <1>2, ImageSizes DEF L0TypeOK
  <2> QED
    BY <1>1, <1>2, <2>1, <2>2, <2>3, <2>4, L0Values DEF L0TypeOK, L0Images
<1>4. Settled' /\ Counted' /\ Kept' /\ WaysOut'
  BY <1>1, <1>2 DEF Settled, Counted, Left, Kept, WaysOut
<1>5. InsideActive'
  <2> SUFFICES ASSUME ~warm_start, NEW s \in Samples, s \in Batch
               PROVE  x_adv_batch'[s] \subseteq activation[s] /\ best_x_adv_batch'[s] \subseteq activation[s]
    BY <1>1, <1>2 DEF InsideActive, Attacked
  <2> QED
    BY <1>1, BestKept DEF Begin, Original
<1>6. StandsStill'
  BY <1>1, <1>2, BestKept DEF StandsStill, AtBest
<1> QED
  BY <1>3, <1>4, <1>5, <1>6 DEF L0Inv

(***************************************************************************)
(* The last batch of a round leads to the judgement of all samples.        *)
(***************************************************************************)
LEMMA EndBatchInv == L0Inv /\ EndBatch => L0Inv'
<1> SUFFICES ASSUME L0Inv, EndBatch PROVE L0Inv'
  OBVIOUS
<1>1. /\ UNCHANGED <<adversarial, batches, mask, warm_start, round, bss, i_iter>>
      /\ UNCHANGED <<x_adv_batch, attack_success>>
      /\ UNCHANGED <<activation, old_activation, final_adversarial_example, wins>>
      /\ Samples' = Samples
      /\ phase = "iterate" /\ KeepBest
      /\ x_adv' = [s \in Samples |-> IF s \in Batch THEN best_x_adv_batch'[s] ELSE x_adv[s]]
      /\ \/ batch_id < Len(batches) /\ phase' = "batch" /\ batch_id' = batch_id + 1
         \/ ~(batch_id < Len(batches)) /\ phase' = "judge" /\ batch_id' = 1
  BY DEF EndBatch, config, Samples
<1>2. L0TypeOK /\ Settled /\ Counted /\ InsideActive /\ Kept /\ StandsStill /\ WaysOut
  BY DEF L0Inv
<1>3. /\ Len(batches) \in Nat \ {0} /\ DOMAIN batches = 1 .. Len(batches)
      /\ batch_id \in 1 .. Len(batches)
  BY <1>2, BatchingAssumption DEF Settled, L0TypeOK
<1>4. L0TypeOK'
  <2>1. x_adv' \in [Samples -> L0Images]
    BY <1>1, <1>2, BestKept, L0Values
  <2>2. best_l0dist_batch' \in [Samples -> 0 .. Inf] /\ best_x_adv_batch' \in [Samples -> L0Images]
    BY <1>1, BestKept
  <2>3. batch_id' \in DOMAIN batches
    BY <1>1, <1>3
  <2> QED
    BY <1>1, <1>2, <2>1, <2>2, <2>3, L0Values DEF L0TypeOK, L0Images
<1>5. Settled' /\ Counted' /\ Kept'
  BY <1>1, <1>2 DEF Settled, Counted, Left, Kept
<1>6. WaysOut'
  BY <1>1 DEF WaysOut
<1>7. InsideActive'
  <2> SUFFICES ASSUME ~warm_start, NEW s \in Samples, Attacked(s)'
               PROVE  x_adv'[s] \subseteq activation[s]
    BY <1>1 DEF InsideActive
  <2>1. s \in Batch \/ Attacked(s)
    <3>1. CASE batch_id < Len(batches) /\ phase' = "batch" /\ batch_id' = batch_id + 1
      <4>1. PICK b \in 1 .. (batch_id + 1) - 1 : s \in batches[b]
        BY <3>1, <1>1 DEF Attacked
      <4>2. b = batch_id \/ b \in 1 .. batch_id - 1
        BY <1>3
      <4> QED
        BY <4>1, <4>2 DEF Attacked, Batch
    <3>2. CASE ~(batch_id < Len(batches))
      <4>1. PICK b \in 1 .. Len(batches) : s \in batches[b]
        BY <1>3 DEF Samples
      <4>2. b = batch_id \/ b \in 1 .. batch_id - 1
        BY <3>2, <1>3
      <4> QED
        BY <4>1, <4>2 DEF Attacked, Batch
    <3> QED
      BY <3>1, <3>2, <1>1
  <2>2. CASE s \in Batch
    BY <2>2, <1>1, BestKept
  <2>3. CASE Attacked(s) /\ s \notin Batch
    BY <2>3, <1>1, <1>2 DEF InsideActive
  <2> QED
    BY <2>1, <2>2, <2>3
<1>8. StandsStill'
  <2> SUFFICES ASSUME warm_start, NEW s \in Samples, wins[s] > 0 PROVE x_adv'[s] \in adversarial
    BY <1>1 DEF StandsStill
  <2>1. x_adv[s] \in adversarial
    BY <1>2 DEF StandsStill
  <2> QED
    BY <2>1, <1>1, BestKept
<1> QED
  BY <1>4, <1>5, <1>6, <1>7, <1>8 DEF L0Inv

(***************************************************************************)
(* Fixing a feature: one active feature less, if there is one.             *)
(***************************************************************************)
LEMMA FixInv ==
  ASSUME L0Inv, NEW f, Fix(f)
  PROVE  L0Inv'
<1>1. /\ UNCHANGED <<adversarial, batches, mask, warm_start, batch_id, x_adv>>
      /\ UNCHANGED <<bss, i_iter, x_adv_batch, attack_success, best_l0dist_batch, best_x_adv_batch>>
      /\ Samples' = Samples /\ Batch' = Batch
      /\ phase = "judge" /\ round' = round + 1
      /\ phase' = IF round + 1 < Rounds THEN "batch" ELSE "exhausted"
      /\ \A s \in Samples : f[s] \in Fixable(s)
      /\ final_adversarial_example' =
           [s \in Samples |-> IF s \in Improved THEN x_adv[s] ELSE final_adversarial_example[s]]
      /\ old_activation' = [s \in Samples |-> IF s \in Improved THEN activation[s] ELSE old_activation[s]]
      /\ activation' = [s \in Samples |-> IF s \in Improved THEN activation[s] \ {f[s]} ELSE activation[s]]
      /\ wins' = [s \in Samples |-> IF s \in Improved THEN wins[s] + 1 ELSE wins[s]]
  BY DEF Fix, config, inner, Samples, Batch, Remembered
<1>2. L0TypeOK /\ Settled /\ Counted /\ InsideActive /\ Kept /\ StandsStill /\ WaysOut
  BY DEF L0Inv
<1>3. /\ \A s \in Samples : wins[s] \in Nat /\ wins[s] <= round
      /\ round \in Nat /\ round < Rounds /\ Rounds \in Nat
  BY <1>1, <1>2, ImageSizes, L0Values DEF Settled, L0TypeOK
<1>4. \A s \in Samples : s \in Improved <=> x_adv[s] \in adversarial
  BY DEF Improved
<1>5. L0TypeOK'
  <2>1. /\ final_adversarial_example' \in [Samples -> L0Images]
        /\ old_activation' \in [Samples -> L0Images]
    BY <1>1, <1>2, L0Values
  <2>2. activation' \in [Samples -> L0Images]
    BY <1>1, <1>2, L0Values DEF L0Images
  <2>3. wins' \in [Samples -> 0 .. Rounds] /\ round' \in 0 .. Rounds
    BY <1>1, <1>2, <1>3, L0Values
  <2> QED
    BY <1>1, <1>2, <2>1, <2>2, <2>3, L0Values DEF L0TypeOK, L0Images
<1>6. Settled'
  <2>1. \A s \in Samples : wins'[s] <= round'
    BY <1>1, <1>3
  <2>2. (phase' \in {"batch", "iterate", "judge"} => round' < Rounds)
        /\ (phase' = "exhausted" => round' = Rounds) /\ phase' # "judge"
    BY <1>1, <1>3
  <2> QED
    BY <1>1, <1>2, <2>1, <2>2 DEF Settled
<1>7. Counted'
  <2> SUFFICES ASSUME NEW s \in Samples
               PROVE  /\ Cardinality(activation'[s]) = Left(wins'[s])
                      /\ wins'[s] > 0 => Cardinality(old_activation'[s]) = Left(wins'[s] - 1)
    BY <1>1 DEF Counted, Left
  <2>1. CASE s \notin Improved
    BY <2>1, <1>1, <1>2 DEF Counted
  <2>2. CASE s \in Improved
    <3>1. /\ activation'[s] = activation[s] \ {f[s]} /\ old_activation'[s] = activation[s]
          /\ wins'[s] = wins[s] + 1 /\ wins'[s] - 1 = wins[s]
      BY <2>2, <1>1, <1>3
    <3>2. /\ Cardinality(activation[s]) = Left(wins[s]) /\ activation[s] \in L0Images
          /\ IsFiniteSet(activation[s])
      BY <1>2, L0Values, ImageSizes DEF Counted
    <3>3. Left(wins[s]) \in Nat /\ Left(wins[s] + 1) = IF Left(wins[s]) = 0 THEN 0 ELSE Left(wins[s]) - 1
      BY <1>2, <1>3, LeftOver
    <3>4. CASE activation[s] = {}
      <4>1. activation'[s] = {} /\ Cardinality({}) = 0
        BY <3>1, <3>4, FS_EmptySet
      <4> QED
        BY <4>1, <3>1, <3>2, <3>3, <3>4
    <3>5. CASE activation[s] # {}
      <4>1. f[s] \in activation[s]
        BY <3>5, <1>1 DEF Fixable
      <4>2. Cardinality(activation[s] \ {f[s]}) = Cardinality(activation[s]) - 1
        BY <4>1, <3>2, FS_RemoveElement
      <4>3. Left(wins[s]) # 0
        BY <3>2, <3>5, FS_EmptySet
      <4> QED
        BY <4>2, <4>3, <3>1, <3>2, <3>3
    <3> QED
      BY <3>4, <3>5
  <2> QED
    BY <2>1, <2>2
<1>8. InsideActive'
  <2>1. CASE phase' = "exhausted"
    BY <2>1, <1>1 DEF InsideActive
  <2>2. CASE phase' = "batch"
    <3>1. \A s \in Samples : ~Attacked(s)'
      BY <2>2, <1>1, <1>2 DEF Attacked, Settled
    <3> QED
      BY <2>2, <3>1, <1>1 DEF InsideActive
  <2> QED
    BY <2>1, <2>2, <1>1
<1>9. Kept'
  <2> SUFFICES ASSUME NEW s \in Samples
               PROVE  /\ wins'[s] = 0 => final_adversarial_example'[s] = Original
                      /\ wins'[s] > 0 => final_adversarial_example'[s] \in adversarial
                      /\ ~warm_start /\ wins'[s] > 0 =>
                           final_adversarial_example'[s] \subseteq old_activation'[s]
    BY <1>1 DEF Kept, Original
  <2>1. CASE s \notin Improved
    BY <2>1, <1>1, <1>2 DEF Kept
  <2>2. CASE s \in Improved
    <3>1. ~warm_start => x_adv[s] \subseteq activation[s]
      BY <1>1, <1>2 DEF InsideActive, Attacked
    <3> QED
      BY <3>1, <2>2, <1>1, <1>3, <1>4
  <2> QED
    BY <2>1, <2>2
<1>10. StandsStill'
  <2> SUFFICES ASSUME warm_start, NEW s \in Samples, wins'[s] > 0 PROVE x_adv[s] \in adversarial
    BY <1>1 DEF StandsStill
  <2> QED
    BY <1>1, <1>2, <1>4 DEF StandsStill
<1>11. WaysOut'
  <2> SUFFICES ASSUME phase' = "exhausted", NEW s \in Samples, wins'[s] = Rounds
               PROVE  x_adv[s] \in adversarial
    BY <1>1 DEF WaysOut
  <2>1. s \in Improved
    BY <1>1, <1>3
  <2> QED
    BY <2>1, <1>4
<1> QED
  BY <1>5, <1>6, <1>7, <1>8, <1>9, <1>10, <1>11 DEF L0Inv

LEMMA ReturnEarlyInv == L0Inv /\ ReturnEarly => L0Inv'
<1> SUFFICES ASSUME L0Inv, ReturnEarly PROVE L0Inv'
  OBVIOUS
<1>1. /\ UNCHANGED <<adversarial, batches, mask, warm_start, round, batch_id>>
      /\ UNCHANGED <<bss, i_iter, x_adv_batch, attack_success, best_l0dist_batch, best_x_adv_batch>>
      /\ UNCHANGED <<x_adv, activation, old_activation, final_adversarial_example, wins>>
      /\ Samples' = Samples /\ phase' = "early" /\ Improved = {}
  BY DEF ReturnEarly, config, inner, outer, Samples
<1>2. L0TypeOK /\ Settled /\ Counted /\ InsideActive /\ Kept /\ StandsStill /\ WaysOut
  BY DEF L0Inv
<1>3. L0TypeOK'
  BY <1>1, <1>2 DEF L0TypeOK, L0Images
<1>4. Settled' /\ Counted' /\ Kept' /\ StandsStill' /\ InsideActive'
  BY <1>1, <1>2 DEF Settled, Counted, Left, Kept, StandsStill, InsideActive
<1>5. WaysOut'
  BY <1>1 DEF WaysOut, Improved
<1> QED
  BY <1>3, <1>4, <1>5 DEF L0Inv

LEMMA L0StutterInv == L0Inv /\ UNCHANGED l0Vars => L0Inv'
<1> SUFFICES ASSUME L0Inv, UNCHANGED l0Vars PROVE L0Inv'
  OBVIOUS
<1>1. /\ UNCHANGED <<adversarial, batches, mask, warm_start, round, batch_id, phase>>
      /\ UNCHANGED <<bss, i_iter, x_adv_batch, attack_success, best_l0dist_batch, best_x_adv_batch>>
      /\ UNCHANGED <<x_adv, activation, old_activation, final_adversarial_example, wins>>
      /\ Samples' = Samples /\ Batch' = Batch
  BY DEF l0Vars, config, inner, outer, Samples, Batch
<1>2. L0TypeOK /\ Settled /\ Counted /\ InsideActive /\ Kept /\ StandsStill /\ WaysOut
  BY DEF L0Inv
<1>3. L0TypeOK'
  BY <1>1, <1>2 DEF L0TypeOK, L0Images
<1>4. Settled' /\ Counted' /\ Kept' /\ WaysOut'
  BY <1>1, <1>2 DEF Settled, Counted, Left, Kept, WaysOut
<1>5. InsideActive' /\ StandsStill'
  BY <1>1, <1>2 DEF InsideActive, Attacked, StandsStill, AtBest
<1> QED
  BY <1>3, <1>4, <1>5 DEF L0Inv

LEMMA L0NextInv == L0Inv /\ [L0Next]_l0Vars => L0Inv'
<1> SUFFICES ASSUME L0Inv, [L0Next]_l0Vars PROVE L0Inv'
  OBVIOUS
<1>1. CASE StartBatch
  BY <1>1, StartBatchInv
<1>2. ASSUME NEW end, Iterate(end) PROVE L0Inv'
  BY <1>2, IterateInv
<1>3. CASE NextStep
  BY <1>3, NextStepInv
<1>4. CASE EndBatch
  BY <1>4, EndBatchInv
<1>5. ASSUME NEW f, Fix(f) PROVE L0Inv'
  BY <1>5, FixInv
<1>6. CASE ReturnEarly
  BY <1>6, ReturnEarlyInv
<1>7. CASE UNCHANGED l0Vars
  BY <1>7, L0StutterInv
<1> QED
  BY <1>1, <1>2, <1>3, <1>4, <1>5, <1>6, <1>7 DEF L0Next, L0Returned

LEMMA L0InvAlways == L0Spec => []L0Inv
<1> QED
  BY L0InitInv, L0NextInv, PTL DEF L0Spec

(***************************************************************************)
(* The loops of CarliniL0Method keep the types of their variables: no      *)
(* distance exceeds the number of features, no sample succeeds more than   *)
(* once a round.                                                           *)
(***************************************************************************)
THEOREM L0TypeCorrect == L0Spec => []L0TypeOK
<1>1. L0Inv => L0TypeOK
  BY DEF L0Inv
<1> QED
  BY <1>1, L0InvAlways, PTL

(***************************************************************************)
(* The early return hands back every sample broken before, adversarial,    *)
(* and the others untouched.                                               *)
(***************************************************************************)
THEOREM FoundIsReturnedAlways == L0Spec => []FoundIsReturned
<1>1. L0Inv => FoundIsReturned
  <2> SUFFICES ASSUME L0Inv, phase = "early", NEW s \in Samples
               PROVE  IF wins[s] > 0 THEN Result(s) \in adversarial ELSE Result(s) = Original
    BY DEF FoundIsReturned
  <2>1. Kept /\ StandsStill /\ WaysOut /\ L0TypeOK
    BY DEF L0Inv
  <2>2. Result(s) = final_adversarial_example[s] \cap old_activation[s]
    BY DEF Result
  <2>3. CASE wins[s] > 0
    <3>1. ~warm_start
      BY <2>1, <2>3 DEF StandsStill, WaysOut
    <3>2. /\ final_adversarial_example[s] \in adversarial
          /\ final_adversarial_example[s] \subseteq old_activation[s]
      BY <3>1, <2>1, <2>3 DEF Kept
    <3>3. Result(s) = final_adversarial_example[s]
      BY <3>2, <2>2
    <3> QED
      BY <3>2, <3>3, <2>3
  <2>4. CASE ~(wins[s] > 0)
    <3>1. wins[s] = 0
      BY <2>1, <2>4, ImageSizes, L0Values
    <3> QED
      BY <3>1, <2>1, <2>2, <2>4 DEF Kept, Original
  <2> QED
    BY <2>3, <2>4
<1> QED
  BY <1>1, L0InvAlways, PTL

(***************************************************************************)
(* When the rounds are used up nothing found is lost with a warm start,    *)
(* and without one only what failed in the last round.                     *)
(***************************************************************************)
THEOREM LostOnlyColdAlways == L0Spec => []LostOnlyCold
<1>1. L0Inv => LostOnlyCold
  <2> SUFFICES ASSUME L0Inv, phase = "exhausted", NEW s \in Samples, wins[s] > 0
               PROVE  Result(s) \in adversarial \/ (~warm_start /\ wins[s] < Rounds)
    BY DEF LostOnlyCold
  <2>1. L0TypeOK /\ StandsStill /\ WaysOut /\ Settled
    BY DEF L0Inv
  <2>2. Result(s) = x_adv[s]
    BY DEF Result
  <2>3. CASE warm_start
    BY <2>1, <2>2, <2>3 DEF StandsStill
  <2>4. CASE wins[s] = Rounds
    BY <2>1, <2>2, <2>4 DEF WaysOut
  <2>5. CASE ~warm_start /\ wins[s] # Rounds
    <3>1. wins[s] \in 0 .. Rounds /\ Rounds \in Nat
      BY <2>1, L0Values, ImageSizes
    <3> QED
      BY <3>1, <2>5
  <2>6. warm_start \in BOOLEAN
    BY <2>1 DEF Settled
  <2> QED
    BY <2>3, <2>4, <2>5, <2>6
<1> QED
  BY <1>1, L0InvAlways, PTL

(***************************************************************************)
(* Each success leaves exactly one active feature less, and without a warm *)
(* start the kept image changes no feature that was fixed before it.       *)
(***************************************************************************)
THEOREM NarrowedAlways == L0Spec => []Narrowed
<1>1. L0Inv => Narrowed
  <2> SUFFICES ASSUME L0Inv, NEW s \in Samples, wins[s] > 0
               PROVE  /\ Cardinality(old_activation[s]) =
                           IF wins[s] > Cardinality(mask) THEN 0 ELSE Cardinality(mask) + 1 - wins[s]
                      /\ ~warm_start => final_adversarial_example[s] \subseteq old_activation[s]
    BY DEF Narrowed
  <2>1. L0TypeOK /\ Settled /\ Counted /\ Kept
    BY DEF L0Inv
  <2>2. wins[s] \in 0 .. Rounds /\ Rounds \in Nat /\ Cardinality(mask) \in Nat
    BY <2>1, L0Values, ImageSizes, LeftOver
  <2>3. Cardinality(old_activation[s]) = Left(wins[s] - 1)
    BY <2>1 DEF Counted
  <2>4. Left(wins[s] - 1) = IF wins[s] > Cardinality(mask) THEN 0 ELSE Cardinality(mask) + 1 - wins[s]
    BY <2>2 DEF Left
  <2> QED
    BY <2>1, <2>3, <2>4 DEF Kept
<1> QED
  BY <1>1, L0InvAlways, PTL
=============================================================================
