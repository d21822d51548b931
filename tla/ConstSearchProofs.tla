-------------------------- MODULE ConstSearchProofs --------------------------
(***************************************************************************)
(* The search for the constant, for every batch, every sequence of         *)
(* iterates and every choice of its parameters, and the buffers of ZOO,    *)
(* for every size of images and batches and every sequence of calls.       *)
(***************************************************************************)
EXTENDS ConstSearch, Zoo, TLAPS

-----------------------------------------------------------------------------
(* ConstSearch                                                             *)

(***************************************************************************)
(* Within one run of the optimiser the best distance and the best attack   *)
(* belong together; the label test of _update_const is then the same as    *)
(* asking whether the distance is finite.                                  *)
(***************************************************************************)
InnerConsistent ==
  \A s \in Samples :
    IF best_dist[s] < Inf THEN best_attack[s] = [dist |-> best_dist[s], adversarial |-> TRUE]
                          ELSE best_attack[s] = Start

(***************************************************************************)
(* Below the cap the constant is the middle of its bracket, which is what  *)
(* makes a step a bisection.                                               *)
(***************************************************************************)
InTheMiddle ==
  \A s \in Samples : upper[s] < Cap => c[s] = (lower[s] + upper[s]) \div 2

IInv ==
  /\ TypeOK
  /\ InnerConsistent
  /\ BestIsAdversarial
  /\ BestIsLeast
  /\ Bracketed
  /\ InTheMiddle
  /\ BoundsWereTried

(***************************************************************************)
(* The middle of two numbers lies between them, within a half.             *)
(***************************************************************************)
LEMMA Middle ==
  ASSUME NEW l \in Nat, NEW u \in Nat, l <= u
  PROVE  /\ (l + u) \div 2 \in Nat
         /\ l <= (l + u) \div 2 /\ (l + u) \div 2 <= u
         /\ 2 * (((l + u) \div 2) - l) <= u - l + 1
         /\ 2 * (u - ((l + u) \div 2)) <= u - l + 1
OBVIOUS

(***************************************************************************)
(* One update of the constants of a sample, from a bracket to a bracket.   *)
(***************************************************************************)
LEMMA UpdateConst ==
  ASSUME IInv, NEW s \in Samples
  PROVE  /\ NewConst(s) \in Nat /\ NewLower(s) \in Nat /\ NewUpper(s) \in Nat
         /\ NewLower(s) <= NewConst(s)
         /\ NewUpper(s) < Cap => /\ NewConst(s) <= NewUpper(s)
                                 /\ NewConst(s) = (NewLower(s) + NewUpper(s)) \div 2
         /\ upper[s] < Cap => 2 * (NewUpper(s) - NewLower(s)) <= upper[s] - lower[s] + 1
<1>1. c[s] \in Nat /\ lower[s] \in Nat /\ upper[s] \in Nat /\ Cap \in Nat
  BY ConstAssumption DEF IInv, TypeOK
<1>2. lower[s] <= c[s] /\ (upper[s] < Cap => c[s] <= upper[s])
  BY DEF IInv, Bracketed
<1>3. upper[s] < Cap => c[s] = (lower[s] + upper[s]) \div 2
  BY DEF IInv, InTheMiddle
<1>4. NewLower(s) \in Nat /\ NewUpper(s) \in Nat
  BY <1>1 DEF NewLower, NewUpper
<1>5. NewUpper(s) < Cap => NewLower(s) <= NewUpper(s)
  BY <1>1, <1>2 DEF NewLower, NewUpper
<1>6. CASE NewUpper(s) < Cap
  <2>1. NewConst(s) = (NewLower(s) + NewUpper(s)) \div 2
    BY <1>6 DEF NewConst
  <2>2. NewConst(s) \in Nat /\ NewLower(s) <= NewConst(s) /\ NewConst(s) <= NewUpper(s)
    BY <1>4, <1>5, <1>6, <2>1, Middle
  <2>3. upper[s] < Cap => 2 * (NewUpper(s) - NewLower(s)) <= upper[s] - lower[s] + 1
    <3> SUFFICES ASSUME upper[s] < Cap
                 PROVE  2 * (NewUpper(s) - NewLower(s)) <= upper[s] - lower[s] + 1
      OBVIOUS
    <3>1. lower[s] <= upper[s]
      BY <1>1, <1>2
    <3>2. /\ 2 * (c[s] - lower[s]) <= upper[s] - lower[s] + 1
          /\ 2 * (upper[s] - c[s]) <= upper[s] - lower[s] + 1
      BY <1>1, <1>3, <3>1, Middle
    <3>3. \/ NewUpper(s) = c[s] /\ NewLower(s) = lower[s]
          \/ NewUpper(s) = upper[s] /\ NewLower(s) = c[s]
      BY <1>1, <1>2 DEF NewLower, NewUpper
    <3> QED
      BY <3>2, <3>3
  <2> QED
    BY <1>4, <2>1, <2>2, <2>3
<1>7. CASE ~(NewUpper(s) < Cap)
  <2>1. ~(upper[s] < Cap)
    BY <1>1, <1>2, <1>7 DEF NewUpper
  <2>2. NewConst(s) = IF Succeeded(s) THEN c[s] ELSE 10 * c[s]
    BY <1>7 DEF NewConst
  <2>3. NewConst(s) \in Nat /\ NewLower(s) <= NewConst(s)
    BY <1>1, <1>2, <2>2 DEF NewLower
  <2> QED
    BY <1>4, <1>7, <2>1, <2>3
<1> QED
  BY <1>6, <1>7

LEMMA InitInv == Init => IInv
<1> SUFFICES ASSUME Init PROVE IInv
  OBVIOUS
<1>1. TypeOK
  BY DistsAssumption, ConstAssumption, SearchAssumption DEF Init, TypeOK, Iterates, Start
<1>2. InnerConsistent /\ BestIsAdversarial
  BY DistsAssumption DEF Init, InnerConsistent, BestIsAdversarial
<1>3. BestIsLeast /\ BoundsWereTried
  BY DEF Init, BestIsLeast, BoundsWereTried
<1>4. Bracketed /\ InTheMiddle
  BY ConstAssumption DEF Init, Bracketed, InTheMiddle
<1> QED
  BY <1>1, <1>2, <1>3, <1>4 DEF IInv

LEMMA NextInv == IInv /\ [Next]_vars => IInv'
<1> SUFFICES ASSUME IInv, [Next]_vars PROVE IInv'
  OBVIOUS
<1> USE DistsAssumption, ConstAssumption, SearchAssumption
<1>1. ASSUME NEW new \in [Samples -> Iterates], Iterate(new)
      PROVE  IInv'
  <2>0. /\ phase = "inner" /\ phase' = phase /\ iter < MaxIter /\ iter' = iter + 1
        /\ bss' = bss
        /\ UNCHANGED <<c, lower, upper, broke, failed>> /\ UNCHANGED <<o_best_dist, o_best_attack>>
    BY <1>1 DEF Iterate, consts, outer
  <2>1. \A s \in Samples : new[s].dist \in Dists /\ new[s].adversarial \in BOOLEAN
                           /\ new[s] \in Iterates
                           /\ new[s] = [dist |-> new[s].dist, adversarial |-> new[s].adversarial]
    BY DEF Iterates
  <2>2. \A s \in Samples : best_dist[s] \in Dists \cup {Inf} /\ judged[s] \subseteq Dists
                           /\ best_attack[s] \in Iterates \cup {Start}
                           /\ o_best_dist[s] \in Dists \cup {Inf}
    BY DEF IInv, TypeOK
  <2>3. /\ best_dist' = [s \in Samples |-> IF Better(s, new[s]) THEN new[s].dist
                                                               ELSE best_dist[s]]
        /\ best_attack' = [s \in Samples |-> IF Better(s, new[s]) THEN new[s]
                                                                 ELSE best_attack[s]]
        /\ judged' = [s \in Samples |-> judged[s] \cup IF new[s].adversarial
                                                      THEN {new[s].dist} ELSE {}]
    BY <1>1 DEF Iterate
  <2>4. /\ best_dist' \in [Samples -> Dists \cup {Inf}]
        /\ best_attack' \in [Samples -> Iterates \cup {Start}]
        /\ judged' \in [Samples -> SUBSET Dists]
    BY <2>1, <2>2, <2>3
  <2>5. TypeOK'
    BY <2>0, <2>4 DEF IInv, TypeOK
  <2>6. InnerConsistent'
    <3> SUFFICES ASSUME NEW s \in Samples
                 PROVE  IF best_dist'[s] < Inf
                        THEN best_attack'[s] = [dist |-> best_dist'[s], adversarial |-> TRUE]
                        ELSE best_attack'[s] = Start
      BY DEF InnerConsistent
    <3>1. CASE Better(s, new[s])
      BY <2>1, <2>3, <3>1 DEF Better
    <3>2. CASE ~Better(s, new[s])
      BY <2>3, <3>2 DEF IInv, InnerConsistent
    <3> QED
      BY <3>1, <3>2
  <2>7. BestIsLeast'
    <3> SUFFICES ASSUME NEW s \in Samples, NEW d \in judged'[s]
                 PROVE  o_best_dist'[s] <= d \/ best_dist'[s] <= d
      BY DEF BestIsLeast
    <3>1. d \in Nat /\ o_best_dist[s] \in Nat /\ best_dist[s] \in Nat /\ new[s].dist \in Nat
      BY <2>1, <2>2, <2>4
    <3>2. best_dist'[s] <= best_dist[s] /\ best_dist'[s] \in Nat
      BY <2>3, <3>1 DEF Better
    <3>3. CASE d \in judged[s]
      BY <2>0, <3>1, <3>2, <3>3 DEF IInv, BestIsLeast
    <3>4. CASE d \notin judged[s]
      <4>1. new[s].adversarial /\ d = new[s].dist
        BY <2>3, <3>4
      <4> QED
        BY <2>3, <3>1, <4>1 DEF Better
    <3> QED
      BY <3>3, <3>4
  <2>8. BestIsAdversarial' /\ Bracketed' /\ InTheMiddle' /\ BoundsWereTried'
    BY <2>0 DEF IInv, BestIsAdversarial, Bracketed, InTheMiddle, BoundsWereTried
  <2> QED
    BY <2>5, <2>6, <2>7, <2>8 DEF IInv
<1>2. CASE Abort \/ InnerEnd
  <2>1. /\ phase = "inner" /\ phase' = "adjust"
        /\ UNCHANGED <<bss, iter, c, lower, upper, broke, failed, best_dist, best_attack,
                       o_best_dist, o_best_attack, judged>>
    BY <1>2 DEF Abort, InnerEnd, consts, inner, outer
  <2> QED
    BY <2>1 DEF IInv, TypeOK, InnerConsistent, BestIsAdversarial, BestIsLeast,
                Bracketed, InTheMiddle, BoundsWereTried
<1>3. CASE Adjust
  <2>0. /\ phase = "adjust" /\ bss' = bss + 1 /\ iter' = 0 /\ judged' = judged
        /\ phase' = IF bss + 1 < Steps THEN "inner" ELSE "done"
        /\ best_dist' = [s \in Samples |-> Inf] /\ best_attack' = [s \in Samples |-> Start]
        /\ o_best_attack' = [s \in Samples |-> KeepAttack(s)]
        /\ o_best_dist' = [s \in Samples |-> KeepDist(s)]
        /\ c' = [s \in Samples |-> NewConst(s)]
        /\ lower' = [s \in Samples |-> NewLower(s)]
        /\ upper' = [s \in Samples |-> NewUpper(s)]
        /\ broke' = [s \in Samples |-> broke[s] \cup IF best_dist[s] < Inf THEN {c[s]} ELSE {}]
        /\ failed' = [s \in Samples |-> failed[s] \cup IF best_dist[s] < Inf THEN {} ELSE {c[s]}]
    BY <1>3 DEF Adjust, MoreSteps
  <2>1. \A s \in Samples :
          /\ best_dist[s] \in Dists \cup {Inf} /\ o_best_dist[s] \in Dists \cup {Inf}
          /\ best_attack[s] \in Iterates \cup {Start}
          /\ o_best_attack[s] \in Iterates \cup {Start}
          /\ judged[s] \subseteq Dists /\ c[s] \in Nat
          /\ lower[s] \in Nat /\ upper[s] \in Nat /\ broke[s] \subseteq Nat /\ failed[s] \subseteq Nat
    BY DEF IInv, TypeOK
  <2>2. \A s \in Samples : Succeeded(s) <=> best_dist[s] < Inf
    <3> SUFFICES ASSUME NEW s \in Samples PROVE Succeeded(s) <=> best_dist[s] < Inf
      OBVIOUS
    <3>1. CASE best_dist[s] < Inf
      <4>1. best_attack[s] = [dist |-> best_dist[s], adversarial |-> TRUE]
        BY <3>1 DEF IInv, InnerConsistent
      <4> QED
        BY <3>1, <4>1 DEF Succeeded
    <3>2. CASE ~(best_dist[s] < Inf)
      <4>1. best_attack[s] = [dist |-> 0, adversarial |-> FALSE]
        BY <3>2 DEF IInv, InnerConsistent, Start
      <4>2. ~Succeeded(s)
        BY <4>1 DEF Succeeded
      <4> QED
        BY <3>2, <4>2
    <3> QED
      BY <3>1, <3>2
  <2>3. /\ o_best_dist' \in [Samples -> Dists \cup {Inf}]
        /\ o_best_attack' \in [Samples -> Iterates \cup {Start}]
    BY <2>0, <2>1 DEF KeepAttack, KeepDist
  <2>4. c' \in [Samples -> Nat] /\ lower' \in [Samples -> Nat] /\ upper' \in [Samples -> Nat]
    BY <2>0, UpdateConst
  <2>5. broke' \in [Samples -> SUBSET Nat] /\ failed' \in [Samples -> SUBSET Nat]
    BY <2>0, <2>1
  <2>6. bss' \in 0 .. Steps /\ (phase' # "done" => bss' < Steps)
        /\ phase' \in {"inner", "adjust", "done"} /\ iter' \in 0 .. MaxIter
    BY <2>0 DEF IInv, TypeOK
  <2>7. TypeOK'
    BY <2>0, <2>3, <2>4, <2>5, <2>6 DEF IInv, TypeOK
  <2>8. InnerConsistent'
    BY <2>0 DEF InnerConsistent
  <2>9. BestIsAdversarial'
    BY <2>0, <2>1 DEF KeepAttack, KeepDist, Improves, IInv, BestIsAdversarial, InnerConsistent
  <2>10. BestIsLeast'
    <3> SUFFICES ASSUME NEW s \in Samples, NEW d \in judged[s]
                 PROVE  o_best_dist'[s] <= d
      BY <2>0 DEF BestIsLeast
    <3>1. d \in Nat /\ o_best_dist[s] \in Nat /\ best_dist[s] \in Nat
      BY <2>1
    <3>2. o_best_dist[s] <= d \/ best_dist[s] <= d
      BY DEF IInv, BestIsLeast
    <3> QED
      BY <2>0, <3>1, <3>2 DEF KeepDist, Improves
  <2>11. Bracketed' /\ InTheMiddle'
    BY <2>0, UpdateConst DEF Bracketed, InTheMiddle
  <2>12. BoundsWereTried'
    <3> SUFFICES ASSUME NEW s \in Samples
                 PROVE  /\ NewLower(s) # 0 => NewLower(s) \in failed'[s]
                        /\ NewUpper(s) # Top => NewUpper(s) \in broke'[s]
      BY <2>0 DEF BoundsWereTried
    <3>1. /\ broke'[s] = broke[s] \cup IF best_dist[s] < Inf THEN {c[s]} ELSE {}
          /\ failed'[s] = failed[s] \cup IF best_dist[s] < Inf THEN {} ELSE {c[s]}
      BY <2>0
    <3>2. /\ lower[s] # 0 => lower[s] \in failed[s]
          /\ upper[s] # Top => upper[s] \in broke[s]
      BY DEF IInv, BoundsWereTried
    <3>3. CASE best_dist[s] < Inf
      <4>1. broke'[s] = broke[s] \cup {c[s]} /\ failed[s] \subseteq failed'[s]
        BY <3>1, <3>3
      <4>2. NewLower(s) = lower[s] /\ NewUpper(s) \in {c[s], upper[s]}
        BY <2>2, <3>3 DEF NewLower, NewUpper
      <4> QED
        BY <3>2, <4>1, <4>2
    <3>4. CASE ~(best_dist[s] < Inf)
      <4>1. failed'[s] = failed[s] \cup {c[s]} /\ broke[s] \subseteq broke'[s]
        BY <3>1, <3>4
      <4>2. NewUpper(s) = upper[s] /\ NewLower(s) \in {c[s], lower[s]}
        BY <2>2, <3>4 DEF NewLower, NewUpper
      <4> QED
        BY <3>2, <4>1, <4>2
    <3> QED
      BY <3>3, <3>4
  <2> QED
    BY <2>7, <2>8, <2>9, <2>10, <2>11, <2>12 DEF IInv
<1>4. CASE Returned \/ UNCHANGED vars
  <2>1. UNCHANGED <<phase, bss, iter, c, lower, upper, broke, failed, best_dist, best_attack,
                    o_best_dist, o_best_attack, judged>>
    BY <1>4 DEF Returned, vars, consts, inner, outer
  <2> QED
    BY <2>1 DEF IInv, TypeOK, InnerConsistent, BestIsAdversarial, BestIsLeast,
                Bracketed, InTheMiddle, BoundsWereTried
<1> QED
  BY <1>1, <1>2, <1>3, <1>4 DEF Next

(***************************************************************************)
(* The state keeps its types.                                              *)
(***************************************************************************)
THEOREM TypeCorrect == Spec => []TypeOK
<1>1. IInv => TypeOK
  BY DEF IInv
<1> QED
  BY <1>1, InitInv, NextInv, PTL DEF Spec

(***************************************************************************)
(* The example handed back is adversarial, at the distance remembered.     *)
(***************************************************************************)
THEOREM BestIsAdversarialAlways == Spec => []BestIsAdversarial
<1>1. IInv => BestIsAdversarial
  BY DEF IInv
<1> QED
  BY <1>1, InitInv, NextInv, PTL DEF Spec

(***************************************************************************)
(* Nothing adversarial that was looked at is nearer than what is kept.     *)
(***************************************************************************)
THEOREM BestIsLeastAlways == Spec => []BestIsLeast
<1>1. IInv => BestIsLeast
  BY DEF IInv
<1> QED
  BY <1>1, InitInv, NextInv, PTL DEF Spec

(***************************************************************************)
(* The constant stays in a bracket of constants that were tried.           *)
(***************************************************************************)
THEOREM BracketedAlways == Spec => [](Bracketed /\ BoundsWereTried)
<1>1. IInv => Bracketed /\ BoundsWereTried
  BY DEF IInv
<1> QED
  BY <1>1, InitInv, NextInv, PTL DEF Spec

(***************************************************************************)
(* Every step with a bracket halves it.                                    *)
(***************************************************************************)
THEOREM BisectsAlways == Spec => Bisects
<1>1. IInv /\ [Next]_vars => [BisectStep]_vars
  <2> SUFFICES ASSUME IInv, Adjust, NEW s \in Samples, upper[s] < Cap
               PROVE  2 * (upper'[s] - lower'[s]) <= upper[s] - lower[s] + 1
    BY DEF BisectStep
  <2> QED
    BY UpdateConst DEF Adjust
<1> QED
  BY <1>1, InitInv, NextInv, PTL DEF Spec, Bisects
-----------------------------------------------------------------------------
(* Zoo                                                                     *)

(***************************************************************************)
(* The values of ZOO's variables.  A batch is full as long as samples of   *)
(* its call are left, and single says that none had more than one image.   *)
(***************************************************************************)
ZooTypeOK ==
  /\ setup \in SetupType /\ phase \in {"idle", "start", "inner"}
  /\ left \in Nat /\ images \in Nat /\ iter_ \in Nat /\ bss \in Nat
  /\ size \in Nat \ {0} /\ noise \in Nat /\ adam \in Nat
  /\ prob \in [size : Nat, uniform : BOOLEAN]
  /\ error \in {"none", "mask", "prob", "store"} /\ calls \in Nat /\ single \in BOOLEAN

Batches ==
  /\ phase # "idle" => images > 0 /\ (single => images = 1) /\ (left > 0 => images = BatchSize)
  /\ calls = 0 => phase = "idle" /\ single /\ prob.uniform

(***************************************************************************)
(* Without resizing the noise is that of the batch and Adam's moments are  *)
(* those of one image, so that the first iteration on several images is    *)
(* the last of its call: probabilities that are not uniform come from      *)
(* batches of one image, unless a call before was left that way.           *)
(***************************************************************************)
Unresized ==
  ~setup.resize =>
    /\ phase = "inner" => size = Pixels /\ noise = images * Pixels /\ adam = Pixels
    /\ phase = "inner" /\ images > 1 => iter_ = 0
    /\ MaxIter = 0 => prob.uniform
    /\ single /\ ~prob.uniform => prob.size = Pixels
    /\ MaxIter > 0 /\ calls = 1 /\ ~single /\ phase # "idle" => images > 1 /\ prob.uniform

ZooInv == ZooTypeOK /\ Batches /\ Unresized /\ ResizedFits /\ StaleProbabilities

(***************************************************************************)
(* Sizes of batches: growing the images grows the batch, and several       *)
(* images do not fit the moments of one.                                   *)
(***************************************************************************)
LEMMA ZooNumbers ==
  /\ Pixels \in Nat \ {0} /\ Growth \in Nat \ {0} /\ BatchSize \in Nat \ {0}
  /\ MaxSamples \in Nat \ {0} /\ MaxCalls \in Nat /\ MaxIter \in Nat /\ Steps \in Nat
BY ZooAssumption, SearchAssumption

LEMMA BatchSizes ==
  ASSUME NEW n \in Nat, NEW p \in Nat \ {0}
  PROVE  /\ n * p \in Nat /\ Growth * (n * p) = n * (Growth * p) /\ Growth * p \in Nat \ {0}
         /\ n > 1 => n * p # p
         /\ n = 1 => n * p = p
<1>1. Growth \in Nat \ {0}
  BY ZooNumbers
<1>2. n * p \in Nat /\ Growth * p \in Nat
  BY <1>1
<1>3. Growth * (n * p) = n * (Growth * p)
  BY <1>1, Z3
<1>4. Growth * p # 0
  BY <1>1, Z3
<1>5. n > 1 => n * p > p
  BY Z3
<1>6. n = 1 => n * p = p
  BY Z3
<1> QED
  BY <1>2, <1>3, <1>4, <1>5, <1>6

LEMMA ZooInitInv == ZooInit => ZooInv
<1> SUFFICES ASSUME ZooInit PROVE ZooInv
  OBVIOUS
<1>1. BatchSize * Pixels \in Nat
  BY ZooNumbers
<1>2. ZooTypeOK
  BY <1>1, ZooNumbers, ZooAssumption DEF ZooInit, ZooTypeOK
<1>3. Batches /\ Unresized /\ ResizedFits /\ StaleProbabilities
  BY DEF ZooInit, Batches, Unresized, ResizedFits, StaleProbabilities
<1> QED
  BY <1>2, <1>3 DEF ZooInv

(***************************************************************************)
(* A new call keeps the buffers.                                           *)
(***************************************************************************)
LEMMA GenerateInv ==
  ASSUME ZooInv, NEW n \in 1 .. MaxSamples, Generate(n)
  PROVE  ZooInv'
<1>1. /\ UNCHANGED <<setup, iter_, size, best_size, noise, adam, prob>>
      /\ phase = "idle" /\ phase' \in {"start", "idle"} /\ calls' = calls + 1 /\ error' = "none" /\ bss' = 0
      /\ images' = Smaller(n, BatchSize) /\ left' = n - images'
      /\ single' = (single /\ images' = 1)
  BY DEF Generate, buffers
<1>2. ZooTypeOK /\ Batches /\ Unresized
  BY DEF ZooInv
<1>3. /\ images' \in Nat \ {0} /\ left' \in Nat /\ (left' > 0 => images' = BatchSize)
  BY <1>1, ZooNumbers DEF Smaller
<1>4. single' \in BOOLEAN /\ (single' <=> single /\ images' = 1)
  BY <1>1, <1>2 DEF ZooTypeOK
<1>5. ZooTypeOK'
  BY <1>1, <1>2, <1>3, <1>4 DEF ZooTypeOK
<1>6. Batches'
  BY <1>1, <1>2, <1>3, <1>4 DEF Batches, ZooTypeOK
<1>7. Unresized'
  <2> SUFFICES ASSUME ~setup.resize
               PROVE  /\ MaxIter = 0 => prob.uniform
                      /\ single' /\ ~prob.uniform => prob.size = Pixels
                      /\ MaxIter > 0 /\ calls' = 1 /\ ~single' /\ phase' # "idle" =>
                           images' > 1 /\ prob.uniform
    BY <1>1 DEF Unresized
  <2>1. (MaxIter = 0 => prob.uniform) /\ (single' /\ ~prob.uniform => prob.size = Pixels)
    BY <1>2, <1>4 DEF Unresized
  <2>2. ASSUME calls' = 1, ~single' PROVE images' > 1 /\ prob.uniform
    <3>1. calls = 0
      BY <1>1, <1>2, <2>2 DEF ZooTypeOK
    <3>2. single /\ prob.uniform
      BY <1>2, <3>1 DEF Batches
    <3> QED
      BY <3>2, <2>2, <1>3, <1>4
  <2> QED
    BY <2>1, <2>2
<1>8. ResizedFits' /\ StaleProbabilities'
  BY <1>1 DEF ResizedFits, StaleProbabilities
<1> QED
  BY <1>5, <1>6, <1>7, <1>8 DEF ZooInv

(***************************************************************************)
(* A step of the search makes the buffers anew, the probabilities only     *)
(* with resizing.                                                          *)
(***************************************************************************)
LEMMA StartStepInv == ZooInv /\ StartStep => ZooInv'
<1> SUFFICES ASSUME ZooInv, StartStep PROVE ZooInv'
  OBVIOUS
<1>1. /\ UNCHANGED <<setup, left, images, bss, error, calls, single>>
      /\ phase = "start" /\ phase' = "inner" /\ iter_' = 0 /\ size' = Pixels /\ noise' = images * Pixels
      /\ setup.resize => /\ adam' = images * Pixels
                         /\ prob' = [size |-> images * Pixels, uniform |-> TRUE]
      /\ ~setup.resize => adam' = Pixels /\ prob' = prob
  BY DEF StartStep
<1>2. ZooTypeOK /\ Batches /\ Unresized /\ ResizedFits /\ StaleProbabilities
  BY DEF ZooInv
<1>3. images * Pixels \in Nat /\ Pixels \in Nat \ {0}
  BY <1>2, ZooNumbers DEF ZooTypeOK
<1>4. adam' \in Nat /\ prob' \in [size : Nat, uniform : BOOLEAN]
  <2>1. CASE setup.resize
    <3>1. adam' \in Nat /\ prob' = [size |-> images * Pixels, uniform |-> TRUE]
      BY <2>1, <1>1, <1>3
    <3>2. TRUE \in BOOLEAN
      OBVIOUS
    <3>3. [size |-> images * Pixels, uniform |-> TRUE] \in [size : Nat, uniform : BOOLEAN]
      BY <3>2, <1>3, Zenon
    <3> QED
      BY <3>1, <3>3
  <2>2. CASE ~setup.resize
    BY <2>2, <1>1, <1>2, <1>3 DEF ZooTypeOK
  <2> QED
    BY <2>1, <2>2
<1>5. ZooTypeOK'
  BY <1>1, <1>2, <1>3, <1>4 DEF ZooTypeOK
<1>6. Batches'
  BY <1>1, <1>2 DEF Batches
<1>7. Unresized'
  BY <1>1, <1>2 DEF Unresized
<1>8. ResizedFits' /\ StaleProbabilities'
  BY <1>1, <1>2 DEF ResizedFits, StaleProbabilities
<1> QED
  BY <1>5, <1>6, <1>7, <1>8 DEF ZooInv

(***************************************************************************)
(* One iteration: the growth takes all buffers along.                      *)
(***************************************************************************)
LEMMA IterationInv ==
  ASSUME ZooInv, NEW uniform \in BOOLEAN, NEW stop \in BOOLEAN, NEW improves \in BOOLEAN,
         Iteration(uniform, stop, improves)
  PROVE  ZooInv'
<1> DEFINE drawn == ProbAtDraw(uniform)
<1>1. /\ UNCHANGED <<setup, images, bss, calls, single>>
      /\ phase = "inner" /\ iter_ < MaxIter
      /\ size' = NewSize /\ noise' = NewNoise /\ adam' = NewAdam
      /\ \/ DrawFails(drawn) /\ prob' = drawn /\ Leave("prob") /\ UNCHANGED iter_
         \/ /\ ~DrawFails(drawn) /\ prob' = AfterDraw(drawn, uniform)
            /\ \/ MaskFails /\ Leave("mask") /\ UNCHANGED iter_
               \/ ~MaskFails /\ Leave("store") /\ UNCHANGED iter_
               \/ ~MaskFails /\ iter_' \in {iter_ + 1, MaxIter} /\ UNCHANGED <<phase, left, error>>
  BY DEF Iteration
<1>2. ZooTypeOK /\ Batches /\ Unresized /\ ResizedFits /\ StaleProbabilities
  BY DEF ZooInv
<1>3. /\ setup \in SetupType /\ images \in Nat /\ size \in Nat \ {0} /\ noise \in Nat /\ adam \in Nat
      /\ iter_ \in Nat /\ left \in Nat /\ calls \in Nat /\ calls > 0 /\ images > 0
      /\ prob \in [size : Nat, uniform : BOOLEAN] /\ single \in BOOLEAN
      /\ MaxIter \in Nat /\ Growth \in Nat \ {0} /\ Pixels \in Nat \ {0}
  BY <1>1, <1>2, ZooNumbers DEF ZooTypeOK, Batches
<1>4. setup.resize => NewNoise = images * NewSize /\ NewAdam = NewNoise /\ drawn.size = NewNoise
  <2> SUFFICES ASSUME setup.resize PROVE NewNoise = images * NewSize /\ NewAdam = NewNoise /\ drawn.size = NewNoise
    OBVIOUS
  <2>1. noise = images * size /\ adam = noise /\ prob.size = noise
    BY <1>1, <1>2 DEF ResizedFits
  <2>2. CASE Grows
    <3>1. NewSize = Growth * size /\ NewNoise = images * NewSize /\ NewAdam = images * NewSize
      BY <2>2 DEF NewSize, NewNoise, NewAdam
    <3>2. drawn.size = Growth * (images * size)
      BY <2>1, <2>2 DEF ProbAtDraw, GrownProb
    <3> QED
      BY <3>1, <3>2, <1>3, BatchSizes
  <2>3. CASE ~Grows
    BY <2>1, <2>3 DEF NewSize, NewNoise, NewAdam, ProbAtDraw
  <2> QED
    BY <2>2, <2>3
<1>5. ~setup.resize => /\ NewSize = Pixels /\ NewNoise = images * Pixels /\ NewAdam = Pixels
                       /\ drawn = prob
  BY <1>1, <1>2 DEF Unresized, Grows, NewSize, NewNoise, NewAdam, ProbAtDraw
<1>6. /\ NewSize \in Nat \ {0} /\ NewNoise \in Nat /\ NewAdam \in Nat
      /\ drawn \in [size : Nat, uniform : BOOLEAN]
  <2>1. NewSize \in Nat \ {0}
    BY <1>3, BatchSizes DEF NewSize
  <2>2. images * NewSize \in Nat /\ Growth * noise \in Nat
    BY <1>3, <2>1
  <2> QED
    BY <2>1, <2>2, <1>3 DEF NewNoise, NewAdam, ProbAtDraw, GrownProb
<1>7. /\ AfterDraw(drawn, uniform) \in {drawn, [size |-> NewNoise, uniform |-> uniform]}
      /\ AfterDraw(drawn, uniform) \in [size : Nat, uniform : BOOLEAN]
  BY <1>6 DEF AfterDraw
<1>8. ~setup.resize /\ images > 1 => DrawFails(drawn) \/ MaskFails
  BY <1>3, <1>5, BatchSizes DEF MaskFails
<1>9. ZooTypeOK'
  <2>1. /\ prob' \in [size : Nat, uniform : BOOLEAN] /\ left' \in Nat /\ iter_' \in Nat
        /\ phase' \in {"idle", "start", "inner"} /\ error' \in {"none", "mask", "prob", "store"}
    BY <1>1, <1>2, <1>3, <1>6, <1>7 DEF Leave, ZooTypeOK
  <2> QED
    BY <2>1, <1>1, <1>2, <1>6 DEF ZooTypeOK
<1>10. Batches'
  BY <1>1, <1>2, <1>3 DEF Batches, Leave
<1>11. Unresized'
  <2> SUFFICES ASSUME ~setup.resize
               PROVE  /\ phase' = "inner" /\ images > 1 => iter_' = 0
                      /\ MaxIter # 0
                      /\ single /\ ~prob'.uniform => prob'.size = Pixels
                      /\ calls = 1 /\ ~single /\ phase' # "idle" => images > 1 /\ prob'.uniform
    BY <1>1, <1>5 DEF Unresized
  <2>1. phase' # "idle" => ~(images > 1)
    BY <1>1, <1>8 DEF Leave
  <2>2. MaxIter # 0
    BY <1>1, <1>3
  <2>3. ASSUME single, ~prob'.uniform PROVE prob'.size = Pixels
    <3>1. images = 1
      BY <2>3, <1>1, <1>2 DEF Batches
    <3>2. NewNoise = Pixels
      BY <3>1, <1>3, <1>5, BatchSizes
    <3>3. prob' = prob \/ prob' = [size |-> NewNoise, uniform |-> uniform]
      BY <1>1, <1>5, <1>7
    <3>4. CASE prob' = prob
      BY <2>3, <3>4, <1>2 DEF Unresized
    <3>5. CASE prob' = [size |-> NewNoise, uniform |-> uniform]
      BY <3>2, <3>5
    <3> QED
      BY <3>3, <3>4, <3>5
  <2>4. ~(calls = 1 /\ ~single /\ phase' # "idle")
    <3> SUFFICES ASSUME calls = 1, ~single, phase' # "idle" PROVE FALSE
      OBVIOUS
    <3>1. images > 1
      BY <1>1, <1>2, <1>3 DEF Unresized
    <3> QED
      BY <3>1, <2>1
  <2> QED
    BY <2>1, <2>2, <2>3, <2>4
<1>12. ResizedFits'
  <2> SUFFICES ASSUME setup.resize
               PROVE  /\ error' \notin {"mask", "prob"}
                      /\ phase' = "inner" =>
                           noise' = images * size' /\ adam' = noise' /\ prob'.size = noise'
    BY <1>1 DEF ResizedFits
  <2>1. ~DrawFails(drawn) /\ ~MaskFails
    BY <1>4 DEF DrawFails, MaskFails
  <2>2. prob'.size = NewNoise
    BY <2>1, <1>1, <1>4, <1>7
  <2> QED
    BY <2>1, <2>2, <1>1, <1>2, <1>4 DEF ResizedFits, Leave
<1>13. StaleProbabilities'
  <2>1. CASE DrawFails(drawn)
    <3>1. ~setup.resize
      BY <2>1, <1>4 DEF DrawFails
    <3>2. ~prob.uniform /\ prob.size # images * Pixels
      BY <2>1, <3>1, <1>5 DEF DrawFails, Weighted
    <3>3. ~single
      <4> SUFFICES ASSUME single PROVE FALSE
        OBVIOUS
      <4>1. images = 1 /\ prob.size = Pixels
        BY <3>1, <3>2, <1>1, <1>2 DEF Batches, Unresized
      <4> QED
        BY <4>1, <3>2, <1>3, BatchSizes
    <3>4. calls # 1
      BY <3>1, <3>2, <3>3, <1>1, <1>2, <1>3 DEF Unresized
    <3> QED
      BY <3>3, <3>4, <1>1, <1>3 DEF StaleProbabilities
  <2>2. CASE ~DrawFails(drawn)
    BY <2>2, <1>1, <1>2 DEF StaleProbabilities, Leave
  <2> QED
    BY <2>1, <2>2
<1> QED
  BY <1>9, <1>10, <1>11, <1>12, <1>13 DEF ZooInv

(***************************************************************************)
(* The end of a step, where a batch of several images only arrives without *)
(* iterations.                                                             *)
(***************************************************************************)
LEMMA EndStepInv == ZooInv /\ EndStep => ZooInv'
<1> SUFFICES ASSUME ZooInv, EndStep PROVE ZooInv'
  OBVIOUS
<1>1. /\ UNCHANGED <<setup, iter_, size, best_size, noise, adam, prob, error, calls>>
      /\ phase = "inner" /\ iter_ = MaxIter
      /\ \/ bss' = bss + 1 /\ phase' = "start" /\ UNCHANGED <<left, images, single>>
         \/ /\ left > 0 /\ images' = Smaller(left, BatchSize) /\ left' = left - images'
            /\ single' = (single /\ images' = 1) /\ bss' = 0 /\ phase' = "start"
         \/ phase' = "idle" /\ UNCHANGED <<bss, left, images, single>>
  BY DEF EndStep, buffers
<1>2. ZooTypeOK /\ Batches /\ Unresized /\ ResizedFits /\ StaleProbabilities
  BY DEF ZooInv
<1>3. /\ images \in Nat /\ images > 0 /\ left \in Nat /\ bss \in Nat /\ single \in BOOLEAN /\ iter_ \in Nat
      /\ calls \in Nat /\ calls > 0 /\ (single => images = 1) /\ (left > 0 => images = BatchSize)
      /\ MaxIter \in Nat /\ BatchSize \in Nat \ {0}
  BY <1>1, <1>2, ZooNumbers DEF ZooTypeOK, Batches
<1>4. /\ images' \in Nat /\ images' > 0 /\ left' \in Nat /\ bss' \in Nat /\ single' \in BOOLEAN
      /\ phase' \in {"start", "idle"} /\ (single' => single)
      /\ single' => images' = 1
      /\ left' > 0 => images' = BatchSize
  <2>1. CASE UNCHANGED <<left, images, single>> /\ bss' \in {bss, bss + 1} /\ phase' \in {"start", "idle"}
    BY <2>1, <1>3
  <2>2. CASE /\ left > 0 /\ images' = Smaller(left, BatchSize) /\ left' = left - images'
             /\ single' = (single /\ images' = 1) /\ bss' = 0 /\ phase' = "start"
    <3>1. images' \in Nat /\ images' > 0 /\ left' \in Nat /\ (left' > 0 => images' = BatchSize)
      BY <2>2, <1>3 DEF Smaller
    <3>2. single' \in BOOLEAN /\ (single' <=> single /\ images' = 1)
      BY <2>2, <1>3
    <3> QED
      BY <3>1, <3>2, <2>2
  <2> QED
    BY <2>1, <2>2, <1>1
<1>5. ZooTypeOK'
  BY <1>1, <1>2, <1>4 DEF ZooTypeOK
<1>6. Batches'
  BY <1>1, <1>3, <1>4 DEF Batches
<1>7. Unresized'
  <2> SUFFICES ASSUME ~setup.resize
               PROVE  /\ MaxIter = 0 => prob.uniform
                      /\ single' /\ ~prob.uniform => prob.size = Pixels
                      /\ ~(MaxIter > 0 /\ calls = 1 /\ ~single' /\ phase' # "idle")
    BY <1>1, <1>4 DEF Unresized
  <2>1. (MaxIter = 0 => prob.uniform) /\ (single' /\ ~prob.uniform => prob.size = Pixels)
    BY <1>2, <1>4 DEF Unresized
  <2>2. ASSUME MaxIter > 0, calls = 1, ~single' PROVE FALSE
    <3>1. CASE ~single
      <4>1. images > 1 /\ iter_ = 0
        BY <2>2, <3>1, <1>1, <1>2 DEF Unresized
      <4> QED
        BY <4>1, <2>2, <1>1
    <3>2. CASE single
      <4>1. left > 0 /\ images' = Smaller(left, BatchSize) /\ single' = (single /\ images' = 1)
        BY <2>2, <3>2, <1>1
      <4>2. BatchSize = 1
        BY <4>1, <3>2, <1>3
      <4>3. images' = 1
        BY <4>1, <4>2, <1>3 DEF Smaller
      <4> QED
        BY <4>1, <4>3, <3>2, <2>2
    <3> QED
      BY <3>1, <3>2
  <2> QED
    BY <2>1, <2>2
<1>8. ResizedFits' /\ StaleProbabilities'
  BY <1>1, <1>2, <1>4 DEF ResizedFits, StaleProbabilities
<1> QED
  BY <1>5, <1>6, <1>7, <1>8 DEF ZooInv

LEMMA ZooNextInv == ZooInv /\ [ZooNext]_zooVars => ZooInv'
<1> SUFFICES ASSUME ZooInv, [ZooNext]_zooVars PROVE ZooInv'
  OBVIOUS
<1>1. ASSUME NEW n \in 1 .. MaxSamples, Generate(n) PROVE ZooInv'
  BY <1>1, GenerateInv
<1>2. CASE StartStep
  BY <1>2, StartStepInv
<1>3. CASE EndStep
  BY <1>3, EndStepInv
<1>4. ASSUME NEW uniform \in BOOLEAN, NEW stop \in BOOLEAN, NEW improves \in BOOLEAN,
             Iteration(uniform, stop, improves)
      PROVE  ZooInv'
  BY <1>4, IterationInv
<1>5. CASE UNCHANGED zooVars
  BY <1>5 DEF zooVars, progress, buffers, ZooInv, ZooTypeOK, Batches, Unresized, ResizedFits,
              StaleProbabilities
<1> QED
  BY <1>1, <1>2, <1>3, <1>4, <1>5 DEF ZooNext

(***************************************************************************)
(* ZOO's variables keep their types over all batches and calls.            *)
(***************************************************************************)
THEOREM ZooTypeCorrect == ZooSpec => []ZooTypeOK
<1>1. ZooInv => ZooTypeOK
  BY DEF ZooInv
<1> QED
  BY <1>1, ZooInitInv, ZooNextInv, PTL DEF ZooSpec

(***************************************************************************)
(* With resizing the buffers fit the images at work in every iteration,    *)
(* and neither the draw nor the mask fails.                                *)
(***************************************************************************)
THEOREM ResizedFitsAlways == ZooSpec => []ResizedFits
<1>1. ZooInv => ResizedFits
  BY DEF ZooInv
<1> QED
  BY <1>1, ZooInitInv, ZooNextInv, PTL DEF ZooSpec

(***************************************************************************)
(* A draw fails only with probabilities that an earlier call left behind,  *)
(* and never as long as all batches have one image.                        *)
(***************************************************************************)
THEOREM StaleProbabilitiesAlways == ZooSpec => []StaleProbabilities
<1>1. ZooInv => StaleProbabilities
  BY DEF ZooInv
<1> QED
  BY <1>1, ZooInitInv, ZooNextInv, PTL DEF ZooSpec
=============================================================================
