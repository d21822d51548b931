--------------------------- MODULE CarliniL2Proofs ---------------------------
(***************************************************************************)
(* CarliniL2 for every batch, every landscape of points and every choice   *)
(* of its parameters.                                                      *)
(***************************************************************************)
EXTENDS CarliniL2, TLAPS

IInv ==
  /\ TypeOK
  /\ LowerBelowConst

(***************************************************************************)
(* Half of the way from one number to a larger one lies between them.      *)
(***************************************************************************)
LEMMA Halfway ==
  ASSUME NEW l \in Nat, NEW u \in Nat, l <= u
  PROVE  /\ (l + u) \div 2 \in Nat /\ l <= (l + u) \div 2
         /\ (u - l) \div 2 \in Nat
OBVIOUS

(***************************************************************************)
(* The update of the constants keeps them above their lower bounds, in     *)
(* spite of the bound being read after the constant has changed.           *)
(***************************************************************************)
LEMMA ConstAboveLower ==
  ASSUME IInv, NEW s \in Samples
  PROVE  NewConst(s) \in Nat /\ NewLower(s) \in Nat /\ NewLower(s) <= NewConst(s)
<1>1. c[s] \in Nat /\ c_lower[s] \in Nat /\ c_lower[s] <= c[s]
  BY DEF IInv, TypeOK, LowerBelowConst
<1>2. /\ (c_lower[s] + c[s]) \div 2 \in Nat /\ c_lower[s] <= (c_lower[s] + c[s]) \div 2
      /\ (c[s] - c_lower[s]) \div 2 \in Nat
  BY <1>1, Halfway
<1>3. CASE overall[s]
  BY <1>1, <1>2, <1>3 DEF NewConst, NewLower
<1>4. CASE ~overall[s]
  <2>1. NewConst(s) = IF c_double[s] THEN 2 * c[s] ELSE c[s] + (c[s] - c_lower[s]) \div 2
    BY <1>4 DEF NewConst
  <2>2. NewConst(s) \in Nat
    BY <1>1, <1>2, <2>1
  <2> QED
    BY <1>4, <2>2 DEF NewLower
<1> QED
  BY <1>3, <1>4

(***************************************************************************)
(* The distance of an image is a number below Inf.                         *)
(***************************************************************************)
LEMMA ImageDistance == \A p \in Points : p.l2 \in Nat /\ p.l2 < Inf
<1>1. \A p \in Points : p.l2 \in L2s \cup {0}
  BY DEF Points
<1>2. \A l \in L2s \cup {0} : l \in Nat /\ l < Inf
  BY PointsAssumption
<1> QED
  BY <1>1, <1>2

(***************************************************************************)
(* The distances of the state are numbers, those of images below Inf.      *)
(***************************************************************************)
LEMMA Distances ==
  ASSUME TypeOK, NEW s \in Samples
  PROVE  /\ cur[s] \in Points /\ seen[s] \in Points /\ orig[s] \in Points
         /\ cur[s].l2 \in Nat /\ cur[s].l2 < Inf /\ seen[s].l2 \in Nat
         /\ best_l2dist[s] \in Nat /\ nearest[s] \in Nat /\ nearest[s] <= Inf /\ Inf \in Nat
<1>1. /\ cur[s] \in Points /\ seen[s] \in Points /\ orig[s] \in Points
      /\ best_l2dist[s] \in L2s \cup {0, Inf} /\ nearest[s] \in L2s \cup {0, Inf}
  BY DEF TypeOK
<1>2. cur[s].l2 \in L2s \cup {0} /\ seen[s].l2 \in L2s \cup {0}
  BY <1>1 DEF Points
<1>3. \A l \in L2s \cup {0} : l \in Nat /\ l < Inf
  BY PointsAssumption
<1>4. Inf \in Nat
  BY PointsAssumption
<1>5. cur[s].l2 \in Nat /\ cur[s].l2 < Inf /\ seen[s].l2 \in Nat
  BY <1>2, <1>3
<1>6. best_l2dist[s] \in Nat /\ nearest[s] \in Nat /\ nearest[s] <= Inf
  BY <1>1, <1>3, <1>4
<1> QED
  BY <1>1, <1>4, <1>5, <1>6

(***************************************************************************)
(* An adversarial image succeeds, whatever its distance and the constant.  *)
(***************************************************************************)
LEMMA AdversarialSucceeds ==
  ASSUME TypeOK, NEW s \in Samples, NEW p \in Points, p.margin = 0
  PROVE  Succeeds(s, p)
<1>1. c[s] \in Nat /\ p.l2 \in Nat
  BY PointsAssumption DEF TypeOK, Points
<1> QED
  BY <1>1 DEF Succeeds, Loss

(***************************************************************************)
(* Keeping the best, and noting the nearest, keep the types.               *)
(***************************************************************************)
LEMMA BestKept ==
  ASSUME TypeOK, KeepBest
  PROVE  /\ best_l2dist' \in [Samples -> L2s \cup {0, Inf}]
         /\ best_adv' \in [Samples -> Points]
         /\ mistaken' \subseteq Samples
<1>1. \A s \in Samples :
        /\ cur[s] \in Points /\ best_adv[s] \in Points
        /\ seen[s].l2 \in L2s \cup {0} /\ best_l2dist[s] \in L2s \cup {0, Inf}
  BY DEF TypeOK, Points
<1> QED
  BY <1>1 DEF KeepBest, TypeOK

LEMMA NearestKept ==
  ASSUME TypeOK, NEW f \in [Samples -> Points]
  PROVE  [s \in Samples |-> NearestWith(s, f[s])] \in [Samples -> L2s \cup {0, Inf}]
<1> SUFFICES ASSUME NEW s \in Samples PROVE NearestWith(s, f[s]) \in L2s \cup {0, Inf}
  OBVIOUS
<1>1. f[s].l2 \in L2s \cup {0} /\ nearest[s] \in L2s \cup {0, Inf}
  BY DEF TypeOK, Points
<1> QED
  BY <1>1 DEF NearestWith

LEMMA InitInv == Init => IInv
<1> SUFFICES ASSUME Init PROVE IInv
  OBVIOUS
<1>1. orig \in [Samples -> Points]
  BY DEF Init, Originals, Points
<1>2. TypeOK
  BY <1>1, LoopAssumption DEF Init, TypeOK
<1>3. c = [s \in Samples |-> InitialConst] /\ c_lower = [s \in Samples |-> 0]
  BY DEF Init
<1>4. LowerBelowConst
  <2>1. InitialConst \in Nat
    BY LoopAssumption
  <2>2. ASSUME NEW s \in Samples PROVE c_lower[s] <= c[s]
    <3>1. c_lower[s] = 0 /\ c[s] = InitialConst
      BY <1>3
    <3> QED
      BY <2>1, <3>1
  <2> QED
    BY <2>2 DEF LowerBelowConst
<1> QED
  BY <1>2, <1>4 DEF IInv

LEMMA NextInv == IInv /\ [Next]_vars => IInv'
<1> SUFFICES ASSUME IInv, [Next]_vars PROVE IInv'
  OBVIOUS
<1> USE DEF consts, best, history
<1>0. TypeOK /\ LowerBelowConst
  BY DEF IInv
<1>1. CASE BeginStep
  <2>1. TypeOK'
    <3>1. attack_success' \in [Samples -> BOOLEAN]
      BY <1>1 DEF BeginStep, Succeeds
    <3>2. met' \in [Samples -> SUBSET Points]
      BY <1>0, <1>1 DEF BeginStep, TypeOK
    <3>3. overall' \in [Samples -> BOOLEAN] /\ iter' \in 0 .. MaxIter
      BY <1>1, <3>1, LoopAssumption DEF BeginStep
    <3>4. /\ cur' \in [Samples -> Points] /\ seen' \in [Samples -> Points]
          /\ phase' = "inner" /\ bss < Steps
      BY <1>0, <1>1 DEF BeginStep, TypeOK
    <3>5. UNCHANGED <<bss, c, c_lower, c_double, orig, best_l2dist, best_adv, mistaken>>
      BY <1>1 DEF BeginStep
    <3>6. nearest' \in [Samples -> L2s \cup {0, Inf}]
      <4>1. orig \in [Samples -> Points]
        BY <1>0 DEF TypeOK
      <4> QED
        BY <1>0, <1>1, <4>1, NearestKept DEF BeginStep
    <3> QED
      BY <1>0, <3>1, <3>2, <3>3, <3>4, <3>5, <3>6 DEF TypeOK
  <2>2. LowerBelowConst'
    BY <1>0, <1>1 DEF BeginStep, LowerBelowConst
  <2> QED
    BY <2>1, <2>2 DEF IInv
<1>2. CASE GiveUp
  BY <1>0, <1>2 DEF GiveUp, IInv, TypeOK, LowerBelowConst
<1>3. ASSUME NEW end \in [Samples -> Points], Iterate(end) PROVE IInv'
  <2> DEFINE moved == {s \in Samples : Descends(s, end[s])}
  <2>0. /\ phase = "inner" /\ iter < MaxIter /\ iter' = iter + 1 /\ KeepBest
        /\ cur' = [s \in Samples |-> IF s \in moved THEN end[s] ELSE cur[s]]
        /\ seen' = [s \in Samples |-> IF Active(s) THEN end[s] ELSE seen[s]]
        /\ met' = [s \in Samples |-> met[s] \cup IF Active(s) THEN {end[s]} ELSE {}]
        /\ IF moved = {}
           THEN UNCHANGED <<attack_success, overall>>
           ELSE /\ attack_success' = [s \in Samples |-> Succeeds(s, seen'[s])]
                /\ overall' = [s \in Samples |-> overall[s] \/ attack_success'[s]]
        /\ nearest' = [s \in Samples |-> NearestWith(s, cur'[s])]
        /\ UNCHANGED <<phase, bss, c, c_lower, c_double, orig>>
    BY <1>3 DEF Iterate
  <2>1. /\ best_l2dist' \in [Samples -> L2s \cup {0, Inf}] /\ best_adv' \in [Samples -> Points]
        /\ mistaken' \subseteq Samples
    BY <1>0, <2>0, BestKept
  <2>2. /\ cur' \in [Samples -> Points] /\ seen' \in [Samples -> Points]
        /\ nearest' \in [Samples -> L2s \cup {0, Inf}]
    <3>1. cur' \in [Samples -> Points] /\ seen' \in [Samples -> Points]
      BY <1>0, <2>0 DEF TypeOK
    <3> QED
      BY <1>0, <2>0, <3>1, NearestKept
  <2>3. attack_success' \in [Samples -> BOOLEAN] /\ overall' \in [Samples -> BOOLEAN]
    <3>1. CASE moved = {}
      BY <1>0, <2>0, <3>1 DEF TypeOK
    <3>2. CASE moved # {}
      <4>1. /\ attack_success' = [s \in Samples |-> Succeeds(s, seen'[s])]
            /\ overall' = [s \in Samples |-> overall[s] \/ attack_success'[s]]
        BY <2>0, <3>2
      <4>2. attack_success' \in [Samples -> BOOLEAN]
        BY <4>1 DEF Succeeds
      <4>3. overall' \in [Samples -> BOOLEAN]
        BY <4>1
      <4> QED
        BY <4>2, <4>3
    <3> QED
      BY <3>1, <3>2
  <2>4. met' \in [Samples -> SUBSET Points]
    BY <1>0, <2>0 DEF TypeOK
  <2>5. TypeOK'
    <3>1. /\ iter' \in 0 .. MaxIter /\ phase' = phase /\ bss' = bss
          /\ UNCHANGED <<c, c_lower, c_double, orig>>
      BY <1>0, <2>0, LoopAssumption DEF TypeOK
    <3> QED
      BY <1>0, <2>1, <2>2, <2>3, <2>4, <3>1 DEF TypeOK
  <2>6. LowerBelowConst'
    BY <1>0, <2>0 DEF LowerBelowConst
  <2> QED
    BY <2>5, <2>6 DEF IInv
<1>4. CASE Adjust
  <2>0. /\ phase = "inner" /\ KeepBest /\ bss' = bss + 1
        /\ c_double' = [s \in Samples |-> c_double[s] /\ ~overall[s]]
        /\ c' = [s \in Samples |-> NewConst(s)] /\ c_lower' = [s \in Samples |-> NewLower(s)]
        /\ phase' = IF bss + 1 < Steps THEN "start" ELSE "done"
        /\ UNCHANGED <<iter, orig, cur, seen, attack_success, overall, met, nearest>>
    BY <1>4 DEF Adjust, MoreSteps
  <2>1. /\ best_l2dist' \in [Samples -> L2s \cup {0, Inf}] /\ best_adv' \in [Samples -> Points]
        /\ mistaken' \subseteq Samples
    BY <1>0, <2>0, BestKept
  <2>2. c' \in [Samples -> Nat] /\ c_lower' \in [Samples -> Nat]
    BY <2>0, ConstAboveLower
  <2>3. c_double' \in [Samples -> BOOLEAN]
    BY <2>0
  <2>4. /\ bss' \in 0 .. Steps /\ (phase' # "done" => bss' < Steps)
        /\ phase' \in {"start", "inner", "done"}
    BY <1>0, <2>0, LoopAssumption DEF TypeOK
  <2>5. TypeOK'
    BY <1>0, <2>0, <2>1, <2>2, <2>3, <2>4 DEF TypeOK
  <2>6. LowerBelowConst'
    BY <2>0, ConstAboveLower DEF LowerBelowConst
  <2> QED
    BY <2>5, <2>6 DEF IInv
<1>5. CASE Stored \/ UNCHANGED vars
  <2>1. UNCHANGED <<phase, bss, iter, c, c_lower, c_double, orig, cur, seen,
                    attack_success, overall, best_l2dist, best_adv, met, nearest, mistaken>>
    BY <1>5 DEF Stored, vars
  <2> QED
    BY <1>0, <2>1 DEF IInv, TypeOK, LowerBelowConst
<1> QED
  BY <1>1, <1>2, <1>3, <1>4, <1>5 DEF Next

(***************************************************************************)
(* The state keeps its types.                                              *)
(***************************************************************************)
THEOREM TypeCorrect == Spec => []TypeOK
<1>1. IInv => TypeOK
  BY DEF IInv
<1> QED
  BY <1>1, InitInv, NextInv, PTL DEF Spec

(***************************************************************************)
(* The constant never falls below its lower bound.                         *)
(***************************************************************************)
THEOREM LowerBelowConstAlways == Spec => []LowerBelowConst
<1>1. IInv => LowerBelowConst
  BY DEF IInv
<1> QED
  BY <1>1, InitInv, NextInv, PTL DEF Spec

(***************************************************************************)
(* The constants of the code are floating-point numbers, whose halves are  *)
(* never 0.  Those of the model are multiples of a unit that is halved     *)
(* with every step and still a number after the last.                      *)
(***************************************************************************)
Halved(u) == \A i \in 0 .. Steps - 1 : u[i] = 2 * u[i + 1]
OnGrid(u, n) == \E m \in Nat : n = m * u
ExactHalves ==
  \E u \in [0 .. Steps -> Nat \ {0}] : Halved(u) /\ OnGrid(u[0], InitialConst)

\* In every step the constants are multiples of its unit, and positive.
ConstsOnGrid(u) ==
  \A s \in Samples : c[s] > 0 /\ OnGrid(u[bss], c[s]) /\ OnGrid(u[bss], c_lower[s])

\* What the records were taken from is among the points met.
SeenIsMet == phase = "inner" => \A s \in Samples : seen[s] \in met[s]

\* What is kept of a sample without a mistake is its nearest image, or that is
\* the current one and is about to be kept.
IsKept(s) == best_l2dist[s] = nearest[s]
Pending(s) ==
  phase = "inner" /\ attack_success[s] /\ seen[s] = cur[s]
  /\ cur[s].margin = 0 /\ cur[s].l2 = nearest[s] /\ nearest[s] < best_l2dist[s]
Recorded ==
  \A s \in Samples \ mistaken :
    /\ best_adv[s] = IF best_l2dist[s] = Inf THEN orig[s] ELSE [l2 |-> best_l2dist[s], margin |-> 0]
    /\ IsKept(s) \/ Pending(s)
    /\ phase = "inner" /\ cur[s].margin = 0 => nearest[s] <= cur[s].l2

MetInv(u) == IInv /\ ConstsOnGrid(u) /\ SeenIsMet /\ OverallIsMet /\ Recorded

(***************************************************************************)
(* Between multiples of twice a number, every outcome of the update is a   *)
(* multiple of the number.                                                 *)
(***************************************************************************)
LEMMA UpdateOnGrid ==
  ASSUME NEW w \in Nat \ {0}, NEW l \in Nat, NEW n \in Nat, l <= n, n > 0,
         OnGrid(2 * w, l), OnGrid(2 * w, n)
  PROVE  /\ OnGrid(w, l) /\ OnGrid(w, 2 * n)
         /\ OnGrid(w, (l + n) \div 2) /\ (l + n) \div 2 > 0
         /\ OnGrid(w, n + (n - l) \div 2) /\ n + (n - l) \div 2 > 0
<1>1. PICK a \in Nat : l = a * (2 * w)
  BY DEF OnGrid
<1>2. PICK b \in Nat : n = b * (2 * w)
  BY DEF OnGrid
<1> DEFINE A == a * w
           B == b * w
<1>3. A \in Nat /\ B \in Nat /\ l = 2 * A /\ n = 2 * B
  BY <1>1, <1>2
<1>4. /\ l = (2 * a) * w /\ 2 * n = (4 * b) * w
      /\ A + B = (a + b) * w /\ 3 * B - A = (3 * b - a) * w
  BY <1>1, <1>2
<1>5. a <= b
  BY <1>1, <1>2
<1> HIDE DEF A, B
<1>6. (l + n) \div 2 = A + B /\ n + (n - l) \div 2 = 3 * B - A /\ B > 0 /\ A <= B
  BY <1>3
<1>7. 2 * a \in Nat /\ 4 * b \in Nat /\ a + b \in Nat /\ 3 * b - a \in Nat
  BY <1>5
<1>8. OnGrid(w, l) /\ OnGrid(w, 2 * n)
  BY <1>4, <1>7 DEF OnGrid
<1>9. OnGrid(w, (l + n) \div 2) /\ OnGrid(w, n + (n - l) \div 2)
  BY <1>4, <1>6, <1>7 DEF OnGrid
<1>10. (l + n) \div 2 > 0 /\ n + (n - l) \div 2 > 0
  BY <1>3, <1>6
<1> QED
  BY <1>8, <1>9, <1>10

(***************************************************************************)
(* With a positive constant only an image without margin succeeds.         *)
(***************************************************************************)
LEMMA SuccessHasNoMargin ==
  ASSUME TypeOK, NEW s \in Samples, c[s] > 0, NEW p \in Points, Succeeds(s, p)
  PROVE  p.margin = 0
<1>1. c[s] \in Nat /\ p.l2 \in Nat /\ p.margin \in Nat
  <2>1. p.l2 \in L2s \cup {0} /\ p.margin \in Margins /\ c[s] \in Nat
    BY DEF TypeOK, Points
  <2>2. L2s \cup {0} \subseteq Nat /\ Margins \subseteq Nat
    BY PointsAssumption
  <2> QED
    BY <2>1, <2>2
<1>2. c[s] * p.margin \in Nat
  BY <1>1
<1>3. c[s] * p.margin <= 0
  BY <1>1, <1>2 DEF Succeeds, Loss
<1> QED
  BY <1>1, <1>3

(***************************************************************************)
(* After the comparison the nearest image is kept, of every sample for     *)
(* which nothing was mistaken.                                             *)
(***************************************************************************)
LEMMA NearestIsKept ==
  ASSUME TypeOK, Recorded, KeepBest, phase = "inner",
         NEW s \in Samples \ mistaken', c[s] > 0
  PROVE  /\ s \notin mistaken
         /\ best_l2dist'[s] = nearest[s]
         /\ best_adv'[s] = IF nearest[s] = Inf THEN orig[s] ELSE [l2 |-> nearest[s], margin |-> 0]
<1>1. /\ cur[s] \in Points /\ seen[s] \in Points
      /\ cur[s].l2 \in Nat /\ cur[s].l2 < Inf /\ seen[s].l2 \in Nat
      /\ best_l2dist[s] \in Nat /\ nearest[s] \in Nat /\ Inf \in Nat
  BY Distances
<1>2. /\ best_l2dist'[s] = IF Improved(s) THEN seen[s].l2 ELSE best_l2dist[s]
      /\ best_adv'[s] = IF Improved(s) THEN cur[s] ELSE best_adv[s]
      /\ s \notin mistaken /\ (Improved(s) => OwnRecord(s))
  BY DEF KeepBest
<1>3. /\ best_adv[s] = IF best_l2dist[s] = Inf THEN orig[s] ELSE [l2 |-> best_l2dist[s], margin |-> 0]
      /\ IsKept(s) \/ Pending(s)
      /\ cur[s].margin = 0 => nearest[s] <= cur[s].l2
  BY <1>2 DEF Recorded
<1>4. CASE Improved(s)
  <2>1. seen[s].l2 = cur[s].l2 /\ Succeeds(s, cur[s]) /\ seen[s].l2 < best_l2dist[s]
    BY <1>2, <1>4 DEF OwnRecord, Improved
  <2>2. cur[s].margin = 0
    BY <1>1, <2>1, SuccessHasNoMargin
  <2>3. Pending(s)
    BY <1>1, <1>3, <2>1, <2>2 DEF IsKept
  <2>4. cur[s].l2 = nearest[s]
    BY <2>3 DEF Pending
  <2>5. cur[s] = [l2 |-> nearest[s], margin |-> 0]
    BY <1>1, <2>2, <2>4 DEF Points
  <2> QED
    BY <1>1, <1>2, <1>4, <2>1, <2>4, <2>5
<1>5. CASE ~Improved(s)
  <2>1. ~Pending(s)
    BY <1>5 DEF Pending, Improved
  <2>2. best_l2dist[s] = nearest[s]
    BY <1>3, <2>1 DEF IsKept
  <2> QED
    BY <1>2, <1>3, <1>5, <2>2
<1> QED
  BY <1>4, <1>5

LEMMA InitMet ==
  ASSUME NEW u \in [0 .. Steps -> Nat \ {0}], OnGrid(u[0], InitialConst)
  PROVE  Init => MetInv(u)
<1> SUFFICES ASSUME Init PROVE MetInv(u)
  OBVIOUS
<1>1. u[0] \in Nat /\ 0 = 0 * u[0]
  BY LoopAssumption
<1>2. OnGrid(u[0], 0)
  BY <1>1 DEF OnGrid
<1>3. ASSUME NEW s \in Samples
      PROVE  c[s] > 0 /\ OnGrid(u[bss], c[s]) /\ OnGrid(u[bss], c_lower[s])
  <2>1. c[s] = InitialConst /\ c_lower[s] = 0 /\ bss = 0
    BY DEF Init
  <2> QED
    BY <1>2, <2>1, LoopAssumption
<1>4. SeenIsMet /\ OverallIsMet
  BY DEF Init, SeenIsMet, OverallIsMet
<1>5. Recorded
  BY DEF Init, Recorded, IsKept
<1> QED
  BY <1>3, <1>4, <1>5, InitInv DEF MetInv, ConstsOnGrid

LEMMA NextMet ==
  ASSUME NEW u \in [0 .. Steps -> Nat \ {0}], Halved(u)
  PROVE  MetInv(u) /\ [Next]_vars => MetInv(u)'
<1> SUFFICES ASSUME MetInv(u), [Next]_vars PROVE (ConstsOnGrid(u) /\ SeenIsMet /\ OverallIsMet /\ Recorded)'
  BY NextInv DEF MetInv
<1> USE DEF consts, best, history
<1>0. IInv /\ TypeOK /\ ConstsOnGrid(u) /\ SeenIsMet /\ OverallIsMet /\ Recorded
  BY DEF MetInv, IInv
<1>1. CASE BeginStep
  <2>1. ConstsOnGrid(u)'
    BY <1>0, <1>1 DEF BeginStep, ConstsOnGrid
  <2>2. SeenIsMet'
    BY <1>0, <1>1 DEF BeginStep, SeenIsMet, TypeOK
  <2>3. ASSUME NEW s \in Samples, overall'[s] PROVE \E p \in met'[s] : p.margin = 0
    <3>1. orig[s] \in Points /\ Succeeds(s, orig[s]) /\ c[s] > 0
      BY <1>0, <1>1, <2>3 DEF BeginStep, TypeOK, ConstsOnGrid
    <3>2. orig[s].margin = 0
      BY <1>0, <3>1, SuccessHasNoMargin
    <3> QED
      BY <1>1, <3>2 DEF BeginStep
  <2>4. Recorded'
    <3>1. /\ cur' = orig /\ seen' = orig /\ attack_success' = [s \in Samples |-> Succeeds(s, orig[s])]
          /\ nearest' = [s \in Samples |-> NearestWith(s, orig[s])] /\ phase = "start" /\ phase' = "inner"
          /\ UNCHANGED <<orig, best_l2dist, best_adv, mistaken>>
      BY <1>1 DEF BeginStep
    <3> SUFFICES ASSUME NEW s \in Samples \ mistaken
                 PROVE  /\ best_adv'[s] = IF best_l2dist'[s] = Inf THEN orig'[s]
                                           ELSE [l2 |-> best_l2dist'[s], margin |-> 0]
                        /\ IsKept(s)' \/ Pending(s)'
                        /\ cur'[s].margin = 0 => nearest'[s] <= cur'[s].l2
      BY <3>1 DEF Recorded
    <3>2. /\ best_adv[s] = IF best_l2dist[s] = Inf THEN orig[s] ELSE [l2 |-> best_l2dist[s], margin |-> 0]
          /\ best_l2dist[s] = nearest[s]
      BY <1>0, <3>1 DEF Recorded, Pending, IsKept
    <3>3. orig[s] \in Points /\ orig[s].l2 \in Nat /\ nearest[s] \in Nat
      BY <1>0, Distances, ImageDistance
    <3>4. orig[s].margin = 0 => Succeeds(s, orig[s])
      BY <1>0, <3>3, AdversarialSucceeds
    <3>5. /\ cur'[s] = orig[s] /\ seen'[s] = orig[s] /\ attack_success'[s] = Succeeds(s, orig[s])
          /\ nearest'[s] = NearestWith(s, orig[s]) /\ best_l2dist'[s] = best_l2dist[s]
      BY <3>1
    <3>6. IsKept(s)' \/ Pending(s)'
      BY <3>1, <3>2, <3>4, <3>5 DEF NearestWith, IsKept, Pending
    <3> QED
      BY <3>1, <3>2, <3>3, <3>5, <3>6 DEF NearestWith
  <2> QED
    BY <2>1, <2>2, <2>3, <2>4 DEF OverallIsMet
<1>2. CASE GiveUp
  BY <1>0, <1>2 DEF GiveUp, ConstsOnGrid, SeenIsMet, OverallIsMet, Recorded, IsKept, Pending
<1>3. ASSUME NEW end \in [Samples -> Points], Iterate(end)
      PROVE  (ConstsOnGrid(u) /\ SeenIsMet /\ OverallIsMet /\ Recorded)'
  <2> DEFINE moved == {s \in Samples : Descends(s, end[s])}
  <2>0. /\ phase = "inner"
        /\ seen' = [s \in Samples |-> IF Active(s) THEN end[s] ELSE seen[s]]
        /\ met' = [s \in Samples |-> met[s] \cup IF Active(s) THEN {end[s]} ELSE {}]
        /\ IF moved = {}
           THEN UNCHANGED overall
           ELSE /\ attack_success' = [s \in Samples |-> Succeeds(s, seen'[s])]
                /\ overall' = [s \in Samples |-> overall[s] \/ attack_success'[s]]
        /\ UNCHANGED <<phase, bss, c, c_lower>>
    BY <1>3 DEF Iterate
  <2>1. ConstsOnGrid(u)'
    BY <1>0, <2>0 DEF ConstsOnGrid
  <2>2. SeenIsMet'
    BY <1>0, <2>0 DEF SeenIsMet
  <2>3. ASSUME NEW s \in Samples, overall'[s] PROVE \E p \in met'[s] : p.margin = 0
    <3>1. CASE overall[s]
      BY <1>0, <2>0, <3>1 DEF OverallIsMet
    <3>2. CASE ~overall[s]
      <4>1. Succeeds(s, seen'[s]) /\ seen'[s] \in met'[s]
        BY <1>0, <2>0, <2>2, <2>3, <3>2 DEF SeenIsMet
      <4>2. seen'[s] \in Points /\ c[s] > 0
        BY <1>0, <2>0 DEF TypeOK, ConstsOnGrid
      <4>3. seen'[s].margin = 0
        BY <1>0, <4>1, <4>2, SuccessHasNoMargin
      <4> QED
        BY <4>1, <4>3
    <3> QED
      BY <3>1, <3>2
  <2>4. Recorded'
    <3>1. /\ KeepBest /\ UNCHANGED orig
          /\ cur' = [s \in Samples |-> IF s \in moved THEN end[s] ELSE cur[s]]
          /\ nearest' = [s \in Samples |-> NearestWith(s, cur'[s])]
      BY <1>3 DEF Iterate
    <3> SUFFICES ASSUME NEW s \in Samples \ mistaken'
                 PROVE  /\ best_adv'[s] = IF best_l2dist'[s] = Inf THEN orig'[s]
                                           ELSE [l2 |-> best_l2dist'[s], margin |-> 0]
                        /\ IsKept(s)' \/ Pending(s)'
                        /\ cur'[s].margin = 0 => nearest'[s] <= cur'[s].l2
      BY <2>0 DEF Recorded
    <3>2. c[s] > 0
      BY <1>0 DEF ConstsOnGrid
    <3>3. /\ best_l2dist'[s] = nearest[s] /\ s \notin mistaken
          /\ best_adv'[s] = IF nearest[s] = Inf THEN orig[s] ELSE [l2 |-> nearest[s], margin |-> 0]
      BY <1>0, <2>0, <3>1, <3>2, NearestIsKept
    <3>4. cur[s].margin = 0 => nearest[s] <= cur[s].l2
      BY <1>0, <2>0, <3>3 DEF Recorded
    <3>5. cur[s].l2 \in Nat /\ nearest[s] \in Nat /\ end[s] \in Points /\ end[s].l2 \in Nat
      BY <1>0, Distances, ImageDistance
    <3>6. nearest'[s] = NearestWith(s, cur'[s])
      BY <3>1
    <3>7. CASE s \notin moved
      <4>1. cur'[s] = cur[s]
        BY <3>1, <3>7
      <4>2. nearest'[s] = nearest[s]
        BY <3>4, <3>5, <3>6, <4>1 DEF NearestWith
      <4> QED
        BY <3>1, <3>3, <3>4, <4>1, <4>2 DEF IsKept
    <3>8. CASE s \in moved
      <4>1. cur'[s] = end[s] /\ Active(s) /\ moved # {}
        BY <3>1, <3>8 DEF Descends
      <4>2. seen'[s] = end[s] /\ attack_success'[s] = Succeeds(s, end[s]) /\ phase' = "inner"
        BY <2>0, <4>1
      <4>3. end[s].margin = 0 => Succeeds(s, end[s])
        BY <1>0, <3>5, AdversarialSucceeds
      <4>4. nearest'[s] = IF end[s].margin = 0 /\ end[s].l2 < nearest[s] THEN end[s].l2 ELSE nearest[s]
        BY <3>6, <4>1 DEF NearestWith
      <4> HIDE DEF moved
      <4>5. IsKept(s)' \/ Pending(s)'
        BY <3>3, <4>1, <4>2, <4>3, <4>4 DEF IsKept, Pending
      <4> QED
        BY <3>1, <3>3, <3>5, <4>1, <4>4, <4>5
    <3> QED
      BY <3>7, <3>8
  <2> QED
    BY <2>1, <2>2, <2>3, <2>4 DEF OverallIsMet
<1>4. CASE Adjust
  <2>0. /\ bss' = bss + 1 /\ phase # "done" /\ phase' # "inner"
        /\ c' = [s \in Samples |-> NewConst(s)] /\ c_lower' = [s \in Samples |-> NewLower(s)]
        /\ UNCHANGED <<overall, met>>
    BY <1>4 DEF Adjust
  <2>1. bss \in 0 .. Steps - 1 /\ bss + 1 \in 0 .. Steps
    BY <1>0, <2>0, LoopAssumption DEF TypeOK
  <2>2. ASSUME NEW s \in Samples
        PROVE  NewConst(s) > 0 /\ OnGrid(u[bss + 1], NewConst(s)) /\ OnGrid(u[bss + 1], NewLower(s))
    <3> DEFINE w == u[bss + 1]
    <3>1. w \in Nat \ {0} /\ u[bss] = 2 * w
      BY <2>1 DEF Halved
    <3>2. c[s] \in Nat /\ c_lower[s] \in Nat /\ c_lower[s] <= c[s] /\ c[s] > 0
      BY <1>0 DEF IInv, TypeOK, LowerBelowConst, ConstsOnGrid
    <3>3. OnGrid(2 * w, c[s]) /\ OnGrid(2 * w, c_lower[s])
      BY <1>0, <3>1 DEF ConstsOnGrid
    <3> HIDE DEF w
    <3>4. /\ OnGrid(w, c_lower[s]) /\ OnGrid(w, 2 * c[s])
          /\ OnGrid(w, (c_lower[s] + c[s]) \div 2) /\ (c_lower[s] + c[s]) \div 2 > 0
          /\ OnGrid(w, c[s] + (c[s] - c_lower[s]) \div 2) /\ c[s] + (c[s] - c_lower[s]) \div 2 > 0
      BY <3>1, <3>2, <3>3, UpdateOnGrid
    <3>5. NewConst(s) > 0 /\ OnGrid(w, NewConst(s))
      BY <3>2, <3>4 DEF NewConst
    <3>6. OnGrid(w, NewLower(s))
      BY <3>4, <3>5 DEF NewLower
    <3> QED
      BY <3>5, <3>6 DEF w
  <2>3. ConstsOnGrid(u)'
    BY <2>0, <2>2 DEF ConstsOnGrid
  <2>4. Recorded'
    <3>1. KeepBest /\ phase = "inner" /\ UNCHANGED <<orig, nearest>>
      BY <1>4 DEF Adjust
    <3> SUFFICES ASSUME NEW s \in Samples \ mistaken'
                 PROVE  /\ best_adv'[s] = IF best_l2dist'[s] = Inf THEN orig[s]
                                           ELSE [l2 |-> best_l2dist'[s], margin |-> 0]
                        /\ best_l2dist'[s] = nearest[s]
      BY <2>0, <3>1 DEF Recorded, IsKept
    <3>2. c[s] > 0
      BY <1>0 DEF ConstsOnGrid
    <3>3. /\ best_l2dist'[s] = nearest[s]
          /\ best_adv'[s] = IF nearest[s] = Inf THEN orig[s] ELSE [l2 |-> nearest[s], margin |-> 0]
      BY <1>0, <3>1, <3>2, NearestIsKept
    <3> QED
      BY <3>3
  <2> QED
    BY <1>0, <2>0, <2>3, <2>4 DEF SeenIsMet, OverallIsMet
<1>5. CASE Stored \/ UNCHANGED vars
  BY <1>0, <1>5 DEF Stored, vars, ConstsOnGrid, SeenIsMet, OverallIsMet, Recorded, IsKept, Pending
<1> QED
  BY <1>1, <1>2, <1>3, <1>4, <1>5 DEF Next

(***************************************************************************)
(* A step counts as a success of a sample only after an adversarial image  *)
(* of it, wherever the halving is exact.                                   *)
(***************************************************************************)
THEOREM OverallIsMetAlways == ASSUME ExactHalves PROVE Spec => []OverallIsMet
<1>1. PICK u \in [0 .. Steps -> Nat \ {0}] : Halved(u) /\ OnGrid(u[0], InitialConst)
  BY DEF ExactHalves
<1>2. Init => MetInv(u)
  BY <1>1, InitMet
<1>3. MetInv(u) /\ [Next]_vars => MetInv(u)'
  BY <1>1, NextMet
<1>4. MetInv(u) => OverallIsMet
  BY DEF MetInv
<1> QED
  BY <1>2, <1>3, <1>4, PTL DEF Spec

(***************************************************************************)
(* After every binary search step the nearest adversarial image that was   *)
(* current is the one kept, at its own distance, unless a record was kept  *)
(* that is not the current image's.                                        *)
(***************************************************************************)
THEOREM BestIsNearestAlways == ASSUME ExactHalves PROVE Spec => []BestIsNearest
<1>1. PICK u \in [0 .. Steps -> Nat \ {0}] : Halved(u) /\ OnGrid(u[0], InitialConst)
  BY DEF ExactHalves
<1>2. Init => MetInv(u)
  BY <1>1, InitMet
<1>3. MetInv(u) /\ [Next]_vars => MetInv(u)'
  BY <1>1, NextMet
<1>4. MetInv(u) => BestIsNearest
  BY DEF MetInv, Recorded, IsKept, Pending, BestIsNearest
<1> QED
  BY <1>2, <1>3, <1>4, PTL DEF Spec
=============================================================================
