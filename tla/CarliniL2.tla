------------------------------ MODULE CarliniL2 ------------------------------
(***************************************************************************)
(* CarliniL2Method.generate on one batch: gradient descent with a line     *)
(* search per iteration, inside a search for the trade-off constant c.     *)
(*                                                                         *)
(* A point is an image as the loop sees it: its squared distance l2 from   *)
(* the original and its margin, which is 0 when the image is adversarial   *)
(* with the confidence asked for.  The classifier and its gradient decide  *)
(* which points a line search meets; any may come.                         *)
(*                                                                         *)
(* The arrays l2dist and loss hold the numbers of the image evaluated      *)
(* last (seen), which after a line search without success is a trial and   *)
(* not the current image (cur).                                            *)
(***************************************************************************)
EXTENDS Integers

CONSTANTS
  Samples,      \* the batch
  L2s,          \* the distances an image other than the original may have
  Margins,      \* the margins a point may have
  Inf,          \* np.inf
  InitialConst, \* self.initial_const, a multiple of 2^Steps: / 2 is exact
  Upper,        \* self._c_upper_bound
  Steps,        \* self.binary_search_steps
  MaxIter       \* self.max_iter

ASSUME PointsAssumption ==
  /\ L2s \subseteq Nat \ {0} /\ Margins \subseteq Nat /\ Inf \in Nat \ {0}
  /\ \A l \in L2s : l < Inf
ASSUME LoopAssumption == /\ InitialConst \in Nat \ {0} /\ Upper \in Nat
                         /\ Steps \in Nat /\ MaxIter \in Nat

VARIABLES
  phase,                  \* "start", "inner" or "done"
  bss, iter,              \* the loop counters
  c, c_lower, c_double,   \* c_current, c_lower_bound, c_double
  orig,                   \* x_batch
  cur,                    \* x_adv_batch
  seen,                   \* what l2dist and loss were computed from
  attack_success, overall,\* attack_success, overall_attack_success
  best_l2dist, best_adv,  \* best_l2dist, best_x_adv_batch
  \* history: the points whose loss was taken in this step, the least distance
  \* of an adversarial image that was current in this batch, and the samples of
  \* which a record was kept that is not the current image's
  met, nearest, mistaken

consts == <<c, c_lower, c_double>>
best == <<best_l2dist, best_adv>>
history == <<met, nearest, mistaken>>
vars == <<phase, bss, iter, consts, orig, cur, seen, attack_success, overall, best, history>>

Points == [l2 : L2s \cup {0}, margin : Margins]
Originals == [l2 : {0}, margin : Margins]
\* What the line search of a sample may meet: any other image, or the
\* current one where the gradient vanishes.
Images(s) == [l2 : L2s, margin : Margins] \cup {cur[s]}

\* _loss, and the test for success made of its two results; a slip swaps
\* the two.
Loss(s, p) == c[s] * p.margin + p.l2
SucceedsSwapped(s, p) == p.l2 - Loss(s, p) <= 0
Succeeds(s, p) == Loss(s, p) - p.l2 <= 0

\* The nearest adversarial image of s once p is current.
NearestWith(s, p) == IF p.margin = 0 /\ p.l2 < nearest[s] THEN p.l2 ELSE nearest[s]

\* A sample the loops still work on.
Active(s) == c[s] < Upper

\* generate reaches a batch.
Init ==
  /\ phase = IF Steps > 0 THEN "start" ELSE "done"
  /\ bss = 0 /\ iter = 0
  /\ c = [s \in Samples |-> InitialConst]
  /\ c_lower = [s \in Samples |-> 0]
  /\ c_double = [s \in Samples |-> TRUE]
  /\ orig \in [Samples -> Originals]
  /\ cur = orig /\ seen = orig
  /\ attack_success = [s \in Samples |-> FALSE] /\ overall = attack_success
  /\ best_l2dist = [s \in Samples |-> Inf] /\ best_adv = orig
  /\ met = [s \in Samples |-> {}]
  /\ nearest = [s \in Samples |-> Inf] /\ mistaken = {}

\* A binary search step begins at the originals, unless every constant is
\* too large.
BeginStep ==
  /\ phase = "start"
  /\ \E s \in Samples : Active(s)
  /\ cur' = orig /\ seen' = orig
  /\ attack_success' = [s \in Samples |-> Succeeds(s, orig[s])]
  /\ overall' = attack_success'
  /\ met' = [s \in Samples |-> {orig[s]}]
  /\ nearest' = [s \in Samples |-> NearestWith(s, orig[s])]
  /\ phase' = "inner" /\ iter' = 0
  /\ UNCHANGED <<bss, consts, orig, best, mistaken>>

GiveUp ==
  /\ phase = "start"
  /\ \A s \in Samples : ~Active(s)
  /\ phase' = "done"
  /\ UNCHANGED <<bss, iter, consts, orig, cur, seen, attack_success, overall, best, history>>

\* The best is compared with the recorded distance, then given the current
\* image; a slip drops the comparison.
ImprovedAny(s) == attack_success[s]
Improved(s) == attack_success[s] /\ seen[s].l2 < best_l2dist[s]

\* The record is of the current image.
OwnRecord(s) == seen[s].l2 = cur[s].l2 /\ Succeeds(s, cur[s])

KeepBest ==
  /\ mistaken' = mistaken \cup {s \in Samples : Improved(s) /\ ~OwnRecord(s)}
  /\ best_l2dist' = [s \in Samples |-> IF Improved(s) THEN seen[s].l2 ELSE best_l2dist[s]]
  /\ best_adv' = [s \in Samples |-> IF Improved(s) THEN cur[s] ELSE best_adv[s]]

\* The line search from cur ends at a point with less loss than recorded, or
\* at a last trial with no less.
Descends(s, p) == Active(s) /\ Loss(s, p) < Loss(s, seen[s])

\* One iteration of the descent; end[s] is where the line search of s ends.
\* The successes are taken anew for the whole batch when any sample moved.
Iterate(end) ==
  LET moved == {s \in Samples : Descends(s, end[s])} IN
  /\ phase = "inner" /\ iter < MaxIter
  /\ \E s \in Samples : Active(s)
  /\ \A s \in Samples : end[s] \in Images(s)
  /\ KeepBest
  /\ cur' = [s \in Samples |-> IF s \in moved THEN end[s] ELSE cur[s]]
  /\ seen' = [s \in Samples |-> IF Active(s) THEN end[s] ELSE seen[s]]
  /\ met' = [s \in Samples |-> met[s] \cup IF Active(s) THEN {end[s]} ELSE {}]
  /\ nearest' = [s \in Samples |-> NearestWith(s, cur'[s])]
  /\ IF moved = {}
     THEN UNCHANGED <<attack_success, overall>>
     ELSE /\ attack_success' = [s \in Samples |-> Succeeds(s, seen'[s])]
          /\ overall' = [s \in Samples |-> overall[s] \/ attack_success'[s]]
  /\ iter' = iter + 1
  /\ UNCHANGED <<phase, bss, consts, orig>>

\* c_current after a step: halved towards the lower bound after a success,
\* doubled before the first one, raised by half the bracket after it.
NewConst(s) ==
  IF overall[s] THEN (c_lower[s] + c[s]) \div 2
  ELSE IF c_double[s] THEN 2 * c[s]
  ELSE c[s] + (c[s] - c_lower[s]) \div 2

\* c_lower_bound after a step.  c_old is another name of c_current, so that
\* a failure records the constant of the NEXT step; and a slip that records
\* the successes.
NewLowerSwapped(s) == IF overall[s] THEN c[s] ELSE c_lower[s]
NewLower(s) == IF overall[s] THEN c_lower[s] ELSE NewConst(s)

\* The for loop over range(binary_search_steps); a slip runs once too often.
MoreStepsInclusive == bss < Steps
MoreSteps == bss + 1 < Steps

\* The end of a binary search step.
Adjust ==
  /\ phase = "inner" /\ iter = MaxIter
  /\ KeepBest
  /\ c_double' = [s \in Samples |-> c_double[s] /\ ~overall[s]]
  /\ c' = [s \in Samples |-> NewConst(s)]
  /\ c_lower' = [s \in Samples |-> NewLower(s)]
  /\ bss' = bss + 1
  /\ phase' = IF MoreSteps THEN "start" ELSE "done"
  /\ UNCHANGED <<iter, orig, cur, seen, attack_success, overall, met, nearest>>

\* The batch's best_x_adv_batch is stored in x_adv.
Stored == phase = "done" /\ UNCHANGED vars

Next == \/ BeginStep \/ GiveUp
        \/ \E end \in [Samples -> Points] : Iterate(end)
        \/ Adjust \/ Stored

Spec == Init /\ [][Next]_vars
-----------------------------------------------------------------------------
(***************************************************************************)
(* The variables have the values the code can give them.                   *)
(***************************************************************************)
TypeOK ==
  /\ phase \in {"start", "inner", "done"}
  /\ bss \in 0 .. Steps /\ iter \in 0 .. MaxIter
  /\ phase # "done" => bss < Steps
  /\ c \in [Samples -> Nat] /\ c_lower \in [Samples -> Nat]
  /\ c_double \in [Samples -> BOOLEAN]
  /\ orig \in [Samples -> Points]
  /\ cur \in [Samples -> Points] /\ seen \in [Samples -> Points]
  /\ attack_success \in [Samples -> BOOLEAN] /\ overall \in [Samples -> BOOLEAN]
  /\ best_l2dist \in [Samples -> L2s \cup {0, Inf}] /\ best_adv \in [Samples -> Points]
  /\ met \in [Samples -> SUBSET Points]
  /\ nearest \in [Samples -> L2s \cup {0, Inf}] /\ mistaken \subseteq Samples

(***************************************************************************)
(* A sample counts as broken in a step, and its constant is lowered, only  *)
(* if an adversarial image of it was evaluated in that step, although the  *)
(* successes are recomputed from stale records when another sample moves   *)
(* (carlini.py 462-463).                                                   *)
(***************************************************************************)
OverallIsMet ==
  \A s \in Samples : overall[s] => \E p \in met[s] : p.margin = 0

(***************************************************************************)
(* Whenever a binary search step has ended, the image kept is the nearest  *)
(* adversarial image that was ever current, and the distance kept is its   *)
(* own, whatever line searches were refused in between (carlini.py         *)
(* 317-321, 466-471).  Left out are the samples for which a distance or a  *)
(* success was once recorded that is not the current image's: what happens *)
(* to them is a disagreement with the code's comment at 277 (see README).  *)
(***************************************************************************)
BestIsNearest ==
  phase # "inner" =>
    \A s \in Samples \ mistaken :
      /\ best_l2dist[s] = nearest[s]
      /\ best_adv[s] = IF nearest[s] = Inf THEN orig[s] ELSE [l2 |-> nearest[s], margin |-> 0]

(***************************************************************************)
(* The constant never falls below its lower bound, through the doubling    *)
(* and the bisection, whatever the bound records (carlini.py 474-481).     *)
(***************************************************************************)
LowerBelowConst ==
  \A s \in Samples : c_lower[s] <= c[s]

=============================================================================
