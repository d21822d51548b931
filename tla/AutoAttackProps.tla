--------------------------- MODULE AutoAttackProps ---------------------------
(***************************************************************************)
(* What is claimed of the sequential AutoAttack.                           *)
(***************************************************************************)
EXTENDS AutoAttack

(***************************************************************************)
(* Whatever generate hands back for a sample that is not robust fools the  *)
(* model within eps of what the CALLER passed in, even though run_attack   *)
(* (auto_attack.py 374-395) only ever compares against the array it has    *)
(* been updating itself, and even though the flag it judges by may be left *)
(* over from an earlier call.                                              *)
(***************************************************************************)
BrokenIsAdversarial ==
  \A s \in Samples :
    best[s] \in Attacks => /\ Classify[x_adv[s]] # y[s]
                           /\ WithinEps(x[s], x_adv[s])

(***************************************************************************)
(* A sample no attack has broken is returned as it came: a failed attempt, *)
(* a successful one that is too far, and the rounds on other samples leave *)
(* no trace in x_adv (auto_attack.py 392-393).                             *)
(***************************************************************************)
UnbrokenIsUntouched ==
  \A s \in Samples : best[s] \notin Attacks => x_adv[s] = x[s]

(***************************************************************************)
(* best_attacks and sample_is_robust, which generate keeps side by side    *)
(* and updates in different places (185-187, 225-229, 279-284), never      *)
(* disagree: a slot is still default exactly when the sample is robust,    *)
(* and marked misclassified exactly when it was so from the start.         *)
(***************************************************************************)
BestAgrees ==
  \A s \in Samples :
    /\ best[s] = SAMPLE_DEFAULT <=> robust[s]
    /\ best[s] = SAMPLE_MISCLASSIFIED <=> ClassifyOrig[x[s]] # y[s]

(***************************************************************************)
(* During one call nothing that was settled is revised: once a sample has  *)
(* been broken, later attacks, later targets, a ValueError in one of them  *)
(* and the end of the loops keep its perturbation and its breaker.         *)
(***************************************************************************)
SettledStep ==
  phase # "idle" =>
    \A s \in Samples : ~robust[s] => /\ ~robust'[s]
                                     /\ x_adv'[s] = x_adv[s]
                                     /\ best'[s] = best[s]
SettledStays == [][SettledStep]_vars

(***************************************************************************)
(* Every call ends, with a result or an exception, whatever the attacks    *)
(* return and whichever of them raise.                                     *)
(***************************************************************************)
CallEnds == phase # "idle" ~> phase = "idle"

(***************************************************************************)
(* The sequential AutoAttack is an attack ensemble.                        *)
(***************************************************************************)
Ensemble == INSTANCE AttackEnsemble
              WITH verdict <- [s \in Samples |-> [by |-> best[s], adv |-> x_adv[s]]]
ImplementsEnsemble == Ensemble!Spec

=============================================================================
