----------------------- MODULE AutoAttackParallelProps -----------------------
(***************************************************************************)
(* What is claimed of the parallel AutoAttack.                             *)
(***************************************************************************)
EXTENDS AutoAttackParallel

(***************************************************************************)
(* The variables have the values the code can give them.                   *)
(***************************************************************************)
ParallelTypeOK ==
  /\ phase \in {"untargeted", "targeted", "pool", "idle"}
  /\ outcome \in {"none", "returned", "raised"}
  /\ targeted \in BOOLEAN
  /\ x \in [Samples -> Inputs] /\ y \in [Samples -> Labels]
  /\ x_adv \in [Samples -> Inputs]
  /\ robust \in [Samples -> BOOLEAN]
  /\ a \in 1 .. NAttacks + 1
  /\ flag \in FlagInit
  /\ args \in Seq([attack : Attacks, targeted : BOOLEAN, labels : [Samples -> Labels]])
  /\ next \in 1 .. Len(args) + 1
  /\ busy \in [Workers -> 0 .. Len(args)]

Returned == phase = "idle" /\ outcome = "returned"

(***************************************************************************)
(* A sample that some run broke comes back as a point that fools the model *)
(* within eps of the caller's sample, and no run of the pool broke it with *)
(* a smaller perturbation; the point answers to the labels and the flag of *)
(* the run that best_attacks names among the arguments, whatever the order *)
(* in which the workers ended (auto_attack.py 290-300).                    *)
(***************************************************************************)
TakesLeastBroken ==
  Returned =>
    \A s \in Samples :
      robust[s] /\ Breakers(s) # {} =>
        /\ Classify[x_adv[s]] # y[s] /\ WithinEps(x[s], x_adv[s])
        /\ \A k \in Breakers(s) : Norm2[x[s]][x_adv[s]] <= Perturbation(s, k)
        /\ Fooled(x_adv[s], args[best[s]].labels[s], args[best[s]].targeted)

(***************************************************************************)
(* A sample no run broke, or that needed no attack, comes back as it came, *)
(* although the argmin of a row of infinities still picks a run for it.    *)
(***************************************************************************)
OthersUntouched ==
  Returned => \A s \in Samples : ~robust[s] \/ Breakers(s) = {} => x_adv[s] = x[s]

(***************************************************************************)
(* Every call ends, whichever worker runs what and whatever raises.        *)
(***************************************************************************)
ParallelCallEnds == phase # "idle" ~> phase = "idle"

(***************************************************************************)
(* The parallel AutoAttack is an attack ensemble too: all its verdicts     *)
(* fall in the one step that collects the results.                         *)
(***************************************************************************)
Verdict(s) ==
  IF ~robust[s] THEN [by |-> SAMPLE_MISCLASSIFIED, adv |-> x[s]]
  ELSE IF Returned /\ Breakers(s) # {}
       THEN [by |-> args[best[s]].attack, adv |-> x_adv[s]]
       ELSE [by |-> SAMPLE_DEFAULT, adv |-> x[s]]
ParallelEnsemble == INSTANCE AttackEnsemble WITH verdict <- [s \in Samples |-> Verdict(s)]
ParallelImplementsEnsemble == ParallelEnsemble!Spec

=============================================================================
