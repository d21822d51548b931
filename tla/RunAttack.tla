----------------------------- MODULE RunAttack -----------------------------
(***************************************************************************)
(* The part of AutoAttack both of its modes share: the samples, the        *)
(* models, the attack objects, and the function run_attack, which lets one *)
(* attack loose on the samples that have survived so far and keeps only    *)
(* the perturbations that count.                                           *)
(*                                                                         *)
(* An input is a point of a small space.  What an attack computes is left  *)
(* open: it returns some point for every sample it is given, which may or  *)
(* may not fool the model and may or may not be close enough.              *)
(***************************************************************************)
EXTENDS Integers, FiniteSets

CONSTANTS
  Samples,       \* the indices of the batch
  Inputs,        \* the points of the input space
  NClasses,      \* nb_classes of the estimator
  Classify,      \* argmax of self.estimator.predict: [Inputs -> Labels]
  ClassifyOrig,  \* the same of self.estimator_orig
  NormOrd,       \* norm of b - a in the order self.norm: [Inputs -> [Inputs -> Nat]]
  Eps,           \* self.eps
  NAttacks,      \* len(self.attacks)
  Targetable,    \* the attacks with "targeted" in their attack_params
  Raising        \* the attacks whose generate may raise a ValueError

Labels == 0 .. NClasses - 1
Attacks == 1 .. NAttacks

ASSUME ClassesAssumption == NClasses \in Nat /\ NClasses >= 2
ASSUME ClassifyAssumption == Classify \in [Inputs -> Labels]
                             /\ ClassifyOrig \in [Inputs -> Labels]
ASSUME NormAssumption == NormOrd \in [Inputs -> [Inputs -> Nat]] /\ Eps \in Nat \ {0}
ASSUME AttacksAssumption == NAttacks \in Nat \ {0}
                            /\ Targetable \subseteq Attacks /\ Raising \subseteq Attacks

\* best_attacks before any attack has fooled a sample, and for a sample that
\* needed no attack.  Attack indices are 1 .. NAttacks here, 0 .. in the code.
SAMPLE_DEFAULT == -1
SAMPLE_MISCLASSIFIED == -2

\* (1 - rel_acc) * norm <= eps with rel_acc = 1e-4, in integers.
WithinEps(from, to) == 9999 * NormOrd[from][to] <= 10000 * Eps

\* A slip: the columns not shifted past the sample's own label.
TargetLabelUnshifted(own, i) == i - 1

\* The i-th label other than own, in ascending order: column i of
\* targeted_labels, for i in 1 .. NClasses - 1.
TargetLabel(own, i) == IF i - 1 < own THEN i - 1 ELSE i

\* samples_misclassified, which reads attack.targeted to choose its test.
Fooled(adv, label, targeted) ==
  IF targeted THEN Classify[adv] = label ELSE Classify[adv] # label

\* sample_is_not_robust of one attacked sample.
Broken(orig, adv, label, targeted) ==
  Fooled(adv, label, targeted) /\ WithinEps(orig, adv)

\* What attack.generate may return: a point for every sample passed to it.
Outputs(robust) == [{s \in Samples : robust[s]} -> Inputs]

\* A slip: the mask rebuilt for the whole batch instead of the attacked part.
RunRobustWhole(xs, ys, robust, targeted, out) ==
  [s \in Samples |-> robust[s] => ~Broken(xs[s], out[s], ys[s], targeted)]
\* A slip: every output kept, not only those that count.
RunXAll(xs, ys, robust, targeted, out) ==
  [s \in Samples |-> IF robust[s] THEN out[s] ELSE xs[s]]

\* The two results of run_attack, given the output of attack.generate.
RunRobust(xs, ys, robust, targeted, out) ==
  [s \in Samples |-> robust[s] /\ ~Broken(xs[s], out[s], ys[s], targeted)]
RunX(xs, ys, robust, targeted, out) ==
  [s \in Samples |-> IF robust[s] /\ Broken(xs[s], out[s], ys[s], targeted)
                     THEN out[s] ELSE xs[s]]
=============================================================================
