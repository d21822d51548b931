--------------------------- MODULE AutoAttackCall ---------------------------
(***************************************************************************)
(* What both modes of AutoAttack.generate share: the state of a call, the  *)
(* statements before the first loop, and what the loops do to the flags of *)
(* the attack objects, which outlive a call and keep their own `targeted`. *)
(***************************************************************************)
EXTENDS RunAttack

VARIABLES
  phase,      \* where generate is; "idle" between calls
  targeted,   \* self._targeted in this call
  x, y,       \* the arguments of the call
  x_adv,      \* the local of that name
  robust,     \* the local sample_is_robust
  best,       \* self.best_attacks
  a,          \* the attack the loop is at
  flag,       \* attack.targeted of every attack object
  outcome     \* how the last call ended: "none", "returned" or "raised"

\* The flags that an attack built by the user may carry.
FlagInit == {f \in [Attacks -> BOOLEAN] : \A k \in Attacks : f[k] => k \in Targetable}

SomeRobust == \E s \in Samples : robust[s]

\* What generate computes before its first loop.
InitiallyRobust(xs, ys) == [s \in Samples |-> ClassifyOrig[xs[s]] = ys[s]]
InitiallyBest(xs, ys) ==
  [s \in Samples |-> IF InitiallyRobust(xs, ys)[s] THEN SAMPLE_DEFAULT
                                                   ELSE SAMPLE_MISCLASSIFIED]

\* generate is first called, on an object and attacks just built.
FirstCall ==
  /\ phase = "untargeted" /\ outcome = "none" /\ targeted \in BOOLEAN
  /\ x \in [Samples -> Inputs] /\ y \in [Samples -> Labels] /\ x_adv = x
  /\ robust = InitiallyRobust(x, y) /\ best = InitiallyBest(x, y)
  /\ a = 1
  /\ flag \in FlagInit

\* generate(xs, ys) is called again; when the caller gives no labels, ys are the
\* predictions of self.estimator.  self.targeted may have been set in between.
NewCall(xs, ys, t) ==
  /\ phase = "idle"
  /\ phase' = "untargeted" /\ outcome' = "none"
  /\ targeted' = t /\ x' = xs /\ y' = ys /\ x_adv' = xs
  /\ robust' = InitiallyRobust(xs, ys)
  /\ best' = InitiallyBest(xs, ys)
  /\ a' = 1
  /\ UNCHANGED flag

\* A slip: the flag an earlier call left is not looked at.
FlagKept == flag
\* A flag left from an earlier call is cleared before the attack runs.
FlagCleared == [flag EXCEPT ![a] = FALSE]
=============================================================================
