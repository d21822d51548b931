----------------------------- MODULE AutoAttack -----------------------------
(***************************************************************************)
(* AutoAttack.generate with parallel=False: an ensemble of attacks run one *)
(* after the other on the samples none has broken yet, first untargeted,   *)
(* then (if self.targeted) against every label but the true one.  phase is *)
(* "untargeted", "targeted" (the loop over the attacks), "target" (the one *)
(* over the labels) or "idle".                                             *)
(***************************************************************************)
EXTENDS AutoAttackCall

VARIABLES
  i           \* the target label the inner loop is at

vars == <<phase, targeted, x, y, x_adv, robust, best, a, i, flag, outcome>>
call == <<targeted, x, y>>

TypeOK ==
  /\ phase \in {"idle", "untargeted", "targeted", "target"}
  /\ targeted \in BOOLEAN
  /\ x \in [Samples -> Inputs]
  /\ y \in [Samples -> Labels]
  /\ x_adv \in [Samples -> Inputs]
  /\ robust \in [Samples -> BOOLEAN]
  /\ best \in [Samples -> {SAMPLE_DEFAULT, SAMPLE_MISCLASSIFIED} \cup Attacks]
  /\ a \in 1 .. NAttacks + 1
  /\ i \in 1 .. NClasses
  /\ flag \in [Attacks -> BOOLEAN]
  /\ outcome \in {"none", "returned", "raised"}

Init == FirstCall /\ i = 1

Call(xs, ys, t) == NewCall(xs, ys, t) /\ i' = 1

\* Two slips: a slot overwritten once filled, an index off by one.
SlotsAnyBroken(now) == [s \in Samples |-> IF ~now[s] THEN a ELSE best[s]]
SlotsOffByOne(now) ==
  [s \in Samples |-> IF best[s] = SAMPLE_DEFAULT /\ ~now[s] THEN a - 1 ELSE best[s]]
\* The slots after a round: those still default whose sample is now broken
\* take the index of the attack.
Slots(now) ==
  [s \in Samples |-> IF best[s] = SAMPLE_DEFAULT /\ ~now[s] THEN a ELSE best[s]]

\* x_adv, sample_is_robust = run_attack(...), then the slots.
Attacked(labels, isTargeted, out) ==
  /\ x_adv' = RunX(x_adv, labels, robust, isTargeted, out)
  /\ robust' = RunRobust(x_adv, labels, robust, isTargeted, out)
  /\ best' = Slots(robust')

\* One round of the untargeted loop.
UntargetedAttack ==
  /\ phase = "untargeted" /\ a <= NAttacks /\ SomeRobust
  /\ flag' = FlagCleared
  /\ \E out \in Outputs(robust) : Attacked(y, flag'[a], out)
  /\ a' = a + 1
  /\ UNCHANGED <<phase, call, i, outcome>>

\* attack.generate raises: nothing catches it in the untargeted loop, and the
\* caller gets no result; self.best_attacks stays as it is.
UntargetedRaise ==
  /\ phase = "untargeted" /\ a <= NAttacks /\ SomeRobust
  /\ a \in Raising
  /\ flag' = FlagCleared
  /\ phase' = "idle" /\ outcome' = "raised"
  /\ UNCHANGED <<call, x_adv, robust, best, a, i>>

\* The loop ends, or breaks as no sample is left.
UntargetedEnd ==
  /\ phase = "untargeted" /\ (a > NAttacks \/ ~SomeRobust)
  /\ IF targeted THEN phase' = "targeted" /\ UNCHANGED outcome
                 ELSE phase' = "idle" /\ outcome' = "returned"
  /\ a' = 1 /\ i' = 1
  /\ UNCHANGED <<call, x_adv, robust, best, flag>>

\* attack.set_params(targeted=True), which raises a ValueError, caught at
\* the end of the loop body, for an attack that has no such parameter.
SetTargeted ==
  /\ phase = "targeted" /\ a <= NAttacks
  /\ IF a \in Targetable
     THEN flag' = [flag EXCEPT ![a] = TRUE] /\ phase' = "target" /\ UNCHANGED a
     ELSE a' = a + 1 /\ UNCHANGED <<flag, phase>>
  /\ i' = 1
  /\ UNCHANGED <<call, x_adv, robust, best, outcome>>

\* One round of the loop over the labels of one attack.
TargetedAttack ==
  /\ phase = "target" /\ i <= NClasses - 1 /\ SomeRobust
  /\ \E out \in Outputs(robust) :
       Attacked([s \in Samples |-> TargetLabel(y[s], i)], flag[a], out)
  /\ i' = i + 1
  /\ UNCHANGED <<phase, call, a, flag, outcome>>

\* A slip: the attack that raised is tried again.
TargetedRetry ==
  /\ phase = "target" /\ i <= NClasses - 1 /\ SomeRobust
  /\ a \in Raising
  /\ phase' = "targeted"
  /\ UNCHANGED <<call, x_adv, robust, best, a, i, flag, outcome>>

\* attack.generate raises a ValueError: the rest of this attack is skipped.
TargetedRaise ==
  /\ phase = "target" /\ i <= NClasses - 1 /\ SomeRobust
  /\ a \in Raising
  /\ phase' = "targeted" /\ a' = a + 1
  /\ UNCHANGED <<call, x_adv, robust, best, i, flag, outcome>>

\* The labels are exhausted, or no sample is left: on to the next attack,
\* which is still switched to targeted although it will have nothing to do.
NextAttack ==
  /\ phase = "target" /\ (i > NClasses - 1 \/ ~SomeRobust)
  /\ phase' = "targeted" /\ a' = a + 1
  /\ UNCHANGED <<call, x_adv, robust, best, i, flag, outcome>>

Return ==
  /\ phase = "targeted" /\ a > NAttacks
  /\ phase' = "idle" /\ outcome' = "returned"
  /\ UNCHANGED <<call, x_adv, robust, best, a, i, flag>>

SomeCall == \E xs \in [Samples -> Inputs], ys \in [Samples -> Labels], t \in BOOLEAN :
              Call(xs, ys, t)

Work == \/ UntargetedAttack \/ UntargetedRaise \/ UntargetedEnd
        \/ SetTargeted \/ TargetedAttack \/ TargetedRaise \/ NextAttack \/ Return

Next == SomeCall \/ Work

\* generate runs on once called; nobody has to call it.
Spec == Init /\ [][Next]_vars /\ WF_vars(Work)
=============================================================================
