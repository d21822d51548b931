----------------------------- MODULE ConstSearch -----------------------------
(***************************************************************************)
(* The search for the trade-off constant c that the elastic net attack and *)
(* ZOO share: _generate_batch runs an optimiser for max_iter iterations    *)
(* with one constant per sample, then raises or lowers each constant       *)
(* depending on whether its sample was broken, binary_search_steps times.  *)
(*                                                                         *)
(* An iterate is what the loops look at: how far it is and whether it is   *)
(* adversarial.  Constants are integers; / 2 rounds down where the code    *)
(* has floats.  phase is "inner", "adjust" or "done".                      *)
(***************************************************************************)
EXTENDS BinarySearch

CONSTANTS
  Samples,      \* the batch
  Dists,        \* the distances an iterate may have
  Inf,          \* np.inf
  InitialConst, \* self.initial_const
  Cap,          \* 1e9: from here on the constant only grows
  Top,          \* 10e10 (elastic net) or 1e10 (ZOO), the first upper bound
  AbortEarly    \* ZOO's abort_early; FALSE for the elastic net

ASSUME DistsAssumption == Dists \subseteq Nat /\ Inf \in Nat /\ \A d \in Dists : d < Inf
ASSUME ConstAssumption == /\ InitialConst \in Nat /\ Cap \in Nat /\ Top \in Nat
                          /\ Cap <= Top
ASSUME AbortAssumption == AbortEarly \in BOOLEAN

VARIABLES
  iter,                      \* the inner loop counter
  c, lower, upper,           \* c_current, c_lower_bound, c_upper_bound
  best_dist, best_attack,    \* the best of this run of the optimiser
  o_best_dist, o_best_attack,\* the best of all runs
  judged,                    \* history: the adversarial iterates looked at
  broke, failed              \* history: the constants tried, by outcome

consts == <<c, lower, upper, broke, failed>>
inner == <<best_dist, best_attack>>
outer == <<o_best_dist, o_best_attack>>
vars == <<phase, bss, iter, consts, inner, outer, judged>>

Iterates == [dist : Dists, adversarial : BOOLEAN]
\* The sample itself, where every run starts.
Start == [dist |-> 0, adversarial |-> FALSE]

\* _generate_batch is called.
Init ==
  /\ phase = IF Steps > 0 THEN "inner" ELSE "done"
  /\ bss = 0 /\ iter = 0
  /\ c = [s \in Samples |-> InitialConst]
  /\ lower = [s \in Samples |-> 0]
  /\ upper = [s \in Samples |-> Top]
  /\ best_dist = [s \in Samples |-> Inf] /\ o_best_dist = [s \in Samples |-> Inf]
  /\ best_attack = [s \in Samples |-> Start] /\ o_best_attack = [s \in Samples |-> Start]
  /\ judged = [s \in Samples |-> {}]
  /\ broke = [s \in Samples |-> {}] /\ failed = [s \in Samples |-> {}]

\* An iterate replaces the best of the run if it is nearer and adversarial.
Better(s, new) == new.dist < best_dist[s] /\ new.adversarial

\* One iteration of the optimiser, and what the loop keeps of it.
Iterate(new) ==
  /\ phase = "inner" /\ iter < MaxIter
  /\ best_dist' = [s \in Samples |-> IF Better(s, new[s]) THEN new[s].dist ELSE best_dist[s]]
  /\ best_attack' = [s \in Samples |-> IF Better(s, new[s]) THEN new[s] ELSE best_attack[s]]
  /\ judged' = [s \in Samples |-> judged[s] \cup IF new[s].adversarial THEN {new[s].dist}
                                                                       ELSE {}]
  /\ iter' = iter + 1
  /\ UNCHANGED <<phase, bss, consts, outer>>

\* ZOO: no sample's loss has improved since the last look.  The loop is left
\* before the iterate just computed is compared with the best.
Abort ==
  /\ AbortEarly
  /\ phase = "inner" /\ iter < MaxIter
  /\ phase' = "adjust"
  /\ UNCHANGED <<bss, iter, consts, inner, outer, judged>>

InnerEnd ==
  /\ phase = "inner" /\ iter = MaxIter
  /\ phase' = "adjust"
  /\ UNCHANGED <<bss, iter, consts, inner, outer, judged>>

\* The test of _update_const on best_label, which is -inf until an
\* adversarial iterate is kept; and a slip that forgets the -inf, which an
\* untargeted comparison takes for success.
SucceededAlways(s) == best_dist[s] <= Inf
Succeeded(s) == best_attack[s].adversarial

\* The three arrays after _update_const; slips that never raise the lower
\* bound and that take the middle of the bounds before their update.
NewLowerKept(s) == lower[s]
NewUpper(s) ==
  IF Succeeded(s) /\ c[s] < upper[s] THEN c[s] ELSE upper[s]
NewLower(s) ==
  IF ~Succeeded(s) /\ c[s] > lower[s] THEN c[s] ELSE lower[s]
NewConstFromOld(s) ==
  IF NewUpper(s) < Cap THEN (lower[s] + upper[s]) \div 2
  ELSE IF Succeeded(s) THEN c[s] ELSE 10 * c[s]
NewConst(s) ==
  IF NewUpper(s) < Cap THEN (NewLower(s) + NewUpper(s)) \div 2
  ELSE IF Succeeded(s) THEN c[s] ELSE 10 * c[s]

\* The best of the run against the best of all: attacks first, then
\* distances, under the same comparison; a slip that updates the distances
\* first finds nothing left to improve for the attacks, another takes the
\* last run's distances.
Improves(s) == best_dist[s] < o_best_dist[s]
KeepAttackLate(s) == o_best_attack[s]
KeepAttack(s) == IF Improves(s) THEN best_attack[s] ELSE o_best_attack[s]
KeepDistLast(s) == best_dist[s]
KeepDist(s) == IF Improves(s) THEN best_dist[s] ELSE o_best_dist[s]

\* The for loop over range(binary_search_steps); a slip runs once too often.
MoreStepsInclusive == bss < Steps
MoreSteps == bss + 1 < Steps

\* The end of a binary search step, and the reset of the next run.
Adjust ==
  /\ phase = "adjust"
  /\ o_best_attack' = [s \in Samples |-> KeepAttack(s)]
  /\ o_best_dist' = [s \in Samples |-> KeepDist(s)]
  /\ c' = [s \in Samples |-> NewConst(s)]
  /\ lower' = [s \in Samples |-> NewLower(s)]
  /\ upper' = [s \in Samples |-> NewUpper(s)]
  /\ broke' = [s \in Samples |-> broke[s] \cup IF best_dist[s] < Inf THEN {c[s]} ELSE {}]
  /\ failed' = [s \in Samples |-> failed[s] \cup IF best_dist[s] < Inf THEN {} ELSE {c[s]}]
  /\ bss' = bss + 1
  /\ phase' = IF MoreSteps THEN "inner" ELSE "done"
  /\ iter' = 0
  /\ best_dist' = [s \in Samples |-> Inf]
  /\ best_attack' = [s \in Samples |-> Start]
  /\ UNCHANGED judged

\* _generate_batch has returned.
Returned == phase = "done" /\ UNCHANGED vars

Next == \/ \E new \in [Samples -> Iterates] : Iterate(new)
        \/ Abort \/ InnerEnd \/ Adjust \/ Returned

Spec == Init /\ [][Next]_vars
-----------------------------------------------------------------------------
(***************************************************************************)
(* The variables have the values the code can give them.                   *)
(***************************************************************************)
TypeOK ==
  /\ phase \in {"inner", "adjust", "done"}
  /\ bss \in 0 .. Steps /\ iter \in 0 .. MaxIter
  /\ phase # "done" => bss < Steps
  /\ c \in [Samples -> Nat] /\ lower \in [Samples -> Nat] /\ upper \in [Samples -> Nat]
  /\ best_dist \in [Samples -> Dists \cup {Inf}]
  /\ o_best_dist \in [Samples -> Dists \cup {Inf}]
  /\ best_attack \in [Samples -> Iterates \cup {Start}]
  /\ o_best_attack \in [Samples -> Iterates \cup {Start}]
  /\ judged \in [Samples -> SUBSET Dists]
  /\ broke \in [Samples -> SUBSET Nat] /\ failed \in [Samples -> SUBSET Nat]

(***************************************************************************)
(* The example handed back is the one whose distance is remembered, and it *)
(* is adversarial: the two arrays of each level are updated one after the  *)
(* other under a condition the first update changes (zoo.py 283-284).      *)
(***************************************************************************)
BestIsAdversarial ==
  \A s \in Samples :
    o_best_dist[s] < Inf => o_best_attack[s] = [dist |-> o_best_dist[s], adversarial |-> TRUE]

(***************************************************************************)
(* Nothing adversarial that either loop has looked at is nearer than what  *)
(* the two levels of best together remember.                               *)
(***************************************************************************)
BestIsLeast ==
  \A s \in Samples : \A d \in judged[s] : o_best_dist[s] <= d \/ best_dist[s] <= d

(***************************************************************************)
(* The constant lies in its bracket as soon as there is one.               *)
(***************************************************************************)
Bracketed ==
  \A s \in Samples : /\ lower[s] <= c[s]
                     /\ upper[s] < Cap => c[s] <= upper[s]

(***************************************************************************)
(* The bounds mean what they say: the lower one is a constant that was     *)
(* tried and did not break the sample, the upper one a constant that did   *)
(* (zoo.py 302-303, 320, 325).                                             *)
(***************************************************************************)
BoundsWereTried ==
  \A s \in Samples :
    /\ lower[s] # 0 => lower[s] \in failed[s]
    /\ upper[s] # Top => upper[s] \in broke[s]

(***************************************************************************)
(* "Number of times to adjust constant with binary search" (zoo.py 102):   *)
(* once there is a bracket, every further step halves it.                  *)
(***************************************************************************)
BisectStep ==
  Adjust => \A s \in Samples :
              upper[s] < Cap => 2 * (upper'[s] - lower'[s]) <= upper[s] - lower[s] + 1
Bisects == [][BisectStep]_vars
=============================================================================
