----------------------------- MODULE CarliniLInf -----------------------------
(***************************************************************************)
(* CarliniLInfMethod.generate on one sample (samples share nothing): the   *)
(* limit tau shrinks as long as the sweep over the constants of a round    *)
(* finds something nearer.                                                 *)
(*                                                                         *)
(* Distances and tau are integers in units of the smallest limit tried,    *)
(* 1/256; the product with decrease_factor is rounded down.  The optimiser *)
(* behind _generate_single may return any image.  phase is "round" (the    *)
(* outer loop), "sweep" (the inner one) or "done", and x_adv is            *)
(* x_adv[sample_id].                                                       *)
(***************************************************************************)
EXTENDS Carlini

CONSTANTS
  Labels,        \* the classes
  Y,             \* y: the target if Targeted, else the original class
  Targeted,      \* self.targeted
  Deltas,        \* the distances an image other than the original may have
  One,           \* 1.0: the first tau and the distance to beat; 256 units
  Num, Den,      \* decrease_factor = Num / Den, between 0 and 1
  InitialConst, LargestConst, ConstFactor

ASSUME ImageAssumption == /\ Y \in Labels /\ Targeted \in BOOLEAN
                          /\ Deltas \subseteq Nat \ {0} /\ One \in Nat \ {0}
ASSUME FactorAssumption == /\ Num \in Nat \ {0} /\ Den \in Nat /\ Num < Den
                           /\ InitialConst \in Nat /\ LargestConst \in Nat
                           /\ ConstFactor \in Nat

VARIABLES
  tau, const,
  sample_done,
  delta_i_best,
  orig,          \* x[sample_id]
  found          \* history: how far the images tried of another class are

vars == <<phase, tau, const, sample_done, delta_i_best, orig, x_adv, found>>

Images == [delta : Deltas, label : Labels]
Originals == [delta : {0}, label : Labels]

Init ==
  /\ phase = "round"
  /\ tau = One /\ const = InitialConst
  /\ sample_done = FALSE
  /\ delta_i_best = One
  /\ orig \in Originals
  /\ x_adv = orig
  /\ found = {}

\* while tau > 1 / 256 and not sample_done
Round ==
  /\ phase = "round"
  /\ tau > 1 /\ ~sample_done
  /\ sample_done' = TRUE
  /\ const' = InitialConst
  /\ phase' = "sweep"
  /\ UNCHANGED <<tau, delta_i_best, orig, x_adv, found>>

Stop ==
  /\ phase = "round"
  /\ tau <= 1 \/ sample_done
  /\ phase' = "done"
  /\ UNCHANGED <<tau, const, sample_done, delta_i_best, orig, x_adv, found>>

\* The image counts if its class is not y, targeted or not; and a slip that
\* does not ask for less distance.
AcceptsAnyDelta(image) == image.label # Y
Accepts(image) == image.label # Y /\ image.delta < delta_i_best

\* The next constant of the sweep; a slip starts again from the first.
NextConstFirst == InitialConst * ConstFactor
NextConst == const * ConstFactor

\* One constant of the sweep.
TryConst(image) ==
  /\ phase = "sweep" /\ const < LargestConst
  /\ IF Accepts(image)
     THEN x_adv' = image /\ delta_i_best' = image.delta /\ sample_done' = FALSE
     ELSE UNCHANGED <<x_adv, delta_i_best, sample_done>>
  /\ const' = NextConst
  /\ found' = found \cup IF image.label # Y THEN {image.delta} ELSE {}
  /\ UNCHANGED <<phase, tau, orig>>

\* tau_actual bounds the next limit; a slip forgets it.
NextTauUnbounded == (tau * Num) \div Den
NextTau == ((IF x_adv.delta < tau THEN x_adv.delta ELSE tau) * Num) \div Den

EndSweep ==
  /\ phase = "sweep" /\ const >= LargestConst
  /\ tau' = NextTau
  /\ phase' = "round"
  /\ UNCHANGED <<const, sample_done, delta_i_best, orig, x_adv, found>>

Returned == phase = "done" /\ UNCHANGED vars

\* The optimiser ends at an image at some distance or where it began.
Work == \/ Round \/ Stop \/ EndSweep
        \/ \E image \in Images \cup {orig} : TryConst(image)
Next == Work \/ Returned

\* Nothing runs but this loop.
Spec == Init /\ [][Next]_vars /\ WF_vars(Work)
-----------------------------------------------------------------------------
(***************************************************************************)
(* The variables have the values the code can give them.                   *)
(***************************************************************************)
TypeOK ==
  /\ phase \in {"round", "sweep", "done"}
  /\ tau \in 0 .. One /\ const \in Nat /\ sample_done \in BOOLEAN
  /\ delta_i_best \in 0 .. One
  /\ orig \in Originals /\ x_adv \in Images \cup Originals
  /\ found \subseteq Deltas \cup {0}

(***************************************************************************)
(* The image handed back is the nearest of those that left class y within  *)
(* the first limit, and the original if there was none (carlini.py 778,    *)
(* 800-806).                                                               *)
(***************************************************************************)
KeptIsNearest ==
  /\ \A d \in found : d < One => x_adv.label # Y /\ x_adv.delta <= d
  /\ x_adv # orig => x_adv.delta \in found /\ x_adv.label # Y /\ x_adv.delta = delta_i_best

(***************************************************************************)
(* A new round is asked for something nearer than what is kept: its limit  *)
(* lies below the distance already reached (carlini.py 810-815).           *)
(***************************************************************************)
TauBelowKept ==
  phase = "sweep" /\ sample_done /\ x_adv # orig => tau < x_adv.delta

(***************************************************************************)
(* generate returns: every round either finds something nearer or is the   *)
(* last, and tau shrinks (carlini.py 773-815).                             *)
(***************************************************************************)
Terminates == <>(phase = "done")

=============================================================================
