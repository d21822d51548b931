--------------------------- MODULE AttackEnsemble ---------------------------
(***************************************************************************)
(* What an AutoAttack promises its caller, whatever the mode: every sample *)
(* of the batch gets one verdict.  A sample the original model misreads    *)
(* needs no attack; any other is intact until some attack of the ensemble  *)
(* breaks it, with a point that the model misreads and that lies within    *)
(* eps of the ORIGINAL sample; and a sample is broken at most once.        *)
(***************************************************************************)
EXTENDS RunAttack

VARIABLES
  x, y,      \* the batch and its labels
  verdict    \* [by |-> the attack that broke the sample, adv |-> its output]

Misread(s) == [by |-> SAMPLE_MISCLASSIFIED, adv |-> x[s]]
Intact(s) == [by |-> SAMPLE_DEFAULT, adv |-> x[s]]
Breakages(s) ==
  {[by |-> k, adv |-> p] :
     k \in Attacks,
     p \in {q \in Inputs : Classify[q] # y[s] /\ WithinEps(x[s], q)}}

\* A batch is handed in: x, y and verdict describe it.
Fresh == \A s \in Samples :
           verdict[s] = IF ClassifyOrig[x[s]] = y[s] THEN Intact(s) ELSE Misread(s)

Init ==
  /\ x \in [Samples -> Inputs] /\ y \in [Samples -> Labels]
  /\ verdict = [s \in Samples |-> IF ClassifyOrig[x[s]] = y[s] THEN Intact(s)
                                                               ELSE Misread(s)]

Start == /\ x' \in [Samples -> Inputs] /\ y' \in [Samples -> Labels]
         /\ verdict' \in [Samples -> [by : Int, adv : Inputs]]
         /\ Fresh'

Break ==
  /\ UNCHANGED <<x, y>>
  /\ DOMAIN verdict' = Samples
  /\ \A s \in Samples : \/ verdict'[s] = verdict[s]
                        \/ verdict[s] = Intact(s) /\ verdict'[s] \in Breakages(s)

Next == Start \/ Break

Spec == Init /\ [][Next]_<<x, y, verdict>>
=============================================================================
