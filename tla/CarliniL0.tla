------------------------------ MODULE CarliniL0 ------------------------------
(***************************************************************************)
(* CarliniL0Method.generate (src/art/attacks/evasion/carlini.py 945-1268): *)
(* round after round an L_2 attack on the features still active, and after *)
(* every success one more feature is fixed.                                *)
(*                                                                         *)
(* An image is the set of features in which it differs from the sample by  *)
(* more than the threshold, and the classifier is a set of such images.    *)
(* What a line search finds is open.  The constants c only weigh the loss; *)
(* they are taken to stay between 0 and the bound where a sample is given  *)
(* up.  phase is "batch", "iterate", "judge", "early" or "exhausted", and  *)
(* x_adv holds the images of the rounds.                                   *)
(***************************************************************************)
EXTENDS Carlini, Sequences, FiniteSets

CONSTANTS
  Features,     \* 1 .. n, in the order of argmin
  Batchings,    \* the ways generate may split the samples, sequences of sets
  Masks,        \* self.mask; all features stand for None
  WarmStarts,   \* the values of self.warm_start
  Rounds,       \* x.shape[1] + 1
  Steps,        \* self.binary_search_steps
  MaxIter       \* self.max_iter

ASSUME SizesAssumption ==
  /\ IsFiniteSet(Features) /\ Features = 1 .. Cardinality(Features)
  /\ Masks \subseteq SUBSET Features /\ WarmStarts \subseteq BOOLEAN
  /\ Rounds \in Nat /\ Steps \in Nat \ {0} /\ MaxIter \in Nat

ASSUME BatchingAssumption ==
  \A bs \in Batchings : Len(bs) \in Nat \ {0} /\ DOMAIN bs = 1 .. Len(bs)

L0Images == SUBSET Features
Original == {}
Inf == Cardinality(Features) + 1

VARIABLES
  adversarial,    \* the images that fool the classifier by the margin asked for
  batches,        \* the batches, each a set of samples
  mask, warm_start,
  round, batch_id, bss, i_iter,
  x_adv_batch,    \* the images of the batch at work
  attack_success,
  best_l0dist_batch, best_x_adv_batch,
  activation, old_activation,
  final_adversarial_example,
  wins            \* history: the rounds a sample succeeded in

config == <<adversarial, batches, mask, warm_start>>
inner == <<bss, i_iter, x_adv_batch, attack_success, best_l0dist_batch, best_x_adv_batch>>
outer == <<x_adv, activation, old_activation, final_adversarial_example, wins>>
l0Vars == <<config, phase, round, batch_id, inner, outer>>

Samples == UNION {batches[b] : b \in DOMAIN batches}
Batch == batches[batch_id]

L0(image, from) == Cardinality((image \ from) \cup (from \ image))

\* Where the descent starts: from the last round's images or from the samples.
Begin(s) == IF warm_start THEN x_adv[s] ELSE Original

-----------------------------------------------------------------------------
\* The call, up to the main loop.
L0Init ==
  /\ adversarial \in SUBSET L0Images
  /\ batches \in Batchings /\ mask \in Masks /\ warm_start \in WarmStarts
  /\ phase = IF Rounds = 0 THEN "exhausted" ELSE "batch"
  /\ round = 0 /\ batch_id = 1 /\ bss = 0 /\ i_iter = 0
  /\ x_adv = [s \in Samples |-> Original]
  /\ x_adv_batch = x_adv /\ best_x_adv_batch = x_adv
  /\ attack_success = [s \in Samples |-> FALSE]
  /\ best_l0dist_batch = [s \in Samples |-> Inf]
  /\ activation = [s \in Samples |-> mask] /\ old_activation = activation
  /\ final_adversarial_example = x_adv
  /\ wins = [s \in Samples |-> 0]

\* The start of a binary search step: back to where the round began.
StartStep ==
  /\ x_adv_batch' = [s \in Samples |-> IF s \in Batch THEN Begin(s) ELSE x_adv_batch[s]]
  /\ attack_success' =
       [s \in Samples |-> IF s \in Batch THEN Begin(s) \in adversarial ELSE attack_success[s]]
  /\ i_iter' = 0

StartBatch ==
  /\ phase = "batch"
  /\ phase' = "iterate" /\ bss' = 0
  /\ best_l0dist_batch' = [s \in Samples |-> Inf]
  /\ best_x_adv_batch' = [s \in Samples |-> Begin(s)]
  /\ StartStep
  /\ UNCHANGED <<config, round, batch_id, outer>>

\* A success counts if it changes fewer features than the best, from where the
\* round begins.
Dist(s) == L0(x_adv_batch[s], Begin(s))

Improves(s) == s \in Batch /\ attack_success[s] /\ Dist(s) < best_l0dist_batch[s]
KeepBest ==
  /\ best_l0dist_batch' = [s \in Samples |-> IF Improves(s) THEN Dist(s) ELSE best_l0dist_batch[s]]
  /\ best_x_adv_batch' = [s \in Samples |-> IF Improves(s) THEN x_adv_batch[s] ELSE best_x_adv_batch[s]]

\* The images a line search may try: only active features move.
Reachable(s) == {image \in L0Images : image \ activation[s] = x_adv_batch[s] \ activation[s]}

\* Where the line searches of a batch end: at an image that is taken or at a
\* last trial that is not, whose loss is what is remembered all the same.
Ends ==
  {end \in [Batch -> [image : L0Images, taken : BOOLEAN]] :
     \A s \in Batch : end[s].image \in Reachable(s)}

\* One iteration.  The successes of the whole batch are computed anew as
\* soon as one of its samples moves.
Iterate(end) ==
  /\ phase = "iterate" /\ i_iter < MaxIter
  /\ end \in Ends
  /\ KeepBest
  /\ x_adv_batch' = [s \in Samples |->
       IF s \in Batch /\ end[s].taken THEN end[s].image ELSE x_adv_batch[s]]
  /\ IF \E s \in Batch : end[s].taken
     THEN attack_success' = [s \in Samples |->
            IF s \in Batch THEN end[s].image \in adversarial ELSE attack_success[s]]
     ELSE UNCHANGED attack_success
  /\ i_iter' = i_iter + 1
  /\ UNCHANGED <<config, phase, round, batch_id, bss, outer>>

\* The end of a step that is not the last.
NextStep ==
  /\ phase = "iterate" /\ i_iter = MaxIter /\ bss + 1 < Steps
  /\ KeepBest /\ StartStep
  /\ bss' = bss + 1
  /\ UNCHANGED <<config, phase, round, batch_id, outer>>

\* The end of the last step of a batch.
EndBatch ==
  /\ phase = "iterate" /\ i_iter = MaxIter /\ bss + 1 = Steps
  /\ KeepBest
  /\ x_adv' = [s \in Samples |-> IF s \in Batch THEN best_x_adv_batch'[s] ELSE x_adv[s]]
  /\ IF batch_id < Len(batches)
     THEN phase' = "batch" /\ batch_id' = batch_id + 1
     ELSE phase' = "judge" /\ batch_id' = 1
  /\ UNCHANGED <<config, round, bss, i_iter, x_adv_batch, attack_success,
                 activation, old_activation, final_adversarial_example, wins>>

-----------------------------------------------------------------------------
\* The images are judged afresh; best_l0dist is infinite and never lowered.
\* A slip takes the successes of the last step instead.
ImprovedByRecord == {s \in Samples : attack_success[s]}
Improved == {s \in Samples : x_adv[s] \in adversarial}

\* The feature fixed: the active one whose change does least, else the first;
\* a slip forgets that fixed features are not to be selected again.
FixableAll(s) == Features
Fixable(s) == IF activation[s] = {} THEN {1} ELSE activation[s]

\* What old_activation remembers of a success; a slip is a statement too late.
RememberedLate(s, f) == activation[s] \ {f[s]}
Remembered(s, f) == activation[s]

\* A round that succeeded for some sample.
Fix(f) ==
  /\ phase = "judge" /\ Improved # {}
  /\ \A s \in Samples : f[s] \in Fixable(s)
  /\ final_adversarial_example' =
       [s \in Samples |-> IF s \in Improved THEN x_adv[s] ELSE final_adversarial_example[s]]
  /\ old_activation' = [s \in Samples |-> IF s \in Improved THEN Remembered(s, f) ELSE old_activation[s]]
  /\ activation' = [s \in Samples |-> IF s \in Improved THEN activation[s] \ {f[s]} ELSE activation[s]]
  /\ wins' = [s \in Samples |-> IF s \in Improved THEN wins[s] + 1 ELSE wins[s]]
  /\ round' = round + 1
  /\ phase' = IF round + 1 < Rounds THEN "batch" ELSE "exhausted"
  /\ UNCHANGED <<config, batch_id, inner, x_adv>>

\* A round that succeeded for none.
ReturnEarly ==
  /\ phase = "judge" /\ Improved = {}
  /\ phase' = "early"
  /\ UNCHANGED <<config, round, batch_id, inner, outer>>

\* What generate returns: the final examples, with the features that were
\* not active reset to the sample's, or the images of the last round.
Result(s) ==
  IF phase = "early" THEN final_adversarial_example[s] \cap old_activation[s] ELSE x_adv[s]

L0Returned == phase \in {"early", "exhausted"} /\ UNCHANGED l0Vars

L0Next ==
  \/ StartBatch
  \/ \E end \in [Batch -> [image : L0Images, taken : BOOLEAN]] : Iterate(end)
  \/ NextStep \/ EndBatch
  \/ \E f \in [Samples -> Features] : Fix(f)
  \/ ReturnEarly \/ L0Returned

L0Spec == L0Init /\ [][L0Next]_l0Vars
-----------------------------------------------------------------------------
(***************************************************************************)
(* The variables have the values the code can give them.                   *)
(***************************************************************************)
L0TypeOK ==
  /\ adversarial \subseteq L0Images
  /\ phase \in {"batch", "iterate", "judge", "early", "exhausted"}
  /\ round \in 0 .. Rounds /\ batch_id \in DOMAIN batches
  /\ bss \in 0 .. Steps - 1 /\ i_iter \in 0 .. MaxIter
  /\ {x_adv, x_adv_batch, best_x_adv_batch, activation, old_activation,
      final_adversarial_example} \subseteq [Samples -> L0Images]
  /\ attack_success \in [Samples -> BOOLEAN]
  /\ best_l0dist_batch \in [Samples -> 0 .. Inf]
  /\ wins \in [Samples -> 0 .. Rounds]

(***************************************************************************)
(* When a round fails for every sample (1226-1233), each sample that was   *)
(* broken before is returned adversarial, although the features fixed are  *)
(* reset, and the others are returned as they came.  old_activation must   *)
(* be that of the success and not of the round that failed.                *)
(***************************************************************************)
FoundIsReturned ==
  phase = "early" =>
    \A s \in Samples : IF wins[s] > 0 THEN Result(s) \in adversarial ELSE Result(s) = Original

(***************************************************************************)
(* When the rounds are used up (1268) the last images are returned and the *)
(* final examples are not looked at.  With a warm start no sample is lost  *)
(* by that; without one only a sample that failed in the last round.       *)
(***************************************************************************)
LostOnlyCold ==
  phase = "exhausted" =>
    \A s \in Samples :
      wins[s] > 0 => Result(s) \in adversarial \/ (~warm_start /\ wins[s] < Rounds)

(***************************************************************************)
(* Every success leaves a sample one feature less (1254-1256), down to     *)
(* none, and without a warm start the success of a round changes nothing   *)
(* that was fixed before it.                                               *)
(***************************************************************************)
Narrowed ==
  \A s \in Samples :
    wins[s] > 0 =>
      /\ Cardinality(old_activation[s]) =
           IF wins[s] > Cardinality(mask) THEN 0 ELSE Cardinality(mask) + 1 - wins[s]
      /\ ~warm_start => final_adversarial_example[s] \subseteq old_activation[s]
=============================================================================
