------------------------- MODULE AdversarialTrainer -------------------------
(***************************************************************************)
(* AdversarialTrainer of src/art/defences/trainer/adversarial_trainer.py:   *)
(* fit on arrays and fit_generator on a data generator, called in turn on    *)
(* the same objects.  What an attack computes is open; what matters is of     *)
(* which sample an image is, who made it and which label it is trained with. *)
(***************************************************************************)
EXTENDS DataGenerators

CONSTANTS
    Attacks,      \* the lists of attacks examined, sequences of AttackType
    AllOfThem,    \* the values of ratio: TRUE for 1, FALSE for one half
    NbEpochs,
    MaxCalls      \* bound on the calls

(* own: the attack works on the classifier that is trained, else it is transferred. *)
AttackType == [own : BOOLEAN, targeted : BOOLEAN]

ASSUME TrainerAssumption ==
    /\ \A as \in Attacks : as \in Seq(AttackType) /\ as # <<>>
    /\ AllOfThem \subseteq BOOLEAN
    /\ NbEpochs \in Nat /\ MaxCalls \in Nat

VARIABLES
    attacks,      \* self.attacks
    all,          \* self.ratio is 1
    op,           \* the method running, or "none"
    pc,           \* where it is: "idle", "precompute", "epoch", "batch"
    calls,        \* calls so far
    pre,          \* self._precomputed_adv_samples; <<>> stands for None
    part,         \* next_precomputed_adv_samples: of which samples its images are
    ind,          \* the shuffled order
    epoch, batch_id, attack_id,
    rows,         \* what the classifier was last trained with
    count,        \* how often each sample was trained in this epoch
    uses,         \* how often each attack was used in this call
    error,        \* how the last call ended: "", "attack", "index", "data", "targeted"
    broken        \* some call was left by an exception

vars == <<generator, rest, attacks, all, op, pc, calls, pre, part, ind, epoch, batch_id,
          attack_id, rows, count, uses, error, broken>>

config == <<generator, attacks, all>>
loop == <<ind, epoch, batch_id, attack_id, rows, count, uses>>

NbBatches == Ceil

(* The samples of batch batch_id of fit, and of the precomputed images in fit_generator. *)
Chosen == Slice(ind, batch_id)

(* The number of samples replaced, and the sets of that size. *)
NbAdv(n) == IF all THEN n ELSE (n + 1) \div 2
AdvIds(n) == {ids \in SUBSET (1 .. n) : Cardinality(ids) = NbAdv(n)}

-----------------------------------------------------------------------------
(* The beginning of both methods. *)

Call(method) ==
    /\ pc = "idle" /\ calls < MaxCalls
    /\ op' = method /\ pc' = "precompute" /\ calls' = calls + 1
    /\ pre' = <<>> /\ part' = <<>>
    /\ ind' = InOrder /\ epoch' = 0 /\ batch_id' = 0 /\ attack_id' = 1
    /\ rows' = <<>> /\ count' = [s \in Samples |-> 0]
    /\ uses' = [a \in 1 .. Len(attacks) |-> 0]
    /\ error' = ""
    /\ UNCHANGED <<config, rest, broken>>

(* Any exception ends the call. *)
Leave(e) ==
    /\ pc' = "idle" /\ op' = "none" /\ error' = e /\ broken' = TRUE

-----------------------------------------------------------------------------
(* Precomputing the images of transferred attacks, one attack after the other. *)

Current == attacks[Len(pre) + 1]
Precomputing == pc = "precompute" /\ Len(pre) < Len(attacks)

(* A targeted attack is refused, after the attacks before it were precomputed. *)
Refuse ==
    /\ Precomputing /\ Current.targeted
    /\ Leave("targeted")
    /\ UNCHANGED <<config, rest, calls, pre, part, loop>>

PrecomputeNone ==
    /\ Precomputing /\ ~Current.targeted /\ Current.own
    /\ pre' = Append(pre, <<>>)
    /\ UNCHANGED <<config, rest, op, pc, calls, part, loop, error, broken>>

(* fit attacks all of x at once. *)
PrecomputeAll ==
    /\ Precomputing /\ ~Current.targeted /\ ~Current.own /\ op = "fit"
    /\ pre' = Append(pre, InOrder)
    /\ UNCHANGED <<config, rest, op, pc, calls, part, loop, error, broken>>

(* fit_generator attacks batch after batch; batch_id is the loop variable of 135. *)
PrecomputeBatch(batch) ==
    /\ Precomputing /\ ~Current.targeted /\ ~Current.own /\ op = "fit_generator"
    /\ GetBatch(batch)
    /\ IF batch_id + 1 < NbBatches
       THEN /\ part' = part \o batch /\ batch_id' = batch_id + 1
            /\ UNCHANGED pre
       ELSE /\ pre' = Append(pre, part \o batch)
            /\ part' = <<>> /\ batch_id' = 0
    /\ UNCHANGED <<config, op, pc, calls, ind, epoch, attack_id, rows, count, uses, error, broken>>

(* The attack raises; the batch is gone. *)
PrecomputeFails ==
    /\ Precomputing /\ ~Current.targeted /\ ~Current.own
    /\ IF op = "fit" THEN UNCHANGED rest ELSE \E batch \in Batches : GetBatch(batch)
    /\ Leave("attack")
    /\ UNCHANGED <<config, calls, pre, part, loop>>

Precomputed ==
    /\ pc = "precompute" /\ Len(pre) = Len(attacks)
    /\ pc' = "epoch"
    /\ UNCHANGED <<config, rest, op, calls, pre, part, loop, error, broken>>

-----------------------------------------------------------------------------
(* The epochs. *)

StartEpoch(order) ==
    /\ pc = "epoch" /\ epoch < NbEpochs
    /\ ind' = order /\ batch_id' = 0 /\ pc' = "batch"
    /\ count' = [s \in Samples |-> 0]
    /\ UNCHANGED <<config, rest, op, calls, pre, part, epoch, attack_id, rows, uses, error, broken>>

Return ==
    /\ pc = "epoch" /\ epoch = NbEpochs
    /\ pc' = "idle" /\ op' = "none"
    /\ UNCHANGED <<config, rest, calls, pre, part, loop, error, broken>>

(* fit takes its batch from the shuffled order, fit_generator from the generator. *)
TakeBatch(batch) ==
    IF op = "fit" THEN batch = Chosen /\ UNCHANGED rest ELSE GetBatch(batch)

(* A batch of clean images with their labels. *)
Clean(batch) == [j \in DOMAIN batch |-> [image |-> batch[j], by |-> 0, label |-> batch[j]]]

(* A slip: the image of the j-th sample of the data set instead of the j-th of the order. *)
ReplacementUnordered(batch, j) ==
    IF attacks[attack_id].own THEN batch[j] ELSE pre[attack_id][j]

(* Of which sample the image is that replaces row j. *)
Replacement(batch, j) ==
    IF attacks[attack_id].own THEN batch[j] ELSE pre[attack_id][Chosen[j]]

Mixed(batch, ids) ==
    [j \in DOMAIN batch |->
        IF j \in ids
        THEN [image |-> Replacement(batch, j), by |-> attack_id, label |-> batch[j]]
        ELSE Clean(batch)[j]]

(* A slip: the length the data set has here, whatever was delivered. *)
DrawableOfDataSet(batch) == Len(Chosen)

(* A slip: the last batch is counted as a full one. *)
DrawableUncapped(batch) ==
    IF attacks[attack_id].own \/ op = "fit" THEN Len(batch) ELSE BatchSize

(* The length adv_ids are drawn from: precomputed images come in the batches of the data set. *)
Drawable(batch) ==
    IF attacks[attack_id].own \/ op = "fit" THEN Len(batch) ELSE Len(Chosen)

(* A slip: the rotation starts with the first attack in every epoch. *)
NextAttackPerEpoch ==
    IF batch_id + 1 = NbBatches THEN 1 ELSE (attack_id % Len(attacks)) + 1

NextAttack == (attack_id % Len(attacks)) + 1

TrainBatch(batch, ids) ==
    /\ pc = "batch"
    /\ TakeBatch(batch)
    /\ ids \in AdvIds(Drawable(batch)) /\ ids \subseteq 1 .. Len(batch)
    /\ rows' = Mixed(batch, ids)
    /\ count' = [s \in Samples |-> count[s] + Cardinality({j \in 1 .. Len(batch) : batch[j] = s})]
    /\ uses' = [uses EXCEPT ![attack_id] = @ + 1]
    /\ attack_id' = NextAttack
    /\ IF batch_id + 1 < NbBatches
       THEN batch_id' = batch_id + 1 /\ UNCHANGED <<pc, epoch>>
       ELSE batch_id' = 0 /\ pc' = "epoch" /\ epoch' = epoch + 1
    /\ UNCHANGED <<config, op, calls, pre, part, ind, error, broken>>

(* adv_ids reach beyond a batch that is shorter than the data set has it here. *)
IndexFails(batch, ids) ==
    /\ pc = "batch"
    /\ TakeBatch(batch)
    /\ ids \in AdvIds(Drawable(batch)) /\ ~(ids \subseteq 1 .. Len(batch))
    /\ Leave("index")
    /\ UNCHANGED <<config, calls, pre, part, loop>>

(* The attack or the fit of the classifier raises; the batch is gone. *)
TrainFails(batch) ==
    /\ pc = "batch"
    /\ TakeBatch(batch)
    /\ Leave("attack")
    /\ UNCHANGED <<config, calls, pre, part, loop>>

(* A generator that ends. *)
DataFails ==
    /\ op = "fit_generator" /\ Exhausted
    /\ pc = "batch" \/ (Precomputing /\ ~Current.targeted /\ ~Current.own)
    /\ Leave("data")
    /\ UNCHANGED <<config, rest, calls, pre, part, loop>>

-----------------------------------------------------------------------------

Init ==
    /\ InitGenerator
    /\ attacks \in Attacks /\ all \in AllOfThem
    /\ op = "none" /\ pc = "idle" /\ calls = 0
    /\ pre = <<>> /\ part = <<>>
    /\ ind = InOrder /\ epoch = 0 /\ batch_id = 0 /\ attack_id = 1
    /\ rows = <<>> /\ count = [s \in Samples |-> 0]
    /\ uses = [a \in 1 .. Len(attacks) |-> 0]
    /\ error = "" /\ broken = FALSE

Next ==
    \/ \E method \in {"fit", "fit_generator"} : Call(method)
    \/ Refuse \/ PrecomputeNone \/ PrecomputeAll \/ PrecomputeFails \/ Precomputed
    \/ \E order \in Orders : StartEpoch(order)
    \/ \E batch \in Batches :
          \/ PrecomputeBatch(batch)
          \/ TrainFails(batch)
          \/ \E ids \in SUBSET (1 .. BatchSize) : TrainBatch(batch, ids) \/ IndexFails(batch, ids)
    \/ DataFails
    \/ Return

Spec == Init /\ [][Next]_vars

-----------------------------------------------------------------------------
(* Properties. *)

(* A sample and its label stay together: an image is trained with another sample's label only *)
(* in fit_generator and only if a transferred attack made it.  In fit the order that picks    *)
(* the batch must be the one that picks the precomputed images, whatever was shuffled since.  *)
OwnLabels ==
    op # "none" =>
        \A j \in DOMAIN rows :
            \/ rows[j].image = rows[j].label
            \/ op = "fit_generator" /\ rows[j].by # 0 /\ ~attacks[rows[j].by].own

(* An epoch trains every sample once: always in fit, in fit_generator whenever the generator  *)
(* keeps the incomplete batch, goes on where it stopped and the epoch ended with its own.     *)
EpochCovers ==
    (pc = "epoch" /\ epoch > 0) =>
        \/ \A s \in Samples : count[s] = 1
        \/ op = "fit_generator" /\ (generator.drop \/ generator.source = "keras" \/ rest # <<>>)

(* The rotation of the attacks goes on over the epochs: none is ahead of another by more than *)
(* one batch, and the earlier in the list is the one ahead.                                   *)
Rotated ==
    \A a, b \in DOMAIN uses : a < b => uses[a] - uses[b] \in {0, 1}

(* "Setting this value to 1 allows to train only on adversarial samples" (83): it does in fit  *)
(* and with attacks on the trained classifier; with transferred ones as long as the generator *)
(* delivers the batch lengths fit_generator counts with (175).                                *)
AllAdversarial ==
    (all /\ op # "none") =>
        \A j \in DOMAIN rows :
            \/ rows[j].by # 0
            \/ /\ op = "fit_generator" /\ (generator.drop \/ generator.source = "keras" \/ broken)
               /\ \E a \in DOMAIN attacks : ~attacks[a].own

(* A batch shorter than counted (IndexError at 188) is met only on a generator that an        *)
(* earlier call, left by an exception, stopped in the middle of an epoch.                      *)
IndexErrorNeedsBrokenCall == [][error' = "index" /\ error # "index" => broken]_vars
=============================================================================
