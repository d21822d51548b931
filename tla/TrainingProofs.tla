---------------------------- MODULE TrainingProofs ----------------------------
(***************************************************************************)
(* AdversarialTrainer for every data set, batch size, generator, number of *)
(* epochs and list of attacks.                                             *)
(***************************************************************************)
EXTENDS AdversarialTrainer, FiniteSetTheorems, TLAPS

(***************************************************************************)
(* The types the arguments below need.                                     *)
(***************************************************************************)
Typed ==
  /\ attacks \in Attacks
  /\ op \in {"none", "fit", "fit_generator"}
  /\ pre \in Seq(Seq(Samples)) /\ part \in Seq(Samples)
  /\ ind \in [Samples -> Samples]
  /\ batch_id \in Nat
  /\ attack_id \in 1 .. Len(attacks)

(***************************************************************************)
(* In fit the images of a transferred attack are in the order of the data. *)
(***************************************************************************)
PrecomputedInOrder ==
  /\ op = "fit" =>
       \A a \in 1 .. Len(pre) : ~attacks[a].own => pre[a] = InOrder
  /\ pc \in {"epoch", "batch"} => Len(pre) = Len(attacks)

(***************************************************************************)
(* The attacks before the next one are one batch ahead of the others.      *)
(***************************************************************************)
Round(k) ==
  uses = [a \in 1 .. Len(attacks) |-> IF a < attack_id THEN k + 1 ELSE k]
InRotation == \E k \in Nat : Round(k)

IInv == Typed /\ PrecomputedInOrder /\ InRotation /\ OwnLabels

(***************************************************************************)
(* A list of attacks is a sequence with at least one member.               *)
(***************************************************************************)
LEMMA AttacksAreListed ==
  ASSUME Typed
  PROVE  attacks \in Seq(AttackType) /\ Len(attacks) \in Nat /\ Len(attacks) >= 1
<1>1. attacks \in Seq(AttackType) /\ attacks # <<>>
  BY TrainerAssumption DEF Typed
<1> QED
  BY <1>1

(***************************************************************************)
(* The samples of a batch of fit are samples.                              *)
(***************************************************************************)
LEMMA ChosenAreSamples ==
  ASSUME Typed, NEW j \in DOMAIN Chosen
  PROVE  Chosen[j] \in Samples
<1> DEFINE start == batch_id * BatchSize
<1>1. Size \in Nat /\ BatchSize \in Nat /\ start \in Nat
  BY GeneratorAssumption DEF Typed
<1> HIDE DEF start
<1>2. Chosen = [i \in 1 .. Smaller(BatchSize, Size - start) |-> ind[start + i]]
  BY DEF Chosen, Slice, start
<1>3. j \in 1 .. Smaller(BatchSize, Size - start)
  BY <1>2
<1>4. start + j \in Samples
  BY <1>1, <1>3 DEF Smaller, Samples
<1> QED
  BY <1>2, <1>3, <1>4 DEF Typed

(***************************************************************************)
(* The data in their order are a sequence of samples, and so is a batch.   *)
(***************************************************************************)
LEMMA InOrderIsListed == InOrder \in Seq(Samples) /\ InOrder \in [Samples -> Samples]
<1>1. Size \in Nat
  BY GeneratorAssumption
<1>2. InOrder \in [1 .. Size -> Samples]
  BY DEF InOrder, Samples
<1> QED
  BY <1>1, <1>2 DEF Samples

LEMMA BatchesAreListed ==
  ASSUME NEW batch \in Batches
  PROVE  batch \in Seq(Samples)
BY GeneratorAssumption DEF Batches

(***************************************************************************)
(* Nothing precomputed yet.                                                *)
(***************************************************************************)
LEMMA EmptyIsListed ==
  /\ <<>> \in Seq(Seq(Samples)) /\ <<>> \in Seq(Samples)
  /\ Len(<<>>) = 0 /\ 1 .. Len(<<>>) = {} /\ DOMAIN <<>> = {}
OBVIOUS

LEMMA AppendListed ==
  ASSUME NEW S, NEW s \in Seq(S), NEW e \in S
  PROVE  Append(s, e) \in Seq(S)
OBVIOUS

(***************************************************************************)
(* The next attack is the one after this one, or the first.                *)
(***************************************************************************)
LEMMA NextAttackInRotation ==
  ASSUME Typed
  PROVE  NextAttack = IF attack_id = Len(attacks) THEN 1 ELSE attack_id + 1
<1> DEFINE L == Len(attacks)
<1>1. L \in Nat /\ L >= 1 /\ attack_id \in 1 .. L
  BY AttacksAreListed DEF Typed
<1> HIDE DEF L
<1>2. CASE attack_id = L
  <2>1. L % L = 0
    BY <1>1
  <2> QED
    BY <1>2, <2>1 DEF NextAttack, L
<1>3. CASE attack_id # L
  <2>1. attack_id \in Nat /\ attack_id < L
    BY <1>1, <1>3
  <2>2. attack_id % L = attack_id
    BY <1>1, <2>1
  <2> QED
    BY <1>3, <2>2 DEF NextAttack, L
<1> QED
  BY <1>2, <1>3

(***************************************************************************)
(* A batch uses the attack whose turn it is and leaves the others as far   *)
(* behind or ahead as they were.                                           *)
(***************************************************************************)
LEMMA TrainingRotates ==
  ASSUME Typed, InRotation, NEW batch, NEW ids, TrainBatch(batch, ids)
  PROVE  attack_id' \in 1 .. Len(attacks) /\ InRotation'
<1> DEFINE L == Len(attacks)
<1>1. L \in Nat /\ L >= 1 /\ attack_id \in 1 .. L
  BY AttacksAreListed DEF Typed
<1>2. attack_id' = IF attack_id = L THEN 1 ELSE attack_id + 1
  BY NextAttackInRotation DEF TrainBatch
<1>3. attacks' = attacks
  BY DEF TrainBatch, config
<1>4. PICK k \in Nat : Round(k)
  BY DEF InRotation
<1>5. uses' = [a \in 1 .. L |-> IF a < attack_id + 1 THEN k + 1 ELSE k]
  BY <1>1, <1>4 DEF TrainBatch, Round
<1>6. CASE attack_id = L
  <2>1. uses' = [a \in 1 .. L |-> IF a < 1 THEN (k + 1) + 1 ELSE k + 1]
    BY <1>1, <1>5, <1>6
  <2>2. Round(k + 1)'
    BY <1>2, <1>3, <1>6, <2>1 DEF Round
  <2> QED
    BY <1>1, <1>2, <1>4, <1>6, <2>2 DEF InRotation
<1>7. CASE attack_id # L
  <2>1. Round(k)'
    BY <1>2, <1>3, <1>5, <1>7 DEF Round
  <2> QED
    BY <1>1, <1>2, <1>7, <2>1 DEF InRotation
<1> QED
  BY <1>6, <1>7

(***************************************************************************)
(* A batch is trained with its own labels.                                 *)
(***************************************************************************)
LEMMA TrainingKeepsLabels ==
  ASSUME Typed, PrecomputedInOrder, NEW batch, NEW ids, TrainBatch(batch, ids)
  PROVE  OwnLabels'
<1>1. /\ rows' = Mixed(batch, ids) /\ op' = op /\ attacks' = attacks
      /\ pc = "batch" /\ TakeBatch(batch)
  BY DEF TrainBatch, config
<1>2. SUFFICES ASSUME op # "none", NEW j \in DOMAIN rows'
               PROVE  \/ rows'[j].image = rows'[j].label
                      \/ op = "fit_generator" /\ rows'[j].by # 0 /\ ~attacks[rows'[j].by].own
  BY <1>1 DEF OwnLabels
<1>3. j \in DOMAIN batch
  BY <1>1, <1>2 DEF Mixed
<1>4. CASE j \notin ids
  BY <1>1, <1>3, <1>4 DEF Mixed, Clean
<1>5. CASE j \in ids
  <2>1. rows'[j] = [image |-> Replacement(batch, j), by |-> attack_id, label |-> batch[j]]
    BY <1>1, <1>3, <1>5 DEF Mixed
  <2>2. CASE attacks[attack_id].own
    BY <2>1, <2>2 DEF Replacement
  <2>3. CASE ~attacks[attack_id].own /\ op = "fit_generator"
    BY <2>1, <2>3, AttacksAreListed DEF Typed
  <2>4. CASE ~attacks[attack_id].own /\ op = "fit"
    <3>1. batch = Chosen
      BY <1>1, <2>4 DEF TakeBatch
    <3>2. j \in DOMAIN Chosen
      BY <1>3, <3>1
    <3>3. Chosen[j] \in Samples
      BY <3>2, ChosenAreSamples
    <3>4. attack_id \in 1 .. Len(pre)
      BY <1>1 DEF Typed, PrecomputedInOrder
    <3>5. pre[attack_id] = InOrder
      BY <2>4, <3>4 DEF PrecomputedInOrder
    <3>6. Replacement(batch, j) = Chosen[j]
      BY <2>4, <3>3, <3>5 DEF Replacement, InOrder
    <3> QED
      BY <2>1, <3>1, <3>6
  <2> QED
    BY <1>2, <2>2, <2>3, <2>4 DEF Typed
<1> QED
  BY <1>4, <1>5

(***************************************************************************)
(* A call begins with the first attack and with nothing trained.           *)
(***************************************************************************)
LEMMA CallKeepsIInv ==
  ASSUME IInv, NEW method \in {"fit", "fit_generator"}, Call(method)
  PROVE  IInv'
<1>1. Typed'
  <2>1. /\ pre' = <<>> /\ part' = <<>> /\ ind' = InOrder /\ batch_id' = 0
        /\ attack_id' = 1 /\ attacks' = attacks /\ op' = method
    BY DEF Call, config
  <2>2. attacks \in Attacks /\ 1 \in 1 .. Len(attacks)
    BY AttacksAreListed DEF IInv, Typed
  <2>3. pre' \in Seq(Seq(Samples)) /\ part' \in Seq(Samples)
    BY <2>1, EmptyIsListed
  <2>4. ind' \in [Samples -> Samples]
    BY <2>1, InOrderIsListed
  <2> QED
    BY <2>1, <2>2, <2>3, <2>4 DEF Typed
<1>2. PrecomputedInOrder'
  <2>1. pre' = <<>> /\ pc' = "precompute"
    BY DEF Call
  <2> QED
    BY <2>1, EmptyIsListed DEF PrecomputedInOrder
<1>3. InRotation'
  <2>1. Round(0)'
    <3>1. /\ uses' = [a \in 1 .. Len(attacks) |-> 0]
          /\ attack_id' = 1 /\ attacks' = attacks
      BY DEF Call, config
    <3>2. \A a \in 1 .. Len(attacks) : ~(a < 1)
      BY AttacksAreListed DEF IInv
    <3> QED
      BY <3>1, <3>2 DEF Round
  <2> QED
    BY <2>1 DEF InRotation
<1>4. OwnLabels'
  <2>1. DOMAIN rows' = {}
    BY EmptyIsListed DEF Call
  <2> QED
    BY <2>1 DEF OwnLabels
<1> QED
  BY <1>1, <1>2, <1>3, <1>4 DEF IInv

(***************************************************************************)
(* Precomputing adds the images of one attack and touches nothing else.    *)
(***************************************************************************)
LEMMA PrecomputingKeepsIInv ==
  ASSUME IInv,
         \/ PrecomputeNone \/ PrecomputeAll
         \/ \E batch \in Batches : PrecomputeBatch(batch)
  PROVE  IInv'
<1>1. /\ UNCHANGED <<generator, attacks, all, op, pc, ind, attack_id, rows, uses>>
      /\ pc = "precompute"
  BY DEF PrecomputeNone, PrecomputeAll, PrecomputeBatch, Precomputing, config, loop
<1>2. Typed' /\ (pre' = pre \/ \E images \in Seq(Samples) :
                       pre' = Append(pre, images)
                       /\ (op = "fit" /\ ~Current.own => images = InOrder))
  <2>1. CASE PrecomputeNone
    <3>1. pre' = Append(pre, <<>>) /\ part' = part /\ batch_id' = batch_id /\ Current.own
      BY <2>1 DEF PrecomputeNone, loop
    <3>2. Append(pre, <<>>) \in Seq(Seq(Samples))
      BY EmptyIsListed, AppendListed DEF IInv, Typed
    <3>3. Typed'
      BY <1>1, <3>1, <3>2 DEF IInv, Typed
    <3> QED
      BY <3>1, <3>3, EmptyIsListed
  <2>2. CASE PrecomputeAll
    BY <2>2, <1>1, InOrderIsListed DEF PrecomputeAll, loop, IInv, Typed
  <2>3. ASSUME NEW batch \in Batches, PrecomputeBatch(batch) PROVE <1>2!1 /\ <1>2!2
    <3>1. batch \in Seq(Samples) /\ part \o batch \in Seq(Samples)
      BY BatchesAreListed DEF IInv, Typed
    <3>2. op = "fit_generator"
      BY <2>3 DEF PrecomputeBatch
    <3>3. CASE batch_id + 1 < NbBatches
      <4>1. /\ part' = part \o batch /\ batch_id' = batch_id + 1 /\ pre' = pre
        BY <2>3, <3>3 DEF PrecomputeBatch
      <4> QED
        BY <1>1, <3>1, <4>1 DEF IInv, Typed
    <3>4. CASE ~(batch_id + 1 < NbBatches)
      <4>1. /\ pre' = Append(pre, part \o batch) /\ part' = <<>> /\ batch_id' = 0
        BY <2>3, <3>4 DEF PrecomputeBatch
      <4>2. pre' \in Seq(Seq(Samples)) /\ part' \in Seq(Samples)
        BY <3>1, <4>1, EmptyIsListed, AppendListed DEF IInv, Typed
      <4>3. Typed'
        BY <1>1, <4>1, <4>2 DEF IInv, Typed
      <4> QED
        BY <3>1, <3>2, <4>1, <4>3
    <3> QED
      BY <3>3, <3>4
  <2> QED
    BY <2>1, <2>2, <2>3
<1>3. PrecomputedInOrder'
  <2>1. CASE pre' = pre
    BY <1>1, <2>1 DEF PrecomputedInOrder, IInv
  <2>2. ASSUME NEW images \in Seq(Samples), pre' = Append(pre, images),
               op = "fit" /\ ~Current.own => images = InOrder
        PROVE  PrecomputedInOrder'
    <3>1. pre \in Seq(Seq(Samples)) /\ Len(pre) \in Nat
      BY DEF IInv, Typed
    <3>2. Len(pre') = Len(pre) + 1 /\ pre'[Len(pre) + 1] = images
      BY <2>2, <3>1
    <3>3. \A a \in 1 .. Len(pre) : pre'[a] = pre[a]
      BY <2>2, <3>1
    <3>4. ASSUME op = "fit", NEW a \in 1 .. Len(pre'), ~attacks[a].own
          PROVE  pre'[a] = InOrder
      <4>1. CASE a = Len(pre) + 1
        BY <2>2, <3>2, <3>4, <4>1 DEF Current
      <4>2. CASE a \in 1 .. Len(pre)
        BY <3>3, <3>4, <4>2 DEF IInv, PrecomputedInOrder
      <4> QED
        BY <3>1, <3>2, <4>1, <4>2
    <3> QED
      BY <1>1, <3>4 DEF PrecomputedInOrder
  <2> QED
    BY <1>2, <2>1, <2>2
<1>4. InRotation' /\ OwnLabels'
  BY <1>1 DEF IInv, InRotation, Round, OwnLabels
<1> QED
  BY <1>2, <1>3, <1>4 DEF IInv

(***************************************************************************)
(* The call ends, by an exception or by its return.                        *)
(***************************************************************************)
LEMMA EndingKeepsIInv ==
  ASSUME IInv, op' = "none", pc' = "idle",
         UNCHANGED <<attacks, pre, part, ind, batch_id, attack_id, uses>>
  PROVE  IInv'
BY DEF IInv, Typed, PrecomputedInOrder, InRotation, Round, OwnLabels

(***************************************************************************)
(* Every step keeps the invariant.                                         *)
(***************************************************************************)
LEMMA Keeps == IInv /\ [Next]_vars => IInv'
<1> SUFFICES ASSUME IInv, [Next]_vars
             PROVE  IInv'
  OBVIOUS
<1>1. ASSUME NEW method \in {"fit", "fit_generator"}, Call(method)
      PROVE  IInv'
  BY <1>1, CallKeepsIInv
<1>2. CASE PrecomputeNone \/ PrecomputeAll \/ \E batch \in Batches : PrecomputeBatch(batch)
  BY <1>2, PrecomputingKeepsIInv
<1>3. CASE Refuse \/ PrecomputeFails \/ DataFails \/ Return
  BY <1>3, EndingKeepsIInv
     DEF Refuse, PrecomputeFails, DataFails, Return, Leave, config, loop
<1>4. ASSUME NEW batch \in Batches, TrainFails(batch)
      PROVE  IInv'
  BY <1>4, EndingKeepsIInv DEF TrainFails, Leave, config, loop
<1>5. ASSUME NEW batch \in Batches, NEW ids, IndexFails(batch, ids)
      PROVE  IInv'
  BY <1>5, EndingKeepsIInv DEF IndexFails, Leave, config, loop
<1>6. CASE Precomputed
  BY <1>6 DEF Precomputed, config, loop, IInv, Typed, PrecomputedInOrder, InRotation, Round, OwnLabels
<1>7. ASSUME NEW order \in Orders, StartEpoch(order)
      PROVE  IInv'
  <2>1. order \in [Samples -> Samples]
    BY DEF Orders
  <2> QED
    BY <1>7, <2>1 DEF StartEpoch, config, IInv, Typed, PrecomputedInOrder, InRotation, Round, OwnLabels
<1>8. ASSUME NEW batch \in Batches, NEW ids, TrainBatch(batch, ids)
      PROVE  IInv'
  <2>1. attack_id' \in 1 .. Len(attacks) /\ InRotation' /\ OwnLabels'
    BY <1>8, TrainingRotates, TrainingKeepsLabels DEF IInv
  <2>2. /\ UNCHANGED <<attacks, op, pre, part, ind>>
        /\ pc = "batch" /\ pc' \in {"epoch", "batch"} /\ batch_id' \in Nat
    BY <1>8 DEF TrainBatch, config, IInv, Typed
  <2>3. Typed' /\ PrecomputedInOrder'
    BY <2>1, <2>2 DEF IInv, Typed, PrecomputedInOrder
  <2> QED
    BY <2>1, <2>3 DEF IInv
<1>9. CASE UNCHANGED vars
  BY <1>9 DEF vars, IInv, Typed, PrecomputedInOrder, InRotation, Round, OwnLabels
<1> QED
  BY <1>1, <1>2, <1>3, <1>4, <1>5, <1>6, <1>7, <1>8, <1>9 DEF Next

(***************************************************************************)
(* It holds at the start.                                                  *)
(***************************************************************************)
LEMMA Starts == Init => IInv
<1> SUFFICES ASSUME Init PROVE IInv
  OBVIOUS
<1>1. attacks \in Seq(AttackType) /\ Len(attacks) \in Nat /\ Len(attacks) >= 1
  <2>1. attacks \in Seq(AttackType) /\ attacks # <<>>
    BY TrainerAssumption DEF Init
  <2> QED
    BY <2>1
<1>2. Typed
  <2>1. pre \in Seq(Seq(Samples)) /\ part \in Seq(Samples)
    BY EmptyIsListed DEF Init
  <2>2. attacks \in Attacks /\ attack_id = 1 /\ batch_id = 0 /\ op = "none" /\ ind = InOrder
    BY DEF Init
  <2>3. attack_id \in 1 .. Len(attacks) /\ batch_id \in Nat
    BY <1>1, <2>2
  <2> QED
    BY <2>1, <2>2, <2>3, InOrderIsListed DEF Typed
<1>3. Round(0)
  <2>1. \A a \in 1 .. Len(attacks) : ~(a < 1)
    BY <1>1
  <2> QED
    BY <2>1 DEF Init, Round
<1>4. PrecomputedInOrder /\ OwnLabels
  BY DEF Init, PrecomputedInOrder, OwnLabels
<1> QED
  BY <1>2, <1>3, <1>4 DEF IInv, InRotation

(***************************************************************************)
(* In fit, whatever the order was shuffled to and whichever attack's turn  *)
(* it is, and in fit_generator with attacks on the trained classifier, a   *)
(* sample is trained with its own label, adversarial or not.               *)
(***************************************************************************)
THEOREM OwnLabelsAlways == Spec => []OwnLabels
<1>1. IInv => OwnLabels
  BY DEF IInv
<1> QED
  BY <1>1, Starts, Keeps, PTL DEF Spec

(***************************************************************************)
(* No attack is used more than one batch more often than another in a      *)
(* call, over all the epochs of it.                                        *)
(***************************************************************************)
THEOREM RotatedAlways == Spec => []Rotated
<1>1. IInv => Rotated
  <2> SUFFICES ASSUME IInv, NEW a \in DOMAIN uses, NEW b \in DOMAIN uses, a < b
               PROVE  uses[a] - uses[b] \in {0, 1}
    BY DEF Rotated
  <2>1. PICK k \in Nat : Round(k)
    BY DEF IInv, InRotation
  <2>2. attack_id \in Nat /\ a \in Nat /\ b \in Nat
    BY <2>1, AttacksAreListed DEF IInv, Typed, Round
  <2> QED
    BY <2>1, <2>2 DEF Round
<1> QED
  BY <1>1, Starts, Keeps, PTL DEF Spec
-----------------------------------------------------------------------------
(***************************************************************************)
(* The second argument: what the generator delivers and what fit_generator *)
(* counts with.  The i-th batch of an epoch that keeps the incomplete one  *)
(* has the length below, in whatever order the samples are.                *)
(***************************************************************************)
Length(i) == Smaller(BatchSize, Size - i * BatchSize)

(***************************************************************************)
(* An epoch has at least one batch, all but the last are full, and none is *)
(* empty.                                                                  *)
(***************************************************************************)
LEMMA BatchCounts ==
  /\ Floor \in Nat /\ Ceil \in Nat /\ 1 <= Floor /\ Floor <= Ceil
  /\ \A i \in 0 .. Floor - 1 : Length(i) = BatchSize
  /\ \A i \in 0 .. Ceil - 1 : Length(i) \in 1 .. BatchSize
<1> DEFINE b == BatchSize
<1>1. Size \in Nat /\ b \in Nat /\ 1 <= b /\ b <= Size
  BY GeneratorAssumption
<1>2. /\ Floor \in Nat /\ Floor * b <= Size /\ Size < Floor * b + b
      /\ Ceil \in Nat /\ Ceil * b <= Size + b - 1 /\ Size <= Ceil * b
  BY <1>1 DEF Floor, Ceil
<1>3. ASSUME NEW x \in Nat, NEW y \in Nat, x <= y PROVE x * b <= y * b
  BY <1>1, <1>3
<1>4. 1 <= Floor
  <2>1. CASE Floor = 0
    BY <1>1, <1>2, <2>1
  <2> QED
    BY <1>2, <2>1
<1>5. Floor <= Ceil
  <2> SUFFICES ASSUME Ceil + 1 <= Floor PROVE FALSE
    BY <1>2
  <2>1. (Ceil + 1) * b <= Floor * b
    BY <1>2, <1>3
  <2>2. (Ceil + 1) * b = Ceil * b + b
    BY <1>1, <1>2
  <2>3. Ceil * b + b <= Size /\ Size <= Ceil * b
    BY <1>1, <1>2, <2>1, <2>2
  <2> QED
    BY <1>1, <1>2, <2>3
<1>6. ASSUME NEW i \in 0 .. Floor - 1 PROVE Length(i) = BatchSize
  <2>1. i \in Nat /\ i + 1 <= Floor
    BY <1>2
  <2>2. (i + 1) * b <= Floor * b
    BY <1>2, <1>3, <2>1
  <2>3. (i + 1) * b = i * b + b
    BY <1>1, <2>1
  <2>4. b <= Size - i * b
    BY <1>1, <1>2, <2>1, <2>2, <2>3
  <2> QED
    BY <2>4 DEF Length, Smaller
<1>7. ASSUME NEW i \in 0 .. Ceil - 1 PROVE Length(i) \in 1 .. BatchSize
  <2>1. i \in Nat /\ i + 1 <= Ceil
    BY <1>2
  <2>2. (i + 1) * b <= Ceil * b
    BY <1>2, <1>3, <2>1
  <2>3. (i + 1) * b = i * b + b
    BY <1>1, <2>1
  <2>4. 1 <= Size - i * b /\ Size - i * b \in Nat
    BY <1>1, <1>2, <2>1, <2>2, <2>3
  <2> QED
    BY <1>1, <2>4 DEF Length, Smaller
<1> QED
  BY <1>2, <1>4, <1>5, <1>6, <1>7

(***************************************************************************)
(* The length of a batch does not depend on the order.                     *)
(***************************************************************************)
LEMMA SliceLength ==
  ASSUME NEW o \in [Samples -> Samples], NEW i \in 0 .. Ceil - 1
  PROVE  /\ Slice(o, i) \in Seq(Samples)
         /\ DOMAIN Slice(o, i) = 1 .. Length(i) /\ Len(Slice(o, i)) = Length(i)
<1>1. Length(i) \in 1 .. BatchSize /\ BatchSize \in Nat /\ Size \in Nat /\ Ceil \in Nat
  BY BatchCounts, GeneratorAssumption
<1>2. Slice(o, i) = [j \in 1 .. Length(i) |-> o[i * BatchSize + j]]
  BY DEF Slice, Length
<1>3. ASSUME NEW j \in 1 .. Length(i) PROVE i * BatchSize + j \in Samples
  <2> DEFINE d == i * BatchSize
  <2>1. i \in Nat /\ d \in Nat
    BY <1>1
  <2>2. Length(i) = IF BatchSize <= Size - d THEN BatchSize ELSE Size - d
    BY DEF Length, Smaller
  <2> HIDE DEF d
  <2>3. j \in Nat /\ 1 <= j /\ j <= Size - d
    BY <1>1, <1>3, <2>1, <2>2
  <2>4. d + j \in 1 .. Size
    BY <1>1, <2>1, <2>3
  <2> QED
    BY <2>4 DEF Samples, d
<1>4. Slice(o, i) \in [1 .. Length(i) -> Samples]
  BY <1>2, <1>3
<1>5. Length(i) \in Nat
  BY <1>1
<1> QED
  BY <1>2, <1>4, <1>5

(***************************************************************************)
(* An epoch has its batches in these lengths.                              *)
(***************************************************************************)
LEMMA EpochLengths ==
  ASSUME NEW e \in Epochs, generator \in GeneratorType
  PROVE  /\ e \in Seq(Seq(Samples)) /\ e # <<>> /\ Len(e) = BatchesPerEpoch
         /\ \A i \in 1 .. Len(e) : Len(e[i]) = Length(i - 1)
<1>1. PICK o \in Orders \cup {InOrder} : e = [i \in 1 .. BatchesPerEpoch |-> Slice(o, i - 1)]
  BY DEF Epochs
<1>2. o \in [Samples -> Samples]
  BY InOrderIsListed DEF Orders
<1>3. BatchesPerEpoch \in Nat /\ 1 <= BatchesPerEpoch /\ BatchesPerEpoch <= Ceil /\ Ceil \in Nat
  BY BatchCounts DEF BatchesPerEpoch
<1>4. ASSUME NEW i \in 1 .. BatchesPerEpoch
      PROVE  Slice(o, i - 1) \in Seq(Samples) /\ Len(Slice(o, i - 1)) = Length(i - 1)
  <2>1. i - 1 \in 0 .. Ceil - 1
    BY <1>3
  <2> QED
    BY <1>2, <2>1, SliceLength
<1>5. e \in [1 .. BatchesPerEpoch -> Seq(Samples)]
  BY <1>1, <1>4
<1>6. e \in Seq(Seq(Samples)) /\ Len(e) = BatchesPerEpoch
  BY <1>3, <1>5
<1> QED
  BY <1>1, <1>3, <1>4, <1>6

(***************************************************************************)
(* The types this argument needs; a generator that leaves the incomplete   *)
(* batch out has full batches only.                                        *)
(***************************************************************************)
Delivering ==
  /\ generator \in GeneratorType /\ all \in BOOLEAN /\ broken \in BOOLEAN
  /\ rest \in Seq(Seq(Samples))
  /\ batch_id \in 0 .. Ceil - 1
  /\ generator.drop => \A i \in 1 .. Len(rest) : Len(rest[i]) = BatchSize

\* batch_id counts batches within an epoch, or within the precomputing of an attack.
Between ==
  /\ pc = "idle" <=> op = "none"
  /\ pc = "epoch" => batch_id = 0
  /\ (pc = "precompute" /\ batch_id # 0) =>
         Precomputing /\ ~Current.own /\ op = "fit_generator"

(***************************************************************************)
(* Unless the generator counts otherwise or was stopped in the middle, it  *)
(* is where fit_generator believes it to be: at batch_id within the call,  *)
(* at the end of an epoch otherwise.                                       *)
(***************************************************************************)
Exempt == generator.source = "keras" \/ generator.drop \/ broken
Position == IF op = "fit_generator" THEN batch_id ELSE 0
InStep ==
  \/ Exempt
  \/ rest = <<>> /\ Position = 0
  \/ /\ Len(rest) = Ceil - Position
     /\ \A i \in 1 .. Len(rest) : Len(rest[i]) = Length(Position + i - 1)

AInv == IInv /\ Delivering /\ Between /\ InStep /\ AllAdversarial

(***************************************************************************)
(* What a call of get_batch delivers and leaves, wherever the iterator is. *)
(***************************************************************************)
LEMMA EpochOfDropping ==
  ASSUME NEW e \in Epochs, generator \in GeneratorType, generator.drop
  PROVE  \A i \in 1 .. Len(e) : Len(e[i]) = BatchSize
<1>1. Len(e) = Floor /\ \A i \in 1 .. Len(e) : Len(e[i]) = Length(i - 1)
  BY EpochLengths DEF BatchesPerEpoch
<1>2. \A i \in 1 .. Floor : i - 1 \in 0 .. Floor - 1
  BY BatchCounts
<1> QED
  BY <1>1, <1>2, BatchCounts

LEMMA HeadAndTail ==
  ASSUME NEW S, NEW s \in Seq(S), s # <<>>
  PROVE  /\ Len(s) >= 1 /\ Head(s) = s[1] /\ Head(s) \in S /\ Tail(s) \in Seq(S)
         /\ Len(Tail(s)) = Len(s) - 1
         /\ \A i \in 1 .. Len(Tail(s)) : Tail(s)[i] = s[i + 1] /\ i + 1 \in 1 .. Len(s)
OBVIOUS

LEMMA Delivered ==
  ASSUME Delivering, NEW batch, GetBatch(batch)
  PROVE  /\ rest' \in Seq(Seq(Samples)) /\ batch \in Seq(Samples)
         /\ generator.drop => /\ Len(batch) = BatchSize
                              /\ \A i \in 1 .. Len(rest') : Len(rest'[i]) = BatchSize
         /\ generator.source = "keras" => Len(batch) = BatchSize
<1>1. CASE generator.source # "keras" /\ FromCurrent(batch)
  <2>1. rest # <<>> /\ batch = Head(rest) /\ rest' = Tail(rest)
    BY <1>1 DEF FromCurrent
  <2>2. /\ Len(rest) >= 1 /\ batch = rest[1] /\ batch \in Seq(Samples)
        /\ rest' \in Seq(Seq(Samples))
        /\ \A i \in 1 .. Len(rest') : rest'[i] = rest[i + 1] /\ i + 1 \in 1 .. Len(rest)
    BY <2>1, HeadAndTail DEF Delivering
  <2>3. 1 \in 1 .. Len(rest)
    BY <2>2 DEF Delivering
  <2> QED
    BY <1>1, <2>2, <2>3 DEF Delivering
<1>2. ASSUME NEW e \in Epochs, batch = Head(e), rest' \in {Tail(e), rest}
      PROVE  /\ rest' \in Seq(Seq(Samples)) /\ batch \in Seq(Samples)
             /\ Len(batch) = BatchSize
             /\ generator.drop => \A i \in 1 .. Len(rest') : Len(rest'[i]) = BatchSize
  <2>1. /\ e \in Seq(Seq(Samples)) /\ e # <<>>
        /\ \A i \in 1 .. Len(e) : Len(e[i]) = Length(i - 1)
    BY EpochLengths DEF Delivering
  <2>2. /\ Len(e) >= 1 /\ batch = e[1] /\ batch \in Seq(Samples) /\ Tail(e) \in Seq(Seq(Samples))
        /\ \A i \in 1 .. Len(Tail(e)) : Tail(e)[i] = e[i + 1] /\ i + 1 \in 1 .. Len(e)
    BY <1>2, <2>1, HeadAndTail
  <2>3. 1 \in 1 .. Len(e) /\ Length(0) = BatchSize
    <3>1. Len(e) \in Nat /\ 0 \in 0 .. Floor - 1
      BY <2>1, BatchCounts
    <3> QED
      BY <2>2, <3>1, BatchCounts
  <2>4. Len(batch) = BatchSize
    BY <2>1, <2>2, <2>3
  <2>5. generator.drop => \A i \in 1 .. Len(Tail(e)) : Len(Tail(e)[i]) = BatchSize
    BY <2>2, EpochOfDropping DEF Delivering
  <2>6. CASE rest' = Tail(e)
    BY <2>2, <2>4, <2>5, <2>6
  <2>7. CASE rest' = rest
    BY <2>2, <2>4, <2>7 DEF Delivering
  <2> QED
    BY <1>2, <2>6, <2>7
<1>3. CASE generator.source \in {"numpy", "loader"} /\ rest = <<>> /\ FromNew(batch)
  BY <1>2, <1>3 DEF FromNew
<1>4. CASE generator.source = "keras" /\ (\E e \in Epochs : batch = Head(e)) /\ UNCHANGED rest
  BY <1>2, <1>4
<1> QED
  BY <1>1, <1>3, <1>4 DEF GetBatch

(***************************************************************************)
(* In step, the batch is the one counted with, and the generator goes on.  *)
(***************************************************************************)
LEMMA DeliveredInTurn ==
  ASSUME Delivering, InStep, ~Exempt, op = "fit_generator", NEW batch, GetBatch(batch)
  PROVE  /\ Len(batch) = Length(batch_id)
         /\ Len(rest') = Ceil - (batch_id + 1)
         /\ \A i \in 1 .. Len(rest') : Len(rest'[i]) = Length(batch_id + i)
<1>0. batch_id \in Nat /\ Ceil \in Nat
  BY BatchCounts DEF Delivering
<1>1. ASSUME NEW s \in Seq(Seq(Samples)), s # <<>>, batch = Head(s), rest' = Tail(s),
             Len(s) = Ceil - batch_id,
             \A i \in 1 .. Len(s) : Len(s[i]) = Length(batch_id + i - 1)
      PROVE  /\ Len(batch) = Length(batch_id)
             /\ Len(rest') = Ceil - (batch_id + 1)
             /\ \A i \in 1 .. Len(rest') : Len(rest'[i]) = Length(batch_id + i)
  <2>1. /\ Len(s) >= 1 /\ Len(s) \in Nat /\ batch = s[1] /\ Len(rest') = Len(s) - 1
        /\ \A i \in 1 .. Len(rest') : rest'[i] = s[i + 1] /\ i + 1 \in 1 .. Len(s)
    BY <1>1, HeadAndTail
  <2>2. 1 \in 1 .. Len(s) /\ batch_id + 1 - 1 = batch_id
    BY <1>0, <2>1
  <2>3. \A i \in 1 .. Len(rest') : batch_id + (i + 1) - 1 = batch_id + i
    BY <1>0
  <2> QED
    BY <1>0, <1>1, <2>1, <2>2, <2>3
<1>2. CASE FromCurrent(batch)
  <2>1. rest # <<>> /\ batch = Head(rest) /\ rest' = Tail(rest) /\ rest \in Seq(Seq(Samples))
    BY <1>2 DEF FromCurrent, Delivering
  <2>2. Len(rest) = Ceil - batch_id /\ \A i \in 1 .. Len(rest) : Len(rest[i]) = Length(batch_id + i - 1)
    BY <2>1 DEF InStep, Position
  <2> QED
    BY <1>1, <2>1, <2>2
<1>3. CASE rest = <<>> /\ FromNew(batch)
  <2>1. PICK e \in Epochs : batch = Head(e) /\ rest' = Tail(e)
    BY <1>3 DEF FromNew
  <2>2. batch_id = 0
    <3>1. rest = <<>> /\ Len(rest) = 0
      BY <1>3, EmptyIsListed
    <3>2. batch_id # Ceil
      BY <1>0 DEF Delivering
    <3> QED
      BY <1>0, <3>1, <3>2 DEF InStep, Position
  <2>3. /\ e \in Seq(Seq(Samples)) /\ e # <<>> /\ Len(e) = Ceil
        /\ \A i \in 1 .. Len(e) : Len(e[i]) = Length(i - 1)
    BY EpochLengths DEF Delivering, Exempt, BatchesPerEpoch
  <2>4. /\ Len(e) = Ceil - batch_id
        /\ \A i \in 1 .. Len(e) : batch_id + i - 1 = i - 1
    BY <1>0, <2>2, <2>3
  <2> QED
    BY <1>1, <2>1, <2>3, <2>4
<1> QED
  BY <1>2, <1>3 DEF GetBatch, Exempt

LEMMA AdvanceKeepsStep ==
  ASSUME Delivering, InStep, op = "fit_generator", NEW batch, GetBatch(batch),
         UNCHANGED <<generator, all, broken, op>>,
         batch_id' = IF batch_id + 1 < NbBatches THEN batch_id + 1 ELSE 0
  PROVE  Delivering' /\ InStep'
<1>0. batch_id \in Nat /\ Ceil \in Nat /\ batch_id + 1 <= Ceil /\ 1 <= Ceil
  BY BatchCounts DEF Delivering
<1>1. batch_id' \in 0 .. Ceil - 1
  BY <1>0 DEF NbBatches
<1>2. Delivering'
  <2>1. rest' \in Seq(Seq(Samples))
    BY Delivered
  <2>2. generator'.drop => \A i \in 1 .. Len(rest') : Len(rest'[i]) = BatchSize
    BY Delivered
  <2>3. generator' = generator /\ all' = all /\ broken' = broken /\ Ceil' = Ceil
    BY DEF Ceil
  <2> QED
    BY <1>1, <2>1, <2>2, <2>3 DEF Delivering
<1>3. CASE Exempt
  BY <1>2, <1>3 DEF Exempt, InStep
<1>4. CASE ~Exempt
  <2>1. /\ Len(rest') = Ceil - (batch_id + 1)
        /\ \A i \in 1 .. Len(rest') : Len(rest'[i]) = Length(batch_id + i)
    BY <1>4, DeliveredInTurn
  <2>2. CASE batch_id + 1 < Ceil
    <3>1. Position' = batch_id + 1
      BY <2>2 DEF Position, NbBatches
    <3>2. ASSUME NEW i \in 1 .. Len(rest')
          PROVE  Len(rest'[i]) = Length(Position' + i - 1)
      <4>1. (batch_id + 1) + i - 1 = batch_id + i
        BY <1>0
      <4> QED
        BY <2>1, <3>1, <4>1
    <3>3. Len(rest') = Ceil' - Position'
      BY <2>1, <3>1 DEF Ceil
    <3> QED
      BY <1>2, <3>2, <3>3 DEF InStep, Length, Smaller
  <2>3. CASE ~(batch_id + 1 < Ceil)
    <3>1. Position' = 0 /\ Len(rest') = 0
      BY <1>0, <2>1, <2>3 DEF Position, NbBatches
    <3>2. rest' = <<>>
      BY <1>2, <3>1 DEF Delivering
    <3> QED
      BY <1>2, <3>1, <3>2 DEF InStep
  <2> QED
    BY <2>2, <2>3
<1> QED
  BY <1>2, <1>3, <1>4

(***************************************************************************)
(* As many rows are replaced as there are: then all of them are.           *)
(***************************************************************************)
LEMMA AllAreDrawn ==
  ASSUME all, NEW n \in Nat, NEW ids \in AdvIds(n)
  PROVE  ids = 1 .. n
<1>1. ids \subseteq 1 .. n /\ Cardinality(ids) = n
  BY DEF AdvIds, NbAdv
<1>2. IsFiniteSet(1 .. n) /\ Cardinality(1 .. n) = n
  <2>1. 1 .. n \in SUBSET Int
    OBVIOUS
  <2> QED
    BY FS_Interval
<1> QED
  BY <1>1, <1>2, FS_Subset

(***************************************************************************)
(* A batch that is taken in training is a sequence, and a batch of fit as  *)
(* long as the length drawn from.                                          *)
(***************************************************************************)
LEMMA Taken ==
  ASSUME Typed, Delivering, NEW batch, TakeBatch(batch)
  PROVE  /\ batch \in Seq(Samples) /\ Len(batch) \in Nat /\ DOMAIN batch = 1 .. Len(batch)
         /\ Len(Chosen) = Length(batch_id) /\ Length(batch_id) \in 1 .. BatchSize
<1>1. ind \in [Samples -> Samples] /\ batch_id \in 0 .. Ceil - 1
  BY DEF Typed, Delivering
<1>2. Chosen \in Seq(Samples) /\ Len(Chosen) = Length(batch_id)
  BY <1>1, SliceLength DEF Chosen
<1>3. batch \in Seq(Samples)
  BY <1>2, Delivered DEF TakeBatch
<1> QED
  BY <1>1, <1>2, <1>3, BatchCounts

(***************************************************************************)
(* In training, the length drawn from is that of the batch, unless a       *)
(* transferred attack meets a generator that counts otherwise; and full    *)
(* batches are never shorter.                                              *)
(***************************************************************************)
LEMMA DrawnFromBatch ==
  ASSUME Typed, Delivering, InStep, op # "none", NEW batch, TakeBatch(batch)
  PROVE  /\ Drawable(batch) \in Nat
         /\ \/ Drawable(batch) = Len(batch)
            \/ op = "fit_generator" /\ Exempt /\ ~attacks[attack_id].own
         /\ broken \/ Drawable(batch) <= Len(batch)
<1>1. /\ Len(batch) \in Nat /\ Len(Chosen) = Length(batch_id) /\ Length(batch_id) \in 1 .. BatchSize
      /\ BatchSize \in Nat
  BY Taken, GeneratorAssumption
<1>2. CASE attacks[attack_id].own \/ op = "fit"
  BY <1>1, <1>2 DEF Drawable
<1>3. CASE ~attacks[attack_id].own /\ op = "fit_generator"
  <2>1. Drawable(batch) = Length(batch_id) /\ GetBatch(batch)
    BY <1>1, <1>3 DEF Drawable, TakeBatch
  <2>2. CASE ~Exempt
    BY <1>1, <1>3, <2>1, <2>2, DeliveredInTurn
  <2>3. CASE Exempt
    <3>1. broken \/ Len(batch) = BatchSize
      BY <2>1, <2>3, Delivered DEF Exempt
    <3> QED
      BY <1>1, <1>3, <2>1, <2>3, <3>1
  <2> QED
    BY <2>2, <2>3
<1> QED
  BY <1>2, <1>3 DEF Typed

(***************************************************************************)
(* With a ratio of 1 every row is replaced where the lengths agree.        *)
(***************************************************************************)
LEMMA TrainingReplacesAll ==
  ASSUME Typed, Delivering, InStep, NEW batch, NEW ids, TrainBatch(batch, ids)
  PROVE  AllAdversarial'
<1>1. /\ rows' = Mixed(batch, ids) /\ UNCHANGED <<generator, attacks, all, op, broken>>
      /\ TakeBatch(batch) /\ ids \in AdvIds(Drawable(batch))
  BY DEF TrainBatch, config
<1>2. SUFFICES ASSUME all, op # "none", NEW j \in DOMAIN rows'
               PROVE  \/ rows'[j].by # 0
                      \/ /\ op = "fit_generator"
                         /\ generator.drop \/ generator.source = "keras" \/ broken
                         /\ \E a \in DOMAIN attacks : ~attacks[a].own
  BY <1>1 DEF AllAdversarial
<1>3. /\ j \in DOMAIN batch /\ DOMAIN batch = 1 .. Len(batch)
      /\ attack_id \in DOMAIN attacks /\ attack_id # 0
  BY <1>1, Taken, AttacksAreListed DEF Mixed, Typed
<1>4. CASE Drawable(batch) = Len(batch)
  <2>1. ids = 1 .. Len(batch)
    BY <1>1, <1>2, <1>4, AllAreDrawn, DrawnFromBatch
  <2>2. rows'[j].by = attack_id
    BY <1>1, <1>3, <2>1 DEF Mixed
  <2> QED
    BY <1>3, <2>2
<1>5. CASE Drawable(batch) # Len(batch)
  <2>1. op = "fit_generator" /\ Exempt /\ ~attacks[attack_id].own
    BY <1>1, <1>2, <1>5, DrawnFromBatch
  <2> QED
    BY <1>3, <2>1 DEF Exempt
<1> QED
  BY <1>4, <1>5

(***************************************************************************)
(* Every step keeps the generator in step, or breaks the call.             *)
(***************************************************************************)
LEMMA StepStarts == Init => AInv
<1> SUFFICES ASSUME Init PROVE AInv
  OBVIOUS
<1>1. /\ generator \in GeneratorType /\ all \in BOOLEAN /\ broken = FALSE
      /\ batch_id = 0 /\ op = "none" /\ pc = "idle" /\ rows = <<>>
  BY GeneratorAssumption, TrainerAssumption DEF Init, InitGenerator
<1>2. 0 \in 0 .. Ceil - 1 /\ Ceil \in Nat
  BY BatchCounts
<1>3. CASE rest = <<>>
  <2>1. rest \in Seq(Seq(Samples)) /\ Len(rest) = 0 /\ 1 .. Len(rest) = {}
    BY <1>3, EmptyIsListed
  <2> QED
    BY <1>1, <1>2, <1>3, <2>1, Starts
       DEF AInv, Delivering, Between, InStep, Position, AllAdversarial
<1>4. CASE rest \in Epochs
  <2>1. /\ rest \in Seq(Seq(Samples)) /\ Len(rest) = BatchesPerEpoch
        /\ \A i \in 1 .. Len(rest) : Len(rest[i]) = Length(i - 1)
    BY <1>1, <1>4, EpochLengths
  <2>2. generator.drop => \A i \in 1 .. Len(rest) : Len(rest[i]) = BatchSize
    BY <1>1, <1>4, EpochOfDropping
  <2>3. Delivering
    BY <1>1, <1>2, <2>1, <2>2 DEF Delivering
  <2>4. InStep
    <3>1. CASE generator.drop
      BY <3>1 DEF InStep, Exempt
    <3>2. CASE ~generator.drop
      <4>1. Position = 0 /\ Len(rest) = Ceil - Position
        BY <1>1, <1>2, <2>1, <3>2 DEF Position, BatchesPerEpoch
      <4>2. \A i \in 1 .. Len(rest) : Position + i - 1 = i - 1
        BY <4>1
      <4> QED
        BY <2>1, <4>1, <4>2 DEF InStep
    <3> QED
      BY <3>1, <3>2
  <2> QED
    BY <1>1, <2>3, <2>4, Starts DEF AInv, Between, AllAdversarial
<1> QED
  BY <1>3, <1>4 DEF Init, InitGenerator

LEMMA StillInStep ==
  ASSUME Delivering, InStep, UNCHANGED <<generator, all, broken, rest>>,
         batch_id' \in 0 .. Ceil - 1, Position' = Position
  PROVE  Delivering' /\ InStep'
BY DEF Delivering, InStep, Exempt, Ceil, Length, Smaller

(***************************************************************************)
(* A call that raises, whatever it took from the generator.                *)
(***************************************************************************)
LEMMA LeavingKeepsStep ==
  ASSUME Delivering, UNCHANGED <<generator, all, batch_id, rows>>, NEW e, Leave(e),
         UNCHANGED rest \/ \E batch : GetBatch(batch)
  PROVE  Delivering' /\ Between' /\ InStep' /\ AllAdversarial'
<1>1. rest' \in Seq(Seq(Samples)) /\ (generator.drop => \A i \in 1 .. Len(rest') : Len(rest'[i]) = BatchSize)
  <2>1. CASE UNCHANGED rest
    BY <2>1 DEF Delivering
  <2>2. CASE \E batch : GetBatch(batch)
    BY <2>2, Delivered
  <2> QED
    BY <2>1, <2>2
<1>2. op' = "none" /\ pc' = "idle" /\ broken' = TRUE
  BY DEF Leave
<1>3. Delivering'
  BY <1>1, <1>2 DEF Delivering, Ceil
<1> QED
  BY <1>2, <1>3 DEF Between, InStep, Exempt, AllAdversarial

LEMMA StepKeeps == AInv /\ [Next]_vars => AInv'
<1> SUFFICES ASSUME AInv, [Next]_vars
             PROVE  (Delivering /\ Between /\ InStep /\ AllAdversarial)'
  BY Keeps DEF AInv
<1>0. /\ IInv /\ Typed /\ Delivering /\ Between /\ InStep /\ AllAdversarial
      /\ 0 \in 0 .. Ceil - 1 /\ batch_id \in 0 .. Ceil - 1
  BY BatchCounts DEF AInv, IInv, Delivering
<1>1. ASSUME NEW method \in {"fit", "fit_generator"}, Call(method)
      PROVE  (Delivering /\ Between /\ InStep /\ AllAdversarial)'
  <2>1. /\ UNCHANGED <<generator, attacks, all, broken, rest>> /\ batch_id' = 0 /\ rows' = <<>>
        /\ pc = "idle" /\ pc' = "precompute" /\ op = "none" /\ op' # "none"
    BY <1>0, <1>1 DEF Call, config, Between
  <2>2. Delivering' /\ InStep'
    BY <1>0, <2>1, StillInStep DEF Position
  <2> QED
    BY <2>1, <2>2 DEF Between, AllAdversarial
<1>2. CASE PrecomputeNone \/ PrecomputeAll
  <2>1. /\ UNCHANGED <<generator, attacks, all, op, pc, broken, rest, batch_id, rows>>
        /\ pc = "precompute" /\ batch_id = 0
    BY <1>0, <1>2 DEF PrecomputeNone, PrecomputeAll, Precomputing, config, loop, Between
  <2>2. Delivering' /\ InStep'
    BY <1>0, <2>1, StillInStep DEF Position
  <2> QED
    BY <1>0, <2>1, <2>2 DEF Between, AllAdversarial
<1>3. ASSUME NEW batch \in Batches, PrecomputeBatch(batch)
      PROVE  (Delivering /\ Between /\ InStep /\ AllAdversarial)'
  <2>1. /\ UNCHANGED <<generator, attacks, all, op, pc, broken, rows>>
        /\ Precomputing /\ ~Current.own /\ op = "fit_generator" /\ GetBatch(batch)
        /\ pc = "precompute"
    BY <1>3 DEF PrecomputeBatch, Precomputing, config
  <2>2. batch_id' = IF batch_id + 1 < NbBatches THEN batch_id + 1 ELSE 0
    BY <1>3 DEF PrecomputeBatch
  <2>3. Delivering' /\ InStep'
    BY <1>0, <2>1, <2>2, AdvanceKeepsStep
  <2>4. Between'
    <3>1. CASE batch_id + 1 < NbBatches
      <4>1. pre' = pre
        BY <1>3, <3>1 DEF PrecomputeBatch
      <4> QED
        BY <2>1, <4>1 DEF Between, Precomputing, Current
    <3>2. CASE ~(batch_id + 1 < NbBatches)
      BY <2>1, <2>2, <3>2 DEF Between
    <3> QED
      BY <3>1, <3>2
  <2> QED
    BY <1>0, <2>1, <2>3, <2>4 DEF AllAdversarial
<1>4. CASE Refuse \/ PrecomputeFails \/ DataFails
  <2>1. PICK e : Leave(e)
    BY <1>4 DEF Refuse, PrecomputeFails, DataFails
  <2>2. UNCHANGED <<generator, all, batch_id, rows>>
    BY <1>4 DEF Refuse, PrecomputeFails, DataFails, config, loop
  <2>3. UNCHANGED rest \/ \E batch : GetBatch(batch)
    BY <1>4 DEF Refuse, PrecomputeFails, DataFails
  <2> QED
    BY <1>0, <2>1, <2>2, <2>3, LeavingKeepsStep
<1>5. ASSUME NEW batch \in Batches, TrainFails(batch)
      PROVE  (Delivering /\ Between /\ InStep /\ AllAdversarial)'
  BY <1>0, <1>5, LeavingKeepsStep DEF TrainFails, TakeBatch, config, loop
<1>6. ASSUME NEW batch \in Batches, NEW ids, IndexFails(batch, ids)
      PROVE  (Delivering /\ Between /\ InStep /\ AllAdversarial)'
  BY <1>0, <1>6, LeavingKeepsStep DEF IndexFails, TakeBatch, config, loop
<1>7. CASE Precomputed
  <2>1. /\ UNCHANGED <<generator, attacks, all, op, broken, rest, batch_id, rows>>
        /\ pc' = "epoch" /\ pc = "precompute" /\ Len(pre) = Len(attacks)
    BY <1>7 DEF Precomputed, config, loop
  <2>2. batch_id = 0
    BY <1>0, <2>1, AttacksAreListed DEF Between, Precomputing
  <2>3. Delivering' /\ InStep'
    BY <1>0, <2>1, StillInStep DEF Position
  <2> QED
    BY <1>0, <2>1, <2>2, <2>3 DEF Between, AllAdversarial
<1>8. ASSUME NEW order \in Orders, StartEpoch(order)
      PROVE  (Delivering /\ Between /\ InStep /\ AllAdversarial)'
  <2>1. /\ UNCHANGED <<generator, attacks, all, op, broken, rest, rows>>
        /\ pc = "epoch" /\ pc' = "batch" /\ batch_id' = 0 /\ batch_id = 0
    BY <1>0, <1>8 DEF StartEpoch, config, Between
  <2>2. Delivering' /\ InStep'
    BY <1>0, <2>1, StillInStep DEF Position
  <2> QED
    BY <1>0, <2>1, <2>2 DEF Between, AllAdversarial
<1>9. CASE Return
  <2>1. /\ UNCHANGED <<generator, attacks, all, broken, rest, batch_id, rows>>
        /\ op' = "none" /\ pc' = "idle" /\ batch_id = 0
    BY <1>0, <1>9 DEF Return, config, loop, Between
  <2>2. Delivering' /\ InStep'
    BY <1>0, <2>1, StillInStep DEF Position
  <2> QED
    BY <2>1, <2>2 DEF Between, AllAdversarial
<1>10. ASSUME NEW batch \in Batches, NEW ids, TrainBatch(batch, ids)
       PROVE  (Delivering /\ Between /\ InStep /\ AllAdversarial)'
  <2>1. /\ UNCHANGED <<generator, all, op, broken>> /\ pc = "batch" /\ TakeBatch(batch)
        /\ batch_id' = IF batch_id + 1 < NbBatches THEN batch_id + 1 ELSE 0
    BY <1>10 DEF TrainBatch, config
  <2>2. Delivering' /\ InStep'
    <3>1. CASE op = "fit_generator"
      BY <1>0, <2>1, <3>1, AdvanceKeepsStep DEF TakeBatch
    <3>2. CASE op = "fit"
      <4>1. rest' = rest /\ Position' = Position
        BY <2>1, <3>2 DEF TakeBatch, Position
      <4>2. batch_id' \in 0 .. Ceil - 1
        BY <1>0, <2>1, BatchCounts DEF NbBatches
      <4> QED
        BY <1>0, <2>1, <4>1, <4>2, StillInStep
    <3> QED
      BY <1>0, <2>1, <3>1, <3>2 DEF Typed, Between
  <2>3. AllAdversarial'
    BY <1>0, <1>10, TrainingReplacesAll
  <2>4. Between'
    <3>1. pc' \in {"batch", "epoch"} /\ (pc' = "epoch" => batch_id' = 0)
      BY <1>10, <2>1 DEF TrainBatch
    <3> QED
      BY <1>0, <2>1, <3>1 DEF Between
  <2> QED
    BY <2>2, <2>3, <2>4
<1>11. CASE UNCHANGED vars
  <2>1. /\ UNCHANGED <<generator, attacks, all, op, pc, broken, rest, batch_id, rows, pre>>
        /\ Position' = Position
    BY <1>11 DEF vars, Position
  <2>2. Delivering' /\ InStep'
    BY <1>0, <2>1, StillInStep
  <2>3. Between' /\ AllAdversarial'
    BY <1>0, <2>1 DEF Between, Precomputing, Current, AllAdversarial
  <2> QED
    BY <2>2, <2>3
<1> QED
  BY <1>1, <1>2, <1>3, <1>4, <1>5, <1>6, <1>7, <1>8, <1>9, <1>10, <1>11 DEF Next

(***************************************************************************)
(* With a ratio of 1 a clean image is trained only in fit_generator, when  *)
(* a transferred attack meets a generator that leaves the incomplete batch *)
(* out, starts anew with every batch or was stopped by an earlier call.    *)
(***************************************************************************)
THEOREM AllAdversarialAlways == Spec => []AllAdversarial
<1>1. AInv => AllAdversarial
  BY DEF AInv
<1> QED
  BY <1>1, StepStarts, StepKeeps, PTL DEF Spec

(***************************************************************************)
(* fit_generator indexes beyond a batch only after a call that was left by *)
(* an exception in the middle of an epoch.                                 *)
(***************************************************************************)
THEOREM IndexErrorNeedsBrokenCallAlways == Spec => IndexErrorNeedsBrokenCall
<1>1. AInv /\ [Next]_vars => [error' = "index" /\ error # "index" => broken]_vars
  <2> SUFFICES ASSUME AInv, Next, error' = "index", error # "index"
               PROVE  broken
    BY DEF vars
  <2>1. PICK batch \in Batches, ids \in SUBSET (1 .. BatchSize) : IndexFails(batch, ids)
    BY DEF Next, Call, Refuse, PrecomputeNone, PrecomputeAll, PrecomputeFails, Precomputed,
           StartEpoch, PrecomputeBatch, TrainFails, TrainBatch, DataFails, Return, Leave
  <2>2. /\ TakeBatch(batch) /\ ids \subseteq 1 .. Drawable(batch) /\ ~(ids \subseteq 1 .. Len(batch))
        /\ op # "none"
    BY <2>1 DEF IndexFails, AdvIds, AInv, Between
  <2>3. Drawable(batch) \in Nat /\ Len(batch) \in Nat /\ (broken \/ Drawable(batch) <= Len(batch))
    BY <2>2, DrawnFromBatch, Taken DEF AInv, IInv
  <2> QED
    BY <2>2, <2>3
<1> QED
  BY <1>1, StepStarts, StepKeeps, PTL DEF Spec, IndexErrorNeedsBrokenCall

-----------------------------------------------------------------------------
(***************************************************************************)
(* The third argument: what an epoch trains.  The batches left in the      *)
(* generator are the last ones of some order, and what was trained is what *)
(* precedes them in the same order.                                        *)
(***************************************************************************)
Delivers(o, k) ==
  /\ Len(rest) = Ceil - k
  /\ \A i \in 1 .. Len(rest) : rest[i] = Slice(o, k + i - 1)

Trained(o, k) ==
  count = [s \in Samples |->
             IF \E p \in Samples : p <= k * BatchSize /\ o[p] = s THEN 1 ELSE 0]

(***************************************************************************)
(* A generator that goes on where it stopped and keeps the incomplete      *)
(* batch, whoever stopped it where.                                        *)
(***************************************************************************)
Regular == generator.source # "keras" /\ ~generator.drop

RestOfOrder == Regular => \E o \in Orders, k \in 0 .. Ceil : Delivers(o, k)

(***************************************************************************)
(* Within an epoch of fit_generator the batches trained are those before   *)
(* the ones left, or the generator is not where the epoch counts it to be: *)
(* then it never gets there, and has batches left when the epoch ends.     *)
(***************************************************************************)
AtStart == rest = <<>> /\ batch_id = 0
TrainedSoFar ==
  pc = "batch" =>
    /\ op = "fit" => ind \in Orders /\ Trained(ind, batch_id)
    /\ op = "fit_generator" /\ Regular =>
         \/ \E o \in Orders : Delivers(o, batch_id) /\ Trained(o, batch_id)
         \/ AtStart /\ count = [s \in Samples |-> 0]
         \/ Len(rest) # Ceil - batch_id /\ ~AtStart

CInv ==
  /\ AInv
  /\ pc = "precompute" => epoch = 0
  /\ RestOfOrder
  /\ TrainedSoFar
  /\ EpochCovers

(***************************************************************************)
(* An order runs through all samples, and the order of the data is one.    *)
(***************************************************************************)
LEMMA OrdersCover ==
  ASSUME NEW o \in Orders, NEW s \in Samples
  PROVE  \E p \in Samples : o[p] = s
<1>1. o \in Injection(Samples, Samples)
  BY DEF Orders, Injection, IsInjective
<1>2. IsFiniteSet(Samples)
  BY GeneratorAssumption, FS_Interval DEF Samples
<1>3. o \in Surjection(Samples, Samples)
  BY <1>1, <1>2, FS_Injection
<1> QED
  BY <1>3 DEF Surjection

LEMMA InOrderIsAnOrder == InOrder \in Orders
BY InOrderIsListed DEF Orders, InOrder

(***************************************************************************)
(* Where the next batch ends.                                              *)
(***************************************************************************)
LEMMA NextBatchEnds ==
  ASSUME NEW k \in 0 .. Ceil - 1
  PROVE  /\ k \in Nat /\ k * BatchSize \in Nat
         /\ (k + 1) * BatchSize = k * BatchSize + BatchSize
         /\ Ceil * BatchSize >= Size
<1>1. Size \in Nat /\ BatchSize \in Nat /\ 1 <= BatchSize
  BY GeneratorAssumption
<1>2. Ceil \in Nat /\ Size <= Ceil * BatchSize
  BY <1>1 DEF Ceil
<1>3. k \in Nat
  BY <1>2
<1>4. (k + 1) * BatchSize = k * BatchSize + BatchSize
  BY <1>1, <1>3
<1>5. k * BatchSize \in Nat /\ Ceil * BatchSize \in Nat
  BY <1>1, <1>2, <1>3
<1> QED
  BY <1>1, <1>2, <1>3, <1>4, <1>5

(***************************************************************************)
(* A batch trains the samples that come next in the order, and each once.  *)
(***************************************************************************)
LEMMA SliceTrains ==
  ASSUME NEW o \in Orders, NEW k \in 0 .. Ceil - 1, NEW batch, batch = Slice(o, k),
         Trained(o, k),
         count' = [s \in Samples |->
                     count[s] + Cardinality({j \in 1 .. Len(batch) : batch[j] = s})]
  PROVE  Trained(o, k + 1)'
<1> DEFINE start == k * BatchSize
<1>0. /\ o \in [Samples -> Samples] /\ start \in Nat /\ (k + 1) * BatchSize = start + BatchSize
      /\ Size \in Nat /\ BatchSize \in Nat
      /\ \A i, j \in Samples : o[i] = o[j] => i = j
  BY NextBatchEnds, GeneratorAssumption DEF Orders
<1>1. /\ Len(batch) = Length(k) /\ Length(k) \in Nat
      /\ Length(k) = IF BatchSize <= Size - start THEN BatchSize ELSE Size - start
      /\ \A j \in 1 .. Length(k) : batch[j] = o[start + j]
  <2>1. Len(batch) = Length(k) /\ DOMAIN batch = 1 .. Length(k) /\ Length(k) \in 1 .. BatchSize
    BY <1>0, SliceLength, BatchCounts
  <2>2. batch = [j \in 1 .. Length(k) |-> o[start + j]]
    BY DEF Slice, Length
  <2> QED
    BY <1>0, <2>1, <2>2 DEF Length, Smaller
<1> DEFINE here(s) == {j \in 1 .. Len(batch) : batch[j] = s}
           before(s) == \E p \in Samples : p <= start /\ o[p] = s
           after(s) == \E p \in Samples : p <= start + BatchSize /\ o[p] = s
<1> HIDE DEF start
<1>2. ASSUME NEW s \in Samples
      PROVE  (IF before(s) THEN 1 ELSE 0) + Cardinality(here(s)) = IF after(s) THEN 1 ELSE 0
  <2>1. ASSUME NEW j \in 1 .. Len(batch)
        PROVE  /\ start + j \in Samples /\ start + j > start /\ start + j <= start + BatchSize
               /\ batch[j] = o[start + j]
    BY <1>0, <1>1 DEF Samples
  <2>2. CASE here(s) = {}
    <3>1. ASSUME NEW p \in Samples, p <= start + BatchSize, o[p] = s
          PROVE  p <= start
      <4>1. SUFFICES ASSUME p > start PROVE FALSE
        BY <1>0 DEF Samples
      <4>2. p - start \in 1 .. Len(batch) /\ start + (p - start) = p
        BY <1>0, <1>1, <3>1, <4>1 DEF Samples
      <4>3. p - start \in here(s)
        BY <1>1, <3>1, <4>2
      <4> QED
        BY <2>2, <4>3
    <3>2. after(s) <=> before(s)
      <4>1. \A p \in Samples : p <= start => p <= start + BatchSize
        BY <1>0 DEF Samples
      <4> QED
        BY <3>1, <4>1
    <3>3. Cardinality(here(s)) = 0
      BY <2>2, FS_EmptySet
    <3> QED
      BY <3>2, <3>3
  <2>3. CASE here(s) # {}
    <3>1. PICK j \in 1 .. Len(batch) : batch[j] = s
      BY <2>3
    <3>2. o[start + j] = s /\ start + j \in Samples /\ start + j > start
          /\ start + j <= start + BatchSize
      BY <2>1, <3>1
    <3>3. after(s)
      BY <3>2
    <3>4. ~before(s)
      <4> SUFFICES ASSUME NEW p \in Samples, p <= start, o[p] = s PROVE FALSE
        OBVIOUS
      <4>1. p = start + j
        BY <1>0, <3>2
      <4> QED
        BY <1>0, <3>2, <4>1 DEF Samples
    <3>5. here(s) = {j}
      <4>1. ASSUME NEW i \in 1 .. Len(batch), batch[i] = s PROVE i = j
        <5>1. start + i = start + j
          BY <1>0, <2>1, <3>2, <4>1
        <5> QED
          BY <1>0, <5>1
      <4> QED
        BY <3>1, <4>1
    <3>6. Cardinality(here(s)) = 1
      BY <3>5, FS_Singleton
    <3> QED
      BY <3>3, <3>4, <3>6
  <2> QED
    BY <2>2, <2>3
<1>3. \A s \in Samples : count[s] = IF before(s) THEN 1 ELSE 0
  BY DEF Trained, start
<1> HIDE DEF here, before, after
<1>4. \A s \in Samples : count'[s] = IF after(s) THEN 1 ELSE 0
  BY <1>2, <1>3 DEF here
<1>5. count' = [s \in Samples |-> IF after(s) THEN 1 ELSE 0]
  BY <1>4
<1>6. \A s \in Samples : after(s) <=> \E p \in Samples : p <= (k + 1) * BatchSize /\ o[p] = s
  BY <1>0 DEF after
<1> QED
  BY <1>5, <1>6 DEF Trained

(***************************************************************************)
(* The batches of an epoch reach every sample of the order.                *)
(***************************************************************************)
LEMMA WholeOrder ==
  ASSUME NEW o \in Orders, NEW s \in Samples
  PROVE  \E p \in Samples : p <= Ceil * BatchSize /\ o[p] = s
<1>1. 0 \in 0 .. Ceil - 1
  BY BatchCounts
<1>2. \A p \in Samples : p <= Ceil * BatchSize
  <2>1. Ceil * BatchSize >= Size /\ Size \in Nat /\ Ceil * BatchSize \in Int
    BY <1>1, NextBatchEnds, GeneratorAssumption, BatchCounts
  <2> QED
    BY <2>1 DEF Samples
<1> QED
  BY <1>2, OrdersCover

(***************************************************************************)
(* A regular generator delivers the batch that comes next in its order, or *)
(* the first one of a new order.                                           *)
(***************************************************************************)
LEMMA GoesOn ==
  ASSUME Delivering, Regular, NEW o \in Orders, NEW k \in 0 .. Ceil - 1, Delivers(o, k),
         NEW batch, GetBatch(batch)
  PROVE  batch = Slice(o, k) /\ Delivers(o, k + 1)' /\ rest # <<>>
<1>0. k \in Nat /\ Ceil \in Nat /\ k < Ceil
  BY BatchCounts
<1>1. rest \in Seq(Seq(Samples)) /\ Len(rest) = Ceil - k /\ Len(rest) >= 1
  BY <1>0 DEF Delivering, Delivers
<1>2. rest # <<>>
  BY <1>1
<1>3. batch = Head(rest) /\ rest' = Tail(rest)
  BY <1>2 DEF GetBatch, FromCurrent, Regular
<1>4. /\ batch = rest[1] /\ Len(rest') = Len(rest) - 1
      /\ \A i \in 1 .. Len(rest') : rest'[i] = rest[i + 1] /\ i + 1 \in 1 .. Len(rest)
  BY <1>1, <1>2, <1>3, HeadAndTail
<1>5. batch = Slice(o, k)
  <2>1. 1 \in 1 .. Len(rest) /\ k + 1 - 1 = k
    BY <1>0, <1>1
  <2> QED
    BY <1>4, <2>1 DEF Delivers
<1>6. ASSUME NEW i \in 1 .. Len(rest') PROVE rest'[i] = Slice(o, k + 1 + i - 1)
  <2>1. k + (i + 1) - 1 = k + 1 + i - 1
    BY <1>0
  <2> QED
    BY <1>4, <2>1 DEF Delivers
<1>7. Len(rest') = Ceil - (k + 1)
  BY <1>0, <1>1, <1>4
<1> QED
  BY <1>2, <1>5, <1>6, <1>7 DEF Delivers, Ceil, Slice, Smaller

LEMMA StartsAnew ==
  ASSUME Delivering, Regular, rest = <<>>, NEW batch, GetBatch(batch)
  PROVE  \E o \in Orders : batch = Slice(o, 0) /\ Delivers(o, 1)'
<1>1. PICK e \in Epochs : batch = Head(e) /\ rest' = Tail(e)
  BY DEF GetBatch, FromCurrent, FromNew, Regular
<1>2. /\ e \in Seq(Seq(Samples)) /\ e # <<>> /\ Len(e) = Ceil
  BY EpochLengths DEF Delivering, Regular, BatchesPerEpoch
<1>3. PICK o \in Orders : e = [i \in 1 .. Ceil |-> Slice(o, i - 1)]
  BY InOrderIsAnOrder DEF Epochs, Regular, BatchesPerEpoch
<1>4. /\ batch = e[1] /\ Len(rest') = Ceil - 1
      /\ \A i \in 1 .. Len(rest') : rest'[i] = e[i + 1] /\ i + 1 \in 1 .. Len(e)
  BY <1>1, <1>2, HeadAndTail
<1>5. batch = Slice(o, 0)
  <2>1. 1 \in 1 .. Ceil
    BY BatchCounts
  <2> QED
    BY <1>3, <1>4, <2>1
<1>6. ASSUME NEW i \in 1 .. Len(rest') PROVE rest'[i] = Slice(o, 1 + i - 1)
  <2>1. i + 1 \in 1 .. Ceil /\ i \in Int
    BY <1>2, <1>4
  <2>2. (i + 1) - 1 = 1 + i - 1
    BY <2>1
  <2> QED
    BY <1>3, <1>4, <2>1, <2>2
<1> QED
  BY <1>4, <1>5, <1>6 DEF Delivers, Ceil, Slice, Smaller

LEMMA EmptyOrNot ==
  ASSUME Delivering, Regular, RestOfOrder
  PROVE  rest = <<>> \/ \E o \in Orders, k \in 0 .. Ceil - 1 : Delivers(o, k)
<1>1. PICK o \in Orders, k \in 0 .. Ceil : Delivers(o, k)
  BY DEF RestOfOrder
<1>2. CASE k = Ceil
  BY <1>1, <1>2, BatchCounts DEF Delivers, Delivering
<1>3. CASE k # Ceil
  BY <1>1, <1>3, BatchCounts
<1> QED
  BY <1>2, <1>3

LEMMA RestStaysOfOrder ==
  ASSUME Delivering, RestOfOrder, UNCHANGED generator,
         UNCHANGED rest \/ \E batch : GetBatch(batch)
  PROVE  RestOfOrder'
<1> SUFFICES ASSUME Regular
             PROVE  \E o \in Orders, k \in 0 .. Ceil : Delivers(o, k)'
  BY DEF RestOfOrder, Regular, Orders, Ceil
<1>1. CASE UNCHANGED rest
  BY <1>1 DEF RestOfOrder, Delivers, Ceil, Slice, Smaller
<1>2. ASSUME NEW batch, GetBatch(batch)
      PROVE  \E o \in Orders, k \in 0 .. Ceil : Delivers(o, k)'
  <2>1. CASE rest = <<>>
    BY <1>2, <2>1, StartsAnew, BatchCounts
  <2>2. ASSUME NEW o \in Orders, NEW k \in 0 .. Ceil - 1, Delivers(o, k)
        PROVE  \E oo \in Orders, kk \in 0 .. Ceil : Delivers(oo, kk)'
    <3>1. Delivers(o, k + 1)'
      BY <1>2, <2>2, GoesOn
    <3>2. k + 1 \in 0 .. Ceil
      BY BatchCounts
    <3> QED
      BY <3>1, <3>2
  <2> QED
    BY <2>1, <2>2, EmptyOrNot
<1> QED
  BY <1>1, <1>2

(***************************************************************************)
(* A batch of an epoch: what was trained so far goes on, and after the     *)
(* last batch it is every sample once, or there are batches left.          *)
(***************************************************************************)
LEMMA TrainingCovers ==
  ASSUME Typed, Delivering, RestOfOrder, TrainedSoFar, op # "none",
         NEW batch, NEW ids, TrainBatch(batch, ids)
  PROVE  TrainedSoFar' /\ EpochCovers'
<1> DEFINE last == ~(batch_id + 1 < Ceil)
<1>1. /\ pc = "batch" /\ TakeBatch(batch) /\ UNCHANGED <<generator, op, ind>>
      /\ count' = [s \in Samples |->
                     count[s] + Cardinality({j \in 1 .. Len(batch) : batch[j] = s})]
      /\ ~last => batch_id' = batch_id + 1 /\ pc' = "batch"
      /\ last => batch_id' = 0 /\ pc' = "epoch"
  BY DEF TrainBatch, config, NbBatches
<1>2. PICK k \in 0 .. Ceil - 1 : k = batch_id
  BY DEF Delivering
<1>3. /\ k \in Nat /\ Ceil \in Nat /\ 1 <= Ceil /\ k + 1 <= Ceil
      /\ last => k + 1 = Ceil
  BY <1>2, BatchCounts
\* What is trained next is what comes next in an order.
<1>4. ASSUME NEW o \in Orders, batch = Slice(o, k), Trained(o, k)
      PROVE  /\ Trained(o, k + 1)'
             /\ last => \A s \in Samples : count'[s] = 1
  <2>1. Trained(o, k + 1)'
    BY <1>1, <1>4, SliceTrains
  <2>2. ASSUME last, NEW s \in Samples PROVE count'[s] = 1
    <3>1. \E p \in Samples : p <= (k + 1) * BatchSize /\ o[p] = s
      BY <1>3, <2>2, WholeOrder
    <3> QED
      BY <2>1, <3>1 DEF Trained
  <2> QED
    BY <2>1, <2>2
<1>5. CASE op = "fit"
  <2>1. PICK o \in Orders : o = ind
    BY <1>1, <1>5 DEF TrainedSoFar
  <2>2. Trained(o, k) /\ batch = Slice(o, k)
    BY <1>1, <1>2, <1>5, <2>1 DEF TrainedSoFar, TakeBatch, Chosen
  <2>3. Trained(o, k + 1)' /\ (last => \A s \in Samples : count'[s] = 1)
    BY <1>4, <2>2
  <2>4. CASE last
    BY <1>1, <2>3, <2>4 DEF TrainedSoFar, EpochCovers
  <2>5. CASE ~last
    <3>1. batch_id' = k + 1 /\ ind' = o /\ op' = "fit" /\ pc' = "batch"
      BY <1>1, <1>2, <1>5, <2>1, <2>5
    <3>2. (ind \in Orders /\ Trained(ind, batch_id))'
      BY <2>3, <3>1 DEF Trained, Orders
    <3> QED
      BY <3>1, <3>2 DEF TrainedSoFar, EpochCovers
  <2> QED
    BY <2>4, <2>5
<1>6. CASE op = "fit_generator" /\ ~Regular
  BY <1>1, <1>6 DEF TrainedSoFar, EpochCovers, Regular
<1>7. CASE op = "fit_generator" /\ Regular
  <2>0. GetBatch(batch)
    BY <1>1, <1>7 DEF TakeBatch
  <2>1. ASSUME NEW o \in Orders, batch = Slice(o, k), Trained(o, k), Delivers(o, k + 1)'
        PROVE  TrainedSoFar' /\ EpochCovers'
    <3>1. Trained(o, k + 1)' /\ (last => \A s \in Samples : count'[s] = 1)
      BY <1>4, <2>1
    <3>2. CASE last
      BY <1>1, <3>1, <3>2 DEF TrainedSoFar, EpochCovers
    <3>3. CASE ~last
      <4>1. batch_id' = k + 1 /\ op' = "fit_generator" /\ pc' = "batch"
        BY <1>1, <1>2, <1>7, <3>3
      <4>2. (Delivers(o, batch_id) /\ Trained(o, batch_id))'
        BY <2>1, <3>1, <4>1 DEF Delivers, Trained
      <4>3. (\E oo \in Orders : Delivers(oo, batch_id) /\ Trained(oo, batch_id))'
        BY <4>2 DEF Orders
      <4> QED
        BY <4>1, <4>3 DEF TrainedSoFar, EpochCovers
    <3> QED
      BY <3>2, <3>3
  <2>2. ASSUME NEW o \in Orders, Delivers(o, batch_id), Trained(o, batch_id)
        PROVE  TrainedSoFar' /\ EpochCovers'
    <3>1. Delivers(o, k) /\ Trained(o, k)
      BY <1>2, <2>2
    <3>2. batch = Slice(o, k) /\ Delivers(o, k + 1)'
      BY <1>7, <2>0, <3>1, GoesOn
    <3> QED
      BY <2>1, <3>1, <3>2
  <2>3. CASE AtStart /\ count = [s \in Samples |-> 0]
    <3>1. PICK o \in Orders : batch = Slice(o, 0) /\ Delivers(o, 1)'
      BY <1>7, <2>0, <2>3, StartsAnew DEF AtStart
    <3>2. k = 0 /\ k + 1 = 1
      BY <1>2, <2>3 DEF AtStart
    <3>3. \A p \in Samples : ~(p <= 0 * BatchSize)
      BY GeneratorAssumption DEF Samples
    <3>4. Trained(o, 0)
      BY <2>3, <3>3 DEF Trained
    <3> QED
      BY <2>1, <3>1, <3>2, <3>4
  <2>4. CASE Len(rest) # Ceil - batch_id /\ ~AtStart
    <3>1. PICK m \in 0 .. Ceil - 1 : Len(rest') = Ceil - (m + 1) /\ m # k
      <4>1. CASE rest = <<>>
        <5>1. \E o \in Orders : Delivers(o, 1)'
          BY <1>7, <2>0, <4>1, StartsAnew
        <5>2. Len(rest') = Ceil - (0 + 1)
          BY <5>1 DEF Delivers, Ceil
        <5> QED
          BY <1>2, <1>3, <2>4, <4>1, <5>2 DEF AtStart
      <4>2. ASSUME NEW o \in Orders, NEW j \in 0 .. Ceil - 1, Delivers(o, j)
            PROVE  \E m \in 0 .. Ceil - 1 : Len(rest') = Ceil - (m + 1) /\ m # k
        <5>1. Delivers(o, j + 1)' /\ rest # <<>>
          BY <1>7, <2>0, <4>2, GoesOn
        <5>2. j # k
          BY <1>2, <2>4, <4>2 DEF Delivers
        <5>3. Len(rest') = Ceil - (j + 1)
          BY <5>1 DEF Delivers, Ceil
        <5> QED
          BY <5>1, <5>2, <5>3
      <4> QED
        BY <1>7, <4>1, <4>2, EmptyOrNot
    <3>2. CASE last
      <4>1. Len(rest') # 0
        BY <1>3, <3>1, <3>2
      <4>2. rest' # <<>>
        BY <4>1, EmptyIsListed
      <4> QED
        BY <1>1, <1>7, <3>2, <4>2 DEF TrainedSoFar, EpochCovers
    <3>3. CASE ~last
      <4>1. batch_id' = k + 1 /\ op' = "fit_generator" /\ pc' = "batch"
        BY <1>1, <1>2, <1>7, <3>3
      <4>2. (Len(rest) # Ceil - batch_id /\ ~AtStart)'
        BY <1>3, <3>1, <4>1 DEF AtStart, Ceil
      <4> QED
        BY <4>1, <4>2 DEF TrainedSoFar, EpochCovers
    <3> QED
      BY <3>2, <3>3
  <2> QED
    BY <1>1, <1>7, <2>2, <2>3, <2>4 DEF TrainedSoFar
<1> QED
  BY <1>5, <1>6, <1>7 DEF Typed

LEMMA CoverStarts == Init => CInv
<1> SUFFICES ASSUME Init PROVE CInv
  OBVIOUS
<1>1. AInv
  BY StepStarts
<1>2. RestOfOrder
  <2> SUFFICES ASSUME Regular
               PROVE  \E o \in Orders, k \in 0 .. Ceil : Delivers(o, k)
    BY DEF RestOfOrder
  <2>0. generator \in GeneratorType
    BY <1>1 DEF AInv, Delivering
  <2>1. CASE rest = <<>>
    <3>1. Delivers(InOrder, Ceil)
      BY <2>1, BatchCounts, EmptyIsListed DEF Delivers
    <3> QED
      BY <3>1, InOrderIsAnOrder, BatchCounts
  <2>2. CASE rest \in Epochs
    <3>1. Len(rest) = Ceil
      BY <2>0, <2>2, EpochLengths DEF Regular, BatchesPerEpoch
    <3>2. PICK o \in Orders : rest = [i \in 1 .. Ceil |-> Slice(o, i - 1)]
      BY <2>2, InOrderIsAnOrder DEF Epochs, Regular, BatchesPerEpoch
    <3>3. \A i \in 1 .. Ceil : i - 1 = 0 + i - 1
      BY BatchCounts
    <3>4. Delivers(o, 0)
      BY <3>1, <3>2, <3>3, BatchCounts DEF Delivers
    <3> QED
      BY <3>4, BatchCounts
  <2> QED
    BY <2>1, <2>2 DEF Init, InitGenerator
<1> QED
  BY <1>1, <1>2 DEF Init, CInv, TrainedSoFar, EpochCovers

LEMMA CoverKeeps == CInv /\ [Next]_vars => CInv'
<1> SUFFICES ASSUME CInv, [Next]_vars
             PROVE  /\ (pc = "precompute" => epoch = 0)'
                    /\ RestOfOrder' /\ TrainedSoFar' /\ EpochCovers'
  BY StepKeeps DEF CInv
<1>0. /\ Typed /\ Delivering /\ Between /\ RestOfOrder /\ TrainedSoFar /\ EpochCovers
      /\ pc = "precompute" => epoch = 0
  BY DEF CInv, AInv, IInv
\* What does not train, and neither starts nor is in an epoch.
<1>1. ASSUME UNCHANGED generator, UNCHANGED rest \/ \E batch : GetBatch(batch),
             \/ pc' = "idle"
             \/ pc' \in {"precompute", "epoch"} /\ epoch' = 0
      PROVE  /\ (pc = "precompute" => epoch = 0)'
             /\ RestOfOrder' /\ TrainedSoFar' /\ EpochCovers'
  <2>1. RestOfOrder'
    BY <1>0, <1>1, RestStaysOfOrder
  <2> QED
    BY <1>1, <2>1 DEF TrainedSoFar, EpochCovers
<1>2. ASSUME NEW method \in {"fit", "fit_generator"}, Call(method)
      PROVE  /\ (pc = "precompute" => epoch = 0)'
             /\ RestOfOrder' /\ TrainedSoFar' /\ EpochCovers'
  BY <1>1, <1>2 DEF Call, config
<1>3. CASE PrecomputeNone \/ PrecomputeAll \/ \E batch \in Batches : PrecomputeBatch(batch)
  BY <1>0, <1>1, <1>3
  DEF PrecomputeNone, PrecomputeAll, PrecomputeBatch, Precomputing, config, loop
<1>4. CASE Refuse \/ PrecomputeFails \/ DataFails \/ Return
  BY <1>1, <1>4 DEF Refuse, PrecomputeFails, DataFails, Return, Leave, config
<1>5. ASSUME NEW batch, NEW ids, TrainFails(batch) \/ IndexFails(batch, ids)
      PROVE  /\ (pc = "precompute" => epoch = 0)'
             /\ RestOfOrder' /\ TrainedSoFar' /\ EpochCovers'
  BY <1>1, <1>5 DEF TrainFails, IndexFails, TakeBatch, Leave, config
<1>6. CASE Precomputed
  BY <1>0, <1>1, <1>6 DEF Precomputed, config, loop
<1>7. ASSUME NEW order \in Orders, StartEpoch(order)
      PROVE  /\ (pc = "precompute" => epoch = 0)'
             /\ RestOfOrder' /\ TrainedSoFar' /\ EpochCovers'
  <2>1. /\ UNCHANGED <<generator, rest, op>> /\ pc' = "batch" /\ batch_id' = 0
        /\ ind' = order /\ count' = [s \in Samples |-> 0]
    BY <1>7 DEF StartEpoch, config
  <2>2. RestOfOrder'
    BY <1>0, <2>1, RestStaysOfOrder
  <2>3. ASSUME NEW o \in Orders PROVE Trained(o, 0)'
    <3>1. \A p \in Samples : ~(p <= 0 * BatchSize)
      BY GeneratorAssumption DEF Samples
    <3> QED
      BY <2>1, <3>1 DEF Trained
  <2>4. (ind \in Orders /\ Trained(ind, batch_id))'
    BY <2>1, <2>3 DEF Trained, Orders
  <2>5. ASSUME Regular
        PROVE  (\/ \E o \in Orders : Delivers(o, batch_id) /\ Trained(o, batch_id)
                \/ AtStart /\ count = [s \in Samples |-> 0]
                \/ Len(rest) # Ceil - batch_id /\ ~AtStart)'
    <3>1. CASE rest = <<>>
      BY <2>1, <3>1 DEF AtStart
    <3>2. ASSUME NEW o \in Orders, NEW k \in 0 .. Ceil - 1, Delivers(o, k), rest # <<>>
          PROVE  (\/ \E oo \in Orders : Delivers(oo, batch_id) /\ Trained(oo, batch_id)
                  \/ Len(rest) # Ceil - batch_id /\ ~AtStart)'
      <4>1. CASE k = 0
        <5>1. (Delivers(o, batch_id) /\ Trained(o, batch_id))'
          BY <2>1, <2>3, <3>2, <4>1 DEF Delivers, Trained, Ceil, Slice, Smaller
        <5> QED
          BY <5>1 DEF Orders
      <4>2. CASE k # 0
        <5>1. Len(rest') # Ceil - batch_id'
          BY <2>1, <3>2, <4>2, BatchCounts DEF Delivers
        <5> QED
          BY <2>1, <3>2, <5>1 DEF AtStart, Ceil
      <4> QED
        BY <4>1, <4>2
    <3> QED
      BY <1>0, <2>5, <3>1, <3>2, EmptyOrNot
  <2> QED
    BY <2>1, <2>2, <2>4, <2>5 DEF TrainedSoFar, EpochCovers, Regular
<1>8. ASSUME NEW batch, NEW ids, TrainBatch(batch, ids)
      PROVE  /\ (pc = "precompute" => epoch = 0)'
             /\ RestOfOrder' /\ TrainedSoFar' /\ EpochCovers'
  <2>1. /\ UNCHANGED generator
        /\ UNCHANGED rest \/ GetBatch(batch)
        /\ pc = "batch" /\ pc' \in {"epoch", "batch"}
    BY <1>8 DEF TrainBatch, TakeBatch, config
  <2>2. RestOfOrder'
    BY <1>0, <2>1, RestStaysOfOrder
  <2>3. op # "none"
    BY <1>0, <2>1 DEF Between
  <2> QED
    BY <1>0, <1>8, <2>1, <2>2, <2>3, TrainingCovers
<1>9. CASE UNCHANGED vars
  <2>1. UNCHANGED <<generator, rest, pc, op, epoch, batch_id, ind, count>>
    BY <1>9 DEF vars
  <2>2. RestOfOrder'
    BY <1>0, <2>1, RestStaysOfOrder
  <2>3. TrainedSoFar'
    BY <1>0, <2>1 DEF TrainedSoFar, Regular, Delivers, Trained, AtStart
  <2> QED
    BY <1>0, <2>1, <2>2, <2>3 DEF EpochCovers
<1> QED
  BY <1>2, <1>3, <1>4, <1>5, <1>6, <1>7, <1>8, <1>9 DEF Next

(***************************************************************************)
(* An epoch trains every sample exactly once: always in fit, and in        *)
(* fit_generator unless the generator leaves the incomplete batch out,     *)
(* starts anew with every batch, or stopped somewhere in the middle and    *)
(* still has batches of an earlier order to deliver.                       *)
(***************************************************************************)
THEOREM EpochCoversAlways == Spec => []EpochCovers
<1>1. CInv => EpochCovers
  BY DEF CInv
<1> QED
  BY <1>1, CoverStarts, CoverKeeps, PTL DEF Spec
=============================================================================
