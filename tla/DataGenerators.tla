--------------------------- MODULE DataGenerators ---------------------------
(***************************************************************************)
(* The data generators of src/art/data_generators.py.  A generator wraps an *)
(* iterator over the batches of an epoch and keeps it between calls: whoever *)
(* asks next goes on where the last one stopped.  Samples are numbers, a    *)
(* batch is a sequence of samples, images and labels alike.                 *)
(***************************************************************************)
EXTENDS Integers, Sequences, FiniteSets

CONSTANTS
    Size,        \* the number of samples
    BatchSize,
    Generators   \* the generators examined, see GeneratorType

(* source   the class: NumpyDataGenerator; the loaders of PyTorch, MXNet and           *)
(*          TensorFlow 1, which start again when they end; KerasDataGenerator around a *)
(*          Sequence, which is not its own iterator; TensorFlowV2DataGenerator around  *)
(*          a data set that ends                                                       *)
(* drop     whether an incomplete last batch is left out                               *)
(* shuffle  whether every epoch has an order of its own                                *)
GeneratorType ==
    [source : {"numpy", "loader", "keras", "tensorflow2"}, drop : BOOLEAN, shuffle : BOOLEAN]

ASSUME GeneratorAssumption ==
    /\ Size \in Nat \ {0}
    /\ BatchSize \in 1 .. Size
    /\ Generators \subseteq GeneratorType

VARIABLES
    generator,   \* the generator in use
    rest         \* the batches its iterator has still to deliver

Samples == 1 .. Size

(* Batches of an epoch, with and without the incomplete one. *)
Floor == Size \div BatchSize
Ceil == (Size + BatchSize - 1) \div BatchSize

(* A slip: the incomplete batch is always left out. *)
BatchesPerEpochDropped == Floor

BatchesPerEpoch == IF generator.drop THEN Floor ELSE Ceil

Smaller(a, b) == IF a <= b THEN a ELSE b

(* The i-th batch of an order of the samples, batches counted from 0; the last may be short. *)
Slice(order, i) ==
    [j \in 1 .. Smaller(BatchSize, Size - i * BatchSize) |-> order[i * BatchSize + j]]

Orders == {o \in [Samples -> Samples] : \A i, j \in Samples : o[i] = o[j] => i = j}

InOrder == [i \in Samples |-> i]

(* What __iter__ may run through. *)
Epochs ==
    {[i \in 1 .. BatchesPerEpoch |-> Slice(o, i - 1)] :
        o \in IF generator.shuffle THEN Orders ELSE {InOrder}}

(* What can be a batch. *)
Batches == UNION {[1 .. n -> Samples] : n \in 1 .. BatchSize}

(* next(iter), on the current iterator or on a new one. *)
FromCurrent(batch) == rest # <<>> /\ batch = Head(rest) /\ rest' = Tail(rest)
FromNew(batch) == \E e \in Epochs : batch = Head(e) /\ rest' = Tail(e)

(* get_batch delivers batch. *)
GetBatch(batch) ==
    \/ generator.source # "keras" /\ FromCurrent(batch)
    \/ generator.source \in {"numpy", "loader"} /\ rest = <<>> /\ FromNew(batch)
    \/ /\ generator.source = "keras"
       /\ \E e \in Epochs : batch = Head(e)
       /\ UNCHANGED rest

(* get_batch raises: TensorFlowV2DataGenerator does not start again. *)
Exhausted == generator.source = "tensorflow2" /\ rest = <<>>

(* A NumpyDataGenerator starts with an empty iterator, the others with a fresh one. *)
InitGenerator ==
    /\ generator \in Generators
    /\ IF generator.source \in {"numpy", "keras"} THEN rest = <<>> ELSE rest \in Epochs
=============================================================================
