--------------------------------- MODULE Zoo ---------------------------------
(***************************************************************************)
(* The buffers ZooAttack (src/art/attacks/evasion/zoo.py) keeps in the      *)
(* object, over batches and calls: the noise, Adam's moments and the        *)
(* sampling probabilities, which all have to have the size of the images    *)
(* at work.  ConstSearch has the search that goes on around them.           *)
(* Of a buffer only its size matters; losses, gradients, the weights of the *)
(* sampling and whether an image is better are open.  phase is "idle",      *)
(* "start" or "inner".                                                      *)
(***************************************************************************)
EXTENDS BinarySearch

CONSTANTS
  Setups,       \* the parameters examined, see SetupType
  Pixels,       \* coordinates of an image, of 32 by 32 ones when resized
  Growth,       \* the factor by which they grow, 4 in the code
  GrowAt,       \* the iterations 2000 and 10000
  EarlyStop,    \* self._early_stop_iters
  BatchSize,    \* self.batch_size
  MaxSamples, MaxCalls   \* bounds on the input of a call and on the calls

\* wide: the images are wider than 32 pixels.
SetupType == [resize : BOOLEAN, importance : BOOLEAN, wide : BOOLEAN]

ASSUME ZooAssumption ==
  /\ Setups \subseteq SetupType
  /\ {Pixels, Growth, EarlyStop, BatchSize, MaxSamples} \subseteq Nat \ {0}
  /\ MaxCalls \in Nat
  /\ GrowAt \subseteq Nat

VARIABLES
  setup,
  left,          \* the samples of the call not yet attacked
  images,        \* the images of the batch at work
  iter_,
  size,          \* coordinates of an image of x_adv
  best_size,     \* and of best_attack
  noise,         \* the coordinates of _current_noise, as a number
  adam,          \* the entries of adam_mean, adam_var and adam_epochs; 0 for None
  prob,          \* [size, uniform]: _sample_prob
  error,         \* how the last call ended: "none", "mask", "prob" or "store"
  calls,
  single         \* history: no batch had more than one image so far

progress == <<left, images, bss, iter_, size, best_size>>
buffers == <<noise, adam, prob>>
zooVars == <<setup, phase, progress, buffers, error, calls, single>>

Smaller(a, b) == IF a < b THEN a ELSE b

ZooInit ==
  /\ setup \in Setups
  /\ phase = "idle" /\ left = 0 /\ images = 0 /\ bss = 0 /\ iter_ = 0
  /\ size = Pixels /\ best_size = Pixels
  /\ noise = BatchSize * Pixels /\ adam = 0
  /\ prob = [size |-> BatchSize * Pixels, uniform |-> TRUE]
  /\ error = "none" /\ calls = 0 /\ single = TRUE

\* generate is called with n samples.
Generate(n) ==
  /\ phase = "idle" /\ calls < MaxCalls
  /\ calls' = calls + 1 /\ error' = "none"
  /\ images' = Smaller(n, BatchSize) /\ left' = n - images' /\ bss' = 0
  /\ phase' = IF Steps > 0 THEN "start" ELSE "idle"
  /\ single' = (single /\ images' = 1)
  /\ UNCHANGED <<setup, iter_, size, best_size, buffers>>

\* The beginning of _generate_bss.  With resizing all buffers are those of
\* the batch; without, Adam's are those of one image, and the probabilities
\* stay as they are.
StartStep ==
  /\ phase = "start"
  /\ phase' = "inner" /\ iter_' = 0
  /\ size' = Pixels /\ best_size' = Pixels
  /\ noise' = images * Pixels
  /\ IF setup.resize
     THEN adam' = images * Pixels /\ prob' = [size |-> images * Pixels, uniform |-> TRUE]
     ELSE adam' = Pixels /\ UNCHANGED prob
  /\ UNCHANGED <<setup, left, images, bss, error, calls, single>>

-----------------------------------------------------------------------------
\* The upscaling that opens the iterations of GrowAt, before anything else.
Grows == setup.resize /\ iter_ \in GrowAt
NewSize == IF Grows THEN Growth * size ELSE size

\* The probabilities of the larger images are made from the noise of the
\* smaller ones; a slip makes the noise anew first.
GrownProbLate == Growth * (images * NewSize)
GrownProb == Growth * noise

\* _sample_prob as the draw finds it.
ProbAtDraw(uniform) == IF Grows THEN [size |-> GrownProb, uniform |-> uniform] ELSE prob

NewNoise == IF Grows THEN images * NewSize ELSE noise
NewAdam == IF Grows THEN images * NewSize ELSE adam

\* The probabilities are used for a draw only if they are not all the same.
Weighted(p) == setup.importance /\ ~p.uniform

DrawFails(p) == Weighted(p) /\ p.size # images * NewSize

\* What _optimizer leaves in _sample_prob.
AfterDraw(p, uniform) ==
  IF setup.importance /\ (IF setup.resize THEN NewSize > Pixels ELSE setup.wide)
  THEN [size |-> NewNoise, uniform |-> uniform] ELSE p

\* The mask of the samples to be fine-tuned has an entry for every coordinate
\* of the batch; a slip resets the moments without looking at the sizes.
MaskFailsNever == FALSE
MaskFails == images * NewSize # NewAdam

\* An image better than the best must fit into its place.
StoreFails == NewSize # best_size

Leave(e) == error' = e /\ phase' = "idle" /\ left' = 0

\* One iteration; whether the new probabilities are all the same, whether the
\* loop is given up and whether an image improves on the best are open.
Iteration(uniform, stop, improves) ==
  /\ phase = "inner" /\ iter_ < MaxIter
  /\ stop => iter_ % EarlyStop = 0
  /\ size' = NewSize /\ noise' = NewNoise /\ adam' = NewAdam
  /\ UNCHANGED <<setup, images, bss, best_size, calls, single>>
  /\ \/ DrawFails(ProbAtDraw(uniform)) /\ prob' = ProbAtDraw(uniform) /\ Leave("prob") /\ UNCHANGED iter_
     \/ /\ ~DrawFails(ProbAtDraw(uniform))
        /\ prob' = AfterDraw(ProbAtDraw(uniform), uniform)
        /\ \/ MaskFails /\ Leave("mask") /\ UNCHANGED iter_
           \/ ~MaskFails /\ stop /\ iter_' = MaxIter /\ UNCHANGED <<phase, left, error>>
           \/ ~MaskFails /\ ~stop /\ improves /\ StoreFails /\ Leave("store") /\ UNCHANGED iter_
           \/ /\ ~MaskFails /\ ~stop /\ ~(improves /\ StoreFails)
              /\ iter_' = iter_ + 1 /\ UNCHANGED <<phase, left, error>>

\* The next step of the binary search, the next batch, or the end.
EndStep ==
  /\ phase = "inner" /\ iter_ = MaxIter
  /\ \/ bss + 1 < Steps /\ bss' = bss + 1 /\ phase' = "start" /\ UNCHANGED <<left, images, single>>
     \/ /\ bss + 1 = Steps /\ left > 0
        /\ images' = Smaller(left, BatchSize) /\ left' = left - images'
        /\ single' = (single /\ images' = 1)
        /\ bss' = 0 /\ phase' = "start"
     \/ /\ bss + 1 = Steps /\ left = 0
        /\ phase' = "idle" /\ UNCHANGED <<bss, left, images, single>>
  /\ UNCHANGED <<setup, iter_, size, best_size, buffers, error, calls>>

ZooNext ==
  \/ \E n \in 1 .. MaxSamples : Generate(n)
  \/ StartStep \/ EndStep
  \/ \E uniform, stop, improves \in BOOLEAN : Iteration(uniform, stop, improves)

ZooSpec == ZooInit /\ [][ZooNext]_zooVars
-----------------------------------------------------------------------------
(***************************************************************************)
(* With resizing the three buffers fit the images at work, whatever the    *)
(* batches, the calls before and the iterations at which the images grow   *)
(* (587-623): in the middle of the growth the probabilities are computed   *)
(* from the noise of the smaller images.                                   *)
(***************************************************************************)
ResizedFits ==
  setup.resize =>
    /\ error \notin {"mask", "prob"}
    /\ phase = "inner" => /\ noise = images * size /\ adam = noise
                          /\ prob.size = noise

(***************************************************************************)
(* Probabilities that do not fit the batch (468) are always left behind by *)
(* an earlier call, and only where batches of several images occur, whose  *)
(* calls end in an exception (413): with single images nothing that stays  *)
(* in the object over calls does harm, resized or not.                     *)
(***************************************************************************)
StaleProbabilities == error = "prob" => calls > 1 /\ ~single
=============================================================================
