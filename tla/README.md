# A TLA+ development of the Adversarial Robustness Toolbox

The Adversarial Robustness Toolbox (ART, `src/art/`) is a Python library that attacks machine
learning models, defends them, and measures or certifies how robust they are. It is numerical code,
but around the numerics it is control: searches that tighten a constant between two bounds,
restarts that keep the best of many tries, ensembles that hand the survivors of one attack to the
next, generators that loop over a data set, trainers that mix clean and attacked batches,
certificates that count. This project models that control, checks it with TLC on small instances and
proves the properties that matter most with TLAPS.

What an attack, a gradient or a network *computes* is left open (any value the code could get); what
the code *does* with the value is modelled statement by statement.

## 1. The system

| part | state it keeps | operations | what is hard | what makes it correct |
|---|---|---|---|---|
| attack base (`attacks/attack.py`) | the parameters of an attack | `set_params`, `generate` | checks run after the assignment | a refused parameter is not in force |
| AutoAttack (`attacks/evasion/auto_attack.py`) | best attack per sample; `targeted` flags of the attack objects | `generate` (sequential, parallel), `run_attack`, `__repr__` | flags left from earlier calls, attacks that raise, a pool of processes | a sample reported broken is adversarial within eps; one verdict per sample |
| constant searches (`carlini.py`, `zoo.py`, `elastic_net.py`) | lower, current and upper constant; best example so far | outer binary search, inner optimiser | aliasing, state of one sample touched by another | the bracket is kept; the best example is adversarial and the smallest seen |
| decision-based attacks (`hop_skip_jump.py`, `boundary.py`, `sign_opt.py`, `geometric_decision_based_attack.py`) | a current adversarial point, step sizes, trust regions | `generate`, `_attack`, `_binary_search`, resume | loops that end only because the current point is adversarial | the current point stays adversarial |
| gradient attacks (`fast_gradient.py`, `projected_gradient_descent/`, `auto_projected_gradient_descent.py`) | step size, best restart | `generate` with random restarts | a later restart must not undo a success; random eps | the best restart is kept |
| other evasion attacks (universal, Square, SimBA, pixel, patch, audio, ...) | per attack | `generate` | random searches, stopping rules | accepted steps never make things worse |
| tree verification (`metrics/verification_decisions_trees.py`) | eps bracket, cliques of boxes | `verify` | empty and unbounded boxes, search for eps | reported robust eps is verified; the bound is sound |
| data generators (`data_generators.py`) | iterators | `get_batch` | wrap-around, restarts of the iterator | every epoch delivers every sample once |
| estimators (`estimators/`) | model, pre- and postprocessors | `fit`, `predict`, `set_params`, loss gradients | derived list of preprocessors gone stale | pipeline agrees with the parameters |
| smoothing certificates (`estimators/certification/`) | ablation position, votes | `predict`, `certify` | wrap-around, tie-breaking | a certified sample cannot be flipped by a patch |
| trainers (`defences/trainer/`) | attack index, precomputed examples | `fit`, `fit_generator` | indices of a shuffled order used on another order | every batch pairs examples with their own labels |
| detectors (`defences/detector/`) | clusters, reports | `detect_poison`, `detect` | partial results | reported indices are those of the data |
| preprocessors, postprocessors, transformers (`defences/`, `preprocessing/`) | parameters | `__call__`, `estimate_gradient` | numerics | out of reach, mostly |
| inference, extraction and poisoning attacks | shadow models, thresholds | `infer`, `extract`, `poison` | numerics, randomness | counts and budgets are respected |
| partition ensemble (`deep_partition_ensemble.py`) | sub-models | `fit`, `predict` | empty partitions | every sample trains exactly one sub-model |

Parts call each other synchronously in one thread; the exceptions are the pool of worker processes
of the parallel AutoAttack and the generators that hold an iterator between calls. Objects live
long: an attack or an estimator is called many times and keeps what the last call left in it.

## 2. Modules and how they correspond to the code

| module | models | builds on |
|---|---|---|
| `RunAttack` | `run_attack` (auto_attack.py 345-397) and the constants of the ensemble | |
| `AttackEnsemble` | abstract: what an AutoAttack promises, one verdict per sample | `RunAttack` |
| `AutoAttackCall` | what both modes of `generate` share: the state of a call, its beginning, the flags of the attacks | `RunAttack` |
| `AutoAttack`, `AutoAttackProps` | `generate`, `parallel=False`; its properties | `AutoAttackCall`; refines `AttackEnsemble` |
| `AutoAttackParallel`, `AutoAttackParallelProps` | `generate`, `parallel=True`; its properties | `AutoAttackCall`; refines `AttackEnsemble` |
| `BinarySearch` | the phase and the step of a search for a constant | |
| `ConstSearch` | the search for the constant of ElasticNet, with the early abort of ZOO | `BinarySearch` |
| `Zoo` | the buffers of `ZooAttack` over steps, batches and calls | `BinarySearch` |
| `CarliniL2` | `CarliniL2Method.generate` on a batch | |
| `Carlini` | the phase and the images of the methods that repeat an inner attack | |
| `CarliniLInf` | `CarliniLInfMethod.generate` on a sample | `Carlini` |
| `CarliniL0` | `CarliniL0Method.generate`, its rounds around a loop like that of `CarliniL2` | `Carlini` |
| `HopSkipJump` | `HopSkipJump.generate`, called repeatedly, with `resume` | |
| `DecisionTrees` | boxes, leaves, `get_trees` of XGBoost and random forests | |
| `TreeVerification` | `RobustnessVerificationTreeModelsCliqueMethod.verify` | `DecisionTrees` |
| `Ablation` | the ablators of derandomized smoothing, `predict`, `eval_and_certify` and `certify`, for PyTorch and TensorFlow | |
| `DataGenerators` | `get_batch` of the data generators and the iterators behind it | |
| `AdversarialTrainer` | `AdversarialTrainer.fit` and `fit_generator` | `DataGenerators` |
| `*Proofs` | the theorems and their proofs: about both modes of AutoAttack in `AutoAttackProofs`, about `CarliniLInf` and `CarliniL0` in `CarliniProofs`, about `ConstSearch` and `Zoo` in `ConstSearchProofs`, about the trainer in `TrainingProofs`, else about the module of that name | the modules and `TLAPS` |
| `MC*` | small instances; each `.cfg` is a run | the module |

Definitions named "a slip" in a comment (`SlotsOffByOne`, `TargetedRetry`, ...) stand for bugs a
programmer could make at that place. No specification uses them; each is there to show that a
property really fails when the code is wrong in that way.

### AutoAttack

`x`, `y`, `targeted` are the arguments of a call, `x_adv` and `robust` the locals `x_adv` and
`sample_is_robust`, `best` is `self.best_attacks`, and `flag` is the attribute `targeted` of the
attack objects, which nobody resets between calls. `a` and `i` are the loop variables. The actions
are the rounds of the two loops of `generate` (`UntargetedAttack`, `SetTargeted`, `TargetedAttack`,
`NextAttack`), their ends, the `ValueError` of an attack in either loop (`UntargetedRaise` reaches
the caller, `TargetedRaise` is caught at line 285), and `Call`, the next use of the object. An
attack may return any point for every sample it was given. Inputs are points with two classifiers (the
attacked one and `estimator_orig`) and a distance; `WithinEps` has the relative tolerance of
`run_attack`. Attacks are numbered from 1 where the code counts from 0.

`AutoAttackParallel` is the same loops filling a list of arguments (`AddUntargeted` and `AddTargeted` are
their rounds, `EndUntargeted` and `EndTargeted` their ends, the last of which starts the pool),
worker processes that take the next run and end it in any order (`Take`, `Finish`, `Fail`), and the
`argmin` over the perturbations (`Collect`, `CollectRaise`). `Slot` is where a result goes: `starmap` keeps the order
of the arguments, and the index the `argmin` chooses is kept as an index of the arguments (299-300). Both modes implement `AttackEnsemble`, in which a sample
is misread from the start, intact, or broken once and for all by a point within eps of the
*caller's* sample. In the sequential mode each round is an abstract step; in the parallel one all
verdicts fall in `Collect`.

### ConstSearch, CarliniL2, CarliniLInf

The optimiser of all three is open: an iterate, the end of a line search or an image is any record of
what the loop looks at afterwards: a distance, and whether the image is adversarial (ConstSearch), its
squared distance and its margin (CarliniL2), its distance and its class (CarliniLInf). What the loops
do with it is exact. `ConstSearch` has one action for an iteration (`Iterate`), one for ZOO's abort, and
`Adjust` for the end of a binary search step with `_update_const` and the two levels of best. It is a
batch, and the samples go through the loops together.

`CarliniL2` keeps two points of each sample apart: `cur`, the image of `x_adv_batch`, and `seen`, the
image that the entries of `loss` and `l2dist` were computed from. They differ after a line search that
found nothing, and this is where its disagreement with the documentation comes from (section 8). The history variables
`nearest` (the least distance of an adversarial image that was current) and `mistaken` (the samples for which a record was
kept that is not the current image's) serve `BestIsNearest` alone. `end[s]` is
where the search of halvings and doublings ends: at a point with a smaller loss, which is taken, or at
its last trial, which is not but whose numbers stay. `c_old` is an alias of `c_current` in
the code (476), so `NewLower` records the next constant and not the last.

`CarliniLInf` has the rounds of the outer loop (`Round`, `Stop`), the sweep over the constants
(`TryConst`) and the new limit (`EndSweep`).

### CarliniL0

An image is the set of features in which it differs from the sample by more than the threshold, and the
classifier is a set of such images: those that fool it. `StartBatch`, `StartStep` (part of it and of
`NextStep`), `Iterate` and `EndBatch` are the L_2 attack on one batch, with only the active features moving;
`Fix` and `ReturnEarly` are the two outcomes of a round (1224-1261), and `Result` is what `generate` hands back
in either way of ending. `wins` counts the rounds a sample succeeded in, for the properties only. The
constants c weigh the loss and decide no verdict, so they do not appear.

### Zoo

Of the noise, Adam's moments and the probabilities only the sizes matter. `StartStep` is the head of
`_generate_bss`, where the buffers are made anew or, without resizing, not all of them; `Iteration` is one
iteration with the growth that may open it (`NewSize`, `GrownProb`, `NewNoise`, `NewAdam`, in the order of
`_resize_image`), the draw, the reset of the moments and the store, each of which raises when a size does not
fit (`DrawFails`, `MaskFails`, `StoreFails`). What an exception leaves in the object is there in the next
call. The search around it is the one `ConstSearch` models.

### HopSkipJump

The attack knows nothing but whether an image is adversarial. The model's answers along a segment are
a function drawn when the binary search starts (`segment`), and down the halvings of the step size
another (`ladder`); both ends of a segment are what the code knows of them: the original is not
adversarial, the current image is. The last rung of the ladder is the current image itself, as a step
that has become 0 is. The answers in between are arbitrary and need not be monotone. `curr_iter` lives
in the object: `Call(resume)` goes on from it or starts from 0. The arithmetic of the gradient estimate
only decides which ladder is drawn.

### DecisionTrees, TreeVerification

A tree is a heap of splits and a function of leaf values; `BoxOf` computes the boxes of its nodes as
`_get_leaf_nodes` does, an empty box standing for both the whole space and no space, as in the code. A leaf of a
booster has a number, a leaf of a forest the weights of the classes in it. What the code makes of the weights
(`UnitValue`: divided by their L2 norm, scikitlearn.py 368) is not what the library makes of them for its prediction
(`Proportion`); both are rounded down to parts of `One`.
`Distance`, `AccessibleLeaves`, `Join`, `Cliques`, `Level` and `BestScore` are the helpers of the
class, each in terms of sets of leaves and of the arguments of the call (the record `arguments`), so that a
verdict, `IsRobust`, is a function of these, a sample and an eps; `SearchStep`, `SampleEnd` and `Raise` are the search of
`verify`. `Predicted` and `Ball` are the reference: what the libraries answer for a point, and all points
within a distance on the grid. `Sound` compares the two.

### Ablation

One image and the same image under a patch are swept together. A position of the sweep is a place of the
retained column, row or block; `Retained` is the set of cells it leaves, with the wrap-around. The classifier
is an arbitrary function from what it is shown to a set of classes (one class for an argmax, any for a
threshold on logits), remembered in `replies`, so that the two sweeps differ exactly in the ablated images the
patch reaches. `VoteSome` is the body of the loop over positions, in any order, `CertifySome` the two
certificates with every index `kthvalue` may pick, `Predict` the end of `predict`. `buffer` is what is left of
`i_batch`, which PyTorch's ablator zeroes in place for some configurations. A configuration is a record in
`Setups`: the framework, algorithm, mode, ablation type, image size, ablation and patch size.

### DataGenerators, AdversarialTrainer

Samples are numbers and an image is known by the sample it belongs to and by the attack that made it. `rest`
is what the iterator of a generator has still to deliver and outlives the calls. In `AdversarialTrainer`
`Call`, the `Precompute...` actions, `StartEpoch` and `TrainBatch` are the loops of `fit` and `fit_generator`,
which share their shape and differ in where the batch comes from (`TakeBatch`) and which length the random
positions are drawn from (`Drawable`); `Refuse`, `PrecomputeFails`, `TrainFails`, `IndexFails` and `DataFails`
are the exceptions, after which the same objects are used again. `rows` is the last batch the classifier was
trained with.

## 3. Runs

| run | asks | bounds |
|---|---|---|
| `autoattack` | are the verdicts of the sequential mode genuine, over any number of calls? | 2 samples, 4 points, 3 classes, 2 attacks, one of which can be targeted, both of which may raise; another original estimator |
| `autoattack_parallel` | the same of the pool, in every schedule | 2 workers, 2 samples, 3 points, 3 classes, 2 attacks (4 runs when targeted) |
| `const_search` | does the search keep the best, and a bracket of constants that were tried? | 2 samples, 2 distances, 5 steps, 2 iterations |
| `carlini_l2` | what survives of the bookkeeping with stale records? | 2 samples, 2 distances, 2 margins, 3 steps, 2 iterations |
| `carlini_l0` | what do the rounds fix, remember and return? | 2 samples in 1 or 2 batches, 2 features, all 16 classifiers, 2 masks, both starts, 3 rounds, 2 steps of 1 iteration |
| `carlini_linf` | does the shrinking limit keep the nearest, and end? | 5 distances, 3 classes, factor 1/2, 2 constants |
| `zoo` | do the buffers fit the images at work? | all 8 setups, 3 calls of up to 3 samples in batches of 2, 2 steps, 3 iterations, growth before the second and third |
| `hop_skip_jump` | does the walk stay adversarial, at the boundary, and end? | 2 samples, 2 calls, 2 iterations, 2 draws, segments of 4 and 6 points, 2 step sizes before the step vanishes |
| `tree_verification` | is every bound confirmed by all inputs? | 27 boosters of 3 trees, 9 of 6 trees, 2 forests of 2 trees with 3 classes and pure leaves, 2 features on a grid of 21 by 21, norms 0, 1, infinity, 2 joins, 2 first eps, 4 steps |
| `tree_verification_forest` | the same for a random forest of 2 classes (no) | 3 trees |
| `ablation` | does a certificate cover every patch? | 8 setups with images of up to 4 by 4 and 3 by 3 cells, 3 classes, every patch and classifier |
| `training` | which sample, label and attack meet in a batch? | 3 samples in batches of 2, 2 epochs, 2 calls, 4 lists of attacks, all generators, both ratios |

The properties of a run are the ones worth a model checker. Those that only TLAPS is asked about (types,
`BoundsVerified`, `UnbrokenIsUntouched`, `BestAgrees`, `Bracketed`, `LowerBelowConst`, `TauBelowKept`, `CertifiedIsCounted`) are stated in the
same modules and hold in the same instances.

Why these are enough. Two samples are needed for everything that goes wrong between samples (masks,
records of the whole batch, state left from the sample before) and none of the loops relates more
than two. Two attacks give an order and an exception with something after it; three classes give a targeted
attack two labels. The points of `MCAutoAttack` are placed so that one pair lies between eps and eps
with its tolerance. The constants of `MCConstSearch` reach the cap after three failures, so brackets appear below
it, at it and never; those of `MCCarliniL2` make the same pair of distances compare both ways, and
reach the bound at which a sample is given up. The distances of `MCCarliniLInf` lie on both
sides of the first limit and between the later ones. Segments of 4 and 6 points are bisected up
to twice and three times, with all answers, monotone or not. In `MCTreeVerification` thresholds are met by
samples, by eps and by each other; eps stops at the smallest part of the grid, so that halves are exact.
The two features of `MCCarliniL0` can be fixed one after the other, with a round left in which
nothing is active. In `MCZoo` a call of three samples has a full and a short batch, and the images grow twice
with an exception possible in between. The images of `MCAblation` are as small as the wrap-around, a patch
across it and a tie between the last two classes allow; a width that the ablation divides and one that it does
not are among them. In `MCAdversarialTrainer` the last batch is short, the two epochs are out of step with a generator
that leaves it out, and the second call finds what the first left.
None of the runs uses a state constraint or symmetry. The runs check deadlock, and a call that has
returned has a step of its own that changes nothing, except in `zoo` and `training`, which stop after the last call.

`tree_verification_forest` ends in a violation: with two classes the values of all trees are added up (461-465),
but a random forest hands over two trees for each of its trees, one per class, so the sum of shares is
always positive and a sample of class 1 is found robust at any eps. Section 8 lists the other places where
the code does something else than its documentation says.

## 4. Fairness and liveness

A call, once made, runs on: nothing in the library waits for anything but its own loops, so weak
fairness of the steps of a call (`WF_vars(Work)`) is what the interpreter gives; in the pool, of the
main process and of every worker (`multiprocess` runs all of them). Nothing obliges anyone to call
again. Under it `CallEnds` (AutoAttack, HopSkipJump), `ParallelCallEnds` and `Terminates` (CarliniLInf) hold. For
HopSkipJump this is more than it seems: the loop `while not success` (441) has no bound, and ends only since the
current image is adversarial and the step size vanishes.

## 5. What is proved

TLAPS proves, for every value of the constants that meets the assumptions of the modules (any batch,
any number of attacks, classes and steps, any model, resolution or schedule of constants):

- AutoAttack: the type invariant, `BrokenIsAdversarial`, `UnbrokenIsUntouched`, `BestAgrees`,
  `SettledStays`, and that it implements `AttackEnsemble`. The inductive invariant adds `FlagIsSet`: in the
  loop over target labels the flag of the attack at work is set. Without it a targeted round might be judged
  as an untargeted one, and `BrokenIsAdversarial` would not be preserved.
  It needs that the i-th other label of a class is another class (`TargetLabelIsOther`).
- AutoAttack with a pool, for any number of workers and every schedule: types, `TakesLeastBroken`, `OthersUntouched`, and
  that it implements `AttackEnsemble`. The claims are about what is handed over at the end. The invariant (`PoolInv`)
  follows it from the loops on: a run is well labelled when it is put together (`RunsWellLabelled`; this is where the flag,
  cleared before the copy, matters); hence a result is genuine when its worker puts it down, whichever worker
  and whenever (`ResultsGenuine`), and answers to the arguments at its own index (`ResultsAnswer`, by `RunAnswers`); hence what the
`argmin` picks does (`ChosenByArgmin`). The refinement stutters until `Collect`,
  whose step is then a legal set of verdicts. `ArgminIsLeast` and `RunIsGenuine` are the lemmas about the operators.
- ConstSearch: types, `BestIsAdversarial`, `BestIsLeast`, `Bracketed` with `BoundsWereTried`, and
  `Bisects`. It needs `InnerConsistent` (the attack and the distance of the inner level agree) and
  `InTheMiddle` (with a bracket, the constant is its middle; else a later halving would not be by half).
- Zoo: types, `ResizedFits`, `StaleProbabilities`. The invariant adds that a batch is full as long as samples of its call are
  left (`Batches`), and how the sizes go together without resizing (`Unresized`): the noise is that of the batch and Adam's
  moments are those of one image, so that with several images the first iteration is the last of the call; probabilities
  that are not uniform therefore stem from batches of one image, or from a call that was broken off. The lemmas say
  which size each draw and reset needs and that a growth keeps the buffers of one size.
- CarliniL2: types and `LowerBelowConst`, which are inductive together; and `OverallIsMet` and `BestIsNearest`,
  provided that the constants can be halved exactly (`ExactHalves`: the initial one is a multiple of a unit that stays a
  natural number when halved with every step; the floats of the code never reach 0, where a failure would look like a
  success). The invariant: the constants are positive multiples of the unit of the step, the point the records
  were taken from is among those met, and until a wrong record is kept for a sample what is recorded for it is the nearest image
  that was current before the present one. A success that is not adversarial, or whose distance is another image's, is such a wrong record, and is
  what `mistaken` remembers.
- CarliniLInf: types, `KeptIsNearest`, `TauBelowKept`; it needs that between rounds the limit is
  already below what is kept (`TauBetweenRounds`) and that what was found is not nearer than the distance
  to beat (`Beaten`).
- CarliniL0: types, `FoundIsReturned`, `LostOnlyCold` and `Narrowed`, for any classifier, any split into batches
  and any number of rounds. The invariant (`L0Inv`) counts: a sample that has succeeded n times has n features less of its mask active
  (`Counted`). Without a warm start the images of a round change active features only (`InsideActive`), through the
  loop over steps, iterations and batches, so that what is kept of a success differs from the sample in what was active then
  (`Kept`). With a warm start a sample broken before starts at the image it will end with (`StandsStill`): the distance
  counted from there is 0 as soon as it is recorded, and nothing improves on 0. `WaysOut` says in what state the two exits are
  taken.
- HopSkipJump: types, `CurrentIsAdversarial`, `NoCleanImage`, `AtBoundary`, `CountsFromStart`. The
  invariant adds that the search keeps a clean lower and an adversarial upper end (`Bracket`), that
  the walk is on the adversarial side in every phase, and what the counters are before
  the walk starts and while an iteration is left.
- TreeVerification, the search: types and `BoundSeparates`, with eps between the two bounds (`Between`) and every
  success counted once per sample (`CountedOnce`). The verdicts are opaque here: the theorem holds whatever they are. So
  does `BoundsVerified`: a bound that is added up had a verdict for it, and so has every eps that may still become one
  (`PassedVerified`), while the initial successes are at most the samples with a verdict at the first eps
  (`SuccessesVerified`). Hence `VerdictsSuffice`: where the verdicts of a call are right, `Sound` and `ErrorIsNoLess` hold.
- TreeVerification, the verdicts: `VerdictIsRight`, and with it `SoundAlways`, `ErrorIsNoLessAlways` and
  `RaisesOnlyForNorm0Always`. The argument follows one point p within e of a sample. In every tree p runs down to one
  leaf and lies in its box (`LeafReached`, over `CommonPoints`: an intersection of boxes with a common point is not
  empty, constrains every feature either does, and holds the point). A box that holds p is no farther from the
  sample than p (`BoxNear`), so the leaf is accessible (`AccessibleCounted`), and the sample's own leaf always is
  (`SelfNear`: nothing raises). Joining keeps a clique with p whose value is the sum of the values of p's leaves (`CliquesStand`).
  So each group's worst value is on the safe side of that sum, and so is each level's score (`LevelOnSide`: the greatest for
  label 0 of two classes, the least otherwise), for any `max_clique` and `max_level` (`BestOnSide`). The sum over the relevant
  trees is the score of p for two classes (`TwoClassScores`), and the lead of the label over the target for more
  (`BoosterLead`, `ForestLead`); its sign is the class the library answers. The recursions of the model are recursive
  functions, about which induction is done with sets: a set of numbers that has 0 and all successors is all of them
  (`Induct`), and likewise for subsets of a finite set (`InductFinite`), heaps of nodes and sums (`SumsAgree`, `SumPicks`).
  What is assumed is `DataAssumption`: trees as the libraries build them (`IsModel`: a split has two children, thresholds are
  numbers, the features split on are features of the sample, and the root is a split), inputs in [0, 1]; `Sound` itself
  leaves out the norm 0. The theorems hold of the models that are `Comparable`: boosters, and forests of more than two
  classes whose leaves are pure (`PureLeaves`: one class has all the weight, as in trees grown until no leaf
  holds two classes). For a pure leaf the normalised value is the proportion (`UnitIsProportion`, `LeafValue`); for others it is not, and
  with forests of two classes the claim is false altogether: that is the violated run.
- TreeVerification, the other direction: `OneCliqueIsExactAlways`, from the same lemmas read twice. The view of a point
  (`Stands`) comes in two strengths: some clique holds the point and has its sum for a value, or every clique that holds
  the point does, and every clique is a box with room for an input (`Roomy`) whose sides are within eps of the sample (`Near`). The
  second kind needs that boxes tell the truth about descent: a point in a node's box does come down to it (`NodeHolds`).
  Joining keeps it, because a point of an intersection is in both boxes (`PointsOfBoth`), and because intervals that
  meet, and that are each within eps of the sample, have an intersection that is too (`IntersectionRoomy`). So when the last level
  is a single set of cliques, its score is the value of one clique (`WorstIsSome`), the sample moved
  into that clique is an input of [0, 1] at most eps + 1 away (`BoxHoldsInput`), its sum is the score (`OneCliqueTotal`), and the
  library does not answer the label (`VerdictIsExact`). The + 1 is real: an interval is open on one side, so at exactly eps
  there may be no input, and the code counts the leaf as accessible. The
  theorem asks for `Grown`: every threshold strictly between 0 and 1, and no node whose box is empty. A library that grows trees on
  samples in [0, 1] splits so, and all ensembles of the runs are of this kind; forests must be `Comparable` here too; without it a clique may hold no input at
  all, and a refusal may be an artefact.
- Ablation: types, `CertifiedIsStable`, `FewVotesTouched`, `CertifiedIsCounted`, for images, ablations and patches of
  every size and every classifier, in the setups of `SoundSetups`: no rows of an image wider than high
  in PyTorch, and a `kthvalue` that prefers the least index (or no tie-break at all). The argument: an
  ablation reaches a patch column only from one of m + k - 1 places, wrap-around or not (`SlotInReach`, `SlotsDiffer`), so
  the positions a patch touches are at most that many, or its square (`ReachIsEnough`); each changes a class
  by at most one vote (`VoteBounds`, the inductive part: the two counts differ by at most the touched positions done);
  hence a lead of twice as many cannot be lost (`LeadOfCertified`, `CertifyIsRight`). `SeenAlike` is proved in the setups of
  `SquareRows` (rows are swept over the height, or the image is square): how far a cell is from the start of a window
  is a bijection between the windows that show it and the k places in a window (`WindowsAreK`), so every cell, at the border
  too, is shown k times, or k * k times by blocks (`ShownTimes`).
- AdversarialTrainer: `OwnLabels` and `Rotated`, for every data set, generator and list of attacks. The first
  needs that what `fit` precomputed is in the order of the data set and that a batch has the length of its labels;
  the second that the uses so far are those of a rotation standing at `attack_id`. And `AllAdversarial` and
  `IndexErrorNeedsBrokenCall`, by a second invariant (`InStep`): unless the generator leaves out the incomplete batch,
  starts anew with every batch or was stopped in the middle, it has delivered exactly the batches counted by `batch_id`, so
  that the next has the length positions are drawn from (`DrawnFromBatch`). And `EpochCovers`, by a third (`CInv`): what is left in
  a generator that goes on where it stopped is the end of some order of the samples (`RestOfOrder`), whoever stopped it
  where, and what an epoch has trained is the beginning of the same order (`TrainedSoFar`); or the generator is not where
  the epoch counts it to be, and then never gets there. Nothing is summed up: to be trained once is to stand in the
  part of a permutation that has been delivered.

The assumptions are those on the constants: that a distance is a number and eps positive, that
a prediction is a label, that loops have a natural number of rounds. TLC evaluates all of them in the runs.

Model-checked only, and why:

- `CallEnds`, `ParallelCallEnds` and `Terminates`: liveness under fairness, which TLAPS does not reach.
- The run that ends in a violation needs no proof.

## 6. Plan

In the order of how much depends on each. The modules done come first.

1. AutoAttack in both modes under `AttackEnsemble` (done, and proved in both modes).
2. ConstSearch, CarliniL2, CarliniLInf (done).
3. HopSkipJump (done).
4. DecisionTrees, TreeVerification (done, with the verdicts proved right and, for one clique, exact; left: the trees of the
   other libraries).
5. CarliniL0 (done).
6. Zoo (done; left: the coordinates that are drawn, and the images of two channels orders).
7. DataGenerators, AdversarialTrainer (done; left: the trainers that are variations of it).
8. Ablation (done; left: the transformers, whose tokens are dropped instead of zeroed).
9. `Boundary`: the two trust regions of `_attack` and their step sizes. To prove: the current image is adversarial.
10. `PGD`: restarts, with the best kept by the mask of successes (376-390), and the budget of random eps.
11. `Params`: `set_params` of attacks and estimators as one module, with an abstract specification in which a
    refused call changes nothing; the derived list of preprocessors.
12. `DeepPartition`: `fit` and the vote; `Universal`: the loop over the fooling rate; SignOPT, geometric
    and Auto-PGD loops after the pattern of 3 and 10.

## 7. What is not modelled

Numerics: gradients, losses, projections, the networks themselves, and everything that is a pure formula
of its input (pre- and postprocessors, metrics, zonotopes, randomised smoothing). Attacks on data
(patches, audio, poisoning, inference) whose control is one loop over a framework's optimiser. Logging,
progress bars, plotting, the parsing of arguments. The modelled parts leave out:

- AutoAttack: `__repr__`. It prints index -1 (a sample still robust) as the last attack of the list (335), and
  in the parallel mode index 0, an ordinary run, as a sample without attack (324).
- ElasticNet: the split into batches (each is searched on its own), the learning rate and the clipping at the end.
- CarliniL2: the repeated steps inside one line search, which appear as their end; its clip and its tanh.
  Known consequences of the alias `c_old` (476), against the documented binary search (102): after a failure the
  bracket is empty, and a constant once doubled and halved may stand still.
- CarliniLInf: a `const_factor` of 1 or less passes `_check_params` (834), against the documented factor above 1
  (563), and the sweep then never ends; so does an `initial_const` of 0, which passes too. The model takes a factor above 1
  and a positive constant.
- HopSkipJump: initial images outside the clip values, for which the model is asked about another image than the one
  the walk is at, and images that are not numbers that a model holds clean: in both the step search (441) may not end.
- TreeVerification: trees of a single leaf, which the code cannot tell from an empty intersection (339); the
  norms between 1 and infinity; the norm 0 is modelled, but a sample on a threshold makes `verify` raise (429, 474)
  and its bound is not sound, so `Sound` leaves it out; `get_trees` of gradient boosting, LightGBM and CatBoost, and
  the base score that boosters add to the sum. The leaf values of forests are rounded to parts of `One`.
- CarliniL0: the constants, which are taken to stay positive and below the bound where a sample is given up. A sample that
  reaches the bound in a batch with others makes `activation_batch[do_halving]` (1110) fail, as the mask has
  the length of the active samples and not of the batch. The number of features that differ between two images (1056) is that of
  the features changed in one of them only: a feature that both change, to different values, counts 0.
- Zoo: which coordinates are drawn and how Adam moves them; images that are all black (359); probabilities that are not numbers;
  the exceptions of the draw other than that of sizes that do not fit (463-471, 482-489).
- Ablation: `fit`, `update_batchnorm`, the vision transformers and their dropped tokens; the networks. With `salman2021` `predict` of
  PyTorch returns the added raw outputs (704), where the model returns the classes with most votes; no run asks `predict` of that algorithm.
- AdversarialTrainer: `predict`. A KerasDataGenerator around a generator function raises with its first batch (213).

## 8. Where code and documentation part

Met while modelling, besides the run that ends in a violation. In each case the model does what the code does.

- AutoAttack: `estimator_orig` is documented as the estimator to be attacked (91, 362), but `run_attack` is handed
  `self.estimator` (218, 272), so success is judged by the attacked one. When all samples are misclassified from the start
  the parallel mode has no run to take the `argmin` of (297) and raises; the sequential mode returns the batch.
- CarliniL2: a comment calls what is kept the "best l2 distance and attack found so far" (277), but successes are recomputed for the whole
  batch from records that may be stale (462), and the image stored (321) is not always the one the record is of. After a line
  search that was refused, the success stays in force and the distance is the refused trial's: with an image at 40 accepted and a trial at 8
  refused, 8 is kept as the distance of the image at 40 (317-321), and an adversarial image at 10 accepted later is dropped. The
  image kept need not even be adversarial. `BestIsNearest` and `OverallIsMet` are what remains true: without its
  exception for `mistaken` samples TLC finds the former violated.
- CarliniLInf: an image counts when it leaves class `y`, also when `y` is the target (801).
- Forests of trees: `get_values_at_node` divides the weights of a leaf by their L2 norm (scikitlearn.py 368), and `verify` adds these up,
  while the library adds proportions. For two impure leaves, with proportions (0.5, 0.2, 0.3) and (1/3, 2/3, 0), the library
  answers class 1 (0.83 against 0.87) and the verification compares 1.26 with 1.22 in favour of class 0; with such a forest in
  the instance TLC finds `Sound` violated, for bounds confirmed within which the forest answers another class. With pure leaves the two agree, which is the case
  that is checked and proved.
- CarliniL0: with a warm start, the default, the distance is counted from the image the round begins with (1057, 1198), which is
  adversarial after the first success, so that nothing is minimised any more; a fixed feature keeps its perturbation, whatever
  845 says of its value; when the rounds are used up the remembered examples are not returned (1268).
- ZOO: `nb_parallel` is documented as the coordinates updated "for each sample" (112-114), but the coordinates drawn for a batch are
  reduced to those of one image (470, 480) and applied to the flattened noise (560), so that only the first image of a batch
  changes. Without resizing a batch of several images raises at once (413). After the growth of iteration 2000 an improvement has
  no place in `best_attack` (376, 427).
- AdversarialTrainer: a replaced sample is documented to become its own counterpart (57-59); `fit_generator` picks precomputed images
  through a shuffled order (149, 185) that the batch of the generator (153) does not follow. A ratio of 1 does
  not train on adversarial samples only (83) where a transferred attack meets a generator whose batches are longer than
  counted (175). A targeted attack is refused (128) after those before it were run.
- Data generators: a KerasDataGenerator around an iterable starts anew with each call (215), so that every batch is the first one. The generator
  for TensorFlow 2 ends with its data set (416), where it is documented to go on.
- Derandomized smoothing: PyTorch sweeps the number of columns also when rows are ablated (645), so that on an image wider than high a
  certificate may fail; an ablator without the extra channel zeroes the batch in place on the CPU (647), so that later votes see less and less
  of the image; `kthvalue` does not promise the index that the tie-break needs (ablators/pytorch.py 222); with logits off, `predict`
  for `levine2020` adds booleans, which is an OR and no count (698-703).
- Attacks and estimators: `set_params` assigns before it checks (attack.py 164), and the list of preprocessors is
  rebuilt only after all assignments (estimator.py 174), so that a refused call leaves what it assigned.
