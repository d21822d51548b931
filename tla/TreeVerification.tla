--------------------------- MODULE TreeVerification ---------------------------
(***************************************************************************)
(* RobustnessVerificationTreeModelsCliqueMethod.verify: for each sample a  *)
(* search for the largest eps at which no input within eps is classified   *)
(* differently, where the verdict at one eps is a bound on the score of    *)
(* the cliques of leaves that inputs within eps can reach.                 *)
(*                                                                         *)
(* Feature values, thresholds and eps are counted in parts of One, which   *)
(* stands for 1.0, and which is taken fine enough for the halves to be     *)
(* exact.                                                                  *)
(***************************************************************************)
EXTENDS DecisionTrees

CONSTANTS
  Models,        \* the ensembles to verify
  Inputs,        \* the batches x
  Labels,        \* the batches y
  EpsInits,      \* eps_init
  Norms,         \* norm: 0, 1 or Infinity
  NSearchSteps,  \* nb_search_steps
  Joins,         \* the pairs max_clique, max_level
  NSamples       \* the length of the batches

ASSUME SearchAssumption ==
  /\ One \in Nat \ {0} /\ Infinity \in Nat \ {0}
  /\ NSearchSteps \in Nat /\ NSamples \in Nat \ {0}
  /\ EpsInits \subseteq Nat \ {0}
  /\ Norms \subseteq {0, 1, Infinity}
  /\ \A join \in Joins : join[1] \in Nat \ {0} /\ join[2] \in Nat \ {0}

\* verify refuses inputs outside of [0, 1]; a label is one of the classes.
ASSUME DataAssumption ==
  /\ One < Infinity
  /\ \A xs \in Inputs : \A s \in 1 .. NSamples :
       /\ IsFiniteSet(DOMAIN xs[s]) /\ DOMAIN xs[s] # {}
       /\ xs[s] \in [DOMAIN xs[s] -> 0 .. One]
       /\ \A m \in Models : IsModel(m, DOMAIN xs[s])
  /\ \A ys \in Labels : \A s \in 1 .. NSamples : ys[s] \in Nat

VARIABLES
  model, x, y, eps_init, norm,  \* the classifier and the arguments
  max_clique, max_level,
  phase,                        \* "search", "done" or "raised"
  i_sample, i_step, eps,
  i_robust, i_not_robust,       \* whether such a step was seen
  eps_robust, eps_not_robust,
  average_bound, num_initial_successes,
  bounds, passed, failed        \* for the properties: the bounds added up so far,
                                \* and the eps of this sample by their verdict

call == <<model, x, y, eps_init, norm, max_clique, max_level>>
arguments == [model |-> model, x |-> x, y |-> y, eps_init |-> eps_init, norm |-> norm,
              max_clique |-> max_clique, max_level |-> max_level]
found == <<i_robust, i_not_robust, eps_robust, eps_not_robust>>
totals == <<average_bound, num_initial_successes, bounds>>
verdicts == <<passed, failed>>
vars == <<call, phase, i_sample, i_step, eps, found, totals, verdicts>>
-----------------------------------------------------------------------------
\* The verdict, of the arguments a of a call to verify.

\* How far an input is from an interval: a slip takes the inside for the
\* outside.
DifferenceSwapped(v, interval) == Larger(interval.upper - v, v - interval.lower)
Difference(v, interval) == Larger(v - interval.upper, interval.lower - v)

FeatureDistance(a, v, interval) ==
  IF interval.lower < v /\ v < interval.upper THEN 0
  ELSE IF a.norm = 0 THEN One ELSE Difference(v, interval)

\* _get_distance
Distance(a, box, input) ==
  IF a.norm = Infinity
  THEN Max({0} \cup {FeatureDistance(a, input[f], box[f]) : f \in DOMAIN box})
  ELSE SumFunction([f \in DOMAIN box |-> FeatureDistance(a, input[f], box[f])])

\* _get_accessible_leaves; a slip leaves out what is just within reach.
WithinReachStrict(distance, e) == distance < e
WithinReach(distance, e) == distance <= e

NoTarget == -2
Relevant(a, tree, s, target) ==
  a.model.nb_classes <= 2 \/ target = NoTarget \/ tree.class_id \in {a.y[s], target}

\* The leaves an input within e can reach, one set for each relevant tree, with
\* the values of the trees of the target negated.
AccessibleLeaves(a, s, e, target) ==
  LET trees == GetTrees(a.model)
      sign(tree) == IF a.model.nb_classes > 2 /\ tree.class_id = target THEN -1 ELSE 1
      within(tree) ==
        {[box |-> leaf.box, value |-> sign(tree) * leaf.value] :
           leaf \in {l \in tree.leaf_nodes : WithinReach(Distance(a, l.box, a.x[s]), e)}}
      leaves[i \in 0 .. Len(trees)] ==
        IF i = 0 THEN << >>
        ELSE IF Relevant(a, trees[i], s, target) THEN Append(leaves[i - 1], within(trees[i]))
        ELSE leaves[i - 1]
  IN leaves[Len(trees)]

\* _get_k_partite_clique: max_clique trees at a time are joined into one.
Join(cliques, leaves) ==
  {[box |-> Intersection(p[1].box, p[2].box), value |-> p[1].value + p[2].value] :
     p \in {q \in cliques \X leaves : DOMAIN Intersection(q[1].box, q[2].box) # {}}}

Groups(a, nodes) ==
  [g \in 1 .. (Len(nodes) + a.max_clique - 1) \div a.max_clique |->
     SubSeq(nodes, (g - 1) * a.max_clique + 1, Smaller(Len(nodes), g * a.max_clique))]

Cliques(group) ==
  LET cliques[i \in 1 .. Len(group)] ==
        IF i = 1 THEN group[1] ELSE Join(cliques[i - 1], group[i])
  IN cliques[Len(group)]

\* The worst clique for the label.
Worst(a, cliques, label) ==
  IF cliques = {} THEN 0
  ELSE LET values == {c.value : c \in cliques}
       IN IF label = 0 /\ a.model.nb_classes <= 2 THEN Max(values) ELSE Min(values)

Level(a, nodes, label) ==
  LET joined == [g \in DOMAIN Groups(a, nodes) |-> Cliques(Groups(a, nodes)[g])]
  IN [score |-> SumFunction([g \in DOMAIN joined |-> Worst(a, joined[g], label)]),
      nodes |-> joined]

\* _get_best_score: the last level, and its score.
LastLevel(a, s, e, target) ==
  LET best[level \in 0 .. a.max_level] ==
        IF level = 0 THEN [score |-> 0, nodes |-> AccessibleLeaves(a, s, e, target)]
        ELSE LET last == best[level - 1]
             IN IF level > 1 /\ Len(last.nodes) <= 1 THEN last ELSE Level(a, last.nodes, a.y[s])
  IN best[a.max_level]

BestScore(a, s, e, target) == LastLevel(a, s, e, target).score

Targets(a, s) ==
  IF a.model.nb_classes <= 2 THEN {NoTarget} ELSE (0 .. a.model.nb_classes - 1) \ {a.y[s]}

\* The verdict on sample s at e.
IsRobust(a, s, e) ==
  \A target \in Targets(a, s) :
    IF a.model.nb_classes <= 2 /\ a.y[s] = 0 THEN BestScore(a, s, e, target) < 0
                                             ELSE BestScore(a, s, e, target) > 0

\* No leaf of some tree is within reach.
NoLeaves(a, s, e) ==
  \E target \in Targets(a, s) :
    \E i \in DOMAIN AccessibleLeaves(a, s, e, target) : AccessibleLeaves(a, s, e, target)[i] = {}
-----------------------------------------------------------------------------
Init ==
  /\ model \in Models /\ x \in Inputs /\ y \in Labels
  /\ \A s \in 1 .. NSamples : y[s] < model.nb_classes
  /\ eps_init \in EpsInits /\ norm \in Norms
  /\ \E join \in Joins : max_clique = join[1] /\ max_level = join[2]
  /\ phase = "search" /\ i_sample = 1 /\ i_step = 0 /\ eps = eps_init
  /\ i_robust = FALSE /\ i_not_robust = FALSE
  /\ eps_robust = 0 /\ eps_not_robust = 0
  /\ average_bound = 0 /\ num_initial_successes = 0
  /\ bounds = << >> /\ passed = {} /\ failed = {}

Raise ==
  /\ phase = "search" /\ i_step < NSearchSteps
  /\ NoLeaves(arguments, i_sample, eps)
  /\ phase' = "raised"
  /\ UNCHANGED <<call, i_sample, i_step, eps, found, totals, verdicts>>

\* The next eps of a sample robust so far; a slip lets it grow for ever.
DoubledUncapped == eps * 2
Doubled == Smaller(eps * 2, One)

\* The next eps of a sample with both kinds of steps.
Bisected == (eps_robust' + eps_not_robust') \div 2

\* A step counts for the verified error only at eps_init.
CountsAnyStep == TRUE
Counts == i_step = 0

FoundRobust ==
  /\ num_initial_successes' = IF Counts THEN num_initial_successes + 1 ELSE num_initial_successes
  /\ i_robust' = TRUE /\ eps_robust' = eps
  /\ passed' = passed \cup {eps}
  /\ UNCHANGED <<i_not_robust, eps_not_robust, failed>>

FoundNotRobust ==
  /\ i_not_robust' = TRUE /\ eps_not_robust' = eps
  /\ failed' = failed \cup {eps}
  /\ UNCHANGED <<i_robust, eps_robust, num_initial_successes, passed>>

NextEps ==
  \/ ~i_robust' /\ eps' = eps \div 2 /\ i_step' = i_step + 1
  \/ i_robust' /\ i_not_robust' /\ eps' = Bisected /\ i_step' = i_step + 1
  \/ i_robust' /\ ~i_not_robust' /\ eps < One /\ eps' = Doubled /\ i_step' = i_step + 1
  \* the search is broken off
  \/ i_robust' /\ ~i_not_robust' /\ eps >= One /\ eps' = eps /\ i_step' = NSearchSteps

SearchStep ==
  /\ phase = "search" /\ i_step < NSearchSteps
  /\ ~NoLeaves(arguments, i_sample, eps)
  /\ IF IsRobust(arguments, i_sample, eps) THEN FoundRobust ELSE FoundNotRobust
  /\ NextEps
  /\ UNCHANGED <<call, phase, i_sample, average_bound, bounds>>

\* i_not_robust of a new sample; a slip keeps what the last one left.
FreshKept == i_not_robust
Fresh == FALSE

SampleEnd ==
  /\ phase = "search" /\ i_step = NSearchSteps
  /\ average_bound' = IF i_robust THEN average_bound + eps_robust ELSE average_bound
  /\ bounds' = Append(bounds, IF i_robust THEN eps_robust ELSE 0)
  /\ phase' = IF i_sample < NSamples THEN "search" ELSE "done"
  /\ i_sample' = IF i_sample < NSamples THEN i_sample + 1 ELSE i_sample
  /\ i_step' = 0 /\ eps' = eps_init
  /\ i_robust' = FALSE /\ i_not_robust' = Fresh
  /\ eps_robust' = 0 /\ eps_not_robust' = 0
  /\ passed' = {} /\ failed' = {}
  /\ UNCHANGED <<call, num_initial_successes>>

Over == phase \in {"done", "raised"} /\ UNCHANGED vars
Next == Raise \/ SearchStep \/ SampleEnd \/ Over
Spec == Init /\ [][Next]_vars
-----------------------------------------------------------------------------
\* The libraries' prediction: the sign of the sum, or the class with the
\* largest one.  A tie is decided for neither.
Score(point, class) ==
  LET share(i) == IF model.kind = "forest" THEN Proportion(Reached(model, i, point), class)
                  ELSE IF model.nb_classes = 2 THEN (2 * class - 1) * Reached(model, i, point)
                  ELSE IF (i - 1) % model.nb_classes = class THEN Reached(model, i, point) ELSE 0
  IN SumFunction([i \in 1 .. Len(model.trees) |-> share(i)])

Predicted(point, class) ==
  \A c \in (0 .. model.nb_classes - 1) \ {class} : Score(point, class) > Score(point, c)

Away(a, b) == IF a > b THEN a - b ELSE b - a
\* The points of the grid within e of a point.
Ball(point, e) ==
  LET features == DOMAIN point
      points == [features -> 0 .. One]
      distance(p) == CASE norm = Infinity -> Max({Away(p[f], point[f]) : f \in features})
                       [] norm = 1 -> SumFunction([f \in features |-> Away(p[f], point[f])])
                       [] norm = 0 -> One * Cardinality({f \in features : p[f] # point[f]})
  IN {p \in points : distance(p) <= e}

Robust(s, e) == \A p \in Ball(x[s], e) : Predicted(p, y[s])
-----------------------------------------------------------------------------
(***************************************************************************)
(* The search keeps its variables in the ranges the code allows: eps stays *)
(* at or below the larger of 1.0 and eps_init.                             *)
(***************************************************************************)
TypeOK ==
  /\ model \in Models /\ x \in Inputs /\ y \in Labels
  /\ eps_init \in EpsInits /\ norm \in Norms
  /\ \E join \in Joins : max_clique = join[1] /\ max_level = join[2]
  /\ phase \in {"search", "done", "raised"}
  /\ i_sample \in 1 .. NSamples /\ i_step \in 0 .. NSearchSteps
  /\ eps \in 0 .. Larger(One, eps_init)
  /\ i_robust \in BOOLEAN /\ i_not_robust \in BOOLEAN
  /\ eps_robust \in 0 .. Larger(One, eps_init)
  /\ eps_not_robust \in 0 .. Larger(One, eps_init)
  /\ passed \subseteq Nat /\ failed \subseteq Nat
  /\ average_bound \in Nat /\ num_initial_successes \in 0 .. NSamples

(***************************************************************************)
(* Every bound that is added up is one: no input within it is classified   *)
(* differently.  The verification promises nothing else (verify, 194; the  *)
(* norm 0 and some forests are known exceptions, see the README).          *)
(***************************************************************************)
Sound == norm # 0 => \A s \in DOMAIN bounds : bounds[s] > 0 => Robust(s, bounds[s])

(***************************************************************************)
(* When the levels join all trees into one clique and the norm is the      *)
(* largest difference, a verdict against the sample is not an artefact of  *)
(* the bound: an input within eps, or just beyond where a threshold is     *)
(* met, is classified differently (_get_k_partite_clique, 333-355).        *)
(***************************************************************************)
OneCliqueIsExact ==
  norm = Infinity =>
    \A e \in failed :
      (\A target \in Targets(arguments, i_sample) :
         Len(LastLevel(arguments, i_sample, e, target).nodes) <= 1)
      => ~Robust(i_sample, e + 1)

(***************************************************************************)
(* The verified error never counts a sample as verified at eps_init that   *)
(* is not robust there (256-257, 286).                                     *)
(***************************************************************************)
ErrorIsNoLess ==
  norm # 0 =>
    num_initial_successes <=
      Cardinality({s \in 1 .. NSamples : s <= i_sample /\ Robust(s, eps_init)})

(***************************************************************************)
(* Whatever the verdicts, the bound of a sample is the largest eps found   *)
(* robust, and no eps found not robust lies below it (255-275).            *)
(***************************************************************************)
BoundSeparates ==
  /\ \A e \in passed : i_robust /\ e <= eps_robust
  /\ \A e \in failed : i_not_robust /\ eps_robust <= e /\ eps_not_robust <= e

(***************************************************************************)
(* Every tree has a leaf within reach, on a threshold too, except that the *)
(* norm 0 counts a feature on a threshold as changed (422-430, 474).       *)
(***************************************************************************)
RaisesOnlyForNorm0 == phase = "raised" => norm = 0
=============================================================================
