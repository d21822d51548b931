---------------------------- MODULE DecisionTrees ----------------------------
(***************************************************************************)
(* Decision trees, the boxes of their leaves, and the list of trees that a *)
(* classifier hands to the verification.                                   *)
(*                                                                         *)
(* The nodes of a tree are numbered like a heap: node n splits on a        *)
(* feature at a threshold, 2n is its left child, 2n + 1 its right one.     *)
(***************************************************************************)
EXTENDS Integers, Sequences, FiniteSetsExt, Functions

CONSTANTS
  One,       \* what stands for 1.0, of feature values and of the leaves of a forest
  Infinity   \* above every feature value and threshold

\* A box gives intervals to some features.  One without any is two things at
\* once: the whole space and the empty intersection.
EmptyBox == [f \in {} |-> 0]

Larger(a, b) == IF a > b THEN a ELSE b
Smaller(a, b) == IF a < b THEN a ELSE b

\* Intervals that only touch have nothing in common; a slip keeps the point.
DisjointBelow(lower, upper) == lower > upper
Disjoint(lower, upper) == lower >= upper

\* Box.get_intersection, and what Box.intersect_with_box turns the box into.
Intersection(a, b) ==
  LET common == DOMAIN a \cap DOMAIN b
      lower(f) == Larger(a[f].lower, b[f].lower)
      upper(f) == Smaller(a[f].upper, b[f].upper)
  IN IF \E f \in common : Disjoint(lower(f), upper(f)) THEN EmptyBox
     ELSE [f \in DOMAIN a \cup DOMAIN b |->
             CASE f \in common   -> [lower |-> lower(f), upper |-> upper(f)]
               [] f \in DOMAIN a \ common -> a[f]
               [] f \in DOMAIN b \ common -> b[f]]

\* The side of its parent's split that node n is on.
HalfSpace(tree, n) ==
  LET split == tree.splits[n \div 2]
  IN [f \in {split.feature} |->
        IF n % 2 = 0 THEN [lower |-> -Infinity, upper |-> split.threshold]
                     ELSE [lower |-> split.threshold, upper |-> Infinity]]

\* _get_leaf_nodes, from the root down to the leaves.
BoxOf(tree) ==
  LET box[n \in DOMAIN tree.splits \cup DOMAIN tree.values] ==
        IF n = 1 THEN EmptyBox
        ELSE IF DOMAIN box[n \div 2] = {} THEN HalfSpace(tree, n)
        ELSE Intersection(box[n \div 2], HalfSpace(tree, n))
  IN box

LeafNodes(tree) ==
  {[box |-> BoxOf(tree)[n], value |-> tree.values[n]] : n \in DOMAIN tree.values}

\* XGBoostClassifier.get_trees: a tree for each round and class in turn.
BoosterTrees(model) ==
  [i \in 1 .. Len(model.trees) |->
     [class_id |-> IF model.nb_classes = 2 THEN -1 ELSE (i - 1) % model.nb_classes,
      leaf_nodes |-> LeafNodes(model.trees[i])]]

\* ScikitlearnDecisionTreeClassifier.get_values_at_node: the weights of the
\* classes at a node of a forest, divided by their norm (rounded to parts of One).
UnitValue(weights, class) ==
  LET squares == [c \in DOMAIN weights |-> weights[c] * weights[c]]
      square == (One * One * squares[class]) \div SumFunction(squares)
  IN Max({part \in 0 .. One : part * part <= square})

\* ScikitlearnRandomForestClassifier.get_trees: every tree for every class.
ForestTrees(model) ==
  [i \in 1 .. Len(model.trees) * model.nb_classes |->
     LET class == (i - 1) % model.nb_classes
         leaves == LeafNodes(model.trees[((i - 1) \div model.nb_classes) + 1])
     IN [class_id |-> class,
         leaf_nodes |-> {[box |-> leaf.box, value |-> UnitValue(leaf.value, class)] : leaf \in leaves}]]

GetTrees(model) == IF model.kind = "booster" THEN BoosterTrees(model) ELSE ForestTrees(model)
-----------------------------------------------------------------------------
\* What the libraries predict: a point runs down to a leaf, to the left of a
\* threshold for lesser values and, in a forest, for equal ones.
Reached(model, i, point) ==
  LET tree == model.trees[i]
      left(n) == LET split == tree.splits[n] IN
                 \/ point[split.feature] < split.threshold
                 \/ model.kind = "forest" /\ point[split.feature] = split.threshold
      leaf[n \in DOMAIN tree.splits \cup DOMAIN tree.values] ==
        IF n \in DOMAIN tree.values THEN tree.values[n]
        ELSE IF left(n) THEN leaf[2 * n] ELSE leaf[2 * n + 1]
  IN leaf[1]

\* What a leaf of a forest says for a class: its part of the weights.
Proportion(weights, class) == (One * weights[class]) \div SumFunction(weights)
-----------------------------------------------------------------------------
Nodes(tree) == DOMAIN tree.splits \cup DOMAIN tree.values

\* What the libraries build: a split has two children, every node but the root
\* has a split above it, and the root is a split (see BoxOf for why it must be).
IsTree(tree, features) ==
  /\ IsFiniteSet(Nodes(tree)) /\ Nodes(tree) \subseteq Nat \ {0}
  /\ DOMAIN tree.splits \cap DOMAIN tree.values = {} /\ 1 \in DOMAIN tree.splits
  /\ \A n \in Nodes(tree) \ {1} : n \div 2 \in DOMAIN tree.splits
  /\ \A n \in DOMAIN tree.splits :
       /\ {2 * n, 2 * n + 1} \subseteq Nodes(tree)
       /\ tree.splits[n].feature \in features
       /\ tree.splits[n].threshold \in Int

IsModel(model, features) ==
  /\ model.kind \in {"booster", "forest"} /\ model.nb_classes \in Nat \ {0, 1}
  /\ Len(model.trees) \in Nat /\ DOMAIN model.trees = 1 .. Len(model.trees)
  /\ \A i \in DOMAIN model.trees : IsTree(model.trees[i], features)
  /\ \A i \in DOMAIN model.trees : \A n \in DOMAIN model.trees[i].values :
       LET value == model.trees[i].values[n]
       IN IF model.kind = "booster" THEN value \in Int
                                    ELSE /\ value \in [0 .. model.nb_classes - 1 -> Nat]
                                         /\ \E c \in DOMAIN value : value[c] > 0
=============================================================================
