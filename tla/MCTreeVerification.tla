------------------------- MODULE MCTreeVerification -------------------------
(***************************************************************************)
(* Two features, trees of at most two splits whose thresholds meet, and    *)
(* batches of two samples, some of them on a threshold.                    *)
(***************************************************************************)
EXTENDS TreeVerification, TLC

Split(f, t) == [feature |-> f, threshold |-> t]
Stump(f, t, low, high) == [splits |-> 1 :> Split(f, t), values |-> 2 :> low @@ 3 :> high]
\* A stump whose left child splits again.
Branch(f, t, g, u, low, middle, high) ==
  [splits |-> 1 :> Split(f, t) @@ 2 :> Split(g, u),
   values |-> 4 :> low @@ 5 :> middle @@ 3 :> high]

Booster(n, trees) == [kind |-> "booster", nb_classes |-> n, trees |-> trees]
Trees == {Stump(1, 6, -2, 1), Stump(2, 10, 3, -1), Branch(1, 12, 2, 4, 1, -2, 2)}
Boosters2 == {Booster(2, trees) : trees \in [1 .. 3 -> Trees]}
Boosters3 ==
  {Booster(3, <<Stump(1, 6, 2, 0), Stump(2, 10, 1, 0), a, b, Stump(1, 12, -1, 2),
                Stump(2, 4, 0, 1)>>) : a \in Trees, b \in Trees}

Forest(n, trees) == [kind |-> "forest", nb_classes |-> n, trees |-> trees]
\* A pure leaf: all the samples that reached it were of one class.
Pure(n, class, weight) == [c \in 0 .. n - 1 |-> IF c = class THEN weight ELSE 0]
Forests3 ==
  LET one == Stump(1, 6, Pure(3, 0, 2), Pure(3, 1, 1))
      two == Stump(2, 10, Pure(3, 0, 1), Pure(3, 2, 3))
      three == Branch(1, 12, 2, 4, Pure(3, 1, 1), Pure(3, 0, 2), Pure(3, 2, 1))
  IN {Forest(3, <<one, two>>), Forest(3, <<three, two>>)}
MCModels == Boosters2 \cup Boosters3 \cup Forests3

MCForests ==
  LET class0 == Pure(2, 0, 1)
      class1 == Pure(2, 1, 1)
  IN {Forest(2, <<Stump(1, 6, class0, class1), Stump(1, 4, class0, class1),
                  Stump(2, 6, class0, class1)>>)}
MCForestInputs == {<< <<8, 8>>, <<3, 4>> >>}
MCForestLabels == {<<1, 0>>}
MCForestNorms == {Infinity}

MCInputs == {<< <<8, 8>>, <<3, 4>> >>, << <<12, 2>>, <<8, 13>> >>}
MCLabels == {<<0, 1>>, <<1, 0>>, <<1, 1>>, <<2, 0>>}
MCJoins == {<<2, 1>>, <<2, 2>>}
MCNorms == {0, 1, Infinity}
=============================================================================
