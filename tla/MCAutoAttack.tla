---------------------------- MODULE MCAutoAttack ----------------------------
(***************************************************************************)
(* AutoAttack on a line of four points, three classes, two attacks of      *)
(* which one can be targeted.  Points 1 and 3 are 10001 apart, so that the *)
(* relative tolerance of run_attack decides, and point 4 is out of reach.  *)
(***************************************************************************)
EXTENDS AutoAttackProps

MCSamples == 1 .. 2
Position == <<0, 5000, 10001, 30000>>
MCInputs == 1 .. 4
Apart(p, q) == IF p < q THEN q - p ELSE p - q
MCNorm == [p \in MCInputs |-> [q \in MCInputs |-> Apart(Position[p], Position[q])]]
MCClassify == <<0, 1, 2, 1>>
\* Another model, with its own decision boundary.
MCOther == <<0, 0, 2, 2>>
=============================================================================
