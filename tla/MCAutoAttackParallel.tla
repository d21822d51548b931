------------------------ MODULE MCAutoAttackParallel ------------------------
(***************************************************************************)
(* The parallel AutoAttack on two samples, three classes, two attacks      *)
(* (four runs when targeted) and two workers.  The first point has another *)
(* just within eps, thanks to the tolerance, and a nearer one; Norm2       *)
(* orders the two unlike NormOrd, as the two norms of the code may.  The   *)
(* two are not within eps of each other.                                   *)
(***************************************************************************)
EXTENDS AutoAttackParallelProps

MCWorkers == 1 .. 2
MCSamples == 1 .. 2
MCInputs == 1 .. 3
Position == <<8000, 18001, 0>>
Apart(p, q) == IF p < q THEN q - p ELSE p - q
MCNorm == [p \in MCInputs |-> [q \in MCInputs |-> Apart(Position[p], Position[q])]]
Position2 == <<6, 1, 12>>
MCNorm2 == [p \in MCInputs |-> [q \in MCInputs |-> Apart(Position2[p], Position2[q])]]
MCClassify == <<0, 1, 2>>
=============================================================================
