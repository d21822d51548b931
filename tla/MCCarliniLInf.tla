---------------------------- MODULE MCCarliniLInf ----------------------------
(***************************************************************************)
(* CarliniLInf with three classes, tau from 16 / 256 on and factor 1 / 2:  *)
(* distances on both sides of the first limit and between the later ones.  *)
(***************************************************************************)
EXTENDS CarliniLInf
MCLabels == {"y", "a", "b"}
MCDeltas == {1, 3, 7, 12, 20}
=============================================================================
