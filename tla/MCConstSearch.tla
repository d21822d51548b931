---------------------------- MODULE MCConstSearch ----------------------------
(***************************************************************************)
(* ConstSearch on two samples and two distances.  The constant starts at 4 *)
(* and reaches Cap in three failures, so that brackets are found below it, *)
(* at it and not at all.                                                   *)
(***************************************************************************)
EXTENDS ConstSearch
MCSamples == 1 .. 2
MCDists == 1 .. 2
=============================================================================
