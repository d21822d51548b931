---------------------------- MODULE MCHopSkipJump ----------------------------
(***************************************************************************)
(* HopSkipJump on two samples, two calls of at most two iterations, with   *)
(* segments of two and four images between the ends and two step sizes.    *)
(***************************************************************************)
EXTENDS HopSkipJump
=============================================================================
