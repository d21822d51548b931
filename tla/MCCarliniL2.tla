---------------------------- MODULE MCCarliniL2 ----------------------------
(***************************************************************************)
(* CarliniL2 on a batch of two samples.  The constants 16 and 32 lie on    *)
(* the two sides of 40 - 8: whether a miss at 8 is better than a hit at 40 *)
(* depends on the constant.  At 64 a sample is given up.                   *)
(***************************************************************************)
EXTENDS CarliniL2
MCTwo == 1 .. 2
MCL2s == {8, 40}
MCMargins == {0, 1}
=============================================================================
