------------------------------- MODULE Carlini -------------------------------
(***************************************************************************)
(* What the methods of carlini.py that repeat an inner attack have in      *)
(* common: a place in generate, and the images it has come to.             *)
(***************************************************************************)
EXTENDS Integers

VARIABLES
  phase,   \* where generate is
  x_adv    \* x_adv: for CarliniL0 of every sample, for CarliniLInf of one
=============================================================================
