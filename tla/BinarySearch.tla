---------------------------- MODULE BinarySearch ----------------------------
(***************************************************************************)
(* What the search for a constant (ConstSearch) and the buffers ZOO keeps  *)
(* around it (Zoo) have in common: binary_search_steps runs of an          *)
(* optimiser over max_iter iterations.                                     *)
(***************************************************************************)
EXTENDS Integers

CONSTANTS
  Steps,        \* self.binary_search_steps
  MaxIter       \* self.max_iter

ASSUME SearchAssumption == Steps \in Nat /\ MaxIter \in Nat

VARIABLES
  phase,        \* where the batch at work is
  bss           \* the binary search step
=============================================================================
