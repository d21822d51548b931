------------------------------- MODULE MCZoo -------------------------------
(* Images of two coordinates that grow at the iterations 1 and 2. *)
EXTENDS Zoo
MCSetups == SetupType
MCGrowAt == {1, 2}
=============================================================================
