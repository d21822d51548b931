----------------------------- MODULE MCCarliniL0 -----------------------------
(* Two samples, together in a batch or one by one, and every classifier of *)
(* the images of two features.                                             *)
EXTENDS CarliniL0
MCBatchings == {<<{1, 2}>>, <<{1}, {2}>>}
MCFeatures == 1 .. 2
MCMasks == {{1, 2}, {2}}
=============================================================================
