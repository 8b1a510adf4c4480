---------------------------- MODULE MCDmaDriver -----------------------------
(* DmaDriver, for TLC: both MDEC channels, the GPU's, and one of the others. *)
EXTENDS DmaDriver

MCChannels == {0, 1, 2, 3}
==============================================================================
