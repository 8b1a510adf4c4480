----------------------------- MODULE MCBiosKernel -----------------------------
(* BiosKernel, for TLC: one counter and VSync raise interrupts. *)
EXTENDS BiosKernel

MCRaised == {0, VSync}
MCMasks == {{}, {0, VSync}}
==============================================================================
