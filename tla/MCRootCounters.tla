--------------------------- MODULE MCRootCounters ----------------------------
(* RootCounters, for TLC, with a small word and short frames. *)
EXTENDS RootCounters

MCGuestCounters == {0}
MCValues == {0, 2}
MCModes ==
  {{}, {"stop", "top"}, {"target", "repeat"}, {"target", "repeat", "slow"}}
==============================================================================
