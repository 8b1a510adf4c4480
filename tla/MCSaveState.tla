----------------------------- MODULE MCSaveState -----------------------------
(* SaveState, for TLC: one counter the guest may start over and over again. *)
EXTENDS SaveState

MCGuestCounters == {0}
MCValues == {2}
MCModes == {{"target", "repeat"}}

\* Nothing depends on I_STAT, which the guest clears in any order.
Clock == <<counter, sinceSet, psxNextCounter, sinceTest, saved, behind>>
==============================================================================
