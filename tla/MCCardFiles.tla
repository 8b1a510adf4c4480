----------------------------- MODULE MCCardFiles -----------------------------
(* CardFiles, for TLC: four entries, two names. *)
EXTENDS CardFiles

CONSTANTS a, b, none

MCNames == {a, b}
MCFree == none
==============================================================================
