----------------------------- MODULE MCSioDriver ------------------------------
(* SioDriver, for TLC: one two-byte frame per card, its address different in each half. *)
EXTENDS SioDriver

MCFrames == {258}
MCBlocks == {<<0, 3>>, <<3, 0>>}
MCButtons == {4, 5}
MCGarbage == {<<18, 90, 9>>}
==============================================================================
