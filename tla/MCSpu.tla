-------------------------------- MODULE MCSpu --------------------------------
(* Spu, for TLC: a sample that repeats from its second block, one that repeats *)
(* from its first, and one that is played once.                                *)
EXTENDS Spu

MCFlags == [b \in 0..5 |-> <<0, 4, 3, 4, 3, 1>>[b + 1]]
MCStarts == {0, 3, 5}
MCLoops == {1, 4}
==============================================================================
