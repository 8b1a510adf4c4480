------------------------------ MODULE MCCdRom -------------------------------
(* CdRom with an arbitrary guest, for TLC. *)
EXTENDS CdRom

MCCommands == {"Test", "Pause", "Setloc", "Play", "Setmode", "ReadN", "Nop"}
MCEofSectors == {0}
==============================================================================
