----------------------------- MODULE MCCdDriver ------------------------------
(* CdDriver, for TLC: one command of each kind. *)
EXTENDS CdDriver

MCCommands == {"Nop", "Getmode", "SeekL", "Setloc", "ReadN", "Pause", "Stop", "Setmode"}
MCEofSectors == {}
==============================================================================
