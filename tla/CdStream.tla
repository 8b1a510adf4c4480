------------------------------- MODULE CdStream -------------------------------
(***************************************************************************)
(* What a reading CD-ROM drive promises the program that uses it: once     *)
(* located and started it delivers the sectors of the disc one after the   *)
(* other, each exactly once, until it is stopped.  The memory of the       *)
(* program always holds the sector delivered last.                         *)
(***************************************************************************)
EXTENDS Integers

CONSTANTS SectorCount   \* sectors on the disc, numbered from 0

VARIABLES
  on,       \* the drive is reading
  pos,      \* the sector it delivers next
  memory    \* the sector in the program's memory, -1 for none


streamVars == <<on, pos, memory>>

Init == on = FALSE /\ pos = 0 /\ memory = -1

\* The program positions the drive, which stops reading.
Locate(s) == pos' = s /\ on' = FALSE /\ UNCHANGED memory

Start == on' = TRUE /\ UNCHANGED <<pos, memory>>

Halt == on' = FALSE /\ UNCHANGED <<pos, memory>>

Deliver ==
  /\ on
  /\ memory' = pos
  /\ pos' = (pos + 1) % SectorCount
  /\ UNCHANGED on

Next ==
  \/ \E s \in 0..(SectorCount - 1) : Locate(s)
  \/ Start
  \/ Halt
  \/ Deliver

Spec == Init /\ [][Next]_streamVars
==============================================================================
