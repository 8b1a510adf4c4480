------------------------------- MODULE MemCards -------------------------------
(***************************************************************************)
(* What the memory cards of the two slots promise the program that uses    *)
(* them: a write stores the whole block in the frame and the card it was   *)
(* asked for, in one step, or is given up and stores nothing; a read       *)
(* returns the whole block that was stored there last.                     *)
(***************************************************************************)
EXTENDS Integers

CONSTANTS
  Frames,    \* the frames of a card
  Blocks     \* the contents a frame can have

VARIABLES
  card,      \* the block in each frame of each slot
  request,   \* what the program is asking for
  result     \* the block a read returned, until the next request

cardVars == <<card, request, result>>

None == [op |-> "none"]

Requests ==
  {None}
  \cup [op : {"read"}, slot : 1..2, frame : Frames]
  \cup [op : {"write"}, slot : 1..2, frame : Frames, block : Blocks]

Init ==
  /\ \E block \in Blocks : card = [s \in 1..2 |-> [f \in Frames |-> block]]
  /\ request = None
  /\ result = <<>>

Ask ==
  /\ request = None
  /\ request' \in Requests \ {None}
  /\ result' = <<>>
  /\ UNCHANGED card

GiveUp == request # None /\ request' = None /\ UNCHANGED <<card, result>>

Store ==
  /\ request.op = "write"
  /\ card' = [card EXCEPT ![request.slot][request.frame] = request.block]
  /\ request' = None
  /\ UNCHANGED result

Load ==
  /\ request.op = "read"
  /\ result' = card[request.slot][request.frame]
  /\ request' = None
  /\ UNCHANGED card

Next == Ask \/ GiveUp \/ Store \/ Load

Spec == Init /\ [][Next]_cardVars
==============================================================================
