----------------------------- MODULE DmaChannels ------------------------------
(***************************************************************************)
(* What the DMA channels promise a program: a transfer it starts is under  *)
(* way until it is done, and the program is told of each one once, after   *)
(* it is done and before it starts the next on that channel.               *)
(***************************************************************************)
CONSTANT Channels

VARIABLE channel    \* "idle", "working" or "done", by channel

Init == channel = [n \in Channels |-> "idle"]

Start(n) ==
  /\ channel[n] = "idle"
  /\ \E state \in {"working", "done"} : channel' = [channel EXCEPT ![n] = state]

Finish(n) ==
  /\ channel[n] = "working"
  /\ channel' = [channel EXCEPT ![n] = "done"]

Notice(told) ==
  /\ \A n \in told : channel[n] = "done"
  /\ channel' = [n \in Channels |-> IF n \in told THEN "idle" ELSE channel[n]]

Next ==
  \/ \E n \in Channels : Start(n) \/ Finish(n)
  \/ \E told \in SUBSET Channels : Notice(told)

Spec == Init /\ [][Next]_channel
==============================================================================
