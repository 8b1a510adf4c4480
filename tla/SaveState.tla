------------------------------- MODULE SaveState -------------------------------
(***************************************************************************)
(* Save states (Misc.c) of a machine whose clock is RootCounters: a state  *)
(* is saved from inside psxRcntUpdate, when the frontend draws a frame,    *)
(* and loaded by a later run of the program.                               *)
(*                                                                         *)
(* SaveState writes psxCounters, the cycle counter and I_STAT, but neither *)
(* psxNextCounter nor psxNextsCounter; after a load the deadline is the    *)
(* one the new run had for its own counters.  What I_STAT was is not kept  *)
(* in the model: a load leaves everything pending, for the guest to clear. *)
(***************************************************************************)
EXTENDS RootCounters

\* The vertical blank is the shorter part of a frame, and a frame and a few
\* blocks are less than half a turn of the clock.
ASSUME FrameAssumption ==
  /\ 2 * BlankLines <= Lines
  /\ 3 * MaxBlock + ActiveRate \div BIAS <= WordRange \div 2

VARIABLES
  saved,    \* the file: the counters, or NoFile
  behind    \* ghost: a state was loaded and psxRcntUpdate did not run since

stateVars == <<vars, saved, behind>>

NoFile == <<>>

\* GPU_vSinc draws a frame and may save: VSync has its new phase already, the
\* other counters were not looked at yet.
SavingBranchTest ==
  /\ sinceTest > 0 /\ sinceTest' = 0
  /\ TestDue /\ Due(counter[VSync]) /\ "blank" \in counter[VSync].mode
  /\ saved' = [counter EXCEPT ![VSync] = VSyncEdge(@)]
  /\ RcntUpdate
  /\ behind' = FALSE

\* The program is started again: psxRcntInit.
Restart ==
  /\ counter' = [i \in Index |-> IF i = VSync THEN Upd(VSync, VSyncInit) ELSE Idle]
  /\ sinceSet' = 0 /\ psxNextCounter' = ActiveRate \div BIAS
  /\ iStat' = {} /\ sinceTest' = 0
  /\ behind' = FALSE
  /\ UNCHANGED saved

\* LoadState, once LoadCdrom has run the boot program for a while: the cycle
\* counter of the file has nothing to do with psxNextsCounter.
LoadState ==
  /\ saved # NoFile /\ sinceTest = 0
  /\ counter' = saved /\ iStat' = Index
  /\ sinceSet' \in 0..(WordRange - 1)
  /\ behind' = TRUE
  /\ UNCHANGED <<psxNextCounter, sinceTest, saved>>

\* The steps of RootCounters.
Play ==
  \/ BranchTest /\ behind' = (behind /\ ~TestDue) /\ UNCHANGED saved
  \/ (Cpu \/ Guest \/ \E i \in Index : ClearIStat(i)) /\ UNCHANGED <<behind, saved>>

StateInit == Init /\ saved = NoFile /\ behind = FALSE

StateNext == Play \/ SavingBranchTest \/ Restart \/ LoadState

StateSpec == StateInit /\ [][StateNext]_stateVars

------------------------------------------------------------------------------
(* Properties *)

\* A counter of a loaded state is late by at most what remained of the deadline
\* of the run before the load, half a phase of the frame, and two blocks: the one
\* the state was saved in and the one in which the difference to
\* psxNextsCounter may wrap.  The next psxRcntUpdate makes up for it, and from
\* there on every counter is late by less than a block again.
LateAfterLoad ==
  \A i \in Index : Scheduled(i) =>
    counter[i].elapsed <= counter[i].Cycle + sinceTest
                          + (IF behind THEN 2 * MaxBlock + ActiveRate \div BIAS ELSE 0)

\* The inductive invariant the proofs use, in parts.  What every update leaves
\* of the counters, in memory and in the file.
LateBy(counters, n) ==
  \A i \in Index :
    counters[i].Cycle # Never => counters[i].elapsed <= counters[i].Cycle + n

Sound(counters) ==
  /\ counters \in [Index -> Counters]
  /\ \A i \in Index : counters[i].Cycle # Never => counters[i].Cycle <= Farthest
  /\ {"target", "repeat"} \subseteq counters[VSync].mode
  /\ counters[VSync].target = 1 /\ counters[VSync].count = 0
  /\ counters[VSync].Cycle =
       (IF "blank" \in counters[VSync].mode THEN BlankRate ELSE ActiveRate) \div BIAS
  /\ \A i \in Index :
       "repeat" \in counters[i].mode /\ Enabled(i, counters[i].mode) =>
         counters[i].Cycle # Never

\* A state is saved at the end of the blank, and a loaded one is not saved
\* again before an update.
FileSound ==
  saved # NoFile =>
    Sound(saved) /\ LateBy(saved, MaxBlock) /\ "blank" \notin saved[VSync].mode

\* Once a test after the load found nothing due, the deadline counts.
DeadlineCounts ==
  /\ sinceSet <= psxNextCounter + sinceTest
  /\ psxNextCounter # 0 => LateBy(counter, 2 * MaxBlock + sinceSet)
  /\ LateBy(counter, 2 * MaxBlock + ActiveRate \div BIAS + sinceTest)

StateIInv ==
  /\ Sound(counter) /\ FileSound
  /\ sinceSet \in Word /\ psxNextCounter \in 0..(ActiveRate \div BIAS)
  /\ iStat \subseteq Index /\ sinceTest \in 0..MaxBlock /\ behind \in BOOLEAN
  /\ ~behind => LateBy(counter, sinceTest) /\ Deadline
  /\ behind => /\ "blank" \notin counter[VSync].mode
               /\ LateBy(counter, MaxBlock + sinceTest) \/ DeadlineCounts
==============================================================================
