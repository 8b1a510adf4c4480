------------------------------ MODULE DmaDriver -------------------------------
(***************************************************************************)
(* The DMA channels used by a guest program that never starts a channel    *)
(* again before it was told of the end of the transfer.  One handler takes *)
(* the interrupt: it clears I_STAT, reads which channels have ended, and   *)
(* writes their flags back to clear them.  The events come between any two *)
(* of these accesses.                                                      *)
(*                                                                         *)
(* The guest also misuses channels: it starts one that is not enabled, or  *)
(* with a control word psxDmaN does not know.  The code then leaves the    *)
(* channel busy, and a busy channel accepts no other control word.         *)
(***************************************************************************)
EXTENDS Dma

VARIABLES
  pending,  \* channels started, and not told of yet
  misused,  \* those of them started in a way that leaves them busy
  hpc,      \* "main", or the handler's next access: "read" or "write"
  seen      \* the flags the handler read

driverVars == <<pending, misused, hpc, seen>>
allVars == <<vars, driverVars>>

Goto(from, to) == hpc = from /\ hpc' = to

Transfer(n, outcome) ==
  /\ hpc = "main"
  /\ n \notin pending
  /\ DmaExec(n, outcome)
  /\ pending' = pending \cup {n}
  /\ misused' = IF n \in pcr /\ outcome # "refused" THEN misused
                                                    ELSE misused \cup {n}
  /\ UNCHANGED <<hpc, seen>>

Enable(n) ==
  /\ hpc = "main"
  /\ \E on \in BOOLEAN : WritePcr(IF on THEN pcr \cup {n} ELSE pcr \ {n})
  /\ UNCHANGED driverVars

ResetDecoder == hpc = "main" /\ MdecReset /\ UNCHANGED driverVars

EnterHandler ==
  /\ Goto("main", "read")
  /\ ClearIStat
  /\ UNCHANGED <<pending, misused, seen>>

ReadIcr ==
  /\ Goto("read", "write")
  /\ seen' = icrFlags
  /\ UNCHANGED <<vars, pending, misused>>

WriteBack ==
  /\ Goto("write", "main")
  /\ WriteIcr(Channels, seen)
  /\ pending' = pending \ seen
  /\ misused' = misused \ seen
  /\ seen' = {}

Handler == EnterHandler \/ ReadIcr \/ WriteBack

DriverEvents == Events /\ UNCHANGED driverVars

\* Before its first transfer the guest lets its channels interrupt.
SetUp ==
  /\ icrEnable # Channels
  /\ hpc = "main"
  /\ WriteIcr(Channels, {})
  /\ UNCHANGED driverVars

DriverInit ==
  /\ Init
  /\ pending = {} /\ misused = {} /\ hpc = "main" /\ seen = {}

DriverNext ==
  \/ SetUp
  \/ /\ icrEnable = Channels
     /\ \/ \E n \in Channels :
             \/ Enable(n)
             \/ \E outcome \in Outcomes(n) : Transfer(n, outcome)
        \/ ResetDecoder
        \/ Handler
        \/ DriverEvents

\* psxBranchTest, called at every branch, runs what is due, and the guest's
\* handler runs to its end.
DriverSpec ==
  /\ DriverInit /\ [][DriverNext]_allVars
  /\ WF_allVars(Handler)
  /\ WF_allVars(GpuInterrupt /\ UNCHANGED driverVars)
  /\ WF_allVars(Mdec1Interrupt /\ UNCHANGED driverVars)

------------------------------------------------------------------------------
(* Properties *)

\* Every variable keeps its type; only a channel the guest waits for is busy.
TypeOK ==
  /\ pcr \subseteq Channels
  /\ icrEnable \subseteq Channels /\ icrFlags \subseteq Channels
  /\ iStat \in BOOLEAN /\ mdecBusy \in BOOLEAN
  /\ evGpu \in BOOLEAN /\ evMdec \in BOOLEAN
  /\ busy \subseteq pending /\ pending \subseteq Channels
  /\ misused \subseteq pending
  /\ hpc \in {"main", "read", "write"} /\ seen \subseteq icrFlags

\* A completion the handler has not seen has an interrupt behind it, also one
\* that came between two accesses of the handler (DMA_INTERRUPT sets both).
CompletionInterrupts ==
  icrFlags \ seen # {} => iStat \/ hpc = "read"

\* The decoder does not stay busy for ever: the second run of mdec1Interrupt,
\* which ends it, is scheduled as long as it is, whatever was started between.
DecoderBusyEnds == mdecBusy => evMdec

\* The guest is told of every transfer once, and not while it is under way.
Promised == INSTANCE DmaChannels WITH
  channel <- [n \in Channels |->
                IF n \notin pending THEN "idle"
                ELSE IF n \in busy THEN "working" ELSE "done"]
OncePerTransfer == Promised!Spec

\* A transfer of an enabled channel, with a control word the code knows, ends
\* and the guest is told.
TransferNoticed ==
  \A n \in Channels : n \in pending \ misused ~> n \notin pending

\* The inductive invariant behind the properties above: a flag is one of a
\* transfer that is over, and the GPU's event one of a transfer under way.
IInv ==
  /\ TypeOK
  /\ CompletionInterrupts
  /\ DecoderBusyEnds
  /\ icrFlags \subseteq pending \ busy
  /\ evGpu => Gpu \in busy
  /\ hpc # "write" => seen = {}
==============================================================================
