--------------------------------- MODULE Dma ----------------------------------
(***************************************************************************)
(* The DMA channels of PsxHw.c, PsxDma.c and Mdec.c: a write to a          *)
(* channel's control word starts a transfer, which the code makes at once; *)
(* what differs is when the channel says so.  Most channels are idle again *)
(* before the write returns.  A transfer to the GPU, and one from the MDEC,*)
(* stay busy until an event of psxBranchTest; and the MDEC's event comes   *)
(* twice, first for the channel and then for the decoder's busy bit.       *)
(*                                                                         *)
(* DmaDriver.tla has the guest.  The data moved is left out.               *)
(***************************************************************************)
EXTENDS Integers

CONSTANT Channels   \* the channels the guest uses, some of AllChannels

VARIABLES
  busy,       \* channels with bit 24 of HW_DMAn_CHCR
  pcr,        \* channels enabled in HW_DMA_PCR
  icrEnable,  \* bits 16.. of HW_DMA_ICR: channels that may interrupt
  icrFlags,   \* bits 24.. of HW_DMA_ICR: channels that have interrupted
  iStat,      \* bit 3 of I_STAT
  evGpu,      \* psxRegs->interrupt & 0x01000000
  evMdec,     \* psxRegs->interrupt & 0x02000000
  mdecBusy    \* MDEC1_BUSY in mdec.reg1

icrVars == <<icrFlags, iStat>>
eventVars == <<evGpu, evMdec>>
vars == <<busy, pcr, icrEnable, icrVars, eventVars, mdecBusy>>

\* MDEC in, MDEC out, GPU, CD-ROM, SPU and ordering table.
AllChannels == {0, 1, 2, 3, 4, 6}
MdecOut == 1
Gpu == 2

ASSUME ChannelsAssumption == Channels \subseteq AllChannels

\* What psxDmaN makes of a control word: "now" finishes before it returns,
\* "later" leaves an event, "refused" returns from an unknown word at once.
Outcomes(n) ==
  CASE n = 0 -> {"now", "refused"}
    [] n = MdecOut -> {"later", "refused"}
    [] n = Gpu -> {"now", "later"}
    [] OTHER -> {"now"}

------------------------------------------------------------------------------

\* DMA_INTERRUPT for the channels in done.
InterruptNoStat(done) ==                                         \* mutant
  icrFlags' = icrFlags \cup (done \cap icrEnable) /\ UNCHANGED iStat
Interrupt(done) ==
  /\ icrFlags' = icrFlags \cup (done \cap icrEnable)
  /\ iStat' = (iStat \/ done \cap icrEnable # {})

\* DmaExec: a busy channel ignores the write; one that is not enabled is only
\* marked busy.
StartOnly(n) ==
  /\ busy' = busy \cup {n}
  /\ UNCHANGED <<icrVars, eventVars, mdecBusy>>

FinishNow(n) ==
  /\ Interrupt({n})
  /\ UNCHANGED <<busy, eventVars, mdecBusy>>

FinishLater(n) ==
  /\ busy' = busy \cup {n}
  /\ evGpu' = (evGpu \/ n = Gpu)
  /\ evMdec' = (evMdec \/ n = MdecOut)
  /\ mdecBusy' = (mdecBusy \/ n = MdecOut)
  /\ UNCHANGED icrVars

DmaExec(n, outcome) ==
  /\ n \notin busy
  /\ \/ (n \notin pcr \/ outcome = "refused") /\ StartOnly(n)
     \/ n \in pcr /\ outcome = "now" /\ FinishNow(n)
     \/ n \in pcr /\ outcome = "later" /\ FinishLater(n)
  /\ UNCHANGED <<pcr, icrEnable>>

GpuStaysBusy == UNCHANGED busy                                   \* mutant
GpuIdle == busy' = busy \ {Gpu}

GpuInterrupt ==
  /\ evGpu
  /\ evGpu' = FALSE
  /\ GpuIdle
  /\ Interrupt({Gpu})
  /\ UNCHANGED <<pcr, icrEnable, evMdec, mdecBusy>>

\* mdec1Interrupt, first for the channel, then for the decoder.
AgainNever == evMdec' = FALSE                                    \* mutant
Again == UNCHANGED evMdec

Mdec1Interrupt ==
  /\ evMdec
  /\ IF MdecOut \in busy
       THEN /\ Again
            /\ busy' = busy \ {MdecOut}
            /\ Interrupt({MdecOut})
            /\ UNCHANGED mdecBusy
       ELSE /\ evMdec' = FALSE
            /\ mdecBusy' = FALSE
            /\ UNCHANGED <<busy, icrVars>>
  /\ UNCHANGED <<pcr, icrEnable, evGpu>>

Events == GpuInterrupt \/ Mdec1Interrupt

\* The other registers.  A write to ICR replaces its low bits and clears the
\* flags it has a 1 for; mdecWrite1 can reset the decoder.
WritePcr(enabled) ==
  /\ pcr' = enabled
  /\ UNCHANGED <<busy, icrEnable, icrVars, eventVars, mdecBusy>>

FlagsDropped(clear) == {}                                        \* mutant
FlagsKept(clear) == icrFlags                                     \* mutant
FlagsLeft(clear) == icrFlags \ clear

WriteIcr(enable, clear) ==
  /\ icrEnable' = enable
  /\ icrFlags' = FlagsLeft(clear)
  /\ UNCHANGED <<busy, pcr, iStat, eventVars, mdecBusy>>

MdecReset ==
  /\ mdecBusy' = FALSE
  /\ UNCHANGED <<busy, pcr, icrEnable, icrVars, eventVars>>

ClearIStat ==
  /\ iStat
  /\ iStat' = FALSE
  /\ UNCHANGED <<busy, pcr, icrEnable, icrFlags, eventVars, mdecBusy>>

\* psxHwReset clears all hardware registers, mdecInit the decoder's.
Init ==
  /\ busy = {} /\ pcr = {} /\ icrEnable = {} /\ icrFlags = {}
  /\ iStat = FALSE /\ evGpu = FALSE /\ evMdec = FALSE /\ mdecBusy = FALSE
==============================================================================
