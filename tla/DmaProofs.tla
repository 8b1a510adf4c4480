------------------------------ MODULE DmaProofs -------------------------------
(***************************************************************************)
(* Proofs about the DMA channels of DmaDriver.tla, for every set of        *)
(* channels a guest uses.                                                  *)
(***************************************************************************)
EXTENDS DmaDriver, TLAPS

\* DMA_INTERRUPT, for one channel that has just become idle: its flag is the
\* only one that can appear, and then the interrupt is raised.
LEMMA InterruptEffect ==
  ASSUME NEW n, Interrupt({n}), iStat \in BOOLEAN
  PROVE  /\ icrFlags \subseteq icrFlags'
         /\ icrFlags' \subseteq icrFlags \cup ({n} \cap icrEnable)
         /\ iStat' \in BOOLEAN
         /\ iStat => iStat'
         /\ icrFlags' # icrFlags => iStat'
BY DEF Interrupt

\* The guest starts in the invariant.
LEMMA InitIInv == DriverInit => IInv
BY DEF DriverInit, Init, IInv, TypeOK, CompletionInterrupts, DecoderBusyEnds

\* Starting a transfer keeps the invariant, whether it ends at once, later or
\* never.
LEMMA TransferStep ==
  ASSUME IInv, icrEnable = Channels, NEW n \in Channels,
         NEW outcome \in Outcomes(n), Transfer(n, outcome)
  PROVE  IInv'
<1> USE DEF IInv, TypeOK, CompletionInterrupts, DecoderBusyEnds, Transfer,
            DmaExec, icrVars, eventVars
<1>0. misused' \subseteq pending' /\ pending' = pending \cup {n}
  OBVIOUS
<1>1. CASE StartOnly(n)
  BY <1>0, <1>1 DEF StartOnly
<1>2. CASE FinishNow(n)
  <2>1. Interrupt({n}) /\ UNCHANGED <<busy, evGpu, evMdec, mdecBusy>>
    BY <1>2 DEF FinishNow
  <2>2. QED
    BY <1>0, <2>1, InterruptEffect
<1>3. CASE FinishLater(n)
  BY <1>0, <1>3 DEF FinishLater
<1>4. QED
  BY <1>1, <1>2, <1>3

\* The end of a GPU transfer keeps the invariant.
LEMMA GpuStep ==
  ASSUME IInv, icrEnable = Channels, GpuInterrupt, UNCHANGED driverVars
  PROVE  IInv'
<1> USE DEF IInv, TypeOK, driverVars
<1>1. /\ Interrupt({Gpu}) /\ evGpu' = FALSE /\ busy' = busy \ {Gpu}
      /\ UNCHANGED <<pcr, icrEnable, evMdec, mdecBusy>>
  BY DEF GpuInterrupt, GpuIdle
<1>2. Gpu \in busy
  BY DEF GpuInterrupt
<1>3. QED
  BY <1>1, <1>2, InterruptEffect DEF CompletionInterrupts, DecoderBusyEnds

\* Both runs of the MDEC's event keep the invariant.
LEMMA MdecStep ==
  ASSUME IInv, icrEnable = Channels, Mdec1Interrupt, UNCHANGED driverVars
  PROVE  IInv'
<1> USE DEF IInv, TypeOK, driverVars
<1>1. CASE MdecOut \in busy
  <2>1. /\ Interrupt({MdecOut}) /\ busy' = busy \ {MdecOut}
        /\ UNCHANGED <<pcr, icrEnable, evMdec, evGpu, mdecBusy>>
    BY <1>1 DEF Mdec1Interrupt, Again
  <2>2. MdecOut # Gpu
    BY DEF MdecOut, Gpu
  <2>3. MdecOut \in pending /\ iStat \in BOOLEAN
    BY <1>1
  <2>4. /\ icrFlags \subseteq icrFlags'
        /\ icrFlags' \subseteq icrFlags \cup ({MdecOut} \cap icrEnable)
        /\ iStat' \in BOOLEAN
        /\ iStat => iStat'
        /\ icrFlags' # icrFlags => iStat'
    BY <2>1, <2>3, InterruptEffect
  <2>5. TypeOK'
    BY <1>1, <2>1, <2>4
  <2>6. CompletionInterrupts' /\ DecoderBusyEnds'
    BY <2>1, <2>4 DEF CompletionInterrupts, DecoderBusyEnds
  <2>7. icrFlags' \subseteq pending' \ busy' /\ (evGpu' => Gpu \in busy')
    BY <2>1, <2>2, <2>3, <2>4
  <2>8. QED
    BY <2>5, <2>6, <2>7
<1>2. CASE MdecOut \notin busy
  BY <1>2 DEF Mdec1Interrupt, icrVars, CompletionInterrupts, DecoderBusyEnds
<1>3. QED
  BY <1>1, <1>2

\* Each access of the handler keeps the invariant.
LEMMA HandlerStep == ASSUME IInv, icrEnable = Channels, Handler PROVE IInv'
<1> USE DEF IInv, TypeOK, CompletionInterrupts, DecoderBusyEnds, Goto,
            eventVars, icrVars
<1>1. CASE EnterHandler
  BY <1>1 DEF EnterHandler, ClearIStat
<1>2. CASE ReadIcr
  BY <1>2 DEF ReadIcr, vars
<1>3. CASE WriteBack
  BY <1>3 DEF WriteBack, WriteIcr, FlagsLeft
<1>4. QED
  BY <1>1, <1>2, <1>3 DEF Handler

\* The guest's other register writes keep the invariant.
LEMMA RegisterStep ==
  ASSUME IInv, SetUp \/ ResetDecoder \/ \E n \in Channels : Enable(n)
  PROVE  IInv'
<1> USE DEF IInv, TypeOK, CompletionInterrupts, DecoderBusyEnds, driverVars,
            eventVars, icrVars
<1>1. CASE SetUp
  BY <1>1 DEF SetUp, WriteIcr, FlagsLeft
<1>2. CASE ResetDecoder
  BY <1>2 DEF ResetDecoder, MdecReset
<1>3. ASSUME NEW n \in Channels, Enable(n) PROVE IInv'
  BY <1>3 DEF Enable, WritePcr
<1>4. QED
  BY <1>1, <1>2, <1>3

\* A step that changes nothing keeps the invariant.
LEMMA StutterStep == ASSUME IInv, UNCHANGED allVars PROVE IInv'
BY DEF IInv, TypeOK, CompletionInterrupts, DecoderBusyEnds, allVars, vars,
       driverVars, icrVars, eventVars

\* Every step keeps the invariant.
LEMMA NextIInv == IInv /\ [DriverNext]_allVars => IInv'
<1> SUFFICES ASSUME IInv, [DriverNext]_allVars PROVE IInv'
  OBVIOUS
<1>1. CASE SetUp
  BY <1>1, RegisterStep
<1>2. CASE icrEnable = Channels /\ \E n \in Channels : Enable(n)
  BY <1>2, RegisterStep
<1>3. CASE /\ icrEnable = Channels
           /\ \E n \in Channels : \E outcome \in Outcomes(n) : Transfer(n, outcome)
  BY <1>3, TransferStep
<1>4. CASE ResetDecoder
  BY <1>4, RegisterStep
<1>5. CASE icrEnable = Channels /\ Handler
  BY <1>5, HandlerStep
<1>6. CASE icrEnable = Channels /\ DriverEvents
  BY <1>6, GpuStep, MdecStep DEF DriverEvents, Events
<1>7. CASE UNCHANGED allVars
  BY <1>7, StutterStep
<1>8. QED
  BY <1>1, <1>2, <1>3, <1>4, <1>5, <1>6, <1>7 DEF DriverNext

\* The inductive invariant holds in every state of the guest and the channels.
THEOREM InvariantHolds == DriverSpec => []IInv
BY InitIInv, NextIInv, PTL DEF DriverSpec

\* Every variable keeps its type, and only channels waited for are busy.
THEOREM TypeCorrect == DriverSpec => []TypeOK
<1>1. IInv => TypeOK
  BY DEF IInv
<1>2. QED
  BY <1>1, InvariantHolds, PTL

\* A completion the handler has not seen has an interrupt behind it.
THEOREM CompletionsInterrupt == DriverSpec => []CompletionInterrupts
<1>1. IInv => CompletionInterrupts
  BY DEF IInv
<1>2. QED
  BY <1>1, InvariantHolds, PTL

\* While the decoder is busy the event that ends it is scheduled.
THEOREM DecoderEnds == DriverSpec => []DecoderBusyEnds
<1>1. IInv => DecoderBusyEnds
  BY DEF IInv
<1>2. QED
  BY <1>1, InvariantHolds, PTL

\* The state of an abstract channel, by what is under way and waited for.
StateOf(n) ==
  IF n \notin pending THEN "idle" ELSE IF n \in busy THEN "working" ELSE "done"

\* A step that changes the states of no channels is a stutter of the promise.
LEMMA SameStates ==
  ASSUME UNCHANGED <<busy, pending>>
  PROVE  UNCHANGED [n \in Channels |-> StateOf(n)]
BY DEF StateOf

\* Starting a transfer starts the abstract channel.
LEMMA TransferRefines ==
  ASSUME IInv, NEW n \in Channels, NEW outcome, Transfer(n, outcome)
  PROVE  Promised!Start(n)
<1> DEFINE before == [m \in Channels |-> StateOf(m)]
<1> DEFINE after == [m \in Channels |-> StateOf(m)']
<1> DEFINE state == IF n \in busy' THEN "working" ELSE "done"
<1>1. n \notin pending /\ pending' = pending \cup {n} /\ n \notin busy
  BY DEF Transfer, DmaExec
<1>2. busy' = busy \cup {n} \/ busy' = busy
  BY DEF Transfer, DmaExec, StartOnly, FinishNow, FinishLater
<1>3. before[n] = "idle"
  BY <1>1 DEF StateOf
<1>4. after = [before EXCEPT ![n] = state]
  <2>1. \A m \in Channels : m # n => StateOf(m)' = StateOf(m)
    BY <1>1, <1>2 DEF StateOf
  <2>2. StateOf(n)' = state
    BY <1>1 DEF StateOf
  <2>3. QED
    BY <2>1, <2>2
<1>5. state \in {"working", "done"}
  OBVIOUS
<1>6. QED
  BY <1>3, <1>4, <1>5 DEF Promised!Start, StateOf

\* The end of a transfer under way finishes the abstract channel.
LEMMA FinishRefines ==
  ASSUME NEW n \in Channels, n \in busy, busy \subseteq pending,
         busy' = busy \ {n}, pending' = pending
  PROVE  Promised!Finish(n)
<1> DEFINE before == [m \in Channels |-> StateOf(m)]
<1> DEFINE after == [m \in Channels |-> StateOf(m)']
<1>1. before[n] = "working"
  BY DEF StateOf
<1>2. after = [before EXCEPT ![n] = "done"]
  BY DEF StateOf
<1>3. QED
  BY <1>1, <1>2 DEF Promised!Finish, StateOf

\* Each event finishes a transfer, or was the MDEC's second one.
LEMMA EventRefines ==
  ASSUME IInv, Events, UNCHANGED driverVars
  PROVE  \/ \E n \in Channels : Promised!Finish(n)
         \/ UNCHANGED <<busy, pending>>
<1> USE DEF IInv, TypeOK, driverVars
<1>1. CASE GpuInterrupt
  <2>1. Gpu \in busy /\ busy' = busy \ {Gpu} /\ Gpu \in Channels
    BY <1>1 DEF GpuInterrupt, GpuIdle
  <2>2. QED
    BY <2>1, FinishRefines
<1>2. CASE Mdec1Interrupt /\ MdecOut \in busy
  <2>1. busy' = busy \ {MdecOut} /\ MdecOut \in Channels
    BY <1>2 DEF Mdec1Interrupt
  <2>2. QED
    BY <1>2, <2>1, FinishRefines
<1>3. CASE Mdec1Interrupt /\ MdecOut \notin busy
  BY <1>3 DEF Mdec1Interrupt
<1>4. QED
  BY <1>1, <1>2, <1>3 DEF Events

\* The handler's write to ICR tells the guest of transfers that are done.
LEMMA WriteBackRefines ==
  ASSUME IInv, WriteBack
  PROVE  \E told \in SUBSET Channels : Promised!Notice(told)
<1> DEFINE before == [m \in Channels |-> StateOf(m)]
<1> DEFINE after == [m \in Channels |-> StateOf(m)']
<1>1. PICK told : told = seen
  OBVIOUS
<1>2. busy' = busy /\ pending' = pending \ told
  BY <1>1 DEF WriteBack, WriteIcr
<1>3. told \subseteq pending \ busy /\ told \in SUBSET Channels
  BY <1>1 DEF IInv, TypeOK
<1>4. \A n \in told : before[n] = "done"
  BY <1>3 DEF StateOf
<1>5. after = [n \in Channels |-> IF n \in told THEN "idle" ELSE before[n]]
  BY <1>2 DEF StateOf
<1>6. Promised!Notice(told)
  BY <1>4, <1>5 DEF Promised!Notice, StateOf
<1>7. QED
  BY <1>3, <1>6

\* The channels start as the abstract ones do.
LEMMA RefinementInit == DriverInit => Promised!Init
BY DEF DriverInit, Init, Promised!Init

\* Every step of the guest and the channels is a step of the promise, or none.
LEMMA RefinementStep ==
  IInv /\ [DriverNext]_allVars
    => [Promised!Next]_([n \in Channels |-> StateOf(n)])
<1> SUFFICES ASSUME IInv, [DriverNext]_allVars
             PROVE  \/ Promised!Next
                    \/ UNCHANGED [n \in Channels |-> StateOf(n)]
  OBVIOUS
<1>1. ASSUME NEW n \in Channels, NEW outcome \in Outcomes(n), Transfer(n, outcome)
      PROVE  Promised!Next
  BY <1>1, TransferRefines DEF Promised!Next
<1>2. CASE WriteBack
  BY <1>2, WriteBackRefines DEF Promised!Next
<1>3. CASE DriverEvents
  BY <1>3, EventRefines, SameStates DEF DriverEvents, Promised!Next
<1>4. CASE UNCHANGED <<busy, pending>>
  BY <1>4, SameStates
<1>5. CASE EnterHandler \/ ReadIcr
  BY <1>5, <1>4 DEF EnterHandler, ReadIcr, ClearIStat, vars
<1>6. CASE SetUp \/ ResetDecoder \/ \E n \in Channels : Enable(n)
  BY <1>6, <1>4 DEF SetUp, ResetDecoder, Enable, WriteIcr, MdecReset, WritePcr,
                    driverVars
<1>7. CASE UNCHANGED allVars
  BY <1>7, <1>4 DEF allVars, vars, driverVars
<1>8. QED
  BY <1>1, <1>2, <1>3, <1>5, <1>6, <1>7 DEF DriverNext, Handler

\* The channels keep the promise of DmaChannels: the guest is told of every
\* transfer once, and not while it is under way.
THEOREM KeepsPromise == DriverSpec => OncePerTransfer
<1>1. DriverSpec => DriverInit /\ [][DriverNext]_allVars
  BY PTL DEF DriverSpec
<1>2. QED
  BY <1>1, RefinementInit, RefinementStep, InvariantHolds, PTL
  DEF OncePerTransfer, Promised!Spec, StateOf
==============================================================================
