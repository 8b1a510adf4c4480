---------------------------- MODULE CdDriverProofs ----------------------------
(***************************************************************************)
(* Proofs about CdDriver, for every set of commands and every number of    *)
(* sectors.  On a disc without errors and without ends of files the        *)
(* controller and a guest that follows the handshake implement CdStream;   *)
(* what is said of interrupts, results and Pause needs less of the disc.   *)
(***************************************************************************)
EXTENDS CdDriver, CdRomProofs

\* A disc that can be read, none of whose files ends.
GoodDisc == ~MediaErrors /\ EofSectors = {}

\* A step of the handler is one register access, or none.
LEMMA HandlerIsGuest ==
  ASSUME Handler
  PROVE  [Next]_vars
<1>1. CASE EnterHandler
  BY <1>1 DEF EnterHandler, Next, Guest
<1>2. CASE SelectPort1
  BY <1>2 DEF SelectPort1, Next, Guest
<1>3. CASE ReadStatus
  BY <1>3 DEF ReadStatus
<1>4. CASE DrainResult
  BY <1>4 DEF DrainResult, Next, Guest
<1>5. CASE SelectPort0
  BY <1>5 DEF SelectPort0, Next, Guest
<1>6. CASE Request
  BY <1>6 DEF Request, Next, Guest
<1>7. CASE Dma3
  BY <1>7 DEF Dma3
<1>8. CASE Ack
  BY <1>8 DEF Ack, Next, Guest
<1>9. CASE LeaveHandler
  BY <1>9 DEF LeaveHandler, Next, Guest
<1> QED
  BY <1>1, <1>2, <1>3, <1>4, <1>5, <1>6, <1>7, <1>8, <1>9 DEF Handler

\* This guest is one of the guests of CdRom.
LEMMA DriverStep == [DriverNext]_allVars => [Next]_vars
<1> SUFFICES ASSUME [DriverNext]_allVars PROVE [Next]_vars
  OBVIOUS
<1>1. CASE DriverEvents
  BY <1>1 DEF DriverEvents, Next
<1>2. CASE Handler
  BY <1>2, HandlerIsGuest
<1>3. ASSUME NEW c \in Commands, DriverSend(c) PROVE [Next]_vars
  BY <1>3 DEF DriverSend, Next, Guest
<1>4. CASE UNCHANGED allVars
  BY <1>4 DEF allVars
<1> QED
  BY <1>1, <1>2, <1>3, <1>4 DEF DriverNext

\* So what holds of the controller with any guest holds with this one.
LEMMA ControllerInvariant == DriverSpec => []IInv
<1>1. DriverInit => Init
  BY DEF DriverInit
<1>2. DriverSpec => Spec
  BY <1>1, DriverStep, PTL DEF DriverSpec, Spec
<1> QED
  BY <1>2, InvariantHolds, PTL

------------------------------------------------------------------------------
(* The invariant of the handshake *)

\* What a command does, however it is accepted.
LEMMA SendFacts ==
  ASSUME IInv, NEW c \in Commands, Send(c)
  PROVE  /\ Stat' = NoIntr /\ iStat' = iStat /\ Reg2Masked' = Reg2Masked
         /\ buffered' = buffered /\ RErr' = RErr /\ Transfer' = Transfer
         /\ c \in ReadCommands =>
              /\ Irq' = "ReadAck" /\ ~evRead' /\ Reading' # 0
              /\ SetSector' = SetSector
         /\ c \notin ReadCommands =>
              /\ Irq' = c
              /\ \/ Reading' = 0 /\ SetSector' \in Sectors
                 \/ Reading' = Reading /\ SetSector' = SetSector
         /\ Irq' = "Test" => c = "Test"
<1> USE DEF Accept, DropAnswer, diskVars, dataVars, driveVars, modeVars
<1>0. IInv /\ SetSector \in Sectors /\ evRead \in BOOLEAN
      /\ (Reading = 0 => ~evRead)
  BY DEF IInv, TypeOK, DiskTypes, HandshakeTypes, StoppedReadStays
<1>1. CASE WriteCommand(c)
  BY <1>1 DEF WriteCommand
<1>2. CASE c = "Setloc" /\ \E s \in Sectors : WriteSetloc(s)
  <2>1. PICK s \in Sectors : WriteSetloc(s)
    BY <1>2
  <2> QED
    BY <1>2, <2>1 DEF WriteSetloc, StopReading, ReadCommands
<1>3. CASE c = "Play" /\ WritePlay
  BY <1>3 DEF WritePlay, ReadCommands
<1>4. CASE c = "Setmode" /\ \E b \in BOOLEAN : WriteSetmode(b)
  BY <1>4 DEF WriteSetmode, ReadCommands
<1>5. CASE WriteHalt(c)
  BY <1>0, <1>5 DEF WriteHalt, StopReading, ReadCommands
<1>6. CASE WriteRead(c)
  <2>1. /\ c \in ReadCommands /\ Accept("ReadAck")
        /\ Reading' # 0 /\ SetSector' = SetSector
    BY <1>6 DEF WriteRead
  <2>2. ~evRead'
    BY <1>0, <1>6, Zenon DEF WriteRead
  <2> QED
    BY <2>1, <2>2
<1> QED
  BY <1>1, <1>2, <1>3, <1>4, <1>5, <1>6 DEF Send

\* An event runs while no answer waits, and gives one with its interrupt.
LEMMA EventFacts ==
  ASSUME GoodDisc, IInv, Reg2Masked = FALSE, RErr = FALSE, ReadAlone, Events
  PROVE  /\ Stat = NoIntr /\ Stat' # NoIntr /\ iStat' = TRUE
         /\ Reg2Masked' = FALSE /\ RErr' = FALSE
         /\ Reading' = Reading
         /\ Irq' # "ReadAck"
         /\ \/ /\ Stat' = DataReady /\ evRead /\ Reading # 0
               /\ Transfer' = buffered /\ Irq' = Irq
               /\ SetSector' = NextSector(SetSector) /\ buffered' = SetSector'
            \/ /\ Stat' # DataReady /\ Irq = "ReadAck" /\ Transfer' = Transfer
               /\ SetSector' = SetSector /\ buffered' = SetSector
            \/ /\ Stat' # DataReady /\ Irq # "ReadAck" /\ Transfer' = Transfer
               /\ SetSector' = SetSector /\ buffered' = buffered
         /\ Irq # "Test" => ResultLeft' \in 1..8
<1> USE DEF Acknowledged, RaiseUnmasked, SetResultSize, diskVars, dataVars, modeVars
<1> USE DEF NoIntr, DataReady, Acknowledge, Complete, DiskError
<1>1. CASE AnswerCommand
  <2>1. Irq' # "ReadAck" /\ Irq # "ReadAck"
    BY <1>1 DEF AnswerCommand, TwoPhase, SecondAnswer
  <2>2. Stat' # NoIntr /\ Stat' # DataReady
    BY <1>1 DEF AnswerCommand, StatFor
  <2>3. Irq # "Test" => ResultLeft' \in 1..8
    BY <1>1, ResultSizesType DEF AnswerCommand
  <2> QED
    BY <1>1, <2>1, <2>2, <2>3 DEF AnswerCommand
<1>2. CASE AnswerRead
  <2>1. /\ Stat = NoIntr /\ Stat' = Acknowledge /\ Irq = "ReadAck" /\ Irq' = "none"
        /\ ResultLeft' = 1 /\ buffered' = SetSector
        /\ UNCHANGED <<Reg2Masked, Reading, SetSector, Transfer>>
    BY <1>2 DEF AnswerRead, ReadTrackAt
  <2>2. RErr' = FALSE
    BY <1>2 DEF AnswerRead, ReadTrackAt, GoodDisc
  <2>3. iStat' = TRUE
    BY <1>2 DEF AnswerRead
  <2> QED
    BY <2>1, <2>2, <2>3
<1>3. CASE SectorReady
  <2>1. /\ evRead /\ Reading # 0 /\ Stat = NoIntr /\ Stat' = DataReady
        /\ Transfer' = buffered /\ SetSector' = NextSector(SetSector)
        /\ ResultLeft' = 1 /\ iStat' = TRUE
        /\ UNCHANGED <<Reg2Masked, Reading>>
    BY <1>3 DEF SectorReady
  <2>2. buffered' = NextSector(SetSector) /\ RErr' = FALSE /\ Irq' = Irq
    BY <1>3 DEF SectorReady, PrefetchNext, ReadTrackAt, GoodDisc
  <2>3. Irq # "ReadAck"
    BY <2>1 DEF ReadAlone
  <2> QED
    BY <2>1, <2>2, <2>3
<1>4. CASE SectorError
  BY <1>4 DEF SectorError, GoodDisc
<1> QED
  BY <1>1, <1>2, <1>3, <1>4 DEF Events

\* The handshake holds at the start.
LEMMA InitDriverInv == DriverInit => DriverInv /\ Resulting
BY DEF DriverInit, Init, DriverInv, Served, ReadAlone, Prefetched, Announcing,
       Resulting, ResultWhole, DataReady, NoIntr

\* An event keeps it: the handler is not running, and no answer waits.
LEMMA EventsKeep ==
  ASSUME GoodDisc, IInv, DriverInv, DriverEvents
  PROVE  DriverInv'
<1>1. UNCHANGED <<cmd, hpc, memory>> /\ Events
  BY DEF DriverEvents, driverVars
<1>2. Reg2Masked = FALSE /\ RErr = FALSE /\ ReadAlone
  BY DEF DriverInv
<1>3. /\ Stat = NoIntr /\ Stat' # NoIntr /\ iStat' = TRUE
      /\ Reg2Masked' = FALSE /\ RErr' = FALSE
      /\ Reading' = Reading /\ Irq' # "ReadAck"
      /\ \/ /\ Stat' = DataReady /\ evRead /\ Reading # 0
            /\ Transfer' = buffered /\ Irq' = Irq
            /\ SetSector' = NextSector(SetSector) /\ buffered' = SetSector'
         \/ /\ Stat' # DataReady /\ Irq = "ReadAck" /\ Transfer' = Transfer
            /\ SetSector' = SetSector /\ buffered' = SetSector
         \/ /\ Stat' # DataReady /\ Irq # "ReadAck" /\ Transfer' = Transfer
            /\ SetSector' = SetSector /\ buffered' = buffered
  BY <1>1, <1>2, EventFacts
<1>4. hpc \in {"main", "leave"}
  BY <1>3 DEF DriverInv, Served
<1>5. Served' /\ ReadAlone'
  BY <1>1, <1>3, <1>4 DEF Served, ReadAlone
<1>6. Prefetched'
  BY <1>3 DEF DriverInv, Prefetched
<1>7. Announcing'
  <2>1. SetSector \in Sectors
    BY DEF IInv, TypeOK, DiskTypes
  <2>2. Stat' = DataReady => Reading' # 0 /\ Transfer' = SetSector
                             /\ SetSector' = NextSector(SetSector)
    BY <1>2, <1>3 DEF DriverInv, Prefetched, ReadAlone
  <2>3. hpc' \notin {"port0", "request", "dma"}
    BY <1>1, <1>4 DEF driverVars
  <2> QED
    BY <2>1, <2>2, <2>3 DEF Announcing
<1> QED
  BY <1>1, <1>3, <1>5, <1>6, <1>7 DEF DriverInv

\* A command is sent while no answer waits and no read is unacknowledged.
LEMMA SendKeeps ==
  ASSUME IInv, DriverInv, NEW c \in Commands, DriverSend(c)
  PROVE  DriverInv' /\ Stat = NoIntr /\ Stat' = NoIntr
<1>1. /\ hpc = "main" /\ ~iStat /\ cmd = "none" /\ Send(c) /\ cmd' = c
      /\ hpc' = "main" /\ memory' = memory
  BY DEF DriverSend
<1>2. /\ Stat' = NoIntr /\ iStat' = iStat /\ Reg2Masked' = Reg2Masked
      /\ buffered' = buffered /\ RErr' = RErr /\ Transfer' = Transfer
      /\ c \in ReadCommands =>
           /\ Irq' = "ReadAck" /\ ~evRead' /\ Reading' # 0
           /\ SetSector' = SetSector
      /\ c \notin ReadCommands =>
           /\ Irq' = c
           /\ \/ Reading' = 0 /\ SetSector' \in Sectors
              \/ Reading' = Reading /\ SetSector' = SetSector
  BY <1>1, SendFacts
<1>3. c # "none" /\ c # "ReadAck"
  BY CommandsAssumption
  DEF AllCommands, SingleCommands, TwoPhase, SecondAnswer, ReadCommands
<1>4. Stat = NoIntr /\ Irq # "ReadAck"
  BY <1>1 DEF DriverInv, Served, ReadAlone
<1>5. Served' /\ ReadAlone'
  BY <1>1, <1>2, <1>3 DEF Served, ReadAlone
<1>6. Prefetched'
  BY <1>2, <1>3, <1>4 DEF DriverInv, Prefetched
<1>7. Announcing'
  BY <1>1, <1>2 DEF Announcing, NoIntr, DataReady
<1> QED
  BY <1>1, <1>2, <1>4, <1>5, <1>6, <1>7 DEF DriverInv

\* What the handler leaves alone: a step that touches neither the answer nor
\* the drive keeps what is known of them.
LEMMA DriveUnchanged ==
  ASSUME DriverInv,
         UNCHANGED <<Stat, Irq, evRead, Reg2Masked, RErr, Reading, SetSector,
                     buffered, Transfer, cmd>>
  PROVE  /\ Reg2Masked' = FALSE /\ RErr' = FALSE
         /\ ReadAlone' /\ Prefetched'
         /\ Stat' = DataReady =>
              /\ Reading' # 0 /\ Transfer' \in Sectors
              /\ SetSector' = NextSector(Transfer')
BY DEF DriverInv, ReadAlone, Prefetched, Announcing

\* Each access of the handler keeps the handshake.
LEMMA HandlerKeeps ==
  ASSUME IInv, DriverInv, Handler
  PROVE  DriverInv'
<1> USE DEF diskVars, dataVars, modeVars, eventVars, Goto
<1>0. /\ hpc \in HandlerSteps \cup {"main"} /\ Served /\ Announcing
      /\ NoIntr # DataReady
  BY DEF DriverInv, NoIntr, DataReady
<1>1. CASE EnterHandler
  <2>1. /\ hpc = "main" /\ hpc' = "select" /\ iStat /\ ~iStat' /\ Stat # NoIntr
        /\ UNCHANGED <<Stat, Irq, evRead, Reg2Masked, RErr, Reading, SetSector,
                       buffered, Transfer, cmd>>
    BY <1>0, <1>1 DEF EnterHandler, ClearIStat, Served
  <2> QED
    BY <2>1, DriveUnchanged DEF DriverInv, Served, Announcing, HandlerSteps
<1>2. CASE SelectPort1
  <2>1. /\ \/ hpc = "select" /\ hpc' = "status"
           \/ hpc = "port1" /\ hpc' = "ack"
        /\ UNCHANGED <<Stat, Irq, evRead, iStat, Reg2Masked, RErr, Reading,
                       SetSector, buffered, Transfer, cmd, Readed>>
    BY <1>2 DEF SelectPort1, WriteIndex
  <2> QED
    BY <1>0, <2>1, DriveUnchanged DEF DriverInv, Served, Announcing, HandlerSteps
<1>3. CASE ReadStatus
  <2>1. /\ hpc = "status" /\ hpc' = IF Stat = NoIntr THEN "leave" ELSE "result"
        /\ UNCHANGED <<Stat, Irq, evRead, iStat, Reg2Masked, RErr, Reading,
                       SetSector, buffered, Transfer, cmd, Readed>>
    BY <1>3 DEF ReadStatus, vars
  <2>2. hpc' = "result"
    BY <1>0, <2>1 DEF Served
  <2> QED
    BY <1>0, <2>1, <2>2, DriveUnchanged DEF DriverInv, Served, Announcing, HandlerSteps
<1>4. CASE DrainResult
  <2>1. /\ hpc = "result"
        /\ hpc' = "result" \/ hpc' = IF Stat = DataReady THEN "port0" ELSE "ack"
        /\ UNCHANGED <<Stat, Irq, evRead, iStat, Reg2Masked, RErr, Reading,
                       SetSector, buffered, Transfer, cmd, Readed>>
    BY <1>4 DEF DrainResult, ReadResult, vars
  <2> QED
    BY <1>0, <2>1, DriveUnchanged DEF DriverInv, Served, Announcing, HandlerSteps
<1>5. CASE SelectPort0
  <2>1. /\ hpc = "port0" /\ hpc' = "request"
        /\ UNCHANGED <<Stat, Irq, evRead, iStat, Reg2Masked, RErr, Reading,
                       SetSector, buffered, Transfer, cmd, Readed>>
    BY <1>5 DEF SelectPort0, WriteIndex
  <2> QED
    BY <1>0, <2>1, DriveUnchanged DEF DriverInv, Served, Announcing, HandlerSteps
<1>6. CASE Request
  <2>1. /\ hpc = "request" /\ hpc' = "dma" /\ Readed' = 1
        /\ UNCHANGED <<Stat, Irq, evRead, iStat, Reg2Masked, RErr, Reading,
                       SetSector, buffered, Transfer, cmd>>
    BY <1>6 DEF Request, RequestData
  <2> QED
    BY <1>0, <2>1, DriveUnchanged DEF DriverInv, Served, Announcing, HandlerSteps
<1>7. CASE Dma3
  <2>1. /\ hpc = "dma" /\ hpc' = "port1"
        /\ UNCHANGED <<Stat, Irq, evRead, iStat, Reg2Masked, RErr, Reading,
                       SetSector, buffered, Transfer, cmd, Readed>>
    BY <1>7 DEF Dma3, vars
  <2> QED
    BY <1>0, <2>1, DriveUnchanged DEF DriverInv, Served, Announcing, HandlerSteps
<1>8. CASE Ack
  <2>1. /\ hpc = "ack" /\ hpc' = "leave" /\ Stat' = NoIntr /\ iStat' = iStat
        /\ Irq' \in {Irq, "Sync"}
        /\ UNCHANGED <<Reg2Masked, RErr, Reading, SetSector, buffered, Transfer>>
    BY <1>8 DEF Ack, Acknowledgement, DropAnswer
  <2>2. Stat # NoIntr /\ ~iStat /\ Irq # "ReadAck"
    BY <1>0, <2>1 DEF DriverInv, Served, ReadAlone
  <2> QED
    BY <1>0, <2>1, <2>2
    DEF DriverInv, Served, Announcing, ReadAlone, Prefetched, HandlerSteps
<1>9. CASE LeaveHandler
  <2>1. /\ hpc = "leave" /\ hpc' = "main"
        /\ UNCHANGED <<Stat, Irq, evRead, iStat, Reg2Masked, RErr, Reading,
                       SetSector, buffered, Transfer, cmd, Readed>>
    BY <1>9 DEF LeaveHandler, RewindResult
  <2> QED
    BY <1>0, <2>1, DriveUnchanged DEF DriverInv, Served, Announcing, HandlerSteps
<1> QED
  BY <1>1, <1>2, <1>3, <1>4, <1>5, <1>6, <1>7, <1>8, <1>9 DEF Handler

\* Every step keeps the handshake.
LEMMA DriverInvStep ==
  ASSUME GoodDisc
  PROVE  IInv /\ DriverInv /\ [DriverNext]_allVars => DriverInv'
<1> SUFFICES ASSUME IInv, DriverInv, [DriverNext]_allVars PROVE DriverInv'
  OBVIOUS
<1>1. CASE UNCHANGED allVars
  BY <1>1 DEF allVars, driverVars, vars, diskVars, dataVars, modeVars, eventVars,
              DriverInv, Served, Announcing, ReadAlone, Prefetched
<1> QED
  BY <1>1, EventsKeep, SendKeeps, HandlerKeeps DEF DriverNext

\* The inductive invariant of the handshake (CdRom.c under a guest that keeps
\* the protocol) holds for every set of commands and every good disc.
THEOREM HandshakeHolds ==
  ASSUME GoodDisc
  PROVE  DriverSpec => [](IInv /\ DriverInv)
<1>1. IInv /\ DriverInv /\ [DriverNext]_allVars => DriverInv'
  BY DriverInvStep
<1> QED
  BY <1>1, InitDriverInv, ControllerInvariant, PTL DEF DriverSpec

\* The sector in the drive's buffer is the one the guest gets next.
THEOREM PrefetchesCurrent ==
  ASSUME GoodDisc
  PROVE  DriverSpec => []PrefetchCurrent
<1>1. IInv /\ DriverInv => PrefetchCurrent
  BY DEF IInv, StoppedReadStays, DriverInv, ReadAlone, Prefetched,
         PrefetchCurrent
<1> QED
  BY <1>1, HandshakeHolds, PTL

------------------------------------------------------------------------------
(* The refinement *)

\* Every step of the controller and its guest is a step of the drive that
\* delivers each sector once, or changes nothing that drive has.
LEMMA StreamStep ==
  ASSUME GoodDisc
  PROVE  IInv /\ DriverInv /\ [DriverNext]_allVars =>
           [Stream!Next]_Stream!streamVars
<1> SUFFICES ASSUME IInv, DriverInv, [DriverNext]_allVars
             PROVE  [Stream!Next]_Stream!streamVars
  OBVIOUS
<1> DEFINE pos == IF Announced THEN Transfer ELSE SetSector
<1>u. ASSUME UNCHANGED <<Reading, pos, memory>>
      PROVE  [Stream!Next]_Stream!streamVars
  BY <1>u DEF Stream!streamVars
<1> USE DEF diskVars, dataVars, modeVars, eventVars, Goto
<1>0. /\ Served /\ Announcing /\ ReadAlone /\ Prefetched
      /\ Reg2Masked = FALSE /\ RErr = FALSE
      /\ NoIntr # DataReady /\ SetSector \in Sectors
  BY DEF DriverInv, IInv, TypeOK, DiskTypes, NoIntr, DataReady
<1>1. CASE DriverEvents
  <2>1. Events /\ UNCHANGED <<hpc, memory>>
    BY <1>1 DEF DriverEvents, driverVars
  <2>2. /\ Stat = NoIntr /\ Stat' # NoIntr /\ Reading' = Reading
        /\ \/ /\ Stat' = DataReady /\ evRead /\ Reading # 0
              /\ Transfer' = buffered
           \/ Stat' # DataReady /\ SetSector' = SetSector
    BY <1>0, <2>1, EventFacts
  <2>3. hpc \in {"main", "leave"}
    BY <1>0, <2>2 DEF Served
  <2>4. ~Announced /\ pos = SetSector
    BY <1>0, <2>2 DEF Announced
  <2>5. pos' = SetSector
    BY <1>0, <2>1, <2>2, <2>3 DEF Announced, ReadAlone, Prefetched
  <2> QED
    BY <1>u, <2>1, <2>2, <2>4, <2>5
<1>2. ASSUME NEW c \in Commands, DriverSend(c)
      PROVE  [Stream!Next]_Stream!streamVars
  <2>1. Stat = NoIntr /\ Stat' = NoIntr /\ Send(c) /\ memory' = memory
    BY <1>2, SendKeeps DEF DriverSend
  <2>2. pos = SetSector /\ pos' = SetSector'
    BY <1>0, <2>1 DEF Announced
  <2>3. \/ Reading' # 0 /\ SetSector' = SetSector
        \/ Reading' = 0 /\ SetSector' \in Sectors
        \/ Reading' = Reading /\ SetSector' = SetSector
    BY <2>1, SendFacts
  <2>4. CASE Reading' # 0 /\ SetSector' = SetSector
    BY <2>1, <2>2, <2>4 DEF Stream!Next, Stream!Start
  <2>5. CASE Reading' = 0 /\ SetSector' \in Sectors
    BY <2>1, <2>2, <2>5 DEF Stream!Next, Stream!Locate, Sectors
  <2>6. CASE Reading' = Reading /\ SetSector' = SetSector
    BY <1>u, <2>1, <2>2, <2>6
  <2> QED
    BY <2>3, <2>4, <2>5, <2>6
<1>3. CASE Dma3
  <2>1. /\ hpc = "dma" /\ hpc' = "port1"
        /\ memory' = IF Readed = 0 THEN memory ELSE Transfer
        /\ UNCHANGED <<Stat, Reading, SetSector, Transfer>>
    BY <1>3 DEF Dma3, vars
  <2>2. /\ Stat = DataReady /\ Readed = 1 /\ Reading # 0
        /\ Transfer \in Sectors /\ SetSector = NextSector(Transfer)
    BY <1>0, <2>1 DEF Announcing
  <2>3. pos = Transfer /\ pos' = SetSector
    BY <2>1, <2>2 DEF Announced
  <2>4. Stream!Deliver
    <3>1. SetSector = (Transfer + 1) % SectorCount
      BY <2>2, CarriesRight
    <3>2. QED
      BY <2>1, <2>2, <2>3, <3>1 DEF Stream!Deliver
  <2> QED
    BY <2>4 DEF Stream!Next
<1>4. CASE Handler /\ ~Dma3
  <2>1. UNCHANGED <<Reading, SetSector, Transfer, memory>>
    BY <1>4 DEF Handler, EnterHandler, SelectPort1, ReadStatus, DrainResult,
                SelectPort0, Request, Ack, LeaveHandler, ClearIStat, WriteIndex,
                ReadResult, RequestData, Acknowledgement, RewindResult, vars
  <2>2. Announced' <=> Announced
    <3>1. CASE EnterHandler
      BY <3>1 DEF EnterHandler, ClearIStat, Announced
    <3>2. CASE SelectPort1
      BY <3>2 DEF SelectPort1, WriteIndex, Announced
    <3>3. CASE ReadStatus
      BY <3>3 DEF ReadStatus, vars, Announced
    <3>4. CASE DrainResult
      BY <3>4 DEF DrainResult, ReadResult, vars, Announced
    <3>5. CASE SelectPort0
      BY <3>5 DEF SelectPort0, WriteIndex, Announced
    <3>6. CASE Request
      BY <3>6 DEF Request, RequestData, Announced
    <3>7. CASE Ack
      BY <1>0, <3>7 DEF Ack, Acknowledgement, DropAnswer, Announced
    <3>8. CASE LeaveHandler
      BY <3>8 DEF LeaveHandler, RewindResult, Announced
    <3> QED
      BY <1>4, <3>1, <3>2, <3>3, <3>4, <3>5, <3>6, <3>7, <3>8 DEF Handler
  <2> QED
    BY <1>u, <2>1, <2>2
<1>5. CASE UNCHANGED allVars
  BY <1>u, <1>5 DEF allVars, driverVars, vars, Announced
<1> QED
  BY <1>1, <1>2, <1>3, <1>4, <1>5 DEF DriverNext

\* No sector is lost, repeated or torn between the drive and the memory of the
\* guest: the controller and its guest implement CdStream.
THEOREM SectorsInOrder ==
  ASSUME GoodDisc
  PROVE  DriverSpec => DeliversInOrder
<1>1. DriverInit => Stream!Init
  BY DEF DriverInit, Init, Stream!Init, Announced, Blank, NoIntr, DataReady
<1>2. IInv /\ DriverInv /\ [DriverNext]_allVars => [Stream!Next]_Stream!streamVars
  BY StreamStep
<1> QED
  BY <1>1, <1>2, HandshakeHolds, PTL DEF DriverSpec, DeliversInOrder, Stream!Spec

------------------------------------------------------------------------------
(* Interrupts and results, on every disc *)

\* Whatever the event and the disc, it runs while no answer waits and gives one.
LEMMA EventAnswers ==
  ASSUME Events
  PROVE  /\ Stat = NoIntr /\ Stat' # NoIntr
         /\ Irq' = Irq \/ Irq' # "Test"
         /\ Irq # "Test" => ResultLeft' \in 1..8
<1> USE DEF Acknowledged, SetResultSize, NoIntr, DataReady, Acknowledge, Complete,
            DiskError
<1>1. CASE AnswerCommand
  <2>1. Stat' # NoIntr
    BY <1>1 DEF AnswerCommand, StatFor
  <2>2. Irq # "Test" => ResultLeft' \in 1..8
    BY <1>1, ResultSizesType DEF AnswerCommand
  <2>3. Irq' # "Test"
    BY <1>1 DEF AnswerCommand, TwoPhase, SecondAnswer
  <2> QED
    BY <1>1, <2>1, <2>2, <2>3 DEF AnswerCommand
<1>2. CASE AnswerRead
  BY <1>2 DEF AnswerRead
<1>3. CASE SectorReady
  BY <1>3 DEF SectorReady
<1>4. CASE SectorError
  BY <1>4 DEF SectorError
<1> QED
  BY <1>1, <1>2, <1>3, <1>4 DEF Events

\* An interrupt has an answer behind it, which the handler keeps to its end.
LEMMA HandlingStep == IInv /\ Handling /\ [DriverNext]_allVars => Handling'
<1> SUFFICES ASSUME IInv, Handling, [DriverNext]_allVars PROVE Handling'
  OBVIOUS
<1> USE DEF Goto
<1>1. CASE DriverEvents
  <2>1. Events /\ hpc' = hpc
    BY <1>1 DEF DriverEvents, driverVars
  <2>2. Stat = NoIntr /\ Stat' # NoIntr
    BY <2>1, EventAnswers
  <2> QED
    BY <2>1, <2>2 DEF Handling
<1>2. ASSUME NEW c \in Commands, DriverSend(c) PROVE Handling'
  <2>1. hpc' = "main" /\ ~iStat /\ Send(c)
    BY <1>2 DEF DriverSend
  <2>2. iStat' = iStat
    BY <2>1, SendFacts
  <2> QED
    BY <2>1, <2>2 DEF Handling
<1>3. CASE EnterHandler
  BY <1>3 DEF EnterHandler, ClearIStat, Handling
<1>4. CASE SelectPort1
  BY <1>4 DEF SelectPort1, WriteIndex, Handling
<1>5. CASE ReadStatus
  BY <1>5 DEF ReadStatus, vars, Handling
<1>6. CASE DrainResult
  BY <1>6 DEF DrainResult, ReadResult, vars, Handling
<1>7. CASE SelectPort0
  BY <1>7 DEF SelectPort0, WriteIndex, Handling
<1>8. CASE Request
  BY <1>8 DEF Request, RequestData, Handling
<1>9. CASE Dma3
  BY <1>9 DEF Dma3, vars, Handling
<1>10. CASE Ack
  BY <1>10 DEF Ack, Acknowledgement, Handling
<1>11. CASE LeaveHandler
  BY <1>11 DEF LeaveHandler, RewindResult, Handling
<1>12. CASE UNCHANGED allVars
  BY <1>12 DEF allVars, driverVars, vars, Handling
<1> QED
  BY <1>1, <1>2, <1>3, <1>4, <1>5, <1>6, <1>7, <1>8, <1>9, <1>10, <1>11, <1>12
  DEF DriverNext, Handler

LEMMA HandlingHolds == DriverSpec => [](IInv /\ Handling)
<1>1. DriverInit => Handling
  BY DEF DriverInit, Init, Handling
<1> QED
  BY <1>1, HandlingStep, ControllerInvariant, PTL DEF DriverSpec

\* Where no read fails, every answer raises its interrupt.
LEMMA AnsweredStep ==
  ASSUME ~MediaErrors
  PROVE  IInv /\ Handling /\ Answered /\ [DriverNext]_allVars => Answered'
<1> SUFFICES ASSUME IInv, Handling, Answered, [DriverNext]_allVars PROVE Answered'
  OBVIOUS
<1> USE DEF diskVars, dataVars, modeVars, eventVars, Goto
<1>0. iStat \in BOOLEAN
  BY DEF IInv, TypeOK, HandshakeTypes
<1>1. CASE DriverEvents
  <2>1. Events
    BY <1>1 DEF DriverEvents
  <2>2. CASE AnswerCommand
    BY <2>2 DEF AnswerCommand, RaiseUnmasked, Answered
  <2>3. CASE AnswerRead
    BY <2>3 DEF AnswerRead, RaiseUnmasked, ReadTrackAt, Answered
  <2>4. CASE SectorReady
    BY <2>4 DEF SectorReady, PrefetchNext, ReadTrackAt, Answered
  <2>5. CASE SectorError
    BY <2>5 DEF SectorError, Answered
  <2> QED
    BY <2>1, <2>2, <2>3, <2>4, <2>5 DEF Events
<1>2. ASSUME NEW c \in Commands, DriverSend(c) PROVE Answered'
  BY <1>2, SendFacts DEF DriverSend, Answered
<1>3. CASE EnterHandler
  BY <1>3 DEF EnterHandler, ClearIStat, Answered
<1>4. CASE SelectPort1
  BY <1>4 DEF SelectPort1, WriteIndex, Answered
<1>5. CASE ReadStatus
  BY <1>5 DEF ReadStatus, vars, Answered, Handling
<1>6. CASE DrainResult
  BY <1>6 DEF DrainResult, ReadResult, vars, Answered
<1>7. CASE SelectPort0
  BY <1>7 DEF SelectPort0, WriteIndex, Answered
<1>8. CASE Request
  BY <1>8 DEF Request, RequestData, Answered
<1>9. CASE Dma3
  BY <1>9 DEF Dma3, vars, Answered
<1>10. CASE Ack
  BY <1>10 DEF Ack, Acknowledgement, DropAnswer, Answered
<1>11. CASE LeaveHandler
  BY <1>11 DEF LeaveHandler, RewindResult, Answered
<1>12. CASE UNCHANGED allVars
  BY <1>12 DEF allVars, driverVars, vars, Answered
<1> QED
  BY <1>1, <1>2, <1>3, <1>4, <1>5, <1>6, <1>7, <1>8, <1>9, <1>10, <1>11, <1>12
  DEF DriverNext, Handler

\* The handler finds an answer behind every interrupt, and every answer has one
\* (InterruptMeansAnswer), on every disc whose reads do not fail.
THEOREM InterruptsMeanAnswers ==
  ASSUME ~MediaErrors
  PROVE  DriverSpec => []InterruptMeansAnswer
<1>1. DriverInit => Answered
  BY DEF DriverInit, Init, Answered
<1>2. Handling /\ Answered => InterruptMeansAnswer
  BY DEF Handling, Answered, InterruptMeansAnswer
<1> QED
  BY <1>1, <1>2, AnsweredStep, HandlingHolds, PTL DEF DriverSpec

\* A guest that sends no Test command reads only results it was given: the
\* length of a result is never left over from the answer before.
LEMMA ResultStep ==
  ASSUME "Test" \notin Commands
  PROVE  IInv /\ Handling /\ Irq # "Test" /\ Resulting /\ [DriverNext]_allVars =>
           Irq' # "Test" /\ Resulting'
<1> SUFFICES ASSUME IInv, Handling, Irq # "Test", Resulting, [DriverNext]_allVars
             PROVE  Irq' # "Test" /\ Resulting'
  OBVIOUS
<1> USE DEF diskVars, dataVars, modeVars, eventVars, resultVars, Goto
<1>0. ResultLeft \in 0..(ByteRange - 1) /\ ResultReady \in BOOLEAN
  BY DEF IInv, TypeOK, ResultTypes
<1>1. CASE DriverEvents
  <2>1. Events /\ hpc' = hpc
    BY <1>1 DEF DriverEvents, driverVars
  <2>2. Stat = NoIntr /\ ResultLeft' \in 1..8 /\ (Irq' = Irq \/ Irq' # "Test")
    BY <2>1, EventAnswers
  <2>3. hpc \in {"main", "leave"}
    BY <2>2 DEF Handling
  <2> QED
    BY <2>1, <2>2, <2>3 DEF Resulting, ResultWhole
<1>2. ASSUME NEW c \in Commands, DriverSend(c) PROVE Irq' # "Test" /\ Resulting'
  <2>1. Stat' = NoIntr /\ hpc' = "main" /\ c # "Test" /\ Send(c)
    BY <1>2, SendFacts DEF DriverSend
  <2>2. Irq' # "Test"
    BY <2>1, SendFacts
  <2> QED
    BY <2>1, <2>2 DEF Resulting, ResultWhole
<1>3. CASE EnterHandler
  <2>1. /\ hpc = "main" /\ hpc' = "select"
        /\ UNCHANGED <<Stat, Irq, ResultLeft>>
    BY <1>3 DEF EnterHandler, ClearIStat
  <2> QED
    BY <2>1 DEF Resulting, ResultWhole
<1>4. CASE SelectPort1
  <2>1. /\ \/ hpc = "select" /\ hpc' = "status"
           \/ hpc = "port1" /\ hpc' = "ack"
        /\ UNCHANGED <<Stat, Irq, ResultLeft>>
    BY <1>4 DEF SelectPort1, WriteIndex
  <2> QED
    BY <2>1 DEF Resulting, ResultWhole
<1>5. CASE ReadStatus
  <2>1. /\ hpc = "status" /\ hpc' = IF Stat = NoIntr THEN "leave" ELSE "result"
        /\ UNCHANGED <<Stat, Irq, ResultLeft>>
    BY <1>5 DEF ReadStatus, vars
  <2> QED
    BY <2>1 DEF Resulting, ResultWhole, Handling
<1>6. CASE DrainResult
  <2>1. hpc = "result" /\ UNCHANGED <<Stat, Irq>>
    BY <1>6 DEF DrainResult, ReadResult, vars
  <2>2. CASE ReadResult /\ UNCHANGED hpc
    <3>1. /\ ResultReady /\ ResultLeft' = (ResultLeft - 1) % ByteRange
          /\ ResultReady' = (ResultLeft' # 0)
      BY <2>2 DEF ReadResult, LeftAfterRead, MoreLeft
    <3>2. ResultLeft \in 1..8
      BY <2>1, <3>1 DEF Resulting, ResultWhole
    <3>3. ResultLeft' = ResultLeft - 1
      BY <3>1, <3>2, ByteAssumption
    <3>4. ResultReady' => ResultLeft' \in 1..8
      <4>1. ResultLeft - 1 # 0 => ResultLeft - 1 \in 1..8
        BY <3>2
      <4> QED
        BY <3>1, <3>3, <4>1
    <3>5. hpc' = "result"
      BY <2>1, <2>2
    <3> QED
      BY <2>1, <3>4, <3>5 DEF Resulting, ResultWhole
  <2>3. CASE hpc' = (IF Stat = DataReady THEN "port0" ELSE "ack")
    BY <2>1, <2>3 DEF Resulting, ResultWhole
  <2> QED
    BY <1>6, <2>2, <2>3 DEF DrainResult
<1>7. CASE SelectPort0
  BY <1>7 DEF SelectPort0, WriteIndex, Resulting, ResultWhole
<1>8. CASE Request
  BY <1>8 DEF Request, RequestData, Resulting, ResultWhole
<1>9. CASE Dma3
  BY <1>9 DEF Dma3, vars, Resulting, ResultWhole
<1>10. CASE Ack
  <2>1. hpc' = "leave" /\ Stat' = NoIntr /\ Irq' \in {Irq, "Sync"}
    BY <1>10 DEF Ack, Acknowledgement, DropAnswer
  <2> QED
    BY <2>1 DEF Resulting, ResultWhole
<1>11. CASE LeaveHandler
  <2>1. hpc = "leave" /\ hpc' = "main" /\ UNCHANGED <<Stat, Irq, ResultLeft>>
    BY <1>11 DEF LeaveHandler, RewindResult
  <2> QED
    BY <2>1 DEF Resulting, ResultWhole
<1>12. CASE UNCHANGED allVars
  BY <1>12 DEF allVars, driverVars, vars, Resulting, ResultWhole
<1> QED
  BY <1>1, <1>2, <1>3, <1>4, <1>5, <1>6, <1>7, <1>8, <1>9, <1>10, <1>11, <1>12
  DEF DriverNext, Handler

\* Every byte of a result the guest reads is one of its answer (ResultWhole), on
\* every disc, also one that fails.
THEOREM ResultsWhole ==
  ASSUME "Test" \notin Commands
  PROVE  DriverSpec => []ResultWhole
<1>1. DriverInit => Irq # "Test" /\ Resulting
  BY InitDriverInv DEF DriverInit, Init
<1>2. IInv /\ Handling /\ (Irq # "Test" /\ Resulting) /\ [DriverNext]_allVars =>
        (Irq # "Test" /\ Resulting)'
  BY ResultStep
<1>3. Resulting => ResultWhole
  BY DEF Resulting
<1> QED
  BY <1>1, <1>2, <1>3, HandlingHolds, PTL DEF DriverSpec

------------------------------------------------------------------------------
(* Pause, with any guest and a disc that may fail, but no end of a file *)

\* A Pause in the queue, or its second answer, belongs to a read that stopped.
PauseStopped == Irq \in {"Pause", "Pause2"} => Reading = 0

\* Only the end of a file puts a Pause behind a read that goes on.
LEMMA PauseStep ==
  ASSUME EofSectors = {}
  PROVE  PauseStopped /\ [Next]_vars => PauseStopped'
<1> SUFFICES ASSUME PauseStopped, [Next]_vars PROVE PauseStopped'
  OBVIOUS
<1>1. CASE AnswerCommand
  <2>1. Irq' = (IF Irq \in TwoPhase THEN SecondAnswer[Irq] ELSE "none")
        /\ Reading' = Reading
    BY <1>1 DEF AnswerCommand
  <2>2. CASE Irq \in TwoPhase
    <3>1. Irq' = SecondAnswer[Irq]
      BY <2>1, <2>2
    <3>2. Irq = "Pause" \/ SecondAnswer[Irq] \notin {"Pause", "Pause2"}
      BY <2>2 DEF TwoPhase, SecondAnswer
    <3> QED
      BY <2>1, <3>1, <3>2 DEF PauseStopped
  <2>3. CASE Irq \notin TwoPhase
    BY <2>1, <2>3 DEF PauseStopped
  <2> QED
    BY <2>2, <2>3
<1>2. CASE AnswerRead
  BY <1>2 DEF AnswerRead, PauseStopped
<1>3. CASE SectorReady
  BY <1>3 DEF SectorReady, PauseStopped
<1>4. CASE SectorError
  BY <1>4 DEF SectorError, PauseStopped
<1>5. ASSUME NEW c \in Commands, Send(c) PROVE PauseStopped'
  <2>1. CASE WriteCommand(c)
    <3>1. c # "Pause2"
      BY CommandsAssumption
      DEF AllCommands, SingleCommands, TwoPhase, SecondAnswer, ReadCommands
    <3> QED
      BY <2>1, <3>1 DEF WriteCommand, Accept, PauseStopped
  <2>2. CASE \E s \in Sectors : WriteSetloc(s)
    BY <2>2 DEF WriteSetloc, Accept, PauseStopped
  <2>3. CASE WritePlay
    BY <2>3 DEF WritePlay, Accept, PauseStopped
  <2>4. CASE \E b \in BOOLEAN : WriteSetmode(b)
    BY <2>4 DEF WriteSetmode, Accept, PauseStopped
  <2>5. CASE WriteHalt(c)
    BY <2>5 DEF WriteHalt, StopReading, PauseStopped
  <2>6. CASE WriteRead(c)
    BY <2>6 DEF WriteRead, Accept, PauseStopped
  <2> QED
    BY <1>5, <2>1, <2>2, <2>3, <2>4, <2>5, <2>6 DEF Send
<1>6. CASE \E rt \in 0..3 : WriteIndex(rt)
  BY <1>6 DEF WriteIndex, PauseStopped
<1>7. CASE ReadResult
  BY <1>7 DEF ReadResult, PauseStopped
<1>8. CASE RewindResult
  BY <1>8 DEF RewindResult, PauseStopped
<1>9. CASE \E b \in BOOLEAN : WriteMask(b)
  BY <1>9 DEF WriteMask, PauseStopped
<1>10. CASE Acknowledgement
  BY <1>10 DEF Acknowledgement, PauseStopped
<1>11. CASE RequestData
  BY <1>11 DEF RequestData, PauseStopped
<1>12. CASE ClearIStat
  BY <1>12 DEF ClearIStat, PauseStopped
<1>13. CASE UNCHANGED vars
  BY <1>13 DEF vars, PauseStopped
<1> QED
  BY <1>1, <1>2, <1>3, <1>4, <1>5, <1>6, <1>7, <1>8, <1>9, <1>10, <1>11, <1>12,
     <1>13 DEF Next, Events, Guest

\* When a Pause is complete the drive reads no more (PauseStopsReading), on a
\* disc that may fail to read but has no ends of files: those are where the
\* controller queues a Pause of its own.
THEOREM PausesStop ==
  ASSUME EofSectors = {}
  PROVE  DriverSpec => PauseStopsReading
<1>1. DriverInit => PauseStopped
  BY DEF DriverInit, Init, PauseStopped
<1>2. PauseStopped /\ [DriverNext]_allVars => PauseStopped'
  BY PauseStep, DriverStep
<1>3. PauseStopped /\ [DriverNext]_allVars =>
        [Irq = "Pause2" /\ Stat' = Complete => Reading = 0]_allVars
  BY DEF PauseStopped
<1> QED
  BY <1>1, <1>2, <1>3, PTL DEF DriverSpec, PauseStopsReading
==============================================================================
