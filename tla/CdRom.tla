-------------------------------- MODULE CdRom --------------------------------
(***************************************************************************)
(* The CD-ROM controller of CdRom.c: its four register ports, its          *)
(* one-slot queue of pending answers (cdr.Irq), the two scheduled events   *)
(* that psxBranchTest (R3000A.c) runs for it, and the sector it prefetches.*)
(*                                                                         *)
(* The controller talks to an arbitrary guest program: any register write  *)
(* the emulated machine can make, at any time.  CdDriver.tla replaces the  *)
(* arbitrary guest by one that follows the handshake.                      *)
(*                                                                         *)
(* Time is left out.  An event is scheduled or it is not (a bit of         *)
(* psxRegs->interrupt), and a scheduled event may run at any moment, which *)
(* covers every delay the code can ask for.  Handlers that find an         *)
(* unacknowledged answer only schedule themselves again; that changes      *)
(* nothing here, so it appears as a guard (Stat = NoIntr) and not as an    *)
(* action.                                                                 *)
(***************************************************************************)
EXTENDS Integers, FiniteSets

CONSTANTS
  Commands,     \* the commands the guest may send, some of AllCommands
  Minutes,      \* values of the bytes of SetSector: the minute is an unsigned
  Seconds,      \*   char, 256 in the code, seconds are carried at 60 and
  Frames,       \*   frames at 75
  EofSectors,   \* the sectors whose sub-mode byte has the end-of-file bit
  MediaErrors,  \* TRUE when CDR_readTrack or CDR_getBuffer may fail, and the
                \*   lid may be opened
  ByteRange     \* values of an unsigned char: 256 in the code

VARIABLES
  Ctrl,         \* bits of cdr.Ctrl: "port" (bit 0) and "busy" (bit 7)
  Stat,         \* the answer the guest has not acknowledged yet
  Irq,          \* the one queued answer
  evCdr,        \* psxRegs->interrupt & 0x4
  evRead,       \* psxRegs->interrupt & 0x40000
  iStat,        \* bit 2 of I_STAT (0x1f801070)
  Reg2Masked,   \* cdr.Reg2 = 0x18: the guest asked for no interrupts
  ResultReady,  \* the result FIFO has bytes to read
  ResultLeft,   \* (ResultC - ResultP) modulo ByteRange
  StatP,        \* bits of cdr.StatP
  Seeked,       \* a seek has been made since the last Setloc
  Play,         \* CD audio is playing
  AutoPause,    \* cdr.Mode & 2
  Reading,      \* 0, or 1 and 2 for ReadN and ReadS
  SetSector,    \* the next sector to read
  buffered,     \* the sector in the CDR backend's buffer
  RErr,         \* CDR_readTrack failed to fill that buffer
  Transfer,     \* the sector in cdr.Transfer
  Readed,       \* 0: sector not asked for, 1: asked for, 255: none yet
  pTransfer     \* "null", or "sector" when it points into cdr.Transfer

eventVars  == <<evCdr, evRead>>
resultVars == <<ResultReady, ResultLeft>>
modeVars   == <<Reg2Masked, AutoPause>>
driveVars  == <<StatP, Seeked, Play>>
diskVars   == <<SetSector, buffered, RErr>>
dataVars   == <<Transfer, Readed, pTransfer>>
vars == <<Ctrl, Stat, Irq, eventVars, iStat, resultVars, modeVars, driveVars,
          Reading, diskVars, dataVars>>

------------------------------------------------------------------------------
(* Answers and commands *)

NoIntr == 0
DataReady == 1
Complete == 2
Acknowledge == 3
DiskError == 5

\* Commands answered once, in the handler cdrInterrupt runs for them.
SingleCommands ==
  {"Sync", "Nop", "Setloc", "Play", "Forward", "Backward", "Standby", "Stop",
   "Mute", "Demute", "Setfilter", "Setmode", "Getmode", "GetlocL", "GetlocP",
   "GetTN", "GetTD", "Test", "Reset"}

\* Commands acknowledged first and completed by a second answer (code + 0x20).
SecondAnswer ==
  [Pause |-> "Pause2", Init |-> "Init2", SeekL |-> "SeekL2",
   SeekP |-> "SeekP2", ID |-> "ID2", ReadToc |-> "ReadToc2"]

TwoPhase == DOMAIN SecondAnswer
SecondAnswers == {SecondAnswer[c] : c \in TwoPhase}

ReadCommands == {"ReadN", "ReadS"}
AllCommands == SingleCommands \cup TwoPhase \cup ReadCommands

\* The values of cdr.Irq.  CdlSync is 0, the value an empty queue also has
\* after an acknowledgement; "none" is 0xff, an empty queue before it.
Irqs == SingleCommands \cup TwoPhase \cup SecondAnswers \cup {"ReadAck", "none"}

ASSUME CommandsAssumption == Commands \subseteq AllCommands
\* Sectors are numbered; the number stands for minute, second and frame.
SectorCount == Minutes * Seconds * Frames

ASSUME SectorAssumption ==
  /\ Minutes \in Nat \ {0} /\ Seconds \in Nat \ {0} /\ Frames \in Nat \ {0}
  /\ EofSectors \subseteq 0..(SectorCount - 1)
ASSUME MediaAssumption == MediaErrors \in BOOLEAN
ASSUME ByteAssumption == ByteRange \in Nat /\ ByteRange > 8

Sectors == 0..(SectorCount - 1)
Blank == -1                      \* cdr.Transfer zeroed, no sector in it

SectorAt(m, sec, f) == (m * Seconds + sec) * Frames + f
Minute(s) == (s \div Frames) \div Seconds
Second(s) == (s \div Frames) % Seconds
Frame(s) == s % Frames

\* SetSector moved on by one frame, with its carries.
NextSector(s) ==
  CASE Frame(s) + 1 # Frames -> SectorAt(Minute(s), Second(s), Frame(s) + 1)
    [] Frame(s) + 1 = Frames /\ Second(s) + 1 # Seconds ->
         SectorAt(Minute(s), Second(s) + 1, 0)
    [] OTHER -> SectorAt((Minute(s) + 1) % Minutes, 0, 0)

\* Bytes cdrInterrupt puts in the result FIFO for an answer.  Test answers
\* according to its sub-function, and leaves the FIFO alone for an unknown one.
ResultSizes(i) ==
  CASE i = "Getmode" -> {6}
    [] i \in {"GetlocL", "GetlocP", "ID2"} -> {8}
    [] i = "GetTN" -> {3}
    [] i = "GetTD" -> {4}
    [] i = "Test" -> {4, 8}
    [] OTHER -> {1}

\* cdr.StatP after an answer to Nop, which may find that the lid was closed.
StatPAfterNop == {StatP} \cup (IF MediaErrors THEN {StatP \cup {"motor"}} ELSE {})

\* cdr.StatP after any other answer.
StatPAfter(i) ==
  CASE i \in {"GetlocL", "GetlocP", "Test", "Pause", "Init2", "ID2"} -> StatP
    [] i = "Play" -> StatP \cup {"motor", "play"}
    [] i = "Stop" -> StatP \ {"motor"}
    [] i = "Pause2" -> (StatP \ {"read"}) \cup {"motor"}
    [] i \in {"Init", "Reset"} -> {"motor"}
    [] i \in {"SeekL", "SeekP"} -> StatP \cup {"motor", "seek"}
    [] i \in {"SeekL2", "SeekP2"} -> (StatP \cup {"motor"}) \ {"seek"}
    [] i = "ReadAck" -> StatP \cup {"motor", "read"} \cup
                          (IF Seeked THEN {} ELSE {"seek"})
    [] OTHER -> StatP \cup {"motor"}

\* The kind of answer cdrInterrupt gives.
StatFor(i) ==
  IF i \in {"Forward", "Backward", "Standby", "Stop"} \cup SecondAnswers
    THEN {Complete}
    ELSE IF MediaErrors /\ i \in {"Nop", "GetTN", "GetTD"}
           THEN {Acknowledge, DiskError}
           ELSE {Acknowledge}

------------------------------------------------------------------------------
(* Steps the handlers share *)

SetResultSize(n) ==
  /\ ResultReady' = TRUE
  /\ ResultLeft' = n

\* Both handlers wait for the guest to acknowledge the answer before theirs.
NotWaiting == TRUE                                               \* mutant
Acknowledged == Stat = NoIntr

\* A new command and an acknowledgement drop the answer.
KeepAnswer == UNCHANGED Stat                                     \* mutant
DropAnswer == Stat' = NoIntr

\* The end of cdrInterrupt: the interrupt is raised unless masked.
RaiseNothing == UNCHANGED iStat                                  \* mutant
RaiseUnmasked == iStat' = (iStat \/ ~Reg2Masked)

\* ReadTrack: the backend fills its buffer with SetSector, or fails.
ReadTrackAt(s) ==
  /\ buffered' = s
  /\ RErr' \in (IF MediaErrors THEN BOOLEAN ELSE {FALSE})

\* The prefetch that follows a sector, after SetSector has moved on.
PrefetchAgain == ReadTrackAt(SetSector)                          \* mutant
PrefetchNext == ReadTrackAt(NextSector(SetSector))

\* StopCdda, for commands that end CD audio.
StopCddaKeepsBit == Play' = FALSE /\ UNCHANGED StatP             \* mutant
StopCdda ==
  /\ Play' = FALSE
  /\ StatP' = IF Play THEN StatP \ {"play"} ELSE StatP

\* StopReading also cancels the scheduled read event, but only while reading.
StopReadingKeepsEvent == Reading' = 0 /\ UNCHANGED evRead        \* mutant
StopReadingNever == UNCHANGED <<Reading, evRead>>                \* mutant
StopReading ==
  /\ Reading' = 0
  /\ evRead' = (evRead /\ Reading = 0)

------------------------------------------------------------------------------
(* The two events psxBranchTest runs *)

\* cdrInterrupt, for an answer to a command (first or second).
AnswerCommand ==
  /\ evCdr
  /\ Acknowledged
  /\ Irq \notin {"ReadAck", "none"}
  /\ Irq' = IF Irq \in TwoPhase THEN SecondAnswer[Irq] ELSE "none"
  /\ evCdr' = FALSE
  /\ Ctrl' = IF Irq = "Pause" THEN Ctrl \cup {"busy"} ELSE Ctrl \ {"busy"}
  /\ \/ \E n \in ResultSizes(Irq) : SetResultSize(n)
     \/ Irq = "Test" /\ UNCHANGED resultVars
  /\ StatP' \in (IF Irq = "Nop" THEN StatPAfterNop ELSE {StatPAfter(Irq)})
  /\ Seeked' = (Seeked \/ Irq = "SeekL")
  /\ Stat' \in StatFor(Irq)
  /\ RaiseUnmasked
  /\ UNCHANGED <<evRead, modeVars, Play, Reading, diskVars, dataVars>>

\* cdrInterrupt, case READ_ACK: the read is acknowledged, the first sector is
\* prefetched and the read event scheduled.
AnswerRead ==
  /\ evCdr
  /\ Acknowledged
  /\ Irq = "ReadAck"
  /\ Reading # 0
  /\ Irq' = "none"
  /\ evCdr' = FALSE
  /\ Ctrl' = Ctrl \ {"busy"}
  /\ SetResultSize(1)
  /\ StatP' = StatPAfter(Irq)
  /\ Seeked' = TRUE
  /\ Stat' = Acknowledge
  /\ ReadTrackAt(SetSector)
  /\ evRead' = TRUE
  /\ RaiseUnmasked
  /\ UNCHANGED <<modeVars, Play, Reading, SetSector, dataVars>>

\* cdrReadInterrupt with a good buffer: the prefetched sector is handed to the
\* guest and the next one is prefetched, unless the sector ends a file and the
\* guest asked for auto-pause, which queues a Pause instead.
SectorReady ==
  /\ evRead
  /\ Reading # 0
  /\ Acknowledged
  /\ ~RErr
  /\ SetResultSize(1)
  /\ StatP' = (StatP \cup {"motor", "read"}) \ {"seek"}
  /\ Transfer' = buffered
  /\ Stat' = DataReady
  /\ SetSector' = NextSector(SetSector)
  /\ Readed' = 0
  /\ IF buffered \in EofSectors /\ AutoPause
       THEN /\ Irq' = "Pause"
            /\ evRead' = FALSE
            /\ UNCHANGED <<buffered, RErr>>
       ELSE /\ PrefetchNext
            /\ evRead' = TRUE
            /\ UNCHANGED Irq
  /\ iStat' = TRUE
  /\ UNCHANGED <<Ctrl, evCdr, modeVars, Seeked, Play, Reading, pTransfer>>

\* cdrReadInterrupt after a failed read, or with no buffer: a disk error is
\* reported and the same sector is tried again.  I_STAT is not raised.
SectorError ==
  /\ evRead
  /\ Reading # 0
  /\ Acknowledged
  /\ RErr \/ MediaErrors
  /\ SetResultSize(1)
  /\ StatP' = (StatP \cup {"motor", "read"}) \ {"seek"}
  /\ Transfer' = Blank
  /\ Stat' = DiskError
  /\ ReadTrackAt(SetSector)
  /\ evRead' = TRUE
  /\ UNCHANGED <<Ctrl, Irq, evCdr, iStat, modeVars, Seeked, Play, Reading,
                 SetSector, Readed, pTransfer>>

------------------------------------------------------------------------------
(* Register accesses of the guest *)

\* cdrWrite0: selects the port; writing 0 drops the unread result.
WriteIndex(rt) ==
  /\ Ctrl' = IF rt % 2 = 1 THEN Ctrl \cup {"port"} ELSE Ctrl \ {"port"}
  /\ ResultReady' = (ResultReady /\ rt # 0)
  /\ UNCHANGED <<Stat, Irq, eventVars, iStat, ResultLeft, modeVars, driveVars,
                 Reading, diskVars, dataVars>>

\* cdr.ResultP++ and the test against cdr.ResultC.
LeftUnwrapped == ResultLeft - 1                                  \* mutant
LeftAfterRead == (ResultLeft - 1) % ByteRange
AlwaysMore(left) == TRUE                                         \* mutant
MoreLeft(left) == left # 0

\* cdrRead1: one byte of the result.
ReadResult ==
  /\ ResultReady
  /\ ResultLeft' = LeftAfterRead
  /\ ResultReady' = MoreLeft(ResultLeft')
  /\ UNCHANGED <<Ctrl, Stat, Irq, eventVars, iStat, modeVars, driveVars,
                 Reading, diskVars, dataVars>>

\* cdrWrite1, the part every accepted command shares: an unacknowledged answer
\* is dropped and the command takes the queue slot, whatever was in it.
Accept(irq) ==
  /\ "port" \notin Ctrl
  /\ Ctrl' = Ctrl \cup {"busy"}
  /\ DropAnswer
  /\ Irq' = irq
  /\ evCdr' = TRUE
  /\ UNCHANGED <<iStat, resultVars, Reg2Masked, buffered, RErr, Transfer,
                 pTransfer>>

\* Commands that leave the drive alone until they are answered.  The
\* parameters of Setfilter, GetTD and Test, the track of Forward and Backward,
\* and the mute switch reach no other part of this model.
WriteCommand(c) ==
  /\ c \notin ReadCommands
  /\ c \notin {"Setloc", "Play", "Setmode", "Standby", "Stop", "Pause", "Init",
               "Reset"}
  /\ Accept(c)
  /\ UNCHANGED <<evRead, AutoPause, driveVars, Reading, SetSector, Readed>>

WriteSetloc(s) ==
  /\ Accept("Setloc")
  /\ StopReading
  /\ Seeked' = FALSE
  /\ SetSector' = s
  /\ UNCHANGED <<AutoPause, StatP, Play, Readed>>

WritePlay ==
  /\ Accept("Play")
  /\ Play' = TRUE
  /\ UNCHANGED <<evRead, AutoPause, StatP, Seeked, Reading, SetSector, Readed>>

WriteSetmode(autoPause) ==
  /\ Accept("Setmode")
  /\ AutoPause' = autoPause
  /\ UNCHANGED <<evRead, driveVars, Reading, SetSector, Readed>>

\* Standby, Stop, Pause, Init and Reset end CD audio and the read at once.
WriteHalt(c) ==
  /\ c \in {"Standby", "Stop", "Pause", "Init", "Reset"}
  /\ Accept(c)
  /\ StopCdda
  /\ StopReading
  /\ UNCHANGED <<AutoPause, Seeked, SetSector, Readed>>

\* ReadN and ReadS: StopReading, then StartReading.
WriteRead(c) ==
  /\ c \in ReadCommands
  /\ Accept("ReadAck")
  /\ Reading' = IF c = "ReadN" THEN 1 ELSE 2
  /\ evRead' = (evRead /\ Reading = 0)
  /\ Readed' = 255
  /\ UNCHANGED <<AutoPause, driveVars, SetSector>>

Send(c) ==
  \/ WriteCommand(c)
  \/ c = "Setloc" /\ \E s \in Sectors : WriteSetloc(s)
  \/ c = "Play" /\ WritePlay
  \/ c = "Setmode" /\ \E b \in BOOLEAN : WriteSetmode(b)
  \/ WriteHalt(c)
  \/ WriteRead(c)

\* cdrWrite2 on port 1 with 7: makes the result readable again, leaves port 1.
RewindResult ==
  /\ "port" \in Ctrl
  /\ ResultReady' = TRUE
  /\ Ctrl' = Ctrl \ {"port"}
  /\ UNCHANGED <<Stat, Irq, eventVars, iStat, ResultLeft, modeVars, driveVars,
                 Reading, diskVars, dataVars>>

\* cdrWrite2 on port 1 with another value: the interrupt mask.
WriteMask(masked) ==
  /\ "port" \in Ctrl
  /\ Reg2Masked' = masked
  /\ UNCHANGED <<Ctrl, Stat, Irq, eventVars, iStat, resultVars, AutoPause,
                 driveVars, Reading, diskVars, dataVars>>

\* The queue as cdrWrite3 tests it: 0xff is empty, and so is 0, CdlSync.
NeverEmpty == FALSE                                              \* mutant
QueueEmpty == Irq = "none"
ScheduleNothing == UNCHANGED evCdr                               \* mutant
ScheduleQueued == evCdr' = (evCdr \/ Irq # "Sync")

\* cdrWrite3 on port 1 with 7: acknowledges the answer and schedules what is
\* queued behind it.  An empty queue (0xff) only becomes 0 and returns early.
Acknowledgement ==
  /\ "port" \in Ctrl
  /\ DropAnswer
  /\ IF QueueEmpty
       THEN /\ Irq' = "Sync"
            /\ UNCHANGED eventVars
       ELSE /\ ScheduleQueued
            /\ evRead' = (evRead \/ (Reading # 0 /\ ~ResultReady))
            /\ UNCHANGED Irq
  /\ UNCHANGED <<Ctrl, iStat, resultVars, modeVars, driveVars, Reading,
                 diskVars, dataVars>>

\* cdrWrite3 on port 0 with 0x80: the guest asks for the sector in Transfer.
RequestData ==
  /\ "port" \notin Ctrl
  /\ Readed = 0
  /\ Readed' = 1
  /\ pTransfer' = "sector"
  /\ UNCHANGED <<Ctrl, Stat, Irq, eventVars, iStat, resultVars, modeVars,
                 driveVars, Reading, diskVars, Transfer>>

\* The guest clears bit 2 of I_STAT (a write to 0x1f801070).
ClearIStat ==
  /\ iStat
  /\ iStat' = FALSE
  /\ UNCHANGED <<Ctrl, Stat, Irq, eventVars, resultVars, modeVars, driveVars,
                 Reading, diskVars, dataVars>>

------------------------------------------------------------------------------

\* cdrReset, over registers psxReset has just zeroed.
Init ==
  /\ Ctrl = {} /\ Stat = NoIntr /\ Irq = "Sync"
  /\ evCdr = FALSE /\ evRead = FALSE /\ iStat = FALSE
  /\ Reg2Masked = FALSE /\ AutoPause = FALSE
  /\ ResultReady = FALSE /\ ResultLeft = 0
  /\ StatP = {} /\ Seeked = FALSE /\ Play = FALSE
  /\ Reading = 0
  /\ SetSector = 0 /\ buffered = Blank /\ RErr = FALSE
  /\ Transfer = Blank /\ Readed = 0 /\ pTransfer = "null"

Events == AnswerCommand \/ AnswerRead \/ SectorReady \/ SectorError

Guest ==
  \/ \E rt \in 0..3 : WriteIndex(rt)
  \/ ReadResult
  \/ \E c \in Commands : Send(c)
  \/ RewindResult
  \/ \E b \in BOOLEAN : WriteMask(b)
  \/ Acknowledgement
  \/ RequestData
  \/ ClearIStat

Next == Events \/ Guest

Spec == Init /\ [][Next]_vars

------------------------------------------------------------------------------
(* Properties *)

HandshakeTypes ==
  /\ Ctrl \subseteq {"port", "busy"}
  /\ Stat \in {NoIntr, DataReady, Complete, Acknowledge, DiskError}
  /\ Irq \in Irqs
  /\ evCdr \in BOOLEAN /\ evRead \in BOOLEAN /\ iStat \in BOOLEAN
  /\ Reg2Masked \in BOOLEAN

ResultTypes == ResultReady \in BOOLEAN /\ ResultLeft \in 0..(ByteRange - 1)

DriveTypes ==
  /\ StatP \subseteq {"motor", "read", "seek", "play"}
  /\ Seeked \in BOOLEAN /\ Play \in BOOLEAN /\ AutoPause \in BOOLEAN
  /\ Reading \in 0..2

DiskTypes ==
  /\ SetSector \in Sectors
  /\ buffered \in Sectors \cup {Blank} /\ RErr \in BOOLEAN
  /\ Transfer \in Sectors \cup {Blank}
  /\ Readed \in {0, 1, 255} /\ pTransfer \in {"null", "sector"}

\* Every variable keeps its type; in particular the unsigned char indices of
\* the result FIFO (cdrStruct in CdRom.h) wrap instead of growing.
TypeOK == HandshakeTypes /\ ResultTypes /\ DriveTypes /\ DiskTypes

\* An answer in the queue is never forgotten: either the event that will give
\* it is scheduled, or an unacknowledged answer is in front of it, whose
\* acknowledgement schedules it (cdrWrite3).  AddIrqQueue chooses between the
\* two by looking at cdr.Stat, which every handler and register changes.
QueuedAnswerWaits ==
  Irq \notin {"Sync", "none"} => evCdr \/ Stat # NoIntr

\* When the event runs there is an answer to give: the early return of
\* cdrInterrupt for 0xff, which would leave a guest waiting, is never taken.
EventHasAnswer == evCdr => Irq # "none"

\* A read that was stopped stays stopped: whatever stopped it left no read
\* event scheduled and no read acknowledgement in the queue, so neither
\* handler takes its "if (!cdr.Reading) return".
StoppedReadStays ==
  Reading = 0 => ~evRead /\ Irq # "ReadAck"

\* The drive reports CD audio only while it plays.  The status bit is set when
\* Play is answered, and a command sent in between may have stopped playback.
PlayBitHonest == "play" \in StatP => Play

\* Neither handler touches an answer the guest has not acknowledged, nor the
\* sector it announced; only a command the guest writes can drop the answer.
AnswerKept ==
  [][Stat # NoIntr =>
       /\ Stat' \in {Stat, NoIntr}
       /\ Transfer' = Transfer]_vars

\* The inductive invariant behind the invariants above.
IInv ==
  /\ TypeOK
  /\ QueuedAnswerWaits
  /\ EventHasAnswer
  /\ StoppedReadStays
  /\ PlayBitHonest
  /\ Irq = "Play" => Play
==============================================================================
