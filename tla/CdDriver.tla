------------------------------- MODULE CdDriver -------------------------------
(***************************************************************************)
(* The CD-ROM controller driven by a guest program that follows the        *)
(* handshake: it sends a command only when the previous one has had its    *)
(* last answer, and takes every interrupt through one handler that clears  *)
(* I_STAT, drains the result, copies an announced sector by DMA channel 3, *)
(* and acknowledges the answer before it returns.                          *)
(*                                                                         *)
(* psxBranchTest (R3000A.c) runs the controller's events and then, in the  *)
(* same call, takes the exception; so with interrupts enabled no           *)
(* instruction of the main program runs between an event and the handler:  *)
(* the main program moves only while ~iStat.  The handler itself is        *)
(* interleaved with the events at every register access.                   *)
(***************************************************************************)
EXTENDS CdRom

VARIABLES
  cmd,      \* the command waiting for its last answer, or "none"
  hpc,      \* where the guest is: "main", or a step of its handler
  memory    \* the sector the guest copied last, Blank for none

driverVars == <<cmd, hpc, memory>>
allVars == <<vars, driverVars>>

HandlerSteps ==
  {"select", "status", "result", "port0", "request", "dma", "port1", "ack",
   "leave"}

Goto(from, to) == hpc = from /\ hpc' = to

------------------------------------------------------------------------------
(* The main program *)

DriverSend(c) ==
  /\ hpc = "main" /\ ~iStat
  /\ cmd = "none"
  /\ Send(c)
  /\ cmd' = c
  /\ UNCHANGED <<hpc, memory>>

------------------------------------------------------------------------------
(* The interrupt handler *)

\* The exception is taken and the interrupt is cleared before it is served, so
\* that one raised meanwhile is not lost.
EnterHandler ==
  /\ Goto("main", "select")
  /\ ClearIStat
  /\ UNCHANGED <<cmd, memory>>

SelectPort1 ==
  /\ \/ Goto("select", "status")
     \/ Goto("port1", "ack")
  /\ WriteIndex(1)
  /\ UNCHANGED <<cmd, memory>>

\* cdrRead3: the kind of answer, if there is one.
ReadStatus ==
  /\ Goto("status", IF Stat = NoIntr THEN "leave" ELSE "result")
  /\ UNCHANGED <<vars, cmd, memory>>

DrainResult ==
  /\ hpc = "result"
  /\ \/ /\ ReadResult
        /\ UNCHANGED hpc
     \/ /\ ~ResultReady
        /\ hpc' = (IF Stat = DataReady THEN "port0" ELSE "ack")
        /\ UNCHANGED vars
  /\ UNCHANGED <<cmd, memory>>

SelectPort0 ==
  /\ Goto("port0", "request")
  /\ WriteIndex(0)
  /\ UNCHANGED <<cmd, memory>>

Request ==
  /\ Goto("request", "dma")
  /\ RequestData
  /\ UNCHANGED <<cmd, memory>>

\* psxDma3 copies from cdr.pTransfer unless no sector was asked for.
Dma3 ==
  /\ Goto("dma", "port1")
  /\ memory' = IF Readed = 0 THEN memory ELSE Transfer
  /\ UNCHANGED <<vars, cmd>>

\* The guest acknowledges; the answer was the last one of its command unless
\* it announced a sector or a second answer is to come.
Ack ==
  /\ Goto("ack", "leave")
  /\ Acknowledgement
  /\ cmd' = IF \/ Stat = DataReady
               \/ Stat = Acknowledge /\ cmd \in TwoPhase
              THEN cmd ELSE "none"
  /\ UNCHANGED memory

\* The guest returns to port 0 with a write of 7 to register 2, which keeps
\* the result of an answer that arrived after the acknowledgement.
LeaveHandler ==
  /\ Goto("leave", "main")
  /\ RewindResult
  /\ UNCHANGED <<cmd, memory>>

Handler ==
  \/ EnterHandler \/ SelectPort1 \/ ReadStatus \/ DrainResult
  \/ SelectPort0 \/ Request \/ Dma3 \/ Ack \/ LeaveHandler

------------------------------------------------------------------------------

DriverInit == Init /\ cmd = "none" /\ hpc = "main" /\ memory = Blank

DriverEvents == Events /\ UNCHANGED driverVars

DriverNext ==
  \/ DriverEvents
  \/ Handler
  \/ \E c \in Commands : DriverSend(c)

DriverSpec == DriverInit /\ [][DriverNext]_allVars

\* The guest's handler runs to its end, and psxBranchTest, called at every
\* branch, runs what is due.  AnswerCommand competes with SectorReady for the
\* empty Stat: its delay after an acknowledgement (0x800 cycles) is a hundredth
\* of the sector time, so it is not passed over for ever.
DriverFairness ==
  /\ WF_allVars(Handler)
  /\ SF_allVars(AnswerCommand /\ UNCHANGED driverVars)
  /\ WF_allVars(AnswerRead /\ UNCHANGED driverVars)
  /\ WF_allVars((SectorReady \/ SectorError) /\ UNCHANGED driverVars)

FairDriverSpec == DriverSpec /\ DriverFairness

------------------------------------------------------------------------------
(* Properties *)

\* A sector that was announced and not copied yet.
Announced == Stat = DataReady /\ hpc \notin {"port1", "ack"}

\* The controller, as this guest sees it, implements the abstract drive.
Stream == INSTANCE CdStream WITH
  on <- Reading # 0,
  pos <- IF Announced THEN Transfer ELSE SetSector

\* No sector is lost, repeated or torn, although sectors are prefetched, the
\* fifo holds one, and commands and their answers arrive in between.
DeliversInOrder == Stream!Spec

\* The guest always reads a result it was given: at least one byte is left
\* when the status said so, and never more than cdr.Result[8] holds.  The
\* result is shared by both events and reset by register writes.
ResultWhole ==
  hpc = "result" /\ ResultReady => ResultLeft \in 1..8

\* The handler finds an answer behind every interrupt, and an unserved answer
\* always has an interrupt: neither a spurious nor a lost interrupt.
InterruptMeansAnswer ==
  hpc \in {"main", "select", "status"} =>
    (Stat # NoIntr <=> iStat \/ hpc \in {"select", "status"})

\* While a sector waits in the drive's buffer for the read event, it is the
\* one the guest gets next: no stale prefetch.
PrefetchCurrent == evRead => buffered = SetSector

\* When a Pause is complete the drive reads no more.
PauseStopsReading ==
  [][Irq = "Pause2" /\ Stat' = Complete => Reading = 0]_allVars

\* Every command the guest sends gets its last answer.
CommandAnswered == \A c \in Commands : cmd = c ~> cmd = "none"

\* A drive that reads goes on delivering: the next sector comes unless the
\* guest sends another command.
SectorsFlow ==
  Reading # 0 /\ cmd = "none" ~> hpc = "dma" \/ cmd # "none"

\* What is inductive.  On a disc without errors an answer and its interrupt come
\* together, and the handler keeps the answer from its first step to Ack.
Served ==
  IF hpc \in {"main", "leave"} THEN Stat # NoIntr <=> iStat
                                ELSE Stat # NoIntr /\ ~iStat

\* One half holds on every disc; the other does where no read fails, since
\* SectorError gives an answer without an interrupt.
Handling ==
  IF hpc \in {"main", "leave"} THEN iStat => Stat # NoIntr
                                ELSE Stat # NoIntr /\ ~iStat

Answered ==
  /\ Reg2Masked = FALSE /\ RErr = FALSE
  /\ hpc \in {"main", "leave"} /\ Stat # NoIntr => iStat

Resulting ==
  /\ Stat # NoIntr /\ hpc \in {"main", "leave", "select", "status"} =>
       ResultLeft \in 1..8
  /\ ResultWhole

\* A read that waits for its acknowledgement has the controller to itself.
ReadAlone == Irq = "ReadAck" => Stat = NoIntr /\ ~evRead /\ cmd # "none"

\* From then on the buffer holds the next sector, also while no event is due.
Prefetched == Reading # 0 /\ Irq # "ReadAck" => buffered = SetSector

\* An announced sector is the one before the next, and no command comes between
\* its announcement and the end of the handler.
Announcing ==
  /\ Stat = DataReady =>
       Reading # 0 /\ Transfer \in Sectors /\ SetSector = NextSector(Transfer)
  /\ hpc \in {"port0", "request", "dma"} => Stat = DataReady
  /\ hpc = "dma" => Readed = 1

DriverInv ==
  /\ hpc \in HandlerSteps \cup {"main"}
  /\ Reg2Masked = FALSE /\ RErr = FALSE
  /\ Served
  /\ ReadAlone
  /\ Prefetched
  /\ Announcing
==============================================================================
