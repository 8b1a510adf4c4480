------------------------------ MODULE SioDriver -------------------------------
(***************************************************************************)
(* The serial port driven by a guest program that reads controllers and    *)
(* reads and writes memory card frames: it selects a slot, sends the bytes *)
(* of the transfer one by one, takes the interrupt each of them raises and *)
(* then the byte that came back.  It may give a transfer up at any moment  *)
(* (a timeout, a card that is not there), and starts each on a port it has *)
(* reset.  The player presses buttons meanwhile.                           *)
(***************************************************************************)
EXTENDS Sio

VARIABLES
  request,  \* the transfer under way
  phase,    \* "idle", "send", "wait" or "receive"
  sent,     \* bytes sent so far
  got,      \* the bytes received so far
  result,   \* the block the last transfer read from a card
  held      \* the button bytes the last transfer read from a controller

driverVars == <<request, phase, sent, got, result, held>>
allVars == <<vars, driverVars>>

None == [op |-> "none"]

Pads == [op : {"pad"}, slot : Slots]
CardReads == [op : {"read"}, slot : Slots, frame : Frames]
CardWrites == [op : {"write"}, slot : Slots, frame : Frames, block : Blocks]

\* The bytes of a transfer.  Those the device ignores are 0.
Padding(n) == [i \in 1..n |-> 0]
Message(r) ==
  LET card(command) ==
        <<CardStart, command, 0, 0, r.frame \div 256, r.frame % 256>>
  IN  CASE r.op = "pad" -> <<PadStart, PadRead>> \o Padding(3)
        [] r.op = "read" -> card(ReadCommand) \o Padding(SectorBytes + 6)
        [] r.op = "write" -> card(WriteCommand) \o r.block \o Padding(4)
        [] OTHER -> <<>>

Finished == sent = Len(Message(request))

\* The address, the data and the checksum of a card read cancel out.
ChecksumRight == Xor(SubSeq(got, 9, 11 + SectorBytes)) = 0

------------------------------------------------------------------------------

Begin(r) ==
  /\ phase = "idle" /\ ~iStat
  /\ WriteCtrl(r.slot, FALSE)
  /\ request' = r
  /\ phase' = "send"
  /\ sent' = 0 /\ got' = <<>> /\ held' = <<>>
  /\ result' = IF r.op = "pad" THEN result ELSE <<>>

\* The second byte of a controller is its id; 0xff is no controller at all.
NoController == request.op = "pad" /\ Len(got) = 2 /\ got[2] # StandardPad

\* The last byte of a controller raises no interrupt; nothing is waited for.
SendByte ==
  /\ phase = "send" /\ ~NoController
  /\ Write8(Message(request)[sent + 1])
  /\ sent' = sent + 1
  /\ phase' = IF request.op = "pad" /\ sent' = Len(Message(request))
                THEN "receive" ELSE "wait"
  /\ UNCHANGED <<request, got, result, held>>

TakeInterrupt ==
  /\ phase = "wait"
  /\ ClearIStat
  /\ phase' = "receive"
  /\ UNCHANGED <<request, sent, got, result, held>>

ReceiveByte ==
  /\ phase = "receive" /\ ~Finished
  /\ Read8
  /\ got' = Append(got, Received)
  /\ phase' = "send"
  /\ UNCHANGED <<request, sent, result, held>>

End == request' = None /\ phase' = "idle" /\ sent' = 0 /\ got' = <<>>

\* The last byte ends the transfer.  A card read counts when its checksum is
\* right, a controller read when the controller has an id.
ReceiveLast ==
  /\ phase = "receive" /\ Finished
  /\ Read8
  /\ LET data == SubSeq(got, 11, 10 + SectorBytes)
     IN  result' = IF /\ request.op = "read"
                      /\ ChecksumRight
                     THEN data ELSE result
  /\ held' = IF request.op = "pad" THEN <<got[4], Received>> ELSE <<>>
  /\ End

\* The transfer is given up and the port reset; an interrupt that had come
\* already is dropped before the next transfer.
GiveUp ==
  /\ phase # "idle"
  /\ WriteCtrl(0, TRUE)
  /\ End
  /\ UNCHANGED <<result, held>>

DropLate ==
  /\ phase = "idle"
  /\ ClearIStat
  /\ UNCHANGED driverVars

Guest == (NoController /\ GiveUp) \/ SendByte \/ TakeInterrupt \/ ReceiveByte \/ ReceiveLast

Port == SioInterrupt /\ UNCHANGED driverVars

Player == \E b \in Buttons : Press(b) /\ UNCHANGED driverVars

DriverInit ==
  /\ Init
  /\ request = None /\ phase = "idle" /\ sent = 0 /\ got = <<>>
  /\ result = <<>> /\ held = <<>>

DriverNext ==
  \/ \E r \in Pads \cup CardReads \cup CardWrites : Begin(r)
  \/ Guest \/ GiveUp \/ DropLate \/ Port \/ Player

DriverSpec == DriverInit /\ [][DriverNext]_allVars

------------------------------------------------------------------------------
(* Properties *)

PortTypes ==
  /\ Ctrl \in 0..2 /\ rx \in BOOLEAN
  /\ buf \in [0..(BufSize - 1) -> Byte]
  /\ padst \in 0..2 /\ mcdst \in 0..5 /\ rdwr \in 0..2
  /\ adrH \in Byte /\ adrL \in Byte
  /\ evSio \in BOOLEAN /\ iStat \in BOOLEAN
  /\ McdData \in [Slots -> [Frames -> Blocks]]
  /\ buttons \in Buttons

\* Every variable keeps its type, and the position in the buffer never passes
\* the end of the transfer (buf[parp] in sioRead8).
TypeOK ==
  /\ PortTypes
  /\ bufcount \in 0..(BufSize - 1) /\ parp \in 0..bufcount
  /\ request \in {None} \cup Pads \cup CardReads \cup CardWrites
  /\ phase \in {"idle", "send", "wait", "receive"}
  /\ sent \in 0..Len(Message(request))

\* The serial port and this guest implement the memory cards: whole blocks,
\* in the frame and slot asked for, or nothing when a transfer is given up
\* with any number of its bytes sent.
Cards == INSTANCE MemCards WITH
  card <- McdData,
  request <- IF request.op = "pad" THEN None ELSE request
CardsHold == Cards!Spec

\* Every finished card read passes the guest's checksum.
ReadsAccepted ==
  request.op = "read" /\ phase = "receive" /\ Finished => ChecksumRight

\* A controller read gives the buttons of one moment, although the player
\* presses others between two bytes.
PadSnapshot == held = <<>> \/ \E b \in Buttons : held = <<b, b>>

\* Nothing of a transfer is left when the next one begins, finished or not.
QuietBetween == phase = "idle" => padst = 0 /\ mcdst = 0 /\ ~evSio

\* The guest never waits for an interrupt that will not come.
InterruptComes == phase = "wait" => evSio \/ iStat

\* The inductive invariant the proofs use, in parts.  Guest and interrupt: each
\* byte but the last of a controller has one interrupt, taken before the next.
Unread == phase \in {"wait", "receive"}

Turns ==
  /\ phase = "idle" => request = None /\ ~evSio
  /\ phase = "idle" => sent = 0 /\ padst = 0 /\ mcdst = 0
  /\ phase # "idle" => request # None /\ Ctrl = request.slot
  /\ phase \in {"send", "receive"} => ~evSio /\ ~iStat
  /\ phase = "wait" => evSio # iStat
  /\ phase = "send" => sent < Len(Message(request)) /\ Len(got) = sent
  /\ Unread => sent > 0 /\ Len(got) = sent - 1
  /\ sent > 0 => rx

\* A controller read: the automaton and the position follow the bytes sent.
PadPort ==
  request.op = "pad" =>
    /\ mcdst = 0
    /\ sent = 1 => padst = 1
    /\ sent \in 2..4 => padst = 2
    /\ sent \notin 1..4 => padst = 0
    /\ sent > 0 => parp = sent - 1
    /\ sent = 1 => bufcount = 2
    /\ sent > 1 => bufcount = IF request.slot = 1 THEN 4 ELSE 32

\* Slot 1 answers with the buttons of one moment.
PadReply ==
  request.op = "pad" /\ request.slot = 1 /\ sent > 0 =>
    \E b \in Buttons :
      /\ reply = SubSeq(PadBytes(b), sent, 4)
      /\ Unread /\ sent > 1 => buf[sent - 1] = PadBytes(b)[sent - 1]
      /\ \A k \in 2..Len(got) : got[k] = PadBytes(b)[k - 1]

\* Slot 2 is found to be empty with the second byte.
PadAbsent ==
  request.op = "pad" /\ request.slot = 2 =>
    /\ sent <= 2
    /\ Unread /\ sent = 2 => buf[1] = 255
    /\ Len(got) = 2 => got[2] = 255

\* A transfer with a card: command, address, and the position in the buffer
\* that is prepared with the seventh byte.
CardPort ==
  request.op \in {"read", "write"} =>
    /\ padst = 0
    /\ sent = 0 => mcdst = 0
    /\ sent \in 1..4 => mcdst = IF sent = 4 /\ phase = "send" THEN 2 ELSE 1
    /\ sent = 5 => mcdst = 3
    /\ sent = 6 => mcdst = 4
    /\ sent >= 7 => mcdst = 5
    /\ sent \in 1..4 => parp = sent - 1 /\ bufcount = 3
    /\ sent \in 5..6 => parp = 0 /\ bufcount = 1
    /\ sent >= 7 => parp = sent - 7 /\ bufcount = Len(Message(request)) - 7
    /\ sent = 1 => rdwr = 0
    /\ sent > 1 => rdwr = IF request.op = "read" THEN 1 ELSE 2
    /\ sent >= 5 => adrH = request.frame \div 256
    /\ sent >= 6 => adrL = request.frame % 256

\* The buffer of a read holds address, frame and checksum, and the guest has
\* what it sent for of it.
Sectors(r) == McdData[r.slot][r.frame]

Reads ==
  request.op = "read" /\ sent >= 7 =>
    /\ buf[2] = adrH /\ buf[3] = adrL
    /\ \A k \in 1..SectorBytes : buf[k + 3] = Sectors(request)[k]
    /\ buf[SectorBytes + 4] = Checksum(adrH, adrL, Sectors(request))
    /\ \A k \in 8..Len(got) : got[k] = buf[k - 7]

\* The buffer of a write holds the bytes of the block sent so far.
Writes ==
  request.op = "write" =>
    \A k \in 1..SectorBytes : k <= sent - 6 => buf[k] = request.block[k]

IInv ==
  /\ TypeOK
  /\ got \in Seq(Byte) /\ reply \in Seq(Byte)
  /\ Turns
  /\ PadPort /\ PadReply /\ PadAbsent
  /\ CardPort /\ Reads /\ Writes
  /\ PadSnapshot
==============================================================================
