--------------------------------- MODULE Sio ----------------------------------
(***************************************************************************)
(* The serial port of Sio.c, on which a controller and a memory card of    *)
(* each of the two slots answer byte by byte, with the controllers of      *)
(* plugins.c behind it.                                                    *)
(*                                                                         *)
(* sioWrite8 and sioRead8 act on one shared buffer with one position       *)
(* (parp), whatever device is addressed; two small automata, padst and     *)
(* mcdst, say what the next byte means.  Every byte but the last of a      *)
(* controller schedules sioInterrupt.                                      *)
(*                                                                         *)
(* The flags of StatReg other than RX_RDY are read by the guest only and   *)
(* are left out.                                                           *)
(***************************************************************************)
EXTENDS Integers, Sequences, FiniteSets

CONSTANTS
  SectorBytes,  \* bytes of a memory card frame: 128
  Frames,       \* the frames of a card, numbers below 256 * 256
  Blocks,       \* the contents a frame can have, each of SectorBytes bytes
  Buttons,      \* the bytes a controller can answer for its buttons
  Garbage,      \* what _PADstartPoll can copy of a structure nobody filled
  BufSize       \* 256

VARIABLES
  Ctrl,         \* the slot CtrlReg & 0x2002 selects, 0 for none
  rx,           \* StatReg & RX_RDY
  buf, parp, bufcount,
  padst,        \* 0 idle, 1 controller addressed, 2 answering
  mcdst,        \* 0 idle, 1 card addressed, 2 and 3 address, 4 start, 5 data
  rdwr,         \* 0, or 1 reading and 2 writing
  adrH, adrL,
  evSio,        \* psxRegs->interrupt & 0x80
  iStat,        \* bit 7 of I_STAT
  McdData,      \* Mcd1Data and Mcd2Data, by slot and frame
  buttons,      \* what the player holds
  reply         \* the rest of the controller's answer: buf[bufc..] of plugins.c

transferVars == <<rx, buf, parp, bufcount>>
cardVars == <<mcdst, rdwr, adrH, adrL, McdData>>
padVars == <<padst, reply>>
vars == <<Ctrl, transferVars, padVars, cardVars, evSio, iStat, buttons>>

Slots == 1..2
Byte == 0..255

ASSUME CardAssumption ==
  /\ SectorBytes \in Nat \ {0}
  /\ Frames \subseteq 0..(256 * 256 - 1)
  /\ Blocks \subseteq [1..SectorBytes -> Byte]
ASSUME PadAssumption == Buttons \subseteq Byte /\ Garbage \subseteq Seq(Byte)
\* A transfer fits, and so does the longest answer a controller's id announces.
ASSUME BufAssumption ==
  BufSize \in Nat /\ BufSize > SectorBytes + 5 /\ BufSize > 34

PadStart == 1                   \* the bytes sioWrite8 knows
PadRead == 66
CardStart == 129
ReadCommand == 82
WriteCommand == 87

cardh == <<0, 0, 90, 93>>

------------------------------------------------------------------------------
(* The controllers (plugins.c) *)

\* _PADstartPoll: the buttons are read once; the first byte is answered now
\* and the rest kept for PAD1_poll: the id, 0x5a and the buttons in two bytes, which
\* the model gives the same value to see whether they were read together.
StandardPad == 65
PadBytes(pressed) == <<StandardPad, 90, pressed, pressed>>
PadAnswer == PadBytes(buttons)

\* PAD1_poll takes the next byte; PAD2_poll always answers 0xff.
PollAgain ==                                                     \* mutant
  IF Ctrl = 1 /\ Len(reply) > 2 THEN Head(reply) ELSE buttons
Poll == IF Ctrl = 1 /\ reply # <<>> THEN Head(reply) ELSE 255
ReplyAfterPoll == IF Ctrl = 1 /\ reply # <<>> THEN Tail(reply) ELSE reply

\* The byte the selected controller puts in the buffer; none is selected when
\* CtrlReg & 0x2002 is neither 0x0002 nor 0x2002.
Polled(i) == IF Ctrl \in Slots THEN [buf EXCEPT ![i] = Poll] ELSE buf

------------------------------------------------------------------------------
(* sioWrite8, by the state of the two automata *)

NoInterrupt == UNCHANGED evSio                                   \* mutant
SIO_INT == evSio' = TRUE

\* padst = 1: the command byte; the low half of the id says how much follows.
PadCommand(value) ==
  /\ padst = 1
  /\ IF (value \div 64) % 2 = 1
       THEN LET id == Polled(1)[1]
                half == IF id % 16 = 0 THEN 16 ELSE id % 16
                shown == CASE id = StandardPad /\ value = 67 -> 67
                           [] id = StandardPad /\ value = 69 -> 243
                           [] OTHER -> id
            IN  /\ padst' = 2 /\ parp' = 1
                /\ buf' = [Polled(1) EXCEPT ![1] = shown]
                /\ bufcount' = 2 + 2 * half
                /\ reply' = ReplyAfterPoll
       ELSE padst' = 0 /\ UNCHANGED <<buf, parp, bufcount, reply>>
  /\ SIO_INT
  /\ UNCHANGED <<Ctrl, rx, cardVars, iStat, buttons>>

PadDoneLate(n) == n = bufcount + 1                               \* mutant
PadDone(n) == n = bufcount

\* padst = 2: one byte of the answer; the last one raises no interrupt.
PadByte ==
  /\ padst = 2
  /\ parp' = parp + 1
  /\ buf' = Polled(parp')
  /\ reply' = ReplyAfterPoll
  /\ IF PadDone(parp')
       THEN padst' = 0 /\ UNCHANGED evSio
       ELSE SIO_INT /\ UNCHANGED padst
  /\ UNCHANGED <<Ctrl, rx, bufcount, cardVars, iStat, buttons>>

\* The card automaton sees a byte only while no controller is being read.
CardStep(state) ==
  /\ padst = 0 /\ mcdst = state
  /\ SIO_INT
  /\ UNCHANGED <<Ctrl, rx, padVars, McdData, iStat, buttons>>

\* mcdst = 1: the command, then the bytes that fetch the rest of cardh.
CardCommand(value) ==
  /\ CardStep(1)
  /\ IF rdwr # 0
       THEN parp' = parp + 1 /\ UNCHANGED <<rdwr, mcdst>>
       ELSE /\ parp' = 1
            /\ rdwr' = CASE value = ReadCommand -> 1
                         [] value = WriteCommand -> 2
                         [] OTHER -> 0
            /\ mcdst' = IF value \in {ReadCommand, WriteCommand} THEN 1 ELSE 0
  /\ UNCHANGED <<buf, bufcount, adrH, adrL>>

CardAddressHigh(value) ==
  /\ CardStep(2)
  /\ adrH' = value
  /\ buf' = [buf EXCEPT ![0] = 0]
  /\ parp' = 0 /\ bufcount' = 1 /\ mcdst' = 3
  /\ UNCHANGED <<rdwr, adrL>>

CardAddressLow(value) ==
  /\ CardStep(3)
  /\ adrL' = value
  /\ buf' = [buf EXCEPT ![0] = adrH]
  /\ parp' = 0 /\ bufcount' = 1 /\ mcdst' = 4
  /\ UNCHANGED <<rdwr, adrH>>

Frame == adrL + 256 * adrH
DataAt(first, i) == i \in first..(first + SectorBytes - 1)

\* Exclusive or of a sequence of bytes: each bit is the parity of the bytes in
\* which it is set.
BitSet(byte, k) == (byte \div k) % 2 = 1
Parity(s, k) == Cardinality({i \in DOMAIN s : BitSet(s[i], k)}) % 2
Xor(s) ==
  Parity(s, 1) + 2 * Parity(s, 2) + 4 * Parity(s, 4) + 8 * Parity(s, 8)
  + 16 * Parity(s, 16) + 32 * Parity(s, 32) + 64 * Parity(s, 64)
  + 128 * Parity(s, 128)

\* The checksum of a read is that of the address and the data.
DataChecksum(high, low, data) == Xor(data)                       \* mutant
Checksum(high, low, data) == Xor(<<high, low>> \o data)

\* The answer to a read: header, the frame, its checksum and the end mark.
ReadBuffer ==
  LET data == IF Ctrl \in Slots
                THEN McdData[Ctrl][Frame]
                ELSE [i \in 1..SectorBytes |-> buf[i + 3]]
      filled == [i \in 0..(BufSize - 1) |->
                   IF DataAt(4, i) THEN data[i - 3] ELSE buf[i]]
  IN  [filled EXCEPT ![0] = 92, ![1] = 93, ![2] = adrH, ![3] = adrL,
                     ![SectorBytes + 4] = Checksum(adrH, adrL, data),
                     ![SectorBytes + 5] = 71]

WriteBuffer(value) ==
  [buf EXCEPT ![0] = adrL, ![1] = value, ![SectorBytes + 1] = 92,
              ![SectorBytes + 2] = 93, ![SectorBytes + 3] = 71]

\* mcdst = 4: the buffer for the whole transfer is prepared; in a write this
\* byte is already the first of the frame.
CardBegin(value) ==
  /\ CardStep(4)
  /\ parp' = 0
  /\ \/ /\ rdwr = 1
        /\ buf' = ReadBuffer
        /\ bufcount' = SectorBytes + 5
     \/ /\ rdwr = 2
        /\ buf' = WriteBuffer(value)
        /\ bufcount' = SectorBytes + 3
  /\ mcdst' = 5
  /\ UNCHANGED <<rdwr, adrH, adrL>>

\* mcdst = 5: one byte further; the bytes of a write fill the frame.
CardData(value) ==
  /\ CardStep(5)
  /\ parp' = parp + 1
  /\ buf' = IF rdwr = 2 /\ parp' < SectorBytes
              THEN [buf EXCEPT ![parp' + 1] = value] ELSE buf
  /\ UNCHANGED <<bufcount, mcdst, rdwr, adrH, adrL>>

\* Neither automaton is busy: a controller or a card is addressed.  Slot 2 has
\* no controller: PAD2_readPort2 returns without filling the structure that
\* _PADstartPoll then copies, whatever it holds, over the answer of slot 1.
StartPad ==
  /\ padst = 0 /\ mcdst = 0
  /\ rx' = TRUE
  /\ buf' = IF Ctrl \in Slots THEN [buf EXCEPT ![0] = 0] ELSE buf
  /\ \/ Ctrl = 0 /\ UNCHANGED reply
     \/ Ctrl = 1 /\ reply' = PadAnswer
     \/ Ctrl = 2 /\ reply' \in Garbage
  /\ bufcount' = 2 /\ parp' = 0 /\ padst' = 1
  /\ SIO_INT
  /\ UNCHANGED <<Ctrl, cardVars, iStat, buttons>>

StartCard ==
  /\ padst = 0 /\ mcdst = 0
  /\ rx' = TRUE
  /\ buf' = [i \in 0..(BufSize - 1) |-> IF i < 4 THEN cardh[i + 1] ELSE buf[i]]
  /\ parp' = 0 /\ bufcount' = 3 /\ mcdst' = 1 /\ rdwr' = 0
  /\ SIO_INT
  /\ UNCHANGED <<Ctrl, padVars, adrH, adrL, McdData, iStat, buttons>>

Ignored(value) ==
  /\ padst = 0 /\ mcdst = 0
  /\ value \notin {PadStart, CardStart}
  /\ UNCHANGED vars

Write8(value) ==
  \/ PadCommand(value) \/ PadByte
  \/ CardCommand(value) \/ CardAddressHigh(value) \/ CardAddressLow(value)
  \/ CardBegin(value) \/ CardData(value)
  \/ value = PadStart /\ StartPad
  \/ value = CardStart /\ StartCard
  \/ Ignored(value)

\* What sioRead8 returns.
Received == IF rx THEN buf[parp] ELSE 0

------------------------------------------------------------------------------
(* sioRead8, sioWriteCtrl16 and sioInterrupt *)

\* The frame of a write reaches the card with the last byte of the answer.
CommitEarly ==                                                   \* mutant
  [McdData EXCEPT ![Ctrl][Frame] = [i \in 1..SectorBytes |-> buf[i - 1]]]
Commit == [McdData EXCEPT ![Ctrl][Frame] = [i \in 1..SectorBytes |-> buf[i]]]

AfterLast == rx /\ parp = bufcount + 1                           \* mutant
AtLast == rx /\ parp = bufcount

\* sioRead8 leaves everything as it is until the last byte of a buffer.
Read8 ==
  /\ rx' = (rx /\ (~AtLast \/ mcdst = 1))
  /\ mcdst' = CASE AtLast /\ mcdst = 5 -> 0
                [] AtLast /\ mcdst = 1 -> 2
                [] OTHER -> mcdst
  /\ McdData' = IF AtLast /\ mcdst = 5 /\ rdwr = 2 /\ Ctrl \in Slots
                  THEN Commit ELSE McdData
  /\ padst' = IF AtLast /\ padst = 2 THEN 0 ELSE padst
  /\ UNCHANGED <<Ctrl, buf, parp, bufcount, rdwr, adrH, adrL, reply, evSio,
                 iStat, buttons>>

\* A reset, or a control word of 0, ends whatever was going on.
WriteCtrl(slot, reset) ==
  /\ Ctrl' = slot
  /\ IF reset
       THEN /\ padst' = 0 /\ mcdst' = 0 /\ parp' = 0 /\ rx' = FALSE
            /\ evSio' = FALSE
       ELSE UNCHANGED <<padst, mcdst, parp, rx, evSio>>
  /\ UNCHANGED <<buf, bufcount, rdwr, adrH, adrL, McdData, iStat, buttons, reply>>

SioInterrupt ==
  /\ evSio
  /\ evSio' = FALSE
  /\ iStat' = TRUE
  /\ UNCHANGED <<Ctrl, transferVars, padVars, cardVars, buttons>>

ClearIStat ==
  /\ iStat
  /\ iStat' = FALSE
  /\ UNCHANGED <<Ctrl, transferVars, padVars, cardVars, evSio, buttons>>

\* The player (PAD1_readPort1 reads what is held at that moment).
Press(b) ==
  /\ b # buttons
  /\ buttons' = b
  /\ UNCHANGED <<Ctrl, transferVars, padVars, cardVars, evSio, iStat>>

Init ==
  /\ Ctrl = 0 /\ rx = FALSE
  /\ buf = [i \in 0..(BufSize - 1) |-> 0] /\ parp = 0 /\ bufcount = 0
  /\ padst = 0 /\ mcdst = 0 /\ rdwr = 0 /\ adrH = 0 /\ adrL = 0
  /\ evSio = FALSE /\ iStat = FALSE
  /\ \E block \in Blocks : McdData = [s \in Slots |-> [f \in Frames |-> block]]
  /\ buttons \in Buttons
  /\ reply = <<>>
==============================================================================
