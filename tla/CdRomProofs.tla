----------------------------- MODULE CdRomProofs -----------------------------
(***************************************************************************)
(* Proofs about the CD-ROM controller of CdRom.tla, for every set of       *)
(* commands, every disc and every guest program.                           *)
(***************************************************************************)
EXTENDS CdRom, TLAPS

\* A product of positive numbers is larger with a larger factor.
LEMMA MulLess == \A x, y, z \in Nat : x < y /\ z > 0 => x * z + z <= y * z
<1> SUFFICES ASSUME NEW x \in Nat, NEW y \in Nat, NEW z \in Nat, x < y, z > 0
             PROVE  x * z + z <= y * z
  OBVIOUS
<1>1. PICK d \in Nat : y = x + 1 + d
  <2>1. y - x - 1 \in Nat /\ y = x + 1 + (y - x - 1)
    OBVIOUS
  <2>2. QED
    BY <2>1
<1>2. (x + 1 + d) * z = x * z + z + d * z
  OBVIOUS
<1>3. d * z \in Nat /\ x * z \in Nat
  OBVIOUS
<1>4. QED
  BY <1>1, <1>2, <1>3

\* A number is a multiple of a divisor and a remainder.
LEMMA DivMod ==
  \A x \in Nat : \A z \in Nat \ {0} :
    /\ x \div z \in Nat /\ x % z \in 0..(z - 1)
    /\ x = (x \div z) * z + (x % z)
OBVIOUS

\* What is less than a product has a quotient less than the other factor.
LEMMA DivLess ==
  \A x, y \in Nat : \A z \in Nat \ {0} : x < y * z => x \div z < y
<1> SUFFICES ASSUME NEW x \in Nat, NEW y \in Nat, NEW z \in Nat \ {0}, x < y * z
             PROVE  x \div z < y
  OBVIOUS
<1>1. x \div z \in Nat /\ x >= (x \div z) * z
  BY DivMod
<1>2. SUFFICES ASSUME ~(x \div z < y) PROVE FALSE
  BY <1>1
<1>3. CASE x \div z = y
  BY <1>1, <1>3
<1>4. CASE y < x \div z
  <2>1. y * z + z <= (x \div z) * z
    BY <1>1, <1>4, MulLess
  <2>2. y * z \in Nat /\ (x \div z) * z \in Nat
    BY <1>1
  <2>3. QED
    BY <1>1, <2>1, <2>2
<1>5. QED
  BY <1>1, <1>2, <1>3, <1>4

\* There is a sector, number 0.
LEMMA SectorCountType == SectorCount \in Nat \ {0}
<1>1. /\ Minutes \in Nat /\ Seconds \in Nat /\ Frames \in Nat
      /\ Minutes > 0 /\ Seconds > 0 /\ Frames > 0
  BY SectorAssumption
<1>2. 0 * Seconds + Seconds <= Minutes * Seconds /\ Minutes * Seconds \in Nat
  BY <1>1, MulLess
<1>3. Minutes * Seconds > 0
  BY <1>1, <1>2
<1>4. 0 * Frames + Frames <= (Minutes * Seconds) * Frames
  BY <1>1, <1>2, <1>3, MulLess
<1>5. (Minutes * Seconds) * Frames \in Nat
  BY <1>1, <1>2
<1>6. QED
  BY <1>1, <1>4, <1>5 DEF SectorCount

\* Minute, second and frame are positions of their bytes, and say which sector
\* it is.
LEMMA Position ==
  ASSUME NEW s \in Sectors
  PROVE  /\ s \in Nat /\ s < SectorCount
         /\ Minute(s) \in 0..(Minutes - 1) /\ Second(s) \in 0..(Seconds - 1)
         /\ Frame(s) \in 0..(Frames - 1)
         /\ s = SectorAt(Minute(s), Second(s), Frame(s))
<1>0. /\ Minutes \in Nat \ {0} /\ Seconds \in Nat \ {0} /\ Frames \in Nat \ {0}
      /\ Minutes * Seconds \in Nat /\ SectorCount \in Nat
  BY SectorAssumption DEF SectorCount
<1>1. s \in Nat /\ s < SectorCount
  BY <1>0 DEF Sectors
<1>2. s \div Frames \in Nat /\ Frame(s) \in 0..(Frames - 1)
      /\ s = (s \div Frames) * Frames + Frame(s)
  BY <1>0, <1>1, DivMod DEF Frame
<1>3. s \div Frames < Minutes * Seconds
  BY <1>0, <1>1, DivLess DEF SectorCount
<1>4. Minute(s) \in Nat /\ Second(s) \in 0..(Seconds - 1)
      /\ s \div Frames = Minute(s) * Seconds + Second(s)
  BY <1>0, <1>2, DivMod DEF Minute, Second
<1>5. Minute(s) < Minutes
  BY <1>0, <1>2, <1>3, DivLess DEF Minute
<1>6. QED
  <2>1. SectorAt(Minute(s), Second(s), Frame(s)) =
          (Minute(s) * Seconds + Second(s)) * Frames + Frame(s)
    BY DEF SectorAt
  <2>2. s = SectorAt(Minute(s), Second(s), Frame(s))
    BY <1>2, <1>4, <2>1
  <2>3. Minute(s) \in 0..(Minutes - 1)
    BY <1>0, <1>4, <1>5
  <2>4. QED
    BY <1>1, <1>2, <1>4, <2>2, <2>3

\* The carries from frames to seconds to minutes lead to the next sector of the
\* disc, and from the last position a minute can hold back to the first.
THEOREM CarriesRight == \A s \in Sectors : NextSector(s) = (s + 1) % SectorCount
<1> SUFFICES ASSUME NEW s \in Sectors PROVE NextSector(s) = (s + 1) % SectorCount
  OBVIOUS
<1> DEFINE m == Minute(s)
           q == Second(s)
           f == Frame(s)
<1>1. /\ s \in Nat /\ s < SectorCount /\ m \in 0..(Minutes - 1)
      /\ q \in 0..(Seconds - 1) /\ f \in 0..(Frames - 1)
      /\ s = (m * Seconds + q) * Frames + f
  BY Position DEF SectorAt
<1>2. /\ NextSector(s) = CASE f + 1 # Frames -> SectorAt(m, q, f + 1)
                           [] f + 1 = Frames /\ q + 1 # Seconds -> SectorAt(m, q + 1, 0)
                           [] OTHER -> SectorAt((m + 1) % Minutes, 0, 0)
  BY DEF NextSector
<1> HIDE DEF m, q, f
<1>3. /\ Minutes \in Nat /\ Seconds \in Nat /\ Frames \in Nat
      /\ SectorCount \in Nat /\ SectorCount = (Minutes * Seconds) * Frames
      /\ m \in Nat /\ q \in Nat /\ f \in Nat
  BY <1>1, SectorAssumption DEF SectorCount
<1>4. s + 1 < SectorCount => (s + 1) % SectorCount = s + 1
  BY <1>1, <1>3
<1>5. SectorCount % SectorCount = 0
  BY <1>1, <1>3
<1>6. CASE f + 1 # Frames
  <2>1. NextSector(s) = s + 1
    BY <1>1, <1>2, <1>3, <1>6 DEF SectorAt
  <2>2. s + 1 < SectorCount
    <3>1. m * Seconds + q < Minutes * Seconds
      <4>1. m * Seconds + Seconds <= Minutes * Seconds
        BY <1>1, <1>3, MulLess
      <4>2. m * Seconds \in Nat /\ Minutes * Seconds \in Nat
        BY <1>3
      <4>3. QED
        BY <1>1, <1>3, <4>1, <4>2
    <3>2. m * Seconds + q \in Nat /\ Minutes * Seconds \in Nat
      BY <1>3
    <3>3. (m * Seconds + q) * Frames + Frames <= SectorCount
      BY <1>1, <1>3, <3>1, <3>2, MulLess
    <3>4. (m * Seconds + q) * Frames \in Nat
      BY <1>3, <3>2
    <3>5. QED
      BY <1>1, <1>3, <1>6, <3>3, <3>4
  <2>3. QED
    BY <1>4, <2>1, <2>2
<1>7. CASE f + 1 = Frames /\ q + 1 # Seconds
  <2>1. NextSector(s) = (m * Seconds + (q + 1)) * Frames + 0
    BY <1>2, <1>7 DEF SectorAt
  <2>2. (m * Seconds + (q + 1)) * Frames = (m * Seconds + q) * Frames + Frames
    BY <1>3
  <2>3. NextSector(s) = s + 1
    BY <1>1, <1>3, <1>7, <2>1, <2>2
  <2>4. s + 1 < SectorCount
    <3>1. m * Seconds + (q + 1) < Minutes * Seconds
      <4>1. m * Seconds + Seconds <= Minutes * Seconds
        BY <1>1, <1>3, MulLess
      <4>2. m * Seconds \in Nat /\ Minutes * Seconds \in Nat
        BY <1>3
      <4>3. QED
        BY <1>1, <1>3, <1>7, <4>1, <4>2
    <3>2. m * Seconds + (q + 1) \in Nat /\ Minutes * Seconds \in Nat
      BY <1>3
    <3>3. (m * Seconds + (q + 1)) * Frames + Frames <= SectorCount
      BY <1>1, <1>3, <3>1, <3>2, MulLess
    <3>4. (m * Seconds + (q + 1)) * Frames \in Nat
      BY <1>3, <3>2
    <3>5. QED
      BY <1>1, <1>3, <2>1, <2>3, <3>3, <3>4
  <2>5. QED
    BY <1>4, <2>3, <2>4
<1>8. CASE f + 1 = Frames /\ q + 1 = Seconds
  <2>1. NextSector(s) = (((m + 1) % Minutes) * Seconds + 0) * Frames + 0
    BY <1>2, <1>8 DEF SectorAt
  <2>2. s + 1 = ((m + 1) * Seconds) * Frames
    <3>1. (m + 1) * Seconds = m * Seconds + q + 1
      BY <1>3, <1>8
    <3>2. (m * Seconds + q + 1) * Frames = (m * Seconds + q) * Frames + Frames
      BY <1>3
    <3>3. QED
      BY <1>1, <1>3, <1>8, <3>1, <3>2
  <2>3. CASE m + 1 = Minutes
    <3>1. (m + 1) % Minutes = 0
      BY <1>1, <1>3, <2>3
    <3>2. NextSector(s) = 0
      BY <1>3, <2>1, <3>1
    <3>3. QED
      BY <1>3, <1>5, <2>2, <2>3, <3>2
  <2>4. CASE m + 1 # Minutes
    <3>1. m + 1 < Minutes /\ (m + 1) % Minutes = m + 1
      BY <1>1, <1>3, <2>4
    <3>2. NextSector(s) = s + 1
      <4>1. NextSector(s) = ((m + 1) * Seconds + 0) * Frames + 0
        BY <2>1, <3>1
      <4>2. (m + 1) * Seconds \in Nat /\ ((m + 1) * Seconds) * Frames \in Nat
        BY <1>3
      <4>3. QED
        BY <2>2, <4>1, <4>2
    <3>3. s + 1 # SectorCount
      <4>1. (m + 1) * Seconds + Seconds <= Minutes * Seconds
        BY <1>1, <1>3, <3>1, MulLess
      <4>2. (m + 1) * Seconds \in Nat /\ Minutes * Seconds \in Nat
        BY <1>3
      <4>3. (m + 1) * Seconds < Minutes * Seconds
        BY <1>1, <1>3, <4>1, <4>2
      <4>4. ((m + 1) * Seconds) * Frames + Frames <= SectorCount
        BY <1>1, <1>3, <4>2, <4>3, MulLess
      <4>5. QED
        BY <1>1, <1>3, <2>2, <4>4
    <3>4. QED
      BY <1>1, <1>3, <1>4, <3>2, <3>3
  <2>5. QED
    BY <2>3, <2>4
<1>9. QED
  BY <1>6, <1>7, <1>8

\* The sector after a sector of the disc is a sector of the disc.
LEMMA NextSectorType == \A s \in Sectors : NextSector(s) \in Sectors
<1> SUFFICES ASSUME NEW s \in Sectors PROVE NextSector(s) \in Sectors
  OBVIOUS
<1>1. s \in Nat /\ SectorCount \in Nat /\ s < SectorCount
  BY SectorCountType DEF Sectors
<1>2. (s + 1) % SectorCount \in 0..(SectorCount - 1)
  BY <1>1
<1>3. QED
  BY <1>2, CarriesRight DEF Sectors

\* Every answer but that of Test fills the result FIFO with 1 to 8 bytes, so
\* no answer overflows cdr.Result[8].
LEMMA ResultSizesType == \A i : ResultSizes(i) \subseteq 1..8
BY DEF ResultSizes

\* A command enqueues an answer cdrInterrupt knows.
LEMMA SecondAnswerType ==
  \A c \in TwoPhase : SecondAnswer[c] \in SecondAnswers
BY DEF SecondAnswers

\* An answer changes the drive status within its bits.
LEMMA StatPAfterType ==
  ASSUME StatP \subseteq {"motor", "read", "seek", "play"}, NEW i
  PROVE  StatPAfter(i) \subseteq {"motor", "read", "seek", "play"}
BY DEF StatPAfter

\* Only the answer to Play turns the playing bit on.
LEMMA StatPAfterPlay ==
  ASSUME NEW i, "play" \in StatPAfter(i), i # "Play"
  PROVE  "play" \in StatP
BY DEF StatPAfter

\* Whatever the lid did, Nop leaves the other bits alone.
LEMMA StatPAfterNopType ==
  \A status \in StatPAfterNop :
    status \subseteq StatP \cup {"motor"} /\ ("play" \in status => "play" \in StatP)
BY DEF StatPAfterNop

\* The controller starts in the invariant.
LEMMA InitIInv == Init => IInv
<1> SUFFICES ASSUME Init PROVE IInv
  OBVIOUS
<1>1. "Sync" \in Irqs
  BY DEF Irqs, SingleCommands
<1>2. 0 \in Sectors
  BY SectorCountType DEF Sectors
<1>3. 0 \in 0..(ByteRange - 1)
  BY ByteAssumption
<1>4. TypeOK
  <2>1. HandshakeTypes
    BY <1>1 DEF Init, HandshakeTypes
  <2>2. ResultTypes
    BY <1>3 DEF Init, ResultTypes
  <2>3. DriveTypes
    <3>1. StatP = {} /\ Seeked = FALSE /\ Play = FALSE /\ AutoPause = FALSE
      BY DEF Init
    <3>2. Reading \in 0..2
      BY DEF Init
    <3>3. QED
      BY <3>1, <3>2 DEF DriveTypes
  <2>4. DiskTypes
    BY <1>2 DEF Init, DiskTypes
  <2>5. QED
    BY <2>1, <2>2, <2>3, <2>4 DEF TypeOK
<1>5. QED
  BY <1>4 DEF Init, IInv, QueuedAnswerWaits, EventHasAnswer, StoppedReadStays,
              PlayBitHonest

\* Every step keeps the types, whatever the guest writes.
LEMMA TypeStep == TypeOK /\ [Next]_vars => TypeOK'
<1> SUFFICES ASSUME TypeOK, [Next]_vars PROVE TypeOK'
  OBVIOUS
<1> USE DEF TypeOK
<1> USE DEF vars, eventVars, resultVars, modeVars, driveVars, diskVars, dataVars
<1> USE DEF Acknowledged, DropAnswer, RaiseUnmasked, PrefetchNext,
            LeftAfterRead, MoreLeft, QueueEmpty, ScheduleQueued
<1>a. /\ "none" \in Irqs /\ "Sync" \in Irqs /\ "Pause" \in Irqs
      /\ "ReadAck" \in Irqs
  BY DEF Irqs, SingleCommands, TwoPhase, SecondAnswer
<1>b. \A n \in 1..8 : n \in 0..(ByteRange - 1)
  BY ByteAssumption
<1>1. CASE AnswerCommand
  <2>1. HandshakeTypes'
    BY <1>1, <1>a, SecondAnswerType DEF AnswerCommand, HandshakeTypes, Irqs, StatFor
  <2>2. ResultTypes'
    BY <1>1, <1>b, ResultSizesType DEF AnswerCommand, ResultTypes, SetResultSize
  <2>3. DriveTypes'
    BY <1>1, StatPAfterType, StatPAfterNopType DEF AnswerCommand, DriveTypes
  <2>4. DiskTypes'
    BY <1>1 DEF AnswerCommand, DiskTypes
  <2>5. QED
    BY <2>1, <2>2, <2>3, <2>4 DEF TypeOK
<1>2. CASE AnswerRead
  <2>1. HandshakeTypes'
    BY <1>2, <1>a DEF AnswerRead, HandshakeTypes
  <2>2. ResultTypes'
    BY <1>2, <1>b DEF AnswerRead, ResultTypes, SetResultSize
  <2>3. DriveTypes'
    BY <1>2, StatPAfterType DEF AnswerRead, DriveTypes
  <2>4. DiskTypes'
    BY <1>2 DEF AnswerRead, DiskTypes, ReadTrackAt
  <2>5. QED
    BY <2>1, <2>2, <2>3, <2>4 DEF TypeOK
<1>3. CASE SectorReady
  <2>1. HandshakeTypes'
    BY <1>3, <1>a DEF SectorReady, HandshakeTypes
  <2>2. ResultTypes'
    BY <1>3, <1>b DEF SectorReady, ResultTypes, SetResultSize
  <2>3. DriveTypes'
    BY <1>3 DEF SectorReady, DriveTypes
  <2>4. DiskTypes'
    BY <1>3, NextSectorType DEF SectorReady, DiskTypes, ReadTrackAt
  <2>5. QED
    BY <2>1, <2>2, <2>3, <2>4 DEF TypeOK
<1>4. CASE SectorError
  <2>1. HandshakeTypes'
    BY <1>4 DEF SectorError, HandshakeTypes
  <2>2. ResultTypes'
    BY <1>4, <1>b DEF SectorError, ResultTypes, SetResultSize
  <2>3. DriveTypes'
    BY <1>4 DEF SectorError, DriveTypes
  <2>4. DiskTypes'
    BY <1>4 DEF SectorError, DiskTypes, ReadTrackAt
  <2>5. QED
    BY <2>1, <2>2, <2>3, <2>4 DEF TypeOK
<1>5. ASSUME NEW rt \in 0..3, WriteIndex(rt) PROVE TypeOK'
  BY <1>5 DEF WriteIndex, HandshakeTypes, ResultTypes, DriveTypes, DiskTypes
<1>6. CASE ReadResult
  <2>1. ResultTypes'
    BY <1>6, ByteAssumption DEF ReadResult, ResultTypes
  <2>2. QED
    BY <1>6, <2>1 DEF ReadResult, HandshakeTypes, DriveTypes, DiskTypes
<1>7. ASSUME NEW c \in Commands, Send(c) PROVE TypeOK'
  <2>1. CASE WriteCommand(c)
    <3>1. c \in Irqs
      BY <2>1, CommandsAssumption
      DEF WriteCommand, Irqs, AllCommands
    <3>2. QED
      BY <2>1, <3>1 DEF WriteCommand, Accept, HandshakeTypes, ResultTypes,
                        DriveTypes, DiskTypes
  <2>2. ASSUME NEW s \in Sectors, WriteSetloc(s) PROVE TypeOK'
    <3>1. "Setloc" \in Irqs
      BY DEF Irqs, SingleCommands
    <3>2. evRead' \in BOOLEAN
      BY <2>2, Zenon DEF WriteSetloc, StopReading
    <3>3. HandshakeTypes'
      BY <2>2, <3>1, <3>2 DEF WriteSetloc, Accept, HandshakeTypes
    <3>4. DriveTypes'
      <4>1. /\ Reading' = 0 /\ Seeked' = FALSE
            /\ UNCHANGED <<AutoPause, StatP, Play>>
        BY <2>2 DEF WriteSetloc, StopReading
      <4>2. Reading' \in 0..2
        BY <4>1
      <4>3. QED
        BY <4>1, <4>2, Zenon DEF DriveTypes
    <3>5. QED
      BY <2>2, <3>3, <3>4 DEF WriteSetloc, Accept, ResultTypes, DiskTypes
  <2>3. CASE WritePlay
    <3>1. "Play" \in Irqs
      BY DEF Irqs, SingleCommands
    <3>2. QED
      BY <2>3, <3>1 DEF WritePlay, Accept, HandshakeTypes, ResultTypes,
                        DriveTypes, DiskTypes
  <2>4. ASSUME NEW b \in BOOLEAN, WriteSetmode(b) PROVE TypeOK'
    <3>1. "Setmode" \in Irqs
      BY DEF Irqs, SingleCommands
    <3>2. QED
      BY <2>4, <3>1 DEF WriteSetmode, Accept, HandshakeTypes, ResultTypes,
                        DriveTypes, DiskTypes
  <2>5. CASE WriteHalt(c)
    <3>1. c \in Irqs
      BY <2>5 DEF WriteHalt, Irqs, SingleCommands, TwoPhase, SecondAnswer
    <3>2. evRead' \in BOOLEAN
      BY <2>5, Zenon DEF WriteHalt, StopReading
    <3>3. HandshakeTypes'
      BY <2>5, <3>1, <3>2 DEF WriteHalt, Accept, HandshakeTypes
    <3>4. DriveTypes'
      <4>1. /\ Reading' = 0 /\ Play' = FALSE
            /\ UNCHANGED <<AutoPause, Seeked>>
        BY <2>5 DEF WriteHalt, StopReading, StopCdda
      <4>2. StatP' \subseteq StatP
        BY <2>5 DEF WriteHalt, StopCdda
      <4>3. Reading' \in 0..2
        BY <4>1
      <4>4. QED
        BY <4>1, <4>2, <4>3, Zenon DEF DriveTypes
    <3>5. QED
      BY <2>5, <3>3, <3>4 DEF WriteHalt, Accept, ResultTypes, DiskTypes
  <2>6. CASE WriteRead(c)
    BY <2>6, <1>a DEF WriteRead, Accept, HandshakeTypes, ResultTypes,
                      DriveTypes, DiskTypes
  <2>7. QED
    BY <1>7, <2>1, <2>2, <2>3, <2>4, <2>5, <2>6 DEF Send
<1>8. CASE RewindResult
  BY <1>8 DEF RewindResult, HandshakeTypes, ResultTypes, DriveTypes, DiskTypes
<1>9. ASSUME NEW b \in BOOLEAN, WriteMask(b) PROVE TypeOK'
  BY <1>9 DEF WriteMask, HandshakeTypes, ResultTypes, DriveTypes, DiskTypes
<1>10. CASE Acknowledgement
  <2>1. evCdr' \in BOOLEAN /\ evRead' \in BOOLEAN
    <3>1. CASE Irq = "none"
      BY <1>10, <3>1 DEF Acknowledgement, HandshakeTypes
    <3>2. CASE Irq # "none"
      BY <1>10, <3>2, Zenon DEF Acknowledgement
    <3>3. QED
      BY <3>1, <3>2
  <2>2. HandshakeTypes'
    BY <1>10, <1>a, <2>1 DEF Acknowledgement, HandshakeTypes
  <2>3. QED
    BY <1>10, <2>2 DEF Acknowledgement, ResultTypes, DriveTypes, DiskTypes
<1>11. CASE RequestData
  BY <1>11 DEF RequestData, HandshakeTypes, ResultTypes, DriveTypes, DiskTypes
<1>12. CASE ClearIStat
  <2>1. HandshakeTypes'
    BY <1>12 DEF ClearIStat, HandshakeTypes
  <2>2. QED
    BY <1>12, <2>1 DEF ClearIStat, ResultTypes, DriveTypes, DiskTypes
<1>13. CASE UNCHANGED vars
  BY <1>13 DEF HandshakeTypes, ResultTypes, DriveTypes, DiskTypes
<1>14. QED
  BY <1>1, <1>2, <1>3, <1>4, <1>5, <1>6, <1>7, <1>8, <1>9, <1>10, <1>11,
     <1>12, <1>13 DEF Next, Events, Guest

\* The rest of the inductive invariant, step by step.
LEMMA QueueStep ==
  IInv /\ [Next]_vars =>
    /\ QueuedAnswerWaits'
    /\ EventHasAnswer'
    /\ StoppedReadStays'
    /\ PlayBitHonest'
    /\ (Irq = "Play" => Play)'
<1> SUFFICES ASSUME IInv, [Next]_vars
             PROVE  /\ QueuedAnswerWaits'
                    /\ EventHasAnswer'
                    /\ StoppedReadStays'
                    /\ PlayBitHonest'
                    /\ (Irq = "Play" => Play)'
  OBVIOUS
<1> USE DEF IInv, QueuedAnswerWaits, EventHasAnswer, StoppedReadStays,
            PlayBitHonest, NoIntr
<1> USE DEF vars, eventVars, resultVars, modeVars, driveVars, diskVars, dataVars
<1> USE DEF Acknowledged, DropAnswer, RaiseUnmasked, PrefetchNext,
            LeftAfterRead, MoreLeft, QueueEmpty, ScheduleQueued
<1>1. CASE AnswerCommand
  <2>1. Stat' # NoIntr
    BY <1>1 DEF AnswerCommand, StatFor, Complete, Acknowledge, DiskError
  <2>2. Irq' # "ReadAck" /\ Irq' # "Play"
    BY <1>1 DEF AnswerCommand, TwoPhase, SecondAnswer
  <2>3. PlayBitHonest'
    BY <1>1, StatPAfterPlay, StatPAfterNopType DEF AnswerCommand
  <2>4. StoppedReadStays' /\ EventHasAnswer'
    BY <1>1, <2>2 DEF AnswerCommand
  <2>5. QED
    BY <2>1, <2>2, <2>3, <2>4
<1>2. CASE AnswerRead
  <2>1. Stat' # NoIntr
    BY <1>2 DEF AnswerRead, Acknowledge
  <2>2. PlayBitHonest'
    BY <1>2, StatPAfterPlay DEF AnswerRead
  <2>3. QED
    BY <1>2, <2>1, <2>2 DEF AnswerRead
<1>3. CASE SectorReady
  BY <1>3 DEF SectorReady, DataReady
<1>4. CASE SectorError
  BY <1>4 DEF SectorError, DiskError
<1>5. ASSUME NEW rt \in 0..3, WriteIndex(rt)
      PROVE  UNCHANGED <<Stat, Irq, evCdr, evRead, Reading, StatP, Play>>
  BY <1>5 DEF WriteIndex
<1>6. CASE ReadResult
  BY <1>6 DEF ReadResult
<1>7. ASSUME NEW c \in Commands, Send(c)
      PROVE  /\ QueuedAnswerWaits'
             /\ EventHasAnswer'
             /\ StoppedReadStays'
             /\ PlayBitHonest'
             /\ (Irq = "Play" => Play)'
  <2>1. CASE WriteCommand(c)
    <3>1. c # "none" /\ c # "ReadAck" /\ c # "Play"
      BY <2>1, CommandsAssumption
      DEF WriteCommand, AllCommands, SingleCommands, TwoPhase, SecondAnswer,
          ReadCommands
    <3>2. QED
      BY <2>1, <3>1 DEF WriteCommand, Accept
  <2>2. ASSUME NEW s \in Sectors, WriteSetloc(s)
        PROVE  /\ QueuedAnswerWaits'
               /\ EventHasAnswer'
               /\ StoppedReadStays'
               /\ PlayBitHonest'
               /\ (Irq = "Play" => Play)'
    <3>1. /\ Irq' = "Setloc" /\ evCdr' = TRUE /\ evRead' = FALSE
          /\ StatP' = StatP /\ Play' = Play
      BY <2>2 DEF WriteSetloc, Accept, StopReading
    <3>2. QED
      BY <3>1
  <2>3. CASE WritePlay
    BY <2>3 DEF WritePlay, Accept
  <2>4. ASSUME NEW b \in BOOLEAN, WriteSetmode(b)
        PROVE  /\ QueuedAnswerWaits'
               /\ EventHasAnswer'
               /\ StoppedReadStays'
               /\ PlayBitHonest'
               /\ (Irq = "Play" => Play)'
    <3>1. /\ Irq' = "Setmode" /\ evCdr' = TRUE
          /\ UNCHANGED <<evRead, Reading, StatP, Play>>
      BY <2>4 DEF WriteSetmode, Accept
    <3>2. QED
      BY <3>1
  <2>5. CASE WriteHalt(c)
    <3>1. c # "none" /\ c # "ReadAck" /\ c # "Play"
      BY <2>5 DEF WriteHalt
    <3>2. evRead' = FALSE /\ Irq' = c /\ evCdr' = TRUE
      BY <2>5 DEF WriteHalt, Accept, StopReading
    <3>3. "play" \notin StatP'
      BY <2>5 DEF WriteHalt, StopCdda
    <3>4. QED
      BY <3>1, <3>2, <3>3
  <2>6. CASE WriteRead(c)
    BY <2>6 DEF WriteRead, Accept
  <2>7. QED
    BY <1>7, <2>1, <2>2, <2>3, <2>4, <2>5, <2>6 DEF Send
<1>8. CASE RewindResult
  BY <1>8 DEF RewindResult
<1>9. ASSUME NEW b \in BOOLEAN, WriteMask(b)
      PROVE  UNCHANGED <<Stat, Irq, evCdr, evRead, Reading, StatP, Play>>
  BY <1>9 DEF WriteMask
<1>10. CASE Acknowledgement
  BY <1>10 DEF Acknowledgement
<1>11. CASE RequestData
  BY <1>11 DEF RequestData
<1>12. CASE ClearIStat
  BY <1>12 DEF ClearIStat
<1>13. CASE UNCHANGED vars
  BY <1>13
<1>14. QED
  BY <1>1, <1>2, <1>3, <1>4, <1>5, <1>6, <1>7, <1>8, <1>9, <1>10, <1>11,
     <1>12, <1>13 DEF Next, Events, Guest

\* The queue, the events and the drive state of the controller stay consistent
\* whatever the guest writes: the inductive invariant of the theorems below.
THEOREM InvariantHolds == Spec => []IInv
<1>1. IInv /\ [Next]_vars => IInv'
  BY TypeStep, QueueStep DEF IInv
<1>2. QED
  BY InitIInv, <1>1, PTL DEF Spec

\* For every disc, command set and guest, every variable keeps its type.
THEOREM TypeCorrect == Spec => []TypeOK
BY InvariantHolds, PTL DEF IInv

\* No answer is ever forgotten in the one-slot queue (AddIrqQueue, cdrWrite3).
THEOREM AnswersWait == Spec => []QueuedAnswerWaits
BY InvariantHolds, PTL DEF IInv

\* cdrInterrupt never runs with nothing to answer.
THEOREM EventsAnswer == Spec => []EventHasAnswer
BY InvariantHolds, PTL DEF IInv

\* A stopped read leaves nothing behind that could read again.
THEOREM StoppedReads == Spec => []StoppedReadStays
BY InvariantHolds, PTL DEF IInv

\* The playing bit of the drive status is never stale.
THEOREM PlayBit == Spec => []PlayBitHonest
BY InvariantHolds, PTL DEF IInv

\* No handler overwrites an answer, or its sector, before the guest has
\* acknowledged it.
THEOREM AnswersKept == Spec => AnswerKept
<1>1. TypeOK /\ [Next]_vars => [Stat # NoIntr =>
                      /\ Stat' \in {Stat, NoIntr}
                      /\ Transfer' = Transfer]_vars
  <2> SUFFICES ASSUME [Next]_vars, Stat # NoIntr
               PROVE  Stat' \in {Stat, NoIntr} /\ Transfer' = Transfer
    OBVIOUS
  <2> USE DEF vars, dataVars
  <2>1. ASSUME Events PROVE FALSE
    BY <2>1 DEF Events, AnswerCommand, AnswerRead, SectorReady, SectorError,
                   Acknowledged
  <2>2. ASSUME NEW c \in Commands, Send(c)
        PROVE  Stat' = NoIntr /\ Transfer' = Transfer
    BY <2>2 DEF Send, WriteCommand, WriteSetloc, WritePlay, WriteSetmode,
                WriteHalt, WriteRead, Accept, DropAnswer
  <2>3. CASE Guest
    BY <2>3, <2>2 DEF Guest, WriteIndex, ReadResult, RewindResult, WriteMask,
                      Acknowledgement, DropAnswer, RequestData, ClearIStat
  <2>4. QED
    BY <2>1, <2>3 DEF Next
<1>2. QED
  BY TypeCorrect, <1>1, PTL DEF Spec, AnswerKept
==============================================================================
