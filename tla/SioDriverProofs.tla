--------------------------- MODULE SioDriverProofs ----------------------------
(***************************************************************************)
(* Proofs about SioDriver: for every size and number of frames, every set  *)
(* of blocks and buttons, and whatever slot 2 answers, the serial port and *)
(* its guest implement the memory cards (MemCards), a controller read is   *)
(* of one moment, and nothing of a transfer is left behind it.             *)
(***************************************************************************)
EXTENDS SioDriver, SequenceTheorems, FiniteSetTheorems, TLAPS

(* The checksum *)

Bits == {1, 2, 4, 8, 16, 32, 64, 128}

\* The bytes of a sequence that have a bit set are finitely many.
LEMMA ParityType ==
  ASSUME NEW s \in Seq(Byte), NEW k \in Bits
  PROVE  /\ IsFiniteSet({i \in DOMAIN s : BitSet(s[i], k)})
         /\ Cardinality({i \in DOMAIN s : BitSet(s[i], k)}) \in Nat
         /\ Parity(s, k) \in {0, 1}
<1>1. IsFiniteSet(1..Len(s)) /\ DOMAIN s = 1..Len(s)
  BY LenProperties, FS_Interval
<1>2. IsFiniteSet({i \in DOMAIN s : BitSet(s[i], k)})
  <2>1. {i \in DOMAIN s : BitSet(s[i], k)} \in SUBSET (1..Len(s))
    BY <1>1
  <2> QED
    BY <1>1, <2>1, FS_Subset
<1>3. Cardinality({i \in DOMAIN s : BitSet(s[i], k)}) \in Nat
  BY <1>2, FS_CardinalityType
<1> QED
  BY <1>2, <1>3 DEF Parity

\* The exclusive or of bytes is a byte whose bits are the parities.
LEMMA XorBits ==
  ASSUME NEW s \in Seq(Byte)
  PROVE  /\ Xor(s) \in Byte
         /\ \A k \in Bits : BitSet(Xor(s), k) <=> Parity(s, k) = 1
<1>1. /\ Parity(s, 1) \in {0, 1} /\ Parity(s, 2) \in {0, 1}
      /\ Parity(s, 4) \in {0, 1} /\ Parity(s, 8) \in {0, 1}
      /\ Parity(s, 16) \in {0, 1} /\ Parity(s, 32) \in {0, 1}
      /\ Parity(s, 64) \in {0, 1} /\ Parity(s, 128) \in {0, 1}
  BY ParityType DEF Bits
<1> DEFINE a == Parity(s, 1)    b == Parity(s, 2)
           c == Parity(s, 4)    d == Parity(s, 8)
           e == Parity(s, 16)   f == Parity(s, 32)
           g == Parity(s, 64)   h == Parity(s, 128)
           x == Xor(s)
<1>2. x = a + 2 * b + 4 * c + 8 * d + 16 * e + 32 * f + 64 * g + 128 * h
  BY DEF Xor
<1>3. /\ a \in {0, 1} /\ b \in {0, 1} /\ c \in {0, 1} /\ d \in {0, 1}
      /\ e \in {0, 1} /\ f \in {0, 1} /\ g \in {0, 1} /\ h \in {0, 1}
  BY <1>1
<1> HIDE DEF a, b, c, d, e, f, g, h, x
<1>4. /\ x \in Byte
      /\ (x \div 1) % 2 = a /\ (x \div 2) % 2 = b /\ (x \div 4) % 2 = c
      /\ (x \div 8) % 2 = d /\ (x \div 16) % 2 = e /\ (x \div 32) % 2 = f
      /\ (x \div 64) % 2 = g /\ (x \div 128) % 2 = h
  <2>1. x \in Byte
    BY <1>2, <1>3 DEF Byte
  <2>2. (x \div 1) % 2 = a /\ (x \div 2) % 2 = b
    BY <1>2, <1>3
  <2>3. (x \div 4) % 2 = c /\ (x \div 8) % 2 = d
    BY <1>2, <1>3
  <2>4. (x \div 16) % 2 = e /\ (x \div 32) % 2 = f
    BY <1>2, <1>3
  <2>5. (x \div 64) % 2 = g /\ (x \div 128) % 2 = h
    BY <1>2, <1>3
  <2> QED
    BY <2>1, <2>2, <2>3, <2>4, <2>5
<1>5. \A k \in Bits :
        (x \div k) % 2 = CASE k = 1 -> a [] k = 2 -> b [] k = 4 -> c [] k = 8 -> d
                           [] k = 16 -> e [] k = 32 -> f [] k = 64 -> g
                           [] OTHER -> h
  BY <1>4 DEF Bits
<1>6. \A k \in Bits :
        Parity(s, k) = CASE k = 1 -> a [] k = 2 -> b [] k = 4 -> c [] k = 8 -> d
                         [] k = 16 -> e [] k = 32 -> f [] k = 64 -> g
                         [] OTHER -> h
  BY DEF Bits, a, b, c, d, e, f, g, h
<1> QED
  BY <1>4, <1>5, <1>6 DEF BitSet, x

\* A sequence of bytes followed by its exclusive or cancels out.
LEMMA XorCancels ==
  ASSUME NEW s \in Seq(Byte)
  PROVE  Xor(Append(s, Xor(s))) = 0
<1> DEFINE c == Xor(s)
           t == Append(s, c)
<1>1. c \in Byte /\ t \in Seq(Byte) /\ Len(t) = Len(s) + 1
  BY XorBits, AppendProperties
<1>2. /\ DOMAIN t = 1..(Len(s) + 1) /\ DOMAIN s = 1..Len(s) /\ Len(s) \in Nat
      /\ t[Len(s) + 1] = c /\ \A i \in 1..Len(s) : t[i] = s[i]
  BY <1>1, LenProperties, AppendProperties
<1>3. ASSUME NEW k \in Bits PROVE Parity(t, k) = 0
  <2> DEFINE S == {i \in DOMAIN s : BitSet(s[i], k)}
             T == {i \in DOMAIN t : BitSet(t[i], k)}
  <2>1. IsFiniteSet(S) /\ Cardinality(S) \in Nat
    BY ParityType
  <2>2. CASE Parity(s, k) = 1
    <3>1. BitSet(c, k)
      BY <2>2, XorBits
    <3>2. T = S \cup {Len(s) + 1} /\ Len(s) + 1 \notin S
      BY <1>2, <3>1
    <3>3. Cardinality(T) = Cardinality(S) + 1
      BY <2>1, <3>2, FS_AddElement
    <3>4. Cardinality(S) % 2 = 1
      BY <2>2 DEF Parity
    <3>5. (Cardinality(S) + 1) % 2 = 0
      BY <2>1, <3>4
    <3> QED
      BY <3>3, <3>5 DEF Parity
  <2>3. CASE Parity(s, k) = 0
    <3>1. ~BitSet(c, k)
      BY <2>3, XorBits
    <3>2. T = S
      BY <1>2, <3>1
    <3> QED
      BY <2>3, <3>2 DEF Parity
  <2> QED
    BY <2>2, <2>3, ParityType
<1> HIDE DEF t
<1>4. /\ Parity(t, 1) = 0 /\ Parity(t, 2) = 0 /\ Parity(t, 4) = 0
      /\ Parity(t, 8) = 0 /\ Parity(t, 16) = 0 /\ Parity(t, 32) = 0
      /\ Parity(t, 64) = 0 /\ Parity(t, 128) = 0
  BY <1>3 DEF Bits
<1>5. Xor(t) = 0
  BY <1>4 DEF Xor
<1> QED
  BY <1>5 DEF t

------------------------------------------------------------------------------
(* The bytes of the transfers *)

\* What is asked for is known by its operation.
LEMMA RequestKinds ==
  ASSUME NEW r \in {None} \cup Pads \cup CardReads \cup CardWrites
  PROVE  /\ r = None <=> r.op = "none"
         /\ r.op = "pad" <=> r \in Pads
         /\ r.op = "read" <=> r \in CardReads
         /\ r.op = "write" <=> r \in CardWrites
         /\ r # None => r.slot \in Slots
         /\ r.op \in {"read", "write"} => r.frame \in Frames
         /\ r.op = "write" => r.block \in Blocks
BY DEF None, Pads, CardReads, CardWrites

\* Padding is a sequence of bytes.
LEMMA PaddingSeq ==
  ASSUME NEW n \in Nat
  PROVE  /\ Padding(n) \in Seq(Byte) /\ Len(Padding(n)) = n
         /\ \A k \in 1..n : Padding(n)[k] = 0
<1>1. Padding(n) \in [1..n -> Byte]
  BY DEF Padding, Byte
<1>2. Padding(n) \in Seq(Byte)
  BY <1>1
<1>3. DOMAIN Padding(n) = 1..n
  BY <1>1
<1> QED
  BY <1>2, <1>3, LenProperties DEF Padding

\* The bytes of a controller read.
LEMMA PadMessage ==
  ASSUME NEW r, r.op = "pad"
  PROVE  /\ Len(Message(r)) = 5
         /\ Message(r)[1] = PadStart /\ Message(r)[2] = PadRead
<1>1. <<PadStart, PadRead>> \in Seq(Byte)
  BY DEF PadStart, PadRead, Byte
<1>2. Message(r) = <<PadStart, PadRead>> \o Padding(3)
  BY DEF Message
<1> QED
  BY <1>1, <1>2, PaddingSeq, ConcatProperties

\* The halves of a frame's number are bytes, and give it back.
LEMMA FrameBytes ==
  ASSUME NEW f \in Frames
  PROVE  f \div 256 \in Byte /\ f % 256 \in Byte /\ (f % 256) + 256 * (f \div 256) = f
<1>1. f \in Nat /\ f < 65536
  <2>1. f \in 0..(256 * 256 - 1)
    BY CardAssumption
  <2>2. 256 * 256 - 1 = 65535
    OBVIOUS
  <2> QED
    BY <2>1, <2>2
<1>2. f \div 256 \in Byte
  BY <1>1 DEF Byte
<1>3. f % 256 \in Byte /\ (f % 256) + 256 * (f \div 256) = f
  BY <1>1 DEF Byte
<1> QED
  BY <1>2, <1>3

\* The size of a frame.
LEMMA SizeType == SectorBytes \in Nat /\ SectorBytes >= 1
<1>1. SectorBytes \in Nat \ {0}
  BY CardAssumption
<1> QED
  BY <1>1

\* A block is a sequence of bytes.
LEMMA BlockSeq ==
  ASSUME NEW block \in Blocks
  PROVE  /\ block \in Seq(Byte) /\ Len(block) = SectorBytes
         /\ DOMAIN block = 1..SectorBytes
         /\ \A k \in 1..SectorBytes : block[k] \in Byte
<1>1. block \in [1..SectorBytes -> Byte] /\ SectorBytes \in Nat
  BY CardAssumption
<1> QED
  BY <1>1

\* The first six bytes of a transfer with a card.
LEMMA HeadBytes ==
  ASSUME NEW f \in Frames, NEW command \in {ReadCommand, WriteCommand}
  PROVE  LET head == <<CardStart, command, 0, 0, f \div 256, f % 256>>
         IN  head \in Seq(Byte) /\ Len(head) = 6
BY FrameBytes DEF CardStart, ReadCommand, WriteCommand, Byte

\* The bytes of a card read.
LEMMA ReadMessage ==
  ASSUME NEW r \in CardReads
  PROVE  /\ Len(Message(r)) = SectorBytes + 12
         /\ Message(r)[1] = CardStart /\ Message(r)[2] = ReadCommand
         /\ Message(r)[5] = r.frame \div 256 /\ Message(r)[6] = r.frame % 256
<1> DEFINE head == <<CardStart, ReadCommand, 0, 0, r.frame \div 256, r.frame % 256>>
<1>1. r.op = "read" /\ r.frame \in Frames
  BY DEF CardReads
<1>2. head \in Seq(Byte) /\ Len(head) = 6
  BY <1>1, HeadBytes
<1>3. Message(r) = head \o Padding(SectorBytes + 6)
  BY <1>1 DEF Message
<1>4. SectorBytes \in Nat /\ SectorBytes + 6 \in Nat
  <2> HIDE DEF head
  <2> QED
    BY SizeType
<1>5. /\ Padding(SectorBytes + 6) \in Seq(Byte)
      /\ Len(Padding(SectorBytes + 6)) = SectorBytes + 6
  BY <1>4, PaddingSeq
<1>6. /\ Len(Message(r)) = SectorBytes + 12
      /\ \A i \in 1..6 : Message(r)[i] = head[i]
  <2> HIDE DEF head
  <2>1. /\ Len(head \o Padding(SectorBytes + 6))
             = Len(head) + Len(Padding(SectorBytes + 6))
        /\ \A i \in 1..(Len(head) + Len(Padding(SectorBytes + 6))) :
             (head \o Padding(SectorBytes + 6))[i] =
               IF i <= Len(head) THEN head[i]
                                 ELSE Padding(SectorBytes + 6)[i - Len(head)]
    BY <1>2, <1>5, ConcatProperties
  <2> QED
    BY <1>2, <1>3, <1>4, <1>5, <2>1
<1> QED
  BY <1>6

\* The bytes of a card write: the block follows the address.
LEMMA WriteMessage ==
  ASSUME NEW r \in CardWrites
  PROVE  /\ Len(Message(r)) = SectorBytes + 10
         /\ Message(r)[1] = CardStart /\ Message(r)[2] = WriteCommand
         /\ Message(r)[5] = r.frame \div 256 /\ Message(r)[6] = r.frame % 256
         /\ \A k \in 1..SectorBytes : Message(r)[k + 6] = r.block[k]
<1> DEFINE head == <<CardStart, WriteCommand, 0, 0, r.frame \div 256, r.frame % 256>>
<1>1. r.op = "write" /\ r.frame \in Frames /\ r.block \in Blocks
  BY DEF CardWrites
<1>2. head \in Seq(Byte) /\ Len(head) = 6
  BY <1>1, HeadBytes
<1>3. Message(r) = (head \o r.block) \o Padding(4)
  BY <1>1 DEF Message
<1>4. SectorBytes \in Nat
  BY SizeType
<1>5. Padding(4) \in Seq(Byte) /\ Len(Padding(4)) = 4
  BY PaddingSeq
<1>6. r.block \in Seq(Byte) /\ Len(r.block) = SectorBytes
  BY <1>1, BlockSeq
<1>7. /\ head \o r.block \in Seq(Byte) /\ Len(head \o r.block) = SectorBytes + 6
      /\ \A i \in 1..6 : (head \o r.block)[i] = head[i]
      /\ \A k \in 1..SectorBytes : (head \o r.block)[k + 6] = r.block[k]
  <2> HIDE DEF head
  <2>1. /\ head \o r.block \in Seq(Byte)
        /\ Len(head \o r.block) = Len(head) + Len(r.block)
        /\ \A i \in 1..(Len(head) + Len(r.block)) : (head \o r.block)[i] =
             IF i <= Len(head) THEN head[i] ELSE r.block[i - Len(head)]
    BY <1>2, <1>6, ConcatProperties
  <2>2. \A k \in 1..SectorBytes : (head \o r.block)[k + 6] = r.block[k]
    <3> TAKE k \in 1..SectorBytes
    <3>1. k + 6 \in 1..(Len(head) + Len(r.block)) /\ ~(k + 6 <= Len(head))
          /\ (k + 6) - Len(head) = k
      BY <1>2, <1>4, <1>6
    <3> QED
      BY <2>1, <3>1
  <2> QED
    BY <1>2, <1>4, <1>6, <2>1, <2>2
<1>8. /\ Len(Message(r)) = SectorBytes + 10
      /\ \A i \in 1..(SectorBytes + 6) : Message(r)[i] = (head \o r.block)[i]
  <2> DEFINE start == head \o r.block
  <2> HIDE DEF start, head
  <2>1. start \in Seq(Byte) /\ Len(start) = SectorBytes + 6
    BY <1>4, <1>7 DEF start
  <2>2. /\ Len(start \o Padding(4)) = Len(start) + Len(Padding(4))
        /\ \A i \in 1..(Len(start) + Len(Padding(4))) : (start \o Padding(4))[i] =
             IF i <= Len(start) THEN start[i] ELSE Padding(4)[i - Len(start)]
    BY <1>5, <2>1, ConcatProperties
  <2>3. Message(r) = start \o Padding(4)
    BY <1>3 DEF start
  <2>4. /\ Len(Message(r)) = SectorBytes + 10
        /\ \A i \in 1..(SectorBytes + 6) : Message(r)[i] = start[i]
    <3>1. Len(Message(r)) = SectorBytes + 10
      <4>1. Len(Message(r)) = Len(start) + Len(Padding(4))
        BY <2>2, <2>3
      <4>2. Len(start) = SectorBytes + 6 /\ Len(Padding(4)) = 4
        BY <1>5, <2>1
      <4>3. SectorBytes + 6 + 4 = SectorBytes + 10
        BY <1>4
      <4> QED
        BY <4>1, <4>2, <4>3
    <3>2. ASSUME NEW i \in 1..(SectorBytes + 6) PROVE Message(r)[i] = start[i]
      <4>1. i \in 1..(Len(start) + Len(Padding(4))) /\ i <= Len(start)
        BY <1>4, <1>5, <2>1
      <4> QED
        BY <2>2, <2>3, <4>1
    <3> QED
      BY <3>1, <3>2
  <2> QED
    BY <2>4 DEF start
<1>9. /\ Message(r)[1] = head[1] /\ Message(r)[2] = head[2]
      /\ Message(r)[5] = head[5] /\ Message(r)[6] = head[6]
  BY <1>4, <1>7, <1>8
<1>10. \A k \in 1..SectorBytes : Message(r)[k + 6] = r.block[k]
  BY <1>4, <1>7, <1>8
<1> QED
  BY <1>8, <1>9, <1>10

------------------------------------------------------------------------------
(* Which step of the port a byte is *)

\* The numbers the guest counts with.
LEMMA Counts ==
  ASSUME TypeOK
  PROVE  /\ sent \in Nat /\ Len(Message(request)) \in Nat
         /\ sent <= Len(Message(request))
         /\ request.op \in {"none", "pad", "read", "write"}
         /\ request.op = "none" => sent = 0
<1>1. /\ request \in {None} \cup Pads \cup CardReads \cup CardWrites
      /\ sent \in 0..Len(Message(request))
  BY DEF TypeOK
<1>2. request.op = "none" => Message(request) = <<>>
  BY DEF Message
<1>3. Len(Message(request)) \in Nat
  <2>1. request.op \in {"none", "pad", "read", "write"}
    BY <1>1 DEF None, Pads, CardReads, CardWrites
  <2>2. CASE request.op = "none"
    BY <1>2, <2>2
  <2>3. CASE request.op = "pad"
    BY <2>3, PadMessage
  <2>4. CASE request.op = "read"
    BY <1>1, <2>4, RequestKinds, ReadMessage, SizeType
  <2>5. CASE request.op = "write"
    BY <1>1, <2>5, RequestKinds, WriteMessage, SizeType
  <2> QED
    BY <2>1, <2>2, <2>3, <2>4, <2>5
<1>4. request.op \in {"none", "pad", "read", "write"}
  BY <1>1 DEF None, Pads, CardReads, CardWrites
<1>5. request.op = "none" => sent = 0
  BY <1>1, <1>2
<1> QED
  BY <1>1, <1>3, <1>4, <1>5

\* In a controller read the byte is the controller's.
LEMMA PadSends ==
  ASSUME IInv, SendByte, request.op = "pad"
  PROVE  \/ sent = 0 /\ StartPad
         \/ sent = 1 /\ PadCommand(PadRead)
         \/ sent \in 2..4 /\ request.slot = 1 /\ PadByte
<1> DEFINE v == Message(request)[sent + 1]
<1>1. sent \in 0..4
  BY Counts, PadMessage DEF SendByte, IInv, Turns
<1>2. Write8(v) /\ phase = "send" /\ ~NoController
  BY DEF SendByte
<1>3. mcdst = 0 /\ (sent = 0 => padst = 0) /\ (sent = 1 => padst = 1)
      /\ (sent \in 2..4 => padst = 2)
  BY <1>1 DEF IInv, PadPort
<1>4. CASE sent = 0
  <2>1. v = PadStart
    BY <1>4, PadMessage
  <2> QED
    BY <1>2, <1>3, <1>4, <2>1
    DEF Write8, PadCommand, PadByte, CardCommand, CardAddressHigh,
        CardAddressLow, CardBegin, CardData, CardStep, Ignored, PadStart, CardStart
<1>5. CASE sent = 1
  <2>1. v = PadRead
    BY <1>5, PadMessage
  <2> QED
    BY <1>2, <1>3, <1>5, <2>1
    DEF Write8, PadByte, CardCommand, CardAddressHigh, CardAddressLow,
        CardBegin, CardData, CardStep, Ignored, StartPad, StartCard
<1>6. CASE sent \in 2..4
  <2>1. PadByte
    BY <1>2, <1>3, <1>6
    DEF Write8, PadCommand, CardCommand, CardAddressHigh, CardAddressLow,
        CardBegin, CardData, CardStep, Ignored, StartPad, StartCard
  <2>2. request.slot \in Slots
    BY RequestKinds DEF IInv, TypeOK, None
  <2>3. request.slot # 2
    <3>1. SUFFICES ASSUME request.slot = 2 PROVE FALSE
      OBVIOUS
    <3>2. sent = 2 /\ Len(got) = 2 /\ got[2] = 255
      BY <1>2, <1>6, <3>1 DEF IInv, PadAbsent, Turns
    <3> QED
      BY <1>2, <3>2 DEF NoController, StandardPad
  <2> QED
    BY <1>6, <2>1, <2>2, <2>3 DEF Slots
<1> QED
  BY <1>1, <1>4, <1>5, <1>6

\* In a transfer with a card it is the card's, with the value it waits for.
LEMMA CardSends ==
  ASSUME IInv, SendByte, request.op \in {"read", "write"}
  PROVE  \E v :
         /\ v = Message(request)[sent + 1]
         /\ \/ sent = 0 /\ StartCard
            \/ sent \in 1..3 /\ CardCommand(v)
            \/ sent = 4 /\ CardAddressHigh(v)
            \/ sent = 5 /\ CardAddressLow(v)
            \/ sent = 6 /\ CardBegin(v)
            \/ sent >= 7 /\ CardData(v)
<1> DEFINE v == Message(request)[sent + 1]
<1>1. sent \in Nat
  BY Counts DEF IInv
<1>2. Write8(v) /\ phase = "send"
  BY DEF SendByte
<1>3. /\ padst = 0
      /\ sent = 0 => mcdst = 0
      /\ sent \in 1..3 => mcdst = 1
      /\ sent = 4 => mcdst = 2
      /\ sent = 5 => mcdst = 3
      /\ sent = 6 => mcdst = 4
      /\ sent >= 7 => mcdst = 5
  BY <1>1, <1>2 DEF IInv, CardPort
<1>4. CASE sent = 0
  <2>1. v = CardStart
    BY <1>4, RequestKinds, ReadMessage, WriteMessage DEF IInv, TypeOK
  <2>2. StartCard
    BY <1>2, <1>3, <1>4, <2>1
    DEF Write8, PadCommand, PadByte, CardCommand, CardAddressHigh,
        CardAddressLow, CardBegin, CardData, CardStep, Ignored, PadStart, CardStart
  <2> QED
    BY <1>4, <2>2
<1>5. CASE sent \in 1..3
  <2>1. CardCommand(v)
    BY <1>2, <1>3, <1>5
    DEF Write8, PadCommand, PadByte, CardAddressHigh, CardAddressLow,
        CardBegin, CardData, CardStep, Ignored, StartPad, StartCard
  <2> QED
    BY <1>5, <2>1
<1>6. CASE sent = 4
  <2>1. CardAddressHigh(v)
    BY <1>2, <1>3, <1>6
    DEF Write8, PadCommand, PadByte, CardCommand, CardAddressLow,
        CardBegin, CardData, CardStep, Ignored, StartPad, StartCard
  <2> QED
    BY <1>6, <2>1
<1>7. CASE sent = 5
  <2>1. CardAddressLow(v)
    BY <1>2, <1>3, <1>7
    DEF Write8, PadCommand, PadByte, CardCommand, CardAddressHigh,
        CardBegin, CardData, CardStep, Ignored, StartPad, StartCard
  <2> QED
    BY <1>7, <2>1
<1>8. CASE sent = 6
  <2>1. CardBegin(v)
    BY <1>2, <1>3, <1>8
    DEF Write8, PadCommand, PadByte, CardCommand, CardAddressHigh,
        CardAddressLow, CardData, CardStep, Ignored, StartPad, StartCard
  <2> QED
    BY <1>8, <2>1
<1>9. CASE sent >= 7
  <2>1. CardData(v)
    BY <1>2, <1>3, <1>9
    DEF Write8, PadCommand, PadByte, CardCommand, CardAddressHigh,
        CardAddressLow, CardBegin, CardStep, Ignored, StartPad, StartCard
  <2> QED
    BY <1>9, <2>1
<1> QED
  BY <1>1, <1>4, <1>5, <1>6, <1>7, <1>8, <1>9

------------------------------------------------------------------------------
(* The invariant and the bytes the guest sends *)

\* A transfer with one device says nothing of the other.
LEMMA PadAside ==
  ASSUME request'.op = "pad"
  PROVE  CardPort' /\ Reads' /\ Writes'
BY DEF CardPort, Reads, Writes

LEMMA CardAside ==
  ASSUME request'.op \in {"none", "read", "write"}
  PROVE  PadPort' /\ PadReply' /\ PadAbsent'
BY DEF PadPort, PadReply, PadAbsent

\* What the guest notes of a byte it sends, and the interrupt it waits for.
LEMMA SendNotes ==
  ASSUME IInv, SendByte
  PROVE  /\ UNCHANGED <<request, got, result, held>>
         /\ sent' = sent + 1 /\ sent \in Nat /\ sent < Len(Message(request))
         /\ Len(got) = sent
         /\ phase = "send" /\ ~evSio /\ ~iStat /\ Ctrl = request.slot
         /\ phase' = IF request.op = "pad" /\ sent = 4 THEN "receive" ELSE "wait"
<1>1. request.op = "pad" => Len(Message(request)) = 5
  BY PadMessage
<1>2. phase = "send" /\ UNCHANGED <<request, got, result, held>> /\ sent' = sent + 1
  BY DEF SendByte
<1>3. sent \in Nat /\ sent < Len(Message(request)) /\ Len(got) = sent
      /\ ~evSio /\ ~iStat /\ Ctrl = request.slot
  BY <1>2, Counts DEF IInv, Turns
<1>4. phase' = IF request.op = "pad" /\ sent' = Len(Message(request))
                 THEN "receive" ELSE "wait"
  BY DEF SendByte
<1>5. ASSUME request.op = "pad" PROVE sent' = Len(Message(request)) <=> sent = 4
  <2>1. Len(Message(request)) = 5
    BY <1>1, <1>5
  <2>2. sent' = sent + 1 /\ sent \in Nat
    BY <1>2, <1>3
  <2>3. sent' = 5 <=> sent = 4
    BY <2>2
  <2> QED
    BY <2>1, <2>3
<1>6. phase' = IF request.op = "pad" /\ sent = 4 THEN "receive" ELSE "wait"
  BY <1>4, <1>5
<1> QED
  BY <1>2, <1>3, <1>6

LEMMA SendTurns ==
  ASSUME IInv, SendByte, rx' = TRUE, UNCHANGED <<Ctrl, iStat, buttons, McdData>>,
         evSio' \in BOOLEAN, evSio' <=> ~(request.op = "pad" /\ sent = 4),
         buf' \in [0..(BufSize - 1) -> Byte], reply' \in Seq(Byte),
         padst' \in 0..2, mcdst' \in 0..5, rdwr' \in 0..2,
         adrH' \in Byte, adrL' \in Byte,
         bufcount' \in 0..(BufSize - 1), parp' \in 0..bufcount'
  PROVE  /\ TypeOK' /\ got' \in Seq(Byte) /\ reply' \in Seq(Byte)
         /\ Turns' /\ PadSnapshot'
<1>1. TypeOK'
  <2>1. PortTypes'
    BY DEF IInv, TypeOK, PortTypes
  <2>2. phase' \in {"idle", "send", "wait", "receive"}
    BY SendNotes
  <2>3. Len(Message(request)) \in Nat
    BY Counts DEF IInv
  <2>4. sent' \in 0..Len(Message(request'))
    BY <2>3, SendNotes
  <2> QED
    BY <2>1, <2>2, <2>4, SendNotes DEF IInv, TypeOK
<1>2. request' = request /\ request # None
  BY SendNotes DEF IInv, Turns
<1>3. Turns'
  <2>1. phase' \in {"wait", "receive"}
    BY SendNotes
  <2>2. phase' = "receive" => ~evSio' /\ ~iStat'
    BY SendNotes
  <2>3. phase' = "wait" => evSio' # iStat'
    BY SendNotes
  <2>4. sent' > 0 /\ Len(got') = sent' - 1 /\ Ctrl' = request'.slot
    BY SendNotes
  <2> QED
    BY <1>2, <2>1, <2>2, <2>3, <2>4 DEF Turns, Unread
<1>4. PadSnapshot'
  BY SendNotes DEF IInv, PadSnapshot
<1> QED
  BY <1>1, <1>3, <1>4, SendNotes DEF IInv

\* The first byte of a controller read takes the buttons.
LEMMA StartPadKeeps ==
  ASSUME IInv, SendByte, request.op = "pad", sent = 0, StartPad
  PROVE  IInv'
<1>1. /\ rx' = TRUE /\ bufcount' = 2 /\ parp' = 0 /\ padst' = 1 /\ evSio' = TRUE
      /\ UNCHANGED <<Ctrl, mcdst, rdwr, adrH, adrL, McdData, iStat, buttons>>
  BY DEF StartPad, SIO_INT, cardVars
<1>2. request' = request /\ sent' = 1 /\ Len(got') = 0 /\ Ctrl = request.slot
  BY SendNotes
<1>3. buf' \in [0..(BufSize - 1) -> Byte]
  BY BufAssumption DEF StartPad, IInv, TypeOK, PortTypes, Byte
<1>4. /\ \A b \in Buttons : PadBytes(b) \in Seq(Byte) /\ Len(PadBytes(b)) = 4
      /\ buttons \in Buttons
  BY PadAssumption DEF PadBytes, StandardPad, Byte, IInv, TypeOK, PortTypes
<1>5. reply' \in Seq(Byte)
  BY <1>4, PadAssumption DEF StartPad, PadAnswer, IInv
<1>6. /\ TypeOK' /\ got' \in Seq(Byte) /\ reply' \in Seq(Byte)
      /\ Turns' /\ PadSnapshot'
  <2>1. 2 \in 0..(BufSize - 1) /\ 0 \in 0..2
    BY BufAssumption
  <2>2. /\ evSio' \in BOOLEAN /\ (evSio' <=> ~(request.op = "pad" /\ sent = 4))
        /\ padst' \in 0..2 /\ bufcount' \in 0..(BufSize - 1) /\ parp' \in 0..bufcount'
    BY <1>1, <2>1
  <2>3. /\ mcdst' \in 0..5 /\ rdwr' \in 0..2 /\ adrH' \in Byte /\ adrL' \in Byte
    BY <1>1 DEF IInv, TypeOK, PortTypes
  <2> QED
    BY <1>1, <1>3, <1>5, <2>2, <2>3, SendTurns
<1>7. PadPort'
  BY <1>1, <1>2 DEF IInv, PadPort
<1>8. PadReply'
  <2> SUFFICES ASSUME request.slot = 1
               PROVE  /\ reply' = SubSeq(PadBytes(buttons), 1, 4)
                      /\ \A k \in 2..Len(got') : got'[k] = PadBytes(buttons)[k - 1]
    BY <1>2, <1>4 DEF PadReply
  <2>1. reply' = PadBytes(buttons)
    BY <1>2 DEF StartPad, PadAnswer
  <2>2. SubSeq(PadBytes(buttons), 1, 4) = PadBytes(buttons)
    BY <1>4, SubSeqFull
  <2> QED
    BY <1>2, <2>1, <2>2
<1>9. PadAbsent'
  BY <1>2 DEF PadAbsent
<1> QED
  BY <1>2, <1>6, <1>7, <1>8, <1>9, PadAside DEF IInv

\* A controller answers bytes.
LEMMA PollType ==
  ASSUME IInv
  PROVE  Poll \in Byte /\ ReplyAfterPoll \in Seq(Byte)
<1>1. reply \in Seq(Byte)
  BY DEF IInv
<1>2. reply # <<>> => Head(reply) \in Byte /\ Tail(reply) \in Seq(Byte)
  BY <1>1, HeadTailProperties
<1>3. 255 \in Byte
  BY DEF Byte
<1> QED
  BY <1>1, <1>2, <1>3 DEF Poll, ReplyAfterPoll

\* The answer of a controller is four bytes.
LEMMA PadBytesSeq ==
  ASSUME NEW b \in Buttons
  PROVE  /\ PadBytes(b) \in Seq(Byte) /\ Len(PadBytes(b)) = 4
         /\ PadBytes(b)[1] = StandardPad /\ PadBytes(b)[3] = b /\ PadBytes(b)[4] = b
BY PadAssumption DEF PadBytes, StandardPad, Byte

\* The controller of slot 1 answers one byte after the other.
LEMMA PadPolls ==
  ASSUME NEW b \in Buttons, NEW n \in 1..4, Ctrl = 1,
         reply = SubSeq(PadBytes(b), n, 4)
  PROVE  Poll = PadBytes(b)[n] /\ ReplyAfterPoll = SubSeq(PadBytes(b), n + 1, 4)
<1>1. PadBytes(b) \in Seq(Byte) /\ Len(PadBytes(b)) = 4
  BY PadBytesSeq
<1>2. /\ n \in 1..Len(PadBytes(b)) /\ 4 \in n..Len(PadBytes(b))
  BY <1>1
<1>3. /\ Head(SubSeq(PadBytes(b), n, 4)) = PadBytes(b)[n]
      /\ Tail(SubSeq(PadBytes(b), n, 4)) = SubSeq(PadBytes(b), n + 1, 4)
  BY <1>1, <1>2, HeadTailOfSubSeq
<1>4. reply # <<>>
  <2>1. ASSUME NEW i \in n..4 PROVE PadBytes(b)[i] \in Byte
    <3>1. i \in 1..Len(PadBytes(b))
      BY <1>1
    <3> QED
      BY <1>1, <3>1, ElementOfSeq
  <2>2. Len(SubSeq(PadBytes(b), n, 4)) = 4 - n + 1
    BY <2>1, SubSeqProperties
  <2>3. Len(reply) # 0
    BY <2>2
  <2>4. Len(<<>>) = 0
    OBVIOUS
  <2> QED
    BY <2>3, <2>4
<1> QED
  BY <1>3, <1>4 DEF Poll, ReplyAfterPoll

\* The second byte names the controller, and with it the length of its answer.
LEMMA PadCommandKeeps ==
  ASSUME IInv, SendByte, request.op = "pad", sent = 1, PadCommand(PadRead)
  PROVE  IInv'
<1>1. /\ request' = request /\ sent' = 2 /\ Len(got') = 1 /\ Ctrl = request.slot
      /\ phase = "send" /\ got' = got
  BY SendNotes
<1>2. request.slot \in Slots /\ Ctrl \in Slots
  BY <1>1, RequestKinds DEF IInv, TypeOK, None
<1>3. Polled(1)[1] = Poll /\ Polled(1) \in [0..(BufSize - 1) -> Byte]
  BY <1>2, PollType, BufAssumption DEF Polled, IInv, TypeOK, PortTypes
<1>4. /\ padst' = 2 /\ parp' = 1 /\ reply' = ReplyAfterPoll /\ evSio' = TRUE
      /\ UNCHANGED <<Ctrl, rx, mcdst, rdwr, adrH, adrL, McdData, iStat, buttons>>
      /\ buf' = [Polled(1) EXCEPT ![1] = Poll]
      /\ bufcount' = 2 + 2 * (IF Poll % 16 = 0 THEN 16 ELSE Poll % 16)
  <2>1. (PadRead \div 64) % 2 = 1 /\ PadRead # 67 /\ PadRead # 69
    BY DEF PadRead
  <2> QED
    BY <1>3, <2>1 DEF PadCommand, SIO_INT, cardVars
<1>5. buf' \in [0..(BufSize - 1) -> Byte] /\ buf'[1] = Poll
  BY <1>3, <1>4, PollType, BufAssumption
<1>6. ASSUME request.slot = 1
      PROVE  bufcount' = 4 /\ PadReply' /\ PadAbsent' /\ PadPort'
  <2>1. PICK b \in Buttons : reply = SubSeq(PadBytes(b), 1, 4)
    BY <1>6 DEF IInv, PadReply
  <2>2. Poll = PadBytes(b)[1] /\ ReplyAfterPoll = SubSeq(PadBytes(b), 2, 4)
    BY <1>1, <1>6, <2>1, PadPolls
  <2>3. Poll = 65
    BY <2>2, PadBytesSeq DEF StandardPad
  <2>4. bufcount' = 4
    BY <1>4, <2>3
  <2>5. PadReply'
    <3>1. \A k \in 2..Len(got') : got'[k] = PadBytes(b)[k - 1]
      BY <1>1
    <3>2. buf'[sent' - 1] = PadBytes(b)[sent' - 1]
      BY <1>1, <1>5, <2>2
    <3> QED
      BY <1>1, <1>4, <2>2, <3>1, <3>2 DEF PadReply
  <2>6. PadAbsent'
    BY <1>1, <1>6 DEF PadAbsent
  <2>7. PadPort'
    BY <1>1, <1>4, <1>6, <2>4 DEF IInv, PadPort
  <2> QED
    BY <2>4, <2>5, <2>6, <2>7
<1>7. ASSUME request.slot = 2
      PROVE  bufcount' = 32 /\ PadReply' /\ PadAbsent' /\ PadPort'
  <2>1. Poll = 255
    BY <1>1, <1>7 DEF Poll
  <2>2. bufcount' = 32
    BY <1>4, <2>1
  <2>3. PadReply'
    BY <1>1, <1>7 DEF PadReply
  <2>4. PadAbsent'
    BY <1>1, <1>5, <2>1 DEF PadAbsent
  <2>5. PadPort'
    BY <1>1, <1>4, <1>7, <2>2 DEF IInv, PadPort
  <2> QED
    BY <2>2, <2>3, <2>4, <2>5
<1>8. bufcount' \in {4, 32} /\ PadReply' /\ PadAbsent' /\ PadPort'
  BY <1>2, <1>6, <1>7 DEF Slots
<1>9. /\ TypeOK' /\ got' \in Seq(Byte) /\ reply' \in Seq(Byte)
      /\ Turns' /\ PadSnapshot'
  <2>1. bufcount' \in 0..(BufSize - 1) /\ parp' \in 0..bufcount'
    BY <1>4, <1>8, BufAssumption
  <2>2. evSio' \in BOOLEAN /\ (evSio' <=> ~(request.op = "pad" /\ sent = 4))
    BY <1>4
  <2>3. /\ padst' \in 0..2 /\ mcdst' \in 0..5 /\ rdwr' \in 0..2
        /\ adrH' \in Byte /\ adrL' \in Byte
    BY <1>4 DEF IInv, TypeOK, PortTypes
  <2>4. rx' = TRUE
    BY <1>4 DEF IInv, Turns, TypeOK, PortTypes
  <2>5. reply' \in Seq(Byte)
    BY <1>4, PollType
  <2> QED
    BY <1>4, <1>5, <2>1, <2>2, <2>3, <2>4, <2>5, SendTurns
<1> QED
  BY <1>1, <1>8, <1>9, PadAside DEF IInv

\* The rest of the answer comes from the buttons taken at its start.
LEMMA PadByteKeeps ==
  ASSUME IInv, SendByte, request.op = "pad", request.slot = 1, sent \in 2..4,
         PadByte
  PROVE  IInv'
<1>1. /\ request' = request /\ sent' = sent + 1 /\ Len(got') = sent - 1 + 1
      /\ Ctrl = 1 /\ got' = got
  BY SendNotes
<1>2. PICK b \in Buttons :
        /\ reply = SubSeq(PadBytes(b), sent, 4)
        /\ \A k \in 2..Len(got) : got[k] = PadBytes(b)[k - 1]
  BY DEF IInv, PadReply
<1>3. Poll = PadBytes(b)[sent] /\ ReplyAfterPoll = SubSeq(PadBytes(b), sent + 1, 4)
  <2>1. sent \in 1..4 /\ Ctrl = 1 /\ reply = SubSeq(PadBytes(b), sent, 4)
    BY <1>1, <1>2
  <2> QED
    BY <2>1, PadPolls
<1>4. parp = sent - 1 /\ bufcount = 4
  BY DEF IInv, PadPort
<1>5. /\ parp' = sent /\ buf' = [buf EXCEPT ![sent] = Poll]
      /\ reply' = ReplyAfterPoll
      /\ padst' = IF sent = 4 THEN 0 ELSE padst
      /\ IF sent = 4 THEN evSio' = evSio ELSE evSio' = TRUE
      /\ UNCHANGED <<Ctrl, rx, bufcount, mcdst, rdwr, adrH, adrL, McdData,
                     iStat, buttons>>
  <2>1. parp + 1 = sent
    BY <1>4
  <2> QED
    BY <1>1, <1>4, <2>1
    DEF PadByte, PadDone, SIO_INT, cardVars, Polled, Slots
<1>6. buf' \in [0..(BufSize - 1) -> Byte] /\ buf'[sent] = Poll
  <2>1. sent \in 0..(BufSize - 1) /\ buf \in [0..(BufSize - 1) -> Byte]
    BY BufAssumption DEF IInv, TypeOK, PortTypes
  <2> QED
    BY <1>5, <2>1, PollType
<1>7. PadReply'
  <2>1. reply' = SubSeq(PadBytes(b), sent', 4)
    BY <1>1, <1>3, <1>5
  <2>2. sent' - 1 = sent
    BY <1>1
  <2>3. buf'[sent' - 1] = PadBytes(b)[sent' - 1]
    BY <1>3, <1>6, <2>2
  <2> QED
    BY <1>1, <1>2, <2>1, <2>3 DEF PadReply
<1>8. PadAbsent'
  BY <1>1 DEF PadAbsent
<1>9. PadPort'
  <2>1. /\ mcdst' = 0 /\ bufcount' = 4 /\ parp' = sent' - 1 /\ sent' \in 3..5
        /\ sent' # 5 => padst' = 2
        /\ sent' = 5 => padst' = 0
    BY <1>1, <1>4, <1>5 DEF IInv, PadPort
  <2> QED
    BY <1>1, <2>1 DEF PadPort
<1>10. /\ TypeOK' /\ got' \in Seq(Byte) /\ reply' \in Seq(Byte)
       /\ Turns' /\ PadSnapshot'
  <2>1. bufcount' \in 0..(BufSize - 1) /\ parp' \in 0..bufcount'
    BY <1>4, <1>5, BufAssumption
  <2>2. ~evSio
    BY SendNotes
  <2>3. evSio' \in BOOLEAN /\ (evSio' <=> ~(request.op = "pad" /\ sent = 4))
    <3>1. CASE sent = 4
      BY <1>5, <2>2, <3>1 DEF IInv, TypeOK, PortTypes
    <3>2. CASE sent # 4
      BY <1>5, <3>2
    <3> QED
      BY <3>1, <3>2
  <2>4. /\ padst' \in 0..2 /\ mcdst' \in 0..5 /\ rdwr' \in 0..2
        /\ adrH' \in Byte /\ adrL' \in Byte
    BY <1>5 DEF IInv, TypeOK, PortTypes
  <2>5. rx' = TRUE
    BY <1>5 DEF IInv, Turns, TypeOK, PortTypes
  <2>6. reply' \in Seq(Byte)
    BY <1>5, PollType
  <2> QED
    BY <1>5, <1>6, <2>1, <2>3, <2>4, <2>5, <2>6, SendTurns
<1> QED
  BY <1>1, <1>7, <1>8, <1>9, <1>10, PadAside DEF IInv

\* What every step of the card's automaton leaves alone, and what is left to
\* show of it.
LEMMA CardStepKeeps ==
  ASSUME IInv, SendByte, request.op \in {"read", "write"}, NEW n \in 1..5,
         CardStep(n)
  PROVE  /\ evSio' = TRUE /\ rx' = TRUE
         /\ UNCHANGED <<Ctrl, padst, reply, McdData, iStat, buttons>>
         /\ sent > 0
         /\ /\ buf' \in [0..(BufSize - 1) -> Byte]
            /\ mcdst' \in 0..5 /\ rdwr' \in 0..2 /\ adrH' \in Byte /\ adrL' \in Byte
            /\ bufcount' \in 0..(BufSize - 1) /\ parp' \in 0..bufcount'
            /\ CardPort' /\ Reads' /\ Writes'
            => IInv'
<1>1. mcdst # 0
  BY DEF CardStep
<1>2. sent # 0 /\ sent \in Nat
  BY <1>1, SendNotes DEF IInv, CardPort
<1>3. /\ evSio' = TRUE
      /\ UNCHANGED <<Ctrl, rx, padst, reply, McdData, iStat, buttons>>
  BY DEF CardStep, SIO_INT, padVars
<1>4. rx' = TRUE
  BY <1>2, <1>3 DEF IInv, Turns, TypeOK, PortTypes
<1>5. request' = request
  BY SendNotes
<1>6. ASSUME buf' \in [0..(BufSize - 1) -> Byte],
             mcdst' \in 0..5, rdwr' \in 0..2, adrH' \in Byte, adrL' \in Byte,
             bufcount' \in 0..(BufSize - 1), parp' \in 0..bufcount',
             CardPort', Reads', Writes'
      PROVE  IInv'
  <2>1. padst' \in 0..2 /\ reply' \in Seq(Byte)
    BY <1>3 DEF IInv, TypeOK, PortTypes
  <2>2. evSio' \in BOOLEAN /\ (evSio' <=> ~(request.op = "pad" /\ sent = 4))
    BY <1>3
  <2>3. /\ TypeOK' /\ got' \in Seq(Byte) /\ reply' \in Seq(Byte)
        /\ Turns' /\ PadSnapshot'
    BY <1>3, <1>4, <1>6, <2>1, <2>2, SendTurns
  <2>4. PadPort' /\ PadReply' /\ PadAbsent'
    BY <1>5, CardAside
  <2> QED
    BY <1>6, <2>3, <2>4 DEF IInv
<1> QED
  BY <1>2, <1>3, <1>4, <1>6

\* The byte that addresses a card.
LEMMA StartCardKeeps ==
  ASSUME IInv, SendByte, request.op \in {"read", "write"}, sent = 0, StartCard
  PROVE  IInv'
<1>1. /\ rx' = TRUE /\ parp' = 0 /\ bufcount' = 3 /\ mcdst' = 1 /\ rdwr' = 0
      /\ evSio' = TRUE
      /\ UNCHANGED <<Ctrl, padst, reply, adrH, adrL, McdData, iStat, buttons>>
  BY DEF StartCard, SIO_INT, padVars
<1>2. buf' \in [0..(BufSize - 1) -> Byte]
  <2>1. ASSUME NEW i \in 0..(BufSize - 1)
        PROVE  (IF i < 4 THEN cardh[i + 1] ELSE buf[i]) \in Byte
    <3>1. CASE i < 4
      <4>1. i \in {0, 1, 2, 3}
        BY <3>1
      <4>2. cardh[1] \in Byte /\ cardh[2] \in Byte /\ cardh[3] \in Byte /\ cardh[4] \in Byte
        BY DEF cardh, Byte
      <4>3. cardh[i + 1] \in Byte
        BY <4>1, <4>2
      <4> QED
        BY <3>1, <4>3
    <3>2. CASE ~(i < 4)
      BY <3>2 DEF IInv, TypeOK, PortTypes
    <3> QED
      BY <3>1, <3>2
  <2> QED
    BY <2>1 DEF StartCard
<1>3. request' = request /\ sent' = 1
  BY SendNotes
<1>4. padst = 0
  BY DEF IInv, CardPort
<1>5. CardPort' /\ Reads' /\ Writes'
  <2>1. CardPort'
    BY <1>1, <1>3, <1>4 DEF CardPort
  <2>2. Reads' /\ Writes'
    BY <1>3 DEF Reads, Writes
  <2> QED
    BY <2>1, <2>2
<1>6. PadPort' /\ PadReply' /\ PadAbsent'
  BY <1>3, CardAside
<1>7. /\ TypeOK' /\ got' \in Seq(Byte) /\ reply' \in Seq(Byte)
      /\ Turns' /\ PadSnapshot'
  <2>1. bufcount' \in 0..(BufSize - 1) /\ parp' \in 0..bufcount'
    BY <1>1, BufAssumption
  <2>2. /\ padst' \in 0..2 /\ mcdst' \in 0..5 /\ rdwr' \in 0..2
        /\ adrH' \in Byte /\ adrL' \in Byte
    BY <1>1 DEF IInv, TypeOK, PortTypes
  <2>3. reply' \in Seq(Byte)
    BY <1>1 DEF IInv
  <2>4. evSio' \in BOOLEAN /\ (evSio' <=> ~(request.op = "pad" /\ sent = 4))
    BY <1>1
  <2> QED
    BY <1>1, <1>2, <2>1, <2>2, <2>3, <2>4, SendTurns
<1> QED
  BY <1>5, <1>6, <1>7 DEF IInv

\* The command, and the bytes that fetch the rest of the card's greeting.
LEMMA CardCommandKeeps ==
  ASSUME IInv, SendByte, request.op \in {"read", "write"}, sent \in 1..3,
         CardCommand(Message(request)[sent + 1])
  PROVE  IInv'
<1> DEFINE v == Message(request)[sent + 1]
           code == IF request.op = "read" THEN 1 ELSE 2
<1>1. request' = request /\ sent' = sent + 1 /\ phase' = "wait"
  BY SendNotes
<1>2. CardStep(1) /\ UNCHANGED <<buf, bufcount, adrH, adrL>>
  BY DEF CardCommand
<1>3. mcdst = 1 /\ padst = 0 /\ parp = sent - 1 /\ bufcount = 3
      /\ (sent = 1 => rdwr = 0) /\ (sent > 1 => rdwr = code)
  BY <1>2 DEF IInv, CardPort, CardStep
<1>4. parp' = sent /\ rdwr' = code /\ mcdst' = 1
  <2>1. CASE sent = 1
    <3>1. v = IF request.op = "read" THEN ReadCommand ELSE WriteCommand
      BY <2>1, RequestKinds, ReadMessage, WriteMessage DEF IInv, TypeOK
    <3>2. ReadCommand # WriteCommand
      BY DEF ReadCommand, WriteCommand
    <3>3. /\ parp' = 1
          /\ v = ReadCommand => rdwr' = 1 /\ mcdst' = 1
          /\ v = WriteCommand => rdwr' = 2 /\ mcdst' = 1
      BY <1>3, <2>1, <3>2 DEF CardCommand
    <3> QED
      BY <2>1, <3>1, <3>3
  <2>2. CASE sent \in 2..3
    BY <1>3, <2>2 DEF CardCommand
  <2> QED
    BY <2>1, <2>2
<1>5. /\ evSio' = TRUE /\ rx' = TRUE
      /\ UNCHANGED <<Ctrl, padst, reply, McdData, iStat, buttons>>
  <2>1. 1 \in 1..5
    OBVIOUS
  <2> QED
    BY <1>2, <2>1, CardStepKeeps
<1>6. CardPort'
  <2>1. sent' \in 2..4 /\ mcdst' = 1 /\ padst' = 0 /\ parp' = sent' - 1
        /\ bufcount' = 3 /\ rdwr' = code
    BY <1>1, <1>2, <1>3, <1>4, <1>5
  <2> QED
    BY <1>1, <2>1 DEF CardPort
<1>7. Reads' /\ Writes'
  <2>1. sent' \in 2..4
    BY <1>1
  <2> QED
    BY <1>1, <2>1, SizeType DEF Reads, Writes
<1>8. /\ buf' \in [0..(BufSize - 1) -> Byte]
      /\ mcdst' \in 0..5 /\ rdwr' \in 0..2 /\ adrH' \in Byte /\ adrL' \in Byte
      /\ bufcount' \in 0..(BufSize - 1) /\ parp' \in 0..bufcount'
  <2>1. bufcount' \in 0..(BufSize - 1) /\ parp' \in 0..bufcount'
    BY <1>2, <1>3, <1>4, BufAssumption
  <2> QED
    BY <1>2, <1>4, <2>1 DEF IInv, TypeOK, PortTypes
<1>9. 1 \in 1..5
  OBVIOUS
<1> HIDE DEF v, code
<1> QED
  BY <1>2, <1>6, <1>7, <1>8, <1>9, CardStepKeeps

\* The two bytes of the address.
LEMMA CardAddressKeeps ==
  ASSUME IInv, SendByte, request.op \in {"read", "write"},
         \/ sent = 4 /\ CardAddressHigh(Message(request)[sent + 1])
         \/ sent = 5 /\ CardAddressLow(Message(request)[sent + 1])
  PROVE  IInv'
<1> DEFINE v == Message(request)[sent + 1]
           code == IF request.op = "read" THEN 1 ELSE 2
<1>1. request' = request /\ sent' = sent + 1 /\ phase' = "wait"
  BY SendNotes
<1>2. PICK n \in {2, 3} : CardStep(n) /\ n = sent - 2
  BY DEF CardAddressHigh, CardAddressLow
<1>3. padst = 0 /\ rdwr = code /\ (sent = 5 => adrH = request.frame \div 256)
  BY DEF IInv, CardPort
<1>4. /\ sent = 4 => v = request.frame \div 256
      /\ sent = 5 => v = request.frame % 256
      /\ v \in Byte
  BY RequestKinds, ReadMessage, WriteMessage, FrameBytes DEF IInv, TypeOK
<1>5. /\ evSio' = TRUE /\ rx' = TRUE
      /\ UNCHANGED <<Ctrl, padst, reply, McdData, iStat, buttons>>
  <2>1. n \in 1..5
    BY <1>2
  <2> QED
    BY <1>2, <2>1, CardStepKeeps
<1>6. /\ parp' = 0 /\ bufcount' = 1 /\ rdwr' = rdwr /\ mcdst' = n + 1
      /\ IF sent = 4 THEN adrH' = v /\ adrL' = adrL ELSE adrH' = adrH /\ adrL' = v
      /\ buf' = [buf EXCEPT ![0] = IF sent = 4 THEN 0 ELSE adrH]
  <2>1. CASE sent = 4
    BY <1>2, <2>1 DEF CardAddressHigh, CardAddressLow
  <2>2. CASE sent = 5
    BY <1>2, <2>2 DEF CardAddressHigh, CardAddressLow
  <2> QED
    BY <2>1, <2>2
<1>7. /\ buf' \in [0..(BufSize - 1) -> Byte]
      /\ mcdst' \in 0..5 /\ rdwr' \in 0..2 /\ adrH' \in Byte /\ adrL' \in Byte
      /\ bufcount' \in 0..(BufSize - 1) /\ parp' \in 0..bufcount'
  <2>1. bufcount' \in 0..(BufSize - 1) /\ parp' \in 0..bufcount'
    BY <1>6, BufAssumption
  <2>2. 0 \in Byte
    BY DEF Byte
  <2>3. adrH' \in Byte /\ adrL' \in Byte /\ rdwr' \in 0..2
    BY <1>4, <1>6 DEF IInv, TypeOK, PortTypes
  <2>4. mcdst' \in 0..5
    BY <1>2, <1>6
  <2>5. buf' \in [0..(BufSize - 1) -> Byte]
    BY <1>6, <2>2 DEF IInv, TypeOK, PortTypes
  <2> QED
    BY <2>1, <2>3, <2>4, <2>5
<1>8. CardPort'
  <2>1. /\ sent' \in 5..6 /\ mcdst' = sent' - 2 /\ padst' = 0 /\ parp' = 0
        /\ bufcount' = 1 /\ rdwr' = code /\ adrH' = request.frame \div 256
        /\ sent' = 6 => adrL' = request.frame % 256
    <3>1. CASE sent = 4
      BY <1>1, <1>2, <1>3, <1>4, <1>5, <1>6, <3>1
    <3>2. CASE sent = 5
      BY <1>1, <1>2, <1>3, <1>4, <1>5, <1>6, <3>2
    <3> QED
      BY <3>1, <3>2
  <2> QED
    BY <1>1, <2>1 DEF CardPort
<1>9. Reads' /\ Writes'
  <2>1. sent' \in 5..6
    BY <1>1
  <2> QED
    BY <1>1, <2>1, SizeType DEF Reads, Writes
<1>10. n \in 1..5
  BY <1>2
<1> HIDE DEF v, code
<1> QED
  BY <1>2, <1>7, <1>8, <1>9, <1>10, CardStepKeeps

\* A frame on a card is a block, and its checksum a byte.
LEMMA SectorTypes ==
  ASSUME IInv, request.op \in {"read", "write"}
  PROVE  /\ Sectors(request) \in Blocks
         /\ \A k \in 1..SectorBytes : Sectors(request)[k] \in Byte
         /\ <<adrH, adrL>> \o Sectors(request) \in Seq(Byte)
         /\ Len(<<adrH, adrL>> \o Sectors(request)) = SectorBytes + 2
         /\ Checksum(adrH, adrL, Sectors(request)) \in Byte
<1>1. request.slot \in Slots /\ request.frame \in Frames
  BY RequestKinds DEF IInv, TypeOK, None
<1>2. Sectors(request) \in Blocks
  BY <1>1 DEF Sectors, IInv, TypeOK, PortTypes
<1>3. /\ Sectors(request) \in Seq(Byte) /\ Len(Sectors(request)) = SectorBytes
      /\ \A k \in 1..SectorBytes : Sectors(request)[k] \in Byte
  BY <1>2, BlockSeq
<1>4. <<adrH, adrL>> \in Seq(Byte) /\ Len(<<adrH, adrL>>) = 2
  BY DEF IInv, TypeOK, PortTypes
<1>5. /\ <<adrH, adrL>> \o Sectors(request) \in Seq(Byte)
      /\ Len(<<adrH, adrL>> \o Sectors(request)) = 2 + SectorBytes
  BY <1>3, <1>4, ConcatProperties
<1>6. Checksum(adrH, adrL, Sectors(request)) \in Byte
  BY <1>5, XorBits DEF Checksum
<1> QED
  BY <1>2, <1>3, <1>5, <1>6, SizeType

\* The seventh byte of a read fills the buffer from the card.
LEMMA ReadBeginKeeps ==
  ASSUME IInv, SendByte, request.op = "read", sent = 6,
         CardBegin(Message(request)[sent + 1])
  PROVE  IInv'
<1>1. /\ request' = request /\ sent' = 7 /\ phase' = "wait" /\ got' = got
      /\ Len(got) = 6 /\ Ctrl = request.slot
  BY SendNotes
<1>2. CardStep(4) /\ 4 \in 1..5
  BY DEF CardBegin
<1>3. /\ padst = 0 /\ rdwr = 1 /\ adrH = request.frame \div 256
      /\ adrL = request.frame % 256
  BY DEF IInv, CardPort
<1>4. /\ evSio' = TRUE /\ rx' = TRUE
      /\ UNCHANGED <<Ctrl, padst, reply, McdData, iStat, buttons>>
  BY <1>2, CardStepKeeps
<1>5. request.slot \in Slots /\ request.frame \in Frames /\ request \in CardReads
  BY RequestKinds DEF IInv, TypeOK, None
<1>6. Frame = request.frame
  BY <1>3, <1>5, FrameBytes DEF Frame
<1>7. /\ buf' = ReadBuffer /\ bufcount' = SectorBytes + 5 /\ parp' = 0 /\ mcdst' = 5
      /\ rdwr' = 1 /\ adrH' = adrH /\ adrL' = adrL
  BY <1>3 DEF CardBegin
<1> DEFINE sum == Checksum(adrH, adrL, Sectors(request))
           filled == [i \in 0..(BufSize - 1) |->
                        IF DataAt(4, i) THEN Sectors(request)[i - 3] ELSE buf[i]]
<1>8. buf' = [filled EXCEPT ![0] = 92, ![1] = 93, ![2] = adrH, ![3] = adrL,
                            ![SectorBytes + 4] = sum, ![SectorBytes + 5] = 71]
  BY <1>1, <1>5, <1>6, <1>7 DEF ReadBuffer, Sectors
<1>9. filled \in [0..(BufSize - 1) -> Byte]
  <2>1. ASSUME NEW i \in 0..(BufSize - 1)
        PROVE  (IF DataAt(4, i) THEN Sectors(request)[i - 3] ELSE buf[i]) \in Byte
    <3>1. buf[i] \in Byte
      BY DEF IInv, TypeOK, PortTypes
    <3>2. DataAt(4, i) => Sectors(request)[i - 3] \in Byte
      BY SectorTypes, SizeType DEF DataAt
    <3> QED
      BY <3>1, <3>2
  <2> QED
    BY <2>1
<1>10. \A k \in 1..SectorBytes : filled[k + 3] = Sectors(request)[k]
  <2> TAKE k \in 1..SectorBytes
  <2>1. k + 3 \in 0..(BufSize - 1) /\ DataAt(4, k + 3) /\ k + 3 - 3 = k
    BY BufAssumption, SizeType DEF DataAt
  <2> QED
    BY <2>1
<1>11. /\ adrH \in Byte /\ adrL \in Byte /\ sum \in Byte
       /\ 92 \in Byte /\ 93 \in Byte /\ 71 \in Byte
  <2>1. 92 \in Byte /\ 93 \in Byte /\ 71 \in Byte
    BY DEF Byte
  <2> QED
    BY <2>1, SectorTypes DEF IInv, TypeOK, PortTypes
<1> HIDE DEF filled, sum
<1>12. buf' \in [0..(BufSize - 1) -> Byte]
  BY <1>8, <1>9, <1>11
<1>13. /\ buf'[2] = adrH /\ buf'[3] = adrL
       /\ \A k \in 1..SectorBytes : buf'[k + 3] = Sectors(request)[k]
       /\ buf'[SectorBytes + 4] = sum
  <2>1. /\ 2 \in 0..(BufSize - 1) /\ 3 \in 0..(BufSize - 1)
        /\ SectorBytes + 4 \in 0..(BufSize - 1)
        /\ SectorBytes + 4 \notin {0, 1, 2, 3} /\ SectorBytes + 5 \notin {0, 1, 2, 3}
        /\ SectorBytes + 5 # SectorBytes + 4
    BY BufAssumption, SizeType
  <2>2. buf'[2] = adrH /\ buf'[3] = adrL
    BY <1>8, <1>9, <2>1
  <2>3. ASSUME NEW k \in 1..SectorBytes PROVE buf'[k + 3] = Sectors(request)[k]
    <3>1. /\ k + 3 \in 0..(BufSize - 1) /\ k + 3 \notin {0, 1, 2, 3}
          /\ k + 3 # SectorBytes + 4 /\ k + 3 # SectorBytes + 5
      BY BufAssumption, SizeType
    <3>2. buf'[k + 3] = filled[k + 3]
      BY <1>8, <1>9, <3>1
    <3> QED
      BY <1>10, <3>2
  <2>5. buf'[SectorBytes + 4] = sum
    BY <1>8, <1>9, <2>1
  <2> QED
    BY <2>2, <2>3, <2>5
<1>14. CardPort'
  <2>1. Len(Message(request)) - 7 = SectorBytes + 5
    BY <1>5, ReadMessage, SizeType
  <2> QED
    BY <1>1, <1>3, <1>4, <1>7, <2>1 DEF CardPort
<1>15. Reads' /\ Writes'
  <2>1. Sectors(request)' = Sectors(request)
    BY <1>1, <1>4 DEF Sectors
  <2>2. \A k \in 8..Len(got') : got'[k] = buf'[k - 7]
    BY <1>1
  <2>3. Reads'
    BY <1>1, <1>7, <1>13, <2>1, <2>2 DEF Reads, sum
  <2>4. Writes'
    BY <1>1 DEF Writes
  <2> QED
    BY <2>3, <2>4
<1>16. /\ mcdst' \in 0..5 /\ rdwr' \in 0..2 /\ adrH' \in Byte /\ adrL' \in Byte
       /\ bufcount' \in 0..(BufSize - 1) /\ parp' \in 0..bufcount'
  <2>1. bufcount' \in 0..(BufSize - 1) /\ parp' \in 0..bufcount'
    BY <1>7, BufAssumption, SizeType
  <2> QED
    BY <1>7, <2>1 DEF IInv, TypeOK, PortTypes
<1> QED
  BY <1>2, <1>12, <1>14, <1>15, <1>16, CardStepKeeps

\* The seventh byte of a write is the first of the frame.
LEMMA WriteBeginKeeps ==
  ASSUME IInv, SendByte, request.op = "write", sent = 6,
         CardBegin(Message(request)[sent + 1])
  PROVE  IInv'
<1> DEFINE v == Message(request)[sent + 1]
<1>1. /\ request' = request /\ sent' = 7 /\ phase' = "wait"
  BY SendNotes
<1>2. CardStep(4) /\ 4 \in 1..5
  BY DEF CardBegin
<1>3. /\ padst = 0 /\ rdwr = 2 /\ adrH = request.frame \div 256
      /\ adrL = request.frame % 256
  BY DEF IInv, CardPort
<1>4. /\ evSio' = TRUE /\ rx' = TRUE
      /\ UNCHANGED <<Ctrl, padst, reply, McdData, iStat, buttons>>
  BY <1>2, CardStepKeeps
<1>5. request \in CardWrites /\ request.block \in Blocks
  BY RequestKinds DEF IInv, TypeOK, None
<1>6. v = request.block[1] /\ v \in Byte
  <2>1. 1 \in 1..SectorBytes
    BY SizeType
  <2>2. Message(request)[1 + 6] = request.block[1]
    BY <1>5, <2>1, WriteMessage
  <2>3. request.block[1] \in Byte
    BY <1>5, <2>1, BlockSeq
  <2> QED
    BY <2>2, <2>3
<1>7. /\ buf' = WriteBuffer(v) /\ bufcount' = SectorBytes + 3 /\ parp' = 0
      /\ mcdst' = 5 /\ rdwr' = 2 /\ adrH' = adrH /\ adrL' = adrL
  BY <1>3 DEF CardBegin
<1> HIDE DEF v
<1>8. buf' \in [0..(BufSize - 1) -> Byte] /\ buf'[1] = v
  <2>1. /\ adrL \in Byte /\ 92 \in Byte /\ 93 \in Byte /\ 71 \in Byte
        /\ buf \in [0..(BufSize - 1) -> Byte]
    BY DEF IInv, TypeOK, PortTypes, Byte
  <2>2. /\ 1 \in 0..(BufSize - 1) /\ SectorBytes + 1 # 1 /\ SectorBytes + 2 # 1
        /\ SectorBytes + 3 # 1
    BY BufAssumption, SizeType
  <2>3. buf' = [buf EXCEPT ![0] = adrL, ![1] = v, ![SectorBytes + 1] = 92,
                           ![SectorBytes + 2] = 93, ![SectorBytes + 3] = 71]
    BY <1>7 DEF WriteBuffer
  <2>4. buf' \in [0..(BufSize - 1) -> Byte]
    BY <1>6, <2>1, <2>3
  <2>5. buf'[1] = v
    BY <2>1, <2>2, <2>3
  <2> QED
    BY <2>4, <2>5
<1>9. CardPort'
  <2>1. Len(Message(request)) - 7 = SectorBytes + 3
    BY <1>5, WriteMessage, SizeType
  <2> QED
    BY <1>1, <1>3, <1>4, <1>7, <2>1 DEF CardPort
<1>10. Reads' /\ Writes'
  <2>1. ASSUME NEW k \in 1..SectorBytes, k <= sent' - 6
        PROVE  buf'[k] = request'.block[k]
    <3>1. k = 1
      BY <1>1, <2>1, SizeType
    <3> QED
      BY <1>1, <1>6, <1>8, <3>1
  <2>2. Writes'
    BY <2>1 DEF Writes
  <2>3. Reads'
    BY <1>1 DEF Reads
  <2> QED
    BY <2>2, <2>3
<1>11. /\ mcdst' \in 0..5 /\ rdwr' \in 0..2 /\ adrH' \in Byte /\ adrL' \in Byte
       /\ bufcount' \in 0..(BufSize - 1) /\ parp' \in 0..bufcount'
  <2>1. bufcount' \in 0..(BufSize - 1) /\ parp' \in 0..bufcount'
    BY <1>7, BufAssumption, SizeType
  <2> QED
    BY <1>7, <2>1 DEF IInv, TypeOK, PortTypes
<1> QED
  BY <1>2, <1>8, <1>9, <1>10, <1>11, CardStepKeeps

\* The bytes of the frame, the checksum and the end.
LEMMA CardDataKeeps ==
  ASSUME IInv, SendByte, request.op \in {"read", "write"}, sent >= 7,
         CardData(Message(request)[sent + 1])
  PROVE  IInv'
<1> DEFINE v == Message(request)[sent + 1]
<1>1. /\ request' = request /\ sent' = sent + 1 /\ phase' = "wait" /\ got' = got
      /\ sent \in Nat /\ sent < Len(Message(request)) /\ Len(got) = sent
  BY SendNotes
<1>2. CardStep(5) /\ 5 \in 1..5
  BY DEF CardData
<1>3. /\ padst = 0 /\ rdwr = IF request.op = "read" THEN 1 ELSE 2
      /\ adrH = request.frame \div 256
      /\ adrL = request.frame % 256
      /\ parp = sent - 7 /\ bufcount = Len(Message(request)) - 7
  BY <1>1 DEF IInv, CardPort
<1>4. /\ evSio' = TRUE /\ rx' = TRUE
      /\ UNCHANGED <<Ctrl, padst, reply, McdData, iStat, buttons>>
  BY <1>2, CardStepKeeps
<1>5. /\ parp' = sent - 6 /\ UNCHANGED <<bufcount, mcdst, rdwr, adrH, adrL>>
      /\ buf' = IF rdwr = 2 /\ parp' < SectorBytes
                  THEN [buf EXCEPT ![parp' + 1] = v] ELSE buf
      /\ mcdst = 5
  BY <1>1, <1>3 DEF CardData, CardStep
<1> HIDE DEF v
<1>6. CardPort'
  BY <1>1, <1>3, <1>4, <1>5 DEF CardPort
<1>7. /\ mcdst' \in 0..5 /\ rdwr' \in 0..2 /\ adrH' \in Byte /\ adrL' \in Byte
      /\ bufcount' \in 0..(BufSize - 1) /\ parp' \in 0..bufcount'
  <2>1. bufcount \in Nat /\ Len(Message(request)) \in Nat
    BY Counts DEF IInv, TypeOK
  <2>2. parp' \in 0..bufcount'
    BY <1>1, <1>3, <1>5, <2>1
  <2> QED
    BY <1>5, <2>2 DEF IInv, TypeOK, PortTypes
<1>8. CASE request.op = "read"
  <2>1. buf' = buf /\ Sectors(request)' = Sectors(request)
    BY <1>1, <1>3, <1>4, <1>5, <1>8 DEF Sectors
  <2>2. Reads' /\ Writes'
    <3>1. Reads'
      BY <1>1, <1>5, <1>8, <2>1 DEF IInv, Reads
    <3>2. Writes'
      BY <1>1, <1>8 DEF Writes
    <3> QED
      BY <3>1, <3>2
  <2>3. buf' \in [0..(BufSize - 1) -> Byte]
    BY <2>1 DEF IInv, TypeOK, PortTypes
  <2> QED
    BY <1>2, <1>6, <1>7, <2>2, <2>3, CardStepKeeps
<1>9. CASE request.op = "write"
  <2>1. request \in CardWrites /\ request.block \in Blocks
    BY <1>9, RequestKinds DEF IInv, TypeOK, None
  <2>2. sent - 5 \in 1..SectorBytes => v = request.block[sent - 5] /\ v \in Byte
    <3> SUFFICES ASSUME sent - 5 \in 1..SectorBytes
                 PROVE  v = request.block[sent - 5] /\ v \in Byte
      OBVIOUS
    <3>1. Message(request)[(sent - 5) + 6] = request.block[sent - 5]
      BY <2>1, WriteMessage
    <3>2. (sent - 5) + 6 = sent + 1
      BY <1>1
    <3>3. request.block[sent - 5] \in Byte
      BY <2>1, BlockSeq
    <3> QED
      BY <3>1, <3>2, <3>3 DEF v
  <2>3. buf \in [0..(BufSize - 1) -> Byte]
    BY DEF IInv, TypeOK, PortTypes
  <2>4. ASSUME NEW k \in 1..SectorBytes, k <= sent - 5
        PROVE  buf'[k] = request.block[k]
    <3>1. k # sent - 5 => buf[k] = request.block[k]
      <4>1. k # sent - 5 => k <= sent - 6
        BY <1>1, <2>4, SizeType
      <4> QED
        BY <1>9, <4>1 DEF IInv, Writes
    <3>2. k \in 0..(BufSize - 1)
      BY BufAssumption, SizeType
    <3>3. CASE sent - 6 < SectorBytes
      <4>1. buf' = [buf EXCEPT ![sent - 5] = v]
        BY <1>1, <1>3, <1>5, <1>9, <3>3
      <4>2. k = sent - 5 => buf'[k] = v
        BY <2>3, <3>2, <4>1
      <4>3. k # sent - 5 => buf'[k] = buf[k]
        BY <2>3, <3>2, <4>1
      <4> QED
        BY <2>2, <3>1, <4>2, <4>3
    <3>4. CASE ~(sent - 6 < SectorBytes)
      <4>1. buf' = buf
        BY <1>1, <1>5, <3>4
      <4>2. k # sent - 5
        BY <1>1, <3>4, SizeType
      <4> QED
        BY <3>1, <4>1, <4>2
    <3> QED
      BY <3>3, <3>4
  <2>5. buf' \in [0..(BufSize - 1) -> Byte]
    <3>1. CASE sent - 6 < SectorBytes
      <4>1. sent - 5 \in 1..SectorBytes
        BY <1>1, <3>1, SizeType
      <4>2. buf' = [buf EXCEPT ![sent - 5] = v]
        BY <1>1, <1>3, <1>5, <1>9, <3>1
      <4> QED
        BY <2>2, <2>3, <4>1, <4>2
    <3>2. CASE ~(sent - 6 < SectorBytes)
      BY <1>1, <1>5, <2>3, <3>2
    <3> QED
      BY <3>1, <3>2
  <2>6. Writes'
    <3>1. sent' - 6 = sent - 5
      BY <1>1
    <3> QED
      BY <1>1, <2>4, <3>1 DEF Writes
  <2>7. Reads'
    BY <1>1, <1>9 DEF Reads
  <2> QED
    BY <1>2, <1>6, <1>7, <2>5, <2>6, <2>7, CardStepKeeps
<1> QED
  BY <1>8, <1>9

\* Every byte the guest sends keeps the invariant.
LEMMA SendKeeps ==
  ASSUME IInv, SendByte
  PROVE  IInv'
<1>1. CASE request.op = "pad"
  BY <1>1, PadSends, StartPadKeeps, PadCommandKeeps, PadByteKeeps
<1>2. CASE request.op \in {"read", "write"}
  BY <1>2, CardSends, StartCardKeeps, CardCommandKeeps, CardAddressKeeps,
     ReadBeginKeeps, WriteBeginKeeps, CardDataKeeps
<1>3. request.op # "none"
  BY SendNotes, Counts DEF IInv, Message
<1> QED
  BY <1>1, <1>2, <1>3, Counts DEF IInv

------------------------------------------------------------------------------
(* The invariant and the other steps *)

\* The length of a transfer.
LEMMA MessageLength ==
  ASSUME NEW r \in Pads \cup CardReads \cup CardWrites
  PROVE  Len(Message(r)) \in Nat /\ Len(Message(r)) >= 5
<1>1. CASE r \in Pads
  <2>1. r.op = "pad"
    BY <1>1 DEF Pads
  <2>2. Len(Message(r)) = 5
    BY <2>1, PadMessage
  <2> QED
    BY <2>2
<1>2. CASE r \in CardReads
  BY <1>2, ReadMessage, SizeType
<1>3. CASE r \in CardWrites
  BY <1>3, WriteMessage, SizeType
<1> QED
  BY <1>1, <1>2, <1>3

\* A transfer begins on a quiet port.
LEMMA BeginKeeps ==
  ASSUME IInv, NEW r \in Pads \cup CardReads \cup CardWrites, Begin(r)
  PROVE  IInv'
<1>1. /\ phase = "idle" /\ ~iStat
      /\ Ctrl' = r.slot /\ request' = r /\ phase' = "send" /\ sent' = 0
      /\ got' = <<>> /\ held' = <<>>
      /\ UNCHANGED <<rx, buf, parp, bufcount, padst, mcdst, rdwr, adrH, adrL,
                     evSio, iStat, McdData, buttons, reply>>
  BY DEF Begin, WriteCtrl
<1>2. padst = 0 /\ mcdst = 0 /\ ~evSio
  BY <1>1 DEF IInv, Turns
<1>3. r.slot \in Slots /\ r.op \in {"pad", "read", "write"} /\ r # None
  BY DEF Pads, CardReads, CardWrites, None
<1>4. Len(got') = 0 /\ got' \in Seq(Byte)
  BY <1>1
<1>5. TypeOK'
  <2>1. PortTypes'
    BY <1>1, <1>3 DEF IInv, TypeOK, PortTypes, Slots
  <2>2. sent' \in 0..Len(Message(request'))
    BY <1>1, MessageLength
  <2> QED
    BY <1>1, <2>1, <2>2 DEF IInv, TypeOK
<1>6. Turns'
  <2>1. sent' < Len(Message(request'))
    BY <1>1, MessageLength
  <2> QED
    BY <1>1, <1>2, <1>3, <1>4, <2>1 DEF Turns, Unread
<1>7. PadPort' /\ PadReply' /\ PadAbsent'
  <2>1. PadPort'
    BY <1>1, <1>2 DEF PadPort
  <2>2. PadReply'
    BY <1>1 DEF PadReply
  <2>3. PadAbsent'
    BY <1>1, <1>4 DEF PadAbsent, Unread
  <2> QED
    BY <2>1, <2>2, <2>3
<1>8. CardPort' /\ Reads' /\ Writes'
  <2>1. CardPort'
    BY <1>1, <1>2 DEF CardPort
  <2>2. Reads'
    BY <1>1 DEF Reads
  <2>3. Writes'
    BY <1>1, SizeType DEF Writes
  <2> QED
    BY <2>1, <2>2, <2>3
<1>9. PadSnapshot'
  BY <1>1 DEF PadSnapshot
<1> QED
  BY <1>1, <1>4, <1>5, <1>6, <1>7, <1>8, <1>9 DEF IInv

\* Interrupts and buttons: a step that leaves the transfer alone.
LEMMA AsideKeeps ==
  ASSUME IInv, UNCHANGED <<Ctrl, rx, buf, parp, bufcount, padst, mcdst, rdwr,
                           adrH, adrL, McdData, reply>>,
         UNCHANGED <<request, sent, got, held>>,
         evSio' \in BOOLEAN, iStat' \in BOOLEAN, buttons' \in Buttons,
         \/ phase' = phase
         \/ phase = "wait" /\ phase' = "receive",
         phase' \in {"send", "receive"} => ~evSio' /\ ~iStat',
         phase' = "wait" => evSio' # iStat',
         phase' = "idle" => ~evSio'
  PROVE  IInv'
<1>1. TypeOK'
  BY DEF IInv, TypeOK, PortTypes
<1>2. Turns'
  BY DEF IInv, Turns, Unread
<1>3. PadPort' /\ PadAbsent' /\ PadReply'
  <2>1. PadPort'
    BY DEF IInv, PadPort
  <2>2. PadAbsent'
    BY DEF IInv, PadAbsent, Unread
  <2>3. PadReply'
    BY DEF IInv, PadReply, Unread
  <2> QED
    BY <2>1, <2>2, <2>3
<1>4. CardPort'
  BY DEF IInv, CardPort
<1>5. Reads' /\ Writes'
  <2>1. Reads'
    BY DEF IInv, Reads, Sectors
  <2>2. Writes'
    BY DEF IInv, Writes
  <2> QED
    BY <2>1, <2>2
<1>6. PadSnapshot'
  BY DEF IInv, PadSnapshot
<1> QED
  BY <1>1, <1>2, <1>3, <1>4, <1>5, <1>6 DEF IInv

LEMMA TakeInterruptKeeps ==
  ASSUME IInv, TakeInterrupt
  PROVE  IInv'
<1>1. /\ phase = "wait" /\ phase' = "receive" /\ iStat /\ iStat' = FALSE
      /\ evSio' = evSio /\ buttons' = buttons
      /\ UNCHANGED <<Ctrl, rx, buf, parp, bufcount, padst, mcdst, rdwr,
                     adrH, adrL, McdData, reply>>
      /\ UNCHANGED <<request, sent, got, held>>
  BY DEF TakeInterrupt, ClearIStat, transferVars, padVars, cardVars
<1>2. evSio # iStat /\ evSio \in BOOLEAN /\ iStat \in BOOLEAN /\ buttons \in Buttons
  BY <1>1 DEF IInv, Turns, TypeOK, PortTypes
<1>3. ~evSio' /\ ~iStat' /\ evSio' \in BOOLEAN /\ iStat' \in BOOLEAN
      /\ buttons' \in Buttons
  BY <1>1, <1>2
<1> QED
  BY <1>1, <1>3, AsideKeeps

LEMMA SioInterruptKeeps ==
  ASSUME IInv, Port
  PROVE  IInv'
<1>1. /\ evSio /\ evSio' = FALSE /\ iStat' = TRUE /\ buttons' = buttons
      /\ UNCHANGED <<Ctrl, rx, buf, parp, bufcount, padst, mcdst, rdwr,
                     adrH, adrL, McdData, reply>>
      /\ UNCHANGED <<request, phase, sent, got, held>>
  BY DEF Port, SioInterrupt, transferVars, padVars, cardVars, driverVars
<1>2. phase = "wait" /\ buttons \in Buttons
  BY <1>1 DEF IInv, Turns, TypeOK, PortTypes
<1>3. evSio' \in BOOLEAN /\ iStat' \in BOOLEAN /\ evSio' # iStat' /\ phase' = "wait"
      /\ buttons' \in Buttons
  BY <1>1, <1>2
<1> QED
  BY <1>1, <1>3, AsideKeeps

LEMMA DropLateKeeps ==
  ASSUME IInv, DropLate
  PROVE  IInv'
<1>1. /\ phase = "idle" /\ iStat' = FALSE /\ evSio' = evSio /\ buttons' = buttons
      /\ UNCHANGED <<Ctrl, rx, buf, parp, bufcount, padst, mcdst, rdwr,
                     adrH, adrL, McdData, reply>>
      /\ UNCHANGED <<request, phase, sent, got, held>>
  BY DEF DropLate, ClearIStat, transferVars, padVars, cardVars, driverVars
<1>2. ~evSio /\ evSio \in BOOLEAN /\ buttons \in Buttons
  BY <1>1 DEF IInv, Turns, TypeOK, PortTypes
<1>3. ~evSio' /\ evSio' \in BOOLEAN /\ iStat' \in BOOLEAN /\ phase' = "idle"
      /\ buttons' \in Buttons
  BY <1>1, <1>2
<1> QED
  BY <1>1, <1>3, AsideKeeps

LEMMA PressKeeps ==
  ASSUME IInv, Player
  PROVE  IInv'
<1>1. /\ buttons' \in Buttons
      /\ UNCHANGED <<evSio, iStat, phase>>
      /\ UNCHANGED <<Ctrl, rx, buf, parp, bufcount, padst, mcdst, rdwr,
                     adrH, adrL, McdData, reply>>
      /\ UNCHANGED <<request, sent, got, held>>
  BY DEF Player, Press, transferVars, padVars, cardVars, driverVars
<1>2. /\ evSio' \in BOOLEAN /\ iStat' \in BOOLEAN
      /\ phase' \in {"send", "receive"} => ~evSio' /\ ~iStat'
      /\ phase' = "wait" => evSio' # iStat'
      /\ phase' = "idle" => ~evSio'
  BY <1>1 DEF IInv, Turns, TypeOK, PortTypes
<1> QED
  BY <1>1, <1>2, AsideKeeps

LEMMA StutterKeeps ==
  ASSUME IInv, UNCHANGED allVars
  PROVE  IInv'
<1>1. /\ UNCHANGED <<evSio, iStat, phase, buttons>>
      /\ UNCHANGED <<Ctrl, rx, buf, parp, bufcount, padst, mcdst, rdwr,
                     adrH, adrL, McdData, reply>>
      /\ UNCHANGED <<request, sent, got, held>>
  BY DEF allVars, vars, transferVars, padVars, cardVars, driverVars
<1>2. /\ evSio' \in BOOLEAN /\ iStat' \in BOOLEAN /\ buttons' \in Buttons
      /\ phase' \in {"send", "receive"} => ~evSio' /\ ~iStat'
      /\ phase' = "wait" => evSio' # iStat'
      /\ phase' = "idle" => ~evSio'
  BY <1>1 DEF IInv, Turns, TypeOK, PortTypes
<1> QED
  BY <1>1, <1>2, AsideKeeps

\* The end of a transfer leaves a quiet port, however it came.
LEMMA EndKeeps ==
  ASSUME IInv, End, PadSnapshot', reply' = reply,
         padst' = 0, mcdst' = 0, ~evSio', evSio' \in BOOLEAN, rx' \in BOOLEAN,
         Ctrl' \in 0..2, McdData' \in [Slots -> [Frames -> Blocks]],
         UNCHANGED <<buf, bufcount, rdwr, adrH, adrL, iStat, buttons>>,
         parp' = 0 \/ parp' = parp
  PROVE  IInv'
<1>1. /\ request' = None /\ phase' = "idle" /\ sent' = 0 /\ got' = <<>>
  BY DEF End
<1>2. None.op = "none"
  BY DEF None
<1>3. Len(Message(None)) = 0
  BY <1>2 DEF Message
<1>4. TypeOK'
  <2>1. parp' \in 0..bufcount'
    BY DEF IInv, TypeOK
  <2>2. PortTypes'
    BY DEF IInv, TypeOK, PortTypes
  <2>3. sent' \in 0..Len(Message(request'))
    BY <1>1, <1>3
  <2>4. /\ bufcount' \in 0..(BufSize - 1)
        /\ request' \in {None} \cup Pads \cup CardReads \cup CardWrites
        /\ phase' \in {"idle", "send", "wait", "receive"}
    BY <1>1 DEF IInv, TypeOK
  <2> QED
    BY <2>1, <2>2, <2>3, <2>4 DEF TypeOK
<1>5. Turns'
  BY <1>1 DEF Turns, Unread
<1>6. PadPort' /\ PadReply' /\ PadAbsent'
  BY <1>1, <1>2, CardAside
<1>7. CardPort' /\ Reads' /\ Writes'
  BY <1>1, <1>2 DEF CardPort, Reads, Writes
<1>8. got' \in Seq(Byte) /\ reply' \in Seq(Byte)
  BY <1>1 DEF IInv
<1> QED
  BY <1>4, <1>5, <1>6, <1>7, <1>8 DEF IInv

LEMMA GiveUpKeeps ==
  ASSUME IInv, GiveUp
  PROVE  IInv'
<1>1. /\ End /\ padst' = 0 /\ mcdst' = 0 /\ parp' = 0 /\ rx' = FALSE
      /\ evSio' = FALSE /\ Ctrl' = 0
      /\ UNCHANGED <<buf, bufcount, rdwr, adrH, adrL, McdData, iStat, buttons,
                     reply, held>>
  BY DEF GiveUp, WriteCtrl
<1>2. PadSnapshot' /\ McdData' \in [Slots -> [Frames -> Blocks]]
  BY <1>1 DEF IInv, PadSnapshot, TypeOK, PortTypes
<1>3. /\ rx' \in BOOLEAN /\ evSio' \in BOOLEAN /\ ~evSio' /\ Ctrl' \in 0..2
      /\ parp' = 0 \/ parp' = parp
  <2>1. Ctrl' \in 0..2
    BY <1>1
  <2> QED
    BY <1>1, <2>1
<1>4. UNCHANGED <<buf, bufcount, rdwr, adrH, adrL, iStat, buttons>>
  BY <1>1
<1> QED
  BY <1>1, <1>2, <1>3, <1>4, EndKeeps

\* sioRead8 at the last byte of a buffer.
LEMMA LastByte ==
  ASSUME Read8, AtLast, rx = TRUE
  PROVE  /\ mcdst = 1 => rx' = TRUE /\ mcdst' = 2
         /\ mcdst \in {0, 5} => rx' = FALSE /\ mcdst' = 0
         /\ padst = 0 => padst' = 0
         /\ mcdst # 5 \/ rdwr # 2 => McdData' = McdData
         /\ mcdst = 5 /\ rdwr = 2 /\ Ctrl \in Slots => McdData' = Commit
<1>1. AtLast <=> TRUE
  OBVIOUS
<1>3. /\ rx' = (mcdst = 1)
      /\ mcdst' = IF mcdst = 5 THEN 0 ELSE IF mcdst = 1 THEN 2 ELSE mcdst
      /\ McdData' = IF mcdst = 5 /\ rdwr = 2 /\ Ctrl \in Slots
                      THEN Commit ELSE McdData
      /\ padst' = IF padst = 2 THEN 0 ELSE padst
  <2>1. rx' = (mcdst = 1)
    BY DEF Read8
  <2>2. mcdst' = IF mcdst = 5 THEN 0 ELSE IF mcdst = 1 THEN 2 ELSE mcdst
    BY DEF Read8
  <2>3. McdData' = IF mcdst = 5 /\ rdwr = 2 /\ Ctrl \in Slots THEN Commit ELSE McdData
    BY DEF Read8
  <2>4. padst' = IF padst = 2 THEN 0 ELSE padst
    BY DEF Read8
  <2> QED
    BY <2>1, <2>2, <2>3, <2>4
<1>4. mcdst = 1 => rx' = TRUE /\ mcdst' = 2
  <2> HAVE mcdst = 1
  <2>1. rx' = TRUE
    BY <1>3
  <2>2. mcdst' = 2
    BY <1>3
  <2> QED
    BY <2>1, <2>2
<1>5. mcdst \in {0, 5} => rx' = FALSE /\ mcdst' = 0
  <2> HAVE mcdst \in {0, 5}
  <2>3. mcdst # 1
    OBVIOUS
  <2>1. rx' = FALSE
    BY <1>3, <2>3
  <2>2. mcdst' = 0
    BY <1>3
  <2> QED
    BY <2>1, <2>2
<1>6. padst = 0 => padst' = 0
  BY <1>3
<1> QED
  BY <1>3, <1>4, <1>5, <1>6

\* The byte the guest reads is in the buffer.
LEMMA ReceivedByte ==
  ASSUME IInv, phase = "receive"
  PROVE  Received = buf[parp] /\ Received \in Byte
<1>1. rx = TRUE
  BY DEF IInv, Turns, Unread, TypeOK, PortTypes
<1>2. parp \in 0..(BufSize - 1)
  BY BufAssumption DEF IInv, TypeOK
<1>3. buf[parp] \in Byte
  BY <1>2 DEF IInv, TypeOK, PortTypes
<1> QED
  BY <1>1, <1>3 DEF Received

\* What is left to show of a byte that is read.
LEMMA ReceiveNotes ==
  ASSUME IInv, ReceiveByte
  PROVE  /\ UNCHANGED <<request, sent, held, Ctrl, buf, parp, bufcount, rdwr,
                        adrH, adrL, reply, evSio, iStat, buttons>>
         /\ phase = "receive" /\ phase' = "send" /\ rx /\ request # None
         /\ sent \in Nat /\ sent > 0 /\ sent < Len(Message(request))
         /\ Len(got) = sent - 1 /\ Len(got') = sent /\ got' \in Seq(Byte)
         /\ \A k \in 1..(sent - 1) : got'[k] = got[k]
         /\ got'[sent] = buf[parp]
<1>1. /\ UNCHANGED <<request, sent, held, Ctrl, buf, parp, bufcount, rdwr,
                     adrH, adrL, reply, evSio, iStat, buttons>>
      /\ phase = "receive" /\ phase' = "send" /\ got' = Append(got, Received)
      /\ ~Finished
  BY DEF ReceiveByte, Read8
<1>2. /\ sent \in Nat /\ sent > 0 /\ Len(got) = sent - 1 /\ request # None /\ rx
  BY <1>1, Counts DEF IInv, Turns, Unread
<1>3. sent < Len(Message(request))
  BY <1>1, Counts DEF IInv, Finished
<1>4. got \in Seq(Byte) /\ Received = buf[parp] /\ Received \in Byte
  BY <1>1, ReceivedByte DEF IInv
<1>5. /\ got' \in Seq(Byte) /\ Len(got') = Len(got) + 1
      /\ \A k \in 1..Len(got) : got'[k] = got[k]
      /\ got'[Len(got) + 1] = Received
  BY <1>1, <1>4, AppendProperties
<1> QED
  BY <1>1, <1>2, <1>3, <1>4, <1>5

LEMMA ReceiveTurns ==
  ASSUME IInv, ReceiveByte, rx' = TRUE, McdData' = McdData,
         padst' \in 0..2, mcdst' \in 0..5
  PROVE  /\ TypeOK' /\ got' \in Seq(Byte) /\ reply' \in Seq(Byte)
         /\ Turns' /\ PadSnapshot'
<1>1. TypeOK'
  BY ReceiveNotes DEF IInv, TypeOK, PortTypes
<1>2. Turns'
  <2>1. ~evSio' /\ ~iStat' /\ Ctrl' = request'.slot
    BY ReceiveNotes DEF IInv, Turns
  <2> QED
    BY <2>1, ReceiveNotes DEF Turns, Unread
<1>3. PadSnapshot'
  BY ReceiveNotes DEF IInv, PadSnapshot
<1>4. reply' \in Seq(Byte)
  BY ReceiveNotes DEF IInv
<1> QED
  BY <1>1, <1>2, <1>3, <1>4, ReceiveNotes

\* A byte of a controller is never the last one here.
LEMMA PadReceiveKeeps ==
  ASSUME IInv, ReceiveByte, request.op = "pad"
  PROVE  IInv' /\ McdData' = McdData
<1>1. sent \in 1..4
  <2>1. Len(Message(request)) = 5
    BY PadMessage
  <2> QED
    BY <2>1, ReceiveNotes
<1>2. request.slot \in Slots
  BY RequestKinds DEF IInv, TypeOK, None
<1>3. /\ parp = sent - 1 /\ mcdst = 0
      /\ sent = 1 => bufcount = 2
      /\ sent > 1 => bufcount \in {4, 32}
  BY <1>1 DEF IInv, PadPort
<1>4. ~AtLast
  <2>1. parp # bufcount
    BY <1>1, <1>3
  <2> QED
    BY <2>1 DEF AtLast
<1>5. rx' = TRUE /\ UNCHANGED <<mcdst, McdData, padst>>
  BY <1>4, ReceiveNotes DEF ReceiveByte, Read8, IInv, TypeOK, PortTypes
<1>6. PadPort'
  BY <1>5, ReceiveNotes DEF IInv, PadPort
<1>7. PadReply'
  <2> SUFFICES ASSUME request.slot = 1 PROVE PadReply'
    BY ReceiveNotes DEF PadReply
  <2>1. PICK b \in Buttons :
          /\ reply = SubSeq(PadBytes(b), sent, 4)
          /\ sent > 1 => buf[sent - 1] = PadBytes(b)[sent - 1]
          /\ \A k \in 2..Len(got) : got[k] = PadBytes(b)[k - 1]
    BY <1>1, ReceiveNotes DEF IInv, PadReply, Unread
  <2>2. ASSUME NEW k \in 2..Len(got') PROVE got'[k] = PadBytes(b)[k - 1]
    <3>1. k \in 2..sent
      BY <2>2, ReceiveNotes
    <3>2. CASE k = sent
      <4>1. sent > 1 /\ got'[sent] = buf[sent - 1]
        BY <1>3, <3>1, <3>2, ReceiveNotes
      <4> QED
        BY <2>1, <3>2, <4>1
    <3>3. CASE k # sent
      <4>1. k \in 2..Len(got) /\ k \in 1..(sent - 1)
        BY <1>1, <3>1, <3>3, ReceiveNotes
      <4>2. got'[k] = got[k]
        BY <4>1, ReceiveNotes
      <4> QED
        BY <2>1, <4>1, <4>2
    <3> QED
      BY <3>2, <3>3
  <2> QED
    BY <2>1, <2>2, ReceiveNotes DEF PadReply, Unread
<1>8. PadAbsent'
  <2> SUFFICES ASSUME request.slot = 2 PROVE PadAbsent'
    BY ReceiveNotes DEF PadAbsent
  <2>1. sent <= 2 /\ (sent = 2 => buf[1] = 255)
    BY ReceiveNotes DEF IInv, PadAbsent, Unread
  <2>2. Len(got') = 2 => got'[2] = 255
    <3> HAVE Len(got') = 2
    <3>1. sent = 2 /\ parp = 1
      BY <1>3, ReceiveNotes
    <3> QED
      BY <2>1, <3>1, ReceiveNotes
  <2> QED
    BY <2>1, <2>2, ReceiveNotes DEF PadAbsent, Unread
<1>9. /\ TypeOK' /\ got' \in Seq(Byte) /\ reply' \in Seq(Byte)
      /\ Turns' /\ PadSnapshot'
  <2>1. padst' \in 0..2 /\ mcdst' \in 0..5
    BY <1>5 DEF IInv, TypeOK, PortTypes
  <2> QED
    BY <1>5, <2>1, ReceiveTurns
<1>10. request'.op = "pad"
  BY ReceiveNotes
<1> QED
  BY <1>5, <1>6, <1>7, <1>8, <1>9, <1>10, PadAside DEF IInv

\* A byte of a card: the fourth ends its greeting.
LEMMA CardReceiveKeeps ==
  ASSUME IInv, ReceiveByte, request.op \in {"read", "write"}
  PROVE  IInv' /\ McdData' = McdData
<1>1. sent \in Nat /\ sent > 0 /\ Len(Message(request)) \in Nat
      /\ sent < Len(Message(request)) /\ rx
  BY ReceiveNotes, Counts DEF IInv
<1>2. /\ padst = 0
      /\ sent \in 1..4 => mcdst = 1 /\ parp = sent - 1 /\ bufcount = 3
      /\ sent \in 5..6 => mcdst = sent - 2 /\ parp = 0 /\ bufcount = 1
      /\ sent >= 7 => mcdst = 5 /\ parp = sent - 7
                      /\ bufcount = Len(Message(request)) - 7
  BY ReceiveNotes DEF IInv, CardPort
<1>3. AtLast <=> sent = 4
  <2>1. CASE sent \in 1..4
    BY <1>1, <1>2, <2>1 DEF AtLast
  <2>2. CASE sent \in 5..6
    BY <1>1, <1>2, <2>2 DEF AtLast
  <2>3. CASE sent >= 7
    BY <1>1, <1>2, <2>3 DEF AtLast
  <2> QED
    BY <1>1, <2>1, <2>2, <2>3
<1>4. /\ rx' = TRUE /\ McdData' = McdData /\ padst' = 0
      /\ mcdst' = IF sent = 4 THEN 2 ELSE mcdst
  <2>1. CASE sent = 4
    <3>1. mcdst = 1 /\ AtLast
      BY <1>2, <1>3, <2>1
    <3>2. rx = TRUE
      BY <1>1 DEF IInv, TypeOK, PortTypes
    <3>3. rx' = TRUE /\ mcdst' = 2 /\ padst' = 0 /\ McdData' = McdData
      BY <1>2, <3>1, <3>2, LastByte DEF ReceiveByte
    <3> QED
      BY <2>1, <3>3
  <2>2. CASE sent # 4
    <3>1. ~AtLast
      BY <1>3, <2>2
    <3> QED
      BY <1>1, <1>2, <2>2, <3>1 DEF ReceiveByte, Read8
  <2> QED
    BY <2>1, <2>2
<1>5. CardPort'
  <2>1. UNCHANGED <<request, sent, parp, bufcount, rdwr, adrH, adrL>>
        /\ phase' = "send" /\ phase = "receive"
    BY ReceiveNotes
  <2>2. /\ sent \in 1..4 => mcdst' = IF sent = 4 THEN 2 ELSE 1
        /\ sent >= 5 => mcdst' = mcdst
    <3>1. CASE sent = 4
      BY <1>4, <3>1
    <3>2. sent # 4 => mcdst' = mcdst
      BY <1>4
    <3>3. sent \in 1..4 => mcdst = 1
      BY <1>2
    <3> QED
      BY <1>1, <3>1, <3>2, <3>3
  <2>3. /\ sent = 5 => mcdst = 3
        /\ sent = 6 => mcdst = 4
        /\ sent >= 7 => mcdst = 5
    BY <1>1, <1>2
  <2>4. /\ sent \in 1..4 => parp = sent - 1 /\ bufcount = 3
        /\ sent \in 5..6 => parp = 0 /\ bufcount = 1
        /\ sent >= 7 => parp = sent - 7 /\ bufcount = Len(Message(request)) - 7
        /\ sent = 1 => rdwr = 0
        /\ sent > 1 => rdwr = IF request.op = "read" THEN 1 ELSE 2
        /\ sent >= 5 => adrH = request.frame \div 256
        /\ sent >= 6 => adrL = request.frame % 256
    BY DEF IInv, CardPort
  <2>5. /\ padst' = 0
        /\ sent = 5 => mcdst' = 3
        /\ sent = 6 => mcdst' = 4
        /\ sent >= 7 => mcdst' = 5
    BY <1>1, <1>4, <2>2, <2>3
  <2> QED
    BY <1>1, <2>1, <2>2, <2>4, <2>5 DEF CardPort
<1>6. Reads'
  <2> SUFFICES ASSUME request.op = "read", sent >= 7 PROVE Reads'
    BY ReceiveNotes DEF Reads
  <2>1. Sectors(request)' = Sectors(request)
    BY <1>4, ReceiveNotes DEF Sectors
  <2>2. /\ buf[2] = adrH /\ buf[3] = adrL
        /\ \A k \in 1..SectorBytes : buf[k + 3] = Sectors(request)[k]
        /\ buf[SectorBytes + 4] = Checksum(adrH, adrL, Sectors(request))
        /\ \A k \in 8..Len(got) : got[k] = buf[k - 7]
    BY DEF IInv, Reads
  <2>3. ASSUME NEW k \in 8..Len(got') PROVE got'[k] = buf[k - 7]
    <3>1. k \in 8..sent
      BY <2>3, ReceiveNotes
    <3>2. CASE k = sent
      BY <1>2, <3>2, ReceiveNotes
    <3>3. CASE k # sent
      <4>1. k \in 8..Len(got) /\ k \in 1..(sent - 1)
        BY <1>1, <3>1, <3>3, ReceiveNotes
      <4>2. got'[k] = got[k]
        BY <4>1, ReceiveNotes
      <4> QED
        BY <2>2, <4>1, <4>2
    <3> QED
      BY <3>2, <3>3
  <2> QED
    BY <2>1, <2>2, <2>3, ReceiveNotes DEF Reads
<1>7. Writes'
  BY ReceiveNotes DEF IInv, Writes
<1>8. /\ TypeOK' /\ got' \in Seq(Byte) /\ reply' \in Seq(Byte)
      /\ Turns' /\ PadSnapshot'
  <2>1. padst' \in 0..2 /\ mcdst' \in 0..5
    BY <1>4 DEF IInv, TypeOK, PortTypes
  <2> QED
    BY <1>4, <2>1, ReceiveTurns
<1>9. request'.op \in {"none", "read", "write"}
  BY ReceiveNotes
<1> QED
  BY <1>4, <1>5, <1>6, <1>7, <1>8, <1>9, CardAside DEF IInv

LEMMA ReceiveKeeps ==
  ASSUME IInv, ReceiveByte
  PROVE  IInv' /\ McdData' = McdData
<1>1. request.op # "none"
  BY ReceiveNotes, Counts DEF IInv
<1> QED
  BY <1>1, Counts, PadReceiveKeeps, CardReceiveKeeps DEF IInv

\* The last byte finds the port at the end of its buffer.
LEMMA LastNotes ==
  ASSUME IInv, ReceiveLast
  PROVE  /\ phase = "receive" /\ End /\ sent = Len(Message(request)) /\ sent \in Nat
         /\ request.op \in {"pad", "read", "write"}
         /\ AtLast /\ padst = 0 /\ rx' = FALSE
         /\ padst' = 0 /\ mcdst' = 0
         /\ request.op = "pad" => mcdst = 0 /\ request.slot = 1 /\ parp = 4
         /\ request.op # "pad" => mcdst = 5 /\ sent >= 7 /\ held' = <<>>
         /\ Len(got) = sent - 1
         /\ UNCHANGED <<Ctrl, buf, parp, bufcount, rdwr, adrH, adrL, reply, evSio,
                        iStat, buttons>>
<1>1. /\ phase = "receive" /\ End /\ sent = Len(Message(request)) /\ Read8
      /\ held' = IF request.op = "pad" THEN <<got[4], Received>> ELSE <<>>
  BY DEF ReceiveLast, Finished
<1>2. /\ sent \in Nat /\ sent > 0 /\ rx /\ Len(got) = sent - 1
  BY <1>1, Counts DEF IInv, Turns, Unread
<1>3. request.op \in {"pad", "read", "write"}
  BY <1>2, Counts DEF IInv
<1>4. /\ AtLast /\ padst = 0
      /\ request.op = "pad" => mcdst = 0 /\ request.slot = 1 /\ parp = 4
      /\ request.op # "pad" => mcdst = 5 /\ sent >= 7
  <2>1. CASE request.op = "pad"
    <3>1. sent = 5
      BY <1>1, <2>1, PadMessage
    <3>2. request.slot = 1
      <4>1. request.slot \in Slots
        BY <1>3, RequestKinds DEF IInv, TypeOK, None
      <4>2. request.slot # 2
        BY <2>1, <3>1 DEF IInv, PadAbsent
      <4> QED
        BY <4>1, <4>2 DEF Slots
    <3>3. padst = 0 /\ parp = 4 /\ bufcount = 4 /\ mcdst = 0
      BY <2>1, <3>1, <3>2 DEF IInv, PadPort
    <3> QED
      BY <1>2, <2>1, <3>2, <3>3 DEF AtLast
  <2>2. CASE request.op \in {"read", "write"}
    <3>1. sent >= 7
      <4>1. request \in CardReads \/ request \in CardWrites
        BY <2>2, RequestKinds DEF IInv, TypeOK
      <4>2. CASE request \in CardReads
        BY <1>1, <4>2, ReadMessage, SizeType
      <4>3. CASE request \in CardWrites
        BY <1>1, <4>3, WriteMessage, SizeType
      <4> QED
        BY <4>1, <4>2, <4>3
    <3>2. padst = 0 /\ mcdst = 5 /\ parp = sent - 7 /\ bufcount = sent - 7
      BY <1>1, <2>2, <3>1 DEF IInv, CardPort
    <3> QED
      BY <1>2, <2>2, <3>1, <3>2 DEF AtLast
  <2> QED
    BY <1>3, <2>1, <2>2
<1>5. rx' = FALSE /\ mcdst' = 0 /\ padst' = 0
  <2>1. mcdst \in {0, 5} /\ AtLast /\ padst = 0
    BY <1>4
  <2>2. rx = TRUE
    BY <1>2 DEF IInv, TypeOK, PortTypes
  <2> QED
    BY <1>1, <2>1, <2>2, LastByte
<1> QED
  BY <1>1, <1>2, <1>3, <1>4, <1>5 DEF Read8

\* The frame that reaches the card is the block that was sent.
LEMMA CommitWhole ==
  ASSUME IInv, ReceiveLast
  PROVE  McdData' = IF request.op = "write"
                      THEN [McdData EXCEPT ![request.slot][request.frame]
                              = request.block]
                      ELSE McdData
<1>1. Read8 /\ request.op \in {"pad", "read", "write"} /\ rx = TRUE
  <2>1. rx
    BY LastNotes DEF AtLast
  <2>2. rx = TRUE
    BY <2>1 DEF IInv, TypeOK, PortTypes
  <2> QED
    BY <2>2, LastNotes DEF ReceiveLast
<1>2. CASE request.op = "pad"
  BY <1>1, <1>2, LastNotes DEF Read8
<1>3. CASE request.op = "read"
  <2>1. sent >= 7 /\ sent \in Nat
    BY <1>3, LastNotes
  <2>2. rdwr = 1
    BY <1>3, <2>1 DEF IInv, CardPort
  <2>3. AtLast
    BY LastNotes
  <2>4. McdData' = McdData
    BY <1>1, <2>2, <2>3, LastByte
  <2> QED
    BY <1>3, <2>4
<1>4. CASE request.op = "write"
  <2>8. sent >= 7 /\ sent \in Nat /\ AtLast /\ mcdst = 5
    BY <1>4, LastNotes
  <2>1. /\ rdwr = 2 /\ adrH = request.frame \div 256 /\ adrL = request.frame % 256
    BY <1>4, <2>8 DEF IInv, CardPort
  <2>2. request \in CardWrites /\ request.slot \in Slots /\ request.frame \in Frames
        /\ request.block \in Blocks
    BY <1>4, RequestKinds DEF IInv, TypeOK, None
  <2>3. Ctrl = request.slot /\ Frame = request.frame
    <3>1. Frame = request.frame
      BY <2>1, <2>2, FrameBytes DEF Frame
    <3>2. Ctrl = request.slot
      BY LastNotes DEF IInv, Turns
    <3> QED
      BY <3>1, <3>2
  <2>4. \A k \in 1..SectorBytes : buf[k] = request.block[k]
    <3> TAKE k \in 1..SectorBytes
    <3>1. sent = SectorBytes + 10
      BY <2>2, LastNotes, WriteMessage
    <3>2. k <= sent - 6
      BY <3>1, SizeType
    <3> QED
      BY <1>4, <3>2 DEF IInv, Writes
  <2>5. request.block \in [1..SectorBytes -> Byte]
    BY <2>2, CardAssumption
  <2>6. [i \in 1..SectorBytes |-> buf[i]] = request.block
    BY <2>4, <2>5
  <2>7. McdData' = Commit
    BY <1>1, <2>1, <2>2, <2>3, <2>8, LastByte
  <2> QED
    BY <1>4, <2>3, <2>6, <2>7 DEF Commit
<1> QED
  BY <1>1, <1>2, <1>3, <1>4

LEMMA ReceiveLastKeeps ==
  ASSUME IInv, ReceiveLast
  PROVE  IInv'
<1>1. McdData' \in [Slots -> [Frames -> Blocks]]
  <2>1. McdData \in [Slots -> [Frames -> Blocks]]
    BY DEF IInv, TypeOK, PortTypes
  <2>2. CASE request.op = "write"
    <3>1. request.slot \in Slots /\ request.frame \in Frames /\ request.block \in Blocks
      BY <2>2, RequestKinds DEF IInv, TypeOK, None
    <3>2. McdData' = [McdData EXCEPT ![request.slot][request.frame] = request.block]
      BY <2>2, CommitWhole
    <3> QED
      BY <2>1, <3>1, <3>2
  <2>3. CASE request.op # "write"
    BY <2>1, <2>3, CommitWhole
  <2> QED
    BY <2>2, <2>3
<1>2. PadSnapshot'
  <2>1. CASE request.op = "pad"
    <3>1. sent = 5 /\ request.slot = 1 /\ parp = 4 /\ phase = "receive" /\ Len(got) = 4
      <4>1. sent = 5
        BY <2>1, LastNotes, PadMessage
      <4> QED
        BY <2>1, <4>1, LastNotes
    <3>2. PICK b \in Buttons :
            /\ buf[4] = PadBytes(b)[4]
            /\ \A k \in 2..4 : got[k] = PadBytes(b)[k - 1]
      <4>1. sent > 0 /\ sent > 1 /\ sent - 1 = 4 /\ Unread
        BY <3>1 DEF Unread
      <4> QED
        BY <2>1, <3>1, <4>1 DEF IInv, PadReply
    <3>3. Received = buf[4]
      BY <3>1, ReceivedByte
    <3>4. got[4] = b /\ Received = b
      <4>1. got[4] = PadBytes(b)[3]
        BY <3>2
      <4> QED
        BY <3>2, <3>3, <4>1, PadBytesSeq
    <3>5. held' = <<b, b>>
      BY <2>1, <3>4 DEF ReceiveLast
    <3> QED
      BY <3>5 DEF PadSnapshot
  <2>2. CASE request.op # "pad"
    BY <2>2, LastNotes DEF PadSnapshot
  <2> QED
    BY <2>1, <2>2
<1>3. /\ evSio' \in BOOLEAN /\ ~evSio' /\ rx' \in BOOLEAN /\ Ctrl' \in 0..2
  <2>1. /\ phase = "receive" /\ evSio' = evSio /\ rx' = FALSE /\ Ctrl' = Ctrl
    BY LastNotes
  <2>2. ~evSio /\ evSio \in BOOLEAN /\ Ctrl \in 0..2
    BY <2>1 DEF IInv, Turns, TypeOK, PortTypes
  <2> QED
    BY <2>1, <2>2
<1>4. /\ End /\ reply' = reply /\ padst' = 0 /\ mcdst' = 0
      /\ UNCHANGED <<buf, bufcount, rdwr, adrH, adrL, iStat, buttons>>
      /\ parp' = 0 \/ parp' = parp
  BY LastNotes
<1> QED
  BY <1>1, <1>2, <1>3, <1>4, EndKeeps

------------------------------------------------------------------------------
(* The theorems *)

LEMMA InvariantBegins == DriverInit => IInv
<1> SUFFICES ASSUME DriverInit PROVE IInv
  OBVIOUS
<1>1. /\ request = None /\ phase = "idle" /\ sent = 0 /\ got = <<>> /\ held = <<>>
      /\ Ctrl = 0 /\ rx = FALSE /\ parp = 0 /\ bufcount = 0
      /\ padst = 0 /\ mcdst = 0 /\ rdwr = 0 /\ adrH = 0 /\ adrL = 0
      /\ evSio = FALSE /\ iStat = FALSE /\ buttons \in Buttons /\ reply = <<>>
      /\ buf = [i \in 0..(BufSize - 1) |-> 0]
      /\ \E block \in Blocks : McdData = [s \in Slots |-> [f \in Frames |-> block]]
  BY DEF DriverInit, Init
<1>2. None.op = "none" /\ Len(Message(None)) = 0
  BY DEF None, Message
<1>3. TypeOK
  <2>1. bufcount \in 0..(BufSize - 1) /\ parp \in 0..bufcount
    BY <1>1, BufAssumption
  <2>2. 0 \in Byte
    BY DEF Byte
  <2>3. buf \in [0..(BufSize - 1) -> Byte]
    BY <1>1, <2>2
  <2>4. McdData \in [Slots -> [Frames -> Blocks]]
    BY <1>1
  <2>5. PortTypes
    <3>1. /\ Ctrl \in 0..2 /\ padst \in 0..2 /\ mcdst \in 0..5 /\ rdwr \in 0..2
      BY <1>1
    <3>2. rx \in BOOLEAN /\ evSio \in BOOLEAN /\ iStat \in BOOLEAN
      BY <1>1
    <3> QED
      BY <1>1, <2>2, <2>3, <2>4, <3>1, <3>2 DEF PortTypes
  <2>6. sent \in 0..Len(Message(request))
    BY <1>1, <1>2
  <2> QED
    BY <1>1, <2>1, <2>5, <2>6 DEF TypeOK
<1>4. Turns
  BY <1>1 DEF Turns, Unread
<1>5. PadPort /\ PadReply /\ PadAbsent /\ CardPort /\ Reads /\ Writes
  BY <1>1, <1>2 DEF PadPort, PadReply, PadAbsent, CardPort, Reads, Writes
<1>6. PadSnapshot /\ got \in Seq(Byte) /\ reply \in Seq(Byte)
  BY <1>1 DEF PadSnapshot
<1> QED
  BY <1>3, <1>4, <1>5, <1>6 DEF IInv

LEMMA InvariantKept == IInv /\ [DriverNext]_allVars => IInv'
<1> SUFFICES ASSUME IInv, [DriverNext]_allVars PROVE IInv'
  OBVIOUS
<1>1. ASSUME NEW r \in Pads \cup CardReads \cup CardWrites, Begin(r) PROVE IInv'
  BY <1>1, BeginKeeps
<1>2. CASE SendByte
  BY <1>2, SendKeeps
<1>3. CASE TakeInterrupt
  BY <1>3, TakeInterruptKeeps
<1>4. CASE ReceiveByte
  BY <1>4, ReceiveKeeps
<1>5. CASE ReceiveLast
  BY <1>5, ReceiveLastKeeps
<1>6. CASE GiveUp
  BY <1>6, GiveUpKeeps
<1>7. CASE DropLate
  BY <1>7, DropLateKeeps
<1>8. CASE Port
  BY <1>8, SioInterruptKeeps
<1>9. CASE Player
  BY <1>9, PressKeeps
<1>10. CASE UNCHANGED allVars
  BY <1>10, StutterKeeps
<1> QED
  BY <1>1, <1>2, <1>3, <1>4, <1>5, <1>6, <1>7, <1>8, <1>9, <1>10
  DEF DriverNext, Guest

\* Every state of the port with its guest satisfies the inductive invariant.
THEOREM InvariantHolds == DriverSpec => []IInv
BY InvariantBegins, InvariantKept, PTL DEF DriverSpec

\* Every variable keeps its type (TypeOK), and the position never passes the
\* end of the transfer, so that buf[parp] in sioRead8 is a byte of the answer.
THEOREM TypeCorrect == DriverSpec => []TypeOK
<1>1. IInv => TypeOK
  BY DEF IInv
<1> QED
  BY <1>1, InvariantHolds, PTL

\* A controller read is of one moment (PadSnapshot), whatever slot 2 answers
\* and whatever the player presses between two of its bytes.
THEOREM PollsOfOneMoment == DriverSpec => []PadSnapshot
<1>1. IInv => PadSnapshot
  BY DEF IInv
<1> QED
  BY <1>1, InvariantHolds, PTL

\* Both automata are at rest and no interrupt is scheduled between transfers
\* (QuietBetween), finished or given up.
THEOREM NothingLeft == DriverSpec => []QuietBetween
<1>1. IInv => QuietBetween
  BY DEF IInv, Turns, QuietBetween
<1> QED
  BY <1>1, InvariantHolds, PTL

\* An interrupt is on its way whenever the guest waits for one (InterruptComes).
THEOREM InterruptsCome == DriverSpec => []InterruptComes
<1>1. IInv => InterruptComes
  <2> SUFFICES ASSUME IInv, phase = "wait" PROVE evSio \/ iStat
    BY DEF InterruptComes
  <2>1. evSio # iStat /\ evSio \in BOOLEAN /\ iStat \in BOOLEAN
    BY DEF IInv, Turns, TypeOK, PortTypes
  <2> QED
    BY <2>1
<1> QED
  BY <1>1, InvariantHolds, PTL

\* What a finished card read has brought: the frame, and with its address and
\* checksum bytes that cancel out.
LEMMA ReadBrings ==
  ASSUME IInv, request.op = "read", phase = "receive", Finished
  PROVE  /\ SubSeq(got, 11, 10 + SectorBytes) = Sectors(request)
         /\ ChecksumRight
<1> DEFINE data == Sectors(request)
           s == <<adrH, adrL>> \o data
           t == SubSeq(got, 9, 11 + SectorBytes)
<1>1. /\ request \in CardReads /\ sent = SectorBytes + 12 /\ Len(got) = SectorBytes + 11
      /\ got \in Seq(Byte)
  <2>1. request \in CardReads
    BY RequestKinds DEF IInv, TypeOK
  <2>2. sent = SectorBytes + 12
    BY <2>1, ReadMessage DEF Finished
  <2>3. Len(got) = SectorBytes + 11
    BY <2>2, SizeType DEF IInv, Turns, Unread
  <2> QED
    BY <2>1, <2>2, <2>3 DEF IInv
<1>2. /\ buf[2] = adrH /\ buf[3] = adrL
      /\ \A k \in 1..SectorBytes : buf[k + 3] = data[k]
      /\ buf[SectorBytes + 4] = Checksum(adrH, adrL, data)
      /\ \A k \in 8..(SectorBytes + 11) : got[k] = buf[k - 7]
  <2>1. sent >= 7
    BY <1>1, SizeType
  <2> QED
    BY <1>1, <2>1 DEF IInv, Reads
<1>3. /\ data \in Seq(Byte) /\ Len(data) = SectorBytes
      /\ adrH \in Byte /\ adrL \in Byte
  <2>1. data \in Blocks
    BY SectorTypes
  <2>2. data \in Seq(Byte) /\ Len(data) = SectorBytes
    BY <2>1, BlockSeq
  <2> QED
    BY <2>2 DEF IInv, TypeOK, PortTypes
<1>4. \A k \in 1..SectorBytes : got[k + 10] = data[k]
  <2> TAKE k \in 1..SectorBytes
  <2>1. k + 10 \in 8..(SectorBytes + 11) /\ (k + 10) - 7 = k + 3
    BY SizeType
  <2> QED
    BY <1>2, <2>1
<1>5. got[9] = adrH /\ got[10] = adrL /\ got[SectorBytes + 11] = Xor(s)
  <2>1. /\ 9 \in 8..(SectorBytes + 11) /\ 10 \in 8..(SectorBytes + 11)
        /\ SectorBytes + 11 \in 8..(SectorBytes + 11)
        /\ (SectorBytes + 11) - 7 = SectorBytes + 4
    BY SizeType
  <2> QED
    BY <1>2, <2>1 DEF Checksum
<1> HIDE DEF data
<1>6. \A k \in 1..(SectorBytes + 11) : got[k] \in Byte
  BY <1>1, ElementOfSeq
<1>7. SubSeq(got, 11, 10 + SectorBytes) = data
  <2> DEFINE u == SubSeq(got, 11, 10 + SectorBytes)
  <2>1. \A i \in 11..(10 + SectorBytes) : got[i] \in Byte
    BY <1>6, SizeType
  <2>2. /\ 11 \in Int /\ 10 + SectorBytes \in Int /\ 11 <= 10 + SectorBytes
        /\ (10 + SectorBytes) - 11 + 1 = SectorBytes
    BY SizeType
  <2>3. /\ u \in Seq(Byte)
        /\ Len(u) = IF 11 <= 10 + SectorBytes THEN (10 + SectorBytes) - 11 + 1 ELSE 0
        /\ \A i \in 1..((10 + SectorBytes) - 11 + 1) : u[i] = got[11 + i - 1]
    BY <2>1, <2>2, SubSeqProperties
  <2> HIDE DEF u
  <2>4. Len(u) = SectorBytes
    BY <2>2, <2>3
  <2>5. ASSUME NEW i \in 1..SectorBytes PROVE u[i] = data[i]
    <3>1. u[i] = got[11 + i - 1]
      BY <2>2, <2>3
    <3>2. 11 + i - 1 = i + 10
      BY SizeType
    <3> QED
      BY <1>4, <3>1, <3>2
  <2>6. u = data
    BY <1>3, <2>3, <2>4, <2>5, SeqEqual
  <2> QED
    BY <2>6 DEF u
<1>8. /\ s \in Seq(Byte) /\ Len(s) = SectorBytes + 2
      /\ s[1] = adrH /\ s[2] = adrL
      /\ \A k \in 1..SectorBytes : s[k + 2] = data[k]
  <2> DEFINE h == <<adrH, adrL>>
  <2>1. h \in Seq(Byte) /\ Len(h) = 2 /\ h[1] = adrH /\ h[2] = adrL
    BY <1>3
  <2> HIDE DEF h
  <2>2. /\ h \o data \in Seq(Byte) /\ Len(h \o data) = Len(h) + Len(data)
        /\ \A i \in 1..(Len(h) + Len(data)) :
             (h \o data)[i] = IF i <= Len(h) THEN h[i] ELSE data[i - Len(h)]
    BY <1>3, <2>1, ConcatProperties
  <2>3. Len(h \o data) = SectorBytes + 2
    BY <1>3, <2>1, <2>2, SizeType
  <2>4. (h \o data)[1] = adrH /\ (h \o data)[2] = adrL
    BY <1>3, <2>1, <2>2, SizeType
  <2>5. ASSUME NEW k \in 1..SectorBytes PROVE (h \o data)[k + 2] = data[k]
    <3>1. /\ k + 2 \in 1..(Len(h) + Len(data)) /\ ~(k + 2 <= Len(h))
          /\ (k + 2) - Len(h) = k
      BY <1>3, <2>1, SizeType
    <3> QED
      BY <2>2, <3>1
  <2> QED
    BY <2>2, <2>3, <2>4, <2>5 DEF h
<1>9. Xor(s) \in Byte
  BY <1>8, XorBits
<1> HIDE DEF s
<1>10. t = Append(s, Xor(s))
  <2> DEFINE c == Append(s, Xor(s))
  <2>1. \A i \in 9..(11 + SectorBytes) : got[i] \in Byte
    BY <1>6, SizeType
  <2>2. /\ 9 \in Int /\ 11 + SectorBytes \in Int /\ 9 <= 11 + SectorBytes
        /\ (11 + SectorBytes) - 9 + 1 = SectorBytes + 3
    BY SizeType
  <2>3. /\ t \in Seq(Byte)
        /\ Len(t) = IF 9 <= 11 + SectorBytes THEN (11 + SectorBytes) - 9 + 1 ELSE 0
        /\ \A i \in 1..((11 + SectorBytes) - 9 + 1) : t[i] = got[9 + i - 1]
    BY <2>1, <2>2, SubSeqProperties
  <2> HIDE DEF t
  <2>4. Len(t) = SectorBytes + 3
    BY <2>2, <2>3
  <2>5. /\ c \in Seq(Byte) /\ Len(c) = Len(s) + 1
        /\ \A i \in 1..Len(s) : c[i] = s[i]
        /\ c[Len(s) + 1] = Xor(s)
    BY <1>8, <1>9, AppendProperties
  <2> HIDE DEF c
  <2>6. Len(c) = SectorBytes + 3
    BY <1>8, <2>5, SizeType
  <2>7. ASSUME NEW i \in 1..(SectorBytes + 3) PROVE t[i] = c[i]
    <3>1. t[i] = got[9 + i - 1]
      BY <2>2, <2>3
    <3>2. CASE i \in {1, 2}
      <4>1. c[i] = s[i] /\ 9 + i - 1 = i + 8
        BY <1>8, <2>5, <3>2, SizeType
      <4> QED
        BY <1>5, <1>8, <3>1, <3>2, <4>1
    <3>3. CASE i \in 3..(SectorBytes + 2)
      <4>1. /\ i - 2 \in 1..SectorBytes /\ (i - 2) + 10 = 9 + i - 1
            /\ (i - 2) + 2 = i /\ i \in 1..Len(s)
        BY <1>8, <3>3, SizeType
      <4>2. s[(i - 2) + 2] = data[i - 2] /\ got[(i - 2) + 10] = data[i - 2]
        BY <1>4, <1>8, <4>1
      <4> QED
        BY <2>5, <3>1, <4>1, <4>2
    <3>4. CASE i = SectorBytes + 3
      <4>1. 9 + i - 1 = SectorBytes + 11 /\ i = Len(s) + 1
        BY <1>8, <3>4, SizeType
      <4> QED
        BY <1>5, <2>5, <3>1, <4>1
    <3> QED
      BY <3>2, <3>3, <3>4, SizeType
  <2>8. t = c
    BY <2>3, <2>4, <2>5, <2>6, <2>7, SeqEqual
  <2> QED
    BY <2>8 DEF c
<1>11. Xor(t) = 0
  BY <1>8, <1>10, XorCancels
<1> QED
  BY <1>7, <1>11 DEF ChecksumRight, data

\* Every finished card read passes the guest's checksum (ReadsAccepted): the
\* address, the data and the checksum mcdst = 4 computes cancel out.
THEOREM ReadsPass == DriverSpec => []ReadsAccepted
<1>1. IInv => ReadsAccepted
  BY ReadBrings DEF ReadsAccepted
<1> QED
  BY <1>1, InvariantHolds, PTL

------------------------------------------------------------------------------
(* The port and its guest implement the memory cards *)

LEMMA CardsBegin == DriverInit => Cards!Init
<1> SUFFICES ASSUME DriverInit PROVE Cards!Init
  OBVIOUS
<1>1. /\ request = None /\ result = <<>>
      /\ \E block \in Blocks : McdData = [s \in Slots |-> [f \in Frames |-> block]]
  BY DEF DriverInit, Init
<1>2. request.op # "pad"
  BY <1>1 DEF None
<1> QED
  BY <1>1, <1>2 DEF Cards!Init, Cards!None, None, Slots

\* A transfer with a card is asked for; one with a controller is nothing to the cards.
LEMMA CardsBeginStep ==
  ASSUME IInv, NEW r \in Pads \cup CardReads \cup CardWrites, Begin(r)
  PROVE  [Cards!Next]_(Cards!cardVars)
<1>1. /\ request = None /\ request' = r /\ McdData' = McdData
      /\ result' = IF r.op = "pad" THEN result ELSE <<>>
  BY DEF IInv, Turns, Begin, WriteCtrl
<1>2. None.op = "none"
  BY DEF None
<1>3. CASE r.op = "pad"
  BY <1>1, <1>2, <1>3 DEF Cards!cardVars
<1>4. CASE r.op # "pad"
  <2>1. r \in Cards!Requests /\ r # None
    BY <1>4 DEF Cards!Requests, Pads, CardReads, CardWrites, Slots, None
  <2>2. Cards!Ask
    BY <1>1, <1>2, <1>4, <2>1 DEF Cards!Ask, Cards!None, None
  <2> QED
    BY <2>2 DEF Cards!Next
<1> QED
  BY <1>3, <1>4

\* The last byte stores or returns the whole frame.
LEMMA CardsLastStep ==
  ASSUME IInv, ReceiveLast
  PROVE  [Cards!Next]_(Cards!cardVars)
<1>1. /\ request' = None /\ phase = "receive" /\ Finished
      /\ request.op \in {"pad", "read", "write"}
  BY LastNotes DEF End, ReceiveLast
<1>2. None.op = "none"
  BY DEF None
<1>3. CASE request.op = "pad"
  <2>1. McdData' = McdData /\ result' = result
    BY <1>3, CommitWhole DEF ReceiveLast
  <2> QED
    BY <1>1, <1>2, <1>3, <2>1 DEF Cards!cardVars
<1>4. CASE request.op = "read"
  <2>1. McdData' = McdData
    BY <1>4, CommitWhole
  <2>2. result' = Sectors(request)
    BY <1>1, <1>4, ReadBrings DEF ReceiveLast
  <2>3. Cards!Load
    BY <1>1, <1>2, <1>4, <2>1, <2>2 DEF Cards!Load, Cards!None, None, Sectors
  <2> QED
    BY <2>3 DEF Cards!Next
<1>5. CASE request.op = "write"
  <2>1. McdData' = [McdData EXCEPT ![request.slot][request.frame] = request.block]
    BY <1>5, CommitWhole
  <2>2. result' = result
    BY <1>5 DEF ReceiveLast
  <2>3. Cards!Store
    BY <1>1, <1>2, <1>5, <2>1, <2>2 DEF Cards!Store, Cards!None, None
  <2> QED
    BY <2>3 DEF Cards!Next
<1> QED
  BY <1>1, <1>3, <1>4, <1>5

\* A transfer given up stores and returns nothing.
LEMMA CardsGiveUpStep ==
  ASSUME IInv, GiveUp
  PROVE  [Cards!Next]_(Cards!cardVars)
<1>1. /\ request # None /\ request' = None /\ McdData' = McdData /\ result' = result
  BY DEF IInv, Turns, GiveUp, End, WriteCtrl
<1>2. None.op = "none"
  BY DEF None
<1>3. CASE request.op = "pad"
  BY <1>1, <1>2, <1>3 DEF Cards!cardVars
<1>4. CASE request.op # "pad"
  <2>1. Cards!GiveUp
    BY <1>1, <1>2, <1>4 DEF Cards!GiveUp, Cards!None, None
  <2> QED
    BY <2>1 DEF Cards!Next
<1> QED
  BY <1>3, <1>4

LEMMA CardsStep == IInv /\ [DriverNext]_allVars => [Cards!Next]_(Cards!cardVars)
<1> SUFFICES ASSUME IInv, [DriverNext]_allVars PROVE [Cards!Next]_(Cards!cardVars)
  OBVIOUS
<1>1. ASSUME UNCHANGED <<request, McdData, result>>
      PROVE  [Cards!Next]_(Cards!cardVars)
  BY <1>1 DEF Cards!cardVars
<1>2. ASSUME NEW r \in Pads \cup CardReads \cup CardWrites, Begin(r)
      PROVE  [Cards!Next]_(Cards!cardVars)
  BY <1>2, CardsBeginStep
<1>3. CASE SendByte
  <2>1. UNCHANGED <<request, result>> /\ Write8(Message(request)[sent + 1])
    BY <1>3 DEF SendByte
  <2>2. McdData' = McdData
    BY <2>1 DEF Write8, PadCommand, PadByte, CardCommand, CardAddressHigh,
                CardAddressLow, CardBegin, CardData, CardStep, StartPad, StartCard,
                Ignored, vars, cardVars
  <2> QED
    BY <1>1, <2>1, <2>2
<1>4. CASE TakeInterrupt
  BY <1>1, <1>4 DEF TakeInterrupt, ClearIStat, cardVars
<1>5. CASE ReceiveByte
  <2>1. UNCHANGED <<request, result>> /\ McdData' = McdData
    BY <1>5, ReceiveKeeps DEF ReceiveByte
  <2> QED
    BY <1>1, <2>1
<1>6. CASE ReceiveLast
  BY <1>6, CardsLastStep
<1>7. CASE GiveUp
  BY <1>7, CardsGiveUpStep
<1>8. CASE DropLate
  BY <1>1, <1>8 DEF DropLate, ClearIStat, cardVars, driverVars
<1>9. CASE Port
  BY <1>1, <1>9 DEF Port, SioInterrupt, cardVars, driverVars
<1>10. CASE Player
  BY <1>1, <1>10 DEF Player, Press, cardVars, driverVars
<1>11. CASE UNCHANGED allVars
  BY <1>1, <1>11 DEF allVars, vars, cardVars, driverVars
<1> QED
  BY <1>2, <1>3, <1>4, <1>5, <1>6, <1>7, <1>8, <1>9, <1>10, <1>11
  DEF DriverNext, Guest

\* The serial port and its guest implement the memory cards (CardsHold): a write
\* stores the whole block in the frame and slot asked for, or nothing; a read
\* returns the block stored there last.
THEOREM CardsImplemented == DriverSpec => CardsHold
BY CardsBegin, CardsStep, InvariantHolds, PTL DEF DriverSpec, CardsHold, Cards!Spec
==============================================================================
