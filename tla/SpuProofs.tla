------------------------------- MODULE SpuProofs -------------------------------
(***************************************************************************)
(* Proofs about Spu.tla, for every well-formed sound memory, all addresses *)
(* the guest writes, every envelope and every size of the ring.            *)
(***************************************************************************)
EXTENDS Spu, TLAPS

\* A sample holds the block it starts at.
LEMMA SampleStart == \A a \in Starts \cup Loops : a \in Sample(a)
BY BlockAssumption DEF Sample, Blocks

\* A sample goes on behind a block that is not its end, within sound memory.
LEMMA SampleNext ==
  ASSUME NEW a \in Starts \cup Loops, NEW b \in Sample(a), ~IsEnd(b)
  PROVE  b + 1 \in Sample(a)
<1>1. PICK e \in Sample(a) : IsEnd(e)
  BY SampleAssumption
<1>2. a \in Nat /\ b \in Nat /\ e \in Nat /\ b >= a /\ e >= a /\ e < NumBlocks
  BY BlockAssumption DEF Sample, Blocks
<1>3. ~(e < b)
  BY <1>1, <1>2 DEF Sample
<1>4. b + 1 \in Blocks
  BY <1>1, <1>2, <1>3, BlockAssumption DEF Blocks
<1>5. \A c \in a..b : ~IsEnd(c)
  BY <1>2 DEF Sample
<1>6. QED
  BY <1>2, <1>4, <1>5 DEF Sample

\* A voice that plays is in a sample it was sent to, and in the one it was
\* started with as long as the guest wrote no loop address.
LEMMA Playable ==
  ASSUME IInv, phase = "voice", pCurr # Stop
  PROVE  /\ Sent \subseteq Starts \cup Loops /\ pLoop \in Blocks
         /\ \E a \in Sent : pCurr \in Sample(a)
         /\ ~bIgnoreLoop => pCurr \in Sample(started)
         /\ ~bIgnoreLoop /\ LoopPassed => pLoop \in Sample(started)
         /\ bIgnoreLoop => pLoop \in Sent
<1>1. Playing
  BY DEF IInv, KeyWaits, Playing
<1>2. Sent \subseteq Starts \cup Loops /\ pLoop \in Blocks
  BY DEF IInv, TypeOK, Sent
<1>3. \E a \in Sent : pCurr \in Sample(a)
  BY <1>1 DEF IInv, InSample
<1>4. ~bIgnoreLoop => Sent = {started}
  BY DEF IInv, LoopOwn, Sent
<1>5. ~bIgnoreLoop /\ LoopPassed => pLoop \in Sample(started)
  BY <1>1 DEF IInv, LoopOwn
<1>6. bIgnoreLoop => pLoop \in Sent
  BY DEF IInv, LoopOwn, Sent
<1>7. QED
  BY <1>2, <1>3, <1>4, <1>5, <1>6

\* The block a voice decodes next, and the loop address it is left with.
LEMMA Decode ==
  ASSUME IInv, phase = "voice", pCurr # Stop
  PROVE  /\ LoopAfter(pCurr) \in Blocks
         /\ NextBlock(pCurr) # Stop => \E a \in Sent : NextBlock(pCurr) \in Sample(a)
         /\ bIgnoreLoop => LoopAfter(pCurr) = pLoop
         /\ ~bIgnoreLoop /\ NextBlock(pCurr) # Stop
              /\ (\E b \in Sample(started) :
                    b < NextBlock(pCurr) /\ IsLoopStart(b))
              => LoopAfter(pCurr) \in Sample(started)
<1>1. PICK a \in Sent : pCurr \in Sample(a)
  BY Playable
<1>2. pCurr \in Blocks /\ LoopAfter(pCurr) \in Blocks /\ a \in Starts \cup Loops
  BY <1>1, Playable DEF Sample, LoopAfter
<1>3. bIgnoreLoop => LoopAfter(pCurr) = pLoop
  BY DEF LoopAfter
<1>4. CASE ~IsEnd(pCurr)
  <2>1. NextBlock(pCurr) = pCurr + 1 /\ pCurr + 1 \in Sample(a)
    BY <1>1, <1>2, <1>4, SampleNext DEF NextBlock
  <2>2. ASSUME ~bIgnoreLoop, NEW b \in Sample(started), b < pCurr + 1, IsLoopStart(b)
        PROVE  LoopAfter(pCurr) \in Sample(started)
    <3>1. b \in Int /\ pCurr \in Int
      BY <1>2 DEF Sample, Blocks
    <3>2. CASE b = pCurr
      BY <2>2, <3>2 DEF LoopAfter
    <3>3. CASE b < pCurr
      <4>1. LoopPassed
        BY <2>2, <3>3 DEF LoopPassed
      <4>2. pLoop \in Sample(started) /\ pCurr \in Sample(started)
        BY <2>2, <4>1, Playable
      <4>3. QED
        BY <4>2 DEF LoopAfter
    <3>4. QED
      BY <2>2, <3>1, <3>2, <3>3
  <2>3. QED
    BY <1>1, <1>2, <1>3, <2>1, <2>2
<1>5. CASE IsEnd(pCurr) /\ Flags[pCurr] # 3
  BY <1>2, <1>3, <1>5 DEF NextBlock
<1>6. CASE IsEnd(pCurr) /\ Flags[pCurr] = 3
  <2>1. LoopAfter(pCurr) = pLoop /\ NextBlock(pCurr) = pLoop
    BY <1>6 DEF NextBlock, LoopAfter, IsLoopStart
  <2>2. CASE bIgnoreLoop
    <3>1. pLoop \in Sent /\ pLoop \in Sample(pLoop)
      BY <2>2, Playable, SampleStart
    <3>2. QED
      BY <1>2, <1>3, <2>1, <2>2, <3>1
  <2>3. CASE ~bIgnoreLoop
    <3>1. pCurr \in Sample(started) /\ started \in Starts
      BY <2>3, Playable DEF IInv, TypeOK
    <3>2. LoopPassed
      BY <1>6, <3>1, SampleAssumption DEF LoopPassed
    <3>3. pLoop \in Sample(started) /\ started \in Sent
      BY <2>3, <3>2, Playable DEF Sent
    <3>4. QED
      BY <1>2, <2>1, <2>3, <3>3
  <2>4. QED
    BY <2>2, <2>3
<1>7. QED
  BY <1>4, <1>5, <1>6

\* One step of the envelope keeps the volume within its range, and turns a
\* voice off but never on.
LEMMA EnvelopeStep ==
  ASSUME TypeOK, MixADSR
  PROVE  /\ EnvelopeVol' \in 0..MaxVolume /\ State' \in 0..2
         /\ lVolume' \in BOOLEAN /\ bOn' \in BOOLEAN /\ (bOn' => bOn)
<1>1. \A rate \in Nat : Rise(rate) \in 0..MaxVolume /\ Fall(rate) \in 0..MaxVolume
  BY MixAssumption DEF TypeOK, Rise, Fall
<1>2. lVolume' \in BOOLEAN
  BY Zenon DEF MixADSR
<1>3. CASE Release
  <2>1. PICK rate \in ReleaseRates :
          /\ EnvelopeVol' = IF EnvelopeVol < rate THEN 0 ELSE EnvelopeVol - rate
          /\ bOn' = (bOn /\ EnvelopeVol >= rate)
    BY <1>3 DEF Release
  <2>2. EnvelopeVol' \in 0..MaxVolume
    BY <2>1, MixAssumption DEF TypeOK
  <2>3. bOn' \in BOOLEAN /\ (bOn' => bOn)
    BY <2>1, Zenon
  <2>4. State' \in 0..2
    BY <1>3 DEF Release, TypeOK
  <2>5. QED
    BY <1>2, <2>2, <2>3, <2>4
<1>4. CASE Attack
  <2>1. EnvelopeVol' \in 0..MaxVolume /\ State' \in 0..2
    BY <1>1, <1>4, MixAssumption DEF Attack
  <2>2. QED
    BY <1>2, <1>4, <2>1 DEF Attack, TypeOK
<1>5. CASE Decay
  <2>1. EnvelopeVol' \in 0..MaxVolume /\ State' \in 0..2
    BY <1>1, <1>5, MixAssumption DEF Decay
  <2>2. QED
    BY <1>2, <1>5, <2>1 DEF Decay, TypeOK
<1>6. CASE Sustain
  <2>1. EnvelopeVol' \in 0..MaxVolume
    BY <1>1, <1>6, MixAssumption DEF Sustain
  <2>2. QED
    BY <1>2, <1>6, <2>1 DEF Sustain, TypeOK
<1>7. QED
  BY <1>3, <1>4, <1>5, <1>6 DEF MixADSR

\* The processor starts in the invariant.
LEMMA InitIInv == Init => IInv
<1> SUFFICES ASSUME Init PROVE IInv
  OBVIOUS
<1>1. 0 \in Blocks /\ 0 \in Slots
  BY BlockAssumption, RingAssumption DEF Blocks, Slots
<1>2. TypeOK
  <2>1. /\ ring \in [Slots -> 0..MaxFed] /\ pStart \in Starts /\ started \in Starts
        /\ given \subseteq Loops /\ XAFeed \in Slots /\ XAPlay \in Slots
    BY <1>1, RingAssumption, BlockAssumption DEF Init, Slots
  <2>2. /\ iSBPos \in 0..BlockSize /\ EnvelopeVol \in 0..MaxVolume /\ State \in 0..2
        /\ XARepeat \in 0..Repeat /\ fed \in 0..MaxFed /\ played \in 0..MaxFed
        /\ ns \in 0..NSSIZE /\ left \in 0..MaxChunk
    BY MixAssumption, RingAssumption DEF Init
  <2>3. QED
    BY <1>1, <2>1, <2>2 DEF Init, TypeOK
<1>3. KeyWaits /\ InSample /\ LoopOwn
  BY DEF Init, KeyWaits, InSample, LoopOwn, Playing
<1>4. Held = {}
  BY DEF Init, Held
<1>5. FedLast /\ XaInOrder
  BY <1>4 DEF Init, FedLast, XaInOrder
<1>6. QED
  BY <1>2, <1>3, <1>5 DEF IInv

\* The position after a slot is a slot.
LEMMA AfterType == \A i \in Slots : After(i) \in Slots
BY RingAssumption DEF Slots, After

\* Every step keeps the types: no index leaves its array.
LEMMA TypeStep == IInv /\ [Next]_vars => TypeOK'
<1> SUFFICES ASSUME IInv, [Next]_vars PROVE TypeOK'
  OBVIOUS
<1>0. TypeOK
  BY DEF IInv
<1> USE DEF keyVars, playVars, envVars, voiceVars, xaVars, loopVars
<1>1. CASE Registers
  <2>1. ASSUME NEW a \in Starts, SetStart(a) PROVE TypeOK'
    BY <1>0, <2>1 DEF SetStart, TypeOK
  <2>2. ASSUME NEW a \in Loops, SetLoop(a) PROVE TypeOK'
    BY <1>0, <2>2, BlockAssumption DEF SetLoop, TypeOK
  <2>3. CASE SoundOn
    BY <1>0, <2>3 DEF SoundOn, TypeOK
  <2>4. CASE SoundOff
    BY <1>0, <2>4 DEF SoundOff, TypeOK
  <2>5. QED
    BY <1>1, <2>1, <2>2, <2>3, <2>4 DEF Registers
<1>2. CASE BeginCall
  <2>1. CASE bNew /\ StartSound /\ phase' = "voice"
    <3>1. /\ bNew' \in BOOLEAN /\ bOn' \in BOOLEAN /\ bStop' \in BOOLEAN
          /\ lVolume' \in BOOLEAN
      BY <2>1 DEF StartSound
    <3>2. /\ pCurr' \in Blocks /\ iSBPos' \in 0..BlockSize /\ State' \in 0..2
          /\ EnvelopeVol' \in 0..MaxVolume /\ started' \in Starts
      BY <1>0, <2>1, BlockAssumption, MixAssumption DEF StartSound, TypeOK
    <3>3. ns' \in 0..NSSIZE
      BY <1>2, MixAssumption DEF BeginCall
    <3>4. QED
      BY <1>0, <1>2, <2>1, <3>1, <3>2, <3>3 DEF BeginCall, TypeOK
  <2>2. CASE ~bNew
    BY <1>0, <1>2, <2>2, MixAssumption DEF BeginCall, StartSound, TypeOK
  <2>3. QED
    BY <1>2, <2>1, <2>2 DEF BeginCall
<1>3. ASSUME NEW k \in 0..MaxStep, VoiceSample(k) PROVE TypeOK'
  <2>1. iSBPos' \in 0..BlockSize /\ ns' \in 0..NSSIZE
    BY <1>0, <1>3, MixAssumption DEF VoiceSample, TypeOK
  <2>2. pCurr' \in Blocks \cup {Stop} /\ pLoop' \in Blocks
    <3>1. CASE UNCHANGED <<pCurr, pLoop>>
      BY <1>0, <3>1 DEF TypeOK
    <3>2. CASE pCurr # Stop /\ pLoop' = LoopAfter(pCurr) /\ pCurr' = NextBlock(pCurr)
      <4>1. phase = "voice"
        BY <1>3 DEF VoiceSample
      <4>2. QED
        BY <3>2, <4>1, Decode DEF Sample
    <3>3. QED
      BY <1>3, <3>1, <3>2 DEF VoiceSample
  <2>3. /\ EnvelopeVol' \in 0..MaxVolume /\ State' \in 0..2
        /\ lVolume' \in BOOLEAN /\ bOn' \in BOOLEAN
    BY <1>0, <1>3, EnvelopeStep DEF VoiceSample
  <2>4. QED
    BY <1>0, <1>3, <2>1, <2>2, <2>3 DEF VoiceSample, TypeOK
<1>4. CASE VoiceEnds \/ VoiceDone
  <2>1. EnvelopeVol' \in 0..MaxVolume /\ ns' \in 0..NSSIZE /\ phase' = "xa"
    BY <1>0, <1>4, MixAssumption DEF VoiceEnds, VoiceDone, TypeOK
  <2>2. bOn' \in BOOLEAN /\ lVolume' \in BOOLEAN
    BY <1>0, <1>4 DEF VoiceEnds, VoiceDone, TypeOK
  <2>3. QED
    BY <1>0, <1>4, <2>1, <2>2 DEF VoiceEnds, VoiceDone, TypeOK
<1>5. CASE MixSample
  BY <1>0, <1>5, MixAssumption, AfterType DEF MixSample, TypeOK
<1>6. CASE MixDone
  BY <1>0, <1>6, MixAssumption, RingAssumption DEF MixDone, TypeOK
<1>7. ASSUME NEW iSize \in 0..MaxChunk, FeedXA(iSize) PROVE TypeOK'
  BY <1>0, <1>7, RingAssumption DEF FeedXA, TypeOK
<1>8. CASE FeedSample
  <2>1. XAFeed' \in Slots
    <3>1. XAPlay # 0 => XAPlay - 1 \in Slots
      BY <1>0, RingAssumption DEF TypeOK, Slots
    <3>2. After(XAFeed) \in Slots
      BY <1>0, AfterType DEF TypeOK
    <3>3. (XAFeed' = XAPlay - 1 /\ XAPlay # 0) \/ XAFeed' = After(XAFeed)
      BY <1>8 DEF FeedSample
    <3>4. QED
      BY <3>1, <3>2, <3>3
  <2>2. fed' \in 0..MaxFed /\ left' \in 0..MaxChunk
    BY <1>0, <1>8, RingAssumption DEF FeedSample, TypeOK, IInv, FedLast
  <2>3. ring' \in [Slots -> 0..MaxFed]
    BY <1>0, <1>8, <2>2 DEF FeedSample, TypeOK
  <2>4. QED
    BY <1>0, <1>8, <2>1, <2>2, <2>3 DEF FeedSample, TypeOK
<1>9. CASE UNCHANGED vars
  BY <1>0, <1>9 DEF vars, TypeOK
<1>10. QED
  BY <1>1, <1>2, <1>3, <1>4, <1>5, <1>6, <1>7, <1>8, <1>9
  DEF Next, Mixing, Feeding

\* Every step keeps the voice in a sample it was sent to, and its loop address
\* the guest's or the sample's.
LEMMA VoiceStep == IInv /\ [Next]_vars => (KeyWaits /\ InSample /\ LoopOwn)'
<1> SUFFICES ASSUME IInv, [Next]_vars PROVE (KeyWaits /\ InSample /\ LoopOwn)'
  OBVIOUS
<1> USE DEF keyVars, playVars, envVars, voiceVars, xaVars, loopVars
<1>0. ASSUME /\ UNCHANGED <<bNew, pCurr, pLoop, bIgnoreLoop, started, given>>
             /\ bOn' => bOn
             /\ phase' = phase \/ phase' # "voice"
      PROVE  (KeyWaits /\ InSample /\ LoopOwn)'
  BY <1>0 DEF IInv, KeyWaits, InSample, LoopOwn, LoopPassed, Playing, Sent
<1>1. CASE Registers
  <2>1. ASSUME NEW a \in Starts, SetStart(a) PROVE (KeyWaits /\ InSample /\ LoopOwn)'
    BY <1>0, <2>1 DEF SetStart
  <2>2. ASSUME NEW a \in Loops, SetLoop(a) PROVE (KeyWaits /\ InSample /\ LoopOwn)'
    <3>1. /\ UNCHANGED <<bNew, bOn, pCurr, phase, started>> /\ bIgnoreLoop'
          /\ given' = given \cup {a} /\ pLoop' = a
      BY <2>2 DEF SetLoop
    <3>2. (KeyWaits /\ InSample)'
      BY <3>1 DEF IInv, KeyWaits, InSample, Playing, Sent
    <3>3. LoopOwn'
      BY <3>1 DEF LoopOwn
    <3>4. QED
      BY <3>2, <3>3
  <2>3. CASE SoundOn
    BY <2>3 DEF SoundOn, KeyWaits, InSample, LoopOwn, Playing
  <2>4. CASE SoundOff
    BY <1>0, <2>4 DEF SoundOff
  <2>5. QED
    BY <1>1, <2>1, <2>2, <2>3, <2>4 DEF Registers
<1>2. CASE BeginCall
  <2>1. CASE bNew /\ StartSound
    <3>1. /\ ~bNew' /\ pCurr' = pStart /\ started' = pStart /\ pLoop' = pLoop
          /\ bIgnoreLoop' = bIgnoreLoop /\ given' = given
      BY <1>2, <2>1 DEF BeginCall, StartSound
    <3>2. pStart \in Starts /\ pStart \in Sample(pStart)
      BY SampleStart DEF IInv, TypeOK
    <3>3. ~ LoopPassed'
      BY <3>1, <3>2, BlockAssumption DEF LoopPassed, Sample, Blocks
    <3>4. (KeyWaits /\ InSample)'
      BY <3>1, <3>2 DEF KeyWaits, InSample, Sent
    <3>5. LoopOwn'
      BY <3>1, <3>3 DEF IInv, LoopOwn
    <3>6. QED
      BY <3>4, <3>5
  <2>2. CASE ~bNew
    <3>1. /\ UNCHANGED <<bNew, bOn, pCurr, pLoop, bIgnoreLoop, started, given>>
          /\ phase' = "voice" => bOn
      BY <1>2, <2>2 DEF BeginCall
    <3>2. QED
      BY <2>2, <3>1
      DEF IInv, KeyWaits, InSample, LoopOwn, LoopPassed, Playing, Sent
  <2>3. QED
    BY <1>2, <2>1, <2>2 DEF BeginCall
<1>3. ASSUME NEW k \in 0..MaxStep, VoiceSample(k)
      PROVE  (KeyWaits /\ InSample /\ LoopOwn)'
  <2>1. /\ phase = "voice" /\ phase' = phase
        /\ UNCHANGED <<bNew, bIgnoreLoop, started, given>>
    BY <1>3 DEF VoiceSample
  <2>2. ~bNew /\ KeyWaits'
    BY <2>1 DEF IInv, KeyWaits
  <2>3. CASE UNCHANGED <<pCurr, pLoop>>
    <3>1. Playing' => Playing
      BY <2>1, <2>2, <2>3 DEF Playing
    <3>2. QED
      BY <2>1, <2>2, <2>3, <3>1 DEF IInv, InSample, LoopOwn, LoopPassed, Sent
  <2>4. CASE pCurr # Stop /\ pLoop' = LoopAfter(pCurr) /\ pCurr' = NextBlock(pCurr)
    <3>1. InSample'
      BY <2>1, <2>4, Decode DEF InSample, Playing, Sent
    <3>2. bIgnoreLoop' => pLoop' \in given'
      BY <2>1, <2>4, Decode DEF IInv, LoopOwn
    <3>3. bIgnoreLoop' <=> given' # {}
      BY <2>1 DEF IInv, LoopOwn
    <3>4. Playing' /\ ~bIgnoreLoop' /\ LoopPassed' => pLoop' \in Sample(started')
      BY <2>1, <2>4, Decode DEF LoopPassed, Playing
    <3>5. LoopOwn'
      BY <3>2, <3>3, <3>4 DEF LoopOwn
    <3>6. QED
      BY <2>2, <3>1, <3>5
  <2>5. QED
    BY <1>3, <2>3, <2>4 DEF VoiceSample
<1>4. CASE VoiceEnds \/ VoiceDone
  BY <1>0, <1>4 DEF VoiceEnds, VoiceDone
<1>5. CASE MixSample \/ MixDone
  BY <1>0, <1>5 DEF MixSample, MixDone
<1>6. ASSUME NEW iSize \in 0..MaxChunk, FeedXA(iSize)
      PROVE  (KeyWaits /\ InSample /\ LoopOwn)'
  BY <1>0, <1>6 DEF FeedXA
<1>7. CASE FeedSample
  BY <1>0, <1>7 DEF FeedSample
<1>8. CASE UNCHANGED vars
  BY <1>0, <1>8 DEF vars
<1>9. QED
  BY <1>1, <1>2, <1>3, <1>4, <1>5, <1>6, <1>7, <1>8 DEF Next, Mixing, Feeding

\* A sample that is fed goes behind all that the ring holds.
LEMMA FedBehind ==
  ASSUME IInv, FeedSample
  PROVE  /\ Held' \subseteq Held \cup {XAFeed}
         /\ XAFeed \notin Held
         /\ \A i \in Held : Turn(i) < Turn(XAFeed)
<1>1. /\ XAFeed \in 0..(RingSize - 1) /\ XAPlay \in 0..(RingSize - 1)
      /\ RingSize \in Nat /\ RingSize > 1 /\ XAPlay' = XAPlay
  BY RingAssumption DEF FeedSample, IInv, TypeOK, Slots
<1>2. \/ After(XAFeed) = XAPlay /\ XAPlay # 0 /\ XAFeed' = XAPlay - 1
      \/ After(XAFeed) = XAPlay /\ XAPlay = 0 /\ XAFeed' = XAPlay
      \/ After(XAFeed) # XAPlay /\ XAFeed' = After(XAFeed)
  BY DEF FeedSample
<1>3. Held' \subseteq Held \cup {XAFeed}
  BY <1>1, <1>2 DEF Held, After, Slots
<1>4. XAFeed \notin Held /\ \A i \in Held : Turn(i) < Turn(XAFeed)
  BY <1>1 DEF Held, Slots, Turn
<1>5. QED
  BY <1>3, <1>4

\* The sample that is played is the first of those the ring holds, and the
\* others keep their order.
LEMMA PlayedFirst ==
  ASSUME IInv, MixSample
  PROVE  /\ XAPlay \in Held
         /\ Held' = Held \ {XAPlay}
         /\ \A i \in Held' : Turn(XAPlay) < Turn(i)
         /\ \A i, j \in Held' : (Turn(i) < Turn(j))' => Turn(i) < Turn(j)
<1>1. /\ XAFeed \in 0..(RingSize - 1) /\ XAPlay \in 0..(RingSize - 1)
      /\ RingSize \in Nat /\ RingSize > 1 /\ XAFeed' = XAFeed /\ XAPlay # XAFeed
      /\ XAPlay' = After(XAPlay)
  BY RingAssumption DEF MixSample, IInv, TypeOK, Slots
<1>2. XAPlay \in Held /\ Held' = Held \ {XAPlay}
  BY <1>1 DEF Held, After, Slots
<1>3. \A i \in Held' : Turn(XAPlay) < Turn(i)
  BY <1>1, <1>2 DEF Held, Slots, Turn
<1>4. \A i, j \in Held' : (Turn(i) < Turn(j))' => Turn(i) < Turn(j)
  BY <1>1, <1>2 DEF Held, Slots, Turn, After
<1>5. QED
  BY <1>2, <1>3, <1>4

\* Every step keeps the ring in the order it was fed.
LEMMA RingStep == IInv /\ [Next]_vars => (FedLast /\ XaInOrder)'
<1> SUFFICES ASSUME IInv, [Next]_vars PROVE (FedLast /\ XaInOrder)'
  OBVIOUS
<1>0. /\ \A i \in Held : i \in Slots /\ ring[i] \in Nat
      /\ ring \in [Slots -> 0..MaxFed] /\ XAFeed \in Slots /\ XAPlay \in Slots
      /\ fed \in Nat /\ played \in Nat
  BY RingAssumption DEF IInv, TypeOK, Held, Slots
<1> USE DEF keyVars, playVars, envVars, voiceVars, xaVars, loopVars
<1>1. CASE FeedSample
  <2>1. /\ fed' = fed + 1 /\ played' = played /\ XAPlay' = XAPlay
        /\ ring' = [ring EXCEPT ![XAFeed] = fed + 1]
    BY <1>1 DEF FeedSample
  <2>2. /\ Held' \subseteq Held \cup {XAFeed} /\ XAFeed \notin Held
        /\ \A i \in Held : Turn(i) < Turn(XAFeed)
        /\ \A i \in Slots : Turn(i)' = Turn(i) /\ Turn(i) \in Int
    BY <1>0, <1>1, <2>1, FedBehind, RingAssumption DEF Turn, Slots
  <2>3. /\ \A i \in Held : ring'[i] = ring[i] /\ ring[i] <= fed /\ ring[i] > played
        /\ ring'[XAFeed] = fed + 1 /\ played <= fed
    BY <1>0, <2>1, <2>2 DEF IInv, FedLast, XaInOrder
  <2>4. FedLast'
    <3>1. \A i \in Held' : ring'[i] <= fed'
      BY <1>0, <2>1, <2>2, <2>3
    <3>2. phase' = "feed" => left' >= 1 /\ fed' + left' <= MaxFed
      BY <1>0, <1>1, RingAssumption DEF FeedSample, IInv, FedLast, TypeOK
    <3>3. QED
      BY <1>0, <2>1, <2>3, <3>1, <3>2 DEF FedLast
  <2>5. \A i \in Held' : ring'[i] > played'
    BY <1>0, <2>1, <2>2, <2>3
  <2>6. ASSUME NEW i \in Held', NEW j \in Held', Turn(i)' < Turn(j)'
        PROVE  ring'[i] < ring'[j]
    <3>1. Turn(i) < Turn(j) /\ Turn(i) \in Int /\ Turn(j) \in Int
      BY <1>0, <2>2, <2>6
    <3>2. CASE i \in Held /\ j \in Held
      BY <1>0, <2>3, <3>1, <3>2 DEF IInv, XaInOrder
    <3>3. CASE i \in Held /\ j = XAFeed
      BY <1>0, <2>3, <3>3
    <3>4. CASE i = XAFeed
      BY <1>0, <2>2, <3>1, <3>4
    <3>5. QED
      BY <2>2, <3>2, <3>3, <3>4
  <2>7. QED
    BY <2>4, <2>5, <2>6 DEF XaInOrder
<1>2. CASE MixSample
  <2>1. /\ fed' = fed /\ played' = ring[XAPlay] /\ ring' = ring /\ phase' # "feed"
    BY <1>2 DEF MixSample
  <2>2. /\ XAPlay \in Held /\ Held' = Held \ {XAPlay}
        /\ \A i \in Held' : Turn(XAPlay) < Turn(i)
        /\ \A i, j \in Held' : (Turn(i) < Turn(j))' => Turn(i) < Turn(j)
    BY <1>2, PlayedFirst
  <2>3. FedLast'
    BY <1>0, <2>1, <2>2 DEF IInv, FedLast
  <2>4. \A i \in Held' : ring'[i] > played'
    BY <1>0, <2>1, <2>2 DEF IInv, XaInOrder
  <2>5. \A i, j \in Held' : (Turn(i) < Turn(j))' => ring'[i] < ring'[j]
    BY <2>1, <2>2 DEF IInv, XaInOrder
  <2>6. QED
    BY <2>3, <2>4, <2>5 DEF XaInOrder
<1>3. ASSUME NEW iSize \in 0..MaxChunk, FeedXA(iSize) PROVE (FedLast /\ XaInOrder)'
  <2>1. UNCHANGED <<ring, XAFeed, XAPlay, fed, played>>
    BY <1>3 DEF FeedXA
  <2>2. phase' = "feed" => left' >= 1 /\ fed' + left' <= MaxFed
    BY <1>0, <1>3, <2>1, RingAssumption DEF FeedXA
  <2>3. QED
    BY <2>1, <2>2 DEF IInv, FedLast, XaInOrder, Held, Turn
<1>4. CASE /\ UNCHANGED xaVars
           /\ phase' # "feed" \/ UNCHANGED <<phase, left>>
  BY <1>4 DEF IInv, FedLast, XaInOrder, Held, Turn
<1>5. CASE MixDone
  BY <1>5 DEF MixDone, IInv, FedLast, XaInOrder, Held, Turn
<1>6. CASE Registers \/ BeginCall \/ VoiceEnds \/ VoiceDone \/ UNCHANGED vars
  BY <1>4, <1>6 DEF Registers, SetStart, SetLoop, SoundOn, SoundOff, BeginCall,
                    VoiceEnds, VoiceDone, vars
<1>7. ASSUME NEW k \in 0..MaxStep, VoiceSample(k) PROVE (FedLast /\ XaInOrder)'
  BY <1>4, <1>7 DEF VoiceSample
<1>8. QED
  BY <1>1, <1>2, <1>3, <1>5, <1>6, <1>7 DEF Next, Mixing, Feeding

\* The inductive invariant holds in every reachable state.
THEOREM InvariantHolds == Spec => []IInv
<1>1. IInv /\ [Next]_vars => IInv'
  BY TypeStep, VoiceStep, RingStep DEF IInv
<1>2. QED
  BY InitIInv, <1>1, PTL DEF Spec

\* No index leaves the ring or the decoded block, and no volume its range.
THEOREM TypeCorrect == Spec => []TypeOK
<1>1. IInv => TypeOK
  BY DEF IInv
<1>2. QED
  BY <1>1, InvariantHolds, PTL

\* A voice plays the sample it was started with, or one the guest sent it to
\* since the key-on, whenever the registers were written and wherever an
\* earlier sample left the loop address.
THEOREM OwnSamplePlayed == Spec => []OwnSample
<1>1. IInv => OwnSample
  BY DEF IInv, InSample, Playing, OwnSample
<1>2. QED
  BY <1>1, InvariantHolds, PTL

\* The ring holds unplayed sound in the order it was fed, after any overflow.
THEOREM SoundInOrder == Spec => []XaInOrder
<1>1. IInv => XaInOrder
  BY DEF IInv
<1>2. QED
  BY <1>1, InvariantHolds, PTL
==============================================================================
