---------------------------------- MODULE Spu ----------------------------------
(***************************************************************************)
(* The sound processor of franspu: one of its voices, which decodes a      *)
(* sample block by block and shapes it with an envelope, and the ring that *)
(* carries the sound of movies from the CD-ROM to the mixer.               *)
(*                                                                         *)
(* The guest writes registers between two calls of SPU_async_1ms, which    *)
(* sees what they left behind: a key-on is a flag until then.  The model   *)
(* takes the loops of SPU_async_1ms, MixXA and FeedXA one sample at a      *)
(* time, with nothing of the guest in between.                             *)
(***************************************************************************)
EXTENDS Integers

CONSTANTS
  NumBlocks,      \* blocks of sound memory
  Flags,          \* the flags byte of each block: 1 end, 2 repeat, 4 loop start
  Starts,         \* the blocks the guest writes into the start register
  Loops,          \* those it writes into the loop register
  BlockSize,      \* 28, samples of a block
  MaxStep,        \* most samples an output sample takes at the highest pitch: 4
  NSSIZE,         \* output samples of one call
  MaxVolume,      \* 0x7fffffff
  Rates,          \* the changes of the envelope for one output sample
  ReleaseRates,   \* those of a release
  RingSize,       \* 44100, samples of the ring
  MaxChunk,       \* most samples of a sector of sound
  MaxFed,         \* bound on the samples fed, for TLC
  Repeat          \* 100, calls the last sample is repeated for

VARIABLES
  bNew, bOn, bStop, bIgnoreLoop,
  pStart, pLoop, pCurr,          \* block numbers; pCurr may be Stop
  iSBPos,                        \* samples taken of the decoded block
  State,                         \* 0 attack, 1 decay, 2 sustain
  EnvelopeVol,
  lVolume,                       \* lVolume # 0
  started,                       \* ghost: pStart when the voice was started
  given,                         \* ghost: loop registers written since the key-on
  ring, XAFeed, XAPlay, XARepeat,
  fed, played,                   \* ghosts: number of the sample fed, played last
  phase,                         \* "guest", "voice", "xa" or "feed"
  ns,                            \* output samples done in this call
  left                           \* samples still to be fed

keyVars == <<bNew, bIgnoreLoop, pStart, started, given>>
playVars == <<bOn, bStop, pCurr, iSBPos>>
envVars == <<State, EnvelopeVol, lVolume>>
voiceVars == <<keyVars, playVars, envVars, pLoop>>
xaVars == <<ring, XAFeed, XAPlay, XARepeat, fed, played>>
loopVars == <<phase, ns, left>>
vars == <<voiceVars, xaVars, loopVars>>

Blocks == 0..(NumBlocks - 1)
Stop == -1

IsEnd(b) == Flags[b] \in {1, 3, 5, 7}
IsLoopStart(b) == Flags[b] \in 4..7

\* The blocks of the sample that starts at a: up to its end block.
Sample(a) == {b \in Blocks : b >= a /\ \A c \in a..(b - 1) : ~IsEnd(c)}

ASSUME BlockAssumption ==
  /\ NumBlocks \in Nat \ {0} /\ Flags \in [Blocks -> 0..7]
  /\ Starts \subseteq Blocks /\ 0 \in Starts /\ Loops \subseteq Blocks

\* Sound memory is well formed, and is not written while it is played: from
\* each address the guest uses there is an end, and before the end of a sample
\* that repeats there is a loop start.
ASSUME SampleAssumption ==
  /\ \A a \in Starts \cup Loops : \E e \in Sample(a) : IsEnd(e)
  /\ \A a \in Starts : \A e \in Sample(a) :
       Flags[e] = 3 => \E b \in Sample(a) : b < e /\ IsLoopStart(b)

\* The releases of the guest end: the rates 29 to 31 of the register (26 to 31
\* of an exponential release) reach a change of 0, and the voice sounds on.
ASSUME MixAssumption ==
  /\ BlockSize \in Nat /\ MaxStep \in 1..BlockSize /\ NSSIZE \in Nat \ {0}
  /\ MaxVolume \in Nat \ {0} /\ Rates \subseteq Nat
  /\ ReleaseRates \subseteq Nat \ {0}
ASSUME RingAssumption ==
  /\ RingSize \in Nat /\ RingSize > 1
  /\ MaxChunk \in Nat /\ MaxFed \in Nat /\ Repeat \in Nat

------------------------------------------------------------------------------
(* The registers of the voice *)

\* Between a key-on and the mixing it replaces the sample that is started.
SetStart(a) ==
  /\ phase = "guest"
  /\ pStart' = a
  /\ UNCHANGED <<bNew, bIgnoreLoop, started, given, playVars, envVars, pLoop,
                 xaVars, loopVars>>

\* In force from now on, for the sample that plays or the one just keyed on.
SetLoop(a) ==
  /\ phase = "guest"
  /\ pLoop' = a /\ bIgnoreLoop' = TRUE
  /\ given' = given \cup {a}
  /\ UNCHANGED <<bNew, pStart, started, playVars, envVars, xaVars, loopVars>>

\* Mutant: the loop register stays in force for the next sample.
SoundOnKeepsLoop ==
  /\ phase = "guest"
  /\ bNew' = TRUE /\ given' = {}
  /\ UNCHANGED <<pStart, bIgnoreLoop, started, playVars, envVars, pLoop,
                 xaVars, loopVars>>

SoundOn ==
  /\ phase = "guest"
  /\ bNew' = TRUE /\ bIgnoreLoop' = FALSE
  /\ given' = {}
  /\ UNCHANGED <<pStart, started, playVars, envVars, pLoop, xaVars, loopVars>>

SoundOff ==
  /\ phase = "guest"
  /\ bStop' = TRUE
  /\ UNCHANGED <<keyVars, bOn, pCurr, iSBPos, envVars, pLoop, xaVars, loopVars>>

\* What a read of the envelope register returns is zero.
ReadsSilent == ~bNew /\ EnvelopeVol = 0 /\ ~lVolume

------------------------------------------------------------------------------
(* SPU_async_1ms: the voice *)

StartSound ==
  /\ lVolume' = TRUE /\ State' = 0 /\ EnvelopeVol' = 0
  /\ pCurr' = pStart /\ started' = pStart /\ iSBPos' = BlockSize
  /\ bNew' = FALSE /\ bStop' = FALSE /\ bOn' = TRUE

BeginCall ==
  /\ phase = "guest"
  /\ ns' = 0
  /\ \/ bNew /\ StartSound /\ phase' = "voice"
     \/ /\ ~bNew
        /\ phase' = IF bOn THEN "voice" ELSE "xa"
        /\ UNCHANGED <<bNew, started, playVars, envVars>>
  /\ UNCHANGED <<bIgnoreLoop, pStart, given, pLoop, xaVars, left>>

\* The block at pCurr is decoded: where its loop and its end lead.
LoopAfter(b) == IF IsLoopStart(b) /\ ~bIgnoreLoop THEN b ELSE pLoop

NextBlock(b) ==
  IF ~IsEnd(b) THEN b + 1
  ELSE IF Flags[b] # 3 THEN Stop ELSE LoopAfter(b)

\* Mutant: a release that would end below zero stops where it is.
ReleaseKeepsVolume ==
  /\ \E rate \in ReleaseRates :
       /\ EnvelopeVol' = IF EnvelopeVol < rate THEN EnvelopeVol ELSE EnvelopeVol - rate
       /\ bOn' = (bOn /\ EnvelopeVol >= rate)
  /\ UNCHANGED State

\* One step of MixADSR.
Release ==
  /\ \E rate \in ReleaseRates :
       /\ EnvelopeVol' = IF EnvelopeVol < rate THEN 0 ELSE EnvelopeVol - rate
       /\ bOn' = (bOn /\ EnvelopeVol >= rate)
  /\ UNCHANGED State

Rise(rate) == IF EnvelopeVol + rate > MaxVolume THEN MaxVolume ELSE EnvelopeVol + rate
Fall(rate) == IF EnvelopeVol < rate THEN 0 ELSE EnvelopeVol - rate
Attack ==
  /\ \E rate \in Rates :
       /\ EnvelopeVol' = Rise(rate)
       /\ State' = IF EnvelopeVol + rate > MaxVolume THEN 1 ELSE 0
  /\ UNCHANGED bOn

\* The sustain level is the guest's.
Decay ==
  /\ \E rate \in Rates : EnvelopeVol' = Fall(rate)
  /\ State' \in {1, 2}
  /\ UNCHANGED bOn

Sustain ==
  /\ \E rate \in Rates : EnvelopeVol' \in {Rise(rate), Fall(rate)}
  /\ UNCHANGED <<State, bOn>>

MixADSR ==
  /\ \/ bStop /\ Release
     \/ ~bStop /\ State = 0 /\ Attack
     \/ ~bStop /\ State = 1 /\ Decay
     \/ ~bStop /\ State = 2 /\ Sustain
  /\ lVolume' \in {loud \in BOOLEAN : loud => EnvelopeVol' > 0}

\* An output sample takes k samples of the block and then of the next one.
VoiceSample(k) ==
  /\ phase = "voice" /\ ns < NSSIZE
  /\ \/ /\ iSBPos + k <= BlockSize
        /\ iSBPos' = iSBPos + k
        /\ UNCHANGED <<pCurr, pLoop>>
     \/ /\ iSBPos + k > BlockSize /\ pCurr # Stop
        /\ iSBPos' = iSBPos + k - BlockSize
        /\ pLoop' = LoopAfter(pCurr)
        /\ pCurr' = NextBlock(pCurr)
  /\ MixADSR
  /\ ns' = ns + 1
  /\ UNCHANGED <<keyVars, bStop, xaVars, phase, left>>

\* The sample ended with the block before.
VoiceEnds ==
  /\ phase = "voice" /\ ns < NSSIZE
  /\ iSBPos + MaxStep > BlockSize /\ pCurr = Stop
  /\ bOn' = FALSE /\ lVolume' = FALSE /\ EnvelopeVol' = 0
  /\ phase' = "xa" /\ ns' = 0
  /\ UNCHANGED <<keyVars, bStop, pCurr, iSBPos, State, pLoop, xaVars, left>>

VoiceDone ==
  /\ phase = "voice" /\ ns = NSSIZE
  /\ phase' = "xa" /\ ns' = 0
  /\ UNCHANGED <<voiceVars, xaVars, left>>

------------------------------------------------------------------------------
(* MixXA *)

\* Mutant: the position runs past the end of the ring.
AfterNoWrap(i) == i + 1

After(i) == IF i + 1 = RingSize THEN 0 ELSE i + 1

\* Mutant: the position is moved before the sample is taken.
MixSampleLate ==
  /\ phase = "xa" /\ ns < NSSIZE /\ XAPlay # XAFeed
  /\ XAPlay' = After(XAPlay)
  /\ played' = ring[XAPlay']
  /\ ns' = ns + 1
  /\ UNCHANGED <<voiceVars, ring, XAFeed, XARepeat, fed, phase, left>>

MixSample ==
  /\ phase = "xa" /\ ns < NSSIZE /\ XAPlay # XAFeed
  /\ played' = ring[XAPlay]
  /\ XAPlay' = After(XAPlay)
  /\ ns' = ns + 1
  /\ UNCHANGED <<voiceVars, ring, XAFeed, XARepeat, fed, phase, left>>

\* What remains of the call is filled up, or left silent.
MixDone ==
  /\ phase = "xa" /\ (ns = NSSIZE \/ XAPlay = XAFeed)
  /\ XARepeat' = IF XAPlay = XAFeed /\ XARepeat > 0 THEN XARepeat - 1 ELSE XARepeat
  /\ phase' = "guest" /\ ns' = 0
  /\ UNCHANGED <<voiceVars, ring, XAFeed, XAPlay, fed, played, left>>

------------------------------------------------------------------------------
(* FeedXA, called when the CD-ROM has read a sector of sound *)

FeedXA(iSize) ==
  /\ phase = "guest" /\ fed + iSize <= MaxFed
  /\ XARepeat' = Repeat
  /\ left' = iSize
  /\ phase' = IF iSize = 0 THEN "guest" ELSE "feed"
  /\ UNCHANGED <<voiceVars, ring, XAFeed, XAPlay, fed, played, ns>>

\* A sample that fills the ring ends the feed and is given up itself; but when
\* the ring is played from its start, the positions meet and all is given up.
FeedSample ==
  LET full == After(XAFeed) = XAPlay
  IN  /\ phase = "feed"
      /\ ring' = [ring EXCEPT ![XAFeed] = fed + 1]
      /\ fed' = fed + 1
      /\ XAFeed' = IF full /\ XAPlay # 0 THEN XAPlay - 1 ELSE After(XAFeed)
      /\ left' = IF full THEN 0 ELSE left - 1
      /\ phase' = IF left' = 0 THEN "guest" ELSE "feed"
      /\ UNCHANGED <<voiceVars, XAPlay, XARepeat, played, ns>>

------------------------------------------------------------------------------

\* SPU_open.
Init ==
  /\ bNew = FALSE /\ bOn = FALSE /\ bStop = FALSE /\ bIgnoreLoop = FALSE
  /\ pStart = 0 /\ pLoop = 0 /\ pCurr = 0 /\ iSBPos = 0
  /\ State = 0 /\ EnvelopeVol = 0 /\ lVolume = FALSE
  /\ started = 0 /\ given = {}
  /\ ring = [i \in 0..(RingSize - 1) |-> 0]
  /\ XAFeed = 0 /\ XAPlay = 0 /\ XARepeat = 0
  /\ fed = 0 /\ played = 0
  /\ phase = "guest" /\ ns = 0 /\ left = 0

Registers ==
  \/ \E a \in Starts : SetStart(a)
  \/ \E a \in Loops : SetLoop(a)
  \/ SoundOn \/ SoundOff

Mixing ==
  \/ BeginCall \/ \E k \in 0..MaxStep : VoiceSample(k)
  \/ VoiceEnds \/ VoiceDone \/ MixSample \/ MixDone

Feeding == FeedSample \/ \E iSize \in 0..MaxChunk : FeedXA(iSize)

Next == Registers \/ Mixing \/ Feeding

\* psxRcntUpdate calls SPU_async every frame, and no loop of it waits.
Fairness == WF_vars(Mixing) /\ WF_vars(FeedSample)

Spec == Init /\ [][Next]_vars /\ Fairness

------------------------------------------------------------------------------
(* Properties *)

Slots == 0..(RingSize - 1)

TypeOK ==
  /\ bNew \in BOOLEAN /\ bOn \in BOOLEAN /\ bStop \in BOOLEAN
  /\ bIgnoreLoop \in BOOLEAN /\ lVolume \in BOOLEAN
  /\ pStart \in Starts /\ started \in Starts /\ given \subseteq Loops
  /\ pLoop \in Blocks /\ pCurr \in Blocks \cup {Stop}
  /\ iSBPos \in 0..BlockSize /\ State \in 0..2
  /\ EnvelopeVol \in 0..MaxVolume
  /\ ring \in [Slots -> 0..MaxFed] /\ XAFeed \in Slots /\ XAPlay \in Slots
  /\ XARepeat \in 0..Repeat /\ fed \in 0..MaxFed /\ played \in 0..MaxFed
  /\ phase \in {"guest", "voice", "xa", "feed"}
  /\ ns \in 0..NSSIZE /\ left \in 0..MaxChunk

\* Where the guest sent the voice since it keyed it on: the start register when
\* the voice was started, and the loop registers written after the key-on.
Sent == {started} \cup given

\* A voice decodes only samples it was sent to since its key-on, however late
\* the registers were written, and never one a loop address left over from an
\* earlier sample leads to.
OwnSample == bOn /\ ~bNew /\ pCurr # Stop => \E a \in Sent : pCurr \in Sample(a)

\* The slots between the two positions, and their order of playing.
Held ==
  IF XAPlay <= XAFeed THEN XAPlay..(XAFeed - 1)
                      ELSE Slots \ (XAFeed..(XAPlay - 1))
Turn(i) == IF i < XAPlay THEN i + RingSize ELSE i

\* The ring holds sound that was not played yet, in the order it was fed,
\* around the end of the buffer and after any overflow.
XaInOrder ==
  \A i \in Held :
    /\ ring[i] > played
    /\ \A j \in Held : Turn(i) < Turn(j) => ring[i] < ring[j]

\* A voice that was keyed off falls silent for the guest that polls its
\* envelope, unless it is keyed on again.
KeyOffHeard == (bStop /\ ~bNew) ~> (ReadsSilent \/ bNew)

\* What is inductive.  A voice that was keyed off goes on to the end of the call.
Playing == (bOn \/ phase = "voice") /\ ~bNew /\ pCurr # Stop

KeyWaits == bNew => phase # "voice"

InSample == Playing => \E a \in Sent : pCurr \in Sample(a)

\* The voice has passed a loop start of the sample it was started with.
LoopPassed == \E b \in Sample(started) : b < pCurr /\ IsLoopStart(b)

\* The loop address is the guest's once it wrote one.  Before that the voice
\* stays in its sample, and does not use the address until it passed a loop
\* start of its own.
LoopOwn ==
  /\ bIgnoreLoop <=> given # {}
  /\ bIgnoreLoop => pLoop \in given
  /\ Playing /\ ~bIgnoreLoop /\ LoopPassed => pLoop \in Sample(started)

FedLast ==
  /\ played <= fed /\ \A i \in Held : ring[i] <= fed
  /\ phase = "feed" => left >= 1 /\ fed + left <= MaxFed

IInv == TypeOK /\ KeyWaits /\ InSample /\ LoopOwn /\ FedLast /\ XaInOrder
==============================================================================
