----------------------------- MODULE RootCounters -----------------------------
(***************************************************************************)
(* The root counters of PsxCounters.c: three counters the guest programs   *)
(* and the vertical sync generator (index 3), with the one deadline        *)
(* (psxNextCounter) that tells psxBranchTest when psxRcntUpdate has work.  *)
(*                                                                         *)
(* The code stores time stamps of psxRegs->cycle and only ever subtracts   *)
(* them from it, so the model stores the differences: elapsed is           *)
(* psxRegs->cycle - sCycle and sinceSet is psxRegs->cycle -                *)
(* psxNextsCounter, both modulo the word size.  unsigned long is 32 bits   *)
(* wide, as on the ARM targets of the port.                                *)
(*                                                                         *)
(* Reading a counter (psxRcntRcount) changes nothing and is left out.      *)
(***************************************************************************)
EXTENDS Integers, FiniteSetsExt

CONSTANTS
  WordRange,      \* values of an unsigned word: 2^32
  Top,            \* 0xffff
  FrameRate,      \* PSXCLK / 60 (or / 50)
  Lines,          \* 262, scan lines of a frame
  BlankLines,     \* 22, those of the vertical blank
  Dots,           \* 386, dots of a line
  VSyncWA,        \* Config.VSyncWA: frames take half the time
  MaxBlock,       \* most cycles between two calls of psxBranchTest
  GuestCounters,  \* the counters the guest programs, some of 0..2
  Values,         \* the counts and targets it writes
  Modes           \* the modes it writes: sets of the names of ModeBits

VARIABLES
  counter,        \* psxCounters[0..3]
  sinceSet,       \* psxRegs->cycle - psxNextsCounter
  psxNextCounter, \* cycles from psxNextsCounter to the next due counter
  iStat,          \* the counters whose bit is set in I_STAT
  sinceTest       \* cycles since the last call of psxBranchTest

vars == <<counter, sinceSet, psxNextCounter, iStat, sinceTest>>

BIAS == 2
VSync == 3
Index == 0..3

\* Bits of a mode: 0x1, 0x10, 0x20, 0x40, 0x100 or 0x200 (the slow clock of
\* the counter), and 0x10000, which VSync uses for its blank phase.
ModeBits == {"stop", "target", "top", "repeat", "slow", "blank"}

ASSUME WordAssumption == WordRange \in Nat /\ WordRange % 4 = 0 /\ WordRange > 4
ASSUME ClockAssumption ==
  /\ FrameRate \in Nat /\ Lines \in Nat \ {0} /\ Dots \in Nat \ {0}
  /\ BlankLines \in 1..(Lines - 1) /\ VSyncWA \in BOOLEAN
  /\ FrameRate >= 2 * Lines /\ FrameRate < WordRange
ASSUME BlockAssumption == MaxBlock \in 1..(WordRange \div 4)
ASSUME GuestAssumption ==
  /\ GuestCounters \subseteq 0..2 /\ (2 \in GuestCounters => WordRange > 8)
  /\ Top \in Nat /\ Top < WordRange
  /\ Values \subseteq 0..(WordRange - 1)
  /\ Modes \subseteq SUBSET (ModeBits \ {"blank"})

Never == WordRange - 1           \* Cycle = 0xffffffff: nothing scheduled
Farthest == WordRange \div 2 - 1 \* 0x7fffffff

\* A word read as s32.
Signed(w) == IF w < WordRange \div 2 THEN w ELSE w - WordRange

------------------------------------------------------------------------------
(* Clocks *)

\* psxUpdateVSyncRate and psxUpdateVSyncRateEnd.
BlankTime == (FrameRate \div Lines) * BlankLines
ActiveRate ==
  IF VSyncWA THEN (FrameRate - BlankTime) \div 2 ELSE FrameRate - BlankTime
BlankRate == IF VSyncWA THEN BlankTime \div 2 ELSE BlankTime

\* The rate psxRcntWmode gives a counter: dots, lines, or an eighth of the
\* system clock.  It is derived from the rate VSync has at that moment.
RateFor(i, mode) ==
  CASE "slow" \notin mode -> 1
    [] i = 0 -> (counter[VSync].rate \div Dots) \div Lines
    [] i = 1 -> counter[VSync].rate \div Lines
    [] OTHER -> 8

\* psxRcntUpd: starts the counter again from its count, now.
Enabled(i, mode) ==
  /\ "stop" \notin mode \/ i # 2
  /\ mode \cap {"target", "top"} # {}

CycleFor(i, c) ==
  LET goal == IF "target" \in c.mode THEN c.target ELSE Top
  IN  IF Enabled(i, c.mode)
        THEN (((goal - c.count) * c.rate) % WordRange) \div BIAS
        ELSE Never

Upd(i, c) == [c EXCEPT !.elapsed = 0, !.Cycle = CycleFor(i, c)]

\* psxRcntReset of a counter that is due; without "repeat" it is the last time.
Reset(i, c) ==
  LET restarted == Upd(i, [c EXCEPT !.count = 0])
  IN  IF "repeat" \in c.mode THEN restarted
                             ELSE [restarted EXCEPT !.Cycle = Never]

Due(c) == c.elapsed >= c.Cycle

------------------------------------------------------------------------------
(* psxRcntSet: the deadline of the counter that is due first *)

Remaining(c) == Signed((c.Cycle - c.elapsed) % WordRange)

\* Mutant: no test for a counter that is overdue.
RcntSetNoOverdue(counters) ==
  LET left == {Remaining(counters[i]) :
                 i \in {j \in Index : counters[j].Cycle # Never}}
  IN  sinceSet' = 0 /\ psxNextCounter' = Min(left \cup {Farthest})

\* Mutant: the loop stops before the last counter.
RcntSetSkipsLast(counters) ==
  LET left == {Remaining(counters[i]) :
                 i \in {j \in 0..2 : counters[j].Cycle # Never}}
  IN  /\ sinceSet' = 0
      /\ psxNextCounter' = IF \E n \in left : n < 0
                             THEN 0
                             ELSE Min(left \cup {Farthest})

RcntSet(counters) ==
  LET left == {Remaining(counters[i]) :
                 i \in {j \in Index : counters[j].Cycle # Never}}
  IN  /\ sinceSet' = 0
      /\ psxNextCounter' = IF \E n \in left : n < 0
                             THEN 0
                             ELSE Min(left \cup {Farthest})

------------------------------------------------------------------------------
(* psxBranchTest and psxRcntUpdate *)

\* Mutant: psxRcntUpd before the new rate is set.
VSyncEdgeUpdFirst(c) ==
  IF "blank" \in c.mode
    THEN [Upd(VSync, c) EXCEPT !.mode = @ \ {"blank"}, !.rate = ActiveRate]
    ELSE [Upd(VSync, c) EXCEPT !.mode = @ \cup {"blank"}, !.rate = BlankRate]

\* One edge of VSync: the rate of the phase that begins, then psxRcntUpd.
VSyncEdge(c) ==
  IF "blank" \in c.mode
    THEN Upd(VSync, [c EXCEPT !.mode = @ \ {"blank"}, !.rate = ActiveRate])
    ELSE Upd(VSync, [c EXCEPT !.mode = @ \cup {"blank"}, !.rate = BlankRate])

TestDue == sinceSet >= psxNextCounter

\* Mutant: an update gives the counters that are not due a new start as well.
RcntUpdateRestartsAll ==
  LET due == {i \in Index : Due(counter[i])}
      edge == IF "blank" \in counter[VSync].mode THEN {VSync} ELSE {}
      updated == [i \in Index |->
                    IF i \notin due THEN Upd(i, counter[i])
                    ELSE IF i = VSync THEN VSyncEdge(counter[i])
                    ELSE Reset(i, counter[i])]
  IN  /\ counter' = updated
      /\ iStat' = iStat \cup (due \ edge)
      /\ RcntSet(updated)

RcntUpdate ==
  LET due == {i \in Index : Due(counter[i])}
      edge == IF "blank" \in counter[VSync].mode THEN {VSync} ELSE {}
      updated == [i \in Index |->
                    IF i \notin due THEN counter[i]
                    ELSE IF i = VSync THEN VSyncEdge(counter[i])
                    ELSE Reset(i, counter[i])]
  IN  /\ counter' = updated
      /\ iStat' = iStat \cup (due \ edge)
      /\ RcntSet(updated)

BranchTest ==
  /\ sinceTest > 0
  /\ sinceTest' = 0
  /\ \/ TestDue /\ RcntUpdate
     \/ ~TestDue /\ UNCHANGED <<counter, sinceSet, psxNextCounter, iStat>>

\* The guest executes instructions for n cycles.
Run(n) ==
  /\ sinceTest + n <= MaxBlock
  /\ sinceTest' = sinceTest + n
  /\ counter' = [i \in Index |->
                   [counter[i] EXCEPT !.elapsed = (@ + n) % WordRange]]
  /\ sinceSet' = (sinceSet + n) % WordRange
  /\ UNCHANGED <<psxNextCounter, iStat>>

------------------------------------------------------------------------------
(* The guest's registers *)

\* Mutant: a register write without psxRcntSet.
ProgramNoSet(i, c) ==
  /\ counter' = [counter EXCEPT ![i] = Upd(i, c)]
  /\ UNCHANGED <<iStat, sinceTest, sinceSet, psxNextCounter>>

Program(i, c) ==
  /\ counter' = [counter EXCEPT ![i] = Upd(i, c)]
  /\ RcntSet(counter')
  /\ UNCHANGED <<iStat, sinceTest>>

Wcount(i, value) == Program(i, [counter[i] EXCEPT !.count = value])

Wmode(i, mode) ==
  Program(i, [counter[i] EXCEPT !.mode = mode, !.count = 0,
                                !.rate = RateFor(i, mode)])

Wtarget(i, value) == Program(i, [counter[i] EXCEPT !.target = value])

\* The guest acknowledges an interrupt in I_STAT.
ClearIStat(i) ==
  /\ i \in iStat
  /\ iStat' = iStat \ {i}
  /\ UNCHANGED <<counter, sinceSet, psxNextCounter, sinceTest>>

------------------------------------------------------------------------------

Idle == [count |-> 0, mode |-> {}, target |-> 0, rate |-> 1, elapsed |-> 0,
         Cycle |-> Never]

\* psxRcntInit.
VSyncInit == [Idle EXCEPT !.mode = {"target", "repeat"}, !.target = 1,
                          !.rate = ActiveRate]

Init ==
  /\ counter = [i \in Index |-> IF i = VSync THEN Upd(VSync, VSyncInit) ELSE Idle]
  /\ sinceSet = 0
  /\ psxNextCounter = ActiveRate \div BIAS
  /\ iStat = {}
  /\ sinceTest = 0

Guest ==
  \E i \in GuestCounters :
    \/ \E value \in Values \cap 0..Top : Wcount(i, value)
    \/ \E value \in Values : Wtarget(i, value)
    \/ \E mode \in Modes : Wmode(i, mode)

Cpu == \E n \in 1..MaxBlock : Run(n)

Next == Cpu \/ BranchTest \/ Guest \/ \E i \in Index : ClearIStat(i)

Spec == Init /\ [][Next]_vars

------------------------------------------------------------------------------
(* Properties *)

Word == 0..(WordRange - 1)
Counters ==
  [count : 0..Top, mode : SUBSET ModeBits, target : Word, rate : Word,
   elapsed : Word, Cycle : Word]

TypeOK ==
  /\ counter \in [Index -> Counters]
  /\ sinceSet \in Word /\ psxNextCounter \in 0..Farthest
  /\ iStat \subseteq Index
  /\ sinceTest \in 0..MaxBlock

Scheduled(i) == counter[i].Cycle # Never

\* The single deadline stands for all four counters: whenever one is due, the
\* test in psxBranchTest lets psxRcntUpdate see it, whatever was written since.
NoCounterMissed ==
  \A i \in Index : Scheduled(i) /\ Due(counter[i]) => TestDue

\* A scheduled counter is late by less than the block the guest is running.
LateByOneBlock ==
  \A i \in Index :
    Scheduled(i) => counter[i].elapsed <= counter[i].Cycle + sinceTest

\* The blank and the active part of a frame have their own lengths, and VSync
\* is always scheduled with the length of the part it is in.
PhaseLength ==
  counter[VSync].Cycle =
    (IF "blank" \in counter[VSync].mode THEN BlankRate ELSE ActiveRate) \div BIAS

\* A counter that psxRcntReset unscheduled, or that is disabled, stays
\* unscheduled until the guest writes one of its registers: only time and
\* psxBranchTest change sinceTest.
StaysUnscheduled ==
  [][\A i \in Index : ~Scheduled(i) /\ sinceTest' # sinceTest => ~Scheduled(i)']_vars

\* "Only 1 interrupt" (psxRcntReset): a counter with nothing scheduled raises
\* no interrupt.
OnlyOneInterrupt ==
  [][\A i \in Index : ~Scheduled(i) /\ i \notin iStat => i \notin iStat']_vars

\* "Need to set a rate and target" (psxRcntWmode): every counter has a rate,
\* which psxRcntRcount divides by.
RateIsSet == \A i \in Index : counter[i].rate # 0

\* The inductive invariant the proofs use, in parts.  A scheduled counter is
\* at most half a turn of the clock away.
ScheduledSoon == \A i \in Index : Scheduled(i) => counter[i].Cycle <= Farthest

\* The deadline has not wrapped, and no scheduled counter comes before it
\* unless psxNextCounter is 0, which lets every test pass.
Deadline ==
  /\ sinceSet <= psxNextCounter + sinceTest
  /\ psxNextCounter # 0 =>
       \A i \in Index :
         Scheduled(i) =>
           psxNextCounter + counter[i].elapsed <= counter[i].Cycle + sinceSet

\* Nothing but its rate, its phase and its time stamp change in VSync.
VSyncKept ==
  /\ {"target", "repeat"} \subseteq counter[VSync].mode
  /\ counter[VSync].target = 1
  /\ counter[VSync].count = 0

\* A counter that repeats and counts is scheduled.
RepeatsScheduled ==
  \A i \in Index :
    "repeat" \in counter[i].mode /\ Enabled(i, counter[i].mode) => Scheduled(i)

IInv ==
  /\ TypeOK
  /\ ScheduledSoon
  /\ LateByOneBlock
  /\ Deadline
  /\ VSyncKept
  /\ PhaseLength
  /\ RepeatsScheduled
==============================================================================
