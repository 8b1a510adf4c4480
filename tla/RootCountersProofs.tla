-------------------------- MODULE RootCountersProofs --------------------------
(***************************************************************************)
(* Proofs about RootCounters, for every word size, frame and guest: the    *)
(* inductive invariant IInv, and from it that the one deadline misses no   *)
(* counter; and about SaveState: how late a counter of a loaded state is.  *)
(***************************************************************************)
EXTENDS SaveState, TLAPS, WellFoundedInduction

USE DEF Index, VSync

------------------------------------------------------------------------------
(* Arithmetic *)

\* What is left modulo m is a number below m.
LEMMA ModType == \A x \in Int, m \in Nat \ {0} : x % m \in 0..(m - 1)
OBVIOUS

\* A number below m is what it leaves modulo m.
LEMMA ModSame == \A m \in Nat \ {0} : \A x \in 0..(m - 1) : x % m = x
OBVIOUS

\* One turn below 0 is one turn added.
LEMMA ModBelow == \A m \in Nat \ {0} : \A x \in (-m)..(-1) : x % m = x + m
OBVIOUS

\* A quotient is no larger than what was divided.
LEMMA DivType == \A x \in Nat, d \in Nat \ {0} : x \div d \in 0..x
OBVIOUS

\* A quotient multiplied again is no larger than what was divided.
LEMMA DivMul == \A x \in Nat, d \in Nat \ {0} : (x \div d) * d \in 0..x
OBVIOUS

\* Multiplication keeps the order.
LEMMA MulLess == \A q, b, l \in Nat : b <= l => q * b <= q * l /\ q * b \in Nat
OBVIOUS

\* Min of a set of natural numbers is its smallest element.
LEMMA Smallest ==
  ASSUME NEW S, S \subseteq Nat, S # {}
  PROVE  Min(S) \in S /\ \A y \in S : Min(S) <= y
<1> DEFINE R == {ss \in Nat \X Nat : ss[1] < ss[2]}
<1>0. IsWellFoundedOn(R, Nat)
  BY NatLessThanWellFounded, Zenon DEF OpToRel
<1> HIDE DEF R
<1>1. PICK x \in S : \A y \in S : ~(<<y, x>> \in R)
  BY <1>0, WFMin
<1>2. \A y \in S : x <= y
  <2> SUFFICES ASSUME NEW y \in S, y < x
               PROVE  FALSE
    OBVIOUS
  <2>1. <<y, x>> \in Nat \X Nat /\ <<y, x>>[1] < <<y, x>>[2]
    OBVIOUS
  <2>2. <<y, x>> \in R
    BY <2>1, Zenon DEF R
  <2> QED
    BY <1>1, <2>2
<1>3. QED
  BY <1>2 DEF Min

\* The bounds of the clock: half a turn and a block are less than a turn.
LEMMA Bounds ==
  /\ WordRange \in Nat \ {0} /\ WordRange > 4
  /\ Farthest \in Nat /\ WordRange = 2 * Farthest + 2
  /\ Never \in Nat /\ Farthest < Never /\ WordRange = Never + 1
  /\ MaxBlock \in Nat \ {0} /\ Farthest + MaxBlock < Never
  /\ Word = 0..Never
BY WordAssumption, BlockAssumption DEF Farthest, Never, Word

------------------------------------------------------------------------------
(* Counters *)

\* What psxRcntUpd does to a counter: it starts now, and is scheduled, within
\* half a turn, exactly if it is enabled.
LEMMA UpdFacts ==
  ASSUME NEW i \in Index, NEW c \in Counters
  PROVE  /\ Upd(i, c) \in Counters
         /\ Upd(i, c).elapsed = 0
         /\ Upd(i, c).mode = c.mode /\ Upd(i, c).count = c.count
         /\ Upd(i, c).target = c.target /\ Upd(i, c).rate = c.rate
         /\ Upd(i, c).Cycle = CycleFor(i, c)
         /\ Enabled(i, c.mode) => Upd(i, c).Cycle \in 0..Farthest
         /\ ~Enabled(i, c.mode) => Upd(i, c).Cycle = Never
<1> DEFINE goal == IF "target" \in c.mode THEN c.target ELSE Top
           product == (goal - c.count) * c.rate
<1>1. goal \in Nat /\ c.count \in Nat /\ c.rate \in Nat
  BY Bounds, GuestAssumption DEF Counters, Word
<1>2. product \in Int
  BY <1>1
<1> HIDE DEF goal, product
<1>3. product % WordRange \in 0..Never
  BY <1>2, ModType, Bounds DEF Never
<1>4. (product % WordRange) \div BIAS \in 0..Farthest
  BY <1>3, Bounds DEF BIAS, Never
<1>5. CycleFor(i, c) = IF Enabled(i, c.mode)
                         THEN (product % WordRange) \div BIAS ELSE Never
  BY DEF CycleFor, goal, product
<1>6. CycleFor(i, c) \in Word /\ 0 \in Word
  BY <1>4, <1>5, Bounds
<1> QED
  BY <1>4, <1>5, <1>6 DEF Upd, Counters

\* The types of a counter's fields.
LEMMA CounterTypes ==
  ASSUME NEW c \in Counters
  PROVE  /\ c.count \in Nat /\ c.target \in Nat /\ c.rate \in Nat
         /\ c.elapsed \in Nat /\ c.elapsed <= Never
         /\ c.Cycle \in Nat /\ c.Cycle <= Never
         /\ c.mode \subseteq ModeBits
BY Bounds, GuestAssumption DEF Counters

\* Half a turn of the clock.
HalfTurn == WordRange \div 2

LEMMA HalfTurns ==
  /\ HalfTurn \in Nat /\ HalfTurn + Farthest = Never /\ WordRange = 2 * HalfTurn
  /\ MaxBlock <= HalfTurn
BY WordAssumption, BlockAssumption DEF HalfTurn, Farthest, Never

\* The signed difference psxRcntSet computes is the cycles that are left, if
\* the counter is late by at most half a turn.
LEMMA RemainingIs ==
  ASSUME NEW c \in Counters, c.Cycle <= Farthest,
         c.elapsed <= c.Cycle + HalfTurn
  PROVE  Remaining(c) = c.Cycle - c.elapsed
<1>0. HalfTurn \in Nat /\ c.Cycle \in Nat /\ c.elapsed \in Nat /\ HalfTurn < WordRange
      /\ Farthest \in Nat
  BY CounterTypes, Bounds, HalfTurns
<1> DEFINE left == c.Cycle - c.elapsed
<1>1. left \in Int /\ -HalfTurn <= left /\ left <= Farthest
  BY <1>0
<1> HIDE DEF left
<1>2. CASE left >= 0
  BY <1>1, <1>2, ModSame, Bounds DEF Remaining, Signed, left
<1>3. CASE left < 0
  <2>1. left \in (-WordRange)..(-1)
    BY <1>0, <1>1, <1>3, WordAssumption
  <2>2. left % WordRange = left + WordRange
    BY <2>1, ModBelow, Bounds
  <2>3. ~(left + WordRange < WordRange \div 2)
    BY <1>0, <1>1, HalfTurns DEF HalfTurn
  <2>4. Signed(left + WordRange) = left
    BY <1>1, <2>3, Bounds DEF Signed
  <2> QED
    BY <2>2, <2>4 DEF Remaining, left
<1> QED
  BY <1>1, <1>2, <1>3

\* A counter that can be scheduled without a step being lost.
InTime(c, late) ==
  c.Cycle # Never => c.Cycle <= Farthest /\ c.elapsed <= c.Cycle + late

\* psxRcntSet starts the deadline again, at the counter that is due first, or
\* at once if one is overdue.
LEMMA SetDeadline ==
  ASSUME NEW cs \in [Index -> Counters], NEW late \in 0..HalfTurn,
         \A i \in Index : InTime(cs[i], late),
         RcntSet(cs)
  PROVE  /\ sinceSet' = 0
         /\ psxNextCounter' \in 0..Farthest
         /\ psxNextCounter' # 0 =>
              \A i \in Index :
                cs[i].Cycle # Never =>
                  psxNextCounter' + cs[i].elapsed <= cs[i].Cycle
<1> DEFINE left == {Remaining(cs[i]) : i \in {j \in Index : cs[j].Cycle # Never}}
           times == left \cup {Farthest}
<1>0. \A i \in Index :
        cs[i] \in Counters /\ cs[i].Cycle \in Nat /\ cs[i].elapsed \in Nat
  BY CounterTypes
<1>01. late \in Nat /\ HalfTurn \in Nat /\ late <= HalfTurn
  BY HalfTurns
<1>1. \A i \in Index :
        cs[i].Cycle # Never => Remaining(cs[i]) = cs[i].Cycle - cs[i].elapsed
  <2> SUFFICES ASSUME NEW i \in Index, cs[i].Cycle # Never
               PROVE  Remaining(cs[i]) = cs[i].Cycle - cs[i].elapsed
    OBVIOUS
  <2>1. cs[i].Cycle <= Farthest /\ cs[i].elapsed <= cs[i].Cycle + late
    BY DEF InTime
  <2>2. cs[i].elapsed <= cs[i].Cycle + HalfTurn
    BY <1>0, <1>01, <2>1
  <2> QED
    BY <1>0, <2>1, <2>2, RemainingIs
<1>2. left \subseteq Int
  BY <1>0, <1>1
<1>3. sinceSet' = 0 /\ psxNextCounter' = IF \E n \in left : n < 0 THEN 0 ELSE Min(times)
  BY DEF RcntSet
<1>4. \A i \in Index :
        cs[i].Cycle # Never => cs[i].Cycle - cs[i].elapsed \in times
  BY <1>1
<1> HIDE DEF left
<1>5. CASE \E n \in left : n < 0
  BY <1>3, <1>5, Bounds
<1>6. CASE ~\E n \in left : n < 0
  <2>1. times \subseteq Nat /\ times # {} /\ Farthest \in times /\ Farthest \in Nat
    BY <1>2, <1>6, Bounds
  <2> HIDE DEF times
  <2>2. Min(times) \in times /\ \A y \in times : Min(times) <= y
    BY <2>1, Smallest
  <2>3. psxNextCounter' = Min(times)
    BY <1>3, <1>6
  <2>4. psxNextCounter' \in 0..Farthest
    <3>1. Min(times) \in Nat /\ Min(times) <= Farthest
      BY <2>1, <2>2
    <3> QED
      BY <2>1, <2>3, <3>1
  <2>5. \A i \in Index :
          cs[i].Cycle # Never => psxNextCounter' <= cs[i].Cycle - cs[i].elapsed
    BY <1>4, <2>2, <2>3
  <2>6. \A i \in Index :
          cs[i].Cycle # Never => psxNextCounter' + cs[i].elapsed <= cs[i].Cycle
    BY <1>0, <2>4, <2>5, Bounds
  <2> QED
    BY <1>3, <2>4, <2>6
<1> QED
  BY <1>5, <1>6

\* The phases of a frame are numbers of cycles within half a turn.
LEMMA Phases ==
  /\ ActiveRate \in Word /\ BlankRate \in Word
  /\ ActiveRate \div BIAS \in 0..Farthest /\ BlankRate \div BIAS \in 0..Farthest
<1> DEFINE line == FrameRate \div Lines
<1>1. line \in Nat /\ line * Lines \in 0..FrameRate
  BY ClockAssumption, DivType, DivMul
<1>2. BlankLines \in Nat /\ BlankLines <= Lines /\ Lines \in Nat
  BY ClockAssumption
<1>3. BlankTime = line * BlankLines
  BY DEF BlankTime
<1> HIDE DEF line
<1>4. line * BlankLines \in Nat /\ line * BlankLines <= line * Lines
  BY <1>1, <1>2, MulLess
<1>5. BlankTime \in Nat /\ FrameRate - BlankTime \in Nat
      /\ BlankTime <= FrameRate /\ FrameRate - BlankTime <= FrameRate
  BY <1>1, <1>3, <1>4, ClockAssumption
<1>6. FrameRate <= Never /\ FrameRate \in Nat
  BY ClockAssumption, Bounds
<1>7. BlankTime \in 0..Never /\ FrameRate - BlankTime \in 0..Never
  BY <1>5, <1>6, Bounds
<1>8. \A x \in 0..Never : x \div 2 \in 0..Farthest /\ x \div 2 \in 0..Never
  BY Bounds
<1>9. BlankRate \in 0..Never /\ ActiveRate \in 0..Never
  BY <1>7, <1>8, ClockAssumption DEF BlankRate, ActiveRate
<1> QED
  BY <1>8, <1>9, Bounds DEF BIAS

\* What psxRcntReset does to a due counter: it starts now, scheduled exactly if
\* it repeats and is enabled.
LEMMA ResetFacts ==
  ASSUME NEW i \in Index, NEW c \in Counters
  PROVE  /\ Reset(i, c) \in Counters
         /\ Reset(i, c).elapsed = 0 /\ Reset(i, c).mode = c.mode
         /\ "repeat" \in c.mode /\ Enabled(i, c.mode) =>
              Reset(i, c).Cycle \in 0..Farthest
         /\ ~("repeat" \in c.mode /\ Enabled(i, c.mode)) =>
              Reset(i, c).Cycle = Never
<1> DEFINE stopped == [c EXCEPT !.count = 0]
<1>1. stopped \in Counters /\ stopped.mode = c.mode
  BY GuestAssumption DEF Counters
<1> HIDE DEF stopped
<1>2. /\ Upd(i, stopped) \in Counters
      /\ Upd(i, stopped).elapsed = 0 /\ Upd(i, stopped).mode = c.mode
      /\ Enabled(i, c.mode) => Upd(i, stopped).Cycle \in 0..Farthest
      /\ ~Enabled(i, c.mode) => Upd(i, stopped).Cycle = Never
  BY <1>1, UpdFacts
<1>3. Reset(i, c) = IF "repeat" \in c.mode
                      THEN Upd(i, stopped)
                      ELSE [Upd(i, stopped) EXCEPT !.Cycle = Never]
  <2>1. Upd(i, stopped).mode = c.mode
    BY <1>2
  <2> QED
    BY <2>1 DEF Reset, stopped
<1>4. CASE "repeat" \in c.mode
  BY <1>2, <1>3, <1>4
<1>5. CASE "repeat" \notin c.mode
  <2>1. Reset(i, c) = [Upd(i, stopped) EXCEPT !.Cycle = Never]
    BY <1>3, <1>5
  <2>2. Never \in Word
    BY Bounds
  <2> HIDE DEF Reset
  <2>3. \A r \in Counters :
          /\ [r EXCEPT !.Cycle = Never] \in Counters
          /\ [r EXCEPT !.Cycle = Never].elapsed = r.elapsed
          /\ [r EXCEPT !.Cycle = Never].mode = r.mode
          /\ [r EXCEPT !.Cycle = Never].Cycle = Never
    BY <2>2 DEF Counters
  <2> QED
    BY <1>2, <1>5, <2>1, <2>3
<1> QED
  BY <1>4, <1>5

\* VSync as the code leaves it: one unit of its rate, again and again.
OneUnit(c) == {"target", "repeat"} \subseteq c.mode /\ c.target = 1 /\ c.count = 0

\* psxRcntUpd schedules VSync half its rate ahead.
LEMMA VSyncUpd ==
  ASSUME NEW c \in Counters, OneUnit(c)
  PROVE  /\ Upd(VSync, c) \in Counters /\ OneUnit(Upd(VSync, c))
         /\ Upd(VSync, c).elapsed = 0 /\ Upd(VSync, c).mode = c.mode
         /\ Upd(VSync, c).Cycle = c.rate \div BIAS
<1>1. Enabled(VSync, c.mode)
  BY DEF Enabled, OneUnit
<1>2. c.rate \in 0..Never /\ (1 - 0) * c.rate = c.rate
  BY Bounds DEF Counters
<1>3. c.rate % WordRange = c.rate
  <2>1. WordRange \in Nat \ {0} /\ c.rate \in 0..(WordRange - 1)
    BY <1>2, Bounds
  <2> QED
    BY <2>1, ModSame
<1>4. CycleFor(VSync, c) = c.rate \div BIAS
  BY <1>1, <1>2, <1>3 DEF CycleFor, OneUnit
<1> QED
  BY <1>4, UpdFacts DEF OneUnit

\* An edge of VSync begins the other phase, with that phase's length.
LEMMA EdgeFacts ==
  ASSUME NEW c \in Counters, OneUnit(c)
  PROVE  /\ VSyncEdge(c) \in Counters /\ OneUnit(VSyncEdge(c))
         /\ VSyncEdge(c).elapsed = 0
         /\ "blank" \in c.mode => "blank" \notin VSyncEdge(c).mode
         /\ VSyncEdge(c).Cycle =
              (IF "blank" \in VSyncEdge(c).mode THEN BlankRate ELSE ActiveRate)
                \div BIAS
<1> DEFINE active == [c EXCEPT !.mode = @ \ {"blank"}, !.rate = ActiveRate]
           blank == [c EXCEPT !.mode = @ \cup {"blank"}, !.rate = BlankRate]
<1>1. /\ active \in Counters /\ OneUnit(active)
      /\ active.rate = ActiveRate /\ "blank" \notin active.mode
  BY Phases DEF Counters, OneUnit, ModeBits
<1>2. /\ blank \in Counters /\ OneUnit(blank)
      /\ blank.rate = BlankRate /\ "blank" \in blank.mode
  BY Phases DEF Counters, OneUnit, ModeBits
<1>3. VSyncEdge(c) = IF "blank" \in c.mode THEN Upd(VSync, active)
                                           ELSE Upd(VSync, blank)
  BY DEF VSyncEdge
<1> HIDE DEF active, blank
<1> QED
  BY <1>1, <1>2, <1>3, VSyncUpd

------------------------------------------------------------------------------
(* The invariant *)

\* A step that ends in psxRcntSet keeps the invariant, if it leaves every
\* counter in time and keeps what is known of VSync and of the modes.
LEMMA SetKeeps ==
  ASSUME counter' \in [Index -> Counters], sinceTest' \in 0..MaxBlock,
         \A i \in Index : InTime(counter'[i], sinceTest'),
         RcntSet(counter'), iStat' \subseteq Index,
         VSyncKept', PhaseLength', RepeatsScheduled'
  PROVE  IInv'
<1>1. /\ sinceSet' = 0
      /\ psxNextCounter' \in 0..Farthest
      /\ psxNextCounter' # 0 =>
           \A i \in Index :
             counter'[i].Cycle # Never =>
               psxNextCounter' + counter'[i].elapsed <= counter'[i].Cycle
  <2>1. sinceTest' \in 0..HalfTurn
    BY Bounds, HalfTurns
  <2> QED
    BY <2>1, SetDeadline
<1>2. sinceTest' \in Nat /\ 0 \in Word /\ Farthest \in Nat
  BY Bounds
<1>3. TypeOK'
  BY <1>1, <1>2 DEF TypeOK
<1>4. ScheduledSoon' /\ LateByOneBlock'
  BY DEF ScheduledSoon, LateByOneBlock, Scheduled, InTime
<1>5. Deadline'
  <2>1. sinceSet' <= psxNextCounter' + sinceTest'
    <3>1. psxNextCounter' \in Nat /\ sinceTest' \in Nat /\ sinceSet' = 0
      BY <1>1, <1>2
    <3>2. \A a, b \in Nat : 0 <= a + b
      OBVIOUS
    <3> HIDE DEF Index, VSync
    <3> QED
      BY <3>1, <3>2, Zenon
  <2>2. \A i \in Index : counter'[i].Cycle + sinceSet' = counter'[i].Cycle
    BY <1>1, CounterTypes
  <2> QED
    BY <1>1, <2>1, <2>2 DEF Deadline, Scheduled
<1> QED
  BY <1>3, <1>4, <1>5 DEF IInv

\* Every counter is in time as long as the invariant holds.
LEMMA AllInTime ==
  ASSUME IInv
  PROVE  \A i \in Index : counter[i] \in Counters /\ InTime(counter[i], sinceTest)
BY DEF IInv, TypeOK, ScheduledSoon, LateByOneBlock, Scheduled, InTime

\* The invariant holds in the state psxRcntInit leaves.
LEMMA InitIInv == Init => IInv
<1> SUFFICES ASSUME Init PROVE IInv
  OBVIOUS
<1>1. Idle \in Counters /\ Idle.Cycle = Never /\ Idle.mode = {} /\ Idle.elapsed = 0
  BY Bounds, GuestAssumption DEF Idle, Counters
<1>2. /\ VSyncInit \in Counters /\ OneUnit(VSyncInit)
      /\ VSyncInit.rate = ActiveRate /\ "blank" \notin VSyncInit.mode
  BY <1>1, Phases, Bounds DEF VSyncInit, Idle, Counters, OneUnit, ModeBits
<1> DEFINE first == Upd(VSync, VSyncInit)
<1>3. /\ first \in Counters /\ OneUnit(first) /\ first.elapsed = 0
      /\ "blank" \notin first.mode /\ first.Cycle = ActiveRate \div BIAS
  BY <1>2, VSyncUpd
<1>4. counter = [i \in Index |-> IF i = VSync THEN first ELSE Idle]
  BY DEF Init
<1> HIDE DEF first
<1>5. /\ counter \in [Index -> Counters] /\ counter[VSync] = first
      /\ \A i \in Index \ {VSync} : counter[i] = Idle
  BY <1>1, <1>3, <1>4
<1>6. /\ sinceSet = 0 /\ psxNextCounter = ActiveRate \div BIAS
      /\ iStat = {} /\ sinceTest = 0
  BY DEF Init
<1>7. ActiveRate \div BIAS \in 0..Farthest /\ Farthest \in Nat /\ MaxBlock \in Nat
      /\ 0 \in Word /\ Farthest < Never
  BY Phases, Bounds
<1>8. \A i \in Index : Scheduled(i) => i = VSync
  BY <1>1, <1>5 DEF Scheduled
<1>9. TypeOK
  BY <1>5, <1>6, <1>7 DEF TypeOK
<1>10. ScheduledSoon /\ LateByOneBlock /\ Deadline
  BY <1>3, <1>5, <1>6, <1>7, <1>8 DEF ScheduledSoon, LateByOneBlock, Deadline
<1>11. VSyncKept /\ PhaseLength
  BY <1>3, <1>5 DEF VSyncKept, PhaseLength, OneUnit
<1>12. RepeatsScheduled
  BY <1>1, <1>3, <1>5, <1>7 DEF RepeatsScheduled, Scheduled
<1> QED
  BY <1>9, <1>10, <1>11, <1>12 DEF IInv

\* Time passes for every counter alike.
LEMMA RunFields ==
  ASSUME counter \in [Index -> Counters], NEW n \in 1..MaxBlock, Run(n)
  PROVE  /\ counter' \in [Index -> Counters]
         /\ \A i \in Index :
              /\ counter'[i] \in Counters
              /\ counter'[i].elapsed = (counter[i].elapsed + n) % WordRange
              /\ counter'[i].Cycle = counter[i].Cycle
              /\ counter'[i].mode = counter[i].mode
              /\ counter'[i].target = counter[i].target
              /\ counter'[i].count = counter[i].count
<1>1. counter' = [i \in Index |-> [counter[i] EXCEPT !.elapsed = (@ + n) % WordRange]]
  BY DEF Run
<1>2. ASSUME NEW i \in Index
      PROVE  /\ counter'[i] \in Counters
             /\ counter'[i].elapsed = (counter[i].elapsed + n) % WordRange
             /\ counter'[i].Cycle = counter[i].Cycle
             /\ counter'[i].mode = counter[i].mode
             /\ counter'[i].target = counter[i].target
             /\ counter'[i].count = counter[i].count
  <2>1. counter[i] \in Counters /\ counter[i].elapsed + n \in Int
    BY CounterTypes, Bounds
  <2>2. (counter[i].elapsed + n) % WordRange \in Word
    BY <2>1, ModType, Bounds DEF Word
  <2>3. counter'[i] = [counter[i] EXCEPT !.elapsed = (counter[i].elapsed + n) % WordRange]
    BY <1>1
  <2> QED
    BY <2>1, <2>2, <2>3 DEF Counters
<1> QED
  BY <1>1, <1>2

\* Too little of it passes for a time stamp that counts to wrap.
LEMMA RunStep ==
  ASSUME IInv, NEW n \in 1..MaxBlock, Run(n)
  PROVE  IInv'
<1>0. /\ counter \in [Index -> Counters] /\ sinceSet \in Nat
      /\ psxNextCounter \in 0..Farthest /\ sinceTest \in 0..MaxBlock
      /\ iStat \subseteq Index
  BY Bounds DEF IInv, TypeOK
<1>1. /\ sinceTest' = sinceTest + n /\ sinceTest' \in 0..MaxBlock
      /\ psxNextCounter' = psxNextCounter /\ iStat' = iStat
      /\ sinceSet' = (sinceSet + n) % WordRange
  <2>1. /\ sinceTest + n <= MaxBlock /\ sinceTest' = sinceTest + n
        /\ psxNextCounter' = psxNextCounter /\ iStat' = iStat
        /\ sinceSet' = (sinceSet + n) % WordRange
    BY DEF Run
  <2>2. MaxBlock \in Nat
    BY Bounds
  <2> QED
    BY <1>0, <2>1, <2>2
<1>2. \A x \in Nat : x < WordRange => x % WordRange = x
  BY ModSame, Bounds
<1>3. \A x \in Nat : x % WordRange \in Word
  BY ModType, Bounds DEF Word
<1>5. /\ counter' \in [Index -> Counters]
      /\ \A i \in Index :
           /\ counter'[i] \in Counters
           /\ counter'[i].elapsed = (counter[i].elapsed + n) % WordRange
           /\ counter'[i].Cycle = counter[i].Cycle
           /\ counter'[i].mode = counter[i].mode
           /\ counter'[i].target = counter[i].target
           /\ counter'[i].count = counter[i].count
  BY <1>0, RunFields
<1>6. counter' \in [Index -> Counters]
  BY <1>5
<1>7. \A i \in Index :
        Scheduled(i) => counter'[i].elapsed = counter[i].elapsed + n
  <2> SUFFICES ASSUME NEW i \in Index, Scheduled(i)
               PROVE  counter'[i].elapsed = counter[i].elapsed + n
    OBVIOUS
  <2>1. counter[i].elapsed \in Nat /\ counter[i].Cycle \in Nat
    BY <1>0, CounterTypes
  <2>2. counter[i].elapsed <= counter[i].Cycle + sinceTest
        /\ counter[i].Cycle <= Farthest
    BY DEF IInv, LateByOneBlock, ScheduledSoon
  <2>3. counter[i].elapsed + n < WordRange
    BY <1>0, <1>1, <2>1, <2>2, Bounds
  <2> QED
    BY <1>2, <1>5, <2>1, <2>3
<1>8. sinceSet' = sinceSet + n
  <2>1. sinceSet <= psxNextCounter + sinceTest
    BY DEF IInv, Deadline
  <2>2. sinceSet + n < WordRange
    BY <1>0, <1>1, <2>1, Bounds
  <2> QED
    BY <1>0, <1>1, <1>2, <2>2
<1>9. \A i \in Index : Scheduled(i)' <=> Scheduled(i)
  BY <1>5 DEF Scheduled
<1>10. TypeOK'
  <2>1. sinceSet' \in Word
    BY <1>0, <1>1, <1>3
  <2> QED
    BY <1>0, <1>1, <1>6, <2>1 DEF TypeOK
<1>11. ScheduledSoon'
  BY <1>5, <1>9 DEF IInv, ScheduledSoon
<1>12. \A i \in Index : counter[i].elapsed \in Nat /\ counter[i].Cycle \in Nat
  BY <1>0, CounterTypes
<1>13. LateByOneBlock'
  BY <1>0, <1>1, <1>5, <1>7, <1>9, <1>12 DEF IInv, LateByOneBlock
<1>14. Deadline'
  <2>1. sinceSet' <= psxNextCounter' + sinceTest'
    BY <1>0, <1>1, <1>8 DEF IInv, Deadline
  <2>2. ASSUME psxNextCounter' # 0, NEW i \in Index, Scheduled(i)'
        PROVE  psxNextCounter' + counter'[i].elapsed <= counter'[i].Cycle + sinceSet'
    <3>1. Scheduled(i) /\ psxNextCounter # 0
      BY <1>1, <1>9, <2>2
    <3>2. psxNextCounter + counter[i].elapsed <= counter[i].Cycle + sinceSet
      BY <3>1 DEF IInv, Deadline
    <3>3. counter'[i].elapsed = counter[i].elapsed + n /\ counter'[i].Cycle = counter[i].Cycle
      BY <1>5, <1>7, <3>1
    <3> QED
      BY <1>0, <1>1, <1>8, <1>12, <3>2, <3>3
  <2> QED
    BY <2>1, <2>2 DEF Deadline
<1>15. VSyncKept' /\ PhaseLength' /\ RepeatsScheduled'
  BY <1>5, <1>9 DEF IInv, VSyncKept, PhaseLength, RepeatsScheduled
<1> QED
  BY <1>10, <1>11, <1>13, <1>14, <1>15 DEF IInv

\* The guest writes a register of counter i.
LEMMA ProgramStep ==
  ASSUME IInv, NEW i \in 0..2, NEW c \in Counters, Program(i, c)
  PROVE  IInv'
<1>1. /\ counter \in [Index -> Counters] /\ sinceTest \in 0..MaxBlock
      /\ iStat \subseteq Index
  BY DEF IInv, TypeOK
<1>2. /\ counter' = [counter EXCEPT ![i] = Upd(i, c)] /\ RcntSet(counter')
      /\ iStat' = iStat /\ sinceTest' = sinceTest
  BY DEF Program
<1>3. /\ Upd(i, c) \in Counters /\ Upd(i, c).elapsed = 0
      /\ Upd(i, c).mode = c.mode
      /\ Enabled(i, c.mode) => Upd(i, c).Cycle \in 0..Farthest
      /\ ~Enabled(i, c.mode) => Upd(i, c).Cycle = Never
  BY UpdFacts
<1>4. /\ counter' \in [Index -> Counters]
      /\ counter'[i] = Upd(i, c)
      /\ \A j \in Index \ {i} : counter'[j] = counter[j]
  BY <1>1, <1>2, <1>3
<1>5. \A j \in Index : InTime(counter'[j], sinceTest')
  <2>1. InTime(counter'[i], sinceTest')
    <3>1. counter'[i].elapsed = 0 /\ counter'[i].Cycle \in Nat
      BY <1>3, <1>4, CounterTypes
    <3>2. counter'[i].Cycle # Never => counter'[i].Cycle <= Farthest
      BY <1>3, <1>4, Bounds
    <3>3. sinceTest' \in Nat
      BY <1>1, <1>2, Bounds
    <3> QED
      BY <3>1, <3>2, <3>3 DEF InTime
  <2>2. \A j \in Index \ {i} : InTime(counter'[j], sinceTest')
    BY <1>2, <1>4, AllInTime
  <2> QED
    BY <2>1, <2>2
<1>6. counter'[VSync] = counter[VSync]
  BY <1>4
<1>7. VSyncKept' /\ PhaseLength'
  BY <1>6 DEF IInv, VSyncKept, PhaseLength
<1>8. RepeatsScheduled'
  BY <1>3, <1>4, Bounds DEF IInv, RepeatsScheduled, Scheduled
<1> QED
  BY <1>1, <1>2, <1>4, <1>5, <1>7, <1>8, SetKeeps

\* A register write of the guest is such a step: its values are those of the
\* registers.
LEMMA GuestProgram ==
  ASSUME counter \in [Index -> Counters], Guest
  PROVE  \E i \in 0..2, c \in Counters : Program(i, c)
<1>1. PICK i \in GuestCounters :
        \/ \E value \in Values \cap 0..Top : Wcount(i, value)
        \/ \E value \in Values : Wtarget(i, value)
        \/ \E mode \in Modes : Wmode(i, mode)
  BY DEF Guest
<1>2. i \in 0..2 /\ i \in Index
  BY GuestAssumption
<1>3. counter[i] \in Counters /\ counter[VSync] \in Counters
  BY <1>2
<1>4. Values \subseteq Word /\ \A mode \in Modes : mode \subseteq ModeBits
  BY GuestAssumption DEF Word
<1>5. CASE \E value \in Values \cap 0..Top : Wcount(i, value)
  <2>1. PICK value \in 0..Top : Wcount(i, value)
    BY <1>5
  <2>2. [counter[i] EXCEPT !.count = value] \in Counters
    BY <1>3 DEF Counters
  <2> QED
    BY <1>2, <2>1, <2>2 DEF Wcount
<1>6. CASE \E value \in Values : Wtarget(i, value)
  <2>1. PICK value \in Word : Wtarget(i, value)
    BY <1>4, <1>6
  <2>2. [counter[i] EXCEPT !.target = value] \in Counters
    BY <1>3 DEF Counters
  <2> QED
    BY <1>2, <2>1, <2>2 DEF Wtarget
<1>7. CASE \E mode \in Modes : Wmode(i, mode)
  <2>1. PICK mode \in SUBSET ModeBits : Wmode(i, mode)
    BY <1>4, <1>7
  <2>2. RateFor(i, mode) \in Word
    <3>1. counter[VSync].rate \in 0..Never
      BY <1>3, Bounds DEF Counters
    <3>2. \A x \in 0..Never : /\ x \div Lines \in 0..Never
                              /\ x \div Dots \in 0..Never
      BY DivType, ClockAssumption, Bounds
    <3>3. 1 \in Word /\ (i = 2 => 8 \in Word)
      BY Bounds, GuestAssumption
    <3> QED
      BY <1>2, <3>1, <3>2, <3>3, Bounds DEF RateFor
  <2>3. [counter[i] EXCEPT !.mode = mode, !.count = 0,
                           !.rate = RateFor(i, mode)] \in Counters
    <3>1. \A x \in Counters, r \in Word :
            [x EXCEPT !.mode = mode, !.count = 0, !.rate = r] \in Counters
      <4>1. 0 \in 0..Top
        BY GuestAssumption
      <4> QED
        BY <4>1 DEF Counters
    <3> QED
      BY <1>3, <2>2, <3>1
  <2> QED
    BY <1>2, <2>1, <2>3 DEF Wmode
<1> QED
  BY <1>1, <1>5, <1>6, <1>7

LEMMA GuestStep ==
  ASSUME IInv, Guest
  PROVE  IInv'
<1>1. PICK i \in 0..2, c \in Counters : Program(i, c)
  BY GuestProgram DEF IInv, TypeOK
<1> QED
  BY <1>1, ProgramStep

\* What psxRcntUpdate makes of the four counters.
Updated ==
  [i \in Index |-> IF ~Due(counter[i]) THEN counter[i]
                   ELSE IF i = VSync THEN VSyncEdge(counter[i])
                   ELSE Reset(i, counter[i])]

\* The invariant says of the counters what is said of them in a file.
LEMMA SoundNow == IInv => Sound(counter) /\ LateBy(counter, sinceTest)
BY DEF IInv, TypeOK, ScheduledSoon, VSyncKept, PhaseLength, RepeatsScheduled,
       LateByOneBlock, Sound, LateBy, Scheduled

\* An update leaves every counter in time with no block before it: those that
\* are due start again, the others have time left.  However late it comes.
LEMMA UpdateStep ==
  ASSUME Sound(counter), iStat \subseteq Index, RcntUpdate, sinceTest' = 0
  PROVE  /\ IInv'
         /\ \A i \in Index : ~Scheduled(i) => ~Scheduled(i)'
<1>1. counter' = Updated /\ RcntSet(counter') /\ iStat' \subseteq Index
  BY DEF RcntUpdate, Updated
<1>2. \A i \in Index : /\ counter[i] \in Counters
                       /\ counter[i].Cycle \in Nat /\ counter[i].elapsed \in Nat
  BY CounterTypes DEF Sound
<1>3. OneUnit(counter[VSync])
  BY DEF Sound, OneUnit
<1>4. \A i \in Index : ~Due(counter[i]) =>
        counter'[i] = counter[i] /\ InTime(counter'[i], 0)
  <2> SUFFICES ASSUME NEW i \in Index, ~Due(counter[i])
               PROVE  counter'[i] = counter[i] /\ InTime(counter'[i], 0)
    OBVIOUS
  <2>1. counter'[i] = counter[i]
    BY <1>1 DEF Updated
  <2>2. counter[i].elapsed <= counter[i].Cycle + 0
    BY <1>2 DEF Due
  <2>3. counter[i].Cycle # Never => counter[i].Cycle <= Farthest
    BY DEF Sound
  <2> QED
    BY <2>1, <2>2, <2>3 DEF InTime
<1>5. Due(counter[VSync]) => counter'[VSync] = VSyncEdge(counter[VSync])
  BY <1>1 DEF Updated
<1>6. \A i \in 0..2 : Due(counter[i]) => counter'[i] = Reset(i, counter[i])
  BY <1>1 DEF Updated
<1>7. /\ VSyncEdge(counter[VSync]) \in Counters
      /\ OneUnit(VSyncEdge(counter[VSync]))
      /\ VSyncEdge(counter[VSync]).elapsed = 0
      /\ VSyncEdge(counter[VSync]).Cycle =
           (IF "blank" \in VSyncEdge(counter[VSync]).mode
              THEN BlankRate ELSE ActiveRate) \div BIAS
  BY <1>2, <1>3, EdgeFacts
<1>8. VSyncEdge(counter[VSync]).Cycle \in 0..Farthest
  BY <1>7, Phases
<1>9. \A r : r.elapsed = 0 /\ r.Cycle \in 0..Farthest => InTime(r, 0)
  BY Bounds DEF InTime
<1>10. \A r : r.Cycle = Never => InTime(r, 0)
  BY DEF InTime
<1>11. \A i \in 0..2 :
         /\ Reset(i, counter[i]) \in Counters /\ InTime(Reset(i, counter[i]), 0)
         /\ Reset(i, counter[i]).mode = counter[i].mode
         /\ Reset(i, counter[i]).Cycle # Never <=>
              "repeat" \in counter[i].mode /\ Enabled(i, counter[i].mode)
  <2> SUFFICES ASSUME NEW i \in 0..2
               PROVE  /\ Reset(i, counter[i]) \in Counters
                      /\ InTime(Reset(i, counter[i]), 0)
                      /\ Reset(i, counter[i]).mode = counter[i].mode
                      /\ Reset(i, counter[i]).Cycle # Never <=>
                           /\ "repeat" \in counter[i].mode
                           /\ Enabled(i, counter[i].mode)
    OBVIOUS
  <2>1. /\ Reset(i, counter[i]) \in Counters
        /\ Reset(i, counter[i]).elapsed = 0
        /\ Reset(i, counter[i]).mode = counter[i].mode
        /\ "repeat" \in counter[i].mode /\ Enabled(i, counter[i].mode) =>
             Reset(i, counter[i]).Cycle \in 0..Farthest
        /\ ~("repeat" \in counter[i].mode /\ Enabled(i, counter[i].mode)) =>
             Reset(i, counter[i]).Cycle = Never
    BY <1>2, ResetFacts
  <2>2. Never \notin 0..Farthest
    BY Bounds
  <2> QED
    BY <1>9, <1>10, <2>1, <2>2
<1>12. \A i \in 0..2 : counter'[i] \in Counters /\ InTime(counter'[i], 0)
  BY <1>2, <1>4, <1>6, <1>11
<1>13. counter'[VSync] \in Counters /\ InTime(counter'[VSync], 0)
  BY <1>2, <1>4, <1>5, <1>7, <1>8, <1>9
<1>14. \A i \in Index : counter'[i] \in Counters /\ InTime(counter'[i], 0)
  BY <1>12, <1>13
<1>15. counter' \in [Index -> Counters]
  BY <1>1, <1>14 DEF Updated
<1>16. VSyncKept' /\ PhaseLength'
  <2>1. CASE Due(counter[VSync])
    BY <1>5, <1>7, <2>1 DEF VSyncKept, PhaseLength, OneUnit
  <2>2. CASE ~Due(counter[VSync])
    BY <1>4, <2>2 DEF Sound, VSyncKept, PhaseLength
  <2> QED
    BY <2>1, <2>2
<1>17. Scheduled(VSync)' /\ Scheduled(VSync)
  <2>1. \A p \in {ActiveRate \div BIAS, BlankRate \div BIAS} : p # Never
    BY Phases, Bounds
  <2> QED
    BY <1>16, <2>1 DEF Sound, PhaseLength, Scheduled
<1>18. \A i \in 0..2 :
         /\ "repeat" \in counter'[i].mode /\ Enabled(i, counter'[i].mode) =>
              Scheduled(i)'
         /\ ~Scheduled(i) => ~Scheduled(i)'
  <2> SUFFICES ASSUME NEW i \in 0..2
               PROVE  /\ "repeat" \in counter'[i].mode
                           /\ Enabled(i, counter'[i].mode) => Scheduled(i)'
                      /\ ~Scheduled(i) => ~Scheduled(i)'
    OBVIOUS
  <2>1. "repeat" \in counter[i].mode /\ Enabled(i, counter[i].mode) => Scheduled(i)
    BY DEF Sound, Scheduled
  <2>2. CASE Due(counter[i])
    BY <1>6, <1>11, <2>1, <2>2 DEF Scheduled
  <2>3. CASE ~Due(counter[i])
    BY <1>4, <2>1, <2>3 DEF Scheduled
  <2> QED
    BY <2>2, <2>3
<1>19. RepeatsScheduled'
  BY <1>17, <1>18 DEF RepeatsScheduled
<1>20. 0 \in 0..MaxBlock
  BY Bounds
<1>21. IInv'
  BY <1>1, <1>14, <1>15, <1>16, <1>19, <1>20, SetKeeps
<1> QED
  BY <1>17, <1>18, <1>21

\* Whenever a scheduled counter is due, the test in psxBranchTest passes.
LEMMA DeadlineCovers == IInv => NoCounterMissed
<1> SUFFICES ASSUME IInv, NEW i \in Index, Scheduled(i), Due(counter[i])
             PROVE  TestDue
  BY DEF NoCounterMissed
<1>1. /\ counter[i].Cycle \in Nat /\ counter[i].elapsed \in Nat
      /\ counter[i].elapsed >= counter[i].Cycle
  BY AllInTime, CounterTypes DEF Due
<1>2. sinceSet \in Nat /\ psxNextCounter \in Nat
  BY Bounds DEF IInv, TypeOK
<1>3. CASE psxNextCounter = 0
  BY <1>2, <1>3 DEF TestDue
<1>4. CASE psxNextCounter # 0
  <2>1. psxNextCounter + counter[i].elapsed <= counter[i].Cycle + sinceSet
    BY <1>4 DEF IInv, Deadline
  <2> QED
    BY <1>1, <1>2, <2>1 DEF TestDue
<1> QED
  BY <1>3, <1>4

\* A branch test that finds nothing due leaves counters with time to spare.
LEMMA TestStep ==
  ASSUME IInv, BranchTest
  PROVE  /\ IInv'
         /\ \A i \in Index : ~Scheduled(i) => ~Scheduled(i)'
<1>1. CASE TestDue /\ RcntUpdate
  <2>1. iStat \subseteq Index /\ sinceTest' = 0
    BY DEF IInv, TypeOK, BranchTest
  <2> QED
    BY <1>1, <2>1, SoundNow, UpdateStep
<1>2. CASE ~TestDue /\ UNCHANGED <<counter, sinceSet, psxNextCounter, iStat>>
  <2>1. /\ counter' = counter /\ sinceSet' = sinceSet
        /\ psxNextCounter' = psxNextCounter /\ iStat' = iStat
    BY <1>2
  <2>2. sinceTest' = 0
    BY DEF BranchTest
  <2>3. /\ sinceSet \in Nat /\ psxNextCounter \in Nat /\ sinceSet < psxNextCounter
    BY <1>2, Bounds DEF IInv, TypeOK, TestDue
  <2>4. TypeOK'
    BY <2>1, <2>2, Bounds DEF IInv, TypeOK
  <2>5. \A i \in Index : Scheduled(i)' <=> Scheduled(i)
    BY <2>1 DEF Scheduled
  <2>6. \A i \in Index : counter[i].Cycle \in Nat /\ counter[i].elapsed \in Nat
    BY AllInTime, CounterTypes
  <2>7. ASSUME NEW i \in Index, Scheduled(i)
        PROVE  counter[i].elapsed <= counter[i].Cycle + 0
    <3>1. ~Due(counter[i])
      BY <1>2, <2>7, DeadlineCovers DEF NoCounterMissed
    <3> QED
      BY <2>6, <3>1 DEF Due
  <2>8. LateByOneBlock'
    BY <2>1, <2>2, <2>5, <2>7 DEF LateByOneBlock
  <2>9. Deadline'
    <3>1. sinceSet <= psxNextCounter + 0
      BY <2>3
    <3> QED
      BY <2>1, <2>2, <2>5, <3>1 DEF IInv, Deadline
  <2>10. ScheduledSoon' /\ VSyncKept' /\ PhaseLength' /\ RepeatsScheduled'
    BY <2>1, <2>5
    DEF IInv, ScheduledSoon, VSyncKept, PhaseLength, RepeatsScheduled
  <2> QED
    BY <2>4, <2>5, <2>8, <2>9, <2>10 DEF IInv
<1> QED
  BY <1>1, <1>2 DEF BranchTest

\* What touches neither a counter nor a time keeps the invariant.
LEMMA TimesUnchanged ==
  ASSUME IInv, iStat' \subseteq Index,
         UNCHANGED <<counter, sinceSet, psxNextCounter, sinceTest>>
  PROVE  IInv'
BY DEF IInv, TypeOK, ScheduledSoon, LateByOneBlock, Deadline, VSyncKept,
       PhaseLength, RepeatsScheduled, Scheduled

\* Every step keeps the invariant.
LEMMA NextIInv == IInv /\ [Next]_vars => IInv'
<1> SUFFICES ASSUME IInv, [Next]_vars PROVE IInv'
  OBVIOUS
<1>0. iStat \subseteq Index
  BY DEF IInv, TypeOK
<1>1. CASE Cpu
  BY <1>1, RunStep DEF Cpu
<1>2. CASE BranchTest
  BY <1>2, TestStep
<1>3. CASE Guest
  BY <1>3, GuestStep
<1>4. CASE \E i \in Index : ClearIStat(i)
  BY <1>0, <1>4, TimesUnchanged DEF ClearIStat
<1>5. CASE UNCHANGED vars
  BY <1>0, <1>5, TimesUnchanged DEF vars
<1> QED
  BY <1>1, <1>2, <1>3, <1>4, <1>5 DEF Next

\* The inductive invariant of the counters (PsxCounters.c) holds for every
\* word size, frame, block length and guest.
THEOREM InvariantHolds == Spec => []IInv
BY InitIInv, NextIInv, PTL DEF Spec

\* The counters keep the types of the code's words, and psxNextCounter is
\* never negative as an s32.
THEOREM TypeCorrect == Spec => []TypeOK
<1>1. IInv => TypeOK
  BY DEF IInv
<1> QED
  BY <1>1, InvariantHolds, PTL

\* The one deadline of psxBranchTest misses no counter: whenever a scheduled
\* counter is due, psxRcntUpdate is called.
THEOREM DeadlineStands == Spec => []NoCounterMissed
BY DeadlineCovers, InvariantHolds, PTL

\* A scheduled counter is late by no more than the block the guest runs.
THEOREM LateBounded == Spec => []LateByOneBlock
<1>1. IInv => LateByOneBlock
  BY DEF IInv
<1> QED
  BY <1>1, InvariantHolds, PTL

\* VSync is always scheduled with the length of the phase it is in.
THEOREM PhasesAlternate == Spec => []PhaseLength
<1>1. IInv => PhaseLength
  BY DEF IInv
<1> QED
  BY <1>1, InvariantHolds, PTL

\* Neither time nor psxRcntUpdate schedules a counter that is unscheduled.
THEOREM UnscheduledStays == Spec => StaysUnscheduled
<1>1. IInv /\ [Next]_vars =>
        [\A i \in Index : ~Scheduled(i) /\ sinceTest' # sinceTest =>
                            ~Scheduled(i)']_vars
  <2> SUFFICES ASSUME IInv, [Next]_vars, sinceTest' # sinceTest,
                      NEW i \in Index, ~Scheduled(i)
               PROVE  ~Scheduled(i)'
    OBVIOUS
  <2>1. CASE Cpu
    <3>1. PICK n \in 1..MaxBlock : Run(n)
      BY <2>1 DEF Cpu
    <3>2. counter' = [j \in Index |->
                        [counter[j] EXCEPT !.elapsed = (@ + n) % WordRange]]
      BY <3>1 DEF Run
    <3>3. counter[i] \in Counters
      BY AllInTime
    <3>4. counter'[i].Cycle = counter[i].Cycle
      BY <3>2, <3>3 DEF Counters
    <3> QED
      BY <3>4 DEF Scheduled
  <2>2. CASE BranchTest
    BY <2>2, TestStep
  <2>3. CASE Guest
    BY <2>3 DEF Guest, Wcount, Wtarget, Wmode, Program
  <2>4. CASE \E j \in Index : ClearIStat(j)
    BY <2>4 DEF ClearIStat
  <2>5. CASE UNCHANGED vars
    BY <2>5 DEF vars
  <2> QED
    BY <2>1, <2>2, <2>3, <2>4, <2>5 DEF Next
<1> QED
  BY <1>1, InvariantHolds, PTL DEF Spec, StaysUnscheduled

------------------------------------------------------------------------------
(* States saved and loaded (SaveState) *)

USE DEF BIAS

\* The blank is no longer than the rest of a frame.
LEMMA PhaseOrder ==
  /\ ActiveRate \div BIAS \in 0..Farthest /\ BlankRate \div BIAS \in 0..Farthest
  /\ BlankRate \div BIAS <= ActiveRate \div BIAS
<1> DEFINE line == FrameRate \div Lines
<1>1. line \in Nat /\ line * Lines \in 0..FrameRate
  BY ClockAssumption, DivType, DivMul
<1>2. BlankLines \in Nat /\ Lines \in Nat /\ 2 * BlankLines \in Nat
      /\ 2 * BlankLines <= Lines /\ FrameRate \in Nat
  BY ClockAssumption, FrameAssumption
<1>3. BlankTime = line * BlankLines
  BY DEF BlankTime
<1> HIDE DEF line
<1>4. line * BlankLines \in Nat
  BY <1>1, <1>2
<1>5. line * (2 * BlankLines) <= line * Lines
  BY <1>1, <1>2, MulLess
<1>6. line * (2 * BlankLines) = 2 * (line * BlankLines)
  BY <1>1, <1>2
<1>7. 2 * BlankTime <= FrameRate /\ BlankTime \in Nat
  BY <1>1, <1>2, <1>3, <1>4, <1>5, <1>6
<1>8. BlankTime <= FrameRate - BlankTime /\ FrameRate - BlankTime \in Nat
  BY <1>2, <1>7
<1>9. \A x, y \in Nat : x <= y => /\ x \div 2 <= y \div 2
                                  /\ x \div 2 \in Nat /\ y \div 2 \in Nat
  OBVIOUS
<1>10. BlankRate <= ActiveRate /\ BlankRate \in Nat /\ ActiveRate \in Nat
  BY <1>7, <1>8, <1>9, ClockAssumption DEF BlankRate, ActiveRate
<1> QED
  BY <1>9, <1>10, Phases

\* The longest phase, in the unit of Cycle.
Phase == ActiveRate \div BIAS

LEMMA PhaseBounds ==
  /\ Phase \in Nat /\ Phase <= Farthest /\ MaxBlock \in Nat
  /\ 3 * MaxBlock + Phase <= HalfTurn
BY PhaseOrder, Bounds, FrameAssumption DEF Phase, HalfTurn

\* VSync is always scheduled, a phase ahead.
LEMMA VSyncSoon ==
  ASSUME NEW cs, Sound(cs)
  PROVE  cs[VSync].Cycle # Never /\ cs[VSync].Cycle <= Phase
                                 /\ cs[VSync].Cycle \in Nat
<1>1. cs[VSync].Cycle \in {ActiveRate \div BIAS, BlankRate \div BIAS}
  BY DEF Sound
<1>2. \A p \in {ActiveRate \div BIAS, BlankRate \div BIAS} :
        p # Never /\ p <= Phase /\ p \in Nat
  BY PhaseOrder, Bounds DEF Phase
<1> QED
  BY <1>1, <1>2

\* psxRcntSet sets a deadline within a phase.
LEMMA NextIsSoon ==
  ASSUME NEW cs, Sound(cs), NEW late \in 0..HalfTurn, LateBy(cs, late),
         RcntSet(cs)
  PROVE  /\ sinceSet' = 0 /\ psxNextCounter' \in 0..Phase
         /\ psxNextCounter' # 0 => LateBy(cs, 0)
<1>1. cs \in [Index -> Counters]
  BY DEF Sound
<1>2. \A i \in Index : InTime(cs[i], late)
  BY DEF Sound, LateBy, InTime
<1>3. /\ sinceSet' = 0 /\ psxNextCounter' \in 0..Farthest
      /\ psxNextCounter' # 0 =>
           \A i \in Index :
             cs[i].Cycle # Never => psxNextCounter' + cs[i].elapsed <= cs[i].Cycle
  BY <1>1, <1>2, SetDeadline
<1>4. \A i \in Index : cs[i].Cycle \in Nat /\ cs[i].elapsed \in Nat
  BY <1>1, CounterTypes
<1>5. psxNextCounter' \in Nat
  BY <1>3, Bounds
<1>6. psxNextCounter' \in 0..Phase
  <2>1. CASE psxNextCounter' = 0
    BY <2>1, PhaseBounds
  <2>2. CASE psxNextCounter' # 0
    <3>1. psxNextCounter' + cs[VSync].elapsed <= cs[VSync].Cycle
      BY <1>3, <2>2, VSyncSoon
    <3>2. cs[VSync].elapsed \in Nat /\ cs[VSync].Cycle <= Phase
          /\ cs[VSync].Cycle \in Nat
      BY <1>4, VSyncSoon
    <3> QED
      BY <1>5, <3>1, <3>2, PhaseBounds
  <2> QED
    BY <2>1, <2>2
<1>7. ASSUME psxNextCounter' # 0
      PROVE  LateBy(cs, 0)
  <2>1. \A i \in Index : cs[i].Cycle # Never => cs[i].elapsed <= cs[i].Cycle + 0
    BY <1>3, <1>4, <1>5, <1>7
  <2> QED
    BY <2>1 DEF LateBy
<1> QED
  BY <1>3, <1>6, <1>7

\* One counter starts again, the others stay what they are.
LEMMA OneStarts ==
  ASSUME NEW cs, Sound(cs), NEW i \in Index, NEW c \in Counters,
         c.elapsed = 0, c.Cycle # Never => c.Cycle <= Farthest,
         "repeat" \in c.mode /\ Enabled(i, c.mode) => c.Cycle # Never,
         i = VSync =>
           OneUnit(c) /\ c.Cycle = (IF "blank" \in c.mode THEN BlankRate
                                                          ELSE ActiveRate) \div BIAS
  PROVE  /\ Sound([cs EXCEPT ![i] = c])
         /\ \A late \in Nat : LateBy(cs, late) => LateBy([cs EXCEPT ![i] = c], late)
<1> DEFINE new == [cs EXCEPT ![i] = c]
<1>1. cs \in [Index -> Counters]
  BY DEF Sound
<1>2. /\ new \in [Index -> Counters] /\ new[i] = c
      /\ \A j \in Index : j # i => new[j] = cs[j]
  BY <1>1
<1> HIDE DEF new
<1>3. \A j \in Index : new[j].Cycle # Never => new[j].Cycle <= Farthest
  BY <1>2 DEF Sound
<1>4. \A j \in Index : "repeat" \in new[j].mode /\ Enabled(j, new[j].mode) =>
                         new[j].Cycle # Never
  BY <1>2 DEF Sound
<1>5. /\ OneUnit(new[VSync])
      /\ new[VSync].Cycle =
           (IF "blank" \in new[VSync].mode THEN BlankRate ELSE ActiveRate) \div BIAS
  BY <1>2 DEF Sound, OneUnit
<1>6. Sound(new)
  BY <1>2, <1>3, <1>4, <1>5 DEF Sound, OneUnit
<1>7. ASSUME NEW late \in Nat, LateBy(cs, late)
      PROVE  LateBy(new, late)
  <2>1. c.Cycle \in Nat
    BY CounterTypes
  <2>2. c.elapsed <= c.Cycle + late
    BY <2>1
  <2> QED
    BY <1>2, <1>7, <2>2 DEF LateBy
<1> QED
  BY <1>6, <1>7 DEF new

\* A larger bound is a weaker one.
LEMMA LateMore ==
  ASSUME NEW cs \in [Index -> Counters], NEW l \in Nat, NEW m \in Nat, l <= m,
         LateBy(cs, l)
  PROVE  LateBy(cs, m)
<1>1. \A i \in Index : cs[i].Cycle \in Nat /\ cs[i].elapsed \in Nat
  BY CounterTypes
<1> QED
  BY <1>1 DEF LateBy

\* Time passes: nothing of what a file holds changes but how late it is, as
\* long as that is less than half a turn.
LEMMA RunSound ==
  ASSUME Sound(counter), NEW n \in 1..MaxBlock, Run(n)
  PROVE  /\ Sound(counter')
         /\ \A late \in Nat : late + n <= HalfTurn /\ LateBy(counter, late) =>
                                LateBy(counter', late + n)
         /\ counter'[VSync].mode = counter[VSync].mode
<1>1. counter \in [Index -> Counters]
  BY DEF Sound
<1>2. /\ counter' \in [Index -> Counters]
      /\ \A i \in Index :
           /\ counter'[i] \in Counters
           /\ counter'[i].elapsed = (counter[i].elapsed + n) % WordRange
           /\ counter'[i].Cycle = counter[i].Cycle
           /\ counter'[i].mode = counter[i].mode
           /\ counter'[i].target = counter[i].target
           /\ counter'[i].count = counter[i].count
  BY <1>1, RunFields
<1>3. Sound(counter')
  BY <1>2 DEF Sound
<1>4. ASSUME NEW late \in Nat, late + n <= HalfTurn, LateBy(counter, late),
             NEW i \in Index, counter[i].Cycle # Never
      PROVE  counter'[i].elapsed <= counter'[i].Cycle + (late + n)
  <2>1. counter[i].elapsed \in Nat /\ counter[i].Cycle \in Nat /\ n \in Nat
    BY <1>1, CounterTypes, Bounds
  <2>2. counter[i].elapsed <= counter[i].Cycle + late
        /\ counter[i].Cycle <= Farthest
    BY <1>4 DEF LateBy, Sound
  <2>3. counter[i].elapsed + n <= Never /\ counter[i].elapsed + n \in Nat
    BY <1>4, <2>1, <2>2, HalfTurns, Bounds
  <2>4. (counter[i].elapsed + n) % WordRange = counter[i].elapsed + n
    <3>1. counter[i].elapsed + n \in 0..(WordRange - 1) /\ WordRange \in Nat \ {0}
      BY <2>3, Bounds
    <3> QED
      BY <3>1, ModSame
  <2>5. counter'[i].elapsed = counter[i].elapsed + n
        /\ counter'[i].Cycle = counter[i].Cycle
    BY <1>2, <2>4
  <2> QED
    BY <1>4, <2>1, <2>2, <2>5
<1>5. ASSUME NEW late \in Nat, late + n <= HalfTurn, LateBy(counter, late)
      PROVE  LateBy(counter', late + n)
  <2>1. \A i \in Index : counter'[i].Cycle = counter[i].Cycle
    BY <1>2
  <2>2. \A i \in Index : counter'[i].Cycle # Never =>
                           counter'[i].elapsed <= counter'[i].Cycle + (late + n)
    BY <1>4, <1>5, <2>1
  <2> QED
    BY <2>2 DEF LateBy
<1> QED
  BY <1>2, <1>3, <1>5

\* Without a load behind it, the machine is the one of RootCounters.
LEMMA NotBehind == StateIInv /\ ~behind => IInv
<1> SUFFICES ASSUME StateIInv, ~behind PROVE IInv
  OBVIOUS
<1>1. Sound(counter) /\ LateBy(counter, sinceTest) /\ Deadline
  BY DEF StateIInv
<1>2. /\ sinceSet \in Word /\ psxNextCounter \in 0..Phase
      /\ iStat \subseteq Index /\ sinceTest \in 0..MaxBlock
  BY DEF StateIInv, Phase
<1>3. psxNextCounter \in 0..Farthest
  BY <1>2, PhaseBounds, Bounds
<1>4. TypeOK
  BY <1>1, <1>2, <1>3 DEF Sound, TypeOK
<1>5. ScheduledSoon /\ VSyncKept /\ PhaseLength /\ RepeatsScheduled
  BY <1>1 DEF Sound, ScheduledSoon, VSyncKept, PhaseLength, RepeatsScheduled,
              Scheduled
<1>6. LateByOneBlock
  BY <1>1 DEF LateBy, LateByOneBlock, Scheduled
<1> QED
  BY <1>1, <1>4, <1>5, <1>6 DEF IInv

\* The same of the next state.
LEMMA SoundThen == IInv' => Sound(counter') /\ LateBy(counter', sinceTest')
BY DEF IInv, TypeOK, ScheduledSoon, VSyncKept, PhaseLength, RepeatsScheduled,
       LateByOneBlock, Sound, LateBy, Scheduled

\* A step to a state that no load is behind.
LEMMA CaughtUp ==
  ASSUME IInv', psxNextCounter' \in 0..Phase, FileSound', behind' = FALSE
  PROVE  StateIInv'
<1>1. Sound(counter') /\ LateBy(counter', sinceTest')
  BY SoundThen
<1>2. Deadline' /\ sinceSet' \in Word /\ iStat' \subseteq Index
      /\ sinceTest' \in 0..MaxBlock
  BY DEF IInv, TypeOK
<1> QED
  BY <1>1, <1>2 DEF StateIInv, Phase

\* A step that sets a new deadline from such counters.
LEMMA SetSoon ==
  ASSUME IInv', RcntSet(counter')
  PROVE  psxNextCounter' \in 0..Phase
<1>1. Sound(counter') /\ LateBy(counter', sinceTest') /\ sinceTest' \in 0..MaxBlock
  BY SoundThen DEF IInv, TypeOK
<1>2. sinceTest' \in 0..HalfTurn
  BY <1>1, Bounds, HalfTurns
<1> QED
  BY <1>1, <1>2, NextIsSoon

\* The steps of RootCounters keep the deadline within a phase.
LEMMA StaysSoon ==
  ASSUME IInv, psxNextCounter \in 0..Phase, [Next]_vars
  PROVE  IInv' /\ psxNextCounter' \in 0..Phase
<1>1. IInv'
  BY NextIInv
<1>0. psxNextCounter' = psxNextCounter => psxNextCounter' \in 0..Phase
  BY Zenon
<1>2. CASE Cpu
  BY <1>0, <1>1, <1>2 DEF Cpu, Run
<1>3. CASE BranchTest
  <2>1. CASE TestDue /\ RcntUpdate
    <3>1. RcntSet(counter')
      BY <2>1 DEF RcntUpdate
    <3> QED
      BY <1>1, <3>1, SetSoon
  <2>2. CASE ~TestDue /\ UNCHANGED <<counter, sinceSet, psxNextCounter, iStat>>
    BY <1>0, <1>1, <2>2
  <2> QED
    BY <1>3, <2>1, <2>2 DEF BranchTest
<1>4. CASE Guest
  <2>1. RcntSet(counter')
    BY <1>4 DEF Guest, Wcount, Wtarget, Wmode, Program
  <2> QED
    BY <1>1, <2>1, SetSoon
<1>5. CASE \E i \in Index : ClearIStat(i)
  BY <1>0, <1>1, <1>5 DEF ClearIStat
<1>6. CASE UNCHANGED vars
  BY <1>0, <1>1, <1>6 DEF vars
<1> QED
  BY <1>1, <1>2, <1>3, <1>4, <1>5, <1>6 DEF Next

\* The file stays what it is.
LEMMA FileKept == FileSound /\ saved' = saved => FileSound'
BY DEF FileSound, NoFile, Sound, LateBy

\* Such a step without a load behind it.
LEMMA FreshStep ==
  ASSUME StateIInv, ~behind, [Next]_vars, saved' = saved, behind' = FALSE
  PROVE  StateIInv'
<1>1. IInv /\ psxNextCounter \in 0..Phase /\ FileSound
  BY NotBehind DEF StateIInv, Phase
<1>2. IInv' /\ psxNextCounter' \in 0..Phase
  BY <1>1, StaysSoon
<1>3. FileSound'
  BY <1>1, FileKept
<1> QED
  BY <1>2, <1>3, CaughtUp

\* The first update after a load, or any other.
LEMMA UpdateCatchesUp ==
  ASSUME StateIInv, RcntUpdate, sinceTest' = 0, FileSound', behind' = FALSE
  PROVE  StateIInv'
<1>1. Sound(counter) /\ iStat \subseteq Index
  BY DEF StateIInv
<1>2. IInv'
  BY <1>1, UpdateStep
<1>3. RcntSet(counter')
  BY DEF RcntUpdate
<1> QED
  BY <1>2, <1>3, SetSoon, CaughtUp

\* What a load leaves to bound: how late the counters are, before and after the
\* first test.
LateSince ==
  \/ LateBy(counter, MaxBlock + sinceTest)
  \/ DeadlineCounts

\* The types StateIInv gives, as numbers.
LEMMA StateTypes ==
  ASSUME StateIInv
  PROVE  /\ sinceSet \in Nat /\ psxNextCounter \in Nat /\ sinceTest \in Nat
         /\ psxNextCounter <= Phase /\ sinceTest <= MaxBlock
         /\ Sound(counter) /\ counter \in [Index -> Counters]
         /\ FileSound /\ iStat \subseteq Index
<1>1. /\ sinceSet \in Word /\ psxNextCounter \in 0..Phase
      /\ sinceTest \in 0..MaxBlock
      /\ Sound(counter) /\ FileSound /\ iStat \subseteq Index
  BY DEF StateIInv, Phase
<1> QED
  BY <1>1, Bounds, PhaseBounds DEF Sound

\* Behind a load, a counter is never late by more than two blocks, a phase and
\* the block that runs.
LEMMA LateAtMost ==
  ASSUME StateIInv, behind
  PROVE  /\ LateBy(counter, 2 * MaxBlock + Phase + sinceTest)
         /\ 2 * MaxBlock + Phase + sinceTest \in 0..HalfTurn
<1>1. 2 * MaxBlock + Phase + sinceTest \in 0..HalfTurn
  BY StateTypes, PhaseBounds, HalfTurns
<1>2. CASE LateBy(counter, MaxBlock + sinceTest)
  <2>1. /\ MaxBlock + sinceTest \in Nat
        /\ 2 * MaxBlock + Phase + sinceTest \in Nat
        /\ MaxBlock + sinceTest <= 2 * MaxBlock + Phase + sinceTest
    BY StateTypes, PhaseBounds
  <2>2. counter \in [Index -> Counters]
    BY StateTypes
  <2> QED
    BY <1>1, <1>2, <2>1, <2>2, LateMore
<1>3. CASE DeadlineCounts
  BY <1>1, <1>3 DEF DeadlineCounts, Phase
<1> QED
  BY <1>2, <1>3 DEF StateIInv

\* A step that stays behind the load.
LEMMA StaysBehind ==
  ASSUME Sound(counter'), FileSound', sinceSet' \in Word,
         psxNextCounter' \in 0..Phase, iStat' \subseteq Index,
         sinceTest' \in 0..MaxBlock, behind' = TRUE,
         "blank" \notin counter'[VSync].mode, LateSince'
  PROVE  StateIInv'
BY DEF StateIInv, Phase, LateSince

\* The block that runs after a load.
LEMMA BehindRun ==
  ASSUME StateIInv, behind, NEW n \in 1..MaxBlock, Run(n),
         saved' = saved, behind' = behind
  PROVE  StateIInv'
<1>1. /\ sinceTest' = sinceTest + n /\ sinceTest' \in 0..MaxBlock
      /\ psxNextCounter' = psxNextCounter /\ iStat' = iStat
      /\ sinceSet' = (sinceSet + n) % WordRange
  <2>1. /\ sinceTest + n <= MaxBlock /\ sinceTest' = sinceTest + n
        /\ psxNextCounter' = psxNextCounter /\ iStat' = iStat
        /\ sinceSet' = (sinceSet + n) % WordRange
    BY DEF Run
  <2> QED
    BY <2>1, StateTypes, Bounds
<1>2. n \in Nat /\ n >= 1
  BY Bounds
<1>3. /\ Sound(counter')
      /\ \A late \in Nat : late + n <= HalfTurn /\ LateBy(counter, late) =>
                             LateBy(counter', late + n)
      /\ counter'[VSync].mode = counter[VSync].mode
  BY StateTypes, RunSound
<1>4. sinceSet' \in Word
  <2>1. sinceSet + n \in Int
    BY <1>2, StateTypes
  <2> QED
    BY <1>1, <2>1, ModType, Bounds DEF Word
<1>5. ASSUME LateBy(counter, MaxBlock + sinceTest)
      PROVE  LateBy(counter', MaxBlock + sinceTest')
  <2>1. MaxBlock + sinceTest \in Nat
        /\ (MaxBlock + sinceTest) + n = MaxBlock + sinceTest'
        /\ (MaxBlock + sinceTest) + n <= HalfTurn
    BY <1>1, <1>2, StateTypes, PhaseBounds, HalfTurns
  <2> QED
    BY <1>3, <1>5, <2>1
<1>6. ASSUME DeadlineCounts
      PROVE  DeadlineCounts'
  <2>1. sinceSet <= psxNextCounter + sinceTest
        /\ LateBy(counter, 2 * MaxBlock + Phase + sinceTest)
    BY <1>6 DEF DeadlineCounts, Phase
  <2>2. sinceSet + n \in 0..(WordRange - 1)
    <3>1. sinceSet <= psxNextCounter + sinceTest /\ sinceSet \in Nat
          /\ psxNextCounter \in Nat /\ psxNextCounter <= Phase
          /\ sinceTest \in Nat
      BY <2>1, StateTypes
    <3>2. sinceTest + n <= MaxBlock /\ sinceTest + n \in Nat
      BY <1>1, Bounds
    <3>3. sinceSet + n <= Phase + MaxBlock
      BY <1>2, <3>1, <3>2, PhaseBounds
    <3>4. Phase + MaxBlock <= HalfTurn /\ HalfTurn <= Never /\ WordRange = Never + 1
          /\ Phase + MaxBlock \in Nat /\ HalfTurn \in Nat /\ Never \in Nat
      BY PhaseBounds, HalfTurns, Bounds
    <3> QED
      BY <1>2, <3>1, <3>3, <3>4
  <2>3. sinceSet' = sinceSet + n
    BY <1>1, <2>2, ModSame, Bounds
  <2>4. sinceSet' <= psxNextCounter' + sinceTest'
    BY <1>1, <1>2, <2>1, <2>3, StateTypes
  <2>5. ASSUME psxNextCounter' # 0
        PROVE  LateBy(counter', 2 * MaxBlock + sinceSet')
    <3>1. LateBy(counter, 2 * MaxBlock + sinceSet)
      BY <1>1, <1>6, <2>5 DEF DeadlineCounts
    <3>2. 2 * MaxBlock + sinceSet \in Nat
          /\ (2 * MaxBlock + sinceSet) + n = 2 * MaxBlock + sinceSet'
      BY <1>2, <2>3, StateTypes, PhaseBounds
    <3>3. (2 * MaxBlock + sinceSet) + n <= HalfTurn
      BY <1>1, <1>2, <2>3, <2>4, StateTypes, PhaseBounds, HalfTurns
    <3> QED
      BY <1>3, <3>1, <3>2, <3>3
  <2>6. LateBy(counter', 2 * MaxBlock + Phase + sinceTest')
    <3>1. 2 * MaxBlock + Phase + sinceTest \in Nat
          /\ (2 * MaxBlock + Phase + sinceTest) + n
               = 2 * MaxBlock + Phase + sinceTest'
          /\ (2 * MaxBlock + Phase + sinceTest) + n <= HalfTurn
      BY <1>1, <1>2, StateTypes, PhaseBounds, HalfTurns
    <3> QED
      BY <1>3, <2>1, <3>1
  <2> QED
    BY <2>4, <2>5, <2>6 DEF DeadlineCounts, Phase
<1>7. LateSince'
  BY <1>5, <1>6 DEF StateIInv, LateSince
<1>8. FileSound'
  BY StateTypes, FileKept
<1>9. "blank" \notin counter'[VSync].mode /\ behind' = TRUE
  BY <1>3 DEF StateIInv
<1>10. psxNextCounter' \in 0..Phase /\ iStat' \subseteq Index
  BY <1>1, StateTypes DEF StateIInv, Phase
<1> QED
  BY <1>1, <1>3, <1>4, <1>7, <1>8, <1>9, <1>10, StaysBehind

\* A test that finds nothing due: from here on the deadline bounds how late the
\* counters are.
LEMMA BehindTest ==
  ASSUME StateIInv, behind, BranchTest, ~TestDue,
         saved' = saved, behind' = behind
  PROVE  StateIInv'
<1>1. /\ counter' = counter /\ sinceSet' = sinceSet
      /\ psxNextCounter' = psxNextCounter /\ iStat' = iStat /\ sinceTest' = 0
      /\ sinceTest > 0
  BY DEF BranchTest
<1>2. sinceSet < psxNextCounter
  BY StateTypes DEF TestDue
<1>3. counter \in [Index -> Counters]
  BY StateTypes
<1>4. /\ 2 * MaxBlock + sinceSet \in Nat /\ 2 * MaxBlock + Phase + 0 \in Nat
      /\ 2 * MaxBlock + sinceSet <= 2 * MaxBlock + Phase + 0
  BY <1>2, StateTypes, PhaseBounds
<1>5. LateBy(counter, 2 * MaxBlock + sinceSet)
  <2>1. CASE LateBy(counter, MaxBlock + sinceTest)
    <3>1. /\ MaxBlock + sinceTest \in Nat
          /\ MaxBlock + sinceTest <= 2 * MaxBlock + sinceSet
      BY StateTypes, PhaseBounds
    <3> QED
      BY <1>3, <1>4, <2>1, <3>1, LateMore
  <2>2. CASE DeadlineCounts
    <3>1. psxNextCounter # 0
      BY <1>2, StateTypes
    <3> QED
      BY <2>2, <3>1 DEF DeadlineCounts
  <2> QED
    BY <2>1, <2>2 DEF StateIInv
<1>6. LateBy(counter, 2 * MaxBlock + Phase + 0)
  BY <1>3, <1>4, <1>5, LateMore
<1>7. sinceSet <= psxNextCounter + 0
  BY <1>2, StateTypes
<1>8. DeadlineCounts'
  BY <1>1, <1>5, <1>6, <1>7 DEF DeadlineCounts, Phase
<1>9. FileSound'
  BY StateTypes, FileKept
<1>10. /\ Sound(counter') /\ sinceSet' \in Word /\ psxNextCounter' \in 0..Phase
       /\ iStat' \subseteq Index /\ "blank" \notin counter'[VSync].mode
       /\ behind' = TRUE
  BY <1>1 DEF StateIInv, Phase
<1>11. sinceTest' \in 0..MaxBlock
  BY <1>1, Bounds
<1> QED
  BY <1>8, <1>9, <1>10, <1>11, StaysBehind DEF LateSince

\* The guest writes a register before the first update: the new deadline is 0
\* if a counter is overdue.
LEMMA BehindProgram ==
  ASSUME StateIInv, behind, NEW i \in 0..2, NEW c \in Counters, Program(i, c),
         saved' = saved, behind' = behind
  PROVE  StateIInv'
<1>1. /\ counter' = [counter EXCEPT ![i] = Upd(i, c)] /\ RcntSet(counter')
      /\ iStat' = iStat /\ sinceTest' = sinceTest
  BY DEF Program
<1>2. /\ Upd(i, c) \in Counters /\ Upd(i, c).elapsed = 0
      /\ Upd(i, c).mode = c.mode
      /\ Enabled(i, c.mode) => Upd(i, c).Cycle \in 0..Farthest
      /\ ~Enabled(i, c.mode) => Upd(i, c).Cycle = Never
  BY UpdFacts
<1> DEFINE new == Upd(i, c)
<1> HIDE DEF new
<1>3. /\ new \in Counters /\ new.elapsed = 0
      /\ new.Cycle # Never => new.Cycle <= Farthest
      /\ "repeat" \in new.mode /\ Enabled(i, new.mode) => new.Cycle # Never
  BY <1>2, Bounds DEF new
<1>4. i \in Index /\ i # VSync
  OBVIOUS
<1>5. counter' = [counter EXCEPT ![i] = new] /\ counter \in [Index -> Counters]
      /\ Sound(counter)
  BY <1>1, StateTypes DEF new
<1>6. /\ Sound([counter EXCEPT ![i] = new])
      /\ \A late \in Nat : LateBy(counter, late) =>
                             LateBy([counter EXCEPT ![i] = new], late)
  BY <1>3, <1>4, <1>5, OneStarts
<1>7. /\ Sound(counter')
      /\ \A late \in Nat : LateBy(counter, late) => LateBy(counter', late)
  BY <1>5, <1>6
<1>8. counter'[VSync] = counter[VSync]
  BY <1>4, <1>5
<1>9. LateBy(counter', 2 * MaxBlock + Phase + sinceTest)
      /\ 2 * MaxBlock + Phase + sinceTest \in 0..HalfTurn
  BY <1>7, LateAtMost, HalfTurns
<1>10. /\ sinceSet' = 0 /\ psxNextCounter' \in 0..Phase
       /\ psxNextCounter' # 0 => LateBy(counter', 0)
  BY <1>1, <1>7, <1>9, NextIsSoon
<1>11. ASSUME DeadlineCounts
       PROVE  DeadlineCounts'
  <2>1. sinceSet' <= psxNextCounter' + sinceTest'
    BY <1>1, <1>10, StateTypes, PhaseBounds
  <2>2. counter' \in [Index -> Counters]
    BY <1>7 DEF Sound
  <2>3. ASSUME psxNextCounter' # 0
        PROVE  LateBy(counter', 2 * MaxBlock + sinceSet')
    <3>1. 2 * MaxBlock + sinceSet' \in Nat /\ 0 <= 2 * MaxBlock + sinceSet'
      BY <1>10, PhaseBounds
    <3>2. LateBy(counter', 0)
      BY <1>10, <2>3
    <3> QED
      BY <2>2, <3>1, <3>2, LateMore
  <2> QED
    BY <1>1, <1>9, <2>1, <2>3 DEF DeadlineCounts, Phase
<1>12. ASSUME LateBy(counter, MaxBlock + sinceTest)
       PROVE  LateBy(counter', MaxBlock + sinceTest')
  <2>1. MaxBlock + sinceTest \in Nat /\ sinceTest' = sinceTest
    BY <1>1, StateTypes, PhaseBounds
  <2> QED
    BY <1>7, <1>12, <2>1
<1>13. LateSince'
  BY <1>11, <1>12 DEF StateIInv, LateSince
<1>14. FileSound' /\ sinceSet' \in Word
  BY <1>10, StateTypes, FileKept, Bounds
<1>15. /\ iStat' \subseteq Index /\ sinceTest' \in 0..MaxBlock /\ behind' = TRUE
       /\ "blank" \notin counter'[VSync].mode
  BY <1>1, <1>8 DEF StateIInv
<1> QED
  BY <1>7, <1>10, <1>13, <1>14, <1>15, StaysBehind

\* The steps of RootCounters keep what a load leaves.
LEMMA PlayStep ==
  ASSUME StateIInv, Play
  PROVE  StateIInv'
<1>0. behind \in BOOLEAN /\ FileSound
  BY DEF StateIInv
<1>1. saved' = saved
  BY DEF Play
<1>2. FileSound'
  BY <1>0, <1>1, FileKept
<1>3. CASE BranchTest /\ behind' = (behind /\ ~TestDue)
  <2>1. CASE ~behind
    <3>1. [Next]_vars /\ behind' = FALSE
      BY <1>0, <1>3, <2>1 DEF Next
    <3> QED
      BY <1>1, <2>1, <3>1, FreshStep
  <2>2. CASE behind /\ TestDue
    <3>1. RcntUpdate /\ sinceTest' = 0 /\ behind' = FALSE
      BY <1>3, <2>2 DEF BranchTest
    <3> QED
      BY <1>2, <3>1, UpdateCatchesUp
  <2>3. CASE behind /\ ~TestDue
    <3>1. behind' = behind
      BY <1>0, <1>3, <2>3
    <3> QED
      BY <1>1, <1>3, <2>3, <3>1, BehindTest
  <2> QED
    BY <2>1, <2>2, <2>3
<1>4. ASSUME Cpu \/ Guest \/ \E i \in Index : ClearIStat(i), behind' = behind
      PROVE  StateIInv'
  <2>1. CASE ~behind
    <3>1. [Next]_vars /\ behind' = FALSE
      BY <1>0, <1>4, <2>1 DEF Next
    <3> QED
      BY <1>1, <2>1, <3>1, FreshStep
  <2>2. CASE behind /\ Cpu
    BY <1>1, <1>4, <2>2, BehindRun DEF Cpu
  <2>3. CASE behind /\ Guest
    <3>1. PICK i \in 0..2, c \in Counters : Program(i, c)
      BY <2>3, StateTypes, GuestProgram
    <3> QED
      BY <1>1, <1>4, <2>3, <3>1, BehindProgram
  <2>4. CASE behind /\ \E i \in Index : ClearIStat(i)
    <3>1. /\ UNCHANGED <<counter, sinceSet, psxNextCounter, sinceTest>>
          /\ iStat' \subseteq Index
      BY <2>4 DEF ClearIStat, StateIInv
    <3> QED
      BY <1>2, <1>4, <2>4, <3>1
      DEF StateIInv, DeadlineCounts, Sound, LateBy
  <2> QED
    BY <1>4, <2>1, <2>2, <2>3, <2>4
<1> QED
  BY <1>3, <1>4 DEF Play

\* A state is saved from inside an update, at the end of the blank: the file
\* holds counters of which VSync alone was restarted.
LEMMA SavingStep ==
  ASSUME StateIInv, SavingBranchTest
  PROVE  StateIInv'
<1>1. /\ "blank" \in counter[VSync].mode
      /\ saved' = [counter EXCEPT ![VSync] = VSyncEdge(counter[VSync])]
      /\ RcntUpdate /\ sinceTest' = 0 /\ behind' = FALSE
  BY DEF SavingBranchTest
<1>2. ~behind
  BY <1>1 DEF StateIInv
<1>3. LateBy(counter, sinceTest) /\ Sound(counter) /\ counter \in [Index -> Counters]
  BY <1>2, StateTypes DEF StateIInv
<1> DEFINE edge == VSyncEdge(counter[VSync])
<1>4. /\ edge \in Counters /\ OneUnit(edge) /\ edge.elapsed = 0
      /\ "blank" \notin edge.mode
      /\ edge.Cycle = (IF "blank" \in edge.mode THEN BlankRate
                                                ELSE ActiveRate) \div BIAS
  <2>1. counter[VSync] \in Counters /\ OneUnit(counter[VSync])
    BY <1>3 DEF Sound, OneUnit
  <2> QED
    BY <1>1, <2>1, EdgeFacts
<1> HIDE DEF edge
<1>5. edge.Cycle <= Farthest /\ edge.Cycle # Never
  BY <1>4, PhaseOrder, Bounds
<1>6. /\ Sound([counter EXCEPT ![VSync] = edge])
      /\ \A late \in Nat : LateBy(counter, late) =>
                             LateBy([counter EXCEPT ![VSync] = edge], late)
  BY <1>3, <1>4, <1>5, OneStarts
<1>7. LateBy(counter, MaxBlock)
  BY <1>3, StateTypes, PhaseBounds, LateMore
<1>8. saved' = [counter EXCEPT ![VSync] = edge]
  BY <1>1 DEF edge
<1>9. Sound(saved') /\ LateBy(saved', MaxBlock)
  BY <1>6, <1>7, <1>8, PhaseBounds
<1>10. saved'[VSync] = edge
  BY <1>3, <1>8
<1>11. FileSound'
  BY <1>4, <1>9, <1>10 DEF FileSound, Sound, LateBy
<1> QED
  BY <1>1, <1>11, UpdateCatchesUp

\* The program starts again with the counters of psxRcntInit.
LEMMA RestartStep ==
  ASSUME StateIInv, Restart
  PROVE  StateIInv'
<1>1. Init' /\ saved' = saved /\ behind' = FALSE
  BY DEF Restart, Init
<1>2. Init' => IInv'
  BY InitIInv, PTL
<1>3. psxNextCounter' \in 0..Phase
  BY <1>1, PhaseBounds DEF Init, Phase
<1>4. FileSound'
  BY <1>1, StateTypes, FileKept
<1> QED
  BY <1>1, <1>2, <1>3, <1>4, CaughtUp

\* The counters of the file are late by a block; the deadline is another run's.
LEMMA LoadStep ==
  ASSUME StateIInv, LoadState
  PROVE  StateIInv'
<1>1. /\ saved # NoFile /\ sinceTest = 0
      /\ counter' = saved /\ iStat' = Index /\ sinceSet' \in 0..(WordRange - 1)
      /\ behind' = TRUE /\ psxNextCounter' = psxNextCounter
      /\ sinceTest' = sinceTest /\ saved' = saved
  BY DEF LoadState
<1>2. Sound(saved) /\ LateBy(saved, MaxBlock) /\ "blank" \notin saved[VSync].mode
  BY <1>1, StateTypes DEF FileSound
<1>3. MaxBlock + sinceTest' = MaxBlock
  BY <1>1, PhaseBounds
<1>4. LateBy(counter', MaxBlock + sinceTest')
  BY <1>1, <1>2, <1>3
<1>5. Sound(counter') /\ "blank" \notin counter'[VSync].mode
  BY <1>1, <1>2
<1>6. FileSound' /\ sinceTest' \in 0..MaxBlock
  BY <1>1, StateTypes, FileKept, Bounds
<1>7. sinceSet' \in Word /\ psxNextCounter' \in 0..Phase /\ iStat' \subseteq Index
  BY <1>1 DEF StateIInv, Word, Phase
<1> QED
  BY <1>1, <1>4, <1>5, <1>6, <1>7, StaysBehind DEF LateSince

\* The invariant holds when the program first starts, with no file.
LEMMA StateInitIInv == StateInit => StateIInv
<1> SUFFICES ASSUME StateInit PROVE StateIInv
  OBVIOUS
<1>1. IInv /\ saved = NoFile /\ behind = FALSE
  BY InitIInv DEF StateInit
<1>2. psxNextCounter \in 0..Phase
  BY PhaseBounds DEF StateInit, Init, Phase
<1>3. Sound(counter) /\ LateBy(counter, sinceTest)
  BY <1>1, SoundNow
<1> QED
  BY <1>1, <1>2, <1>3 DEF StateIInv, FileSound, IInv, TypeOK, Phase

\* Every step keeps it.
LEMMA StateNextIInv == StateIInv /\ [StateNext]_stateVars => StateIInv'
<1> SUFFICES ASSUME StateIInv, [StateNext]_stateVars PROVE StateIInv'
  OBVIOUS
<1>1. CASE Play
  BY <1>1, PlayStep
<1>2. CASE SavingBranchTest
  BY <1>2, SavingStep
<1>3. CASE Restart
  BY <1>3, RestartStep
<1>4. CASE LoadState
  BY <1>4, LoadStep
<1>5. CASE UNCHANGED stateVars
  BY <1>5 DEF stateVars, vars, StateIInv, FileSound, DeadlineCounts, Deadline,
              Sound, LateBy, Scheduled
<1> QED
  BY <1>1, <1>2, <1>3, <1>4, <1>5 DEF StateNext

\* What is kept of counters, deadline and file by play, saving (Misc.c:435),
\* restarting and loading (Misc.c:486), for every word size, frame and guest.
THEOREM StateInvariantHolds == StateSpec => []StateIInv
BY StateInitIInv, StateNextIInv, PTL DEF StateSpec

\* The deadline of another run does not cost a loaded counter more than a phase
\* of the frame and two blocks; from the first update on it is late by less
\* than a block again.
THEOREM LoadCatchesUp == StateSpec => []LateAfterLoad
<1>1. StateIInv => LateAfterLoad
  <2> SUFFICES ASSUME StateIInv, NEW i \in Index, Scheduled(i)
               PROVE  counter[i].elapsed <= counter[i].Cycle + sinceTest
                        + (IF behind THEN 2 * MaxBlock + ActiveRate \div BIAS ELSE 0)
    BY DEF LateAfterLoad
  <2>1. counter[i].Cycle # Never
    BY DEF Scheduled
  <2>2. /\ counter[i].Cycle \in Nat /\ sinceTest \in Nat
        /\ MaxBlock \in Nat /\ Phase \in Nat
    BY StateTypes, CounterTypes, PhaseBounds
  <2>3. CASE behind
    <3>1. counter[i].elapsed <= counter[i].Cycle + (2 * MaxBlock + Phase + sinceTest)
      BY <2>1, <2>3, LateAtMost DEF LateBy
    <3>2. counter[i].elapsed \in Nat
      BY StateTypes, CounterTypes
    <3>3. counter[i].elapsed <= counter[i].Cycle + sinceTest + (2 * MaxBlock + Phase)
      BY <2>2, <3>1, <3>2
    <3> QED
      BY <2>3, <3>3 DEF Phase
  <2>4. CASE ~behind
    <3>1. counter[i].elapsed <= counter[i].Cycle + sinceTest
      BY <2>1, <2>4 DEF LateBy, StateIInv
    <3>2. counter[i].Cycle + sinceTest + 0 = counter[i].Cycle + sinceTest
      BY <2>2
    <3> QED
      BY <2>4, <3>1, <3>2
  <2> QED
    BY <2>3, <2>4
<1> QED
  BY <1>1, StateInvariantHolds, PTL
==============================================================================
