-------------------------- MODULE BiosKernelProofs --------------------------
(***************************************************************************)
(* Proofs about BiosKernel.tla, for every number of threads and interrupt  *)
(* routines, every set of devices and every mask the guest may write.      *)
(***************************************************************************)
EXTENDS BiosKernel, TLAPS

\* psxReset leaves the main thread running with interrupts off.
LEMMA InitIInv == Init => IInv
<1> SUFFICES ASSUME Init PROVE IInv
  OBVIOUS
<1>1. 0 \in Threads /\ VSyncStage \in 0..EndStage
  BY TableAssumption DEF Threads, EndStage, VSyncStage
<1>2. TypeOK
  <2>1. thread \in [Threads -> [status : 0..2, saved : Owners]]
    BY DEF Init, Owners
  <2>2. status \in [c : BOOLEAN, p : BOOLEAN, o : BOOLEAN, im : BOOLEAN]
    BY DEF Init
  <2>3. QED
    BY <1>1, <2>1, <2>2 DEF Init, TypeOK, Owners
<1>3. OwnRegisters /\ CriticalHolds /\ Interrupted /\ Hooked
  BY DEF Init, OwnRegisters, CriticalHolds, Interrupted, Hooked
<1>4. Contexts
  BY DEF Init, Contexts
<1>5. QED
  BY <1>2, <1>3, <1>4 DEF IInv

\* Every step keeps the types.
LEMMA TypeStep == TypeOK /\ [Next]_vars => TypeOK'
<1> SUFFICES ASSUME TypeOK, [Next]_vars PROVE TypeOK'
  OBVIOUS
<1> USE DEF TypeOK, Threads, Owners
<1> USE DEF irqVars, hookVars, threadVars, cpuVars, excVars
<1>1. CASE Exception
  <2>1. status' \in [c : BOOLEAN, p : BOOLEAN, o : BOOLEAN, im : BOOLEAN]
    BY <1>1 DEF Exception, Push
  <2>2. running' = "bios" /\ stage' \in 0..EndStage
    BY <1>1, TableAssumption DEF Exception, VSyncStage, EndStage
  <2>3. regs' \in Owners /\ EPC' \in Owners
    BY <1>1 DEF Exception
  <2>4. UNCHANGED <<irqVars, hookVars, threadVars, live, pc, critical>>
    BY <1>1 DEF Exception
  <2>5. QED
    BY <2>1, <2>2, <2>3, <2>4
<1>2. CASE SkipStage
  BY <1>2, TableAssumption DEF SkipStage, AfterStage, IStatAfter, Sources, EndStage
<1>3. CASE SoftCall
  BY <1>3 DEF SoftCall, Nobody
<1>4. CASE CallbackReturns
  BY <1>4, TableAssumption DEF CallbackReturns, AfterStage, IStatAfter, Sources, EndStage
<1>5. CASE EnterHook
  BY <1>5 DEF EnterHook, IStatAfter, Nobody
<1>6. CASE Resume
  BY <1>6 DEF Resume, IStatAfter, Pop
<1>7. CASE ReturnFromException
  BY <1>7 DEF ReturnFromException, Pop
<1>8. CASE EnterCritical
  BY <1>8 DEF EnterCritical, Push, Pop
<1>9. CASE ExitCritical
  BY <1>9 DEF ExitCritical, Push, Pop
<1>10. CASE StartPAD
  <2>1. iMask' \subseteq Sources
    BY <1>10 DEF StartPAD, Sources, VSync
  <2>2. status' \in [c : BOOLEAN, p : BOOLEAN, o : BOOLEAN, im : BOOLEAN]
    BY <1>10 DEF StartPAD
  <2>3. critical' \in BOOLEAN
    BY <1>10 DEF StartPAD
  <2>4. UNCHANGED <<iStat, hookVars, threadVars, cpuVars, excVars>>
    BY <1>10 DEF StartPAD
  <2>5. QED
    BY <2>1, <2>2, <2>3, <2>4
<1>11. CASE OpenTh
  BY <1>11 DEF OpenTh
<1>12. ASSUME NEW th \in Threads, CloseTh(th) PROVE TypeOK'
  BY <1>12 DEF CloseTh
<1>13. ASSUME NEW th \in Threads, ChangeTh(th) PROVE TypeOK'
  BY <1>13 DEF ChangeTh
<1>14. CASE EnableEvent
  BY <1>14 DEF EnableEvent
<1>15. CASE DisableEvent
  BY <1>15 DEF DisableEvent
<1>16. CASE SysEnqIntRP
  BY <1>16 DEF SysEnqIntRP
<1>17. CASE SysDeqIntRP
  BY <1>17 DEF SysDeqIntRP
<1>18. CASE HookEntryInt
  BY <1>18 DEF HookEntryInt
<1>19. CASE ResetEntryInt
  BY <1>19 DEF ResetEntryInt
<1>20. CASE WriteIStat
  BY <1>20 DEF WriteIStat, IStatAfter
<1>21. CASE WriteIMask
  BY <1>21, SourceAssumption DEF WriteIMask
<1>22. CASE Raise
  BY <1>22, SourceAssumption DEF Raise
<1>23. CASE UNCHANGED vars
  BY <1>23 DEF vars
<1>24. QED
  BY <1>1, <1>2, <1>3, <1>4, <1>5, <1>6, <1>7, <1>8, <1>9, <1>10, <1>11,
     <1>12, <1>13, <1>14, <1>15, <1>16, <1>17, <1>18, <1>19, <1>20, <1>21,
     <1>22, <1>23
  DEF Next, ExceptionSteps, Calls

\* Every step keeps each thread to its own registers and code: what is saved when
\* a thread is left, and what is restored when it is returned to, are its own.
LEMMA RegistersStep == IInv /\ [Next]_vars => (OwnRegisters /\ Interrupted /\ Hooked /\ Contexts)'
<1> SUFFICES ASSUME IInv, [Next]_vars PROVE (OwnRegisters /\ Interrupted /\ Hooked /\ Contexts)'
  OBVIOUS
<1> USE DEF IInv, TypeOK, OwnRegisters, Interrupted, Hooked, Contexts
<1> USE DEF irqVars, hookVars, threadVars, cpuVars, excVars
<1>1. CASE Exception
  BY <1>1 DEF Exception, Push
<1>2. CASE SkipStage
  BY <1>2 DEF SkipStage, AfterStage
<1>3. CASE SoftCall
  BY <1>3 DEF SoftCall, HasCallback
<1>4. CASE CallbackReturns
  BY <1>4 DEF CallbackReturns, AfterStage
<1>5. CASE EnterHook
  BY <1>5 DEF EnterHook
<1>6. CASE Resume
  BY <1>6 DEF Resume, Pop
<1>7. CASE ReturnFromException
  BY <1>7 DEF ReturnFromException, Pop
<1>8. CASE EnterCritical
  BY <1>8 DEF EnterCritical
<1>9. CASE ExitCritical
  BY <1>9 DEF ExitCritical
<1>10. CASE StartPAD
  BY <1>10 DEF StartPAD
<1>11. CASE OpenTh
  BY <1>11 DEF OpenTh
<1>12. ASSUME NEW th \in Threads, CloseTh(th) PROVE (OwnRegisters /\ Interrupted /\ Hooked /\ Contexts)'
  BY <1>12 DEF CloseTh
<1>13. ASSUME NEW th \in Threads, ChangeTh(th) PROVE (OwnRegisters /\ Interrupted /\ Hooked /\ Contexts)'
  BY <1>13 DEF ChangeTh
<1>14. CASE EnableEvent
  BY <1>14 DEF EnableEvent
<1>15. CASE DisableEvent
  BY <1>15 DEF DisableEvent
<1>16. CASE SysEnqIntRP
  BY <1>16 DEF SysEnqIntRP
<1>17. CASE SysDeqIntRP
  BY <1>17 DEF SysDeqIntRP
<1>18. CASE HookEntryInt
  BY <1>18 DEF HookEntryInt
<1>19. CASE ResetEntryInt
  BY <1>19 DEF ResetEntryInt
<1>20. CASE WriteIStat
  BY <1>20 DEF WriteIStat
<1>21. CASE WriteIMask
  BY <1>21 DEF WriteIMask
<1>22. CASE Raise
  BY <1>22 DEF Raise
<1>23. CASE UNCHANGED vars
  BY <1>23 DEF vars
<1>24. QED
  BY <1>1, <1>2, <1>3, <1>4, <1>5, <1>6, <1>7, <1>8, <1>9, <1>10, <1>11,
     <1>12, <1>13, <1>14, <1>15, <1>16, <1>17, <1>18, <1>19, <1>20, <1>21,
     <1>22, <1>23
  DEF Next, ExceptionSteps, Calls

\* Every step keeps a critical section: the enable the system call pops is the
\* one it cleared, and nothing else turns it on.
LEMMA CriticalStep == IInv /\ [Next]_vars => CriticalHolds'
<1> SUFFICES ASSUME IInv, [Next]_vars PROVE CriticalHolds'
  OBVIOUS
<1> USE DEF IInv, TypeOK, CriticalHolds, Interrupted
<1> USE DEF irqVars, hookVars, threadVars, cpuVars, excVars
<1>1. CASE Exception
  BY <1>1 DEF Exception
<1>2. CASE SkipStage
  BY <1>2 DEF SkipStage, AfterStage
<1>3. CASE SoftCall
  BY <1>3 DEF SoftCall
<1>4. CASE CallbackReturns
  BY <1>4 DEF CallbackReturns, AfterStage
<1>5. CASE EnterHook
  BY <1>5 DEF EnterHook
<1>6. CASE Resume
  BY <1>6 DEF Resume
<1>7. CASE ReturnFromException
  BY <1>7 DEF ReturnFromException
<1>8. CASE EnterCritical
  BY <1>8 DEF EnterCritical, Push, Pop
<1>9. CASE ExitCritical
  BY <1>9 DEF ExitCritical
<1>10. CASE StartPAD
  BY <1>10 DEF StartPAD
<1>11. CASE OpenTh
  BY <1>11 DEF OpenTh
<1>12. ASSUME NEW th \in Threads, CloseTh(th) PROVE CriticalHolds'
  BY <1>12 DEF CloseTh
<1>13. ASSUME NEW th \in Threads, ChangeTh(th) PROVE CriticalHolds'
  BY <1>13 DEF ChangeTh
<1>14. CASE EnableEvent
  BY <1>14 DEF EnableEvent
<1>15. CASE DisableEvent
  BY <1>15 DEF DisableEvent
<1>16. CASE SysEnqIntRP
  BY <1>16 DEF SysEnqIntRP
<1>17. CASE SysDeqIntRP
  BY <1>17 DEF SysDeqIntRP
<1>18. CASE HookEntryInt
  BY <1>18 DEF HookEntryInt
<1>19. CASE ResetEntryInt
  BY <1>19 DEF ResetEntryInt
<1>20. CASE WriteIStat
  BY <1>20 DEF WriteIStat
<1>21. CASE WriteIMask
  BY <1>21 DEF WriteIMask
<1>22. CASE Raise
  BY <1>22 DEF Raise
<1>23. CASE UNCHANGED vars
  BY <1>23 DEF vars
<1>24. QED
  BY <1>1, <1>2, <1>3, <1>4, <1>5, <1>6, <1>7, <1>8, <1>9, <1>10, <1>11,
     <1>12, <1>13, <1>14, <1>15, <1>16, <1>17, <1>18, <1>19, <1>20, <1>21,
     <1>22, <1>23
  DEF Next, ExceptionSteps, Calls

\* The end of a stage drops at most the interrupt of the stage's own counter.
LEMMA AfterStageKeeps ==
  ASSUME NEW n, AfterStage(n), TypeOK
  PROVE  \A s \in (iStat \cap iMask) \ iStat' :
           s \in Counters /\ n = CounterStage(s)
<1>1. CASE iStat' = iStat
  BY <1>1
<1>2. CASE /\ \E i \in Counters \cap iStat : n = CounterStage(i)
           /\ iStat' = IStatAfter(Sources \ {n - 1})
  BY <1>2 DEF IStatAfter, TypeOK, Sources, Counters, CounterStage
<1>3. QED
  BY <1>1, <1>2 DEF AfterStage

\* No step of the handler but the end of a counter's stage drops an enabled
\* interrupt of a guest with a hook; interrupts are off while the handler runs,
\* so it is not entered again in the middle.
LEMMA HandlerKeeps == IInv /\ [Next]_vars => [KeepsEnabled]_vars
<1> SUFFICES ASSUME IInv, Next, jmp_int, HandlerMoves
             PROVE  KeepsEnabled
  BY DEF KeepsEnabled
<1> USE DEF irqVars, hookVars, threadVars, cpuVars, excVars
<1>1. CASE SkipStage
  <2>1. \A s \in (iStat \cap iMask) \ iStat' : s \in Counters /\ stage = CounterStage(s)
    BY <1>1, AfterStageKeeps DEF SkipStage, IInv
  <2>2. \A s \in Counters \cap iStat : stage = CounterStage(s) => s \notin active
    BY <1>1 DEF SkipStage, HasCallback
  <2>3. QED
    BY <2>1, <2>2 DEF KeepsEnabled
<1>2. CASE CallbackReturns
  BY <1>2, AfterStageKeeps DEF CallbackReturns, KeepsEnabled, IInv
<1>3. CASE EnterHook
  BY <1>3 DEF EnterHook, IStatAfter, KeepsEnabled, IInv, TypeOK
<1>4. CASE Resume
  BY <1>4 DEF Resume
<1>5. CASE Exception
  BY <1>5 DEF Exception, HandlerMoves, IInv, Interrupted
<1>6. CASE SoftCall \/ ReturnFromException
  BY <1>6 DEF SoftCall, ReturnFromException, HandlerMoves
<1>7. CASE Calls \/ WriteIStat \/ WriteIMask \/ Raise
  <2>1. stage' = stage /\ running' = running
    BY <1>7 DEF Calls, WriteIStat, WriteIMask, Raise, EnterCritical, ExitCritical,
                StartPAD, OpenTh, CloseTh, ChangeTh, EnableEvent, DisableEvent,
                SysEnqIntRP, SysDeqIntRP, HookEntryInt, ResetEntryInt
  <2>2. QED
    BY <2>1 DEF HandlerMoves
<1>8. QED
  BY <1>1, <1>2, <1>3, <1>4, <1>5, <1>6, <1>7 DEF Next, ExceptionSteps

\* The inductive invariant holds in every reachable state.
THEOREM InvariantHolds == Spec => []IInv
<1>1. IInv /\ [Next]_vars => IInv'
  BY TypeStep, RegistersStep, CriticalStep DEF IInv
<1>2. QED
  BY InitIInv, <1>1, PTL DEF Spec

\* Threads, registers and stages keep their types.
THEOREM TypeCorrect == Spec => []TypeOK
<1>1. IInv => TypeOK
  BY DEF IInv
<1>2. QED
  BY <1>1, InvariantHolds, PTL

\* A thread that runs has its own registers and code, after any exceptions,
\* callbacks and switches.
THEOREM OwnRegistersKept == Spec => []OwnRegisters
<1>1. IInv => OwnRegisters
  BY DEF IInv
<1>2. QED
  BY <1>1, InvariantHolds, PTL

\* No exception is taken between EnterCritical and ExitCritical.
THEOREM CriticalSections == Spec => []CriticalHolds
<1>1. IInv => CriticalHolds
  BY DEF IInv
<1>2. QED
  BY <1>1, InvariantHolds, PTL

\* The handler drops no enabled interrupt of a guest with a hook, but that of a
\* counter it has just served or has no event for.
THEOREM InterruptsKept == Spec => EnabledKept
BY InvariantHolds, HandlerKeeps, PTL DEF Spec, EnabledKept
==============================================================================
