------------------------------ MODULE BiosKernel ------------------------------
(***************************************************************************)
(* The kernel part of the HLE BIOS (PsxBios.c): the exception handler that *)
(* takes the place of the console's, the threads, the events of the root   *)
(* counters and the interrupt queue, with the interrupt enables of CP0.    *)
(*                                                                         *)
(* The handler calls back into guest code: softCall runs the CPU core      *)
(* until the callback returns, and devices raise interrupts meanwhile, so  *)
(* the model stops at every callback and an exception is a run of stages.  *)
(* Registers and code are represented by the thread they belong to.        *)
(***************************************************************************)
EXTENDS Integers

CONSTANTS
  NumThreads,     \* entries of Thread[]: 8
  NumSlots,       \* entries of SysIntRP: 8
  Raised,         \* the interrupt sources whose devices are running
  GuestMasks      \* the values the guest writes to I_MASK

VARIABLES
  iStat, iMask,   \* I_STAT and I_MASK, as sets of sources
  status,         \* CP0.Status: the stack IEc, IEp, IEo and the mask bit 0x400
  active,         \* the events RcEV[0..3][1] whose status is EvStACTIVE
  SysIntRP,       \* the slots that hold an interrupt routine
  jmp_int,        \* a hook is installed
  thread,         \* Thread[]: the status, and whose context was saved there
  CurThread,
  live,           \* whose values the general registers hold
  regs,           \* whose registers SaveRegs has saved
  pc, EPC,        \* whose code the CPU executes, and whose CP0.EPC points into
  running,        \* "thread", "callback", "hook", or "bios"
  stage,          \* how far the BIOS is in psxBiosException
  critical        \* ghost: the guest is between EnterCritical and ExitCritical

irqVars == <<iStat, iMask>>
hookVars == <<active, SysIntRP, jmp_int>>
threadVars == <<thread, CurThread>>
cpuVars == <<live, pc, running>>
excVars == <<regs, EPC, stage>>
vars == <<iStat, iMask, status, active, SysIntRP, jmp_int, thread, CurThread,
          live, regs, pc, EPC, running, stage, critical>>

Counters == 0..2
VSync == 3                \* bit 0 of I_STAT; the counters are the bits 4 to 6
Device == 4               \* any other device
Sources == 0..4
Threads == 0..(NumThreads - 1)
Slots == 0..(NumSlots - 1)
Nobody == -1              \* a callback or a hook

\* psxBiosException: the events of VSync and of the counters, the queue, the end.
VSyncStage == 0
CounterStage(i) == i + 1
SlotStage(k) == k + 4
EndStage == NumSlots + 4

ASSUME TableAssumption == NumThreads \in Nat \ {0} /\ NumSlots \in Nat
ASSUME SourceAssumption ==
  Raised \subseteq Sources /\ GuestMasks \subseteq SUBSET Sources

------------------------------------------------------------------------------
(* CP0.Status and I_STAT *)

Push(s) == [s EXCEPT !.c = FALSE, !.p = s.c, !.o = s.p]
Pop(s) == [s EXCEPT !.c = s.p, !.p = s.o]

\* A write to I_STAT keeps what the value and I_MASK both hold.
IStatAfter(value) == iStat \cap iMask \cap value

------------------------------------------------------------------------------
(* psxBranchTest, psxException and psxBiosException *)

\* psxBranchTest, psxException and SaveRegs.
Exception ==
  /\ running # "bios"
  /\ iStat \cap iMask # {} /\ status.c /\ status.im
  /\ status' = Push(status)
  /\ EPC' = pc
  /\ regs' = live
  /\ running' = "bios" /\ stage' = VSyncStage
  /\ UNCHANGED <<irqVars, hookVars, threadVars, live, pc, critical>>

\* biosInterrupt and the loop over SysIntRP: whether a stage has a callback.
HasCallback(n) ==
  \/ n = VSyncStage /\ VSync \in iStat /\ VSync \in active
  \/ \E i \in Counters : n = CounterStage(i) /\ i \in iStat /\ i \in active
  \/ \E k \in SysIntRP : n = SlotStage(k)

\* Mutant: the loop over the queue leaves every second slot out.
AfterStageSkips(n) ==
  /\ iStat' = IF \E i \in Counters \cap iStat : n = CounterStage(i)
                THEN IStatAfter(Sources \ {n - 1})
                ELSE iStat
  /\ running' = "bios" /\ stage' = n + 2

\* What follows the callback of a stage, or follows at once without one: the
\* bit of a counter is cleared.
AfterStage(n) ==
  /\ iStat' = IF \E i \in Counters \cap iStat : n = CounterStage(i)
                THEN IStatAfter(Sources \ {n - 1})
                ELSE iStat
  /\ running' = "bios" /\ stage' = n + 1

SkipStage ==
  /\ running = "bios" /\ stage < EndStage /\ ~HasCallback(stage)
  /\ AfterStage(stage)
  /\ UNCHANGED <<iMask, status, hookVars, threadVars, live, pc, regs, EPC,
                 critical>>

\* softCall: the callback has its own use of the registers.
SoftCall ==
  /\ running = "bios" /\ stage < EndStage /\ HasCallback(stage)
  /\ running' = "callback"
  /\ live' = Nobody /\ pc' = Nobody
  /\ UNCHANGED <<irqVars, status, hookVars, threadVars, regs, EPC, stage,
                 critical>>

CallbackReturns ==
  /\ running = "callback"
  /\ AfterStage(stage)
  /\ UNCHANGED <<iMask, status, hookVars, threadVars, live, pc, regs, EPC,
                 critical>>

\* Mutant: the hook is entered with I_STAT cleared.
EnterHookClears ==
  /\ running = "bios" /\ stage = EndStage /\ jmp_int
  /\ iStat' = {}
  /\ live' = Nobody /\ pc' = Nobody
  /\ running' = "hook"
  /\ UNCHANGED <<iMask, status, hookVars, threadVars, excVars, critical>>

\* The end of psxBiosException, into the hook of the guest.
EnterHook ==
  /\ running = "bios" /\ stage = EndStage /\ jmp_int
  /\ iStat' = IStatAfter(Sources)
  /\ live' = Nobody /\ pc' = Nobody
  /\ running' = "hook"
  /\ UNCHANGED <<iMask, status, hookVars, threadVars, excVars, critical>>

\* The end of psxBiosException without a hook: the registers stay as they are.
Resume ==
  /\ running = "bios" /\ stage = EndStage /\ ~jmp_int
  /\ iStat' = IStatAfter({})
  /\ pc' = EPC
  /\ status' = Pop(status)
  /\ running' = "thread"
  /\ UNCHANGED <<iMask, hookVars, threadVars, live, excVars, critical>>

\* Mutant: the registers are left to the hook.
ReturnKeepsRegisters ==
  /\ running = "hook"
  /\ pc' = EPC
  /\ status' = Pop(status)
  /\ running' = "thread"
  /\ UNCHANGED <<live, irqVars, hookVars, threadVars, excVars, critical>>

\* Called by the hook.
ReturnFromException ==
  /\ running = "hook"
  /\ live' = regs /\ pc' = EPC
  /\ status' = Pop(status)
  /\ running' = "thread"
  /\ UNCHANGED <<irqVars, hookVars, threadVars, excVars, critical>>

------------------------------------------------------------------------------
(* Critical sections: the system call, an exception that returns at once *)

\* Mutant: 0x1 is cleared, the current enable, and not 0x404.
EnterCriticalClearsCurrent ==
  /\ running = "thread"
  /\ status' = Pop([Push(status) EXCEPT !.c = FALSE])
  /\ EPC' = pc
  /\ critical' = TRUE
  /\ UNCHANGED <<irqVars, hookVars, threadVars, cpuVars, regs, stage>>

EnterCritical ==
  /\ running = "thread"
  /\ status' = Pop([Push(status) EXCEPT !.p = FALSE, !.im = FALSE])
  /\ EPC' = pc
  /\ critical' = TRUE
  /\ UNCHANGED <<irqVars, hookVars, threadVars, cpuVars, regs, stage>>

ExitCritical ==
  /\ running = "thread"
  /\ status' = Pop([Push(status) EXCEPT !.p = TRUE, !.im = TRUE])
  /\ EPC' = pc
  /\ critical' = FALSE
  /\ UNCHANGED <<irqVars, hookVars, threadVars, cpuVars, regs, stage>>

\* StartPAD and PAD_init enable interrupts as well.
StartPAD ==
  /\ running = "thread"
  /\ iMask' = iMask \cup {VSync}
  /\ status' = [status EXCEPT !.c = TRUE, !.im = TRUE]
  /\ critical' = FALSE
  /\ UNCHANGED <<iStat, hookVars, threadVars, cpuVars, excVars>>

------------------------------------------------------------------------------
(* Threads *)

\* The guest opens no more threads than the table has; the code would write
\* past its end.
OpenTh ==
  /\ running = "thread"
  /\ \E th \in Threads \ {0} :
       /\ thread[th].status = 0
       /\ \A lower \in 1..(th - 1) : thread[lower].status # 0
       /\ thread' = [thread EXCEPT ![th] = [status |-> 1, saved |-> th]]
  /\ UNCHANGED <<irqVars, status, critical, hookVars, CurThread, cpuVars, excVars>>

CloseTh(th) ==
  /\ running = "thread"
  /\ thread' = [thread EXCEPT ![th].status = 0]
  /\ UNCHANGED <<irqVars, status, critical, hookVars, CurThread, cpuVars, excVars>>

ChangeTh(th) ==
  /\ running = "thread"
  /\ thread[th].status # 0 /\ CurThread # th
  /\ LET left == IF thread[CurThread].status = 2
                   THEN [thread EXCEPT ![CurThread] = [status |-> 1, saved |-> live]]
                   ELSE thread
     IN  thread' = [left EXCEPT ![th].status = 2]
  /\ live' = thread[th].saved /\ pc' = thread[th].saved
  /\ CurThread' = th
  /\ UNCHANGED <<irqVars, status, critical, hookVars, running, excVars>>
------------------------------------------------------------------------------
(* Events, the interrupt queue, the hook and the interrupt registers.  A     *)
(* callback leaves nothing of the registers it interrupts, so a guest keeps  *)
(* a hook installed while it has one.                                        *)

\* EnableEvent and WaitEvent: WaitEvent does not wait.
EnableEvent ==
  /\ running # "bios" /\ jmp_int
  /\ \E ev \in Counters \cup {VSync} : active' = active \cup {ev}
  /\ UNCHANGED <<irqVars, status, SysIntRP, jmp_int, threadVars, cpuVars,
                 excVars, critical>>

\* OpenEvent, CloseEvent and DisableEvent.
DisableEvent ==
  /\ running # "bios"
  /\ \E ev \in active : active' = active \ {ev}
  /\ UNCHANGED <<irqVars, status, SysIntRP, jmp_int, threadVars, cpuVars,
                 excVars, critical>>

SysEnqIntRP ==
  /\ running # "bios" /\ jmp_int
  /\ \E k \in Slots : SysIntRP' = SysIntRP \cup {k}
  /\ UNCHANGED <<irqVars, status, active, jmp_int, threadVars, cpuVars,
                 excVars, critical>>

SysDeqIntRP ==
  /\ running # "bios"
  /\ \E k \in SysIntRP : SysIntRP' = SysIntRP \ {k}
  /\ UNCHANGED <<irqVars, status, active, jmp_int, threadVars, cpuVars,
                 excVars, critical>>

HookEntryInt ==
  /\ running = "thread"
  /\ jmp_int' = TRUE
  /\ UNCHANGED <<irqVars, status, active, SysIntRP, threadVars, cpuVars,
                 excVars, critical>>

ResetEntryInt ==
  /\ running = "thread" /\ active = {} /\ SysIntRP = {}
  /\ jmp_int' = FALSE
  /\ UNCHANGED <<irqVars, status, active, SysIntRP, threadVars, cpuVars,
                 excVars, critical>>

\* The guest acknowledges interrupts: psxHwWrite16 and psxHwWrite32.
WriteIStat ==
  /\ running # "bios"
  /\ \E s \in Sources : iStat' = IStatAfter(Sources \ {s})
  /\ UNCHANGED <<iMask, status, hookVars, threadVars, cpuVars, excVars, critical>>

WriteIMask ==
  /\ running # "bios"
  /\ iMask' \in GuestMasks
  /\ UNCHANGED <<iStat, status, hookVars, threadVars, cpuVars, excVars, critical>>

\* A device raises its interrupt while the CPU core executes guest code.
Raise ==
  /\ running # "bios"
  /\ \E s \in Raised : iStat' = iStat \cup {s}
  /\ UNCHANGED <<iMask, status, hookVars, threadVars, cpuVars, excVars, critical>>

------------------------------------------------------------------------------

\* psxReset and psxBiosInit.
Init ==
  /\ iStat = {} /\ iMask = {}
  /\ status = [c |-> FALSE, p |-> FALSE, o |-> FALSE, im |-> FALSE]
  /\ active = {} /\ SysIntRP = {} /\ jmp_int = FALSE
  /\ thread = [th \in Threads |->
                 [status |-> IF th = 0 THEN 2 ELSE 0, saved |-> Nobody]]
  /\ CurThread = 0
  /\ live = 0 /\ pc = 0 /\ running = "thread"
  /\ regs = Nobody /\ EPC = Nobody /\ stage = VSyncStage
  /\ critical = FALSE

ExceptionSteps ==
  \/ Exception \/ SkipStage \/ SoftCall \/ CallbackReturns
  \/ EnterHook \/ Resume \/ ReturnFromException

Calls ==
  \/ EnterCritical \/ ExitCritical \/ StartPAD
  \/ OpenTh \/ \E th \in Threads : CloseTh(th) \/ ChangeTh(th)
  \/ EnableEvent \/ DisableEvent \/ SysEnqIntRP \/ SysDeqIntRP
  \/ HookEntryInt \/ ResetEntryInt

Next == ExceptionSteps \/ Calls \/ WriteIStat \/ WriteIMask \/ Raise

Spec == Init /\ [][Next]_vars

------------------------------------------------------------------------------
(* Properties *)

Owners == Threads \cup {Nobody}

TypeOK ==
  /\ iStat \subseteq Sources /\ iMask \subseteq Sources
  /\ status \in [c : BOOLEAN, p : BOOLEAN, o : BOOLEAN, im : BOOLEAN]
  /\ active \subseteq Counters \cup {VSync}
  /\ SysIntRP \subseteq Slots /\ jmp_int \in BOOLEAN
  /\ thread \in [Threads -> [status : 0..2, saved : Owners]]
  /\ CurThread \in Threads
  /\ live \in Owners /\ regs \in Owners /\ pc \in Owners /\ EPC \in Owners
  /\ running \in {"thread", "callback", "hook", "bios"}
  /\ stage \in 0..EndStage /\ (running = "callback" => stage < EndStage)
  /\ critical \in BOOLEAN

\* Whenever a thread runs it runs its own code on its own registers, however
\* many exceptions, callbacks and switches there were since it ran last.
OwnRegisters == running = "thread" => live = CurThread /\ pc = CurThread

\* Between EnterCritical and ExitCritical no exception is taken: the enable is
\* off although the system call itself pushes and pops the enables.
CriticalHolds == critical => running = "thread" /\ ~(status.c /\ status.im)

\* The BIOS moves on in psxBiosException.
HandlerMoves ==
  \/ running = "bios" /\ running' = "hook"
  \/ running \in {"bios", "callback"} /\ stage' # stage

KeepsEnabled ==
  jmp_int /\ HandlerMoves =>
    \A s \in (iStat \cap iMask) \ iStat' :
      /\ s \in Counters /\ stage = CounterStage(s)
      /\ s \in active => running = "callback"

\* With a hook installed, the BIOS drops no enabled interrupt but that of a
\* counter whose event is not in use or whose callback has just returned; what
\* is raised during the callbacks reaches the hook.
EnabledKept == [][KeepsEnabled]_vars

\* What is inductive.  During an exception interrupts are off, and what was
\* saved is the current thread's.
Interrupted ==
  running # "thread" => ~status.c /\ regs = CurThread /\ EPC = CurThread

\* Callbacks run with a hook installed; without one the registers are not used.
Hooked ==
  /\ active # {} \/ SysIntRP # {} \/ running \in {"callback", "hook"} => jmp_int
  /\ running = "bios" /\ ~jmp_int => live = CurThread

\* A thread that was left holds its own context, and only one was not left.
Contexts ==
  \A th \in Threads :
    /\ thread[th].status = 1 => thread[th].saved = th
    /\ thread[th].status = 2 => th = CurThread

IInv == TypeOK /\ OwnRegisters /\ CriticalHolds /\ Interrupted /\ Hooked /\ Contexts
==============================================================================
