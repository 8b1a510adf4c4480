# Verification of the psx4m emulation core

psx4m (a PCSX derivative) emulates a PlayStation. Its difficult part is not the
arithmetic of the processors but the *devices*: each is a small automaton, driven
on one side by register accesses of an arbitrary guest program and on the other by
events that `psxBranchTest` (R3000A.c) runs when their time has come. The two sides
meet in a handful of flags. A wrong order of two of them is a game that hangs in
one scene out of a thousand, which no unit test of this code looks for.

This directory holds TLA+ models of those devices, the TLC runs that check them,
and proofs that TLAPS checks. `PROJECT.json` lists every run, property, mutated
definition, source line and hazard.

## 1. The system

Everything runs on one thread: the CPU core executes guest code up to a branch and
calls `psxBranchTest`. That call updates the root counters, runs the device events
that are due, and takes at most one exception. Concurrency is that of the guest
program with the events: any event may run between any two register accesses.
Only sound has a second thread.

| Component | State | Operations | Interacts through | Hard behaviour | What makes it correct |
|---|---|---|---|---|---|
| CD-ROM controller (CdRom.c) | `cdr`: command queue of one slot (`Irq`), unacknowledged answer (`Stat`), result FIFO, read position, prefetched sector | 4 write and 4 read registers, `cdrInterrupt`, `cdrReadInterrupt`, DMA 3 | I_STAT bit 2, the events' bits in `psxRegs->interrupt`, the CD backend's buffer | two events and the guest share `Stat`, `Irq` and the FIFO; prefetch; stop and restart of a read | no answer lost or overwritten; sectors in order, once; stopped means stopped |
| Root counters (PsxCounters.c) | 4 counters, one deadline | register writes, `psxRcntUpdate` | `psxBranchTest`, I_STAT bits 0, 4, 5, 6 | the deadline caches four time stamps of a wrapping clock; a sentinel value | no due counter is missed, none fires that is not scheduled |
| Serial port, pads, memory cards (Sio.c, plugins.c) | one buffer and position, two automata (`padst`, `mcdst`), card images | `sioWrite8`, `sioRead8`, `sioWriteCtrl16`, `sioInterrupt` | event bit 0x80, I_STAT bit 7, the frontend's keys | a transfer of many bytes that may be given up at any of them | a frame is written whole or not at all; a poll is of one moment |
| DMA channels (PsxDma.c, PsxHw.c, Mdec.c) | busy bits, PCR, ICR, MDEC busy | `DmaExec`, `psxDmaN`, `gpuInterrupt`, `mdec1Interrupt` | I_STAT bit 3, two events | an event that runs twice and tells the runs apart by the busy bit; ICR read and written back around new completions | every transfer ends, and is reported once |
| Event loop and exceptions (R3000A.c) | pending events, CP0 status | `psxBranchTest`, `psxException`, `psxReset` | all of the above | several devices in one call | events become interrupts, interrupts handlers |
| HLE BIOS (PsxBios.c) | events, threads, files, heap, interrupt queues | about 200 calls, `psxBiosException` | guest memory and registers, cards | guest code called back from the exception | an event is delivered once; registers survive an exception |
| Save states, loading (Misc.c) | a file | `SaveState`, `LoadState`, `LoadCdrom` | every component | state left out of the file, short files | a loaded machine goes on as the saved one |
| SPU (franspu) | voices with their envelopes, a ring of movie sound | registers, `SPU_async_1ms`, `FeedXA` | called by `psxRcntUpdate` every frame and by CdRom.c | flags that wait for the next call; a ring that overflows; loop addresses that outlive their sample | a voice plays its own sample, a key-off is heard, sound is played in order |
| CD backend (cdr/oldversion) | file, buffer, cache | `CDR_readTrack`, `CDR_getBuffer` | CdRom.c | cache of sectors, failing reads | the buffer holds the sector asked for |
| MDEC, GTE, XA, GPU, CPU cores | registers | instructions and packets | DMA, memory | arithmetic; translated code that goes stale | the documented functions |
| Frontends, ports, libraries | - | - | - | - | out of scope |

## 2. Modules

```
 CdStream  <== CdDriver --> CdRom                       A <== B   B implements A
 MemCards  <== SioDriver --> Sio                        A --> B   A extends B
 CdDriverProofs --> CdDriver, CdRomProofs               CdRomProofs --> CdRom
 DmaChannels <== DmaDriver --> Dma      DmaProofs --> DmaDriver
 SaveState --> RootCounters             RootCountersProofs --> SaveState
 SioDriver  <-- SioDriverProofs
 BiosKernel <-- BiosKernelProofs
 Spu        <-- SpuProofs
 CardFiles  <-- CardFilesProofs
 MCxxx --> xxx, with small constants for TLC
```

Each device is a module of its own. Its companion `...Driver` adds a guest program
that uses the device properly. Some properties hold under *any* guest (CdRom,
RootCounters), or under any order of register writes, as long as sound memory is well
formed and releases end (Spu). Others, above all the refinements, are promises to a guest that
keeps the protocol; the driver modules state what keeping it means. What the device
promises to such a guest is a module of its own (CdStream, MemCards, DmaChannels),
and the driver's specification is checked and proved to implement it.

**CdRom.tla** - `cdrWrite0..3`, `cdrRead1`, `cdrInterrupt`, `cdrReadInterrupt`,
with all commands `cdrWrite1` accepts. `AnswerCommand` is `cdrInterrupt` for
every command code and second answer, `AnswerRead` its case READ_ACK, `SectorReady`
and `SectorError` the two halves of `cdrReadInterrupt`. `evCdr` and `evRead` are the
bits of `psxRegs->interrupt`. Delays are left out: a scheduled event may run at any
moment, which includes the moment the code would choose. A handler that only
schedules itself again, because `cdr.Stat` is not 0, is a guard here. A sector is a
number that stands for its minute, second and frame, and `NextSector` carries from one
to the next as `cdrReadInterrupt` does; the contents that matter are which sector it is
and whether its sub-mode byte ends a file. With `MediaErrors` reads fail and the lid is
opened and closed, which Nop reports.

**CdDriver.tla** - a guest that sends one command at a time and has one interrupt
handler (the order of accesses is that of the BIOS and of libcd: port 1, status,
result, data by DMA 3, acknowledgement). The handler's accesses interleave with the
events; the main program does not run between an event and the handler, because
`psxBranchTest` takes the exception in the same call.

**RootCounters.tla** - `psxRcntUpd`, `psxRcntReset`, `psxRcntSet`, `psxRcntUpdate`,
the three register writes and the test in `psxBranchTest`. The code only subtracts
time stamps from the cycle counter, so the model keeps the differences, modulo the
word size; otherwise the state space would be as large as the time. Signed and
unsigned comparisons are the code's. `Run(n)` is the CPU executing `n` cycles;
`MaxBlock` bounds a block between two branch tests.

**Sio.tla, SioDriver.tla** - `sioWrite8` by the state of its two automata, `sioRead8`,
`sioWriteCtrl16`, `sioInterrupt`, and the controllers of plugins.c: the buttons are
sampled by `PAD1_startPoll`, slot 2 answers 0xff and copies an uninitialised
structure over slot 1's answer (`Garbage`). The guest reads controllers, reads and
writes frames, resets the port at any moment, and the player presses buttons. The
checksum is really computed: each bit of an exclusive or is the parity of that bit
(`Xor`), which is what the loop over `psxxor` comes to.

**Dma.tla, DmaDriver.tla** - `DmaExec` and what each `psxDmaN` makes of a control word
(`Outcomes`), the two completion events, ICR with its read-modify-write semantics.
The guest also misuses channels, and then the code leaves them busy for ever.

**SaveState.tla** - extends RootCounters by the file of a save state. `SaveState`
is called by the frontend from inside `psxRcntUpdate`, when a frame is drawn; the
file then has VSync in its new phase and the other counters as they were. `Restart` is
the program started again, `LoadState` puts the file's counters under the deadline of
the new run, which is in no file. `behind` is a ghost: an update has not run since.

**BiosKernel.tla** - the kernel of the HLE BIOS. An exception is a run of stages
(`psxBiosException`: the event of VSync, those of the counters, the interrupt queue,
the end), stopped at every callback into guest code (`SoftCall`, `CallbackReturns`),
because devices raise interrupts there. It ends in a hook (`EnterHook`, `Resume`) or
returns (`ReturnFromException`). `status` is the stack of enables in CP0, pushed by
`Exception` and popped by every return; threads are opened, closed and changed to,
events enabled, interrupt routines queued. Registers and code are represented by
the thread they belong to: what matters is whose they are.

**CardFiles.tla** - files on a memory card through the BIOS: `buopen` with and without
creation, `buwrite`, `budelete`, the raw `_card_write`, on the card in memory and its
file on the host (`SaveMcd`), which `Restart` reads again (`LoadMcd`). The first
matching entry is taken, as the loops over the directory do.

**Spu.tla** - one voice of franspu and the ring of movie sound. Between two calls of
`SPU_async_1ms` the guest writes keys, start and loop registers in any order, and any of
the addresses `Starts` and `Loops`, as the code stores them: a start register written
after the key-on replaces the sample that will be started, and a loop register diverts
the voice that plays. Two history variables, `started` and `given`, remember where the
guest sent the voice since its key-on; no guard reads them. The loops of that call
and of `FeedXA` go one sample at a time (`VoiceSample`, `MixSample`, `FeedSample`).
A block of sound memory is its flags; the sample of sound in a slot is its number.
The changes of the envelope are any of `Rates` and `ReleaseRates`.

## 3. Runs

| Run | Instance | Distinct states | Shows |
|---|---|---|---|
| CdRom | any guest; 7 commands: one of each way `cdrWrite1` treats them, and Nop, which looks at the lid; 1 sector, which ends a file; reads fail | 2.7 million | queue, events and status are consistent under any register writes |
| CdDriver | handshaking guest; 8 commands; 4 sectors: two frames of two seconds; no end of file | 103,000 | the controller implements CdStream; commands are answered and sectors keep coming |
| CdAutoPause | as CdDriver, sector 1 ends a file | violation | auto-pause does not stop the read |
| RootCounters | counter 0 programmed with 4 modes; words of 4 bits | 410,000 | one deadline stands for all counters |
| RcntRate | same | violation | a counter with rate 0 |
| RcntOneShot | same | violation | a disarmed counter fires |
| SioDriver | both slots; one frame of two bytes per card, address bytes that differ in no half; two blocks; two button states | 490,000 | cards change whole frames only; polls are of one moment |
| DmaDriver | channels 0, 1, 2 and 3: both MDEC channels, the GPU's and one that ends at once | 41,000 | each transfer ends, and is reported once |
| BiosKernel | 3 threads, 1 interrupt routine; a counter and VSync interrupt at any point | 764,000 | registers, critical sections and interrupts survive the HLE exception handler |
| Spu | 1 voice, 3 samples of 3, 2 and 1 blocks, loop addresses in two of them; a ring of 3 slots, up to 5 samples fed | 1.0 million | own sample, key-off heard, movie sound in order |
| SaveState | words of 4 bits, blocks of 2, one counter; any number of saves, restarts and loads | 1.1 million | counters are late after a load by a bounded time, once |
| CardFiles | 4 entries, 2 names, 2 contents, any card at the start | 62,000 | what the guest sees of its files is on the host |

*Why the bounds are enough.* CdRom: no action distinguishes commands beyond these seven
groups, and the sector is compared only with the end-of-file set, so that with an
arbitrary guest one sector reaches every combination of flags. `ByteRange` = 9 is the
smallest byte that holds the largest result (8), so the index wraps within a few
reads. CdDriver needs three sectors to tell the one delivered, the one announced and
the one prefetched apart; two frames of two seconds make four, with a carry from frames
to seconds, from seconds to the minute, and a wrap of the minute. RootCounters keeps the proportions that matter: a word of
16 with blocks of 2 (a block is at most a quarter of a turn), the phases of VSync
unequal, both clocks, and 0xffff small; the clock wraps many times. The counters are
symmetric but for the tests on the index, so one is programmed while VSync and the
idle ones run beside it. SioDriver: a frame of two bytes has a first and a last byte
and an interior to tear; one frame and two slots distinguish any address error,
since frame 258 has both address bytes non-zero. DmaDriver: channels 3, 4 and 6 behave
the same, so one of them is kept. BiosKernel: a third thread is one that is neither
left nor entered by a switch; a second slot of the queue repeats the first. Spu: the
samples are the three kinds (a loop that begins after the start, one at the start, no
loop), and the loop register is written with an address inside the first and one inside
the second of them, whichever plays or is keyed on; in a ring of three slots the play position is before, at and behind the
start when the ring overflows, and chunks up to its size overflow it in every state;
voices are independent of each other. CardFiles: two names in four entries give free
entries before, between and behind used ones, and names that occur twice. SaveState
has blocks of two cycles, so that a test may come before or after the difference to
the old deadline wraps, frames halved by `Config.VSyncWA` (the run RootCounters has
whole ones), and the smallest word that holds three blocks and a phase in
half a turn (`FrameAssumption`). Its run leaves I_STAT out of the fingerprint (`VIEW
Clock`): the guest may always clear it and no other action reads it. But for liveness,
everything the passing runs check is also proved, and the proofs depend on no bound.

*Fairness.* Safety is checked without it. In CdDriver and DmaDriver the events have
weak fairness: `psxBranchTest` is called at every branch and runs each event that is
due. `AnswerCommand` has strong fairness, since it competes with `SectorReady` for the
acknowledged `Stat`; the code gives an answer after 0x800 cycles and a sector after
`cdReadTime`, a hundred times later, so that the sector cannot win every time. The
guest's handler runs to its end (weak fairness). Main programs have none: they may
stop. Spu has weak fairness of `Mixing` and of `FeedSample`: `psxRcntUpdate` calls
`SPU_async` at the end of every frame, and the loops over samples do not wait for
anything.

*Mutants.* For every property a definition of the model is replaced by a plausible bug
(operators marked "mutant" beside the definition they replace), and TLC finds the
property violated.

## 4. Disagreements with what the code says

1. **Auto-pause** (CdRom.c:628-634). The pause is queued, but `StopReading` went with
   the commented-out AUTOPAUSE answer (489-500); the drive reads on after its Pause is
   complete, and delivers the last sector again. Run CdAutoPause.
2. **Dot clock in the vertical blank** (PsxCounters.c:182). The rate of counter 0 is
   47388 / 386 / 262 = 0; `psxRcntRcount` divides by it. Run RcntRate.
3. **"Only 1 interrupt"** (PsxCounters.c:47, 145-155). The sentinel that disarms a
   counter is a number of cycles that can pass. Run RcntOneShot.

## 5. Proofs

Proved by TLAPS, for every value of the constants; nothing is assumed but the named
ASSUMEs of the modules, which TLC evaluates in every run.

**CdRomProofs** - for every set of commands, disc, and any guest: `[]IInv`, from it the
five invariants of run CdRom, and the action property `AnswerKept`. `IInv` adds one
conjunct, `Irq = "Play" => Play`: `PlayBitHonest` alone is not inductive, because the
status bit is set when Play is *answered*; what makes it true is that any command that
stops the audio also takes the queue slot Play was in. `EventHasAnswer`,
`QueuedAnswerWaits` and `StoppedReadStays` are inductive only together: an
acknowledgement schedules what is queued, and what is queued after a stop must not be
a read. The proof of `IInv` goes action by action, types first (`TypeStep`).
`CarriesRight` shows, for every number of frames, seconds and minutes, that the carries
of `NextSector` lead to the next sector; the refinement below rests on it.

**CdDriverProofs** - for every set of commands and every number of sectors. First every
step of the handshaking guest is shown to be a step of CdRom's arbitrary guest
(`DriverStep`), so that `IInv` is at hand. Each theorem names what it needs of the disc:

- the refinement `DriverSpec => DeliversInOrder` and `PrefetchCurrent`: no errors and
  no ends of files (`GoodDisc`). Auto-pause delivers a sector twice (section 4), so the
  second is needed; an error is a sector that is reported and not delivered.
  `DriverInv` adds that an answer and its interrupt come and go together (`Served`),
  that a read waiting for its acknowledgement has the controller to itself
  (`ReadAlone`), after which the buffer holds the next sector (`Prefetched`), and that
  an announced sector is the one before it until the handler ends (`Announcing`).
- `InterruptMeansAnswer`: no errors. An interrupt always has its answer (`Handling`, on
  every disc), but a disk error is an answer without an interrupt.
- `ResultWhole`: any disc, for a guest that sends no Test command: `cdrInterrupt` gives
  no result to a Test whose subcommand it does not know, so that what is left of an
  earlier answer would be read.
- the action property `PauseStopsReading`: no ends of files, which queue a Pause the
  guest did not send. A Pause in the queue then belongs to a read that stopped.

**DmaProofs** - for every set of channels: `[]IInv`, three invariants, and the
refinement `DriverSpec => OncePerTransfer`. The invariant says in addition that a flag
in ICR belongs to a transfer that is over, and that the GPU's event belongs to one
under way; without these the handler could be told of a running transfer. Each step is
mapped to a step of DmaChannels (`TransferRefines`, `EventRefines`,
`WriteBackRefines`) or leaves the channels' states alone.

**RootCountersProofs** - for every word size, frame, block length and set of guest
values: `[]IInv`, `NoCounterMissed`, `LateByOneBlock`, `PhaseLength`, `TypeOK` and the
action property `StaysUnscheduled`. `NoCounterMissed` is not inductive. What is: the
deadline lies no later than any scheduled counter (`Deadline`), a scheduled counter is
within half a turn (`ScheduledSoon`) and late by at most a block. These three bound
the difference that `psxRcntSet` reads as signed, so that it is the number of cycles
left (`RemainingIs`), and the time stamps, so that none that counts wraps (`RunStep`).
They need `MaxBlock` to be at most a quarter of a turn, the only assumption on the
time the CPU core takes.

The same module proves `LateAfterLoad` of SaveState. A load breaks what
`NoCounterMissed` rests on: the deadline belongs to other counters, and its start may
lie anywhere, also "in the future". `StateIInv` keeps what survives: counters and file
are well-formed and the file late by at most a block (`Sound`, `FileSound`); before
the first test the counters are late by that block and the one that runs, whatever the
deadline; once a test found nothing due the old deadline counts again, and the
counters are late by at most two blocks and the time since its start
(`DeadlineCounts`). Since a new deadline is never further than a phase of the frame
(`NextIsSoon`), because VSync is always scheduled, an update comes in time, and from any such
counters it restores `IInv` (`UpdateStep`, which asks nothing of the deadline). The
bound of two blocks is what the proof found: with blocks of one cycle one block is
enough, since a test then always comes before the difference wraps. `FrameAssumption`
says that three blocks and a phase are less than half a turn of the clock, so that the
signed difference of `psxRcntSet` is right however late the counters are.

**SioDriverProofs** - for every size of a frame, set of frames, contents, buttons and
uninitialised bytes: `[]IInv`, `TypeOK`, `PadSnapshot`, `QuietBetween`,
`InterruptComes`, `ReadsAccepted`, and the refinement `DriverSpec => CardsHold`. None of
these is inductive. `IInv` relates the guest's progress, the number of bytes it has
received, to the state of the port: whose turn it is and whether an interrupt is under
way (`Turns`); for a controller the automaton's state, the position and the bytes that
were polled (`PadPort`, `PadReply`, `PadAbsent` for slot 2); for a card the
automaton's state, the address so far and what is in the buffer (`CardPort`, `Reads`,
`Writes`): in a read, the frame as the card holds it, for no other transfer can write
it meanwhile; in a write, the bytes sent so far. `ReadsAccepted` then is a fact about
exclusive or: the checksum the port computes over address and data cancels with the
one the guest computes (`XorCancels`), bit by bit, whatever the length. In the
refinement selecting a card is `Ask`, the last byte is `Store` or `Load`, a
reset is `GiveUp`, and every other step leaves cards and request alone.

**BiosKernelProofs** - for every number of threads and queue slots: `[]IInv`,
`OwnRegisters`, `CriticalHolds`, `TypeOK` and the action property `EnabledKept`. The
invariant says that during an exception interrupts are off and what `SaveRegs` and EPC
hold is the current thread's, that a callback or a hook runs only while a hook is
installed, and that a thread that does not run was saved with its own context.

**SpuProofs** - for every well-formed sound memory, all addresses written to the start
and loop registers, ring and envelope: `[]IInv`, `OwnSample`, `XaInOrder`, `TypeOK`. Well
formed means that an end follows each of these addresses, and that a sample that repeats
has a loop start before its end (`SampleAssumption`); nothing is assumed of when or in
which order the registers are written. `OwnSample` needs that a loop address in force is
one the guest wrote since the key-on, and that without one the voice has passed a loop
start of its own sample before it uses the address (`LoopOwn`), and that a voice taken
for the current call goes on to its end though it was keyed off (`Playing`). `XaInOrder` needs
that the sample fed last is the largest number in the ring (`FedLast`).

**CardFilesProofs** - for every directory and set of names: `[]IInv`, `SavedOnHost`,
`HandleOwn`. The invariant adds that memory and file agree in their data.

*Only model-checked*: liveness (`CommandAnswered`, `SectorsFlow`, `TransferNoticed`,
`KeyOffHeard`), which is outside this prover. Every invariant, action property and
refinement of a passing run is a theorem; those of the three runs that expect a
violation are false of the code.

## 6. Not modelled

Sample, pixel and vector arithmetic (SPU interpolation, XA, MDEC decoding, GTE,
rasterisers) and the CPU cores: functions whose specification would be their code.
The recompiler's invalidation of blocks has its effect in generated code only.
Frontends, ports, and the vendored libraries under `glesport/`, `glgpu/` and `cdr/`,
which are most of the lines of the repository. In the modelled components: the CD's
parameter FIFO, XA and mute switch; reads of counters; the formats of card files;
positions whose seconds or frames are out of range, which Setloc takes unchecked;
controllers no frontend reports; card files the host refuses to write; the memory that a DMA transfer moves; of the BIOS its
C library, heap and the events of cards and controllers; of the SPU its memory
transfers, noise and frequency modulation; of save states the structures that are
copied whole. Devices are not composed with each other: they share only I_STAT, of which
each handler acknowledges its own bit, so that several events in one call of
`psxBranchTest` are not explored together. An answer that auto-pause overwrites in the
queue is not missed by any property: `CommandAnswered` is asked of discs without ends of
files.

## 7. What is left

1. Disk errors in CdDriver, with a guest that polls for them.
2. The sector cache of the CD backend, composed with CdRom.
3. The BIOS's events of cards and controllers (`DeliverEvent`), over SioDriver.
4. Save states of the CD-ROM controller, over CdRom as SaveState is over RootCounters.
5. Proofs: what each `...Driver` promises when the guest misuses the device; the safety
   half of the liveness properties (the event each waiting guest waits for is
   scheduled), as `InterruptComes` is for the serial port.
