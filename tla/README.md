# TLA+ models of mspm-baremetal

Firmware for the MSPM0C1106 (Cortex-M0+, one core, no operating system): a main
loop, interrupt handlers that preempt it between any two instructions, and
state that has to survive resets. The models here are about the places where
these meet. Each is translated from the C code; `PROJECT.json` maps every
definition to the lines it stands for.

## Inventory

| Component | State | Operations | Who calls it | What makes it correct |
|---|---|---|---|---|
| `lib_ringbuf` | storage, two free-running indices, drop counter | `try_push`, `try_pop` | one thread, one ISR | order, no loss or duplication, no overwrite, exact refusal and counting, index wrap |
| `hal_uart` | the ring, TXINT mask, FIFO | `hal_uart0_tx_write`, `UART0_IRQHandler` | thread; UART interrupt | no lost wakeup, no FIFO overrun, everything accepted is sent, the interrupt goes quiet |
| `lib_regmap` snapshots | two buffers, one atomic word: active bit and two reader counts | `publish`, `acquire`, `release` | main loop; I2C ISR | no torn reads, exact counts at saturation, refusal instead of overwrite |
| `lib_regmap` pointer and queue | 16-bit pointer, read latch, command queue | `set_address`, `read_current`, `write_current`, `enqueue`, `try_pop` | I2C ISR; main loop | pointer follows the wire, commands delivered once in order |
| `hal_i2c_target_engine`, `hal_i2c_target` | direction, address byte count, pre-handled START | `I2C1_IRQHandler` and the engine's begin/receive/transmit/end | I2C interrupt | transactions are kept apart whatever flags are pending together; no leaked latch, no hung bus |
| `lib_crash`, `startup.c` | the retained record | `note_boot`, `capture`, `is_valid`; reset and exception handlers | start-up; NMI, HardFault, unexpected exceptions | a record that validates is a committed one; evidence outlives boots |
| `arch_atomic_cm0`, `arch_critical` | PRIMASK | compare-exchange, fetch-sub, enter/exit | `lib_regmap`, `hal_uart` | atomicity, nesting |
| `hal_i2c_controller` | FIFOs, last status | `write`, `read`, `write_read` by bounded polling | main loop | bounded, no stale FIFO contents, right status |
| `board_init` | init result, I2C1 claim | `board_init`, target/controller init | applications | one owner of I2C1, claim given back on failure |
| `pcf8574a_demo` | stage, address, result | scan, separate read, combined read | main | success is genuine, the scan skips nobody, it ends |
| `hal_clock` | reported MCLK | `hal_clock_init` | `board_init` | the reported clock is the one that runs, also when polling gave up |
| `hal_timer`, `hal_wdt` | millisecond counter, watchdog | tick, deadline, kick | SysTick; main loop | wrap of the deadline comparison, feeding in time |
| `blink`, `uart_tx_test`, `fault_record_test` | deadlines, script, retained record | `main` | reset | on time, verdicts that do not depend on timing, one fault only, no reset loop |
| `i2c_regmap_demo` | cached status image | `publish_status` | main loop | the latest status is eventually published |
| `rules.mk`, `stamp_image_identity.py` | objects, ELF, BIN, HEX | compile, link, stamp, objcopy, verify | host build | the three artefacts agree, the identity is of this make, contents reproducible |
| gpio, power, boot banner, build info, debug, `lib_link_test` | constants | start-up register writes, formatting | | not concurrent |
| `arch_memory` | none | `memcpy`, `memmove`, `memset`, `memcmp` | the compiler's structure copies | overlap of `memmove`, nothing else written |

What is hard to test here: an interrupt between any two accesses (ring, UART,
snapshot); several interrupt flags pending at once and reported in priority
order rather than in the order they happened (I2C target); a reset or nested
exception between two stores (crash record); a peripheral that runs on after
the driver has given up on it (I2C controller); index and counter limits; a
tick on the wrong side of a WFI; a make killed between two writes of a file.
`PROJECT.json` lists these under `hazards`, each at its line.

## Modules

| Module | Models | Composed of |
|---|---|---|
| `RingFifo` | abstract bounded queue | |
| `RingBuf` | `lib_ringbuf.c` | implements `RingFifo` |
| `CommandQueue` | command queue of `lib_regmap.c` | implements `RingFifo` |
| `UartLine` | abstract ordered, lossless, live line | |
| `UartTx` | `hal_uart.c` | `RingBuf`; implements `UartLine` |
| `SnapshotRegister` | abstract page: publish at once, read one image | |
| `RegmapSnapshot` | snapshot part of `lib_regmap.c` | implements `SnapshotRegister` |
| `AtomicWord` | abstract atomic word | |
| `AtomicOps` | `arch_atomic_cm0.c`, `arch_critical.h` | implements `AtomicWord` |
| `MemoryOps` | `arch_memory.c` | |
| `I2cTarget` | `hal_i2c_target.c`, `hal_i2c_target_engine.c`, rest of `lib_regmap.c` | pages as in `SnapshotRegister` |
| `CrashRecord` | `lib_crash.c`, `startup.c` | |
| `I2cController` | `hal_i2c_controller.c` | |
| `PcfProbe` | `pcf8574a_demo/main.c`, I2C1 claim | `I2cController` |
| `StatusPublisher` | `i2c_regmap_demo/main.c` | `SnapshotRegister` |
| `BoardInit` | `board_init.c`, `hal_clock.c`, set-up in `hal_gpio.c` and `hal_uart.c` | |
| `Ticker` | `hal_timer.c`, `hal_wdt.c`, `arch_wait.h` | |
| `Blink` | `blink/main.c` | `Ticker` |
| `UartTxTest` | `uart_tx_test/main.c` | `Ticker`, the driver of `UartTx` counted |
| `FaultRecordTest` | `fault_record_test/main.c` | `Ticker`, the record of `CrashRecord` |
| `Applications` | whichever image is flashed | `Blink`, `UartTxTest`, `FaultRecordTest`, `BoardInit`, `StatusPublisher` |
| `ImageBuild` | `make/rules.mk`, `stamp_image_identity.py` | |
| `SealedRecords` | the two records under a CRC | `CrashRecord`, `ImageBuild` |
| `RingBufProofs`, `UartTxProofs`, `RegmapSnapshotProofs`, `I2cTargetProofs`, `I2cControllerProofs`, `PrimitivesProofs`, `ApplicationsProofs`, `SealedRecordsProofs` | lemmas and proofs | |
| `MC*` | instances for TLC | |

Operators named `Mut_...` are deliberately wrong variants of the definition
that follows them. They occur in no specification; each shows that a property
notices the mistake.

### RingBuf

`try_push` and `try_pop` are split at each access to state the other side also
touches: test, store or copy, publish or advance. The two sides interleave
freely, which covers either side being the ISR. Indices are taken modulo
`Modulus` (2^32 on the target) and the capacity is only assumed to divide it.

### UartTx

The ring's actions are steps of the thread (push) and of the ISR (pop). The ISR
preempts the thread and not the reverse. External actions: the UART shifts bytes
out and raises TXINT when the FIFO falls to its level; below it, it may or may
not raise it again, so nothing depends on the exact condition. The NVIC latches
a raised interrupt, so a handler may be entered and find nothing to do.

### RegmapSnapshot

Every access to the packed word or to a buffer byte is a step. Any number of
readers (register maps in handlers) interrupt the publisher and each other. A
compare-exchange or fetch-sub is one step, which `AtomicOps` justifies. The
word is packed and unpacked arithmetically as in the code, so carries and
borrows between the fields are possible in the model and excluded by
`CountsExact`.

### I2cTarget

One action per case of `I2C1_IRQHandler`, taken in IIDX priority order with
the flag cleared by the read, until no flag is left. `Late` says, per bus
event, which flags may still be pending when the event happens: how far the
handler may lag. With `PromptLate` a START may still be pending when the
address and the first byte arrive, a received byte or STOP when the next STOP
or START does, but a received byte is taken before a repeated START.
`ByteLate`, which the passing run uses, also leaves a STOP pending through the
next address and byte. The code then ends the new transaction with the old
STOP; `Overtaken` marks it `tainted`, from which point until the next START
its pointer is not compared with the wire, and the run shows that nothing is
left behind: no latch, no stretched clock, and the transaction after it is
right again. `wire_count`, `wire_high`, `expected`, `due` and `tainted` record
what the protocol on the wire says; the properties compare the program with
them. Bytes have `Base` values; an image byte is named by its address and
version. The refusal counter of `publish` is in `RegmapSnapshot`, not here.
Commands are a bounded sequence, which is what `CommandQueue` is shown to
implement.

### CrashRecord

`note_boot` and `capture` are lists of stores, grouped by the fences of
`lib_crash_commit`; within a group the stores to different fields happen in any
order, since the record is not volatile. Between any two of them a reset, a
power loss that scrambles words, or an exception of higher priority may come;
the interrupted routine is never resumed. The reason word stands for reason, pc
and xpsr. The CRC is taken to be collision free. `intact` is lost when a reset or
a power loss comes between two stores: a reset inside the rewrite of
`note_boot` may lose the evidence of an earlier fault, which the code accepts,
and `EvidenceKept` says nothing of such a boot.

### I2cController

`write`, `read` and `write_read` differ only in how many bytes they write and
read, so one `Call` stands for the three. Each register access that the bus can
come between is an action: line check, busy check with the clearing that
follows it, each poll of the flush, the start, the two reads (MSR, then RIS) of
each poll, giving up, reading the FIFO. The peripheral and the bus are external
actions that need not happen and go on after a call has returned TIMEOUT; the
errors are address and data NACK, lost arbitration, a bus error, and SCL held
low, which may or may not end the transfer. Bytes are named by the transfer
they belong to, transfers alternately 0 and 1, so that a left-over byte is told
from a new one. BUSY is not valid until the peripheral has taken MCTR over
(erratum I2C_ERR_13). `ended` and `stretched` record what happened on the bus.

### PcfProbe

`main` of the demo; its calls run through all steps of `I2cController`. `board_init`
is its result, and the watchdog is not modelled beyond its initialisation.

### StatusPublisher

The three counters are read in separate steps while the handler bumps them.
Publishing is one step of `SnapshotRegister`, which is what `RegmapSnapshot`
is shown to implement. Counters have two bytes of `Base` values.

### CommandQueue

The queue at the granularity of its accesses: the handler preempts the main
loop, so an enqueue is one step and a pop is a test, two copies and an advance.
It is mapped to `RingFifo` with commands as its elements. `try_pop` has no
release fence between the copy and the advance, where `lib_ringbuf` has one; the
model keeps the order of the statements, as GCC does.

### AtomicOps

The thread is context 0, handlers are numbered by urgency and stack up in
`running`. A helper saves PRIMASK, sets it, loads, stores and restores, each in
a step; a caller may hold a section of its own around any number of calls. The
word of `AtomicWord` changes, and its caller is told the old value, at the store.

### MemoryOps

A call is entered with any legal operands and then takes one step per byte;
`before` is the memory it found. `memmove` whose target is below its source runs
the loop of `memcpy`, as the code calls it. `memset`'s value has one value more
than a byte, so that its truncation shows. No other code runs in the memory of a
call.

### BoardInit

`hal_clock_init` poll by poll against an oscillator that settles when it likes,
then port, LED, ring, UART and debug writer with every early return, then the two
I2C1 drivers, opened in any order and any number of times, with configurations
that are accepted or not. Which tables are well-formed is chosen at the start.

### Ticker, Blink, UartTxTest, FaultRecordTest

`Ticker` is the counter of `Modulus` values (2^32 in the code), the watchdog
counter and the wait: a tick ends a WFI that is under way and is lost to one that
is about to begin. At most `MaxBusy` ticks fall into one pass of a loop. `Blink`
is `main` statement by statement. `UartTxTest` runs the test's five writes as a
script of lengths and expected verdicts; of the driver it keeps how many bytes
are in ring and FIFO and whether the interrupt is armed, and the line sends at
least one byte per millisecond. `FaultRecordTest` follows the record from reset
to reset: a capture or a rewrite at boot makes it invalid with its first store
and valid with its last; resets and power losses come between any two steps, up
to `MaxResets`. The final loops of `UartTxTest` are those of `Blink`.

### Applications

One application is built into an image (`APP` in the `Makefile`). `image` says
which one; its model takes all steps, over the shared `Ticker`, and the others'
variables stay as they are. `board` is the bring-up by itself, followed by
any use of the I2C1 drivers. The applications take `board_init` by its
result, which `BoardInit` shows to be reached with a consistent clock.

### ImageBuild

An image is a few bytes of content that depend on the tree and on `VERSION`, a
list of loaded segments and the identity block, whose CRC is the data it covers
(taken to be collision free). One action per command of the recipes; the tool's
`stamp` is a read and a write of the ELF, empty in between. The linker cuts the
content into segments in several ways, good and bad. Between runs the tree is
edited or committed, one byte of one file is damaged, or the tool's verify is
run by hand; make may be killed before any command finishes. Objects are reused
when the tree they were compiled from is the same, as make's time stamps say.
`SealedRecords` puts the build beside the crash record, with which it shares
nothing; the runs of the build leave the record as it is.

## Runs

| Run | Bounds | States | Shows |
|---|---|---|---|
| `primitives` | ring: capacity 4, modulus 8, 2 bytes; queue: 2 slots, 4 commands; atomics: thread and 2 handlers, a word of 2 values; memory: 4 bytes of 2 values | 410k | ring and queue implement `RingFifo` without overwriting; the helpers implement `AtomicWord` and mask exactly inside sections; the memory functions do what C says of them |
| `uart_tx` | capacity 2, FIFO 2, writes up to 3 bytes | 427k | no lost wakeup, no overrun, `UartLine` with its liveness, quiet when idle |
| `snapshot` | 2 readers, 2 bytes, `ReaderMax` 1 | 839k | exact counts, undisturbed copy, stable images; implements `SnapshotRegister` |
| `i2c_target` | 4 addresses, 2 pages and a hole, queue 2, a STOP late by a byte | 1.7M | pointer, reads and commands follow the wire, also after errors; latch and clock stretch |
| `i2c_target_restart` | as above, a repeated START may overtake the last byte | | **violation**, see below |
| `i2c_target_error` | as above, an error in a write | | **violation**, see below |
| `crash_record` | 2 causes, HardFault and NMI, 2 kinds of power loss, sequence modulo 3 | 882k | valid means committed, evidence kept, recovery |
| `controller` | any caller: FIFO and transfers of 2, 2 polls, one present and one absent target; `PcfProbe`: single bytes, two ranges of 3 addresses, one target in each | 976k | OK means done, results name causes, bus released, starts clean, always returns; the probe's report is true and it ends |
| `controller_timeout` | as above | | **violation**, see below |
| `applications` | counter of 24 values; blink periods 5 and 2, retained 3, 2 ticks per pass; ring 4, FIFO 2, writes up to 8; 2 disturbances; the board's clocks and baud rate, 3 polls; 3 counted events, counters modulo 4, one reader | 119k | LED and watchdog on time, the LEDs tell, verdicts not by chance, one fault and no reset loop, reported clock, divisor and claim, the status page converges |
| `image_build` | 2 trees, 2 versions, 2 makes, 2 commits, images of 2 or 3 bytes | 574k | artefacts agree, identity current, clean means committed |
| `image_build_version` | as above | | **violation**, see below |

`primitives`, `controller` and `applications` explore components that do not
act on each other in one run: a variable that Init sets and no step changes
(`exercised`, `caller`, `image`) says which one a behaviour is about, so their
state spaces add up and do not multiply. A property named after several parts
(`RingSafe`, `SnapshotSafe`, `OnSchedule`, `FaultReported`, `BoardConsistent`,
`ReportIsTrue`, `MemoryRight`) is their conjunction with the module's type
invariant; the parts are defined and explained one by one above it.

The bounds let each limit be reached: rings and queues fill and wrap, the
index modulus is two laps, writes exceed the ring, reader counts saturate with
one more reader waiting, reads run over both pages, the hole and the end of
the address space, a nested exception interrupts every point of a capture, and
a controller call can run into its poll limit in each phase of a transfer and
be followed by others while that transfer goes on or ends. The millisecond
counters wrap several times in a run; periods are below half the counter's
range, as the assumptions say, and the watchdog's period is just above what
two passes may take. Two makes are enough for each artefact to be of another
make than the next; a kill may come into either. The `CHECK_DEADLOCK FALSE`
runs stop where the program does: after initialisation, or asleep in a failure
loop without a tick. Power losses scramble one covered word or all words; the
CRC treats every other set alike. No run uses symmetry.

Fairness: `UartTx` assumes that the CPU runs (a pending handler, otherwise the
thread) and that the UART shifts; `CrashRecord` that the CPU executes;
`I2cController` and `PcfProbe` that the CPU executes and that the peripheral
takes a started transfer up (the delay the driver waits is fixed), and nothing
else of the bus; `StatusPublisher` that the main loop runs (the timer wakes it
every millisecond) and that a read transaction ends, by STOP or by the
target's SCL-low timeout; `BoardInit` that the oscillator settles some time,
possibly after the polls gave up; `Blink`, `UartTxTest` and `FaultRecordTest`
that the processor runs when awake and SysTick counts, `UartTxTest` also that
the UART shifts and its interrupt is taken. Nothing makes an application
write, a bus transfer happen or a fault occur.

### Findings

* `i2c_target_restart`: `hal_i2c_target_begin_if_start_pending` cannot tell the
  START before a received byte from a repeated START after it. If the handler
  has not taken the low address byte when the repeated START is raised (about
  one bit time later), the engine is reset first, the byte is taken for a high
  address byte, and the read that follows uses the old pointer. The register
  map document says a completed address phase commits the pointer "even if it
  is immediately followed by a repeated-start read".
* `i2c_target_error`: after an error the document has the target wait for STOP.
  The code leaves the engine idle, and the next received byte of the same write
  begins a new address phase, so later data bytes can move the pointer. The run
  assumes an error after which the peripheral still receives (for instance an
  interrupt overflow).
* `controller_timeout`: a Timeout A that the poll loop has seen is forgotten if
  BUSY is still set at the poll limit: the call returns the generic TIMEOUT.
  `docs/device_facts.md` says that a low SCL is reported as a Timeout-A failure.
  The run assumes that the peripheral may stay BUSY after Timeout A.
* `image_build_version`: `VERSION` is compiled into the objects (`-D` flags of
  `make/device_mspm0c1106.mk`) but is not among their prerequisites, so a make
  with another `VERSION` links objects of the old one and stamps them with the
  new one. The identity block then disagrees with the version the firmware
  reports, and the contents of a clean build depend on what was built before;
  `docs/image_identity.md` says that they are reproducible.

## Proofs

`tlapm` checks every module; the theorems hold for all values of the constants
that satisfy the named assumptions.

* `RingBufProofs`: `TypeCorrect`, `RingSafety` and `RingImplementsFifo`, from
  `CapacityAssumption` (the capacity is positive, smaller than the modulus and
  divides it, all of which hold of a power of two) and `ByteAssumption`. The
  inductive invariant is `TypeOK`, `NeverOverfull` and `InFlightBytes`:
  `NeverOverfull` carries that a push past its test still has a slot and a pop
  past its test still has a byte, which is what makes a stale copy of the other
  index harmless. Slots of fewer than `Capacity` consecutive indices are
  distinct because the capacity divides the modulus.
* `UartTxProofs`: `FifoSafety` (`NoFifoOverrun`) and `NoWakeupIsLost`
  (`NoLostWakeup`), from `UartAssumption`: the ring's assumptions and a level below
  the FIFO's depth. The ring's own invariant and steps come from an instance of
  `RingBufProofs`. The inductive invariant adds that the room seen by the test is
  still there (`RoomSeen`), and says what covers a byte in the ring at each place
  of thread and handler (`Covered`): the handler that runs, the kick the writer has
  still to give, or a wakeup to come; and that a request the NVIC has latched is
  still raised, without which an entry that finds nothing to do would lose it.
  `LineInOrder` is the safety half of `ImplementsLine`: what is accepted and not
  yet sent is FIFO, byte in the handler's hand and ring, one behind the other, and
  every step accepts a byte, sends the oldest or is not seen.
* `RegmapSnapshotProofs`: `SnapshotSafety` (`SnapshotSafe`: `TypeOK`,
  `CountsExact`, `CopyUndisturbed`) for any finite set of readers, page length
  and counter width. The inductive invariant adds the bounds of the copy index
  and that a reader inside acquire holds no latch; `PackedIsExact` shows that
  a word within the bounds decodes into its fields, so that adding or
  subtracting one reader touches one field. `HeldImagesAreStable` follows:
  only the copy loop writes, and its buffer has no holder.
  `SnapshotImplementsRegister` proves the refinement of `SnapshotRegister`, with
  `NoBuffer` none of the register's latches: the exchange of publish and the
  compare-exchange and fetch-sub of a reader are the steps that are seen, the copy
  and the loads are not. The exchange may mark every latch superseded because the
  buffer publish fills has no holder.
* `I2cTargetProofs`: `StretchIsAnswered` and `LatchIsReleased` for any register
  map, queue and lateness of the handler, from `PagesAssumption`,
  `TargetAssumption` and `SentinelAssumption` (the values for "none" are none of
  the real ones). Their invariant (`TargetInv`) relates the latch to the bus and to
  the START or STOP that is still to be handled (`LatchInv`) and the last byte to
  the latch (`TxInv`). `PointerIsRight`, `CommandsAreDelivered` and
  `ReadsAreCoherent` assume `Timely`: a received byte is taken before the next
  byte or START overtakes it, and an error before the START that follows. That
  gives the handler one bit time before a repeated START and nine before a byte;
  the run `i2c_target` has it this punctual, and `i2c_target_restart` shows that
  the assumption is needed. `WireInv` adds that the engine agrees with the wire,
  up to the one byte in SRXDATA that it has not seen (`ByteInPlace`, `InStep`).
* `I2cControllerProofs`: `TransfersStartClean` and `BusIsReleased`, whatever the
  bus does. The inductive invariant says what the peripheral can be
  doing at each place of a call: BUSY is unreliable only in the delay, so the
  busy check of `prepare` and the poll that ends the wait really mean idle, and
  every transfer under way has its STOP requested. `OkIsDone` (`OkMeansDone`) and
  `CauseIsNamed` (`ResultNamesCause`) add what is known of the transfer of the
  running call (`TransferInv`): while it is under way the bytes on the wire and
  those left in the transmit FIFO are this call's, in order (`SentInOrder`), the
  receive FIFO holds what this transfer received (`ReceivedInOrder`), and MSR's
  error bits, RIS and the result so far agree on how it ended (`Signals`), so that
  what the last poll reads is the cause. Their only assumption is
  `ControllerAssumption`: a transfer fits the FIFO. `ProbeReportIsTrue`
  (`ReportIsTrue`) puts the port expander demo on top, for any two address ranges
  (`RangesFit`): its invariant (`ProbeInv`) says at each place of `main` what the
  last call has shown and which addresses have been refused (`Progress`).
* `PrimitivesProofs`: `MaskingBalanced` and `HelpersAreAtomic`, for any set of
  contexts and width of the word (`AtomicAssumption`). The inductive invariant
  adds to `MaskedIffInside` that a context between setting and restoring PRIMASK
  is the one that runs and its loaded value is still the word (`Exclusive`), that
  only the running context has a section of its own open, and that what it saved
  is the mask of its caller. Without the last two, restoring could not be
  told from opening. `MemoryCorrect` (`MemoryRight`), for any size of memory and
  number of values of a byte: the inductive invariant (`Progress`) says which
  bytes of the target a loop has written and with what; that the byte it is about
  to read is still the original follows from the direction (`UpStep`,
  `DownStep`). `QueueImplementsFifo`: the command queue is the ring of
  `RingBufProofs` (an instance) with an enqueue in one step, and a pop that has
  copied one field still finds it in its slot (`HalfCopied`); it needs
  `SizesFit`, in which `NoCommand` is no command.
* `ApplicationsProofs`: `ImagesKeepTime` (`OnSchedule`) and `BlinkNeverEarly`, for
  any counter width, periods and ticks per pass with `BlinkAssumption`: period and
  slack stay below half the counter's range and two passes below the watchdog's
  period. The inductive invariant ties the wrapping deadline to the ghost `waited`
  (`DeadlineInv`: the deadline is the present minus `waited` plus the period,
  modulo the range) and bounds `waited` and `unfed` at each place of the loop by
  the ticks that may still fall into the pass (`OnTime`, `Fed`).
  `FaultIsReported` (`FaultReported`) rests on `FlashedInv`, which says at each
  place of the fault test what the record can hold (`RecordInv`), resets and power
  losses included. `BoardIsConsistent` (`BoardConsistent`) rests on `BoardInv`: what
  bring-up asked the oscillator for is what it reports and divides.
  `BurstsMeetDrained` and `CacheIsThePage` are the safety halves of `TestIsSound`
  and `StatusConverges`. The first (`DrainInv`) relates the wrapping deadline of
  a wait to the bytes the driver can still hold: one leaves in every millisecond
  but perhaps the first, so bytes left and milliseconds passed add up to at most
  the capacity and one, and `ScriptFits` has the wait outlast that. The second
  (`StatusInv`) needs that what is encoded at three offsets of the page decodes
  to the same counters (`DecodeEncode`), for any number of values of a byte.
* `SealedRecordsProofs`: `ValidRecordIsCommitted` and `EvidenceIsKept`, for any
  causes, exceptions, losses and width of the sequence number, from
  `CrashAssumption` (a scrambled word is none the code stores and no matching CRC)
  and `LossesAssumption`. The inductive invariant (`CrashInv`) classifies the stores
  still to do by the fence they wait behind (`Stages`) and says what the record is
  worth in each stage: as long as the old magic word is there, the CRC is that of
  the last commit, cleared or scrambled (`Believed`), so fields that a new commit
  has begun to store do not match it; when only the new magic word is missing, the
  CRC is that of the fields. `AcceptedFilesAgree`, `MakeFailsForCause`,
  `IdentityIsCurrent` and `CleanIsWhatWasCommitted`, for any trees, versions and
  numbers of builds and commits, from `ImageAssumption`: the linker's ASSERT keeps
  the content below the identity block. `BuildInv` says that a stamped block seals
  the content that the named revision had, if it is clean (`Stamped`), what each
  step of the recipe may rely on from the steps before it (`Recipe`), and what the
  way the last run ended says of the files (`Ended`).

Every safety invariant and action property of the passing runs has a theorem.
Only model-checked are the temporal properties: `GoesQuiet`, `Recovers`,
`AlwaysReturns`, `ProbeEnds`, `LedsTell` and `ClockIsReported`, and of
`ImplementsLine`, `TestIsSound` and `StatusConverges` all but the safety halves
above. Liveness and ENABLED are outside the prover.

## Not modelled

* `src/ti`: vendored device headers and CMSIS, register layouts and masks without
  behaviour. They make up all but some 3400 lines of the C code; the
  peripherals they describe are external actions of the drivers' models.
* Configuration checks and register set-up values, NULL-argument returns.
* Formatting: boot banner, build information, debug output, the crash record's
  register image and decoding.
* `lib_link_test` (calls every library function once so that it links),
  `hal_power.c` (a fixed delay).
* What a pin shows when its set-up failed: `led` is the commanded state, and after
  `GPIO_FAILURE` the pin may have been left an input (`hal_gpio.c:31-33`), so
  `LedsTell` is about the command there. The board's constant pin table does not
  fail.
* The other bits of `MCTR |= STOP` when a controller call gives up: the model's
  `GiveUp` sets STOP and nothing else.
* Edits of the tree while make runs: they come between runs only, so
  `CleanIsCommitted` is about a tree that is left alone during its build. That
  make reuses an object exactly when its tree is unchanged is an idealisation
  of time stamps.
* `verify-readback` of the identity tool (one comparison), the parsing of ELF and
  Intel HEX, and `tests/`.

## Plan

1. Done: every component above with its run; a theorem for every safety property
   that a passing run checks and for the safety half of three temporal ones.
2. Next: the invariants that the remaining liveness arguments rest on, as far as
   they are safety (what bounds the driver's polls, the stores of a commit still to
   do, the stages of bring-up), and shorter proofs where steps repeat.
