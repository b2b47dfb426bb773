# Verification of guc

guc is a toolchain for the microcontrollers inside NVIDIA GPUs (called fuc in the source): an
LLVM backend ("Guc"), a script that turns its assembly into the input of envyas, a loader that
puts code and data into the microcontrollers over PCI, monitors, and firmware that runs on
them. This directory holds TLA+ modules for the parts that carry the program's own logic, the
TLC configurations that check them, and proofs that TLAPS checks.

Paths below are relative to `src/`. `PROJECT.json` maps every definition that models code to
the lines it models, and lists the hazards of the code, line by line.

## 1. Inventory

| Component | State it keeps | Operations | Interaction | What makes it correct |
|---|---|---|---|---|
| Transfer firmware, `test/test_xfers` | a ring of eight commands, `qget`, `qput`; registers INTR, INTR_EN, 0x00c; the host's FIFO | interrupt handler `ihbody()`, `enqueue()`, `main()`, `work()` | shares the ring between the handler and `main()`; the host pushes commands, event lines raise interrupts | no command lost without a report, torn, duplicated or reordered; everything is served in the end |
| Loader, `loader/fucload.c` | two file buffers, section sizes, gate 0x260, the memories of two engines | read section sizes, read a file, upload code or data, start, first command | files, PCI registers, the firmware it starts | an engine runs only with all its sections loaded; all or none starts |
| Guc backend: conditions, `GucISelLowering.cpp`, `GucInstrInfo.cpp`, `GucInstPrinter.cpp` | a comparison node, a condition code, flag bits | combine, lower, reverse a branch | between the DAG combiner, branch folding and the processor's flags | the code acts on the comparison the program made |
| Guc backend: branches, `GucInstrInfo.cpp` | the terminators of a block | `AnalyzeBranch`, `RemoveBranch`, `InsertBranch` | called by every pass that changes the control flow or the layout: branch folding, critical edge splitting | a block goes on to the same blocks under the same conditions; the edges of the control flow graph cover them; folding ends |
| Guc backend: branch selector, `GucBranchSelector.cpp` | block sizes | one pass | after all others | its rewriting is compiled out |
| Guc backend: frames and calls, `GucRegisterInfo.cpp`, `GucISelLowering.cpp`, LLVM's `PrologEpilogInserter.cpp` | a frame's layout; stack pointer, saved registers, stack memory | layout, prologue, epilogue, call frames, frame indices | callers, callees, the interrupt stub of `boot.S` on the same stack | the parts of a frame are apart; the stack pointer and saved registers are the caller's again on return; objects and arguments stay; an interrupt is not noticed |
| Guc backend: selection and printing | none | patterns, text | | the text means what the node means |
| Data layout, `script/llvm2envyas`, `script/hex2bin` | `$pos`, the table `data_info` | `datagen()`, `codegen()`, `get_address()` | reads the compiler's assembly, feeds envyas and the loader | a symbol resolves to the byte where its object begins |
| Other scripts | none | conversions line by line | | |
| Host driver, `loader_firmware/fucload.c` | the firmware's return register | commands 0x21, 0x10, 0x16, 0x25, context load and store, waits with a retry limit | the firmware through registers | an answer is taken for the command it answers; every wait ends |
| Monitors, `libio`, `libpg` | a mapping | read and write registers | | |
| Timer firmware, `test/test_timer` | two counters, registers 0x800 to 0x814, interrupt lines | handlers of two vectors, `main()` | the timer, the host's FIFO; both handlers acknowledge the timer's line | no tick is lost or counted twice; the counters reach the host |
| Other firmware in `test/` | | compiler tests | | |
| LLVM itself | | vendored | the combiner's `SimplifySetCC` decides what the lowering sees | |

Hard to test here: interrupts between any two accesses of `work()` to the ring, a host that
pushes while the handler is between reading and acknowledging INTR, the ring at its limit
(`qget` is 16 for one instruction), files larger than a section or buffer, constants at the
ends of their range in two rewriting stages, branches that are deleted because of a layout
which later changes, alignments and sizes that are no whole words, an interrupt in the middle of
a prologue or between a comparison and its branch, answers that come before, at and after the
last read of a wait, and two handlers that share one status register.

## 2. Modules

| Module | Models | Uses |
|---|---|---|
| `CommandFifo` | what the command queue promises: an abstract specification without ring, registers or interrupts | |
| `XferFirmware` | `test/test_xfers/main.c`, `boot.S` | |
| `XferRefinement` | the mapping of `XferFirmware` to `CommandFifo` | instantiates `CommandFifo` |
| `MCXfer` | constants for TLC | `XferRefinement` |
| `XferFirmware_proofs` | theorems | `XferRefinement` |
| `Loader`, `MCLoader` | `loader/fucload.c` | |
| `Loader_proofs` | theorems | `Loader` |
| `HostDriver`, `MCHostDriver` | `loader_firmware/fucload.c` after the upload | |
| `HostDriver_proofs` | theorems | `HostDriver` |
| `TimerFirmware` | `test/test_timer` | |
| `TimerFirmware_proofs` | theorems | `TimerFirmware` |
| `CondCodes` | the condition codes, their opposites, when they hold | |
| `CondLowering` | `EmitCMP` and its users, part of `SimplifySetCC` | `CondCodes` |
| `CondLowering_proofs` | theorems | `CondLowering` |
| `Terminators` | `AnalyzeBranch`, `RemoveBranch`, `InsertBranch`, and what branch folding and edge splitting do with them | `CondCodes` |
| `Terminators_proofs` | theorems | `Terminators` |
| `FrameOps` | the numbers of a frame: rounding, placing, frame index addresses, what a sound layout is | |
| `FrameLayout`, `MCFrameLayout` | `calculateCallsInformation`, `calculateFrameObjectOffsets` | `FrameOps` |
| `CallStack`, `MCCallStack` | compiled functions and the stub of `test_xfers/boot.S` at run time | `FrameOps` |
| `Frame_proofs` | theorems about both | `FrameLayout`, `CallStack` |
| `DataLayout` | `script/llvm2envyas`, `script/hex2bin` | |
| `DataLayout_proofs` | theorems | `DataLayout` |

`FrameLayout` and `CallStack` are joined by `SoundLayout`: the one shows that every layout the
compiler makes is sound (its property `LayoutSound`, proved), the other assumes exactly that of
the layouts its functions run with (`LayoutAssumption`). `CallStack` and the firmware modules
meet in the interrupt: `XferFirmware` and `TimerFirmware` treat taking an interrupt and returning
from it as one step each, which is right because of `InterruptTransparent`.

Definitions whose comment begins "Fault variant of" are not part of a model: each is the named
definition with a plausible bug in it, kept to confirm that a property notices that bug.

### XferFirmware

`main()` runs with interrupts on. Each of its accesses to the ring is an action: `TestEmpty`,
`ReadCmd`, `ReadData`, `Advance` (`++qget`), `WrapGet` (the wrap at 16). `TakeInterrupt` may
fall between any two of them. The handler runs with interrupts off; its actions are separated
at the accesses to the interrupt and FIFO registers: `ReadIntr`, `TakeFifo`, `PopFifo`,
`ServeLine` for each event line, `Acknowledge`, `ReturnFromInterrupt`. `HostPush` and
`RaiseLine`, the environment, may act at any time. `QSize` is a parameter (8 in the source);
indices count modulo `2 * QSize`, slot and lap being the two halves of an index.

A sleeping `main()` continues after the next interrupt. A command pushed before register 0x00c
is set (line 239) arrives as an edge, later ones as a level: this follows from how the firmware
programs the controller and is the one assumption about the hardware that matters here.

`q2` is left out because nothing adds to it. The flag `$p2`, tested by `sleep`, is left out
because it is set before the first sleep and by every `iret`, and never cleared. The transfer
itself (`set4160()` to `clear4160()`) is the single action `Transfer`.

### Loader

One action per step of `main()`; the unit is the word that `upload_code()` and `upload_data()`
write. What a file contains is abstracted to which file a word came from, which is what tells a
fresh word from a stale one: the buffers are not cleared between the hub's files and the GPC's.
`StartedMeansLoaded` says exactly what a started engine finds at each place: its own file, then
whatever the hub's longer file left in the buffer, then zeros. A file that does not open has
size 0, as in `read_binfile()`, and its section is uploaded all the same.

### CondLowering

A comparison node is rewritten (`Combine`), folded (`Fold`) or lowered (`Lower`). A branch begins
as a `BRCOND` on a comparison, which may be rewritten or folded like any other until
`visitBRCOND` makes the two one `BR_CC` (`MakeBranch`). That is rewritten but never folded
(`visitBR_CC`), so that it comes to `EmitCMP` also when it is always or never taken. A branch may
be reversed any number of times (`ReverseBranch`), and the code then runs (`RunBranch`,
`RunBit`) with arbitrary register values. Words have `2 * Half` values, `Half` being 2^31 in
the source. The flags are the processor's: carry is the unsigned borrow, `l` the signed "less",
as the condition codes' use in `EmitCMP` and their names in `printCCOperand` require.

### Terminators

The state is what one block, `Self`, ends in (`term`), the block laid out behind it (`next`), its
successors in the control flow graph (`succ`), and where the program says it goes (`source`).
`Emitted` is what instruction selection makes of a branch. Before branch folding, critical edges
are split (`SplitCriticalEdge`, with `UpdateTerminator`). Branch folding starts with an analysis
of every block (`BeginFolding`); then its rewritings come in any order: `OptimizeNext` (the
block behind rewrites Self's branches), `OptimizeSelf`, `MoveNextToEnd`, `Move` (Self is put
elsewhere, with a jump if it fell through), `Displace` (another block is put behind it),
`ForwardEmpty` and `ForwardJump` (a target that is empty or only a jump is skipped),
`CompareTails` (tail merging that takes a branch away and puts it back).

What the conditions of `OptimizeBlock` say of other blocks (that one is empty, returns, or has a
better place) is left open: an action may happen whenever Self allows it, so that the order of
passes and of blocks does not matter. Left out are blocks that end in a call that does not
return, jump tables, exception edges, tails that are merged or duplicated, and a conditional
branch whose two targets are one from the start. Loop alignment and `CodePlacementOpt` do not
run for Guc (`benefitFromCodePlacementOpt` is false).

### DataLayout

The script's scan of the assembly: one action per kind of object (`ReadStatic`, `BeginGlobal`,
`ReadComm`) and per data directive. `out` holds the words of the data file and what each belongs
to, so that a saved address can be compared with the place where the object's words really are.

### FrameLayout

One function per behaviour. The actions are the rounds of the loops over call frames
(`ScanCall`), slots of saved registers (`PlaceSlot`) and other objects (`PlaceObject`), and the
final rounding (`Finish`). An object of variable size is an object of size 0, as in
`CreateVariableSizedObject`. Paths that Guc never takes are left out: fixed spill slots, register
scavenging, stack protectors, local blocks, realignment. The specification is `LayoutSpec` and its
type invariant `LayoutTyped`, so that `Frame_proofs` can extend this module and `CallStack`.

### CallStack

The state is the stack pointer, the registers and flags, the bytes of the stack, and the
activations. Each activation has ghosts: its entry address, the registers it found, the last value
it wrote to each object, its arguments. The code the compiler emits is one action per
instruction: `PushRegister`, `EmitPrologue`, `BeginCall`, `StoreArgument`, `Call`, `EndCall`,
`EmitEpilogue`, `PopRegister`, `Return`; the stub of `boot.S` likewise. A function's body may
write any register its prologue has saved or need not save, any of its objects, and call, in any
order. It may also write `$r0`: the compiler reserves that register, counts it among those that
a function must restore and saves it nowhere, and `llvm2envyas` then uses it for the address of
each access to a global object. Values are marks that tell who wrote a word: the depth of the writer, and whether it is
data, an argument, or a return address.

`Offset` and `StackSize` come from outside, as sound layouts. Values passed in registers and
results are left out. The stub sets `$p2` just before `iret`; compiled code never tests it
except in `sleep`, so it is not part of `Flags` here.

### HostDriver

One action per register access of the host. The host's list of commands is data (`Script`: what
is cleared, the command, the wait), as it is the same sequence of calls each time. `Poll` is one
round of `NV_WAIT` or `NV_WAIT_NEQ`, `Timeout` the number that counts down. The firmware that
answers is not in the repository. It is modelled as the driver treats it: it takes commands in
order and sets bits of RETURN when it is done, at any time or never.

### TimerFirmware

Each access of a handler to INTR and to the acknowledge registers is an action, so edges may come
in between, as are the two reports of `main()` and its sleep. `ihbody()` is the handler of vector 0
and `ihbody1()` of vector 1; both acknowledge line 0. Line 0, the timer, goes to vector 1; all
other lines that are enabled (0x8705) go to vector 0: line 2, the FIFO's, lines 8 and 9
(`EdgeLine` stands for either) and lines 10 and 15 (`LevelLine`), which 0x00c puts in level mode
like line 2. What raises these lines is not in the source: `RaiseEdge`, `RaiseLevel` and
`LowerLevel` come at any time. `others` counts the interrupts that they cause: each edge, and each
entry of the handler while the level line alone is up. Line 3, which `ihbody()` tests, is not
enabled, and is only seen when another line interrupts (`RaiseOther`).

## 3. Runs

| Run | Instance | Shows |
|---|---|---|
| `xfer` | ring of 2, FIFO of 2, one event line, two host commands | types; `RingBounded`; `JobIsOneCommand`; `FifoReadHasData`; the ring implements `CommandFifo`; `FifoServed`, `LineServed`, `WorkUnderTraffic` |
| `loader` | buffer of 5 words, pages of 2, sections of 0 to 2 pages, files of 0, 1, 2, 3 and 6 words | `StartedMeansLoaded`, `WrittenOnce`, `EndsLoadedOrNot` |
| `host_driver` | waits of 3 reads, terminals with no, one or two typed commands, answers of any bits | `AnswerIsOwn`, `GivesUpUnanswered`, `DriverEnds` |
| `cond` | words of three bits | `CombineKeepsMeaning`, `ConditionKept`, `CombinerStops` |
| `branches` | four blocks, one of them Self, every condition code | `TargetsKept`, `EdgesCoverTargets`, `StaysAnalyzable`, `FoldingRests` |
| `frame_layout` | up to two saved registers, two objects of sizes 0, 1, 4, 6 and alignments 1, 4, 8, two calls with 0, 4 or 8 bytes | `LayoutSound`, `SlotsAreThePushes`, `OffsetsAligned` |
| `call_stack` | four functions and the stub, five activations, 96 bytes of stack | `CalleeSavedRestored`, `InterruptTransparent`, `ObjectsKept`, `ArgumentsArrive` |
| `timer` | two ticks, one FIFO entry, two interrupts of other lines | types, with a cause for each count of `ihbody()`; `NoTickTwice`, `TickNoticed`, `CountsReported` |
| `data` | three objects, two data lines each, alignments 2, 4, 16, sizes 4, 6, 12 | `ReferenceReachesObject` |
| `cond_and`, `cond_extreme` | the instance of `cond` | violated: `AndCarryIsNotZero`, `ExtremeBranchKept` |
| `data_zero` | the instance of `data` | violated: `LocationAfterZero` |

Bounds. A ring of two entries is the smallest with distinct slots, laps and both wraps (indices
0 to 3, and 4 for an instant); the interesting cases, full, empty, wrapping and overflowing
under interrupts, all occur, and the safety properties are proved for every size. Two host
commands that differ in both halves are enough to show a torn, duplicated or swapped pair. The
loader's file sizes end inside a page, at its end, in the next page, behind the section and
behind the buffer. Words of three bits have all the ends that the rewriting rules test, none of
which coincide (with two bits some do). A block has two targets
and a next block, and a fourth one to split an edge with or to forward to; the properties are
proved for every set of blocks. Three objects are one before, one in the middle and
one after. Frames are laid out one object after another, so two of each kind show every
neighbourhood, and the properties are proved for any number. The call stack has the longest
chain there is, `main()`, a function with saved registers, objects and an argument, a leaf with an
argument, the stub, `ihbody()`: five activations (`MaxDepth`), which fit in 96 bytes
(`StackTop`), so that no chain is cut short. Of the registers it has two that functions save, and
`$r0`, which bodies write without saving it, as they do `$r12` to `$r15`. One `VIEW` ignores bytes below the stack pointer, which every function
writes before it reads them. The driver's waits differ in nothing but their number of reads
(`Timeout`), of which the first, one in the middle and the last are enough; `MaxSent` bounds the
commands typed. `MaxTicks`, `MaxPushes` and `MaxOthers` allow two interrupts of either vector
with a tick or an edge between any two accesses, and every line of vector 0 to be up alone or with
others; the safety properties are proved without bounds.

`CHECK_DEADLOCK FALSE` is set where the program ends or a bound is reached: the loader and the
driver exit, a comparison's code has run, a frame is laid out, the host of `TimerFirmware` has no
more ticks or entries, and in `CallStack` a handler at the bound of activations cannot call. The firmware never stops, and is checked for deadlock.

Fairness. The processor executes the next instruction of whatever runs and takes a pending
enabled interrupt, which is weak fairness of `Main`, of `Handler` and of `TakeInterrupt`. The
host and the event lines owe nothing. Weak fairness of `Main` means that the event lines do not
keep the processor in the handler for ever. The loader is a sequential program (weak fairness of
`Next`); of the compiler only the combiner and the lowering are fair, nobody must reverse a
branch or run the code. In `HostDriver` only the host is fair; the firmware may never answer. In
`TimerFirmware` the processor is fair as above (`Main`, `Handler`, `Interrupt`), and the timer that
`main()` has started ticks on (`Tick`), up to the bound; `CountsReported` asks for a report only
if a tick is still to come. That `MaxOthers` is a bound means that lines 10 and 15 are not up for
ever, which would keep the processor in `ihbody()`.

### What disagrees with the source's own comments

* `cond_and`: `LowerSETCC` takes the value of `(a & b) != 0` from the carry, with the comment
  that the AND sets it to `~Z` and that no CMP is generated. `EmitCMP` always generates one, and
  a comparison with 0 never sets the carry: the value is 0 also when `a & b` is not.
* `cond_extreme`: `EmitCMP` makes `x > C` and `x <= C` comparisons with `C + 1`. For the highest C
  that wraps, and the condition is reversed. `visitBR_CC` leaves such branches to it: it does not
  replace a condition by a constant, because, its comment says, earlier passes should have.
* `data_zero`: `.zero n` prints `n` words and advances the position by `n` bytes, so that all
  objects behind it have wrong addresses.

These are also modelled as the code does them, but have no run of their own:

* `llvm2envyas:55`: the name of an initialised static object, which has no `.globl`, gets the
  location of the next object, and that object's own name is never entered (`ReadStatic`). Static
  objects are outside `ReferenceReachesObject`.
* `getCalleeSavedRegs` lists `FP`, which is `$r0`, but a function does not return it as it was:
  `llvm2envyas` (lines 176 to 198) overwrites it after prologue and epilogue were chosen.
  `CalleeSavedRestored` is about the other registers. Compiled code keeps nothing in `$r0`, and
  the stub of `boot.S` saves it, so that `InterruptTransparent` is about it too.
* `emitEpilogue` (`GucRegisterInfo.cpp:296`) takes the stack pointer from `$r0` in a function with
  an object of variable size, and no prologue sets `$r0` (`hasFP` is 0 and `FP` is reserved), only
  `llvm2envyas` does, to addresses of data. With a returning function in `Dynamic`,
  `CalleeSavedRestored` is false. The run has such an object only in `main()`, which does not
  return. `eliminateFrameIndex` likewise addresses objects from the stack pointer, which such an
  object has moved, so `main()` has no other object there.
* A leaf's frame is rounded to its objects' alignment only (`PrologEpilogInserter.cpp:657`), so
  that with six bytes of objects an interrupt enters `ihbody()` with a stack pointer that is no
  multiple of 4, the alignment Guc asks for. `OffsetsAligned` is about functions that call.
* `dev_start_microcode()` prints that commands 0x21 and 0x3 have ended without waiting for them. The
  last wait, for the store, compares RETURN with 1; an answer to the load that comes after the
  store's clear leaves another bit set, and a store that was done is reported as failed.
  `GivesUpUnanswered` names this case and does not speak of it, nor of the first wait (line 303),
  which compares in the same way but comes before any command. `AnswerIsOwn` likewise assumes that
  0x21 is not answered with a bit of RETURN (section 4).
* `boot` of `test_timer` loads 0x1000 into `$r3` and moves `$r0` to `$sp`.

## 4. Proofs

`XferFirmware_proofs` proves `Spec => []TypeOK`, `[]RingBounded`, `[]JobIsOneCommand` and
`[]FifoReadHasData` for every `QSize >= 1`, FIFO depth, number of lines and set of host words.
`RingBounded` alone is not inductive. The invariant is `TypeOK /\ SetupInv /\ FifoInv /\
RingBounded /\ JobIsOneCommand`. `SetupInv` says which registers are set at which place of
`main()`, and that no handler runs before interrupts are enabled; `FifoInv` that a latched edge of
the FIFO's line still has its command, unless the running handler has just removed it, and that
the handler is at `PopFifo` only if the status it read shows the FIFO's line. Lemmas about `Slot`,
`Lap` and `Wrap` do the modular arithmetic once; there is one step per action.

`CondLowering_proofs` proves `Spec => []TypeOK`, `[]CombineKeepsMeaning` and `[]ConditionKept`
for every word size `2 * Half` with `Half >= 2`. The inductive invariant is `TypeOK /\
CombineKeepsMeaning /\ CodeTests /\ ConditionKept`. `CodeTests` says, for all register values,
what the chosen code tests: in "branch" that its condition holds for the operands exactly when the
source comparison is true (or false, when reversed), in "bit" that the flag bit says so; but for a
branch on the highest constant, of which it says nothing, and `ConditionKept` neither
(`ExtremeBranch`). Values and selects on it are folded, and are covered. Lemmas cover one rewriting
rule or one case of `EmitCMP` each.

`Terminators_proofs` proves `Spec => []TypeOK`, `[]TargetsKept`, `[]EdgesCoverTargets`,
`[]StaysAnalyzable` and `[]FoldingRests` for every set of blocks, from `BlocksAssumption` (Self is a block, `NoBlock`
and `Exit` are not). A property of the flags says nothing about which branches a block has, so the
invariant says what they look like: a return, or `Form(x, y, c)`, one of no branch, a jump, a
conditional branch, or both. For these forms lemmas say what `AnalyzeBranch` answers with and
without leave to modify, what `RemoveBranch`, `InsertBranch` and a replaced target give, and where
they lead. `IInv` is `Typed /\ EdgesExact /\ Leading`: the edges are exactly the program's
targets, and the form leads to them with the present next block. `EdgesExact` is needed because
`canFallThrough`, and with it every move, goes by the edges. Each action has a lemma of its own.
For `FoldingRests` the proof shows more than the property asks: one round through
`ReoptimizeBlock` brings any form to rest (`AtRest`: no branch to the next block, no two branches to
one target, no loop to turn round), and a form at rest is not changed by another.

`XferFirmware_proofs` also proves `Spec => ImplementsCommandFifo`: the firmware, with its ring,
registers and interrupts, implements the abstract queue, for every ring size, FIFO depth, number
of lines and set of commands. The mapping reads the queue's contents from the ring, from `qget`
and `qput` as laps and slots; the proof shows that `Advance` removes the first element of that
sequence, `Enqueue` appends one, and all other actions leave it as it is, from the invariant
above.

`Loader_proofs` proves `Spec => []TypeOK`, `[]StartedMeansLoaded` and `[]WrittenOnce` for files,
sections, buffers and pages of any size. The invariant adds four parts to `TypeOK` (which relates
the gate to the upload that runs): `Place`, what holds at each place of `main()`; `BufferInv`,
which file each word of a buffer is of; `UploadInv`, how far the running upload has come; and
`MemoryInv`, what the memories hold of the uploads that are over and of those to come.

`Frame_proofs` proves of `FrameLayout` that `LayoutSpec => []LayoutTyped`, `[]SlotsAreThePushes`,
`[]LayoutSound` and `[]OffsetsAligned` for every function, however many objects and calls it has.
The invariant (`Progress`) says of the objects placed so far that each lies below all before it and
above the present offset, and of the calls scanned so far that none is larger than `maxCall`.

Of `CallStack` it proves `Spec => []TypeOK`, `[]CalleeSavedRestored`, `[]InterruptTransparent`,
`[]ObjectsKept` and `[]ArgumentsArrive` for all functions, with any calls, objects, saved registers
and arguments, and for every size of the stack and depth of calls, recursion included. Each of the
four properties looks at one activation at one moment, such as its return; what makes it true
is spread over all activations below it on the stack. The invariant `StackInv` says of each of
them, at any place in its prologue, body, call or epilogue, that it is `Sound`: where the stack
pointer is relative to its entry (`Shape`); what the memory holds for it, that is its return
address, the registers and flags it has saved, its objects, its arguments and those it has stored
for a call (`Contents`); and which registers are those of its caller (`Clean`). `Nested` says that
the activations lie one right below the other. A step of the innermost activation writes memory
only below what the others use, so that the lemmas `ContentsKept` and `Continued` carry the whole
stack over each step, and an action has to account for the innermost activation only. A return
hands the registers back to the activation below, which is where `CalleeSaved` without `FP`,
and the stub's full save, are needed. The layouts are sound by assumption (`LayoutAssumption`), which the
first part proves of the layouts that the compiler makes. The theorems assume `DynamicStays`: a
function with an object of variable size does not return and has no other objects and no stack
arguments. Without that they are false, as section 3 says of `emitEpilogue` and
`eliminateFrameIndex`; the run's functions satisfy it.

`HostDriver_proofs` proves `Spec => []TypeOK`, `[]AnswerIsOwn` and `GivesUpUnanswered` for every
`Timeout`, every set of lines typed and every set of answers. `AnswerIsOwn` needs to know where the
command that is waited for is: last in the queue behind commands that are not awaited, in the
firmware's hands, or done with nothing behind it (`OwnInv`). It is proved from `SilentUnawaited`: the
firmware answers 0x21 with no bit, and the load, whose end nobody awaits either, not with the ready
bit. This is what the driver relies on and cannot check; with another firmware an answer to 0x21
ends the wait for 0x10. `GivesUpUnanswered` is proved from `AwaitedAnswered`, the firmware answers an
awaited command with some bit, and `TypedApart`, a line typed is not counted as the driver's own
command. Its invariant says that a command that has not been written is unknown to the firmware,
and that an answer to the awaited one is still in RETURN. The run's constants satisfy all three.

`TimerFirmware_proofs` proves `Spec => []TypeOK` and `[]NoTickTwice` for any number of ticks, FIFO
entries and interrupts of other lines. `NoTickTwice` is not inductive: that `ihbody1()` finds an
edge to take needs `EdgePending`, that nobody acknowledges it in between needs `InterruptsOff`.
That `j` is at most the entries and other interrupts there were needs `CountedCauses`: while the
handler runs, its cause is either still pending and will be taken by the acknowledgement (`Taken`),
or was counted when the handler was entered. An acknowledgement that removed nothing of what
it was entered for would break it.

`DataLayout_proofs` proves `Spec => []TypeOK` and `[]ReferenceReachesObject` for files of any
number of objects and data lines and for all alignments and sizes. The property compares a symbol
that `codegen()` has replaced with the words in the data file. The invariant connects them in three
steps: `Position` says that `$pos`, with the `$size` of the object under way, counts the bytes
written as long as no `.zero` is read; `Beginnings` that the address of every entry, unless a
`.zero` of an earlier object is in the file, is that of its object's first word, or of the next
word to come while the object is still without one; `Covered` that every word that is not padding
is of an object with an entry. `TypeOK` orders objects and names, so that `get_address()` finds the
only entry of a name, and `Entries` keeps a name that is saved in that order. What is false for
files with a `.zero` or a static object (section 3) the property excludes, and so does the theorem.

Only model-checked: the liveness properties and `CombinerStops`, which need fairness.

## 5. Not modelled

* The monitors, `libio` and `libpg`: single register accesses without state of their own.
* The other scripts: stateless, one line at a time.
* Instruction selection and printing: patterns and text. Shifts, multiplications and addresses are
  lowered by tables or to single nodes.
* The branch selector: its rewriting is under `#if 0`.
* The firmware of `test_br`, `test_func`, `test_sp` and `test_intr`: straight-line compiler tests.
* The transfer sequence of `work()` in `test_xfers`: it polls registers of the GPU whose behaviour
  is not in the source, and touches nothing of the queue.
* LLVM itself, vendored in `compiler/llvm`, which is more than 99 percent of the repository's
  lines. Of it, only what decides about Guc's own code is modelled: parts of the combiner, of
  branch folding and of the frame layout. The rest is independent of Guc, and the share of all
  lines covered here is small for that reason.
