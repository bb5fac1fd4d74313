# A verification of the RSP simulator

This directory holds TLA+ specifications of the Reality Signal Processor (RSP)
simulator in `src/`, the TLC configurations that check them on small instances,
and proofs, checked by TLAPS, of what matters most for every value of their
constants.

## 1. The system

The simulator is one C library, called by an emulator of the console around it.
Everything happens in the emulator's thread: it calls `CycleRSP` once per clock
and, between two calls, the functions of `Interface.c` on behalf of the host CPU
and of other devices. So there is no data race, but there are several *actors*:
the program on the RSP, the host CPU, and anything else that uses the SP
registers. Their accesses interleave at the grain of one call. Inside one call
the order of the pipeline stages matters just as much.

| component | source | state | operations |
|---|---|---|---|
| scalar pipeline | `Pipeline.c`, `IFStage.c`, `RDStage.c`, `DFStage.c`, `WBStage.c` | latches IF/RD, RD/EX, EX/DF, DF/WB | `CycleRSP`, `RSPInitPipeline` |
| execution stage | `EXStage.c` | register file | one handler per opcode |
| loads, stores, moves | `Memory.c`, `EXStage.c` | DMEM (bytes), vector registers, pending access | one function per access |
| vector unit | `CP2.c` | 32 registers of 8 slices, accumulator, flags VCO, VCC, VCE, divide unit | `RSPCycleCP2`, one function per opcode, CFC2, CTC2 |
| reciprocal table | `ReciprocalROM.c` | none | lookup |
| system control coprocessor | `CP0.c` | the SP registers | `MFC0`, `MTC0` |
| SP interface | `Interface.c` | status, semaphore, PC, interrupt line | `SPRegRead`, `SPRegWrite`, `SPRegWrite2`, host accesses to DMEM and IMEM |
| DMA engine | `Interface.c` | address registers, DMEM and IMEM, RDRAM | `HandleDMARead`, `HandleDMAWrite` |
| decoder | `Decoder.c`, `Opcodes.h` | none (tables) | `RSPDecodeInstruction` |
| construction | `CPU.c` | all | `CreateRSP`, `InitRSP`, `DestroyRSP`, dump |
| emulator, RDP registers, test program | external or thin wrappers | | |

### How they interact

`CycleRSP` runs the stages in *reverse* order (WB, DF, EX, vector unit, RD, IF),
each reading what its predecessor left in the last cycle. EX calls a function
pointer chosen by the opcode; a load or store leaves a function and an address in
EX/DF, which DF calls in the next cycle. BREAK and MTC0 change SP registers from
EX; MTC0 and MFC0 call the very functions the host calls. A write of a length
register makes a whole DMA before it returns. A write of the PC register by the
host (`SPRegWrite2`) rewrites the pipeline under a program that may be in the
middle of anything.

### What is hard, and what makes each part correct

* **The pipeline** must not be seen. Results in flight are forwarded by patching
  the register file, register 0 is written for real and zeroed before each use,
  a stall throws a decoded word away and decodes it again, a branch takes effect
  through a pc that has run ahead, a halt freezes everything where it is. It is
  correct if a program computes what sequential execution with one delay slot
  computes, wherever the host halts, resumes and redirects it.
* **Stalls** must not repeat for ever, nor last longer than a load explains.
* **Halting**: a host that finds the RSP halted, or BROKE set, reads DMEM. All
  stores must be there.
* **The semaphore and the DMA registers** are shared: three register writes make
  a transfer, and another user's write between them sends it elsewhere. It is
  correct if transfers are atomic under the semaphore, also when the program that
  holds it is replaced.
* **DMA geometry**: length and count minus one, rounding, clipping, skip on one
  side or the other, wrap. It is correct if blocks arrive whole and in order and
  single rows respect the end of DMEM.
* **Loads and stores**: byte order within slices, elements, alignment and wrap
  are coded separately in each load and each store. They are correct if those
  that belong together fit together.
* **Scalar arithmetic**: two kinds of immediates, signed and unsigned
  comparisons, shift amounts. It is correct if the instruction sequences
  compilers use come out right.
* **The vector unit** works on numbers of two slices by instructions that hand
  each other carries, flags and partial products: VADDC with VADD, VSUBC with a
  comparison and VMRG, VCH with VCL, four multiplies in a row, the three
  instructions of the divide unit. Each piece saturates, rounds or wraps in its
  own way. It is correct if the sequences compute what one operation on the wide
  number would, also with other instructions between.
* **The decoder** is a set of tables; two entries exchanged go unnoticed until a
  program uses them.
* **IMEM** may be written while it is executed, by the host or by a DMA of the
  program itself. Words already fetched are not fetched again: a program that is
  replaced goes on for at most two instructions.

`PROJECT.json` lists all hazards with their lines.

## 2. Modules

| module | what it is |
|---|---|
| `SPRegisters` | status flags and commands, semaphore, PC register; pure operators shared by the pipeline and the DMA users |
| `RSPISA` | instruction words, opcode flags, branch conditions and targets |
| `RSPPipeline` | the pipeline and the host: one action for a stalled cycle, one for a fetching one, one per host access |
| `RSPSequential` | abstract: one instruction per step, delay slots, host accesses between instructions |
| `RSPPipelineProperties` | invariants and action properties; the refinement mapping from `RSPPipeline` to `RSPSequential` |
| `RSPPipelineProofs` | theorems: the invariants, then the refinement |
| `SPDMA` | what one DMA moves where; pure operators |
| `SPTransfers` | several users of the DMA registers, semaphore, restarts, host accesses to the memories |
| `AtomicTransfers` | abstract: each transfer is one step |
| `SPTransfersProofs` | theorems |
| `DMAGeometry` | one transfer in and one back, over all addresses and lengths |
| `SPDMAProofs`, `DMAGeometryProofs` | where the words of a transfer go (lemmas shared with `SPTransfersProofs`); theorems |
| `Decoder` | the lookup tables from the fields of a word to its operation |
| `VectorUnit` | registers, accumulator, flags and divide unit; what each vector instruction does to them; pure operators at any slice width |
| `VectorPrograms` | instruction sequences with known results, run on `VectorUnit` |
| `VectorProgramsProofs` | lemmas about the handlers, the divider and the programs; theorems |
| `VectorMemory`, `VectorMemoryProperties` | loads, stores, moves, byte by byte, in short programs |
| `VectorMemoryProofs` | theorems |
| `Binary` | powers of two and `&`, as recursive functions |
| `BinaryProofs` | what these functions are and the laws they obey, by induction; lemmas for both units |
| `ScalarUnit`, `ScalarPrograms` | scalar arithmetic at any width; instruction sequences with known results |
| `ScalarProgramsProofs` | theorems |
| `MC...` | small instances |

An operator called a mutant in its comment is a plausible bug: no specification
uses it. Putting it in the place of the operator it precedes makes the property
listed beside it in `PROJECT.json` fail.

### `RSPPipeline` and the code

Each latch is a variable: `ifrd` is `ifrdLatch` (`firstIW`, `pc`; `fetchedPC` is
the pc with which the word was fetched, from which RD makes `rdex.pc`), `rdex` is
`rdexLatch`, `exdf` and `dfwb` likewise, `cp2` is the decoded vector word
(`cp2.iw`, `cp2.opcode`), `sp` is `cp0.regs` and the interrupt line of the MI.
`at` is a history variable: the address of the instruction in IF/RD and of the
one about to execute, 0 where a stall or a restart left a bubble. Nothing reads it
but the refinement mapping and properties. `stale` is another: the words of IMEM
that were replaced and may still be in a latch, with the number of instructions
within which they would be executed.

The operators are grouped by stage and named after it: `WBRegs` is the register
file after WB, `DFDMem` is DMEM after DF, `EXResult` is what EX leaves, and so on.
`StallCycle` and `FetchCycle` are the two ways through `CycleRSP`, including its
early return when halted. Two facts of the code show in the stall conditions: no
code sets `exdf.opcode`, so the load/store stall never fires; and the load/use
stall is given the source registers of the word that has executed (section 5).
Dual issue is under `#if 0` and left out.

Abstractions: addresses count words, so a misaligned JALR target is not
represented. A fetch outside IMEM, which only JALR can cause, finds any word. An
instruction is a record of decoded fields. DMEM is a set of cells here and bytes
in `VectorMemory`. The pipeline carries one representative of loads and stores
of each kind (LW, SW, LQV, SQV): the others differ only in the function DF calls,
and those are in `VectorMemory`. What arithmetic and vector words compute is a
constant operator (`Alu`, `Vec`), so the proofs hold for any; `ScalarUnit` is the
real one for scalar words. MTC0 and MFC0 reach the status, semaphore and PC
registers here, the DMA registers in `SPTransfers`; those of the RDP are left out.
`Init` is the state after `CreateRSP` with a program and data loaded.

`HostWritesIMem` replaces a word of IMEM between any two cycles. It stands for a
DMA of the program's own as well: only IF reads IMEM, and IF comes after EX in a
cycle, so what an MTC0 in EX copies into IMEM is seen by the same fetches as what
the host writes, word by word, just before that cycle.

A status write that both sets and clears a flag fails an assertion; built with
`NDEBUG` the clear wins, and that is what `StatusWrite` says.

### `SPTransfers` and `SPDMA`

The interface is the repository's; how users go about a transfer is not, and is
the usual protocol: read the semaphore until it was free, write both addresses,
write a length, write zero to the semaphore. Each is one action and one call of
`SPRegRead` or `SPRegWrite`. `Abandon` is a restart of a user at any point: it
forgets what it was doing, and nothing gives back the semaphore. `leaked` is a
history variable that records a restart with the semaphore held. `SPDMA` gives
the memories after a transfer as the copying loop of the code, a recursive function
of the number of words copied so far, so overlapping rows come out as in the code;
and it gives the address registers as the code leaves them.

### `VectorUnit`, `VectorPrograms` and `Decoder`

`VectorUnit` holds `struct RSPCP2` in one record: `regs`, the three parts of the
accumulator, the flags as sets of lanes (`vcolo`, `vcohi`, `vccLe`, `vccGe`,
`vce`), and `divIn`, `divOut`, `doublePrecision`. There is one operator per handler,
or per group of handlers that differ in one place; the code taken is that of the
build with `USE_SSE` and `SSSE3_ONLY`, as the Makefile sets. A slice has
`SliceBits` bits instead of 16, the accumulator three slices. `ReciprocalLUT` is
given by the formula its entries follow, at a width of `TableBits`. (The formula
yields all 1024 entries of the table at the width of the code; that comparison was
made outside TLC, as was one of `Divide` at that width with the C function on
400,000 operands.)

`VectorPrograms` runs sequences of instruction words, each word decoded by
`RSPDecodeInstruction`. `Vect` is one call of `RSPCycleCP2`, `FlagsToScalar` and
`FlagsFromScalar` are CFC2 and CTC2. The registers 1 to 4 start with the lanes of
`start`.

`Decoder` has the tables of `Decoder.c`, as sequences in the order of their
entries. An instruction word is a record with the fields the tables are indexed
by. Scalar, vector and memory programs are written with function and opcode
numbers and reach their handlers through these tables only.

### `VectorMemory`

Memory is DMEM followed by IMEM, as in `struct RSP`; vector registers are bytes in
the order a big-endian reader sees them, which on the host are the swapped bytes of
slices. There is one operator per function of `Memory.c`. An access the code
asserts out has no step. LFV, LHV, SFV, SHV and SRV always fail an assertion and
SWV does nothing. LTV with element 0 indexes one past the slices of its register; by the
layout of the array of registers that is slice 0 of the next, which is what the
model writes.

## 3. What TLC checks

| run | instance | shows |
|---|---|---|
| `pipeline_programs` | all 9^4 programs of adds, loads and stores and all 10^4 of branches and jumps, 3 registers, values of 3 bits; host halts and resumes at any cycle; 516,792 states | `TypeOK`; `RefinesSequential`; `OneBubble` |
| `pipeline_units` | all 11^3 programs of vector, move, vector memory, BREAK and SP register words; host halts, resumes, uses the semaphore, writes DMEM after a BREAK; 116,028 states | `ExclusiveIssue`; `BrokeMeansDone`; `SelfHaltDrains`; `RefinesSequential`; `ProgramAdvances` |
| `pipeline_restart` | all 6^3 programs; host writes the PC register and a word of IMEM at any time; 1,010,492 states | `PCInIMem`; `RefinesSequential` |
| `transfers` | two users, one of which may be restarted, three requests, a host that writes DMEM; 17,352 states | `OneHolder`; `TransfersAreAtomic`; `SemaphoreReturns`; `TypeOK` |
| `dma_geometry` | 68 RSP addresses, 6 RDRAM addresses, rows of up to the whole memory, 1, 2 or 4 of them, skips 0, 4, 8; 41,472 states | `BlockArrives`; `SingleRowStaysInside`; `RoundTrip` |
| `vector_memory` | each access with every element at every address of the first and last line of DMEM; pairs; transpositions; 44,384 states | `AccessStaysInside`; `UnalignedQuad`; `MemoryRestored`; `RegisterCopied`; `MovesMatchMemory`; `TransposesInPlace`; `TypeOK` |
| `scalar_programs` | registers of 4 bits, immediates of 2, all operands; 693,504 states | `WideArithmetic`; `ShiftsAsExpected`; `ImmediatesAgree` |
| `vector_programs` | slices of 4 bits; 25 instruction sequences; all pairs, or all quadruples, of slices over the lanes; 489,344 states | `WideArithmetic`; `WideComparison`; `WideProducts`; `ScaledProducts`; `FractionSums`; `Clips`; `CrimpsFromBelow`; `Distances`; `LogicAgrees`; `ElementsMeet`; `DividerHandsOver`; `Roots`; `TypeOK` |
| `pipeline_load_use`, `pipeline_leftover`, `vector_transpose_elsewhere`, `clamp_low` | a handful of programs each | the findings of section 5 |

**Why the bounds are enough.** The pipeline holds at most four instructions, and
an instruction can depend on one at most two before it (the result in EX/DF and
the one in DF/WB). Programs of four words that wrap around IMEM show every such
window, with a branch in another's delay slot and its target among them; three
words do where only neighbours matter (units, restarts). Three registers are
register 0, the link register and another. Three bits of value make addresses,
signs and link values differ; a wider register makes programs count longer and shows
nothing new. In `pipeline_programs` no JALR target can leave IMEM; that case is
covered by the proof, which makes no such assumption. The transfers of `transfers`
include addresses that need both masks and a row cut at the end of DMEM.
`dma_geometry` has memories of eight words, in which a transfer of four rows can
stay inside, cross into the other memory, and wrap. The registers of
`scalar_programs` are small enough for all operands and wide enough for the
immediates to be narrower and the amounts to be cut. In `vector_programs` each
lane works on operands of its own, so that eight cases run at once, and every pair
or quadruple of four-bit slices occurs in some lane: two slices make a number of
eight bits, the accumulator has twelve, and every carry, saturation and rounding
between the pieces happens. What concerns lanes among one another (elements,
matrices) and the divide unit runs on samples of whole vectors.

One word of IMEM is replaced in `pipeline_restart`, by a jump. Executed one
instruction too late or too early, or kept over a restart, it leads elsewhere.

**Fairness.** `RSPPipeline!FairSpec` asks for weak fairness of `CycleRSP`: the
emulator clocks the RSP for ever. While halted, `CycleRSP` is not enabled and nothing is
asked. In `pipeline_units` the host never writes the PC register; a host that
does so before every third cycle would keep any program from advancing.
`SPTransfers!FairSpec` asks that a user in the middle of a transfer gets to its
next access; nobody has to begin one. It does not ask that a particular user gets the
semaphore: reading it until it is free starves where others are faster, and nothing
in the code prevents that, so `SemaphoreReturns` says no more than that it is
free again and again, up to a restart of its holder.

Deadlock is checked in every run.

## 4. What is proved

All theorems hold for every number of registers, memory size, vocabulary,
program, ALU and host behaviour the named assumptions allow (`SizesAssumption`,
`WordsAssumption`, `AluAssumption`, `HostAssumption`; for the transfers,
`DMASizesAssumption`, `RequestsAssumption`, `HostWritesAssumption`,
`GeometryAssumption`; for loads and stores, `VectorMemoryAssumption` and
`ProgramsAssumption`; for the vector unit, `SliceAssumption`, `TableAssumption` and
the `ProgramsAssumption` of `VectorPrograms`; for the scalar unit, `WidthAssumption`
and `InputsAssumption`). TLC evaluates each of them in the runs. Three say something
about the code:

* `WidthAssumption`: an immediate is half a register, and the width of a register is
  itself a power of two, as 32 is. Without the second, `amount & (Bits - 1)` would
  not be the amount modulo the width.
* `TableAssumption`: `2 * TableBits <= SliceBits + 8`. The entries of the table are
  rounded to a part of a slice that has eight more bits than a slice; an index with
  more bits than that resolves would be less precise than `IsReciprocal` and `IsRoot`
  say. The code has slices of 16 bits and an index of 9, so 18 against 24.
* `TransposedInPlace` is about a DMEM of eight lines or more (`DMemBytes >= 128`): in
  a smaller one the buffer would overlap itself. The code's has 256.

| theorem | says |
|---|---|
| `TypeCorrect` | `Spec => []TypeOK`. The inductive invariant `TypeInv` adds that the opcode in RD/EX, if not INV, is that of its word: without it an MTC0 might name a register that does not exist. |
| `IssueIsExclusive` | `ExclusiveIssue`, from `TypeInv`. |
| `FetchesFromIMem` | `PCInIMem`, if no word is a JALR, the one handler that does not mask its target. |
| `HaltDrains` | `SelfHaltDrains`: BREAK and MTC0 leave no access of their own, and that of the word before is made in the same cycle. |
| `BrokeIsFinal` | `BrokeMeansDone`, if every status write of the host and of the program that clears HALT clears BROKE. |
| `PipelineIsSequential` | `RefinesSequential`, under the two conditions below. |
| `LoadCostsOneCycle` | `OneBubble`. |
| `MutualExclusion` | `OneHolder`, any users, with restarts. |
| `TransferAtomicity` | `TransfersAreAtomic`, any users, requests and memory sizes. |
| `TransfersTyped` | `TypeOK` of the DMA users: through any transfer, memories and registers keep their shape, and no word goes outside a memory. |
| `RowsConfined` | `SingleRowStaysInside`, for memories of any size, any addresses and lengths. |
| `TransfersReturn` | `RoundTrip`, the same. |
| `BlocksArrive` | `BlockArrives`, the same, for any number of rows and any skip. |
| `MemoryTyped` | `TypeOK` of loads and stores: any program, any DMEM. |
| `AccessesConfined` | `AccessStaysInside`: each single access, the same. |
| `LoadStoreRestores` | `MemoryRestored`: all twelve pairs of a load and its store. |
| `StoreLoadCopies` | `RegisterCopied`: all stores of a register and their loads. |
| `MovesAgree` | `MovesMatchMemory`. |
| `QuadsLoaded` | `UnalignedQuad`, also round the end of a DMEM of any size. |
| `TransposedInPlace` | `TransposesInPlace`: any contents, any group, any place of the buffer, any line to begin with. |
| `ScalarAluTyped` | every scalar arithmetic instruction takes registers to a register, at any width. |
| `ScalarPrograms`' `WideArithmeticProved` | `WideArithmetic` for registers of any width that is a power of two, so of 32 bits, and all operands. |
| `ShiftsAsExpectedProved`, `ImmediatesAgreeProved` | `ShiftsAsExpected`, `ImmediatesAgree`, the same. |
| `VectorPrograms`' `WideArithmeticProved` | `WideArithmetic` for slices of any width, so of 16 bits, and any registers. |
| `WideComparisonProved` | `WideComparison`, the same. |
| `WideProductsProved`, `ScaledProductsProved` | `WideProducts`, `ScaledProducts`, the same: no partial sum leaves the accumulator. |
| `FractionSumsProved` | `FractionSums`, the same. |
| `ClipsProved` | `Clips`, the same, with the flags saved and restored in between. |
| `DistancesProved`, `CrimpsFromBelowProved` | `Distances`, `CrimpsFromBelow`, the same. |
| `TypeOKProved` | `TypeOK` of the vector unit: no instruction, whatever its fields, takes a register, the accumulator, a flag or the divider out of its range. |
| `LogicAgreesProved` | `LogicAgrees`, the same. |
| `ElementsMeetProved` | `ElementsMeet`, the same. |
| `DividerHandsOverProved`, `RootsProved` | `DividerHandsOver`, `Roots`: for every operand, and every width of the table that `TableAssumption` allows. |

**The refinement.** The state a program sees is the registers with the two
results in flight already written, memory with the pending access already made,
and, as pc and npc, the addresses of the two oldest words not yet executed. A
cycle that executes a word is a step of `RSPSequential`; one that executes a
bubble changes nothing that is seen. `FlowInv` is the invariant this needs: the
word in IF/RD is one held at `at.rd`, what is in RD/EX or CP2 is one held at
`at.ex`, never in both, and a bubble in RD/EX holds nothing that acts. The words
held at an address are the one IMEM has there and those replaced that `stale` still
has, for the two instructions it takes a word in IF/RD to come to execution, or
the one if there is a bubble ahead of it: `HeldInCycle` follows them through a
cycle, `HeldAcrossWrite` through a write of IMEM. So RSPSequential may say that a
replaced word is executed at most two instructions later, stalls and halts not
counted. A stall
happens only behind a load, which is not a branch, so the pc stays put and the
word that is decoded again is the right one: `StallIsLoad`. One lemma per part of
the state (`RegistersRefine`, `MemoryRefines`, `ControlRefines`) shows that part
of a cycle to be that of a sequential step.

The theorem has two conditions on the host, and both are needed. `NoLeftovers`: the host does
not write the PC register, or programs hold no vector word; otherwise finding 2
applies. And the host writes DMEM not at all, or only after a BREAK with BROKE
cleared together with HALT: a halt the host imposes may leave a store pending
that is made when the RSP resumes, after the host's write.

**The semaphore.** The invariant is that a user past the take has the semaphore
register at 1, no two are there, and what it has written of its request is still in
the address registers.

**Transfers.** A transfer is a loop that copies one word after the other, and later
words may overwrite earlier ones. What a word holds at the end is what the *last*
copy to it brought: `CopiesAreLast`, by taking the least number of copies for
which it would fail.
Everything else is about one word at a time: `WordPlace` says where word w of row r
goes, `RowFits` that the cut at the end of a memory leaves a row inside it, and
`ModDiffers` that fewer consecutive words than a memory has never meet when they
wrap. A block that fits has rows that do not overlap (`BlocksApart`), so all its
words stay and are counted once. The invariant `Inv` of `DMAGeometryProofs` ties
the memories of each phase to the transfers made so far.

**Loads and stores.** A store, or a load, is a copy between a range of memory and a
part of a register; the lemmas say of each function which bytes those are and that
nothing else changes (`StoreChanges`, `LoadChanges`). Two instructions belong
together because the first leaves memory and register *in agreement* about that
part (`Agreed`), and a load of what is there already, or a store of it, changes
nothing (`StoreRestores`, `LoadCopies`). So the invariant is `Inv`: types; what
memories and registers hold before the first instruction; agreement after it; and,
for the moves, the two bytes in memory after the second. Agreement holds for
packed and scalar accesses, too, where the bytes are those of a number
(`BytesOfHalf`, `BytesOfWord`).

**Numbers of two slices.** The invariant `Progress` says that there is a `History`:
the states of the unit and of the scalar registers that hold flags before each
instruction so far, each made of the one before by the instruction between, from
the registers of `start` to the present state. A program that has ended is then a
chain of cycles (`Finished`). That the decoder's tables lead each word to its
handler is part of the proof (`Assembled`, `Cycle`).

What a cycle does is followed lane by lane. The handlers' two saturating steps
are one saturation of the sum with its carry (`SumSaturatedOnce`,
`DifferenceSaturatedOnce`), a sum of two digits is that of the low ones and that of
the high ones with the carry (`WideSumOfSlices`), and numbers are ordered by the
high digit first (`PairsOrder`). The three parts of the accumulator are the digits
of one number, `Total`, and each multiplication adds its product to that number as
long as it is within `Capacity` (`Multiply`, `Accumulated`). `PartialProducts` bounds
every partial sum of a product of two numbers, from either end, and so shows that
none is lost; `Results` says what saturating or cutting the digits makes of the
number. A clip has two halves that meet in the flags: `ClipsPair` says that VCL,
given the flags VCH left, finishes what it began, and `FlagsRestored` that CFC2 and
CTC2 bring these flags back whatever another clip left in them.

**Any instruction.** The inductive invariant `Sound` says more than `TypeOK`: the
program consists of words whose fields name registers and lanes that exist (`Fit`),
and while the divider waits for the low half of an operand, the high half it has
leaves room for it (`SafeUnit`). `CycleTypes` goes through all handlers. Logical operations and elements are followed as the others
are (`CycleLogic`, `CycleElement`), except that a lane may now be changed before
another is read: `MatrixResult` and `LaneSumResult` keep both registers in view.

**Bits.** `Binary` defines 2^n and `&` by recursion on the number of bits. That such
functions exist is itself to be proved, by induction. The library states induction for
an operator, which the provers cannot instantiate; `Induction` states it for a set,
from the well-foundedness of the natural numbers, and `Recursion` puts the function
together from its beginnings, which exist for every length and agree with one another.
From there `PowerIs` and `AndIs` give the recursion equations, `PowerAdd` the law of
powers, and `AndObeys` the laws of a conjunction: no larger than its arguments,
commutative, and how it goes with complements and with both kinds of disjunction;
`AndLawsStep` adds one bit. `AndShifted` says that a mask commutes with a shift, which
is what LUI with ORI rests on.

**Scalar programs.** As for the vector unit there is a history of states (`Progress`),
here short enough to be written out: `RunsR`, `RunsS` and `RunsI` give the registers
after each form of instruction, through the decoder's tables. `Carries` shows that
SLTU finds carry and borrow, `Turned` that two shifts by opposite amounts never
meet in a bit and together lose none, `TwoForms` that a constant made by ORI and
one made by ADDIU agree.

**The divider.** `LeadingPower` finds the power of two below an operand, so the
number of bits that `Divide` counts is the right one (`LeadingBitIs`), and
`IndexBounds` says that the operand lies between the two numbers that belong to the
index and the next. An entry of the table inverts both to within its rounding
(`EntryInverse`; `EntryRoot` for roots, by the least number whose square is large
enough), and the shift at the end loses less than one unit (`QuotientNear`,
`RootQuotientNear`). Products of six factors are out of the solver's reach; the
chain of inequalities is made of single steps that multiply both sides by one number
(`Times`) or take one away (`Cancel`). `HalvesMeet` and the lemmas after it follow
the two halves through the three instructions, and through those in between.

**The transposition.** The invariant `TurnInv` says, of a program that is a
transposition, which lines are stored (`LineStored`) and, of the loads, which
diagonals of the square of slices are turned (`SlicesTurned`). An STV stores a
diagonal as a line; the lines are apart wherever the buffer is (`LinesApart`); the LTV
of element e turns the slices e to the right of the main diagonal, and leaves the others
alone, but for one: with e = 0 it puts the slice of the first register into slice 0 of
the second, and leaves the first as it is (`TurnedSlice`). The first needs no
turning, as it is on the diagonal and the registers are still what they were; the
second is turned by a later LTV. This is why the transposition works in place, and only
there (finding 3).

Model-checked only:

* liveness (`ProgramAdvances`, `SemaphoreReturns`), which TLAPS cannot do with
  ENABLED;
* the four properties of section 5, which are false.

Every invariant and every action property of the runs that pass is a theorem.

## 5. Findings

1. `pipeline_load_use`: `CycleRSP` hands `IsLoadUseStall` the source registers of
   the word that has just executed, the load, instead of those of the word behind
   it. A use of the loaded register through rs is not held back; a word that reads
   rt at all is, whichever register that is, and so is a word that reads rs if the
   base register of the load is its own target or the destination in DF. Values
   are right (`RefinesSequential`), cycle counts are not.
2. `pipeline_leftover`: `RSPInitPipeline` leaves the vector opcode. A vector word
   decoded behind a BREAK runs in the first cycle of the next program.
3. `vector_transpose_elsewhere`: LTV with element 0 writes one slice past its first
   register; a transposition into other registers loses a slice. In place it
   works if that LTV comes first.

4. `clamp_low`: the low half of a product of two-slice numbers that is too large is
   cleared by `RSPClampLowToVal`, where its comment says "clamp to ~0". The high
   half is right, so the result is below the largest number by up to a low half.

Seen and not counted as findings, because nothing in the repository says
otherwise, or not clearly: LLV and LSV add the low bits of an unaligned address
twice; LQV and LRV at odd addresses, where the code warns, are off by a byte; rows of
a DMA after the first cross the end of the memory they started in; BROKE survives a
restart; JALR links to register 31 whatever its rd field says. In the vector
unit: VMULF is one too low for some negative products; VCR keeps a lane whose sign is
that of the bound by a comparison of its own, of which nothing is claimed; the
product of the smallest fraction with itself wraps; VCH, where it finds a lane
below minus a bound whose low half is not zero, leaves a high half that is one
off; `Divide` has an arm for -32768 that an earlier test keeps from being reached.

## 6. What is not modelled, and the plan

Not modelled: registers of the RDP (another component's, reached through
`DPRegRead` and `DPRegWrite`), debug output and the dumps of registers, the test
program, build macros. `DestroyRSP` only frees. The vector instructions VMACQ, VMULQ,
VRNDN, VRNDP and VRSQ do nothing in the code but report themselves
unimplemented. MTC0 and MFC0 with a register number outside the array of SP
registers write and read behind it; the models assume programs do not
(`WordsAssumption`). The paths of `CP2.c` without SSE are other code for the same
handlers and not the ones built.

Every component with a state of its own is modelled, and what TLC checks of it,
liveness apart, is proved. What could come next:

1. one model of the pipeline with the two units in the place of `Alu` and `Vec`:
   `ScalarAluTyped` and `TypeOKProved` are what `AluAssumption` asks of them;
2. the entries of `ReciprocalROM.c` as a constant sequence, compared with the formula
   in a run;
3. the handlers as they are without SSE, as a second implementation of the same
   operators.
