-------------------------------- MODULE SPDMA --------------------------------
(***************************************************************************)
(* The DMA engine of the SP (HandleDMARead, HandleDMAWrite of Interface.c): *)
(* rectangular transfers between RDRAM and the two memories of the RSP,    *)
(* which lie behind one another: DMEM first, then IMEM.  Addresses are     *)
(* byte addresses, memories are functions of word indices.                 *)
(***************************************************************************)
EXTENDS Integers

CONSTANTS
  MemBytes,    \* bytes in DMEM, and in IMEM (0x1000)
  DramBytes    \* bytes of RDRAM a transfer can address (0x800000)

ASSUME DMASizesAssumption ==
  /\ MemBytes \in Nat /\ MemBytes > 0 /\ MemBytes % 8 = 0
  /\ DramBytes \in Nat /\ DramBytes > 0 /\ DramBytes % 8 = 0

MemWord == 0 .. (2 * MemBytes) \div 4 - 1
DramWord == 0 .. DramBytes \div 4 - 1

\* The address registers keep 13 and 24 bits of what is written to them.
MemAddr(data) == data % (2 * MemBytes)
DramAddr(data) == data % (2 * DramBytes)

\* The fields of a length register.
Lengths == [length : 0 .. MemBytes - 1, count : Nat, skip : Nat]

Align(a, n) == a - (a % n)

\* Mutant: no "Check length".
RowUnclipped(memAddr, len) == Align(len.length + 8, 8)

\* The bytes of a row: rounded up to doublewords, and cut off at the end of
\* the memory the transfer starts in.
Row(memAddr, len) ==
  LET bytes == Align(len.length + 8, 8)
      first == Align(memAddr, 4) % MemBytes
  IN IF first + bytes > MemBytes THEN MemBytes - first ELSE bytes

\* Word j of a row that starts at byte a, in either memory.
MemIndex(a, j) == (a \div 4 + j) % ((2 * MemBytes) \div 4)
DramIndex(a, j) == (a \div 4 + j) % (DramBytes \div 4)

\* The copying loop: pass n copies word from[n] of source to word to[n] of dest.
Copies(dest, source, to, from, passes) ==
  LET after[n \in 0 .. passes] ==
        IF n = 0 THEN dest
        ELSE [after[n - 1] EXCEPT ![to[n - 1]] = source[from[n - 1]]]
  IN after[passes]

\* The words of a transfer whose rows start memPitch bytes apart in the memory
\* of the RSP and dramPitch bytes apart in RDRAM, in the order they are copied:
\* word n is word n % words of row n \div words.
Passes(at, len) == (len.count + 1) * (Row(at.mem, len) \div 4)

MemWords(at, len, memPitch) ==
  LET words == Row(at.mem, len) \div 4 IN
  [n \in 0 .. Passes(at, len) - 1 |->
     MemIndex(Align(at.mem, 4) + (n \div words) * memPitch, n % words)]

DramWords(at, len, dramPitch) ==
  LET words == Row(at.mem, len) \div 4 IN
  [n \in 0 .. Passes(at, len) - 1 |->
     DramIndex(Align(at.dram, 8) + (n \div words) * dramPitch, n % words)]

\* Mutant: skip on the RDRAM side.
DMAReadSkipsDram(mem, dram, at, len) ==
  LET row == Row(at.mem, len) IN
  Copies(mem, dram, MemWords(at, len, row), DramWords(at, len, row + len.skip),
         Passes(at, len))

\* HandleDMARead: the rows are contiguous in RDRAM and skip bytes apart in
\* the memory of the RSP.
DMARead(mem, dram, at, len) ==
  LET row == Row(at.mem, len) IN
  Copies(mem, dram, MemWords(at, len, row + len.skip), DramWords(at, len, row),
         Passes(at, len))

\* Mutant: SP_MEM_ADDR_REG does not advance between rows.
DMAWriteSameRow(mem, dram, at, len) ==
  LET row == Row(at.mem, len) IN
  Copies(dram, mem, DramWords(at, len, row + len.skip), MemWords(at, len, 0),
         Passes(at, len))

\* HandleDMAWrite: the other way, and skip bytes apart in RDRAM.
DMAWrite(mem, dram, at, len) ==
  LET row == Row(at.mem, len) IN
  Copies(dram, mem, DramWords(at, len, row + len.skip), MemWords(at, len, row),
         Passes(at, len))

\* The address registers afterwards: past the last row, no longer masked.
AfterRead(at, len) ==
  LET row == Row(at.mem, len) IN
  [mem |-> Align(at.mem, 4) + (len.count + 1) * (row + len.skip),
   dram |-> Align(at.dram, 8) + (len.count + 1) * row]

AfterWrite(at, len) ==
  LET row == Row(at.mem, len) IN
  [mem |-> Align(at.mem, 4) + (len.count + 1) * row,
   dram |-> Align(at.dram, 8) + (len.count + 1) * (row + len.skip)]
=============================================================================
