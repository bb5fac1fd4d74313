------------------------------ MODULE SPRegisters ---------------------------
(***************************************************************************)
(* The SP registers that are more than storage.  The status register: the  *)
(* bits software sees (Definitions.h), and what one write to it does       *)
(* (HandleSPStatusWrite in Interface.c); it is kept as the set of the      *)
(* flags that are up, and a write carries a word of command bits, most of  *)
(* them in a "clear" and a "set" version of a flag.  The semaphore and the *)
(* PC register (SPRegRead, SPRegWrite, SPRegWrite2).                       *)
(* The interrupt line is not a status flag: it belongs to the MI, outside  *)
(* this repository, and is driven through BusRaise/ClearRCPInterrupt.      *)
(***************************************************************************)
EXTENDS Integers

Signals == {"SIG0", "SIG1", "SIG2", "SIG3", "SIG4", "SIG5", "SIG6", "SIG7"}

\* The flags the code changes.  DMA_BUSY, DMA_FULL and IO_FULL are defined
\* in Definitions.h and no code ever raises them.
StatusFlag == {"HALT", "BROKE", "SSTEP", "INTR_BREAK"} \cup Signals

\* The mask of a flag in the status word.
StatusMask == [HALT |-> 1, BROKE |-> 2, SSTEP |-> 32, INTR_BREAK |-> 64,
               SIG0 |-> 128, SIG1 |-> 256, SIG2 |-> 512, SIG3 |-> 1024,
               SIG4 |-> 2048, SIG5 |-> 4096, SIG6 |-> 8192, SIG7 |-> 16384]

\* The position of the command that clears a flag, and of the one that sets
\* it.  BROKE can only be cleared, INTR stands for the MI interrupt line.
ClearBit == [HALT |-> 0, BROKE |-> 2, INTR |-> 3, SSTEP |-> 5,
             INTR_BREAK |-> 7, SIG0 |-> 9, SIG1 |-> 11, SIG2 |-> 13,
             SIG3 |-> 15, SIG4 |-> 17, SIG5 |-> 19, SIG6 |-> 21, SIG7 |-> 23]

SetBit == [HALT |-> 1, INTR |-> 4, SSTEP |-> 6, INTR_BREAK |-> 8,
           SIG0 |-> 10, SIG1 |-> 12, SIG2 |-> 14, SIG3 |-> 16,
           SIG4 |-> 18, SIG5 |-> 20, SIG6 |-> 22, SIG7 |-> 24]

Bit(word, n) == (word \div 2^n) % 2 = 1

Clears(data) == {f \in DOMAIN ClearBit : Bit(data, ClearBit[f])}
Sets(data) == {f \in DOMAIN SetBit : Bit(data, SetBit[f])}

\* Both commands for one flag in one word: the handler asserts that they do
\* not come together; with assertions compiled out the clear wins.
Contradictory(data) == Clears(data) \cap Sets(data) # {}

\* Mutant: the command to clear BROKE is ignored.
StatusWriteKeepsBroke(status, data) ==
  (status \cup (Sets(data) \cap StatusFlag)) \ (Clears(data) \ {"BROKE"})

\* The flags and the interrupt line after a status write.
StatusWrite(status, data) ==
  (status \cup (Sets(data) \cap StatusFlag)) \ Clears(data)

InterruptWrite(raised, data) ==
  "INTR" \notin Clears(data) /\ (raised \/ "INTR" \in Sets(data))

\* The status word a read returns.
Flag(status, f) == IF f \in status THEN StatusMask[f] ELSE 0

StatusWord(status) ==
    Flag(status, "HALT") + Flag(status, "BROKE") + Flag(status, "SSTEP")
  + Flag(status, "INTR_BREAK")
  + Flag(status, "SIG0") + Flag(status, "SIG1") + Flag(status, "SIG2")
  + Flag(status, "SIG3") + Flag(status, "SIG4") + Flag(status, "SIG5")
  + Flag(status, "SIG6") + Flag(status, "SIG7")

(***************************************************************************)
(* The SP registers behind MTC0/MFC0 and behind the host's SPRegRead and   *)
(* SPRegWrite: the status flags, the semaphore, the PC register as last    *)
(* written, and the SP interrupt line of the MI.                           *)
(***************************************************************************)
\* Registers by their place in Registers.md.
SP_STATUS_REG == 4
SP_SEMAPHORE_REG == 7
SP_PC_REG == 16
SPRegister == {SP_STATUS_REG, SP_SEMAPHORE_REG, SP_PC_REG}

SPRegs == [status : SUBSET StatusFlag, sem : {0, 1}, pc : Int, intr : BOOLEAN]

\* Mutant: the semaphore is cleared by any write but zero.
SPRegWriteInverted(sp, reg, data) ==
  IF reg = SP_SEMAPHORE_REG
  THEN [sp EXCEPT !.sem = IF data # 0 THEN 0 ELSE @] ELSE sp

SPRegWrite(sp, reg, data) ==
  CASE reg = SP_STATUS_REG ->
         [sp EXCEPT !.status = StatusWrite(@, data),
                    !.intr = InterruptWrite(@, data)]
    [] reg = SP_SEMAPHORE_REG ->
         [sp EXCEPT !.sem = IF data = 0 THEN 0 ELSE @]
    [] reg = SP_PC_REG -> [sp EXCEPT !.pc = data]

\* Mutant: the semaphore reads as free.
SPRegReadDataFree(sp, reg) == IF reg = SP_STATUS_REG THEN 1 ELSE 0

SPRegReadData(sp, reg) ==
  CASE reg = SP_STATUS_REG -> StatusWord(sp.status)
    [] reg = SP_SEMAPHORE_REG -> sp.sem
    [] reg = SP_PC_REG -> sp.pc

\* Mutants: reading the semaphore does not take it; it counts the reads.
SPRegReadNoTake(sp, reg) == sp
SPRegReadCounts(sp, reg) ==
  IF reg = SP_SEMAPHORE_REG THEN [sp EXCEPT !.sem = @ + 1] ELSE sp

\* Reading the semaphore takes it.
SPRegReadEffect(sp, reg) ==
  IF reg = SP_SEMAPHORE_REG THEN [sp EXCEPT !.sem = 1] ELSE sp

Halted(sp) == "HALT" \in sp.status

\* BREAK: stop, say so, and interrupt the host if it asked to be.
Break(sp) ==
  [sp EXCEPT !.status = @ \cup {"HALT", "BROKE"},
             !.intr = @ \/ "INTR_BREAK" \in sp.status]
=============================================================================
