----------------------------- MODULE SPTransfers -----------------------------
(***************************************************************************)
(* DMA transfers by several users of one SP interface (Interface.c): the   *)
(* host, through SPRegRead and SPRegWrite, and the program on the RSP,     *)
(* through MFC0 and MTC0, which call the same two functions.  A transfer   *)
(* takes three register writes, and the SP semaphore, taken by reading it  *)
(* and released by writing zero, is there to keep the users apart.         *)
(*                                                                         *)
(* The interface is the repository's; how its users go about a transfer is *)
(* not, and is the usual protocol: take the semaphore, write both          *)
(* addresses, write a length, which does the transfer at once, release.    *)
(***************************************************************************)
EXTENDS SPDMA, SPRegisters

CONSTANTS
  Users,       \* those who make transfers
  Requests,    \* the transfers they make
  MayAbandon,  \* the users that may be restarted at any point
  HostWrites   \* <<word index, value>> pairs the host writes to the RSP

ASSUME RequestsAssumption ==
  Requests \subseteq
    [dir : {"read", "write"}, mem : Nat, dram : Nat, len : Lengths]

ASSUME HostWritesAssumption == HostWrites \subseteq MemWord \X Int

VARIABLES
  mem, dram,   \* the memories
  dma,         \* SP_MEM_ADDR_REG and SP_DRAM_ADDR_REG
  sp,          \* the other SP registers
  user,        \* what each user does next, and the transfer it is about
  leaked       \* history: a user was restarted while it held the semaphore

vars == <<mem, dram, dma, sp, user, leaked>>

Init ==
  /\ mem = [a \in MemWord |-> 0]
  /\ dram = [a \in DramWord |-> a + 1]
  /\ dma = [mem |-> 0, dram |-> 0]
  /\ sp = [status |-> {"HALT"}, sem |-> 0, pc |-> 0, intr |-> FALSE]
  /\ user \in [Users -> [next : {"begin"}, goal : Requests]]
  /\ leaked = FALSE

Holds(u) == user[u].next \in {"mem", "dram", "len", "release"}

Begin(u) ==
  /\ user[u].next = "begin"
  /\ \E r \in Requests : user' = [user EXCEPT ![u] = [next |-> "take", goal |-> r]]
  /\ UNCHANGED <<mem, dram, dma, sp, leaked>>

\* SPRegRead of the semaphore: 0 means that this read took it.
TakeSemaphore(u) ==
  /\ user[u].next = "take"
  /\ sp' = SPRegReadEffect(sp, SP_SEMAPHORE_REG)
  /\ IF SPRegReadData(sp, SP_SEMAPHORE_REG) = 0
     THEN user' = [user EXCEPT ![u].next = "mem"]
     ELSE UNCHANGED user
  /\ UNCHANGED <<mem, dram, dma, leaked>>

WriteMemAddr(u) ==
  /\ user[u].next = "mem"
  /\ dma' = [dma EXCEPT !.mem = MemAddr(user[u].goal.mem)]
  /\ user' = [user EXCEPT ![u].next = "dram"]
  /\ UNCHANGED <<mem, dram, sp, leaked>>

WriteDramAddr(u) ==
  /\ user[u].next = "dram"
  /\ dma' = [dma EXCEPT !.dram = DramAddr(user[u].goal.dram)]
  /\ user' = [user EXCEPT ![u].next = "len"]
  /\ UNCHANGED <<mem, dram, sp, leaked>>

\* SP_RD_LEN_REG: from RDRAM to the RSP, before SPRegWrite returns.
WriteRdLen(u) ==
  /\ user[u].next = "len" /\ user[u].goal.dir = "read"
  /\ mem' = DMARead(mem, dram, dma, user[u].goal.len)
  /\ dma' = AfterRead(dma, user[u].goal.len)
  /\ user' = [user EXCEPT ![u].next = "release"]
  /\ UNCHANGED <<dram, sp, leaked>>

\* SP_WR_LEN_REG: from the RSP to RDRAM.
WriteWrLen(u) ==
  /\ user[u].next = "len" /\ user[u].goal.dir = "write"
  /\ dram' = DMAWrite(mem, dram, dma, user[u].goal.len)
  /\ dma' = AfterWrite(dma, user[u].goal.len)
  /\ user' = [user EXCEPT ![u].next = "release"]
  /\ UNCHANGED <<mem, sp, leaked>>

ReleaseSemaphore(u) ==
  /\ user[u].next = "release"
  /\ sp' = SPRegWrite(sp, SP_SEMAPHORE_REG, 0)
  /\ user' = [user EXCEPT ![u].next = "begin"]
  /\ UNCHANGED <<mem, dram, dma, leaked>>

\* A user is restarted (the host sends the RSP elsewhere, SPRegWrite2) and
\* forgets what it was doing.  Nothing gives back the semaphore.
Abandon(u) ==
  /\ u \in MayAbandon
  /\ user' = [user EXCEPT ![u].next = "begin"]
  /\ leaked' = (leaked \/ Holds(u))
  /\ UNCHANGED <<mem, dram, dma, sp>>

\* RSPDMemWriteWord and RSPIMemWriteWord: the host needs no semaphore to
\* reach the memories of the RSP.
HostWritesWord ==
  /\ \E w \in HostWrites : mem' = [mem EXCEPT ![w[1]] = w[2]]
  /\ UNCHANGED <<dram, dma, sp, user, leaked>>

Access(u) ==
  \/ TakeSemaphore(u) \/ WriteMemAddr(u) \/ WriteDramAddr(u)
  \/ WriteRdLen(u) \/ WriteWrLen(u) \/ ReleaseSemaphore(u)

Next == HostWritesWord \/ \E u \in Users : Begin(u) \/ Access(u) \/ Abandon(u)

Spec == Init /\ [][Next]_vars

\* Every user keeps running and, once it has begun a transfer, goes on with
\* it; it need not begin another one.
FairSpec == Spec /\ \A u \in Users : WF_vars(Access(u))

(***************************************************************************)
(* Properties.                                                             *)
(***************************************************************************)
TypeOK ==
  /\ mem \in [MemWord -> Int]
  /\ dram \in [DramWord -> Int]
  /\ dma \in [mem : Nat, dram : Nat]
  /\ sp \in SPRegs
  /\ user \in [Users ->
       [next : {"begin", "take", "mem", "dram", "len", "release"},
        goal : Requests]]
  /\ leaked \in BOOLEAN

\* The semaphore register (SPRegRead, SPRegWrite) gives the DMA registers to
\* one user at a time, even if users are restarted while they hold it.
OneHolder ==
  /\ \A u, v \in Users : Holds(u) /\ Holds(v) => u = v
  /\ \A u \in Users : Holds(u) => sp.sem = 1

\* Every DMA is the transfer its user meant: the three register writes of one
\* user take effect like one step, however those of others fall between them.
Atomic == INSTANCE AtomicTransfers
TransfersAreAtomic == Atomic!Spec

\* Unless a user is restarted while it holds the semaphore, it is given back
\* again and again: no user, and no users waiting on one another, keep it for
\* good, and one that was restarted elsewhere leaves nothing behind.
SemaphoreReturns == []<>(leaked \/ sp.sem = 0)
=============================================================================
