-------------------------- MODULE SPTransfersProofs --------------------------
(***************************************************************************)
(* The SP semaphore keeps the users of the DMA registers apart: for any    *)
(* number of users, any transfers, and restarts at any point.              *)
(***************************************************************************)
EXTENDS SPTransfers, SPDMAProofs, TLAPS

(***************************************************************************)
(* The inductive invariant.  OneHolder alone does not tell what is in the  *)
(* address registers when a length is written: a user that has written an  *)
(* address finds it there, because whoever else could have written it      *)
(* would hold the semaphore too.                                           *)
(***************************************************************************)
UserType ==
  user \in [Users ->
    [next : {"begin", "take", "mem", "dram", "len", "release"},
     goal : Requests]]

RegistersKept ==
  /\ dma = [mem |-> dma.mem, dram |-> dma.dram]
  /\ sp \in SPRegs
  /\ \A u \in Users :
       /\ user[u].next \in {"dram", "len"} =>
            dma.mem = MemAddr(user[u].goal.mem)
       /\ user[u].next = "len" => dma.dram = DramAddr(user[u].goal.dram)

Inv == UserType /\ OneHolder /\ RegistersKept

\* Reading the semaphore takes it, writing zero gives it back, and neither
\* touches another register.
LEMMA SemaphoreAccess ==
  ASSUME NEW s \in SPRegs
  PROVE  /\ SPRegReadData(s, SP_SEMAPHORE_REG) = s.sem
         /\ SPRegReadEffect(s, SP_SEMAPHORE_REG) = [s EXCEPT !.sem = 1]
         /\ SPRegWrite(s, SP_SEMAPHORE_REG, 0) = [s EXCEPT !.sem = 0]
BY DEF SPRegReadData, SPRegReadEffect, SPRegWrite, SP_SEMAPHORE_REG,
       SP_STATUS_REG, SP_PC_REG

\* Nobody has taken the semaphore yet.
LEMMA InitInv == Init => Inv
BY DEF Init, Inv, UserType, OneHolder, RegistersKept, Holds, SPRegs,
       StatusFlag

\* No step of a user brings another one past the take.
LEMMA StepInv == Inv /\ [Next]_vars => Inv'
<1>. SUFFICES ASSUME Inv, [Next]_vars PROVE Inv'
  OBVIOUS
<1>. USE DEF Inv, UserType, OneHolder, RegistersKept, Holds
<1>1. ASSUME NEW u \in Users, Begin(u) PROVE Inv'
  BY <1>1 DEF Begin
<1>2. ASSUME NEW u \in Users, TakeSemaphore(u) PROVE Inv'
  <2>1. sp' = [sp EXCEPT !.sem = 1]
    BY <1>2, SemaphoreAccess DEF TakeSemaphore
  <2>2. sp'.sem = 1 /\ sp' \in SPRegs
    BY <2>1 DEF SPRegs
  <2>3. CASE sp.sem = 0
    <3>1. \A v \in Users : ~Holds(v)
      BY <2>3
    <3>2. user' = [user EXCEPT ![u].next = "mem"]
      BY <1>2, <2>3, SemaphoreAccess DEF TakeSemaphore
    <3>. QED BY <1>2, <2>2, <3>1, <3>2 DEF TakeSemaphore
  <2>4. CASE sp.sem # 0
    <3>1. UNCHANGED user
      BY <1>2, <2>4, SemaphoreAccess DEF TakeSemaphore
    <3>. QED BY <1>2, <2>2, <3>1 DEF TakeSemaphore
  <2>. QED BY <2>3, <2>4
<1>3. ASSUME NEW u \in Users, WriteMemAddr(u) PROVE Inv'
  BY <1>3 DEF WriteMemAddr
<1>4. ASSUME NEW u \in Users, WriteDramAddr(u) PROVE Inv'
  BY <1>4 DEF WriteDramAddr
<1>5. ASSUME NEW u \in Users, WriteRdLen(u) PROVE Inv'
  BY <1>5 DEF WriteRdLen, AfterRead
<1>6. ASSUME NEW u \in Users, WriteWrLen(u) PROVE Inv'
  BY <1>6 DEF WriteWrLen, AfterWrite
<1>7. ASSUME NEW u \in Users, ReleaseSemaphore(u) PROVE Inv'
  <2>1. sp' = [sp EXCEPT !.sem = 0]
    BY <1>7, SemaphoreAccess DEF ReleaseSemaphore
  <2>2. sp' \in SPRegs
    BY <2>1 DEF SPRegs
  <2>3. \A v \in Users : ~Holds(v)'
    BY <1>7 DEF ReleaseSemaphore
  <2>. QED BY <1>7, <2>2, <2>3 DEF ReleaseSemaphore
<1>8. ASSUME NEW u \in Users, Abandon(u) PROVE Inv'
  BY <1>8 DEF Abandon
<1>9. CASE HostWritesWord
  BY <1>9 DEF HostWritesWord
<1>10. CASE UNCHANGED vars
  BY <1>10 DEF vars
<1>. QED BY <1>1, <1>2, <1>3, <1>4, <1>5, <1>6, <1>7, <1>8, <1>9, <1>10
     DEF Next, Access

(***************************************************************************)
(* Types.  What the memories hold after a transfer is a matter of the      *)
(* copying loop (SPDMAProofs), for a request with any length and count.    *)
(***************************************************************************)
LEMMA InitTypeOK == Init => TypeOK
<1>. SUFFICES ASSUME Init PROVE TypeOK
  OBVIOUS
<1>1. mem \in [MemWord -> Int]
  BY DEF Init
<1>2. dram \in [DramWord -> Int]
  <2>1. \A a \in DramWord : a + 1 \in Int
    BY DEF DramWord
  <2>. QED BY <2>1 DEF Init
<1>3. UserType /\ sp \in SPRegs
  BY InitInv DEF Inv, RegistersKept
<1>. QED BY <1>1, <1>2, <1>3 DEF Init, TypeOK, UserType

\* Registers and memories keep their ranges through every access and transfer.
LEMMA StepTypeOK == TypeOK /\ Inv /\ [Next]_vars => TypeOK'
<1>. SUFFICES ASSUME TypeOK, Inv, [Next]_vars PROVE TypeOK'
  OBVIOUS
<1>. DEFINE Memories == /\ mem \in [MemWord -> Int] /\ dram \in [DramWord -> Int]
                        /\ dma \in [mem : Nat, dram : Nat]
<1>1. UserType' /\ sp' \in SPRegs
  BY StepInv DEF Inv, RegistersKept
<1>2. Memories
  BY DEF TypeOK
<1>3. \A u \in Users : user[u].goal \in Requests /\ user[u].goal.mem \in Nat
        /\ user[u].goal.dram \in Nat /\ user[u].goal.len \in Lengths
  BY RequestsAssumption DEF TypeOK
<1>4. Memories' /\ leaked' \in BOOLEAN
  <2>1. ASSUME NEW u \in Users,
               Begin(u) \/ TakeSemaphore(u) \/ ReleaseSemaphore(u)
        PROVE  Memories' /\ leaked' \in BOOLEAN
    BY <2>1 DEF Begin, TakeSemaphore, ReleaseSemaphore, TypeOK
  <2>2. ASSUME NEW u \in Users, WriteMemAddr(u)
        PROVE  Memories' /\ leaked' \in BOOLEAN
    <3>1. MemAddr(user[u].goal.mem) \in Nat
      BY <1>3, DMASizesAssumption DEF MemAddr
    <3>. QED BY <2>2, <3>1 DEF WriteMemAddr, TypeOK
  <2>3. ASSUME NEW u \in Users, WriteDramAddr(u)
        PROVE  Memories' /\ leaked' \in BOOLEAN
    <3>1. DramAddr(user[u].goal.dram) \in Nat
      BY <1>3, DMASizesAssumption DEF DramAddr
    <3>. QED BY <2>3, <3>1 DEF WriteDramAddr, TypeOK
  <2>4. ASSUME NEW u \in Users, WriteRdLen(u)
        PROVE  Memories' /\ leaked' \in BOOLEAN
    <3>1. /\ DMARead(mem, dram, dma, user[u].goal.len) \in [MemWord -> Int]
          /\ AfterRead(dma, user[u].goal.len) \in [mem : Nat, dram : Nat]
      BY <1>2, <1>3, TransferTyped
    <3>. QED BY <2>4, <3>1 DEF WriteRdLen, TypeOK
  <2>5. ASSUME NEW u \in Users, WriteWrLen(u)
        PROVE  Memories' /\ leaked' \in BOOLEAN
    <3>1. /\ DMAWrite(mem, dram, dma, user[u].goal.len) \in [DramWord -> Int]
          /\ AfterWrite(dma, user[u].goal.len) \in [mem : Nat, dram : Nat]
      BY <1>2, <1>3, TransferTyped
    <3>. QED BY <2>5, <3>1 DEF WriteWrLen, TypeOK
  <2>6. ASSUME NEW u \in Users, Abandon(u)
        PROVE  Memories' /\ leaked' \in BOOLEAN
    BY <2>6 DEF Abandon, TypeOK
  <2>7. CASE HostWritesWord
    BY <2>7, HostWritesAssumption DEF HostWritesWord, TypeOK
  <2>8. CASE UNCHANGED vars
    BY <2>8 DEF vars, TypeOK
  <2>. QED BY <2>1, <2>2, <2>3, <2>4, <2>5, <2>6, <2>7, <2>8 DEF Next, Access
<1>. QED BY <1>1, <1>4 DEF TypeOK, UserType

\* Whatever is transferred, with any lengths, counts and skips and from any
\* addresses, the memories, the address registers and the SP registers keep
\* their shape; in particular no transfer writes outside a memory.
THEOREM TransfersTyped == Spec => []TypeOK
BY InitInv, StepInv, InitTypeOK, StepTypeOK, PTL DEF Spec

\* However the accesses of any number of users fall, and wherever users are
\* restarted, no two ever hold the semaphore.
THEOREM MutualExclusion == Spec => []OneHolder
BY InitInv, StepInv, PTL DEF Spec, Inv

\* Under the semaphore the three register writes of a transfer are as good as
\* one: every write of a length register transfers exactly what its user asked
\* for, and no other step changes either memory.
THEOREM TransferAtomicity == Spec => TransfersAreAtomic
<1>1. Init => Atomic!Init
  BY DEF Init, Atomic!Init
<1>2. ASSUME Inv, [Next]_vars PROVE [Atomic!Next]_<<mem, dram>>
  <2>1. ASSUME NEW u \in Users, WriteRdLen(u) PROVE Atomic!Next
    <3>1. user[u].goal \in Requests
          /\ dma = [mem |-> MemAddr(user[u].goal.mem),
                    dram |-> DramAddr(user[u].goal.dram)]
      BY <1>2, <2>1 DEF Inv, UserType, RegistersKept, WriteRdLen
    <3>2. Atomic!Transfer(user[u].goal)
      BY <2>1, <3>1 DEF WriteRdLen, Atomic!Transfer
    <3>. QED BY <3>1, <3>2 DEF Atomic!Next
  <2>2. ASSUME NEW u \in Users, WriteWrLen(u) PROVE Atomic!Next
    <3>1. user[u].goal \in Requests
          /\ dma = [mem |-> MemAddr(user[u].goal.mem),
                    dram |-> DramAddr(user[u].goal.dram)]
      BY <1>2, <2>2 DEF Inv, UserType, RegistersKept, WriteWrLen
    <3>2. Atomic!Transfer(user[u].goal)
      BY <2>2, <3>1 DEF WriteWrLen, Atomic!Transfer
    <3>. QED BY <3>1, <3>2 DEF Atomic!Next
  <2>3. CASE HostWritesWord
    BY <2>3 DEF HostWritesWord, Atomic!HostWritesWord, Atomic!Next
  <2>4. ASSUME NEW u \in Users,
               \/ Begin(u) \/ TakeSemaphore(u) \/ WriteMemAddr(u)
               \/ WriteDramAddr(u) \/ ReleaseSemaphore(u) \/ Abandon(u)
        PROVE  UNCHANGED <<mem, dram>>
    BY <2>4 DEF Begin, TakeSemaphore, WriteMemAddr, WriteDramAddr,
                ReleaseSemaphore, Abandon
  <2>5. CASE UNCHANGED vars
    BY <2>5 DEF vars
  <2>. QED BY <1>2, <2>1, <2>2, <2>3, <2>4, <2>5 DEF Next, Access
<1>. QED BY <1>1, <1>2, InitInv, StepInv, PTL
     DEF Spec, TransfersAreAtomic, Atomic!Spec
=============================================================================
