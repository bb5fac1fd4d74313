---------------------------- MODULE ScalarPrograms ----------------------------
(***************************************************************************)
(* Short programs of ScalarUnit's instructions, one instruction a step:    *)
(* the sequences compilers and assemblers make out of them, whose result   *)
(* rests on what the instructions do at the edges: carries, signs, shifts  *)
(* by more than the width, the two kinds of immediates.  Programs are      *)
(* words as an assembler makes them, which the decoder's tables turn into  *)
(* handlers.                                                               *)
(***************************************************************************)
EXTENDS ScalarUnit, Decoder

CONSTANTS Inputs     \* the values registers 1 to 4 start with; 3 and 4 are
                     \* zero where a program does not use them

ASSUME InputsAssumption == Inputs \subseteq Register

\* The numbers of the instructions, in the function field and in the opcode.
Function ==
  [SLL |-> 0, SRL |-> 2, SRA |-> 3, SLLV |-> 4, SRLV |-> 6, SRAV |-> 7, ADD |-> 32,
   ADDU |-> 33, SUB |-> 34, SUBU |-> 35, AND |-> 36, OR |-> 37, XOR |-> 38,
   NOR |-> 39, SLT |-> 42, SLTU |-> 43]
Major ==
  [ADDI |-> 8, ADDIU |-> 9, SLTI |-> 10, SLTIU |-> 11, ANDI |-> 12, ORI |-> 13,
   XORI |-> 14, LUI |-> 15]

R(op, rd, rs, rt) ==
  [op |-> 0, rs |-> rs, rt |-> rt, rd |-> rd, sa |-> 0, funct |-> Function[op],
   imm |-> 0]
I(op, rt, rs, imm) ==
  [op |-> Major[op], rs |-> rs, rt |-> rt, rd |-> 0, sa |-> 0, funct |-> 0,
   imm |-> imm]
S(op, rd, rt, sa) == [R(op, rd, 0, rt) EXCEPT !.sa = sa]

\* Registers 1 and 2 are one number of twice the width, low part first, 3 and
\* 4 another; the sum goes to 5 and 7, the difference likewise.
WideAdd ==
  <<R("ADDU", 5, 1, 3), R("SLTU", 6, 5, 1), R("ADD", 7, 2, 4), R("ADD", 7, 7, 6)>>
WideSub ==
  <<R("SLTU", 6, 1, 3), R("SUBU", 5, 1, 3), R("SUB", 7, 2, 4), R("SUB", 7, 7, 6)>>

\* 5: register 1 turned to the left by register 2.
Rotate ==
  <<R("SUB", 6, 0, 2), R("SLLV", 5, 2, 1), R("SRLV", 6, 6, 1), R("OR", 5, 5, 6)>>

\* 5: the absolute value of register 1; 6: -1 if it is negative, 0 if not.
Absolute ==
  <<S("SRA", 6, 1, Bits - 1), R("XOR", 5, 1, 6), R("SUB", 5, 5, 6)>>

\* 5: a constant of the full width in the two ways there are, high half h and
\* low half l; ADDIU takes one from the high half where it adds a negative l.
Constant(h, l) ==
  <<I("LUI", 5, 0, h), I("ORI", 5, 5, l),
    I("LUI", 6, 0, (h + (IF l < Power[ImmBits - 1] THEN 0 ELSE 1)) % Power[ImmBits]),
    I("ADDIU", 6, 6, l)>>

\* 5 and 7: register 1 compared with an immediate; 6 and 8: with the same
\* constant from a register.
Compare(imm) ==
  <<I("ADDI", 9, 0, imm), I("SLTIU", 5, 1, imm), R("SLTU", 6, 1, 9),
    I("SLTI", 7, 1, imm), R("SLT", 8, 1, 9)>>

\* 5: exclusive or out of the other logical operations, 6: with an immediate.
Logical(imm) ==
  <<R("NOR", 6, 1, 2), R("AND", 7, 1, 2), R("NOR", 5, 6, 7), R("XOR", 8, 1, 2),
    I("ORI", 6, 1, imm), I("ANDI", 7, 1, imm), R("SUB", 6, 6, 7),
    I("XORI", 9, 1, imm)>>

Imm == 0 .. Power[ImmBits] - 1
Programs ==
  {WideAdd, WideSub, Rotate, Absolute}
  \cup {Constant(h, l) : h, l \in Imm}
  \cup {Compare(imm) : imm \in Imm}
  \cup {Logical(imm) : imm \in Imm}

VARIABLES regs, start, prog, pos
vars == <<regs, start, prog, pos>>

Init ==
  /\ start \in [1 .. 4 -> Inputs]
  /\ regs = [r \in 0 .. 9 |-> IF r \in 1 .. 4 THEN start[r] ELSE 0]
  /\ prog \in Programs /\ pos = 1
  /\ prog \notin {WideAdd, WideSub} => start[3] = 0 /\ start[4] = 0

Step ==
  /\ pos <= Len(prog)
  /\ LET iw == prog[pos]
         w == [iw EXCEPT !.op = RSPDecodeInstruction(iw)] IN
     regs' = [regs EXCEPT ![IF w.op \in DOMAIN Major THEN w.rt ELSE w.rd] =
                ScalarAlu(w, regs[w.rs], regs[w.rt])]
  /\ pos' = pos + 1
  /\ UNCHANGED <<start, prog>>

Done == pos > Len(prog) /\ UNCHANGED vars

Next == Step \/ Done

Spec == Init /\ [][Next]_vars

(***************************************************************************)
(* Properties.                                                             *)
(***************************************************************************)
After(p) == prog = p /\ pos = Len(p) + 1
Wide(low, high) == low + high * Power[Bits]

\* SLTU (RSPSLTU) finds the carry of ADD and the borrow of SUB: arithmetic of
\* twice the width comes out right for all operands.
WideArithmetic ==
  /\ After(WideAdd) =>
       Wide(regs[5], regs[7])
         = (Wide(start[1], start[2]) + Wide(start[3], start[4])) % Power[2 * Bits]
  /\ After(WideSub) =>
       Wide(regs[5], regs[7])
         = (Wide(start[1], start[2]) - Wide(start[3], start[4])) % Power[2 * Bits]

\* Variable shifts count modulo the width and SRA repeats the sign (RSPSLLV,
\* RSPSRLV, RSPSRA): the usual rotation works for every amount, zero and
\* multiples of the width included, and the absolute value without a branch is
\* that, but for the number that has none.
ShiftsAsExpected ==
  /\ After(Rotate) =>
       LET n == start[2] % Bits IN
       regs[5] = Wrap(start[1] * Power[n]) + start[1] \div Power[Bits - n]
  /\ After(Absolute) =>
       LET n == Signed(start[1]) IN
       Signed(regs[5]) = IF n < 0 /\ n # -(Power[Bits - 1]) THEN -n ELSE n

\* Immediates are sign extended in arithmetic, also where it is unsigned, and
\* not in logical operations (RSPADDI, RSPSLTIU, RSPANDI, RSPORI, RSPXORI).  LUI
\* with ORI and LUI with ADDIU make the same constant; a comparison with an
\* immediate is that with the sign extended constant in a register; the logical
\* operations agree with one another, in both forms.
ImmediatesAgree ==
  /\ \A h, l \in Imm :
       After(Constant(h, l)) => regs[5] = h * Power[ImmBits] + l /\ regs[6] = regs[5]
  /\ \A imm \in Imm :
       /\ After(Compare(imm)) => regs[5] = regs[6] /\ regs[7] = regs[8]
       /\ After(Logical(imm)) => regs[5] = regs[8] /\ regs[6] = regs[9]
=============================================================================
