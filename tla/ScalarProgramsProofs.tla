------------------------- MODULE ScalarProgramsProofs -------------------------
(***************************************************************************)
(* The programs of ScalarPrograms come out right whatever the width of the *)
(* registers and whatever they start with; and every handler of the scalar *)
(* unit returns what a register can hold.                                  *)
(***************************************************************************)
EXTENDS ScalarPrograms, BinaryProofs

(***************************************************************************)
(* Widths and registers.                                                   *)
(***************************************************************************)
Size == Power[Bits]
ImmSize == Power[ImmBits]
Top == Power[Bits - 1]          \* the smallest number that is taken as negative
ImmTop == Power[ImmBits - 1]

\* The powers of two that occur.
LEMMA Sizes ==
  /\ ImmBits \in Nat /\ Bits \in Nat /\ Bits = 2 * ImmBits /\ Bits - 1 \in Nat
  /\ ImmTop \in Nat \ {0} /\ ImmSize = 2 * ImmTop /\ ImmSize <= Top
  /\ Top \in Nat \ {0} /\ Size = 2 * Top /\ Size = ImmSize * ImmSize
<1>1. /\ ImmBits \in Nat /\ Bits \in Nat /\ Bits = 2 * ImmBits /\ ImmBits > 0
      /\ ImmBits - 1 \in Nat /\ (ImmBits - 1) + 1 = ImmBits
      /\ Bits - 1 \in Nat /\ (Bits - 1) + 1 = Bits /\ Bits = ImmBits + ImmBits
      /\ ImmBits <= Bits - 1
  BY WidthAssumption
<1>2. ImmTop \in Nat \ {0} /\ ImmSize = 2 * ImmTop /\ Top \in Nat \ {0} /\ Size = 2 * Top
  BY <1>1, PowerSteps DEF ImmTop, ImmSize, Top, Size
<1>3. Size = ImmSize * ImmSize
  BY <1>1, PowerAdd DEF Size, ImmSize
<1>4. ImmSize <= Top
  BY <1>1, PowerSplit DEF ImmSize, Top
<1>. QED BY <1>1, <1>2, <1>3, <1>4

\* What \div and % return, and how little it takes to tell.
LEMMA DivMod ==
  ASSUME NEW n \in Nat \ {0}, NEW x \in Int, NEW q \in Int, NEW r \in 0 .. n - 1,
         x = q * n + r
  PROVE  x \div n = q /\ x % n = r
<1>1. x \in Int /\ n \in Int /\ n > 0
  OBVIOUS
<1>. QED BY <1>1

\* A number has a quotient and a remainder.
LEMMA Digits ==
  ASSUME NEW n \in Nat \ {0}, NEW x \in Int
  PROVE  /\ x \div n \in Int /\ x % n \in 0 .. n - 1
         /\ x = (x \div n) * n + (x % n)
OBVIOUS

\* Registers are words of Bits bits.
LEMMA RegisterIs ==
  /\ Register = 0 .. Size - 1 /\ Register = Word(Bits)
  /\ \A x \in Int : Wrap(x) \in Register
  /\ \A x \in Register : x \in Nat /\ Wrap(x) = x
  /\ \A x \in Register : Signed(x) = IF x < Top THEN x ELSE x - Size
<1>1. Size \in Nat \ {0}
  BY Sizes
<1>2. \A x \in Int : x % Size \in 0 .. Size - 1
  BY <1>1, Digits
<1>3. \A x \in 0 .. Size - 1 : x % Size = x
  BY <1>1
<1>. QED BY <1>1, <1>2, <1>3 DEF Register, Word, Wrap, Signed, Size, Top

\* Immediates are smaller, also where they are negative.
LEMMA ImmIs ==
  ASSUME NEW imm \in Imm
  PROVE  /\ imm \in 0 .. ImmSize - 1 /\ imm \in Register
         /\ SignedImm(imm) \in -ImmTop .. ImmTop - 1
         /\ SignedImm(imm) = IF imm < ImmTop THEN imm ELSE imm - ImmSize
<1>1. imm \in 0 .. ImmSize - 1
  BY DEF Imm, ImmSize
<1>2. /\ ImmTop \in Nat \ {0} /\ ImmSize = 2 * ImmTop /\ ImmSize <= Top
      /\ Top \in Nat \ {0} /\ Size = 2 * Top
  BY Sizes
<1>3. imm \in Register
  BY <1>1, <1>2, RegisterIs
<1>4. SignedImm(imm) = IF imm < ImmTop THEN imm ELSE imm - ImmSize
  BY DEF SignedImm, ImmSize, ImmTop
<1>. QED BY <1>1, <1>2, <1>3, <1>4

\* A signed number that fits comes back from a register.
LEMMA SignedBack ==
  ASSUME NEW x \in -Top .. Top - 1
  PROVE  Signed(Wrap(x)) = x
<1>1. Top \in Nat \ {0} /\ Size = 2 * Top /\ Size \in Nat \ {0}
  BY Sizes
<1>2. CASE x >= 0
  <2>1. x \in Register /\ x < Top
    BY <1>1, <1>2, RegisterIs
  <2>. QED BY <2>1, RegisterIs
<1>3. CASE x < 0
  <2>1. x = (-1) * Size + (x + Size) /\ x + Size \in 0 .. Size - 1
    BY <1>1, <1>3
  <2>2. x % Size = x + Size
    BY <1>1, <2>1, DivMod
  <2>. QED BY <1>1, <1>3, <2>1, <2>2, RegisterIs DEF Wrap, Size
<1>. QED BY <1>2, <1>3

(***************************************************************************)
(* The handlers.                                                           *)
(***************************************************************************)

\* The logical operations on registers, as numbers, and some laws.
LEMMA Logical2 ==
  ASSUME NEW x \in Register, NEW y \in Register
  PROVE  /\ BitAnd(x, y) \in Register /\ BitOr(x, y) \in Register
         /\ BitXor(x, y) \in Register
         /\ BitAnd(x, y) <= x /\ BitAnd(x, y) <= y
         /\ BitAnd(x, x) = x /\ BitAnd(x, 0) = 0
         /\ BitAnd((Size - 1) - x, y) = y - BitAnd(x, y)
         /\ BitAnd(y, x) = BitAnd(x, y)
         /\ BitAnd(BitOr(x, y), BitAnd(x, y)) = BitAnd(x, y)
<1>1. Bits \in Nat /\ x \in Word(Bits) /\ y \in Word(Bits) /\ Size \in Nat
  BY Sizes, RegisterIs
<1>2. AndLaws(Bits, x, y)
  BY <1>1, AndObeys
<1>. DEFINE a == BitAnd(x, y)
<1>3. /\ a \in Nat /\ a <= x /\ a <= y /\ x + y - a <= Size - 1
      /\ BitAnd(y, x) = a /\ BitAnd(x, 0) = 0 /\ BitAnd(x, x) = x
      /\ BitAnd((Size - 1) - x, y) = y - a
      /\ BitAnd(x + y - a, a) = a
  BY <1>2 DEF AndLaws, BitAnd, Size
<1>4. BitOr(x, y) = x + y - a /\ BitXor(x, y) = x + y - 2 * a
  BY DEF BitOr, BitXor
<1>5. x \in 0 .. Size - 1 /\ y \in 0 .. Size - 1
  BY RegisterIs
<1>. HIDE DEF a
<1>6. a \in 0 .. Size - 1 /\ x + y - a \in 0 .. Size - 1 /\ x + y - 2 * a \in 0 .. Size - 1
  BY <1>1, <1>3, <1>5
<1>. QED BY <1>3, <1>4, <1>6, RegisterIs DEF a

\* What each handler returns.
LEMMA Handlers ==
  ASSUME NEW w, NEW x, NEW y
  PROVE  /\ w.op = "ADD" => ScalarAlu(w, x, y) = Wrap(x + y)
         /\ w.op = "ADDI" => ScalarAlu(w, x, y) = Wrap(x + SignedImm(w.imm))
         /\ w.op = "SUB" => ScalarAlu(w, x, y) = Wrap(x - y)
         /\ w.op = "AND" => ScalarAlu(w, x, y) = BitAnd(x, y)
         /\ w.op = "ANDI" => ScalarAlu(w, x, y) = BitAnd(x, w.imm)
         /\ w.op = "OR" => ScalarAlu(w, x, y) = BitOr(x, y)
         /\ w.op = "ORI" => ScalarAlu(w, x, y) = BitOr(x, w.imm)
         /\ w.op = "NOR" => ScalarAlu(w, x, y) = (Size - 1) - BitOr(x, y)
         /\ w.op = "XOR" => ScalarAlu(w, x, y) = BitXor(x, y)
         /\ w.op = "XORI" => ScalarAlu(w, x, y) = BitXor(x, w.imm)
         /\ w.op = "LUI" => ScalarAlu(w, x, y) = Wrap(w.imm * ImmSize)
         /\ w.op = "SLL" => ScalarAlu(w, x, y) = Wrap(y * Power[w.sa])
         /\ w.op = "SLLV" => ScalarAlu(w, x, y) = Wrap(y * Power[x % Bits])
         /\ w.op = "SRL" => ScalarAlu(w, x, y) = y \div Power[w.sa]
         /\ w.op = "SRLV" => ScalarAlu(w, x, y) = y \div Power[x % Bits]
         /\ w.op = "SRA" => ScalarAlu(w, x, y) = Wrap(Signed(y) \div Power[w.sa])
         /\ w.op = "SRAV" => ScalarAlu(w, x, y) = Wrap(Signed(y) \div Power[x % Bits])
         /\ w.op = "SLT" =>
              ScalarAlu(w, x, y) = IF Signed(x) < Signed(y) THEN 1 ELSE 0
         /\ w.op = "SLTI" =>
              ScalarAlu(w, x, y) = IF Signed(x) < SignedImm(w.imm) THEN 1 ELSE 0
         /\ w.op = "SLTU" => ScalarAlu(w, x, y) = IF x < y THEN 1 ELSE 0
         /\ w.op = "SLTIU" =>
              ScalarAlu(w, x, y) = IF x < Wrap(SignedImm(w.imm)) THEN 1 ELSE 0
<1>1. w.op \in {"ADD", "ADDI", "SUB"} => ScalarAlu(w, x, y) = Add(w, x, y)
  BY DEF ScalarAlu
<1>2. w.op \in {"AND", "ANDI", "OR", "ORI", "NOR", "XOR", "XORI", "LUI"} =>
        ScalarAlu(w, x, y) = Logic(w, x, y)
  BY DEF ScalarAlu
<1>3. w.op \in {"SLL", "SLLV", "SRL", "SRLV", "SRA", "SRAV"} =>
        ScalarAlu(w, x, y) = Shift(w, x, y)
  BY DEF ScalarAlu
<1>4. w.op \in {"SLT", "SLTI", "SLTU", "SLTIU"} =>
        ScalarAlu(w, x, y) = IF Less(w, x, y) THEN 1 ELSE 0
  BY DEF ScalarAlu
<1>5. /\ w.op = "ADD" => Add(w, x, y) = Wrap(x + y)
      /\ w.op = "ADDI" => Add(w, x, y) = Wrap(x + SignedImm(w.imm))
      /\ w.op = "SUB" => Add(w, x, y) = Wrap(x - y)
  BY DEF Add
<1>6. /\ w.op = "AND" => Logic(w, x, y) = BitAnd(x, y)
      /\ w.op = "ANDI" => Logic(w, x, y) = BitAnd(x, w.imm)
      /\ w.op = "OR" => Logic(w, x, y) = BitOr(x, y)
      /\ w.op = "ORI" => Logic(w, x, y) = BitOr(x, w.imm)
      /\ w.op = "NOR" => Logic(w, x, y) = (Size - 1) - BitOr(x, y)
      /\ w.op = "XOR" => Logic(w, x, y) = BitXor(x, y)
      /\ w.op = "XORI" => Logic(w, x, y) = BitXor(x, w.imm)
      /\ w.op = "LUI" => Logic(w, x, y) = Wrap(w.imm * ImmSize)
  BY DEF Logic, Size, ImmSize
<1>7. /\ w.op \in {"SLLV", "SRLV", "SRAV"} => Amount(w, x) = x % Bits
      /\ w.op \in {"SLL", "SRL", "SRA"} => Amount(w, x) = w.sa
  BY DEF Amount
<1>8. /\ w.op \in {"SLL", "SLLV"} => Shift(w, x, y) = Wrap(y * Power[Amount(w, x)])
      /\ w.op \in {"SRL", "SRLV"} => Shift(w, x, y) = y \div Power[Amount(w, x)]
      /\ w.op \in {"SRA", "SRAV"} =>
           Shift(w, x, y) = Wrap(Signed(y) \div Power[Amount(w, x)])
  BY DEF Shift
<1>9. /\ w.op = "SLT" => Less(w, x, y) = (Signed(x) < Signed(y))
      /\ w.op = "SLTI" => Less(w, x, y) = (Signed(x) < SignedImm(w.imm))
      /\ w.op = "SLTU" => Less(w, x, y) = (x < y)
      /\ w.op = "SLTIU" => Less(w, x, y) = (x < Wrap(SignedImm(w.imm)))
  BY DEF Less
<1>10. /\ w.op = "SLT" => ScalarAlu(w, x, y) = IF Signed(x) < Signed(y) THEN 1 ELSE 0
       /\ w.op = "SLTI" =>
             ScalarAlu(w, x, y) = IF Signed(x) < SignedImm(w.imm) THEN 1 ELSE 0
       /\ w.op = "SLTU" => ScalarAlu(w, x, y) = IF x < y THEN 1 ELSE 0
       /\ w.op = "SLTIU" =>
             ScalarAlu(w, x, y) = IF x < Wrap(SignedImm(w.imm)) THEN 1 ELSE 0
  BY <1>4, <1>9, Zenon
<1>11. /\ w.op \in {"SLLV", "SRLV", "SRAV"} => Power[Amount(w, x)] = Power[x % Bits]
       /\ w.op \in {"SLL", "SRL", "SRA"} => Power[Amount(w, x)] = Power[w.sa]
  BY <1>7
<1>12. /\ w.op = "SLL" => ScalarAlu(w, x, y) = Wrap(y * Power[w.sa])
       /\ w.op = "SLLV" => ScalarAlu(w, x, y) = Wrap(y * Power[x % Bits])
       /\ w.op = "SRL" => ScalarAlu(w, x, y) = y \div Power[w.sa]
       /\ w.op = "SRLV" => ScalarAlu(w, x, y) = y \div Power[x % Bits]
       /\ w.op = "SRA" => ScalarAlu(w, x, y) = Wrap(Signed(y) \div Power[w.sa])
       /\ w.op = "SRAV" => ScalarAlu(w, x, y) = Wrap(Signed(y) \div Power[x % Bits])
  BY <1>3, <1>8, <1>11
<1>. QED BY <1>1, <1>2, <1>5, <1>6, <1>10, <1>12

\* Shifted to the right a number becomes no larger.
LEMMA ShiftedDown ==
  ASSUME NEW n \in Nat, NEW x \in Int
  PROVE  /\ x \div Power[n] \in Int
         /\ x >= 0 => x \div Power[n] \in 0 .. x
<1>. DEFINE p == Power[n]
<1>1. p \in Nat \ {0}
  BY PowerSteps
<1>. HIDE DEF p
<1>2. x \div p \in Int /\ (x >= 0 => x \div p \in 0 .. x)
  <2>. DEFINE q == x \div p
              r == x % p
  <2>1. q \in Int /\ r \in 0 .. p - 1 /\ x = q * p + r
    BY <1>1, Digits
  <2>. HIDE DEF q, r
  <2>2. ASSUME x >= 0 PROVE q \in 0 .. x
    <3>1. \A m \in Int : m < 0 => m * p <= -p
      BY <1>1
    <3>2. \A m \in Nat : m <= m * p
      BY <1>1
    <3>3. q >= 0
      BY <1>1, <2>1, <2>2, <3>1
    <3>. QED BY <1>1, <2>1, <2>2, <3>2, <3>3
  <2>. QED BY <2>1, <2>2 DEF q
<1>. QED BY <1>2 DEF p

\* Every handler returns what a register can hold, as the pipeline assumes of
\* its Alu (EXStage.c: the results are uint32_t).
THEOREM ScalarAluTyped ==
  ASSUME NEW w, w.imm \in Imm, w.sa \in Nat, NEW x \in Register, NEW y \in Register
  PROVE  ScalarAlu(w, x, y) \in Register
<1>1. /\ x \in Int /\ y \in Int /\ x \in 0 .. Size - 1 /\ y \in 0 .. Size - 1
      /\ Signed(y) \in Int /\ Size \in Nat
  BY RegisterIs, Sizes
<1>2. w.imm \in Register /\ SignedImm(w.imm) \in Int /\ w.imm \in Int
  BY ImmIs, RegisterIs
<1>3. x % Bits \in Nat
  <2>1. Bits \in Nat \ {0}
    BY Sizes
  <2>. QED BY <1>1, <2>1, Digits
<1>4. 0 \in Register /\ 1 \in Register
  BY RegisterIs, Sizes
<1>5. CASE w.op \in {"ADD", "ADDI", "SUB"}
  <2>1. Wrap(x + y) \in Register /\ Wrap(x + SignedImm(w.imm)) \in Register
        /\ Wrap(x - y) \in Register
    BY <1>1, <1>2, RegisterIs
  <2>. QED BY <1>5, <2>1, Handlers
<1>6. CASE w.op \in {"AND", "ANDI", "OR", "ORI", "XOR", "XORI"}
  BY <1>2, <1>6, Handlers, Logical2
<1>7. CASE w.op = "NOR"
  <2>1. BitOr(x, y) \in 0 .. Size - 1
    BY Logical2, RegisterIs
  <2>2. (Size - 1) - BitOr(x, y) \in Register
    BY <1>1, <2>1, RegisterIs
  <2>. QED BY <1>7, <2>2, Handlers
<1>8. CASE w.op = "LUI"
  <2>1. w.imm * ImmSize \in Int
    BY <1>2, Sizes
  <2>. QED BY <1>8, <2>1, Handlers, RegisterIs
<1>9. ASSUME NEW n \in Nat
      PROVE  /\ Wrap(y * Power[n]) \in Register /\ y \div Power[n] \in Register
             /\ Wrap(Signed(y) \div Power[n]) \in Register
  <2>1. Power[n] \in Int
    BY PowerSteps
  <2>2. y * Power[n] \in Int
    BY <1>1, <2>1
  <2>3. y \div Power[n] \in 0 .. y /\ Signed(y) \div Power[n] \in Int
    <3>1. \A z \in Int : z \div Power[n] \in Int /\ (z >= 0 => z \div Power[n] \in 0 .. z)
      BY ShiftedDown
    <3>. QED BY <1>1, <3>1
  <2>4. y \div Power[n] \in 0 .. Size - 1
    BY <1>1, <2>3
  <2>. QED BY <2>2, <2>3, <2>4, RegisterIs
<1>10. CASE w.op \in {"SLL", "SLLV", "SRL", "SRLV", "SRA", "SRAV"}
  BY <1>3, <1>9, <1>10, Handlers
<1>11. CASE w.op \notin {"ADD", "ADDI", "SUB", "AND", "ANDI", "OR", "ORI", "XOR", "XORI",
                        "NOR", "LUI", "SLL", "SLLV", "SRL", "SRLV", "SRA", "SRAV"}
  BY <1>4, <1>11 DEF ScalarAlu
<1>. QED BY <1>5, <1>6, <1>7, <1>8, <1>10, <1>11

(***************************************************************************)
(* The instructions of the programs: what each leaves in the registers.    *)
(***************************************************************************)
Number == 0 .. 9
File == [Number -> Register]

\* The registers there are.
LEMMA Numbers ==
  /\ 0 \in Number /\ 1 \in Number /\ 2 \in Number /\ 3 \in Number /\ 4 \in Number
  /\ 5 \in Number /\ 6 \in Number /\ 7 \in Number /\ 8 \in Number /\ 9 \in Number
BY DEF Number

\* One register has changed.
Sets(c, d, r, v) ==
  /\ d \in File /\ d[r] = v
  /\ \A q \in Number : q # r => d[q] = c[q]

Executed(c, iw) ==
  LET w == [iw EXCEPT !.op = RSPDecodeInstruction(iw)] IN
  [c EXCEPT ![IF w.op \in DOMAIN Major THEN w.rt ELSE w.rd] =
     ScalarAlu(w, c[w.rs], c[w.rt])]

\* By the instruction's name, of the two registers and the amount in it.
ResultR(op, x, y, sa) ==
  CASE op \in {"ADD", "ADDU"} -> Wrap(x + y)
    [] op \in {"SUB", "SUBU"} -> Wrap(x - y)
    [] op = "AND" -> BitAnd(x, y)
    [] op = "OR" -> BitOr(x, y)
    [] op = "XOR" -> BitXor(x, y)
    [] op = "NOR" -> (Size - 1) - BitOr(x, y)
    [] op = "SLLV" -> Wrap(y * Power[x % Bits])
    [] op = "SRLV" -> y \div Power[x % Bits]
    [] op = "SRA" -> Wrap(Signed(y) \div Power[sa])
    [] op = "SLT" -> IF Signed(x) < Signed(y) THEN 1 ELSE 0
    [] op = "SLTU" -> IF x < y THEN 1 ELSE 0

\* Of the register and the immediate.
ResultI(op, x, imm) ==
  CASE op \in {"ADDI", "ADDIU"} -> Wrap(x + SignedImm(imm))
    [] op = "SLTI" -> IF Signed(x) < SignedImm(imm) THEN 1 ELSE 0
    [] op = "SLTIU" -> IF x < Wrap(SignedImm(imm)) THEN 1 ELSE 0
    [] op = "ANDI" -> BitAnd(x, imm)
    [] op = "ORI" -> BitOr(x, imm)
    [] op = "XORI" -> BitXor(x, imm)
    [] op = "LUI" -> Wrap(imm * ImmSize)

NamesR ==
  {"ADD", "ADDU", "SUB", "SUBU", "AND", "OR", "XOR", "NOR", "SLLV", "SRLV", "SRA",
   "SLT", "SLTU"}
NamesI == {"ADDI", "ADDIU", "SLTI", "SLTIU", "ANDI", "ORI", "XORI", "LUI"}

\* The handler of an instruction: the unsigned additions have none of their own.
Handler(op) ==
  CASE op = "ADDU" -> "ADD" [] op = "SUBU" -> "SUB" [] op = "ADDIU" -> "ADDI"
    [] OTHER -> op

\* The decoder finds it.
LEMMA AssembledR ==
  ASSUME NEW op \in NamesR, NEW iw, iw.op = 0, iw.funct = Function[op]
  PROVE  RSPDecodeInstruction(iw) = Handler(op)
<1>1. RSPDecodeInstruction(iw) = Entry(SpecialOpcodeTable, Function[op])
  BY DEF RSPDecodeInstruction
<1>2. CASE op \in {"ADD", "ADDU", "SUB", "SUBU", "AND", "OR", "XOR", "NOR"}
  BY <1>1, <1>2 DEF Function, Entry, SpecialOpcodeTable, Row, Handler
<1>3. CASE op \in {"SLLV", "SRLV", "SRA", "SLT", "SLTU"}
  BY <1>1, <1>3 DEF Function, Entry, SpecialOpcodeTable, Row, Handler
<1>. QED BY <1>2, <1>3 DEF NamesR

\* The same for immediates.
LEMMA AssembledI ==
  ASSUME NEW op \in NamesI, NEW iw, iw.op = Major[op]
  PROVE  RSPDecodeInstruction(iw) = Handler(op)
<1>1. Major[op] \in 8 .. 15
  BY DEF Major, NamesI
<1>2. RSPDecodeInstruction(iw) = Entry(OpcodeTable, Major[op])
  BY <1>1 DEF RSPDecodeInstruction
<1>. QED BY <1>2 DEF Major, NamesI, Entry, OpcodeTable, Row, Handler

\* What an instruction of registers leaves.
LEMMA RunsAny ==
  ASSUME NEW c \in File, NEW op \in NamesR,
         NEW rd \in Number, NEW rs \in Number, NEW rt \in Number, NEW sa \in Nat, NEW iw,
         iw = [op |-> 0, rs |-> rs, rt |-> rt, rd |-> rd, sa |-> sa,
               funct |-> Function[op], imm |-> 0]
  PROVE  Sets(c, Executed(c, iw), rd, ResultR(op, c[rs], c[rt], sa))
<1>. DEFINE w == [iw EXCEPT !.op = RSPDecodeInstruction(iw)]
            v == ScalarAlu(w, c[rs], c[rt])
<1>1. RSPDecodeInstruction(iw) = Handler(op)
  BY AssembledR
<1>2. /\ w.op = Handler(op) /\ w.rs = rs /\ w.rt = rt /\ w.rd = rd
      /\ w.sa = sa /\ w.imm = 0
  BY <1>1
<1>3. Handler(op) \notin DOMAIN Major
  BY DEF Handler, Major, NamesR
<1>4. Executed(c, iw) = [c EXCEPT ![rd] = v]
  BY <1>2, <1>3 DEF Executed
<1>5. 0 \in Imm
  BY Sizes DEF Imm, ImmSize
<1>6. c[rs] \in Register /\ c[rt] \in Register
  BY DEF File
<1>. HIDE DEF w
<1>7. v \in Register
  BY <1>2, <1>5, <1>6, ScalarAluTyped
<1>8. v = ResultR(op, c[rs], c[rt], sa)
  <2>. DEFINE x == c[rs]
              y == c[rt]
  <2>. HIDE DEF x, y
  <2>1. ScalarAlu(w, x, y) = ResultR(op, x, y, sa)
    <3>1. CASE op \in {"ADD", "ADDU", "SUB", "SUBU"}
      <4>1. /\ w.op = "ADD" => ScalarAlu(w, x, y) = Wrap(x + y)
            /\ w.op = "SUB" => ScalarAlu(w, x, y) = Wrap(x - y)
        BY Handlers
      <4>. QED BY <1>2, <3>1, <4>1 DEF Handler, ResultR
    <3>2. CASE op \in {"AND", "OR", "XOR", "NOR"}
      <4>1. /\ w.op = "AND" => ScalarAlu(w, x, y) = BitAnd(x, y)
            /\ w.op = "OR" => ScalarAlu(w, x, y) = BitOr(x, y)
            /\ w.op = "NOR" => ScalarAlu(w, x, y) = (Size - 1) - BitOr(x, y)
            /\ w.op = "XOR" => ScalarAlu(w, x, y) = BitXor(x, y)
        BY Handlers
      <4>. QED BY <1>2, <3>2, <4>1 DEF Handler, ResultR
    <3>3. CASE op \in {"SLLV", "SRLV", "SRA"}
      <4>1. /\ w.op = "SLLV" => ScalarAlu(w, x, y) = Wrap(y * Power[x % Bits])
            /\ w.op = "SRLV" => ScalarAlu(w, x, y) = y \div Power[x % Bits]
            /\ w.op = "SRA" => ScalarAlu(w, x, y) = Wrap(Signed(y) \div Power[w.sa])
        BY Handlers
      <4>. QED BY <1>2, <3>3, <4>1 DEF Handler, ResultR
    <3>4. CASE op \in {"SLT", "SLTU"}
      <4>1. /\ w.op = "SLT" =>
                 ScalarAlu(w, x, y) = IF Signed(x) < Signed(y) THEN 1 ELSE 0
            /\ w.op = "SLTU" => ScalarAlu(w, x, y) = IF x < y THEN 1 ELSE 0
        BY Handlers
      <4>. QED BY <1>2, <3>4, <4>1 DEF Handler, ResultR
    <3>. QED BY <3>1, <3>2, <3>3, <3>4 DEF NamesR
  <2>. QED BY <2>1 DEF x, y
<1>. HIDE DEF v
<1>. QED BY <1>4, <1>7, <1>8 DEF Sets, File

\* The instructions as the programs write them.
LEMMA RunsR ==
  ASSUME NEW c \in File, NEW op \in NamesR,
         NEW rd \in Number, NEW rs \in Number, NEW rt \in Number
  PROVE  Sets(c, Executed(c, R(op, rd, rs, rt)), rd, ResultR(op, c[rs], c[rt], 0))
BY RunsAny DEF R

\* Shifts by an amount in the word.
LEMMA RunsS ==
  ASSUME NEW c \in File, NEW op \in NamesR,
         NEW rd \in Number, NEW rt \in Number, NEW sa \in Nat
  PROVE  Sets(c, Executed(c, S(op, rd, rt, sa)), rd, ResultR(op, c[0], c[rt], sa))
<1>. DEFINE iw == S(op, rd, rt, sa)
<1>1. PICK rs \in Number : rs = 0
  BY Numbers
<1>2. iw = [op |-> 0, rs |-> rs, rt |-> rt, rd |-> rd, sa |-> sa,
            funct |-> Function[op], imm |-> 0]
  BY <1>1 DEF S, R
<1>. HIDE DEF iw
<1>3. Sets(c, Executed(c, iw), rd, ResultR(op, c[rs], c[rt], sa))
  BY <1>2, RunsAny
<1>. QED BY <1>1, <1>3 DEF iw

\* What an instruction with an immediate leaves.
LEMMA RunsI ==
  ASSUME NEW c \in File, NEW op \in NamesI,
         NEW rt \in Number, NEW rs \in Number, NEW imm \in Imm
  PROVE  Sets(c, Executed(c, I(op, rt, rs, imm)), rt, ResultI(op, c[rs], imm))
<1>. DEFINE iw == I(op, rt, rs, imm)
            w == [iw EXCEPT !.op = RSPDecodeInstruction(iw)]
            x == c[rs]
            y == c[rt]
            v == ScalarAlu(w, x, y)
<1>1. RSPDecodeInstruction(iw) = Handler(op)
  <2>1. iw.op = Major[op]
    BY DEF I
  <2>. HIDE DEF iw
  <2>. QED BY <2>1, AssembledI
<1>2. w.op = Handler(op) /\ w.rs = rs /\ w.rt = rt /\ w.sa = 0 /\ w.imm = imm
  BY <1>1 DEF I
<1>3. Handler(op) \in DOMAIN Major
  BY DEF Handler, Major, NamesI
<1>4. Executed(c, iw) = [c EXCEPT ![rt] = v]
  BY <1>2, <1>3 DEF Executed
<1>5. x \in Register /\ y \in Register
  BY DEF File
<1>. HIDE DEF w, iw, x, y
<1>6. v \in Register
  BY <1>2, <1>5, ScalarAluTyped
<1>7. v = ResultI(op, x, imm)
  <2>1. CASE op \in {"ADDI", "ADDIU"}
    <3>1. w.op = "ADDI" => ScalarAlu(w, x, y) = Wrap(x + SignedImm(w.imm))
      BY Handlers
    <3>. QED BY <1>2, <2>1, <3>1 DEF Handler, ResultI
  <2>2. CASE op \in {"ANDI", "ORI", "XORI"}
    <3>1. /\ w.op = "ANDI" => ScalarAlu(w, x, y) = BitAnd(x, w.imm)
          /\ w.op = "ORI" => ScalarAlu(w, x, y) = BitOr(x, w.imm)
          /\ w.op = "XORI" => ScalarAlu(w, x, y) = BitXor(x, w.imm)
      BY Handlers
    <3>. QED BY <1>2, <2>2, <3>1 DEF Handler, ResultI
  <2>3. CASE op \in {"SLTI", "SLTIU"}
    <3>1. /\ w.op = "SLTI" =>
               ScalarAlu(w, x, y) = IF Signed(x) < SignedImm(w.imm) THEN 1 ELSE 0
          /\ w.op = "SLTIU" =>
               ScalarAlu(w, x, y) = IF x < Wrap(SignedImm(w.imm)) THEN 1 ELSE 0
      BY Handlers
    <3>. QED BY <1>2, <2>3, <3>1 DEF Handler, ResultI
  <2>4. CASE op = "LUI"
    <3>1. w.op = "LUI" => ScalarAlu(w, x, y) = Wrap(w.imm * ImmSize)
      BY Handlers
    <3>. QED BY <1>2, <2>4, <3>1 DEF Handler, ResultI
  <2>. QED BY <2>1, <2>2, <2>3, <2>4 DEF NamesI
<1>. HIDE DEF v
<1>8. Sets(c, Executed(c, iw), rt, ResultI(op, x, imm))
  BY <1>4, <1>6, <1>7 DEF Sets, File
<1>. QED BY <1>8 DEF iw, x

(***************************************************************************)
(* The history of a program: the registers before each of its              *)
(* instructions.  That there is one is the invariant.                      *)
(***************************************************************************)
Loaded == [r \in 0 .. 9 |-> IF r \in 1 .. 4 THEN start[r] ELSE 0]

History(h, p, n) ==
  h[1] = Loaded /\ \A k \in 1 .. n - 1 : h[k + 1] = Executed(h[k], p[k])

Progress ==
  /\ start \in [1 .. 4 -> Register] /\ pos \in Nat \ {0}
  /\ \E h : History(h, prog, pos) /\ h[pos] = regs

\* The registers a program starts with.
LEMMA LoadedTypes ==
  ASSUME start \in [1 .. 4 -> Register]
  PROVE  /\ Loaded \in File /\ Loaded[0] = 0 /\ Loaded[1] = start[1]
         /\ Loaded[2] = start[2] /\ Loaded[3] = start[3] /\ Loaded[4] = start[4]
<1>1. 0 \in Register
  BY RegisterIs, Sizes
<1>. QED BY <1>1 DEF Loaded, File, Number

\* Init is a history of one state.
LEMMA ProgressInit == Init => Progress
<1>. SUFFICES ASSUME Init PROVE Progress
  OBVIOUS
<1>1. start \in [1 .. 4 -> Register] /\ pos = 1 /\ regs = Loaded
  BY InputsAssumption DEF Init, Loaded
<1>. DEFINE h == [k \in {1} |-> regs]
<1>2. h[1] = regs
  OBVIOUS
<1>3. History(h, prog, 1)
  BY <1>1, <1>2 DEF History
<1>. QED BY <1>1, <1>2, <1>3 DEF Progress

\* Every instruction that is executed is added to it.
LEMMA ProgressStep == Progress /\ [Next]_vars => Progress'
<1>. SUFFICES ASSUME Progress, [Next]_vars PROVE Progress'
  OBVIOUS
<1>1. start' = start /\ prog' = prog /\ pos \in Nat \ {0} /\ start \in [1 .. 4 -> Register]
  BY DEF Progress, Next, Step, Done, vars
<1>2. PICK h : History(h, prog, pos) /\ h[pos] = regs
  BY DEF Progress
<1>3. Loaded' = Loaded
  BY <1>1 DEF Loaded
<1>4. CASE Done \/ UNCHANGED vars
  <2>1. pos' = pos /\ regs' = regs
    BY <1>4 DEF Done, vars
  <2>2. History(h, prog, pos)'
    BY <1>1, <1>2, <1>3, <2>1 DEF History
  <2>. QED BY <1>1, <1>2, <2>1, <2>2 DEF Progress
<1>5. CASE Step
  <2>1. pos' = pos + 1 /\ regs' = Executed(regs, prog[pos])
    BY <1>5 DEF Step, Executed
  <2>2. PICK g : g[pos + 1] = regs' /\ \A k \in 1 .. pos : g[k] = h[k]
    <3>. DEFINE g == [k \in 1 .. pos + 1 |-> IF k = pos + 1 THEN regs' ELSE h[k]]
    <3>1. g[pos + 1] = regs' /\ \A k \in 1 .. pos : g[k] = h[k]
      BY <1>1
    <3>. QED BY <3>1
  <2>3. g[1] = Loaded
    BY <1>1, <1>2, <2>2 DEF History
  <2>4. ASSUME NEW k \in 1 .. pos PROVE g[k + 1] = Executed(g[k], prog[k])
    <3>1. CASE k = pos
      <4>1. g[pos] = regs
        BY <1>1, <1>2, <2>2
      <4>. QED BY <2>1, <2>2, <3>1, <4>1
    <3>2. CASE k < pos
      <4>1. k \in 1 .. pos - 1 /\ k + 1 \in 1 .. pos /\ k \in 1 .. pos
        BY <1>1, <3>2
      <4>. QED BY <1>2, <2>2, <4>1 DEF History
    <3>. QED BY <1>1, <3>1, <3>2
  <2>5. History(g, prog, pos + 1)
    <3>1. (pos + 1) - 1 = pos
      BY <1>1
    <3>. QED BY <2>3, <2>4, <3>1 DEF History
  <2>6. History(g, prog, pos)'
    BY <1>1, <1>3, <2>1, <2>5 DEF History
  <2>7. pos' \in Nat \ {0}
    BY <1>1, <2>1
  <2>. QED BY <1>1, <2>1, <2>2, <2>6, <2>7 DEF Progress
<1>. QED BY <1>4, <1>5 DEF Next

\* The invariant.
LEMMA ProgressHolds == Spec => []Progress
BY ProgressInit, ProgressStep, PTL DEF Spec

\* A program that has ended took the registers through a chain of instructions.
Chain(c, p) ==
  /\ c[1] = Loaded /\ c[Len(p) + 1] = regs
  /\ \A k \in 1 .. Len(p) : c[k + 1] = Executed(c[k], p[k])

\* There is such a chain.
LEMMA Finished ==
  ASSUME Progress, NEW p, After(p), Len(p) \in Nat
  PROVE  start \in [1 .. 4 -> Register] /\ \E c : Chain(c, p)
<1>1. start \in [1 .. 4 -> Register] /\ prog = p /\ pos = Len(p) + 1
  BY DEF Progress, After
<1>2. PICK h : History(h, p, Len(p) + 1) /\ h[Len(p) + 1] = regs
  BY <1>1 DEF Progress
<1>3. (Len(p) + 1) - 1 = Len(p)
  OBVIOUS
<1>4. Chain(h, p)
  BY <1>2, <1>3 DEF History, Chain
<1>. QED BY <1>1, <1>4

(***************************************************************************)
(* Arithmetic of twice the width.                                          *)
(***************************************************************************)

\* A carry or borrow e of the low half, added to the high half.
LEMMA TwoDigits ==
  ASSUME NEW low \in Register, NEW e \in Int, NEW u \in Int, NEW v \in Int,
         v = low + e * Size
  PROVE  low + Wrap(Wrap(u) + e) * Size = (v + u * Size) % Power[2 * Bits]
<1>. DEFINE f == Wrap(u)
            g == Wrap(f + e)
<1>1. Size \in Nat \ {0} /\ low \in 0 .. Size - 1 /\ f \in Int /\ g \in 0 .. Size - 1
  BY Sizes, RegisterIs
<1>2. PICK j \in Int : u = j * Size + f
  BY <1>1, Digits DEF Wrap, Size
<1>. HIDE DEF f
<1>3. PICK k \in Int : f + e = k * Size + g
  <2>. DEFINE fe == f + e
  <2>1. fe \in Int
    BY <1>1
  <2>. HIDE DEF fe
  <2>2. fe = (fe \div Size) * Size + (fe % Size) /\ fe \div Size \in Int
    BY <1>1, <2>1, Digits
  <2>. QED BY <2>2 DEF Wrap, Size, fe
<1>. HIDE DEF g
<1>. DEFINE N == Size * Size
            r == low + g * Size
<1>4. Power[2 * Bits] = N
  <2>1. 2 * Bits = Bits + Bits /\ Bits \in Nat
    BY Sizes
  <2>. QED BY <2>1, PowerAdd DEF Size
<1>5. v + u * Size = (j + k) * N + r
  BY <1>1, <1>2, <1>3
<1>6. N \in Nat \ {0} /\ r \in 0 .. N - 1
  <2>1. g * Size \in Nat /\ g * Size <= (Size - 1) * Size
    BY <1>1
  <2>. QED BY <1>1, <2>1
<1>. HIDE DEF N, r
<1>7. (v + u * Size) % N = r
  BY <1>1, <1>5, <1>6, DivMod
<1>. QED BY <1>4, <1>7 DEF r, g, f

\* The carry of an addition and the borrow of a subtraction.
LEMMA Carries ==
  ASSUME NEW x \in Register, NEW y \in Register
  PROVE  /\ x + y = Wrap(x + y) + (IF Wrap(x + y) < x THEN 1 ELSE 0) * Size
         /\ x - y = Wrap(x - y) - (IF x < y THEN 1 ELSE 0) * Size
<1>1. Size \in Nat \ {0} /\ x \in 0 .. Size - 1 /\ y \in 0 .. Size - 1
  BY Sizes, RegisterIs
<1>2. ASSUME NEW z \in Int, NEW d \in -1 .. 1, z - d * Size \in 0 .. Size - 1
      PROVE  Wrap(z) = z - d * Size
  <2>. DEFINE r == z - d * Size
  <2>1. z = d * Size + r /\ r \in 0 .. Size - 1 /\ d \in Int
    BY <1>1, <1>2
  <2>. HIDE DEF r
  <2>2. z % Size = r
    BY <1>1, <1>2, <2>1, DivMod
  <2>. QED BY <2>2 DEF r, Wrap, Size
<1>3. Wrap(x + y) = IF x + y < Size THEN x + y ELSE x + y - Size
  <2>1. CASE x + y < Size
    BY <1>1, <2>1, RegisterIs
  <2>2. CASE x + y >= Size
    BY <1>1, <1>2, <2>2
  <2>. QED BY <1>1, <2>1, <2>2
<1>4. Wrap(x - y) = IF x < y THEN x - y + Size ELSE x - y
  <2>1. CASE x >= y
    BY <1>1, <2>1, RegisterIs
  <2>2. CASE x < y
    BY <1>1, <1>2, <2>2
  <2>. QED BY <1>1, <2>1, <2>2
<1>. QED BY <1>1, <1>3, <1>4

\* For every width of the registers and every start: carries and borrows found
\* with SLTU make arithmetic of twice the width (RSPADD, RSPSUB, RSPSLTU).
THEOREM WideArithmeticProved == Spec => []WideArithmetic
<1>1. ASSUME Progress, After(WideAdd)
      PROVE  Wide(regs[5], regs[7])
               = (Wide(start[1], start[2]) + Wide(start[3], start[4])) % Power[2 * Bits]
  <2>. DEFINE p == WideAdd
  <2>1. /\ Len(p) = 4 /\ p[1] = R("ADDU", 5, 1, 3) /\ p[2] = R("SLTU", 6, 5, 1)
        /\ p[3] = R("ADD", 7, 2, 4) /\ p[4] = R("ADD", 7, 7, 6)
    BY DEF WideAdd
  <2>. HIDE DEF p
  <2>2. start \in [1 .. 4 -> Register] /\ \E c : Chain(c, p)
    BY <1>1, <2>1, Finished DEF p
  <2>3. PICK c : Chain(c, p)
    BY <2>2
  <2>. DEFINE a == start[1] b == start[2] x == start[3] y == start[4]
  <2>4. /\ Loaded \in File /\ Loaded[1] = a /\ Loaded[2] = b
        /\ Loaded[3] = x /\ Loaded[4] = y
        /\ a \in Register /\ b \in Register /\ x \in Register /\ y \in Register
    BY <2>2, LoadedTypes
  <2>5. /\ c[1] = Loaded /\ c[2] = Executed(c[1], R("ADDU", 5, 1, 3))
        /\ c[3] = Executed(c[2], R("SLTU", 6, 5, 1))
        /\ c[4] = Executed(c[3], R("ADD", 7, 2, 4))
        /\ regs = Executed(c[4], R("ADD", 7, 7, 6))
    BY <2>1, <2>3 DEF Chain
  <2>. DEFINE low == Wrap(a + x)
              e == IF low < a THEN 1 ELSE 0
  <2>. HIDE DEF a, b, x, y
  <2>6. Sets(Loaded, c[2], 5, low)
    <3>1. Sets(Loaded, c[2], 5, ResultR("ADDU", a, x, 0))
      BY <2>4, <2>5, RunsR, Numbers DEF NamesR
    <3>. QED BY <3>1 DEF ResultR, low
  <2>. HIDE DEF low
  <2>7. Sets(c[2], c[3], 6, e)
    <3>1. c[2] \in File /\ c[2][5] = low /\ c[2][1] = a
      BY <2>4, <2>6, Numbers DEF Sets
    <3>. QED BY <2>5, <3>1, RunsR, Numbers DEF ResultR, NamesR
  <2>. HIDE DEF e
  <2>8. Sets(c[3], c[4], 7, Wrap(b + y))
    <3>1. c[3] \in File /\ c[3][2] = b /\ c[3][4] = y
      BY <2>4, <2>6, <2>7, Numbers DEF Sets
    <3>. QED BY <2>5, <3>1, RunsR, Numbers DEF ResultR, NamesR
  <2>9. Sets(c[4], regs, 7, Wrap(Wrap(b + y) + e))
    <3>1. c[4] \in File /\ c[4][7] = Wrap(b + y) /\ c[4][6] = e
      BY <2>7, <2>8, Numbers DEF Sets
    <3>. QED BY <2>5, <3>1, RunsR, Numbers DEF ResultR, NamesR
  <2>10. regs[5] = low /\ regs[7] = Wrap(Wrap(b + y) + e)
    BY <2>6, <2>7, <2>8, <2>9, Numbers DEF Sets
  <2>11. /\ a \in Int /\ b \in Int /\ x \in Int /\ y \in Int /\ Size \in Int
         /\ low \in Register /\ e \in Int
    BY <2>4, RegisterIs, Sizes DEF low, e
  <2>12. a + x = low + e * Size
    BY <2>4, Carries DEF low, e
  <2>13. low + Wrap(Wrap(b + y) + e) * Size = ((a + x) + (b + y) * Size) % Power[2 * Bits]
    BY <2>11, <2>12, TwoDigits
  <2>14. (a + x) + (b + y) * Size = (a + b * Size) + (x + y * Size)
    BY <2>11
  <2>. QED BY <2>10, <2>13, <2>14 DEF Wide, Size, a, b, x, y
<1>2. ASSUME Progress, After(WideSub)
      PROVE  Wide(regs[5], regs[7])
               = (Wide(start[1], start[2]) - Wide(start[3], start[4])) % Power[2 * Bits]
  <2>. DEFINE p == WideSub
  <2>1. /\ Len(p) = 4 /\ p[1] = R("SLTU", 6, 1, 3) /\ p[2] = R("SUBU", 5, 1, 3)
        /\ p[3] = R("SUB", 7, 2, 4) /\ p[4] = R("SUB", 7, 7, 6)
    BY DEF WideSub
  <2>. HIDE DEF p
  <2>2. start \in [1 .. 4 -> Register] /\ \E c : Chain(c, p)
    BY <1>2, <2>1, Finished DEF p
  <2>3. PICK c : Chain(c, p)
    BY <2>2
  <2>. DEFINE a == start[1] b == start[2] x == start[3] y == start[4]
  <2>4. /\ Loaded \in File /\ Loaded[1] = a /\ Loaded[2] = b
        /\ Loaded[3] = x /\ Loaded[4] = y
        /\ a \in Register /\ b \in Register /\ x \in Register /\ y \in Register
    BY <2>2, LoadedTypes
  <2>5. /\ c[1] = Loaded /\ c[2] = Executed(c[1], R("SLTU", 6, 1, 3))
        /\ c[3] = Executed(c[2], R("SUBU", 5, 1, 3))
        /\ c[4] = Executed(c[3], R("SUB", 7, 2, 4))
        /\ regs = Executed(c[4], R("SUB", 7, 7, 6))
    BY <2>1, <2>3 DEF Chain
  <2>. DEFINE low == Wrap(a - x)
              e == IF a < x THEN 1 ELSE 0
  <2>. HIDE DEF a, b, x, y
  <2>6. Sets(Loaded, c[2], 6, e)
    BY <2>4, <2>5, RunsR, Numbers DEF ResultR, NamesR
  <2>. HIDE DEF e
  <2>7. Sets(c[2], c[3], 5, low)
    <3>1. c[2] \in File /\ c[2][1] = a /\ c[2][3] = x
      BY <2>4, <2>6, Numbers DEF Sets
    <3>. QED BY <2>5, <3>1, RunsR, Numbers DEF ResultR, NamesR
  <2>. HIDE DEF low
  <2>8. Sets(c[3], c[4], 7, Wrap(b - y))
    <3>1. c[3] \in File /\ c[3][2] = b /\ c[3][4] = y
      BY <2>4, <2>6, <2>7, Numbers DEF Sets
    <3>. QED BY <2>5, <3>1, RunsR, Numbers DEF ResultR, NamesR
  <2>9. Sets(c[4], regs, 7, Wrap(Wrap(b - y) - e))
    <3>1. c[4] \in File /\ c[4][7] = Wrap(b - y) /\ c[4][6] = e
      BY <2>6, <2>7, <2>8, Numbers DEF Sets
    <3>. QED BY <2>5, <3>1, RunsR, Numbers DEF ResultR, NamesR
  <2>10. regs[5] = low /\ regs[7] = Wrap(Wrap(b - y) - e)
    BY <2>7, <2>8, <2>9, Numbers DEF Sets
  <2>11. /\ a \in Int /\ b \in Int /\ x \in Int /\ y \in Int /\ Size \in Int
         /\ low \in Register /\ e \in Int /\ -e \in Int
    BY <2>4, RegisterIs, Sizes DEF low, e
  <2>12. a - x = low + (-e) * Size
    <3>1. a - x = low - e * Size
      BY <2>4, Carries DEF low, e
    <3>2. low \in Int
      BY <2>11, RegisterIs
    <3>. QED BY <2>11, <3>1, <3>2
  <2>13. low + Wrap(Wrap(b - y) + (-e)) * Size
           = ((a - x) + (b - y) * Size) % Power[2 * Bits]
    BY <2>11, <2>12, TwoDigits
  <2>14. (a - x) + (b - y) * Size = (a + b * Size) - (x + y * Size)
    BY <2>11
  <2>15. Wrap(b - y) + (-e) = Wrap(b - y) - e
    <3>1. Wrap(b - y) \in Int
      BY <2>11, RegisterIs
    <3>. QED BY <2>11, <3>1
  <2>. QED BY <2>10, <2>13, <2>14, <2>15 DEF Wide, Size, a, b, x, y
<1>3. Progress => WideArithmetic
  BY <1>1, <1>2 DEF WideArithmetic
<1>. QED BY <1>3, ProgressHolds, PTL

(***************************************************************************)
(* Shifts.                                                                 *)
(***************************************************************************)

\* The width divides the range of a register: the amount of a shift is that of
\* the negated amount, turned round.
LEMMA Opposite ==
  ASSUME NEW x \in Register
  PROVE  /\ x % Bits \in 0 .. Bits - 1
         /\ Wrap(0 - x) % Bits = IF x % Bits = 0 THEN 0 ELSE Bits - (x % Bits)
<1>. DEFINE n == x % Bits
            q == x \div Bits
            z == Wrap(0 - x)
<1>1. Bits \in Nat \ {0} /\ Size \in Nat \ {0} /\ x \in Int
  BY Sizes, RegisterIs
<1>2. PICK M \in Nat : Size = M * Bits
  <2>1. PICK k \in 0 .. Bits : Bits = Power[k]
    BY WidthAssumption
  <2>2. k \in Nat /\ k <= Bits /\ Bits \in Nat
    BY <1>1
  <2>3. Size = Power[Bits - k] * Power[k] /\ Power[Bits - k] \in Nat
    BY <2>2, PowerSplit DEF Size
  <2>. QED BY <2>1, <2>3
<1>3. n \in 0 .. Bits - 1 /\ q \in Int /\ x = q * Bits + n
  BY <1>1, Digits
<1>4. PICK j \in Int : 0 - x = j * Size + z
  <2>1. 0 - x \in Int
    BY <1>1
  <2>. QED BY <1>1, <2>1, Digits DEF Wrap, Size
<1>5. z \in Int
  <2>1. 0 - x \in Int
    BY <1>1
  <2>. QED BY <2>1, RegisterIs
<1>. HIDE DEF z, n, q
<1>6. z = (-q - j * M) * Bits - n
  <2>1. j * (M * Bits) = (j * M) * Bits /\ j * M \in Int
    BY <1>1
  <2>2. (-q - j * M) * Bits = -(q * Bits) - (j * M) * Bits
    BY <1>1, <1>3, <2>1
  <2>. QED BY <1>1, <1>2, <1>3, <1>4, <1>5, <2>1, <2>2
<1>. DEFINE m == -q - j * M
<1>7. m \in Int /\ m - 1 \in Int
  BY <1>3
<1>8. CASE n = 0
  <2>1. z = m * Bits + 0 /\ 0 \in 0 .. Bits - 1
    BY <1>1, <1>6, <1>7, <1>8
  <2>. HIDE DEF m
  <2>2. z % Bits = 0
    BY <1>1, <1>5, <1>7, <2>1, DivMod
  <2>. QED BY <1>3, <1>8, <2>2 DEF n, z
<1>9. CASE n # 0
  <2>. HIDE DEF m
  <2>1. z = m * Bits - n
    BY <1>6 DEF m
  <2>2. z = (m - 1) * Bits + (Bits - n) /\ Bits - n \in 0 .. Bits - 1
    BY <1>1, <1>3, <1>7, <1>9, <2>1
  <2>3. z % Bits = Bits - n
    BY <1>1, <1>5, <1>7, <2>2, DivMod
  <2>. QED BY <1>3, <1>9, <2>3 DEF n, z
<1>. QED BY <1>8, <1>9

\* Two shifts of one number have no bit in common if their amounts add up to
\* the width.
LEMMA Turned ==
  ASSUME NEW x \in Register, NEW n \in 1 .. Bits - 1
  PROVE  /\ x \div Power[Bits - n] \in Register
         /\ BitOr(Wrap(x * Power[n]), x \div Power[Bits - n])
              = Wrap(x * Power[n]) + x \div Power[Bits - n]
<1>. DEFINE P == Power[n]
            Q == Power[Bits - n]
            t == x \div Q
            r == x % Q
<1>1. /\ n \in Nat /\ Bits \in Nat /\ n <= Bits /\ Size \in Nat \ {0}
      /\ x \in 0 .. Size - 1
  BY Sizes, RegisterIs
<1>2. P \in Nat \ {0} /\ Q \in Nat \ {0} /\ Size = Q * P
  BY <1>1, PowerSplit DEF Size
<1>. HIDE DEF P, Q
<1>3. t \in Int /\ r \in 0 .. Q - 1 /\ x = t * Q + r
  BY <1>1, <1>2, Digits
<1>. HIDE DEF t, r
<1>4. t \in 0 .. P - 1
  <2>1. \A m \in Int : m < 0 => m * Q <= -Q
    BY <1>2
  <2>2. \A m \in Int : m >= P => m * Q >= Q * P
    BY <1>2
  <2>3. t * Q <= Q * P - 1 /\ t * Q > -Q
    <3>1. t * Q = x - r
      BY <1>1, <1>2, <1>3
    <3>. QED BY <1>1, <1>2, <1>3, <3>1
  <2>. QED BY <1>2, <1>3, <2>1, <2>2, <2>3
<1>5. r * P \in 0 .. Size - 1 /\ P <= Size
  <2>1. r * P <= (Q - 1) * P /\ r * P >= 0 /\ P <= Q * P
    BY <1>2, <1>3
  <2>2. (Q - 1) * P = Q * P - P
    BY <1>2
  <2>3. r * P \in Int /\ P \in Int /\ P > 0 /\ Size \in Int /\ Q * P = Size
    BY <1>1, <1>2, <1>3
  <2>. QED BY <2>1, <2>2, <2>3
<1>6. Wrap(x * P) = r * P
  <2>. DEFINE y == x * P
              s == r * P
  <2>1. x * P = t * (Q * P) + r * P
    BY <1>2, <1>3
  <2>2. y = t * Size + s /\ s \in 0 .. Size - 1 /\ y \in Int
    BY <1>1, <1>2, <1>5, <2>1
  <2>. HIDE DEF y, s
  <2>3. y % Size = s
    BY <1>1, <1>3, <2>2, DivMod
  <2>. QED BY <2>3 DEF y, s, Wrap, Size
<1>7. And[Bits][r * Power[n]][t] = 0
  <2>1. r * Power[n] \in Word(Bits) /\ t \in Word(n) /\ r \in Nat
    BY <1>2, <1>3, <1>4, <1>5 DEF Word, P, Size
  <2>. QED BY <1>1, <2>1, AndShifted
<1>8. BitOr(r * P, t) = r * P + t
  <2>. DEFINE s == r * P
  <2>1. s \in Int /\ t \in Int /\ BitAnd(s, t) = 0
    BY <1>3, <1>5, <1>7 DEF BitAnd, P
  <2>. HIDE DEF s
  <2>2. BitOr(s, t) = s + t
    BY <2>1 DEF BitOr
  <2>. QED BY <2>2 DEF s
<1>9. t \in Register
  <2>1. P \in Int /\ P <= Size
    BY <1>2, <1>5
  <2>2. t \in 0 .. Size - 1
    BY <1>1, <1>4, <2>1
  <2>. QED BY <2>2, RegisterIs
<1>. QED BY <1>6, <1>8, <1>9 DEF P, Q, t

\* A shift to the right by all bits but one repeats the sign.
LEMMA SignRepeated ==
  ASSUME NEW x \in Register
  PROVE  Wrap(Signed(x) \div Power[Bits - 1]) = IF x < Top THEN 0 ELSE Size - 1
<1>1. Top \in Nat \ {0} /\ Size = 2 * Top /\ x \in 0 .. Size - 1 /\ Size \in Nat \ {0}
  BY Sizes, RegisterIs
<1>. DEFINE z == Signed(x)
<1>2. z = IF x < Top THEN x ELSE x - Size
  BY RegisterIs
<1>. HIDE DEF z
<1>3. CASE x < Top
  <2>1. z \in Int /\ z = 0 * Top + x /\ x \in 0 .. Top - 1 /\ 0 \in Int
    BY <1>1, <1>2, <1>3
  <2>2. z \div Top = 0
    BY <1>1, <2>1, DivMod
  <2>3. Wrap(0) = 0
    BY <1>1, RegisterIs
  <2>. QED BY <1>3, <2>2, <2>3 DEF z, Top
<1>4. CASE x >= Top
  <2>1. z \in Int /\ z = (-1) * Top + (x - Top) /\ x - Top \in 0 .. Top - 1 /\ -1 \in Int
    BY <1>1, <1>2, <1>4
  <2>2. z \div Top = -1
    BY <1>1, <2>1, DivMod
  <2>3. -1 = (-1) * Size + (Size - 1) /\ Size - 1 \in 0 .. Size - 1
    BY <1>1
  <2>4. (-1) % Size = Size - 1
    BY <1>1, <2>1, <2>3, DivMod
  <2>. QED BY <1>1, <1>4, <2>2, <2>4 DEF z, Top, Wrap, Size
<1>. QED BY <1>1, <1>3, <1>4

\* The absolute value: a number and its sign, exclusively disjoined, less the
\* sign.
LEMMA Negated ==
  ASSUME NEW x \in Register
  PROVE  LET m == IF x < Top THEN 0 ELSE Size - 1
             n == Signed(x) IN
         Signed(Wrap(BitXor(x, m) - m)) = IF n < 0 /\ n # -Top THEN -n ELSE n
<1>. DEFINE m == IF x < Top THEN 0 ELSE Size - 1
            n == Signed(x)
<1>1. Top \in Nat \ {0} /\ Size = 2 * Top /\ x \in 0 .. Size - 1 /\ Size \in Nat \ {0}
  BY Sizes, RegisterIs
<1>2. n = IF x < Top THEN x ELSE x - Size
  BY RegisterIs
<1>3. 0 \in Register
  BY <1>1, RegisterIs
<1>4. CASE x < Top
  <2>1. BitAnd(x, 0) = 0
    BY <1>3, Logical2
  <2>2. BitXor(x, m) = x
    BY <1>1, <1>4, <2>1 DEF BitXor
  <2>3. m = 0 /\ Wrap(x) = x /\ n = x
    BY <1>2, <1>4, RegisterIs
  <2>. HIDE DEF m
  <2>4. BitXor(x, m) - m = x
    BY <1>1, <2>2, <2>3
  <2>. QED BY <1>1, <2>3, <2>4 DEF m
<1>5. CASE x >= Top
  <2>1. m = Size - 1 /\ m = (Size - 1) - 0 /\ m \in Register
    BY <1>1, <1>5, RegisterIs
  <2>2. BitAnd(x, m) = x
    <3>1. BitAnd((Size - 1) - 0, x) = x - BitAnd(0, x) /\ BitAnd(0, x) = 0
      BY <1>3, Logical2
    <3>2. BitAnd(m, x) = x
      BY <1>1, <2>1, <3>1
    <3>. QED BY <2>1, <3>2, Logical2
  <2>. HIDE DEF m
  <2>3. BitXor(x, m) - m = -x
    BY <1>1, <2>1, <2>2 DEF BitXor
  <2>4. -x = (-1) * Size + (Size - x) /\ Size - x \in 0 .. Size - 1
    BY <1>1, <1>5
  <2>5. (-x) % Size = Size - x
    BY <1>1, <2>4, DivMod
  <2>6. Wrap(BitXor(x, m) - m) = Size - x
    BY <2>3, <2>5 DEF Wrap, Size
  <2>7. Size - x \in Register
    BY <1>1, <2>4, RegisterIs
  <2>8. Signed(Size - x) = IF Size - x < Top THEN Size - x ELSE Size - x - Size
    BY <2>7, RegisterIs
  <2>. HIDE DEF n
  <2>. QED BY <1>1, <1>2, <1>5, <2>6, <2>8 DEF m, n
<1>. QED BY <1>1, <1>4, <1>5

\* For every width of the registers and every start: the rotation out of two
\* shifts, for every amount, and the absolute value without a branch (RSPSLLV,
\* RSPSRLV, RSPSRA).
THEOREM ShiftsAsExpectedProved == Spec => []ShiftsAsExpected
<1>1. ASSUME Progress, After(Rotate)
      PROVE  regs[5] = Wrap(start[1] * Power[start[2] % Bits])
                         + start[1] \div Power[Bits - (start[2] % Bits)]
  <2>. DEFINE p == Rotate
  <2>1. /\ Len(p) = 4 /\ p[1] = R("SUB", 6, 0, 2) /\ p[2] = R("SLLV", 5, 2, 1)
        /\ p[3] = R("SRLV", 6, 6, 1) /\ p[4] = R("OR", 5, 5, 6)
    BY DEF Rotate
  <2>. HIDE DEF p
  <2>2. start \in [1 .. 4 -> Register] /\ \E c : Chain(c, p)
    BY <1>1, <2>1, Finished DEF p
  <2>3. PICK c : Chain(c, p)
    BY <2>2
  <2>. DEFINE a == start[1] s == start[2]
  <2>4. /\ Loaded \in File /\ Loaded[0] = 0 /\ Loaded[1] = a /\ Loaded[2] = s
        /\ a \in Register /\ s \in Register
    BY <2>2, LoadedTypes
  <2>5. /\ c[1] = Loaded /\ c[2] = Executed(c[1], R("SUB", 6, 0, 2))
        /\ c[3] = Executed(c[2], R("SLLV", 5, 2, 1))
        /\ c[4] = Executed(c[3], R("SRLV", 6, 6, 1))
        /\ regs = Executed(c[4], R("OR", 5, 5, 6))
    BY <2>1, <2>3 DEF Chain
  <2>. DEFINE m == Wrap(0 - s)
              left == Wrap(a * Power[s % Bits])
              right == a \div Power[m % Bits]
  <2>. HIDE DEF a, s
  <2>6. Sets(Loaded, c[2], 6, m)
    BY <2>4, <2>5, RunsR, Numbers DEF ResultR, NamesR
  <2>. HIDE DEF m
  <2>7. Sets(c[2], c[3], 5, left)
    <3>1. c[2] \in File /\ c[2][2] = s /\ c[2][1] = a
      BY <2>4, <2>6, Numbers DEF Sets
    <3>. QED BY <2>5, <3>1, RunsR, Numbers DEF ResultR, NamesR
  <2>. HIDE DEF left
  <2>8. Sets(c[3], c[4], 6, right)
    <3>1. c[3] \in File /\ c[3][6] = m /\ c[3][1] = a
      BY <2>4, <2>6, <2>7, Numbers DEF Sets
    <3>. QED BY <2>5, <3>1, RunsR, Numbers DEF ResultR, NamesR
  <2>. HIDE DEF right
  <2>9. Sets(c[4], regs, 5, BitOr(left, right))
    <3>1. c[4] \in File /\ c[4][5] = left /\ c[4][6] = right
      BY <2>7, <2>8, Numbers DEF Sets
    <3>. QED BY <2>5, <3>1, RunsR, Numbers DEF ResultR, NamesR
  <2>10. regs[5] = BitOr(left, right)
    BY <2>9 DEF Sets
  <2>. DEFINE n == s % Bits
  <2>11. n \in 0 .. Bits - 1 /\ m % Bits = IF n = 0 THEN 0 ELSE Bits - n
    BY <2>4, Opposite DEF m
  <2>12. Bits \in Nat \ {0} /\ Size \in Nat \ {0} /\ a \in 0 .. Size - 1
    BY <2>4, Sizes, RegisterIs
  <2>. HIDE DEF n
  <2>13. BitOr(left, right) = Wrap(a * Power[n]) + a \div Power[Bits - n]
    <3>1. CASE n = 0
      <4>1. Power[n] = 1 /\ Power[m % Bits] = 1 /\ Bits - n = Bits
        BY <2>11, <2>12, <3>1, PowerSteps
      <4>2. left = a /\ right = a /\ Wrap(a * Power[n]) = a
        <5>1. a * 1 = a /\ a \div 1 = a /\ Wrap(a) = a
          BY <2>4, <2>12, RegisterIs
        <5>. QED BY <4>1, <5>1 DEF left, right, n
      <4>3. a \div Power[Bits - n] = 0
        <5>1. a = 0 * Size + a /\ a \in Int /\ 0 \in Int
          BY <2>12
        <5>2. a \div Size = 0
          BY <2>12, <5>1, DivMod
        <5>. QED BY <4>1, <5>2 DEF Size
      <4>4. BitOr(a, a) = a
        <5>1. BitAnd(a, a) = a
          BY <2>4, Logical2
        <5>. QED BY <2>12, <5>1 DEF BitOr
      <4>. QED BY <2>12, <4>2, <4>3, <4>4
    <3>2. CASE n # 0
      <4>1. n \in 1 .. Bits - 1 /\ m % Bits = Bits - n
        BY <2>11, <2>12, <3>2
      <4>2. left = Wrap(a * Power[n]) /\ right = a \div Power[Bits - n]
        BY <4>1 DEF left, right, n
      <4>. QED BY <2>4, <4>1, <4>2, Turned
    <3>. QED BY <3>1, <3>2
  <2>. QED BY <2>10, <2>13 DEF n, a, s
<1>2. ASSUME Progress, After(Absolute)
      PROVE  LET n == Signed(start[1]) IN
             Signed(regs[5]) = IF n < 0 /\ n # -(Power[Bits - 1]) THEN -n ELSE n
  <2>. DEFINE p == Absolute
              t == Bits - 1
  <2>1. /\ Len(p) = 3 /\ p[1] = S("SRA", 6, 1, t) /\ p[2] = R("XOR", 5, 1, 6)
        /\ p[3] = R("SUB", 5, 5, 6)
    BY DEF Absolute
  <2>. HIDE DEF p
  <2>2. start \in [1 .. 4 -> Register] /\ \E c : Chain(c, p)
    BY <1>2, <2>1, Finished DEF p
  <2>3. PICK c : Chain(c, p)
    BY <2>2
  <2>. DEFINE a == start[1]
              m == Wrap(Signed(a) \div Power[t])
  <2>4. Loaded \in File /\ Loaded[1] = a /\ a \in Register /\ t \in Nat
    BY <2>2, LoadedTypes, Sizes
  <2>5. /\ c[1] = Loaded /\ c[2] = Executed(c[1], S("SRA", 6, 1, t))
        /\ c[3] = Executed(c[2], R("XOR", 5, 1, 6))
        /\ regs = Executed(c[3], R("SUB", 5, 5, 6))
    BY <2>1, <2>3 DEF Chain
  <2>. HIDE DEF a, t
  <2>6. Sets(Loaded, c[2], 6, m)
    <3>1. Sets(Loaded, c[2], 6, ResultR("SRA", Loaded[0], a, t))
      BY <2>4, <2>5, RunsS, Numbers DEF NamesR
    <3>. QED BY <3>1 DEF ResultR
  <2>7. m = IF a < Top THEN 0 ELSE Size - 1
    BY <2>4, SignRepeated DEF t
  <2>. HIDE DEF m
  <2>8. Sets(c[2], c[3], 5, BitXor(a, m))
    <3>1. c[2] \in File /\ c[2][1] = a /\ c[2][6] = m
      BY <2>4, <2>6, Numbers DEF Sets
    <3>. QED BY <2>5, <3>1, RunsR, Numbers DEF ResultR, NamesR
  <2>9. Sets(c[3], regs, 5, Wrap(BitXor(a, m) - m))
    <3>1. c[3] \in File /\ c[3][5] = BitXor(a, m) /\ c[3][6] = m
      BY <2>6, <2>8, Numbers DEF Sets
    <3>. QED BY <2>5, <3>1, RunsR, Numbers DEF ResultR, NamesR
  <2>10. regs[5] = Wrap(BitXor(a, m) - m)
    BY <2>9 DEF Sets
  <2>11. Signed(Wrap(BitXor(a, m) - m))
           = IF Signed(a) < 0 /\ Signed(a) # -Top THEN -Signed(a) ELSE Signed(a)
    BY <2>4, <2>7, Negated
  <2>. QED BY <2>10, <2>11 DEF a, Top
<1>3. Progress => ShiftsAsExpected
  BY <1>1, <1>2 DEF ShiftsAsExpected
<1>. QED BY <1>3, ProgressHolds, PTL

(***************************************************************************)
(* Immediates.                                                             *)
(***************************************************************************)

\* A constant in its two forms: ORI puts the low half beside the high one;
\* ADDIU takes a negative low half from a high half that is one larger.
LEMMA TwoForms ==
  ASSUME NEW h \in Imm, NEW l \in Imm
  PROVE  LET g == (h + (IF l < ImmTop THEN 0 ELSE 1)) % ImmSize IN
         /\ g \in Imm
         /\ BitOr(Wrap(h * ImmSize), l) = h * ImmSize + l
         /\ Wrap(Wrap(g * ImmSize) + SignedImm(l)) = h * ImmSize + l
<1>. DEFINE g == (h + (IF l < ImmTop THEN 0 ELSE 1)) % ImmSize
            M == ImmSize
            H == h * M
<1>1. /\ M \in Nat \ {0} /\ Size = M * M /\ M = 2 * ImmTop /\ ImmTop \in Nat \ {0}
      /\ Size \in Nat \ {0} /\ ImmBits \in Nat /\ Bits \in Nat /\ ImmBits <= Bits
  BY Sizes
<1>2. h \in 0 .. M - 1 /\ l \in 0 .. M - 1
  BY ImmIs
<1>3. SignedImm(l) = IF l < ImmTop THEN l ELSE l - M
  BY ImmIs
<1>4. ASSUME NEW k \in 0 .. M - 1
      PROVE  k * M \in 0 .. Size - M /\ Wrap(k * M) = k * M
  <2>1. k * M <= (M - 1) * M /\ k * M >= 0
    BY <1>1, <1>4
  <2>2. (M - 1) * M = Size - M
    BY <1>1
  <2>3. k * M \in 0 .. Size - M
    BY <1>1, <1>4, <2>1, <2>2
  <2>4. k * M \in Register
    BY <1>1, <2>3, RegisterIs
  <2>. QED BY <2>3, <2>4, RegisterIs
<1>5. H \in 0 .. Size - M /\ Wrap(H) = H
  BY <1>2, <1>4
<1>6. BitOr(H, l) = H + l
  <2>1. And[Bits][h * Power[ImmBits]][l] = 0
    <3>1. h \in Nat /\ l \in Word(ImmBits) /\ h * Power[ImmBits] \in Word(Bits)
      BY <1>1, <1>2, <1>5 DEF Word, ImmSize, Size
    <3>. QED BY <1>1, <3>1, AndShifted
  <2>2. BitAnd(H, l) = 0 /\ H \in Int /\ l \in Int
    BY <1>1, <1>2, <1>5, <2>1 DEF BitAnd, ImmSize
  <2>. HIDE DEF H
  <2>. QED BY <2>2 DEF BitOr
<1>. HIDE DEF M
<1>7. g \in 0 .. M - 1
  <2>. DEFINE z == h + (IF l < ImmTop THEN 0 ELSE 1)
  <2>1. z \in Int
    BY <1>2, <1>1
  <2>. HIDE DEF z
  <2>2. z % M \in 0 .. M - 1
    BY <1>1, <2>1, Digits
  <2>. QED BY <2>2 DEF z, M
<1>8. Wrap(Wrap(g * M) + SignedImm(l)) = H + l
  <2>1. H + l \in Register /\ H + l \in Int
    <3>. HIDE DEF H
    <3>1. H + l \in 0 .. Size - 1
      BY <1>1, <1>2, <1>5
    <3>. QED BY <3>1, RegisterIs
  <2>2. CASE l < ImmTop
    <3>1. h % M = h
      <4>1. h = 0 * M + h /\ h \in Int /\ 0 \in Int
        BY <1>1, <1>2
      <4>. QED BY <1>1, <1>2, <4>1, DivMod
    <3>2. g = h
      BY <1>2, <2>2, <3>1 DEF M
    <3>. QED BY <1>3, <1>5, <2>1, <2>2, <3>2, RegisterIs
  <2>3. CASE l >= ImmTop /\ h + 1 < M
    <3>1. (h + 1) % M = h + 1
      <4>1. h + 1 = 0 * M + (h + 1) /\ h + 1 \in 0 .. M - 1 /\ h + 1 \in Int /\ 0 \in Int
        BY <1>1, <1>2, <2>3
      <4>. QED BY <1>1, <4>1, DivMod
    <3>2. g = h + 1
      BY <1>1, <1>2, <2>3, <3>1 DEF M
    <3>3. Wrap(g * M) = g * M
      BY <1>4, <1>7
    <3>4. g * M = H + M
      BY <1>1, <1>2, <3>2
    <3>5. Wrap(g * M) + SignedImm(l) = H + l
      <4>. HIDE DEF H
      <4>. QED BY <1>1, <1>2, <1>3, <1>5, <2>3, <3>3, <3>4
    <3>. QED BY <2>1, <3>5, RegisterIs
  <2>4. CASE l >= ImmTop /\ h + 1 = M
    <3>1. M % M = 0
      <4>1. M = 1 * M + 0 /\ 0 \in 0 .. M - 1 /\ 1 \in Int /\ M \in Int
        BY <1>1
      <4>. QED BY <1>1, <4>1, DivMod
    <3>2. g = 0
      BY <1>1, <1>2, <2>4, <3>1 DEF M
    <3>3. Wrap(g * M) = 0
      <4>1. g * M = 0
        BY <1>1, <3>2
      <4>2. g * M = Wrap(g * M)
        BY <1>4, <1>7
      <4>. QED BY <4>1, <4>2
    <3>4. H = Size - M
      BY <1>1, <1>2, <2>4
    <3>. DEFINE z == l - M
    <3>5. z = (-1) * Size + (H + l) /\ H + l \in 0 .. Size - 1 /\ z \in Int /\ -1 \in Int
      BY <1>1, <1>2, <2>1, <3>4, RegisterIs
    <3>. HIDE DEF H, z
    <3>6. z % Size = H + l
      BY <1>1, <3>5, DivMod
    <3>7. Wrap(g * M) + SignedImm(l) = z
      BY <1>1, <1>2, <1>3, <2>4, <3>3 DEF z
    <3>. QED BY <3>6, <3>7 DEF Wrap, Size
  <2>. QED BY <1>1, <1>2, <2>2, <2>3, <2>4
<1>9. g \in Imm
  BY <1>7 DEF Imm, M, ImmSize
<1>. QED BY <1>5, <1>6, <1>8, <1>9 DEF M

\* Exclusive or, made of the other logical operations.
LEMMA ExclusiveOr ==
  ASSUME NEW x \in Register, NEW y \in Register
  PROVE  LET ones == Size - 1
             a == BitAnd(x, y)
             n == ones - BitOr(x, y) IN
         /\ ones - BitOr(n, a) = BitXor(x, y)
         /\ Wrap(BitOr(x, y) - a) = BitXor(x, y)
<1>. DEFINE a == BitAnd(x, y)
            o == BitOr(x, y)
            ones == Size - 1
            n == ones - o
<1>1. /\ Size \in Nat \ {0} /\ a \in Register /\ o \in Register /\ BitAnd(o, a) = a
      /\ BitXor(x, y) \in Register
  BY Logical2, Sizes
<1>2. /\ x \in Int /\ y \in Int /\ a \in 0 .. Size - 1 /\ o \in 0 .. Size - 1
      /\ o = x + y - a /\ BitXor(x, y) = x + y - 2 * a
  BY <1>1, RegisterIs DEF BitOr, BitXor
<1>. HIDE DEF a, o
<1>3. BitAnd((Size - 1) - o, a) = a - BitAnd(o, a)
  BY <1>1, Logical2
<1>4. BitAnd(n, a) = 0 /\ n \in Int
  BY <1>1, <1>2, <1>3
<1>5. BitOr(n, a) = n + a
  <2>. HIDE DEF n
  <2>. QED BY <1>2, <1>4 DEF BitOr
<1>6. ones - BitOr(n, a) = o - a
  BY <1>1, <1>2, <1>5
<1>7. o - a = BitXor(x, y)
  BY <1>2
<1>8. Wrap(o - a) = BitXor(x, y)
  BY <1>1, <1>7, RegisterIs
<1>. QED BY <1>6, <1>7, <1>8 DEF a, o

\* For every width of the registers and every start: the two forms of every
\* constant, comparisons with every immediate and with the same constant in a
\* register, and the logical operations in both forms (RSPADDI, RSPSLTIU,
\* RSPANDI, RSPORI, RSPXORI, RSPLUI, RSPNOR).
THEOREM ImmediatesAgreeProved == Spec => []ImmediatesAgree
<1>1. ASSUME Progress, NEW h \in Imm, NEW l \in Imm, After(Constant(h, l))
      PROVE  regs[5] = h * Power[ImmBits] + l /\ regs[6] = regs[5]
  <2>. DEFINE p == Constant(h, l)
              g == (h + (IF l < Power[ImmBits - 1] THEN 0 ELSE 1)) % Power[ImmBits]
  <2>1. /\ Len(p) = 4 /\ p[1] = I("LUI", 5, 0, h) /\ p[2] = I("ORI", 5, 5, l)
        /\ p[3] = I("LUI", 6, 0, g) /\ p[4] = I("ADDIU", 6, 6, l)
    BY DEF Constant
  <2>2. /\ g \in Imm /\ BitOr(Wrap(h * ImmSize), l) = h * ImmSize + l
        /\ Wrap(Wrap(g * ImmSize) + SignedImm(l)) = h * ImmSize + l
    BY TwoForms DEF ImmSize, ImmTop
  <2>. HIDE DEF p, g
  <2>3. start \in [1 .. 4 -> Register] /\ \E c : Chain(c, p)
    BY <1>1, <2>1, Finished DEF p
  <2>4. PICK c : Chain(c, p)
    BY <2>3
  <2>5. Loaded \in File
    BY <2>3, LoadedTypes
  <2>6. /\ c[1] = Loaded /\ c[2] = Executed(c[1], I("LUI", 5, 0, h))
        /\ c[3] = Executed(c[2], I("ORI", 5, 5, l))
        /\ c[4] = Executed(c[3], I("LUI", 6, 0, g))
        /\ regs = Executed(c[4], I("ADDIU", 6, 6, l))
    BY <2>1, <2>4 DEF Chain
  <2>. DEFINE high == Wrap(h * ImmSize)
              more == Wrap(g * ImmSize)
  <2>7. Sets(Loaded, c[2], 5, high)
    BY <2>5, <2>6, RunsI, Numbers DEF ResultI, NamesI
  <2>. HIDE DEF high
  <2>8. Sets(c[2], c[3], 5, BitOr(high, l))
    <3>1. c[2] \in File /\ c[2][5] = high
      BY <2>7 DEF Sets
    <3>. QED BY <2>6, <3>1, RunsI, Numbers DEF ResultI, NamesI
  <2>9. Sets(c[3], c[4], 6, more)
    <3>1. c[3] \in File
      BY <2>8 DEF Sets
    <3>. QED BY <2>2, <2>6, <3>1, RunsI, Numbers DEF ResultI, NamesI
  <2>. HIDE DEF more
  <2>10. Sets(c[4], regs, 6, Wrap(more + SignedImm(l)))
    <3>1. c[4] \in File /\ c[4][6] = more
      BY <2>9 DEF Sets
    <3>. QED BY <2>6, <3>1, RunsI, Numbers DEF ResultI, NamesI
  <2>11. regs[5] = BitOr(high, l) /\ regs[6] = Wrap(more + SignedImm(l))
    BY <2>8, <2>9, <2>10, Numbers DEF Sets
  <2>. QED BY <2>2, <2>11 DEF high, more, ImmSize
<1>2. ASSUME Progress, NEW imm \in Imm, After(Compare(imm))
      PROVE  regs[5] = regs[6] /\ regs[7] = regs[8]
  <2>. DEFINE p == Compare(imm)
  <2>1. /\ Len(p) = 5 /\ p[1] = I("ADDI", 9, 0, imm) /\ p[2] = I("SLTIU", 5, 1, imm)
        /\ p[3] = R("SLTU", 6, 1, 9) /\ p[4] = I("SLTI", 7, 1, imm)
        /\ p[5] = R("SLT", 8, 1, 9)
    BY DEF Compare
  <2>. HIDE DEF p
  <2>2. start \in [1 .. 4 -> Register] /\ \E c : Chain(c, p)
    BY <1>2, <2>1, Finished DEF p
  <2>3. PICK c : Chain(c, p)
    BY <2>2
  <2>. DEFINE a == start[1]
              b == Wrap(SignedImm(imm))
              less == IF a < b THEN 1 ELSE 0
              lower == IF Signed(a) < SignedImm(imm) THEN 1 ELSE 0
  <2>4. Loaded \in File /\ Loaded[0] = 0 /\ Loaded[1] = a
    BY <2>2, LoadedTypes
  <2>5. /\ c[1] = Loaded /\ c[2] = Executed(c[1], I("ADDI", 9, 0, imm))
        /\ c[3] = Executed(c[2], I("SLTIU", 5, 1, imm))
        /\ c[4] = Executed(c[3], R("SLTU", 6, 1, 9))
        /\ c[5] = Executed(c[4], I("SLTI", 7, 1, imm))
        /\ regs = Executed(c[5], R("SLT", 8, 1, 9))
    BY <2>1, <2>3 DEF Chain
  <2>6. /\ SignedImm(imm) \in Int /\ 0 + SignedImm(imm) = SignedImm(imm)
        /\ SignedImm(imm) \in -Top .. Top - 1
    BY ImmIs, Sizes
  <2>7. Signed(b) = SignedImm(imm)
    BY <2>6, SignedBack
  <2>. HIDE DEF a
  <2>8. Sets(Loaded, c[2], 9, b)
    <3>1. Sets(Loaded, c[2], 9, ResultI("ADDI", 0, imm))
      BY <2>4, <2>5, RunsI, Numbers DEF NamesI
    <3>. QED BY <2>6, <3>1 DEF ResultI
  <2>9. Sets(c[2], c[3], 5, less)
    <3>1. c[2] \in File /\ c[2][1] = a
      BY <2>4, <2>8, Numbers DEF Sets
    <3>. QED BY <2>5, <3>1, RunsI, Numbers DEF ResultI, NamesI
  <2>. HIDE DEF b
  <2>10. Sets(c[3], c[4], 6, less)
    <3>1. c[3] \in File /\ c[3][1] = a /\ c[3][9] = b
      BY <2>4, <2>8, <2>9, Numbers DEF Sets
    <3>. QED BY <2>5, <3>1, RunsR, Numbers DEF ResultR, NamesR
  <2>. HIDE DEF less
  <2>11. Sets(c[4], c[5], 7, lower)
    <3>1. c[4] \in File /\ c[4][1] = a
      BY <2>4, <2>8, <2>9, <2>10, Numbers DEF Sets
    <3>. QED BY <2>5, <3>1, RunsI, Numbers DEF ResultI, NamesI
  <2>12. Sets(c[5], regs, 8, lower)
    <3>1. c[5] \in File /\ c[5][1] = a /\ c[5][9] = b
      BY <2>4, <2>8, <2>9, <2>10, <2>11, Numbers DEF Sets
    <3>2. Sets(c[5], regs, 8, ResultR("SLT", a, b, 0))
      BY <2>5, <3>1, RunsR, Numbers DEF NamesR
    <3>. QED BY <2>7, <3>2 DEF ResultR
  <2>. HIDE DEF lower
  <2>13. /\ regs[5] = less /\ regs[6] = less /\ regs[7] = lower /\ regs[8] = lower
    BY <2>9, <2>10, <2>11, <2>12, Numbers DEF Sets
  <2>. QED BY <2>13
<1>3. ASSUME Progress, NEW imm \in Imm, After(Logical(imm))
      PROVE  regs[5] = regs[8] /\ regs[6] = regs[9]
  <2>. DEFINE p == Logical(imm)
  <2>1. /\ Len(p) = 8 /\ p[1] = R("NOR", 6, 1, 2) /\ p[2] = R("AND", 7, 1, 2)
        /\ p[3] = R("NOR", 5, 6, 7) /\ p[4] = R("XOR", 8, 1, 2)
        /\ p[5] = I("ORI", 6, 1, imm) /\ p[6] = I("ANDI", 7, 1, imm)
        /\ p[7] = R("SUB", 6, 6, 7) /\ p[8] = I("XORI", 9, 1, imm)
    BY DEF Logical
  <2>. HIDE DEF p
  <2>2. start \in [1 .. 4 -> Register] /\ \E c : Chain(c, p)
    BY <1>3, <2>1, Finished DEF p
  <2>3. PICK c : Chain(c, p)
    BY <2>2
  <2>. DEFINE a == start[1] b == start[2]
              nor == (Size - 1) - BitOr(a, b)
              and == BitAnd(a, b)
              made == (Size - 1) - BitOr(nor, and)
              xor == BitXor(a, b)
              ori == BitOr(a, imm)
              andi == BitAnd(a, imm)
              xori == BitXor(a, imm)
  <2>4. /\ Loaded \in File /\ Loaded[1] = a /\ Loaded[2] = b
        /\ a \in Register /\ b \in Register /\ imm \in Register
    BY <2>2, LoadedTypes, ImmIs
  <2>5. /\ c[1] = Loaded /\ c[2] = Executed(c[1], R("NOR", 6, 1, 2))
        /\ c[3] = Executed(c[2], R("AND", 7, 1, 2))
        /\ c[4] = Executed(c[3], R("NOR", 5, 6, 7))
        /\ c[5] = Executed(c[4], R("XOR", 8, 1, 2))
        /\ c[6] = Executed(c[5], I("ORI", 6, 1, imm))
        /\ c[7] = Executed(c[6], I("ANDI", 7, 1, imm))
        /\ c[8] = Executed(c[7], R("SUB", 6, 6, 7))
        /\ regs = Executed(c[8], I("XORI", 9, 1, imm))
    BY <2>1, <2>3 DEF Chain
  <2>6. made = xor
    BY <2>4, ExclusiveOr
  <2>7. Wrap(ori - andi) = xori
    BY <2>4, ExclusiveOr
  <2>. HIDE DEF a, b
  <2>8. Sets(Loaded, c[2], 6, nor)
    BY <2>4, <2>5, RunsR, Numbers DEF ResultR, NamesR
  <2>. HIDE DEF nor
  <2>9. Sets(c[2], c[3], 7, and)
    <3>1. c[2] \in File /\ c[2][1] = a /\ c[2][2] = b
      BY <2>4, <2>8, Numbers DEF Sets
    <3>. QED BY <2>5, <3>1, RunsR, Numbers DEF ResultR, NamesR
  <2>. HIDE DEF and
  <2>10. Sets(c[3], c[4], 5, made)
    <3>1. c[3] \in File /\ c[3][6] = nor /\ c[3][7] = and
      BY <2>8, <2>9, Numbers DEF Sets
    <3>. QED BY <2>5, <3>1, RunsR, Numbers DEF ResultR, NamesR
  <2>. HIDE DEF made
  <2>11. Sets(c[4], c[5], 8, xor)
    <3>1. c[4] \in File /\ c[4][1] = a /\ c[4][2] = b
      BY <2>4, <2>8, <2>9, <2>10, Numbers DEF Sets
    <3>. QED BY <2>5, <3>1, RunsR, Numbers DEF ResultR, NamesR
  <2>. HIDE DEF xor
  <2>12. Sets(c[5], c[6], 6, ori)
    <3>1. c[5] \in File /\ c[5][1] = a
      BY <2>4, <2>8, <2>9, <2>10, <2>11, Numbers DEF Sets
    <3>. QED BY <2>5, <3>1, RunsI, Numbers DEF ResultI, NamesI
  <2>. HIDE DEF ori
  <2>13. c[5][1] = a /\ c[5][5] = made /\ c[5][8] = xor
    BY <2>4, <2>8, <2>9, <2>10, <2>11, Numbers DEF Sets
  <2>14. Sets(c[6], c[7], 7, andi)
    <3>1. c[6] \in File /\ c[6][1] = a
      BY <2>12, <2>13, Numbers DEF Sets
    <3>. QED BY <2>5, <3>1, RunsI, Numbers DEF ResultI, NamesI
  <2>. HIDE DEF andi
  <2>15. Sets(c[7], c[8], 6, xori)
    <3>1. c[7] \in File /\ c[7][6] = ori /\ c[7][7] = andi
      BY <2>12, <2>14, Numbers DEF Sets
    <3>2. Sets(c[7], c[8], 6, ResultR("SUB", ori, andi, 0))
      BY <2>5, <3>1, RunsR, Numbers DEF NamesR
    <3>. QED BY <2>7, <3>2 DEF ResultR
  <2>16. Sets(c[8], regs, 9, xori)
    <3>1. c[8] \in File /\ c[8][1] = a
      BY <2>12, <2>13, <2>14, <2>15, Numbers DEF Sets
    <3>. QED BY <2>5, <3>1, RunsI, Numbers DEF ResultI, NamesI
  <2>. HIDE DEF xori
  <2>17. regs[6] = xori /\ regs[9] = xori /\ regs[5] = made /\ regs[8] = xor
    BY <2>12, <2>13, <2>14, <2>15, <2>16, Numbers DEF Sets
  <2>. QED BY <2>6, <2>17
<1>4. Progress => ImmediatesAgree
  BY <1>1, <1>2, <1>3 DEF ImmediatesAgree
<1>. QED BY <1>4, ProgressHolds, PTL
=============================================================================
