CONSTANTS
  Bits = 4
  ImmBits = 2
  Inputs <- AllValues
SPECIFICATION Spec
INVARIANTS WideArithmetic ShiftsAsExpected ImmediatesAgree
