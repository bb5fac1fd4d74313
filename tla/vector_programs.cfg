CONSTANTS
  NumVRegs = 14
  SliceBits = 4
  TableBits = 3
  Pairs <- MCPairs
  Quadruples <- MCQuadruples
  Samples <- MCSamples
  Operands <- MCOperands
SPECIFICATION Spec
INVARIANTS TypeOK WideArithmetic WideComparison WideProducts ScaledProducts FractionSums Clips CrimpsFromBelow Distances LogicAgrees ElementsMeet DividerHandsOver Roots
