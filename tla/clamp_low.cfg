CONSTANTS
  NumVRegs = 14
  SliceBits = 4
  TableBits = 3
  Pairs <- MCPairs
  Quadruples <- MCQuadruples
  Samples <- MCSamples
  Operands <- MCOperands
SPECIFICATION Spec
INVARIANTS ClampsToOnes
