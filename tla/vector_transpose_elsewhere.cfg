CONSTANTS
  DMemBytes = 128
  NumVRegs = 16
  StartMem <- MCMem
  StartVRegs <- MCVRegs
  Programs <- Elsewhere
SPECIFICATION Spec
INVARIANTS TransposesElsewhere
