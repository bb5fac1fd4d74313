CONSTANTS
  DMemBytes = 128
  NumVRegs = 16
  StartMem <- MCMem
  StartVRegs <- MCVRegs
  Programs <- MCPrograms
SPECIFICATION Spec
INVARIANTS TypeOK UnalignedQuad MemoryRestored RegisterCopied MovesMatchMemory TransposesInPlace
PROPERTIES AccessStaysInside
