CONSTANTS
  NumRegs = 3
  LinkReg = 2
  NumVRegs = 3
  WordSize = 8
  IMemWords = 4
  DMemCells = 2
  Words <- DataOrBranchWords
  Alu <- MCAlu
  Vec <- MCVec
  Programs <- DataOrBranchPrograms
  HostStatusData = {1, 2}
  HostPCs <- NoData
  HostUsesSemaphore = FALSE
  HostDMemData <- NoData
  HostAwaitsBreak = TRUE
  HostIMemData <- NoData
  DMemImages <- Distinct
SPECIFICATION Spec
INVARIANTS TypeOK
PROPERTIES RefinesSequential OneBubble
