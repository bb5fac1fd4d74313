CONSTANTS
  NumRegs = 3
  LinkReg = 2
  NumVRegs = 3
  WordSize = 8
  IMemWords = 3
  DMemCells = 2
  Words <- RestartWords
  Alu <- MCAlu
  Vec <- MCVec
  Programs <- AllPrograms
  HostStatusData = {5, 2}
  HostPCs <- Entries
  HostUsesSemaphore = FALSE
  HostDMemData <- NoData
  HostAwaitsBreak = TRUE
  HostIMemData <- OneReplacement
  DMemImages <- Distinct
SPECIFICATION Spec
INVARIANTS PCInIMem
PROPERTIES RefinesSequential
