CONSTANTS
  NumRegs = 3
  LinkReg = 2
  NumVRegs = 3
  WordSize = 8
  IMemWords = 3
  DMemCells = 2
  Words <- UnitWords
  Alu <- MCAlu
  Vec <- MCVec
  Programs <- AllPrograms
  HostStatusData = {5, 2}
  HostPCs <- NoData
  HostUsesSemaphore = TRUE
  HostDMemData <- OneWrite
  HostAwaitsBreak = TRUE
  HostIMemData <- NoData
  DMemImages <- Distinct
SPECIFICATION FairSpec
INVARIANTS ExclusiveIssue BrokeMeansDone
PROPERTIES RefinesSequential SelfHaltDrains ProgramAdvances
