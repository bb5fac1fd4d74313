CONSTANTS
  NumRegs = 3
  LinkReg = 2
  NumVRegs = 3
  WordSize = 8
  IMemWords = 3
  DMemCells = 2
  Words <- LeftoverWords
  Alu <- MCAlu
  Vec <- MCVec
  Programs <- AllPrograms
  HostStatusData = {1, 2}
  HostPCs <- Entries
  HostUsesSemaphore = FALSE
  HostDMemData <- NoData
  HostAwaitsBreak = TRUE
  HostIMemData <- NoData
  DMemImages <- Distinct
SPECIFICATION Spec
PROPERTIES BubbleIsIdle
