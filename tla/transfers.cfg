CONSTANTS
  MemBytes = 16
  DramBytes = 32
  Users <- Two
  Requests <- FewRequests
  MayAbandon <- Rsp
  HostWrites <- OneHostWrite
SPECIFICATION FairSpec
INVARIANTS TypeOK OneHolder
PROPERTIES TransfersAreAtomic SemaphoreReturns
