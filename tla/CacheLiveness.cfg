SPECIFICATION MCFairSpec
CONSTANTS
  r1 = r1
  Readers <- OneReader
  MaxParts = 1
  Total = 1
  ChunkSize = 1
  Requests <- UnitRead
  RetryLimit = 0
  Faults = {"store", "timeout", "scrub", "power"}
  MaxChanges = 1
  Waiters <- MCWaiters
  Savers <- MCSavers
  Chunks <- MCChunks
PROPERTIES ReadReturns CloseEnds
