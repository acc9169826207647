SPECIFICATION MCSpec
CONSTANTS
  r1 = r1
  Readers <- OneReader
  MaxParts = 1
  Total = 3
  ChunkSize = 2
  Requests <- Straddling
  RetryLimit = 1
  Faults = {}
  MaxChanges = 4
  Waiters <- MCWaiters
  Savers <- MCSavers
  Chunks <- MCChunks
INVARIANTS ReadsReturnObject
