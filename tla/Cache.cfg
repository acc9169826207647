SPECIFICATION MCSpec
CONSTANTS
  r1 = r1
  Readers <- OneReader
  MaxParts = 1
  Total = 3
  ChunkSize = 2
  Requests <- TailRead
  RetryLimit = 0
  Faults = {"store", "scrub", "crash"}
  MaxChanges = 2
  Waiters <- MCWaiters
  Savers <- MCSavers
  Chunks <- MCChunks
INVARIANTS AvailabilityMapTrue
PROPERTIES ReadsFromObject
