SPECIFICATION WorkersSpec
CONSTANTS
  c1 = c1
  c2 = c2
  c3 = c3
  o1 = o1
  shared = shared
  Shared = shared
  Callers <- MCCallers
  Objects = {o1}
  ObjectOf <- OneObjectOf
  Size <- OneSize
  Cancellable = {}
  Closable = {}
  Hashed <- OneOrTwo
  Workers = {w1, w2}
  CopyChunk = 2
  Sizes = {0, 1, 4, 5}
PROPERTIES AcquireReturns OneChunkScrubbed CopyEnds
CHECK_DEADLOCK FALSE
