SPECIFICATION PartsSpec
CONSTANTS
  c1 = c1
  c2 = c2
  c3 = c3
  o1 = o1
  o2 = o2
  shared = shared
  Callers <- MCCallers
  Objects = {o1, o2}
  Shared = shared
  ObjectOf <- MCObjectOf
  Size <- MCSize
  Cancellable = {c3}
  Closable = {o1}
  OptionLens = {0, 2, 3}
  NameLen = 1
  OptionBuf = 2
  DiscardBuf = 2
  MaxOptions = 2
  Daemons = {"d1", "d2", "d3"}
  Inodes = {1, 2, 3, 4}
  CleanExit = {"d1", "d2"}
  Waiters = {w1, w2}
  Savers = {auto, close}
  MaxChanges = 4
  Chunks = {0, 1}
  SavedChunks = {0, 1}
  Settled = 2
  HashesPerBlock = 2
  MaxUsed = 13
  MaxDamage = 1
  Sources = {1, 2, 3}
  Devices <- MCDevices
  Point <- MCPoint
  Short = {1}
  MinCount = 4
  Loud = {3}
  Runs = 3
  Commands = {"ls", "sh"}
  FilesOf <- MCFilesOf
  Extras = {"key"}
  MaxWrites = 2
SYMMETRY Interchangeable
INVARIANTS ReleaseNeverBlocks ConnectionLimit NegotiationInStep SharedOnlyAfterRemove NeverClosedTwice NoLostWakeup SavedInTime VerifyExact KeyPairMatches ResultTrue
PROPERTIES FileNeverOlder
CHECK_DEADLOCK FALSE
