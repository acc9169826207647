SPECIFICATION FairSpec
CONSTANTS
  k1 = k1
  k2 = k2
  Cookies <- TwoCookies
  Offered <- ReadAndAny
  LenOf <- Lengths
  BufferSize = 2
  IoErrorsThreshold = 1
INVARIANTS RepliesWhole
PROPERTIES CommandsAnswered ConnectionEnds
CHECK_DEADLOCK FALSE
