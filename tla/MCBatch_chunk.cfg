SPECIFICATION BatchSpec
CONSTANTS
  r1 = r1
  r2 = r2
  r3 = r3
  a = a
  b = b
  None = None
  KVSize = 11
  MaxRunning = 3
  MaxPrefillTokens = 20
  ChunkedPrefillSize = 4
  RetractDecodeSteps = 3
  PrefixAware = TRUE
  IsMixedChunk = FALSE
  ManyDecodeSteps = FALSE
  JumpForward = {}
  Requests = {r1, r2, r3}
  Prompt <- LongPrompts
  MaxNew <- LongLengths
  Tokens = {a, b}
  Sampled = {b}
INVARIANTS
  PrefillFits
CHECK_DEADLOCK FALSE
