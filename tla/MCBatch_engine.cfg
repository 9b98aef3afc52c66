SPECIFICATION BatchSpec
CONSTANTS
  r1 = r1
  r2 = r2
  r3 = r3
  a = a
  b = b
  None = None
  KVSize = 12
  MaxRunning = 3
  MaxPrefillTokens = 8
  ChunkedPrefillSize = 3
  RetractDecodeSteps = 1
  PrefixAware = TRUE
  IsMixedChunk = FALSE
  ManyDecodeSteps = TRUE
  JumpForward = {r1}
  Requests = {r1, r2, r3}
  Prompt <- TightPrompts
  MaxNew <- TightLengths
  Tokens = {a, b}
  Sampled = {b}
INVARIANTS
  
  LocksCountUsers
  TreeIsRadix
  
  AdmittedFits
  CompletionLosesNothing
PROPERTIES
  
  CompletionEnds
CHECK_DEADLOCK FALSE
