SPECIFICATION ContactSpec
CONSTANTS
  a = a
  b = b
  c = c
  r = r
  Client = {a, b, c}
  MaxHits = 2
  WindowMs = 3
  MaxKeys = 2
  Second = 2
  Horizon = 6
  Call = {r}
  MaxRetries = 1
  Environment <- Environments
CHECK_DEADLOCK FALSE
SYMMETRY Symmetry
INVARIANTS
  AtMostMaxHitsPerWindow
  AnswerIsTrue
  CopiesNeedLostReplies
PROPERTIES
  ImplementsWindow
  RetryAfterIsEnough
