SPECIFICATION Spec
CONSTANTS
  k1 = k1
  i1 = i1
  i2 = i2
  i3 = i3
  x = x
  Key = {k1}
  NoKey = NoKey
  Invocation = {i1, i2, i3}
  KeyOf <- OneUnkeyed
  Id = {x}
  NoId = NoId
  CorrelationOf <- SharedCorrelation
  MaxAttempts = 2
  CompleteAttempts = 2
  TtlOutlivesInvocation = FALSE
CHECK_DEADLOCK FALSE
SYMMETRY KeyedSymmetry
INVARIANTS
  AckedMeansAccepted
  PermanentMeansNotSent
PROPERTIES
  FreshRecordProtected
  NoBlindRetry
