SPECIFICATION Spec
CONSTANTS
  k1 = k1
  i1 = i1
  i2 = i2
  i3 = i3
  x = x
  Key = {k1}
  NoKey = NoKey
  Invocation = {i1, i2, i3}
  KeyOf <- AllOneKey
  Id = {i1, i2, i3}
  NoId = NoId
  CorrelationOf <- OwnCorrelation
  MaxAttempts = 2
  CompleteAttempts = 2
  TtlOutlivesInvocation = TRUE
CHECK_DEADLOCK FALSE
SYMMETRY Symmetry
INVARIANTS
  NoParallelDelivery
  OneConfirmedDelivery
  ConsistentReplay
  ReleasedClaimIsGone
