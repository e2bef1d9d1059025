SPECIFICATION Spec
CONSTANTS
  t1 = t1
  t2 = t2
  v1 = v1
  v2 = v2
  Template = {t1, t2}
  Version = {v1, v2}
  NoBlob = NoBlob
  Run = {r1, r2}
  Tree <- Trees
  Reader = {c1}
  NoKey = NoKey
CHECK_DEADLOCK FALSE
SYMMETRY Symmetry
INVARIANTS
  SuccessfulRunSettles
  MissOnlyByPrune
PROPERTIES
  ReadsServePublished
  WritesAreAuthorised
