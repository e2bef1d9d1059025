SPECIFICATION AdminSpec
CONSTANTS
  s1 = s1
  s2 = s2
  Version = {1, 2}
  Save = {s1, s2}
  Others = {s2}
  Broken <- MCBroken
  Invalid <- MCInvalid
  Refused <- MCRefused
  Given <- MCGiven
  Edits <- MCEdits
  Theirs <- MCTheirs
  MaxLoads = 1
  MaxEdits = 1
  MaxRenders = 2
  MaxSends = 1
CHECK_DEADLOCK FALSE
INVARIANTS
  OnlyPreviewedLeaves
  NoOrphanPending
  WaitHasReason
  SuccessIsStored
  CompleteCopySurvives
  UnlistedOnlyMidSwap
PROPERTIES
  SwapsAreWhole
