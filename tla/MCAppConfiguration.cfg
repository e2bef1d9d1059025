SPECIFICATION Spec
CONSTANTS
  i1 = i1
  i2 = i2
  i3 = i3
  Setting = {"origins", "token", "hmacKey"}
  Reference = {"token", "hmacKey"}
  Versioned = "hmacKey"
  Invocation = {i1, i2, i3}
  None = None
  Unset = Unset
  FromHost = FromHost
  MaxRevision = 3
CHECK_DEADLOCK FALSE
SYMMETRY Symmetry
INVARIANTS
  KeyAndVersionAgree
  ReadyMeansComplete
PROPERTIES
  ConfigurationIsStable
  NoStaleFailure
