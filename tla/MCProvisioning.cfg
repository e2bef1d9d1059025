SPECIFICATION ProvisionSpec
CONSTANTS
  p = p
  q = q
  hello = hello
  x = x
  y = y
  google = google
  brand = brand
  Name = {google, brand}
  Enforced = {"theirs", "lowercase"}
  RequireBimiSvg = TRUE
  Run = {p, q}
  Alias = {hello}
  Recipients = {x, y}
  Options <- CommandLines
  Zones <- FoundZones
  Offers = {{}, {"dkim", "return-path", "dmarc"}}
  MaxAttempts = 2
  MaxFaults = 1
  MaxEdits = 1
CHECK_DEADLOCK FALSE
SYMMETRY Symmetry
INVARIANTS
  ManagedZoneIsValid
  OverlappingRunsSucceed
PROPERTIES
  RecordsOfOthersKept
  AliasIsAsConfigured
