SPECIFICATION KeySpec
CONSTANTS
  a = a
  b = b
  m = m
  n = n
  r1 = r1
  r2 = r2
  Token = {a, b}
  Tenant = {m, n}
  Registration = {r1, r2}
  MaxEdits = 3
CHECK_DEADLOCK FALSE
SYMMETRY Symmetry
INVARIANTS
  RevocationHolds
  PrintedKeyWorks
PROPERTIES
  OnlyItsTokenChanges
