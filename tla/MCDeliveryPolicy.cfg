SPECIFICATION Spec
CONSTANTS
  Headroom = 6
  MinWindow = 2
  MaxDelay = 4
  Limits = {4, 8, 9, 14, 20, 30, 60}
  Timeouts = {1, 3, 5, 12}
  BaseDelays = {1, 2}
  Attempts = {1, 2, 3, 5}
  Fast = {0, 1, 2}
CHECK_DEADLOCK FALSE
INVARIANTS
  DeliveryEndsInWindow
  AttemptsAreMaximal
