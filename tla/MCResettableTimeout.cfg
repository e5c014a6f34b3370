SPECIFICATION Spec
CONSTANTS
  Initial = 3
  Renewals = {1, 2, 4}
  MaxLag = 1
  MaxRenews = 3
  MaxNow = 24
INVARIANTS EndsInTime
PROPERTIES LastRenewalHonoured ReadyIsNoticed
CHECK_DEADLOCK FALSE
