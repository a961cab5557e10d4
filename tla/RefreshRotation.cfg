CONSTANTS
  r1 = r1  r2 = r2
  Requests <- TwoRequests
  Grace = 2
  MaxTime = 5
SPECIFICATION RotationSpec
INVARIANT RotationTypeOK
PROPERTY RetryHonoured
CHECK_DEADLOCK FALSE
