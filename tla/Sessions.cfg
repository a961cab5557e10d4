CONSTANTS
  p1 = p1  p2 = p2  p3 = p3
  Cap = 2
  Handlers <- TwoHandlers
  MaxSessions = 4
  MaxPasswords = 2
  MaxKeys = 1
SPECIFICATION Spec
INVARIANTS TypeOK CapNearlyHeld StaleLoginsBounded
PROPERTIES GoneForGood SuspensionStopsRefresh
SYMMETRY HandlerSymmetry
