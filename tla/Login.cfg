SPECIFICATION Spec
CONSTANTS
  p1 = p1
  p2 = p2
  d1 = d1
  d2 = d2
  d3 = d3
  MaxFailures = 3
  Handlers <- TwoHandlers
  Devices <- ThreeDevices
  FailureBound = 7
SYMMETRY Symmetry
INVARIANTS
  TypeOK
  WrongPasswordsBounded
  NewDevicesAnnounced
