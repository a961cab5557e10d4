SPECIFICATION Spec
CONSTANTS
  o = o
  c1 = c1
  c2 = c2
  s1 = s1
  s2 = s2
  p1 = p1
  p2 = p2
  Owner = o
  Clients <- TwoClients
  Sockets <- TwoSockets
  UserOf <- OwnerAndClient
  Handlers <- TwoHandlers
  MaxPosts = 1
SYMMETRY HandlerSymmetry
INVARIANTS
  TypeOK
  EveryoneReached
