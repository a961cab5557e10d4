SPECIFICATION Spec
CONSTANTS
  c1 = c1
  p1 = p1
  p2 = p2
  Owner = Owner
  NoAuthor = NoAuthor
  Clients <- OneClient
  Handlers <- TwoHandlers
  MaxItems = 2
  MaxVersion = 2
SYMMETRY HandlerSymmetry
INVARIANTS
  TypeOK
  RemovalTakesHold
  RoomKnowsRows
  SearchWithinLists
