SPECIFICATION Spec
CONSTANTS
  p1 = p1
  p2 = p2
  MaxWrong = 2
  Handlers <- TwoHandlers
  MaxTemps = 2
  MaxSets = 2
  MaxExchanges = 1
SYMMETRY HandlerSymmetry
INVARIANTS
  TypeOK
  WrongCodesBounded
  NewestCodesOnly
PROPERTIES
  SpentOnce
