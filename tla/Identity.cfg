SPECIFICATION Spec
CONSTANTS
  e1 = e1
  e2 = e2
  g1 = g1
  p1 = p1
  p2 = p2
  Emails <- TwoEmails
  Subjects <- OneSubject
  EmailOf <- FirstEmail
  Handlers <- TwoHandlers
  MaxAccounts = 2
  MaxTokens = 2
SYMMETRY HandlerSymmetry
INVARIANTS
  TypeOK
  VerifiedIsProven
PROPERTIES
  ResetOnce
