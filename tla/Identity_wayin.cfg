SPECIFICATION Spec
CONSTANTS
  e1 = e1
  e2 = e2
  g1 = g1
  p1 = p1
  p2 = p2
  Emails <- TwoEmails
  Subjects <- OneSubject
  EmailOf <- FirstEmail
  Handlers <- OneHandler
  MaxAccounts = 1
  MaxTokens = 1
PROPERTIES
  NotLockedOut
