CONSTANTS
  f1 = f1  f2 = f2  w1 = w1
  p1 = p1  p2 = p2  i1 = i1
  NoFile = NoFile
  Files <- TwoFiles
  Workspaces <- OneWorkspace
  WorkspaceOf <- AllInOne
  Bytes <- MCBytes
  Limit <- LimitOne
  MaxFileSize <- SizeTwo
  Handlers <- TwoHandlers
  Sweepers <- OneSweeper
  BatchSize = 1
  Span = 1
  Retention = 1
  MaxTime = 3
  Faults = {"put", "undo", "purge", "sweep", "admin", "db", "ack", "crash"}
SPECIFICATION Spec
INVARIANTS TypeOK QuotaHeld
PROPERTY LedgerSpec
SYMMETRY HandlerSymmetry
