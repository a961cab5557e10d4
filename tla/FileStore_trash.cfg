CONSTANTS
  f1 = f1  f2 = f2  w1 = w1
  p1 = p1  p2 = p2  i1 = i1
  NoFile = NoFile
  Files <- TwoFiles
  Workspaces <- OneWorkspace
  WorkspaceOf <- AllInOne
  Bytes <- MCBytes
  Limit <- LimitOne
  MaxFileSize <- SizeTwo
  Handlers <- TwoHandlers
  Sweepers <- OneSweeper
  BatchSize = 2
  Span = 0
  Retention = 1
  MaxTime = 5
  Faults = {"sweep"}
SPECIFICATION RecoveringSpec
INVARIANTS UsageWithinQuota NoOrphan ListedHasBytes
PROPERTIES RetentionHonoured ExpiredPurged SweepEnds
