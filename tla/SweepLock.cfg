CONSTANTS
  i1 = i1  i2 = i2
  c1 = c1  c2 = c2  c3 = c3  c4 = c4
  j1 = j1  j2 = j2  j3 = j3  j4 = j4
  NoConn = NoConn
  Instances <- MCInstances
  Conns <- MCConns
  PoolOf <- MCPoolOf
  Jobs <- MCJobs
  InstanceOf <- MCInstanceOf
  MaxDepth = 5
SPECIFICATION LockSpec
INVARIANTS LockTypeOK InstancesExclude
