SPECIFICATION Spec
CONSTANTS
  i1 = i1  i2 = i2  ana = ana  bob = bob  t1 = t1  t2 = t2
  sa = sa  sb = sb  order = order  other = other   note = note  kill = kill  mine = mine
  NoJob = NoJob
  Instance <- TwoInstances
  User <- TwoUsers
  Tenant <- TwoTenants
  TenantOf <- Apart
  Admin <- Nobody
  Stream <- OneStream
  UserOf <- OneOwner
  HomeOf <- OneHome
  Job <- Mixed
  JobAt <- MixedAt
  Caller <- MixedCaller
  Scope <- MixedScope
  Target <- MixedTarget
  Steps <- MixedSteps
  MaxLosses = 0
CHECK_DEADLOCK FALSE
INVARIANTS OnceInOrder TenantWall OwnKillsOnly KillTakes
