SPECIFICATION Spec
CONSTANTS
  i1 = i1  i2 = i2  ana = ana  bob = bob  t1 = t1  t2 = t2
  sa = sa  sb = sb  order = order  other = other   note = note  kill = kill  mine = mine
  NoJob = NoJob
  Instance <- TwoInstances
  User <- TwoUsers
  Tenant <- TwoTenants
  TenantOf <- Apart
  Admin <- OnlyAna
  Stream <- TwoStreams
  UserOf <- Owners
  HomeOf <- Homes
  Job <- Emits
  JobAt <- EmitsAt
  Caller <- EmitsCaller
  Scope <- EmitsScope
  Target <- EmitsTarget
  Steps <- EmitsSteps
  MaxLosses = 1
CHECK_DEADLOCK FALSE
INVARIANT HealthyHears
