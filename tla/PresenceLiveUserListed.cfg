SPECIFICATION Spec
CONSTANTS
  u1 = u1  t1 = t1
  c1 = c1  c2 = c2  c3 = c3  i1 = i1  i2 = i2
  NoTenant = NoTenant  NoConn = NoConn
  User <- OneUser
  Tenant <- OneTenant
  TenantOf <- TenantOfU1
  Conn <- TwoConns
  Instance <- OneInstance
  InstOf <- PinBothOne
  UserOf <- BothOfU1
  TransportOf <- BothSse
  MaxPerUser = 2
  MaxCrashes = 0
  MaxDiscards = 0
  MaxFaults = 0
CHECK_DEADLOCK FALSE
INVARIANT LiveUserListed
