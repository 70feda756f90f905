SPECIFICATION FairSpec
CONSTANTS
  u1 = u1  t1 = t1
  c1 = c1  c2 = c2  c3 = c3  i1 = i1  i2 = i2
  NoTenant = NoTenant  NoConn = NoConn
  User <- OneUser
  Tenant <- OneTenant
  TenantOf <- TenantOfU1
  Conn <- TwoConns
  Instance <- OneInstance
  InstOf <- PinBothOne
  UserOf <- BothOfU1
  TransportOf <- BothWs
  MaxPerUser = 1
  MaxCrashes = 1
  MaxDiscards = 1
  MaxFaults = 1
CHECK_DEADLOCK FALSE
INVARIANT ArrivalAnnounced
PROPERTIES ClosedLeaves
