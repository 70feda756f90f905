SPECIFICATION Spec
CONSTANTS
  u1 = u1  t1 = t1
  c1 = c1  c2 = c2  c3 = c3  i1 = i1  i2 = i2
  NoTenant = NoTenant  NoConn = NoConn
  User <- OneUser
  Tenant <- OneTenant
  TenantOf <- TenantOfU1
  Conn <- ThreeConns
  Instance <- TwoInstances
  InstOf <- PinThree
  UserOf <- AllOfU1
  TransportOf <- AllSse
  MaxPerUser = 1
  MaxCrashes = 1
  MaxDiscards = 0
  MaxFaults = 0
SYMMETRY PinnedAlike
CHECK_DEADLOCK FALSE
INVARIANTS OwnershipMirror LiveIsPresent NoPhantom IndexesExact
PROPERTIES ImplementsLedger
