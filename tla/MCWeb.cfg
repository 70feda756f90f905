SPECIFICATION Spec
CONSTANTS
  bob = bob  gil = gil  None = None
  User = {bob, gil}
  Admin = {gil}
  TenantOf <- MCTenantOf
  Target = bob
  Page = {"home", "login", "presence", "audit", "connections", "replay", "offline",
          "reauth", "cluster", "broadcast", "chat", "both", "ticket", "connection"}
  Card = {"tenant", "room", "broadcast"}
  MaxInFlight = 2
  MaxReads = 2
  MaxLogins = 1
  MaxDrops = 1
INVARIANTS TypeOK RosterNewest TraitsTrue NobodyElsesData ChatHonest ListMatches
PROPERTY OnlyUncheckedRefused
CHECK_DEADLOCK FALSE
CONSTRAINT Followed
