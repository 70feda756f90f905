SPECIFICATION Spec
CONSTANTS
  ana = ana  c1 = c1  c2 = c2  c3 = c3  r1 = r1
  None = None
  Conn <- Three
  Room <- OneRoom
  UserOf <- AllOfAna
  maxConnectionsPerUser = 1
  MAX_MESSAGES_PER_WINDOW = 1
  WINDOW_MS = 2
  AUDIT_CAPACITY = 1
  LOG_CAPACITY = 2
  MaxTime = 2
  MaxSends = 3
SYMMETRY Symmetry
CHECK_DEADLOCK FALSE
INVARIANTS TypeOK TrackerMirrors RateExact TimelineTrue CountersBalance OnlyMembers
