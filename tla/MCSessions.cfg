SPECIFICATION Spec
CONSTANTS
  ana = ana  c1 = c1  c2 = c2  t1 = t1
  None = None
  User <- Users
  Admin <- Users
  Conn <- Two
  Ticket <- OneTicket
  SESSION_TTL_SECONDS = 3
  TICKET_TTL_SECONDS = 1
  WS_TOKEN_TTL_SECONDS = 1
  IntervalSeconds = 1
  CacheTtl = 2
  MaxTime = 3
  MaxLogins = 1
  MaxOrders = 2
  MaxErrors = 1
  MaxRunning = 1
SYMMETRY Symmetry
CHECK_DEADLOCK FALSE
INVARIANTS TypeOK TicketOnce MarkerOutlives CaughtNextCycle RestoredStays
