SPECIFICATION Spec
CONSTANTS
  ta = ta  burst = burst  away = away  drop = drop  ack = ack  look = look
  None = None
  Tab <- OneTab
  FirstCursor <- FromStart
  Job <- Requests
  Kind <- RequestKind
  Count <- RequestSize
  BufferSize = 2
  MaxPerUser = 2
  RetrieveLimit = 1
  PEEK_LIMIT = 2
  MaxConnects = 2
  MaxFaults = 1
CHECK_DEADLOCK FALSE
INVARIANTS TypeOK OneStream NothingElseLost TimelineHonest DrainedIsPurged
