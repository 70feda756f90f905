SPECIFICATION Spec
CONSTANTS
  ta = ta  burst = burst  away = away  drop = drop  ack = ack  look = look
  None = None
  Tab <- OneTab
  FirstCursor <- FromStart
  Job <- Looks
  Kind <- LookKind
  Count <- LookSize
  BufferSize = 2
  MaxPerUser = 2
  RetrieveLimit = 1
  PEEK_LIMIT = 2
  MaxConnects = 1
  MaxFaults = 0
CHECK_DEADLOCK FALSE
INVARIANT GapIsLost
