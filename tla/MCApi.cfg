CONSTANTS
  r1 = r1
  r2 = r2
  k1 = k1
  k2 = k2
  Requests <- MCRequests
  Conns <- MCConns
  None = None
  Limit = 1
  BatchSize = 1
  MaxLines = 2
  MaxFlushes = 1
  MaxCalls = 1
  Faults = {"dial", "fail", "late", "straggle"}
SPECIFICATION FairSpec
INVARIANTS TypeOK NoLineIsLost LinesKeepTheirOrder OneFlushAtATime HeaderCountsFlushes LimitHolds
PROPERTIES EveryRequestIsAnswered
