\* A file that is written before it is watched.
SPECIFICATION Spec
CONSTANTS
  w = w
  a1 = a1
  c1 = c1
  q1 = q1
  Watcher = w
  Requests = {q1}
  Nobody = Nobody
  Torn = Torn
  Accepted <- Prefixes
  Refused <- Unreliable
  Tearing <- FailLate
  HasLimiter <- LimiterAtStart
  MaxVersion = 2
  Admins = {}
  Callers = {c1}
  OpensReported = FALSE
  MaxQueue = 2
INVARIANT
  WatchedFileIsRead
