\* The watcher and a caller of load_and_apply, where opens are reported.
SPECIFICATION Spec
CONSTANTS
  w = w
  a1 = a1
  c1 = c1
  q1 = q1
  Watcher = w
  Requests = {q1}
  Nobody = Nobody
  Torn = Torn
  Accepted <- Prefixes
  Refused <- Unreliable
  Tearing <- FailLate
  HasLimiter <- LimiterAtStart
  MaxVersion = 2
  Admins = {}
  Callers = {c1}
  OpensReported = TRUE
  MaxQueue = 2
CHECK_DEADLOCK FALSE
INVARIANTS
  TypeOK
  NoLostWakeup
PROPERTIES
  ReadersSeeOneVersion
  GoesBackOnlyIfOvertaken
  Converges
  FullReloadRepairs
