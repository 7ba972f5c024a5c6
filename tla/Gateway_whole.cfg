\* The watcher, one admin connection and one request.
SPECIFICATION GatewaySpec
CONSTANTS
  w = w
  a1 = a1
  q1 = q1
  r1 = r1
  r2 = r2
  g1 = g1
  g2 = g2
  bad = bad
  u1 = u1
  u2 = u2
  s1 = s1
  s2 = s2
  p1 = p1
  None = None
  Nobody = Nobody
  Torn = Torn
  Unparsable = Unparsable
  RouteId = {r1, r2}
  Rule = {g1, g2, bad}
  Upstream = {u1, u2}
  UpstreamSpec = {s1, s2}
  Policy = {p1}
  AuthSpec = {}
  BadRegex = {bad}
  Unsupported = {}
  Fallible = {s2}
  HealthChecked = {s1}
  Configs <- Files
  ContentOf <- TheFile
  Watcher = w
  Admins = {a1}
  Requests = {q1}
  OpensReported = TRUE
  MaxVersion = 2
  MaxQueue = 1
CHECK_DEADLOCK FALSE
INVARIANTS
  VersionInEffect
PROPERTIES
  RequestsSeeOneState
  ActsAsControlPlane
  FileTakesEffect
