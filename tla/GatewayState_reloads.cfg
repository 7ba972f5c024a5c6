\* Every kind of change to every part, and every failure.
SPECIFICATION Spec
CONSTANTS
  r1 = r1
  r2 = r2
  g1 = g1
  g2 = g2
  bad = bad
  u1 = u1
  u2 = u2
  s1 = s1
  s2 = s2
  ghost = ghost
  p1 = p1
  p2 = p2
  a1 = a1
  a2 = a2
  None = None
  RouteId = {r1, r2}
  Rule = {g1, g2, bad}
  Upstream = {u1, u2}
  UpstreamSpec = {s1, s2, ghost}
  Policy = {p1, p2}
  AuthSpec = {a1, a2}
  BadRegex = {bad}
  Unsupported = {ghost}
  Fallible = {a2}
  HealthChecked = {s1}
  Configs <- Files
INVARIANTS
  TypeOK
  RegistryMirrorsRouter
  CleanServesSnapshot
  SnapshotIsBuildable
PROPERTIES
  CleanDiffAccepts
  UnchangedStays
  RoutesKeepClusters
  ActsAsRegister
