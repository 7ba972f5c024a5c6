\* One documented promise, which the code breaks.
SPECIFICATION Spec
CONSTANTS
  p1 = p1
  p2 = p2
  path1 = path1
  path2 = path2
  any = any
  half = half
  short = short
  long = long
  ra = ra
  rb = rb
  rc = rc
  rd = rd
  re = re
  sig = sig
  ck = ck
  ck2 = ck2
  u1 = u1
  get = get
  put = put
  None = None
  RouteId = {ra, rb, rc, rd, re}
  Path <- Paths
  Method = {get, put}
  Client = {u1}
  Pattern = {path1, path2, any, half, short, long}
  Covers <- PatternCovers
  Length <- PatternLength
  Signal = {sig}
  CookieName = {ck, ck2}
  Hundred = 4
  HashOf <- Hashes
  MaxTries = 1
  Files <- RouteFiles
  Broken = {half}
INVARIANT
  MethodsKept
