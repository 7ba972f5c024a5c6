----------------------------- MODULE MC_Request -----------------------------
(* Small instances of Router and Request: two paths, four shares.          *)
EXTENDS Request

CONSTANTS p1, p2, path1, path2, any, half, short, long,
          ra, rb, rc, rd, re, sig, ck, ck2, u1, get, put

Paths == {p1, p2}

PatternCovers ==
  [k \in Pattern |-> CASE k = path1           -> {p1}
                       [] k \in {path2, long} -> {p2}
                       [] k = half            -> {}
                       [] OTHER               -> Paths]
PatternLength ==
  [k \in Pattern |-> IF k = short THEN 1 ELSE 2]

Hashes == [x \in Client |-> 1]

Route(id, type, pattern, canary) ==
  [id |-> id, type |-> type, pattern |-> pattern, counted |-> pattern, canary |-> canary,
   methods |-> {}, auth |-> FALSE, refused |-> {}]

Part(weight, rules, stick, cookie) ==
  [weight |-> weight, rules |-> rules, stick |-> stick, cookie |-> cookie]

\* Two sticky versions and a stable one that is only read, with a sticky version
\* of another path; two canaries, one the first of these and the other closed to the
\* client, with prefixes in an order that a sort changes and shares by address hash
\* that are counted apart; the first two versions the other way round, with two
\* regular expressions, one of which does not compile.
RouteFiles ==
  { << Route(rb, "exact", path1, Part(1, {sig}, "cookie", ck)),
       Route(rc, "exact", path1, Part(2, {}, "cookie", ck)),
       Route(rd, "exact", path2, Part(1, {}, "cookie", ck2)),
       [Route(ra, "prefix", short, None)
          EXCEPT !.counted = path1, !.methods = {get}, !.auth = TRUE] >>,
    << [Route(ra, "exact", path1, Part(3, {}, None, ck)) EXCEPT !.refused = {u1}],
       Route(rb, "exact", path1, Part(1, {sig}, "cookie", ck)),
       [Route(rd, "prefix", short, Part(3, {}, "ip_hash", ck)) EXCEPT !.counted = path2],
       Route(rc, "prefix", long, Part(1, {}, None, ck)) >>,
    << Route(rc, "exact", path1, Part(2, {}, "cookie", ck)),
       Route(rb, "exact", path1, Part(1, {sig}, "cookie", ck)),
       Route(ra, "prefix", long, None),
       Route(rd, "regex", path2, None), Route(re, "regex", half, None) >> }

\* Two regular expressions that match one path, and another method for the first.
TwoRegexes ==
  { << [Route(ra, "regex", any, None) EXCEPT !.methods = m], Route(rb, "regex", path1, None) >>
      : m \in {{}, {get}} }
=============================================================================
