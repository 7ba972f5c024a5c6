--------------------------- MODULE MC_GatewayState ---------------------------
(* Small instances of GatewayState.                                        *)
EXTENDS GatewayState

CONSTANTS r1, r2, g1, g2, bad, u1, u2, s1, s2, ghost, p1, p2, a1, a2

Route(id, rule, up) == [id |-> id, rule |-> rule, upstream |-> up]

File(routes, upstreams, limit, authn, lint) ==
  [routes |-> routes, upstreams |-> upstreams, limit |-> limit, auth |-> authn, lint |-> lint]

\* Upstream maps: one name or two, ghost with an algorithm nobody implements, or
\* with a host name that never resolves.
OneCluster  == [n \in {u1} |-> s1]
NoAlgorithm == [n \in {u1, u2} |-> IF n = u1 THEN ghost ELSE s1]
TwoClusters == [n \in {u1, u2} |-> IF n = u1 THEN s2 ELSE s1]

RouteLists ==
  {<<Route(r1, g1, u1)>>,
   <<Route(r1, g1, u2)>>,
   <<Route(r1, g1, u1), Route(r2, g1, u1)>>,
   <<Route(r2, g1, u1), Route(r1, g2, u1)>>,
   <<Route(r1, g2, u1), Route(r2, bad, u1)>>}

\* The optional sections go with the rest, so that a step from file to file
\* adds, changes, removes and keeps each of them; the key of a2 may be missing.
LimitOf(rs, us) ==
  IF Len(rs) = 2 THEN p1 ELSE IF us = TwoClusters THEN p2 ELSE None
AuthOf(us) == IF us = TwoClusters THEN a2 ELSE None

FileOf(rs, us, lint) == File(rs, us, LimitOf(rs, us), AuthOf(us), lint)

\* Files with changed, added, removed and reordered routes, a pattern that does
\* not compile, a duplicated id, a route whose upstream is missing (r1 to u2
\* with a map that lacks u2), clusters that cannot be built, a failed check.
Files ==
  {FileOf(rs, us, TRUE) : rs \in RouteLists, us \in {OneCluster, TwoClusters}}
    \union {FileOf(<<Route(r2, g1, u1), Route(r1, g2, u1)>>, NoAlgorithm, TRUE),
            FileOf(<<Route(r1, g1, u1), Route(r1, g2, u1)>>, OneCluster, TRUE),
            FileOf(<<Route(r2, g2, u1)>>, OneCluster, FALSE)}
=============================================================================
