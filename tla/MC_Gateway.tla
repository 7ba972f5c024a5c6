----------------------------- MODULE MC_Gateway -----------------------------
(* A small instance of Gateway.                                            *)
EXTENDS Gateway

CONSTANTS w, a1, q1, r1, r2, g1, g2, bad, u1, u2, s1, s2, p1

Route(id, rule, up) == [id |-> id, rule |-> rule, upstream |-> up]

File(routes, upstreams, limit) ==
  [routes |-> routes, upstreams |-> upstreams, limit |-> limit, auth |-> None, lint |-> TRUE]

OneCluster  == [n \in {u1} |-> s1]
TwoClusters == [n \in {u1, u2} |-> IF n = u1 THEN s1 ELSE s2]

AtStart  == File(<<Route(r1, g1, u1)>>, OneCluster, p1)
Cut      == File(<<Route(r1, g2, u1), Route(r2, bad, u1)>>, TwoClusters, None)
Middle   == File(<<Route(r1, g2, u1), Route(r2, g1, u2)>>, TwoClusters, p1)
AtEnd    == File(<<Route(r2, g1, u1)>>, OneCluster, None)

\* The second version is a file on its own when it is written up to the middle of
\* a pattern, the third is none until it is complete; s2 names a host that is
\* not always found.
Written == <<Cut, Middle, Unparsable, AtEnd>>
TheFile == [k \in 0 .. 4 |-> IF k = 0 THEN AtStart ELSE Written[k]]
Files   == {AtStart, Cut, Middle, AtEnd}
=============================================================================
