--------------------------- MODULE MC_ControlPlane ---------------------------
(* Small instances of ControlPlane.                                        *)
EXTENDS ControlPlane

CONSTANTS w, a1, c1, q1

\* Contents 0 .. 4: the file at start and two versions, each half written first.
\* A half-written file is mostly no YAML, but a prefix of the routes can be a
\* valid file, or end in a pattern that does not compile; the first version
\* names a host that is not always found.
Prefixes   == {0, 1, 2, 3, 4}
Unreliable == {1, 2, 3}
FailLate   == {2, 3}
LimiterAtStart == {0}
=============================================================================
