--------------------------- MODULE MC_RateLimiter ---------------------------
(* Small instances of RateLimiter.                                         *)
EXTENDS RateLimiter, TLC

CONSTANTS t1, t2, i1, i2

TwoPolicies == {[capacity |-> 2, rate |-> 1], [capacity |-> 1, rate |-> 2]}

Symmetry == Permutations(Thread) \union Permutations(Ip)
=============================================================================
