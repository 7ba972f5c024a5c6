---------------------------- MODULE SortedTable ----------------------------
(***************************************************************************)
(* What the routing table promises: one list of rules that is always       *)
(* sorted, exact rules first, then regular expressions, then prefixes from *)
(* the longest.  There are no vectors, no ids to compare, no mark and no   *)
(* late sort.  An incremental reload keeps the rules the two lists share   *)
(* in the order they have; where it puts the others among rules of one     *)
(* place is left open.                                                     *)
(***************************************************************************)
EXTENDS Naturals

CONSTANTS
  Files,    \* the lists of rules that may be loaded
  Rank,     \* the place of each type of rule
  Length    \* the length of each pattern

VARIABLES
  table,    \* the rules
  order,    \* r stands ahead of q
  torn      \* an incremental reload has failed, and no full one has come since

vars == <<table, order, torn>>

RulesIn(f) == {f[i] : i \in DOMAIN f}

InFile(f) == {<<f[ij[1]], f[ij[2]]>> : ij \in {k \in (DOMAIN f) \X (DOMAIN f) : k[1] < k[2]}}

Precedes(r, q) ==
  \/ Rank[r.type] < Rank[q.type]
  \/ r.type = "prefix" /\ q.type = "prefix" /\ Length[r.pattern] > Length[q.pattern]

\* R sorted, where arrival orders the rules that have one place.
Sorted(R, arrival) ==
  {rq \in R \X R : \/ Precedes(rq[1], rq[2])
                   \/ ~Precedes(rq[2], rq[1]) /\ rq \in arrival}

\* A list of the rules in R can stand in order o.
InPlace(R, o) ==
  /\ o \subseteq R \X R
  /\ \A r, q \in R :
       /\ Precedes(r, q) => <<r, q>> \in o
       /\ <<r, q>> \in o <=> r # q /\ <<q, r>> \notin o
  /\ \A r, q, s \in R : <<r, q>> \in o /\ <<q, s>> \in o => <<r, s>> \in o

\* The rules of R stay, in the order they have.
Stay(R) == R \subseteq table' /\ order' \intersect (R \X R) = order \intersect (R \X R)

Filled(f) == table = RulesIn(f) /\ order = Sorted(RulesIn(f), InFile(f)) /\ ~torn

Init == \E f \in Files : Filled(f)

\* A full reload starts afresh.
Refill(f) == Filled(f)'

\* An incremental one that succeeds turns the list of one file into that of another.
Merge(f) ==
  /\ ~torn /\ ~torn'
  /\ table # RulesIn(f) /\ table' = RulesIn(f)
  /\ Stay(table \intersect RulesIn(f))
  /\ InPlace(table', order')

\* One that fails leaves the rules that the lists share, and some others of both.
Stop(f) ==
  /\ ~torn /\ torn'
  /\ table' \subseteq table \union RulesIn(f)
  /\ Stay(table \intersect RulesIn(f)) /\ Stay(table \intersect table')
  /\ InPlace(table', order')

\* From there incremental ones lead to any list of such rules that is sorted.
Stray(f) ==
  /\ torn /\ torn'
  /\ table' \subseteq table \union RulesIn(f)
  /\ order' = Sorted(table', order')

Next == \E f \in Files : Refill(f) \/ Merge(f) \/ Stop(f) \/ Stray(f)

Spec == Init /\ [][Next]_vars
=============================================================================
