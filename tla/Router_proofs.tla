---------------------------- MODULE Router_proofs ----------------------------
(***************************************************************************)
(* Proofs about Router, for any routes, patterns and files.                *)
(***************************************************************************)
EXTENDS Router, FiniteSetTheorems, TLAPS

-----------------------------------------------------------------------------
(* Finite sets with a strict order.                                        *)

\* A set has a member that no other precedes, if R is transitive on it.
LEMMA MinimalExists ==
  ASSUME NEW S, NEW R, IsFiniteSet(S), S # {},
         \A x \in S : <<x, x>> \notin R,
         \A x, y, z \in S : <<x, y>> \in R /\ <<y, z>> \in R => <<x, z>> \in R
  PROVE  \E x \in S : \A y \in S : <<y, x>> \notin R
<1> DEFINE K == {T \in SUBSET S : T # {} /\ \A x \in T : \E y \in T : <<y, x>> \in R}
<1> SUFFICES ASSUME S \in K PROVE FALSE
  OBVIOUS
<1>1. K \subseteq FiniteSubsetsOf(S) /\ K # {}
  BY FS_FiniteSubsetsOfFinite
<1>2. PICK T \in K : \A U \in K : <<U, T>> \notin StrictSubsetOrdering(S)
  <2> HIDE DEF K
  <2> QED
    BY <1>1, FS_StrictSubsetOrderingWellFounded, WFMin
<1>3. PICK x \in T, y \in T : <<y, x>> \in R
  BY <1>2
<1> DEFINE U == {z \in T : <<z, x>> \in R}
<1>4. U \in K
  <2>1. U \in SUBSET S /\ U # {}
    BY <1>2, <1>3
  <2>2. ASSUME NEW z \in U PROVE \E w \in U : <<w, z>> \in R
    BY <1>2, <1>3
  <2> QED
    BY <2>1, <2>2
<1>5. x \notin U /\ U \subseteq T /\ T \in SUBSET S
  BY <1>2, <1>3
<1> QED
  BY <1>2, <1>3, <1>4, <1>5 DEF StrictSubsetOrdering

-----------------------------------------------------------------------------
(* Files.                                                                  *)

\* What the assumption says of one file.
LEMMA FileType ==
  ASSUME NEW f \in Files
  PROVE  /\ f \in Seq(Rule) /\ Accepted(f)
         /\ RulesOf(f) \subseteq Rule
         /\ \A i, j \in DOMAIN f : f[i].id = f[j].id => i = j
         /\ \A i \in DOMAIN f : i \in Nat
BY FilesAssumption DEF Accepted, RulesOf

\* An id names one rule of a file.
LEMMA IdNamesRule ==
  ASSUME NEW f \in Files, NEW r \in RulesOf(f)
  PROVE  r.id \in IdsOf(f) /\ RouteOf(f, r.id) = r
<1>1. \A q \in RulesOf(f) : q.id = r.id => q = r
  BY FileType DEF RulesOf
<1> QED
  BY <1>1 DEF IdsOf, RouteOf

\* An id of a file names a rule of it.
LEMMA RouteOfType ==
  ASSUME NEW f \in Files, NEW id \in IdsOf(f)
  PROVE  RouteOf(f, id) \in RulesOf(f) /\ RouteOf(f, id).id = id
BY DEF IdsOf, RouteOf

\* A file has finitely many rules.
LEMMA RulesFinite ==
  ASSUME NEW f \in Files
  PROVE  IsFiniteSet(RulesOf(f))
<1>1. f \in [1 .. Len(f) -> Rule] /\ Len(f) \in Nat
  BY FileType
<1>2. f \in Surjection(1 .. Len(f), RulesOf(f))
  BY <1>1 DEF Surjection, RulesOf
<1>3. IsFiniteSet(1 .. Len(f))
  BY <1>1, FS_Interval
<1> QED
  BY <1>2, <1>3, FS_Surjection

\* R is a strict total order of S.
Orders(R, S) ==
  /\ R \subseteq S \X S
  /\ \A r \in S : <<r, r>> \notin R
  /\ \A r, q \in S : r # q => (<<r, q>> \in R <=> <<q, r>> \notin R)
  /\ \A r, q, s \in S : <<r, q>> \in R /\ <<q, s>> \in R => <<r, s>> \in R

\* The order of a file is a strict total order of its rules.
LEMMA ListedOrder ==
  ASSUME NEW f \in Files, NEW R \in SUBSET RulesOf(f)
  PROVE  Orders(Listed(f, R), R)
<1>1. ASSUME NEW r \in R, NEW q \in R
      PROVE  <<r, q>> \in Listed(f, R) <=> \E i, j \in DOMAIN f : i < j /\ f[i] = r /\ f[j] = q
  <2>1. ASSUME NEW i \in DOMAIN f, NEW j \in DOMAIN f, i < j, f[i] = r, f[j] = q
        PROVE  <<r, q>> \in Listed(f, R)
    <3> DEFINE ij == <<i, j>>
    <3>1. /\ ij \in (DOMAIN f) \X (DOMAIN f) /\ ij[1] < ij[2]
          /\ {f[ij[1]], f[ij[2]]} \subseteq R /\ <<r, q>> = <<f[ij[1]], f[ij[2]]>>
      BY <2>1
    <3> HIDE DEF ij
    <3> QED
      BY <3>1 DEF Listed
  <2> QED
    BY <2>1 DEF Listed
<1>2. \A r \in R : \E i \in DOMAIN f : f[i] = r /\ \A j \in DOMAIN f : f[j] = r => j = i
  BY FileType DEF RulesOf
<1>3. \A i \in DOMAIN f : i \in Nat
  BY FileType
<1> DEFINE at == [r \in R |-> CHOOSE i \in DOMAIN f : f[i] = r]
<1>4. \A r \in R : /\ at[r] \in DOMAIN f /\ f[at[r]] = r
                   /\ \A j \in DOMAIN f : f[j] = r => j = at[r]
  BY <1>2
<1> HIDE DEF at
<1>5. ASSUME NEW r \in R, NEW q \in R
      PROVE  <<r, q>> \in Listed(f, R) <=> at[r] < at[q]
  <2>1. ASSUME NEW i \in DOMAIN f, NEW j \in DOMAIN f, i < j /\ f[i] = r /\ f[j] = q
        PROVE  at[r] < at[q]
    <3>1. i = at[r] /\ j = at[q]
      BY <1>4, <2>1
    <3> QED
      BY <2>1, <3>1
  <2>2. ASSUME at[r] < at[q]
        PROVE  \E i, j \in DOMAIN f : i < j /\ f[i] = r /\ f[j] = q
    BY <1>4, <2>2
  <2> QED
    BY <1>1, <2>1, <2>2
<1>6. \A r \in R : at[r] \in Nat
  BY <1>3, <1>4
<1>7. \A r, q \in R : at[r] = at[q] => r = q
  BY <1>4
<1>8. Listed(f, R) \subseteq R \X R
  BY DEF Listed
<1>9. \A r \in R : ~(at[r] < at[r])
  BY <1>6
<1>10. \A r, q \in R : r # q => (at[r] < at[q] <=> ~(at[q] < at[r]))
  BY <1>6, <1>7
<1>11. \A r, q, s \in R : at[r] < at[q] /\ at[q] < at[s] => at[r] < at[s]
  BY <1>6
<1> QED
  BY <1>5, <1>8, <1>9, <1>10, <1>11 DEF Orders

-----------------------------------------------------------------------------
(* The table: its rules are those of files, with one for an id, and unless  *)
(* an update has stopped half way those of the last file.  The vectors     *)
(* stand in the order in which the rules were added, but for prefixes that *)
(* are or are to be sorted.                                                *)

KnownRules == UNION {RulesOf(f) : f \in Files}

RulesInv ==
  /\ table \subseteq KnownRules /\ IsFiniteSet(table)
  /\ \A r, q \in table : r.id = q.id => r = q
  /\ TableIsFile

OrderInv ==
  /\ Orders(added, table)
  /\ before \subseteq OfOneType(table \X table)
  /\ \A r, q \in table :
       r.type = q.type /\ (dirty /\ r.type = "prefix" => Length[r.pattern] = Length[q.pattern])
         => (<<r, q>> \in before <=> InOrder(r, q))

RouterInv == file \in Files /\ dirty \in BOOLEAN /\ torn \in BOOLEAN /\ RulesInv /\ OrderInv

\* The fields of a rule.
LEMMA RuleFacts ==
  ASSUME NEW r \in Rule
  PROVE  /\ r.type \in {"exact", "regex", "prefix"} /\ r.pattern \in Pattern
         /\ r.id \in RouteId /\ r # None /\ Length[r.pattern] \in Nat
         /\ Rank[r.type] \in {1, 2, 3}
BY PatternAssumption, NamesAssumption DEF Rule, Type, Rank

\* Rules of one type share their rank, and others do not.
LEMMA Ranks ==
  ASSUME NEW r \in Rule, NEW q \in Rule
  PROVE  /\ Rank[r.type] < Rank[q.type] => r.type # q.type
         /\ r.type # q.type => (Rank[r.type] < Rank[q.type] <=> ~(Rank[q.type] < Rank[r.type]))
BY RuleFacts DEF Rank

\* InOrder is a strict total order of any table that was filled in some order.
LEMMA InOrderTotal ==
  ASSUME table \subseteq Rule, Orders(added, table), NEW r \in table, NEW q \in table
  PROVE  /\ ~InOrder(r, r)
         /\ r # q => (InOrder(r, q) <=> ~InOrder(q, r))
<1>1. r \in Rule /\ q \in Rule
  OBVIOUS
<1>2. Length[r.pattern] \in Nat /\ Length[q.pattern] \in Nat
  BY <1>1, RuleFacts
<1>3. ~InOrder(r, r)
  BY <1>1, <1>2, Ranks DEF InOrder, Orders
<1>4. ASSUME r # q, r.type # q.type PROVE InOrder(r, q) <=> ~InOrder(q, r)
  BY <1>1, <1>4, Ranks DEF InOrder
<1>5. ASSUME r # q, r.type = q.type PROVE InOrder(r, q) <=> ~InOrder(q, r)
  <2>1. <<r, q>> \in added <=> <<q, r>> \notin added
    BY <1>5 DEF Orders
  <2>2. ~(Rank[r.type] < Rank[q.type]) /\ ~(Rank[q.type] < Rank[r.type])
    BY <1>1, <1>5, Ranks
  <2> QED
    BY <1>2, <1>5, <2>1, <2>2 DEF InOrder
<1> QED
  BY <1>3, <1>4, <1>5

\* InOrder is transitive on such a table.
LEMMA InOrderTransitive ==
  ASSUME table \subseteq Rule, Orders(added, table),
         NEW r \in table, NEW q \in table, NEW s \in table,
         InOrder(r, q), InOrder(q, s)
  PROVE  InOrder(r, s)
<1>1. r \in Rule /\ q \in Rule /\ s \in Rule
  OBVIOUS
<1>2. Length[r.pattern] \in Nat /\ Length[q.pattern] \in Nat /\ Length[s.pattern] \in Nat
  BY <1>1, RuleFacts
<1>3. Rank[r.type] \in Nat /\ Rank[q.type] \in Nat /\ Rank[s.type] \in Nat
  BY <1>1, RuleFacts
<1>4. CASE r.type = q.type /\ q.type = s.type
  <2>1. ~(Rank[r.type] < Rank[q.type]) /\ ~(Rank[q.type] < Rank[s.type])
    BY <1>1, <1>4, Ranks
  <2>2. <<r, q>> \in added /\ <<q, s>> \in added => <<r, s>> \in added
    BY DEF Orders
  <2> QED
    BY <1>2, <1>4, <2>1, <2>2 DEF InOrder
<1>5. CASE r.type # q.type \/ q.type # s.type
  <2>1. Rank[r.type] <= Rank[q.type] /\ Rank[q.type] <= Rank[s.type]
    BY <1>3 DEF InOrder
  <2>2. Rank[r.type] < Rank[q.type] \/ Rank[q.type] < Rank[s.type]
    BY <1>5 DEF InOrder
  <2> QED
    BY <1>3, <2>1, <2>2 DEF InOrder
<1> QED
  BY <1>4, <1>5

-----------------------------------------------------------------------------
(* Reloads.                                                                *)

\* The rules of a file.
LEMMA KnownFacts ==
  ASSUME NEW r \in KnownRules
  PROVE  r \in Rule /\ (r.type = "prefix" => Length[r.pattern] > 0)
<1>1. PICK f \in Files : r \in RulesOf(f)
  BY DEF KnownRules
<1> QED
  BY <1>1, FileType DEF Accepted

\* A file is filled with rules as the table should have them.
LEMMA FileRules ==
  ASSUME NEW f \in Files
  PROVE  /\ RulesOf(f) \subseteq KnownRules /\ IsFiniteSet(RulesOf(f))
         /\ \A r, q \in RulesOf(f) : r.id = q.id => r = q
<1>1. \A r, q \in RulesOf(f) : r.id = q.id => r = q
  BY IdNamesRule
<1> QED
  BY <1>1, RulesFinite DEF KnownRules

\* The table is finite and its ids are unique.
LEMMA TableFacts ==
  ASSUME RouterInv
  PROVE  /\ table \subseteq Rule /\ IsFiniteSet(table) /\ Orders(added, table)
         /\ \A r, q \in table : r.id = q.id => r = q
         /\ \A r \in table : r.type = "prefix" => Length[r.pattern] > 0
BY KnownFacts DEF RouterInv, RulesInv, OrderInv

\* What an update leaves is of the table, and no route that it adds has an id of it.
LEMMA LeftApart ==
  ASSUME RouterInv, NEW f \in Files
  PROVE  /\ Left(f) \subseteq table /\ Added(f) \subseteq RulesOf(f)
         /\ \A r \in Left(f), q \in Added(f) : r.id # q.id
<1> DEFINE changed == {r.id : r \in {q \in Visited(f) : Touched(q)}}
<1>1. \A r \in Left(f) : r \in table /\ (r.id \in IdsOf(file) => r.id \notin changed)
  BY DEF Left
<1>2. ASSUME NEW q \in Added(f)
      PROVE  q \in RulesOf(f) /\ q.id \in changed /\ q \notin Refused(f) /\ Touched(q)
  BY DEF Added, Visited, RulesOf
<1>3. ASSUME NEW r \in Left(f), NEW q \in Added(f), r.id = q.id PROVE FALSE
  <2>1. q.id \notin IdsOf(file)
    BY <1>1, <1>2, <1>3
  <2> QED
    BY <1>1, <1>2, <1>3, <2>1 DEF Refused
<1>4. Left(f) \subseteq table
  BY <1>1
<1> QED
  BY <1>2, <1>3, <1>4

\* Where a rule of the table is in the file, too, no update that finds the table as
\* its file says touches it.
LEMMA SharedUntouched ==
  ASSUME RouterInv, ~torn, NEW f \in Files, NEW r \in table \intersect RulesOf(f)
  PROVE  ~Touched(r)
<1>1. r \in RulesOf(file)
  BY DEF RouterInv, RulesInv, TableIsFile
<1> QED
  BY <1>1, IdNamesRule DEF RouterInv, Touched

\* Those rules stay.
LEMMA SharedStay ==
  ASSUME RouterInv, ~torn, NEW f \in Files
  PROVE  table \intersect RulesOf(f) \subseteq Left(f)
<1> DEFINE changed == {r.id : r \in {q \in Visited(f) : Touched(q)}}
<1> SUFFICES ASSUME NEW r \in table \intersect RulesOf(f), r.id \in changed PROVE FALSE
  BY IdNamesRule DEF Left
<1>1. PICK q \in Visited(f) : Touched(q) /\ q.id = r.id
  OBVIOUS
<1>2. q \in RulesOf(f)
  BY DEF Visited, RulesOf
<1>3. q = r
  BY <1>1, <1>2, FileRules
<1> QED
  BY <1>1, <1>3, SharedUntouched

\* An update to which no route is refused leaves what it does not add.
LEMMA LeftIsRest ==
  ASSUME RouterInv, ~torn, NEW f \in Files, Refused(f) = {}
  PROVE  Left(f) \union Added(f) = RulesOf(f) /\ Left(f) = table \intersect RulesOf(f)
<1>1. Visited(f) = RulesOf(f)
  BY DEF Visited, RulesOf
<1>2. ASSUME NEW r \in Left(f) PROVE r \in RulesOf(f)
  <2>1. r \in RulesOf(file)
    BY <1>2, LeftApart DEF RouterInv, RulesInv, TableIsFile
  <2>2. r.id \in IdsOf(file) /\ RouteOf(file, r.id) = r /\ r.id \in IdsOf(f)
    BY <1>2, <2>1, IdNamesRule DEF RouterInv, Left
  <2>3. PICK q \in RulesOf(f) : q.id = r.id
    BY <2>2 DEF IdsOf
  <2>4. ~Touched(q)
    BY <1>1, <1>2, <2>2, <2>3 DEF Left
  <2> QED
    BY <2>2, <2>3, <2>4 DEF Touched
<1>3. ASSUME NEW r \in RulesOf(f), ~Touched(r) PROVE r \in Left(f)
  <2>1. r.id \in IdsOf(file) /\ RouteOf(file, r.id) = r
    BY <1>3 DEF Touched
  <2>2. r \in table
    BY <2>1, RouteOfType DEF RouterInv, RulesInv, TableIsFile
  <2> QED
    BY <2>2, SharedStay
<1>4. \A r \in RulesOf(f) : Touched(r) => r \in Added(f)
  BY <1>1 DEF Added
<1> QED
  BY <1>2, <1>3, <1>4, LeftApart, SharedStay

\* Pushed keeps a strict total order.
LEMMA PushedOrder ==
  ASSUME NEW order, NEW R, Orders(order, R), NEW f \in Files,
         NEW L \in SUBSET R, NEW A \in SUBSET RulesOf(f), L \intersect A = {}
  PROVE  Orders(Pushed(order, L, A, f), L \union A)
<1> DEFINE P == Pushed(order, L, A, f)
<1>1. Orders(Listed(f, A), A)
  BY ListedOrder
<1>2. P = (order \intersect (L \X L)) \union (L \X A) \union Listed(f, A)
  BY DEF Pushed
<1> HIDE DEF P
<1>3. \A r, q \in L : <<r, q>> \in P <=> <<r, q>> \in order
  BY <1>1, <1>2 DEF Orders
<1>4. \A r \in L, q \in A : <<r, q>> \in P /\ <<q, r>> \notin P
  BY <1>1, <1>2 DEF Orders
<1>5. \A r, q \in A : <<r, q>> \in P <=> <<r, q>> \in Listed(f, A)
  BY <1>1, <1>2 DEF Orders
<1>6. P \subseteq (L \union A) \X (L \union A)
  BY <1>1, <1>2 DEF Orders
<1>7. \A r \in L \union A : <<r, r>> \notin P
  BY <1>1, <1>3, <1>5 DEF Orders
<1>8. \A r, q \in L \union A : r # q => (<<r, q>> \in P <=> <<q, r>> \notin P)
  BY <1>1, <1>3, <1>4, <1>5 DEF Orders
<1>9. ASSUME NEW r \in L \union A, NEW q \in L \union A, NEW s \in L \union A,
             <<r, q>> \in P, <<q, s>> \in P
      PROVE  <<r, s>> \in P
  <2>1. CASE r \in L /\ s \in A
    BY <1>4, <2>1
  <2>2. CASE r \in L /\ s \in L
    <3>1. q \in L
      BY <1>4, <1>9, <2>2
    <3> QED
      BY <1>3, <1>9, <2>2, <3>1 DEF Orders
  <2>3. CASE r \in A
    <3>1. q \in A /\ s \in A
      BY <1>4, <1>9, <2>3
    <3> QED
      BY <1>1, <1>5, <1>9, <2>3, <3>1 DEF Orders
  <2> QED
    BY <2>1, <2>2, <2>3
<1> QED
  BY <1>6, <1>7, <1>8, <1>9 DEF Orders, P

\* A table that was filled from a file at once.
LEMMA FilledInv ==
  ASSUME NEW f \in Files, table = RulesOf(f), before = OfOneType(Listed(f, RulesOf(f))),
         dirty = HasPrefix(RulesOf(f)), file = f, added = Listed(f, RulesOf(f)), torn = FALSE
  PROVE  RouterInv
<1>1. Orders(added, table)
  BY ListedOrder
<1>2. before \subseteq OfOneType(table \X table)
  BY <1>1 DEF Orders, OfOneType
<1>3. ASSUME NEW r \in table, NEW q \in table, r.type = q.type,
             dirty /\ r.type = "prefix" => Length[r.pattern] = Length[q.pattern]
      PROVE  <<r, q>> \in before <=> InOrder(r, q)
  <2>1. <<r, q>> \in before <=> <<r, q>> \in added
    BY <1>3 DEF OfOneType
  <2>2. r.type = "prefix" => Length[r.pattern] = Length[q.pattern]
    BY <1>3 DEF HasPrefix
  <2>3. r \in Rule /\ q \in Rule
    BY FileType
  <2>4. ~(Rank[r.type] < Rank[q.type]) /\ Length[r.pattern] \in Nat /\ Length[q.pattern] \in Nat
    BY <1>3, <2>3, Ranks, RuleFacts
  <2> QED
    BY <1>3, <2>1, <2>2, <2>4 DEF InOrder
<1>4. dirty \in BOOLEAN /\ RulesInv
  BY FileRules DEF HasPrefix, RulesInv, TableIsFile
<1> QED
  BY <1>1, <1>2, <1>3, <1>4 DEF RouterInv, OrderInv

\* from_config fills the table with a file.
LEMMA RouterInitInv == RouterInit => RouterInv
BY FilledInv DEF RouterInit

\* So does a full reload.
LEMMA ReloadSimpleInv == ASSUME NEW f \in Files, ReloadSimple(f) PROVE RouterInv'
<1>1. Orders(added, table)'
  BY ListedOrder DEF ReloadSimple, Orders
<1>2. (before \subseteq OfOneType(table \X table))'
  BY <1>1 DEF Orders, OfOneType, ReloadSimple
<1>3. ASSUME NEW r \in table', NEW q \in table', r.type = q.type,
             dirty' /\ r.type = "prefix" => Length[r.pattern] = Length[q.pattern]
      PROVE  <<r, q>> \in before' <=> InOrder(r, q)'
  <2>1. <<r, q>> \in before' <=> <<r, q>> \in added'
    BY <1>3 DEF OfOneType, ReloadSimple
  <2>2. r.type = "prefix" => Length[r.pattern] = Length[q.pattern]
    BY <1>3 DEF HasPrefix, ReloadSimple
  <2>3. r \in Rule /\ q \in Rule
    BY FileType DEF ReloadSimple
  <2>4. ~(Rank[r.type] < Rank[q.type]) /\ Length[r.pattern] \in Nat /\ Length[q.pattern] \in Nat
    BY <1>3, <2>3, Ranks, RuleFacts
  <2> QED
    BY <1>3, <2>1, <2>2, <2>4 DEF InOrder
<1>4. dirty' \in BOOLEAN /\ file' \in Files /\ torn' \in BOOLEAN /\ RulesInv'
  BY FileRules DEF HasPrefix, ReloadSimple, RulesInv, TableIsFile
<1> QED
  BY <1>1, <1>2, <1>3, <1>4 DEF RouterInv, OrderInv

\* The rules after an incremental reload, one that stops half way, too.
LEMMA DiffRules ==
  ASSUME RouterInv, NEW f \in Files, ReloadDiff(f)
  PROVE  RulesInv' /\ file' \in Files /\ torn' \in BOOLEAN
<1> DEFINE L == Left(f)
           A == Added(f)
<1>1. /\ L \subseteq table /\ A \subseteq RulesOf(f) /\ \A r \in L, q \in A : r.id # q.id
  BY LeftApart
<1>2. table' = L \union A
  BY DEF ReloadDiff, DiffRoutes
<1>3. /\ RulesOf(f) \subseteq KnownRules /\ IsFiniteSet(RulesOf(f))
      /\ \A r, q \in RulesOf(f) : r.id = q.id => r = q
  BY FileRules
<1>4. /\ table \subseteq KnownRules /\ IsFiniteSet(table)
      /\ \A r, q \in table : r.id = q.id => r = q
  BY DEF RouterInv, RulesInv
<1>5. TableIsFile' /\ file' \in Files /\ torn' \in BOOLEAN
  <2>1. CASE Refused(f) = {} /\ file' = f /\ UNCHANGED torn
    BY <1>2, <2>1, LeftIsRest DEF RouterInv, TableIsFile
  <2>2. CASE torn' = TRUE /\ UNCHANGED file
    BY <2>2 DEF RouterInv, TableIsFile
  <2> QED
    BY <2>1, <2>2 DEF ReloadDiff
<1> HIDE DEF L, A
<1>6. IsFiniteSet(table')
  <2>1. IsFiniteSet(L) /\ IsFiniteSet(A)
    BY <1>1, <1>3, <1>4, FS_Subset
  <2> QED
    BY <1>2, <2>1, FS_Union
<1>7. table' \subseteq KnownRules /\ \A r, q \in table' : r.id = q.id => r = q
  BY <1>1, <1>2, <1>3, <1>4
<1> QED
  BY <1>5, <1>6, <1>7 DEF RulesInv, KnownRules, RulesOf

\* An incremental reload, with the order kept.
LEMMA ReloadDiffInv == ASSUME RouterInv, NEW f \in Files, ReloadDiff(f) PROVE RouterInv'
<1> DEFINE L == Left(f)
           A == Added(f)
<1>1. L \subseteq table /\ A \subseteq RulesOf(f) /\ L \intersect A = {}
  BY LeftApart
<1>2. table' = L \union A /\ added' = Pushed(added, L, A, f)
  BY DEF ReloadDiff, DiffRoutes
<1>3. Orders(added, table)'
  <2> HIDE DEF L, A
  <2>1. Orders(Pushed(added, L, A, f), L \union A)
    BY <1>1, PushedOrder DEF RouterInv, OrderInv
  <2> QED
    BY <1>2, <2>1 DEF Orders
<1>4. before' = OfOneType(Pushed(before, L, A, f))
  BY DEF ReloadDiff, DiffRoutes
<1>5. before \subseteq table \X table
  BY DEF RouterInv, OrderInv, OfOneType
<1>6. Listed(f, A) \subseteq A \X A
  BY DEF Listed
<1>7. dirty' = (dirty \/ HasPrefix(A)) /\ dirty \in BOOLEAN
  BY DEF ReloadDiff, DiffRoutes, RouterInv
<1>8. RulesInv' /\ file' \in Files /\ torn' \in BOOLEAN
  BY DiffRules
<1>9. table' \subseteq Rule
  BY <1>1, <1>2, FileType, TableFacts
<1> HIDE DEF L, A
<1>10. \A R : Pushed(R, L, A, f) = (R \intersect (L \X L)) \union (L \X A) \union Listed(f, A)
  BY DEF Pushed
<1>11. (before \subseteq OfOneType(table \X table))'
  BY <1>2, <1>4, <1>6, <1>10 DEF OfOneType
<1>12. ASSUME NEW r \in table', NEW q \in table', r.type = q.type,
              dirty' /\ r.type = "prefix" => Length[r.pattern] = Length[q.pattern]
       PROVE  <<r, q>> \in before' <=> InOrder(r, q)'
  <2>1. ~(Rank[r.type] < Rank[q.type]) /\ Length[r.pattern] \in Nat /\ Length[q.pattern] \in Nat
    BY <1>9, <1>12, Ranks, RuleFacts
  <2>2. CASE r \in L /\ q \in L
    <3>1. <<r, q>> \in before' <=> <<r, q>> \in before
      BY <1>1, <1>4, <1>6, <1>10, <1>12, <2>2 DEF OfOneType
    <3>2. <<r, q>> \in added' <=> <<r, q>> \in added
      BY <1>1, <1>2, <1>6, <1>10, <2>2
    <3>3. r \in table /\ q \in table /\ (dirty /\ r.type = "prefix" => Length[r.pattern] = Length[q.pattern])
      BY <1>1, <1>7, <1>12, <2>2
    <3>4. <<r, q>> \in before <=> InOrder(r, q)
      BY <1>12, <3>3 DEF RouterInv, OrderInv
    <3> QED
      BY <3>1, <3>2, <3>4 DEF InOrder
  <2>3. CASE r \in A \/ q \in A
    <3>1. <<r, q>> \in before' <=> <<r, q>> \in added'
      BY <1>1, <1>2, <1>4, <1>6, <1>10, <1>12, <2>3 DEF OfOneType
    <3>2. r.type = "prefix" => Length[r.pattern] = Length[q.pattern]
      BY <1>7, <1>12, <2>3 DEF HasPrefix
    <3> QED
      BY <1>12, <2>1, <3>1, <3>2 DEF InOrder
  <2> QED
    BY <1>2, <2>2, <2>3
<1> QED
  BY <1>3, <1>7, <1>8, <1>11, <1>12 DEF RouterInv, OrderInv

-----------------------------------------------------------------------------
(* Matching.                                                               *)

\* Sorted or not, the candidates stand in the order of a sorted table.
LEMMA AheadIsInOrder ==
  ASSUME RouterInv, NEW r \in table, NEW q \in table
  PROVE  Ahead(r, q) <=> InOrder(r, q)
<1>1. r \in Rule /\ q \in Rule
  BY TableFacts
<1>2. Length[r.pattern] \in Nat /\ Length[q.pattern] \in Nat
  BY <1>1, RuleFacts
<1>3. CASE r.type # q.type
  BY <1>3 DEF Ahead, InOrder
<1>4. CASE r.type = q.type
  <2>1. ~(Rank[r.type] < Rank[q.type])
    BY <1>1, <1>4, Ranks
  <2>2. CASE dirty /\ r.type = "prefix" /\ Length[r.pattern] # Length[q.pattern]
    BY <1>2, <1>4, <2>1, <2>2 DEF Ahead, LongerFirst, InOrder
  <2>3. CASE dirty /\ r.type = "prefix" => Length[r.pattern] = Length[q.pattern]
    <3>1. <<r, q>> \in before <=> InOrder(r, q)
      BY <1>4, <2>3 DEF RouterInv, OrderInv
    <3> QED
      BY <1>2, <1>4, <2>1, <2>3, <3>1 DEF Ahead, LongerFirst
  <2> QED
    BY <2>2, <2>3 DEF RouterInv
<1> QED
  BY <1>3, <1>4

\* Hence the late sort is invisible.
LEMMA LazySortFollows == RouterInv => LazySortInvisible
<1> SUFFICES ASSUME RouterInv, NEW r \in table, NEW q \in table
             PROVE  /\ Ahead(r, q) <=> InOrder(r, q)
                    /\ r # q => (Ahead(r, q) <=> ~Ahead(q, r))
  BY DEF LazySortInvisible
<1>1. table \subseteq Rule /\ Orders(added, table)
  BY TableFacts
<1> QED
  BY <1>1, AheadIsInOrder, InOrderTotal

\* The sort itself changes no order that can be seen.
LEMMA SortInv == ASSUME RouterInv, Sort PROVE RouterInv'
<1>1. \A r, q \in table : Ahead(r, q) <=> InOrder(r, q)
  BY AheadIsInOrder
<1>2. \A r, q \in table : InOrder(r, q)' <=> InOrder(r, q)
  BY DEF Sort, InOrder
<1>3. ASSUME NEW r \in table, NEW q \in table, r.type = q.type
      PROVE  <<r, q>> \in before' <=> InOrder(r, q)'
  BY <1>1, <1>2, <1>3 DEF Sort, OfOneType
<1>4. (before \subseteq OfOneType(table \X table))' /\ Orders(added, table)'
  BY DEF Sort, OfOneType, RouterInv, OrderInv, Orders
<1>5. (file \in Files /\ dirty \in BOOLEAN /\ torn \in BOOLEAN /\ RulesInv)'
  BY DEF Sort, RouterInv, RulesInv, TableIsFile
<1> QED
  BY <1>3, <1>4, <1>5 DEF RouterInv, OrderInv, Sort

\* Any of the rules that are left at a stage have a first, ahead of the others.
LEMMA FirstExists ==
  ASSUME RouterInv, NEW S \in SUBSET table, S # {}
  PROVE  FirstOf(S) \in S /\ \A q \in S \ {FirstOf(S)} : Ahead(FirstOf(S), q)
<1> DEFINE R == {rq \in S \X S : InOrder(rq[1], rq[2])}
<1>1. IsFiniteSet(S)
  BY TableFacts, FS_Subset
<1>2. \A r, q \in S : <<r, q>> \in R <=> InOrder(r, q)
  OBVIOUS
<1>3. \A r \in S : <<r, r>> \notin R
  BY <1>2, TableFacts, InOrderTotal
<1>4. \A r, q, s \in S : <<r, q>> \in R /\ <<q, s>> \in R => <<r, s>> \in R
  BY <1>2, TableFacts, InOrderTransitive
<1>5. PICK r \in S : \A q \in S : <<q, r>> \notin R
  <2> HIDE DEF R
  <2> QED
    BY <1>1, <1>3, <1>4, MinimalExists
<1>6. ASSUME NEW q \in S \ {r} PROVE Ahead(r, q)
  <2>1. ~InOrder(q, r)
    BY <1>2, <1>5
  <2>2. InOrder(r, q)
    BY <2>1, TableFacts, InOrderTotal
  <2> QED
    BY <2>2, AheadIsInOrder
<1> QED
  BY <1>5, <1>6 DEF FirstOf

\* The only rule is the first.
LEMMA OnlyIsFirst == \A r : FirstOf({r}) = r
BY DEF FirstOf

\* match_route returns a candidate or nothing.
LEMMA ChoiceType ==
  ASSUME RouterInv, NEW S \in SUBSET table, NEW cookies, NEW signals, NEW v
  PROVE  Choice(S, cookies, signals, v) \in S \union {None}
<1> DEFINE rest == IF Weighed(S, v) # {} THEN Weighed(S, v) ELSE Plain(S)
           T    == IF Cardinality(S) = 1 THEN S
                   ELSE IF Conditioned(S, signals) # {} THEN Conditioned(S, signals)
                   ELSE IF Remembered(S, cookies) # {} THEN Remembered(S, cookies)
                   ELSE rest
<1>1. T \subseteq S
  <2>1. Weighed(S, v) \subseteq S /\ Plain(S) \subseteq S
    BY DEF Weighed, Plain
  <2>2. Conditioned(S, signals) \subseteq S /\ Remembered(S, cookies) \subseteq S
    BY DEF Conditioned, Remembered
  <2> QED
    BY <2>1, <2>2
<1>2. Choice(S, cookies, signals, v) = IF T = {} THEN None ELSE FirstOf(T)
  BY DEF Choice
<1>3. T # {} => FirstOf(T) \in T
  <2> HIDE DEF T
  <2> QED
    BY <1>1, FirstExists
<1> HIDE DEF T
<1> QED
  BY <1>1, <1>2, <1>3

-----------------------------------------------------------------------------
(* The registry's answer.                                                  *)

\* resolve_path returns a candidate.
LEMMA ResolvePathType == ASSUME NEW p PROVE ResolvePath(p) \subseteq Candidates(p)
BY DEF ResolvePath, Entries, LongestOf

\* A set of rules has a longest pattern.
LEMMA LongestExists ==
  ASSUME RouterInv, NEW S \in SUBSET table, S # {}
  PROVE  LongestOf(S) # {}
<1> DEFINE R == {rq \in S \X S : Length[rq[1].pattern] > Length[rq[2].pattern]}
<1>1. IsFiniteSet(S)
  BY TableFacts, FS_Subset
<1>2. \A r, q \in S : <<r, q>> \in R <=> Length[r.pattern] > Length[q.pattern]
  OBVIOUS
<1>3. \A r \in S : Length[r.pattern] \in Nat
  BY TableFacts, RuleFacts
<1>4. \A r \in S : <<r, r>> \notin R
  BY <1>2, <1>3
<1>5. \A r, q, s \in S : <<r, q>> \in R /\ <<q, s>> \in R => <<r, s>> \in R
  BY <1>2, <1>3
<1>6. PICK r \in S : \A q \in S : <<q, r>> \notin R
  <2> HIDE DEF R
  <2> QED
    BY <1>1, <1>4, <1>5, MinimalExists
<1> HIDE DEF R
<1>7. ASSUME NEW q \in S PROVE Length[q.pattern] <= Length[r.pattern]
  <2>1. ~(Length[q.pattern] > Length[r.pattern])
    BY <1>2, <1>6
  <2>2. Length[q.pattern] \in Nat /\ Length[r.pattern] \in Nat
    BY <1>3
  <2> QED
    BY <2>1, <2>2
<1> QED
  BY <1>7 DEF LongestOf

\* The registry and the candidate in front agree.
LEMMA ResolveFollows == RouterInv => ResolveAgrees
<1> SUFFICES ASSUME RouterInv, NEW p \in Path
             PROVE  /\ ResolvePath(p) = {} => Candidates(p) = {}
                    /\ \A r \in ResolvePath(p), q \in Leaders(p) :
                         r.type = q.type
                         /\ (r.type = "prefix" => Length[r.pattern] = Length[q.pattern])
  BY DEF ResolveAgrees
<1>1. Candidates(p) \subseteq table /\ table \subseteq Rule
  BY TableFacts DEF Candidates
<1>2. \A r \in Candidates(p) : r.type = "prefix" => Length[r.pattern] > 0
  BY <1>1, TableFacts
<1> DEFINE P == {r \in Entries(p, "prefix") : Length[r.pattern] > 0}
<1>3. P = Entries(p, "prefix") /\ P \subseteq table
  BY <1>1, <1>2 DEF Entries
<1>4. \A r \in Candidates(p) : r \in Entries(p, r.type) /\ r.type \in {"exact", "regex", "prefix"}
  BY <1>1, RuleFacts DEF Entries
<1>5. ResolvePath(p) = {} => Candidates(p) = {}
  <2>1. P # {} => LongestOf(P) # {}
    <3> HIDE DEF P
    <3> QED
      BY <1>3, LongestExists
  <2> QED
    BY <1>3, <1>4, <2>1 DEF ResolvePath
<1>6. ASSUME NEW r \in ResolvePath(p), NEW q \in Leaders(p)
      PROVE  /\ r.type = q.type
             /\ r.type = "prefix" => Length[r.pattern] = Length[q.pattern]
  <2>1. r \in Candidates(p) /\ q \in Candidates(p) /\ ~Ahead(r, q)
    BY ResolvePathType DEF Leaders
  <2>2. r = q \/ InOrder(q, r)
    BY <1>1, <2>1, TableFacts, AheadIsInOrder, InOrderTotal
  <2>3. r = q \/ Rank[q.type] < Rank[r.type] \/ q.type = r.type
    BY <2>2 DEF InOrder
  <2>4. r.type = q.type
    <3>1. CASE Entries(p, "exact") # {}
      BY <1>4, <2>1, <2>3, <3>1 DEF ResolvePath, Entries, Rank
    <3>2. CASE Entries(p, "exact") = {} /\ Entries(p, "regex") # {}
      BY <1>4, <2>1, <2>3, <3>2 DEF ResolvePath, Entries, Rank
    <3>3. CASE Entries(p, "exact") = {} /\ Entries(p, "regex") = {}
      BY <1>4, <2>1, <3>3 DEF ResolvePath, Entries
    <3> QED
      BY <3>1, <3>2, <3>3
  <2>5. ASSUME r.type = "prefix" PROVE Length[r.pattern] = Length[q.pattern]
    <3>1. r \in LongestOf(P) /\ q \in P
      BY <1>3, <1>4, <2>1, <2>4, <2>5 DEF ResolvePath, Entries
    <3>2. Length[q.pattern] <= Length[r.pattern]
      BY <3>1 DEF LongestOf
    <3>3. Length[r.pattern] \in Nat /\ Length[q.pattern] \in Nat
      BY <1>1, <2>1, RuleFacts
    <3>4. r = q \/ Length[q.pattern] >= Length[r.pattern]
      BY <1>1, <2>1, <2>2, <2>4, <2>5, <3>3, Ranks DEF InOrder
    <3> QED
      BY <3>2, <3>3, <3>4
  <2> QED
    BY <2>4, <2>5
<1> QED
  BY <1>5, <1>6

-----------------------------------------------------------------------------
(* Sums of weights.                                                        *)

\* The weight of a rule.
LEMMA WeightType ==
  ASSUME NEW r \in Rule
  PROVE  /\ Weight(r) \in 0 .. Hundred
         /\ r.canary = None => Weight(r) = 0
         /\ r.canary # None => Weight(r) = r.canary.weight
BY HundredAssumption DEF Weight, Rule, Canary

\* Finitely many rules have a sum.
LEMMA TotalType ==
  ASSUME NEW S \in SUBSET Rule, IsFiniteSet(S)
  PROVE  IsFiniteSet(Units(S)) /\ Total(S) \in Nat
<1>1. IsFiniteSet(1 .. Hundred)
  BY HundredAssumption, FS_Interval
<1>2. IsFiniteSet(S \X (1 .. Hundred))
  BY <1>1, FS_Product
<1>3. IsFiniteSet(Units(S))
  BY <1>2, FS_Subset DEF Units
<1> QED
  BY <1>3, FS_CardinalityType DEF Total

\* Fewer rules have no more weight.
LEMMA TotalGrows ==
  ASSUME NEW S \in SUBSET Rule, IsFiniteSet(S), NEW T \in SUBSET S
  PROVE  Total(T) <= Total(S)
<1>1. Units(T) \in SUBSET Units(S)
  BY DEF Units
<1> QED
  BY <1>1, TotalType, FS_Subset DEF Total

\* A rule adds its weight.
LEMMA TotalAdds ==
  ASSUME NEW S \in SUBSET Rule, IsFiniteSet(S), NEW r \in Rule \ S
  PROVE  Total(S \union {r}) = Total(S) + Weight(r)
<1>1. Weight(r) \in 0 .. Hundred /\ Hundred \in Nat
  BY WeightType, HundredAssumption
<1>2. Units({r}) = {r} \X (1 .. Weight(r))
  BY <1>1 DEF Units
<1>3. IsFiniteSet(1 .. Weight(r)) /\ Cardinality(1 .. Weight(r)) = Weight(r)
  BY <1>1, FS_Interval
<1>4. IsFiniteSet({r}) /\ Cardinality({r}) = 1
  BY FS_Singleton
<1>5. IsFiniteSet(Units({r})) /\ Cardinality(Units({r})) = Weight(r)
  <2>1. /\ IsFiniteSet({r} \X (1 .. Weight(r)))
        /\ Cardinality({r} \X (1 .. Weight(r))) = Cardinality({r}) * Cardinality(1 .. Weight(r))
    BY <1>3, <1>4, FS_Product
  <2>2. 1 * Weight(r) = Weight(r)
    BY <1>1
  <2> QED
    BY <1>2, <1>3, <1>4, <2>1, <2>2
<1>6. Units(S \union {r}) = Units(S) \union Units({r}) /\ Units(S) \intersect Units({r}) = {}
  BY DEF Units
<1>7. Cardinality(Units(S) \intersect Units({r})) = 0
  BY <1>6, FS_EmptySet
<1>8. IsFiniteSet(Units(S)) /\ Cardinality(Units(S)) \in Nat
  BY TotalType DEF Total
<1>9. Cardinality(Units(S) \union Units({r}))
        = Cardinality(Units(S)) + Weight(r) - 0
  BY <1>5, <1>7, <1>8, FS_Union
<1>10. Cardinality(Units(S) \union Units({r})) = Cardinality(Units(S)) + Weight(r)
  BY <1>1, <1>8, <1>9
<1> QED
  BY <1>6, <1>10 DEF Total

\* Rules without a canary add nothing.
LEMMA PlainAddsNothing ==
  ASSUME NEW S \in SUBSET Rule, NEW T \in SUBSET S, \A r \in S \ T : r.canary = None
  PROVE  Total(S) = Total(T)
<1>1. ASSUME NEW ru \in Units(S) PROVE ru \in Units(T)
  <2>1. ru[1] \in S /\ ru[2] \in 1 .. Hundred /\ ru[2] <= Weight(ru[1])
    BY <1>1 DEF Units
  <2>2. Weight(ru[1]) > 0
    BY <2>1, HundredAssumption, WeightType
  <2>3. ru[1] \in T
    BY <2>1, <2>2, WeightType
  <2> QED
    BY <1>1, <2>3 DEF Units
<1>2. Units(T) \subseteq Units(S)
  BY DEF Units
<1> QED
  BY <1>1, <1>2 DEF Total

-----------------------------------------------------------------------------
(* Shares.                                                                 *)

\* The candidates that stand ahead of r, and where its share starts.
Earlier(S, r) == {q \in S : Ahead(q, r)}

Start(S, r) == Total(Earlier(S, r))

\* Ahead is a strict total order of the table.
LEMMA AheadOrder ==
  ASSUME RouterInv, NEW r \in table, NEW q \in table, NEW s \in table
  PROVE  /\ ~Ahead(r, r)
         /\ r # q => (Ahead(r, q) <=> ~Ahead(q, r))
         /\ Ahead(r, q) /\ Ahead(q, s) => Ahead(r, s)
BY AheadIsInOrder, TableFacts, InOrderTotal, InOrderTransitive

\* Any set of rules has a last.
LEMMA LastExists ==
  ASSUME RouterInv, NEW S \in SUBSET table, S # {}
  PROVE  \E r \in S : \A q \in S \ {r} : Ahead(q, r)
<1> DEFINE R == {rq \in S \X S : Ahead(rq[2], rq[1])}
<1>1. IsFiniteSet(S)
  BY TableFacts, FS_Subset
<1>2. \A r, q \in S : <<r, q>> \in R <=> Ahead(q, r)
  OBVIOUS
<1>3. \A r \in S : <<r, r>> \notin R
  BY <1>2, AheadOrder
<1>4. \A r, q, s \in S : <<r, q>> \in R /\ <<q, s>> \in R => <<r, s>> \in R
  BY <1>2, AheadOrder
<1>5. PICK r \in S : \A q \in S : <<q, r>> \notin R
  <2> HIDE DEF R
  <2> QED
    BY <1>1, <1>3, <1>4, MinimalExists
<1>6. \A q \in S \ {r} : Ahead(q, r)
  BY <1>2, <1>5, AheadOrder
<1> QED
  BY <1>6

\* Candidates and their sums.
LEMMA SumFacts ==
  ASSUME RouterInv, NEW S \in SUBSET table, NEW r \in S
  PROVE  /\ IsFiniteSet(S) /\ S \subseteq Rule /\ Total(S) \in Nat
         /\ Start(S, r) \in Nat /\ Weight(r) \in Nat
         /\ Cumulative(S, r) = Start(S, r) + Weight(r)
         /\ Cumulative(S, r) <= Total(S)
<1> DEFINE E == Earlier(S, r)
           C == {q \in S : q = r \/ Ahead(q, r)}
<1>1. IsFiniteSet(S) /\ S \subseteq Rule
  BY TableFacts, FS_Subset
<1>2. E \in SUBSET S /\ C \in SUBSET S /\ C = E \union {r} /\ r \notin E
  BY AheadOrder DEF Earlier
<1>3. IsFiniteSet(E) /\ E \in SUBSET Rule
  BY <1>1, <1>2, FS_Subset
<1>4. Start(S, r) = Total(E) /\ Cumulative(S, r) = Total(C)
  BY DEF Start, Cumulative
<1>5. Weight(r) \in Nat
  BY <1>1, WeightType, HundredAssumption
<1> HIDE DEF E, C
<1>6. Total(E \union {r}) = Total(E) + Weight(r)
  BY <1>1, <1>2, <1>3, TotalAdds
<1>7. Total(C) <= Total(S)
  BY <1>1, <1>2, TotalGrows
<1> QED
  BY <1>1, <1>2, <1>3, <1>4, <1>5, <1>6, <1>7, TotalType

\* The share of a rule ends before the share of a later one starts.
LEMMA SharesApart ==
  ASSUME RouterInv, NEW S \in SUBSET table, NEW r \in S, NEW q \in S, Ahead(q, r)
  PROVE  Cumulative(S, q) <= Start(S, r)
<1>1. {s \in S : s = q \/ Ahead(s, q)} \in SUBSET Earlier(S, r)
  BY AheadOrder DEF Earlier
<1>2. IsFiniteSet(Earlier(S, r)) /\ Earlier(S, r) \in SUBSET Rule
  BY TableFacts, FS_Subset DEF Earlier
<1> QED
  BY <1>1, <1>2, TotalGrows DEF Cumulative, Start

\* A value below the start of a share is below the sum of a canary ahead.
LEMMA EarlierShare ==
  ASSUME RouterInv, NEW S \in SUBSET table, NEW r \in S, NEW v \in Nat, v < Start(S, r)
  PROVE  \E q \in Weighed(S, v) : Ahead(q, r)
<1> DEFINE E == Earlier(S, r)
           K == {q \in E : q.canary # None}
<1>1. E \in SUBSET S /\ K \in SUBSET E /\ E \in SUBSET table /\ E \in SUBSET Rule
  BY TableFacts DEF Earlier
<1>2. Total(E) = Total(K)
  BY <1>1, PlainAddsNothing
<1>3. K # {}
  <2>1. Units({}) = {} /\ Total({}) = 0
    BY FS_EmptySet DEF Units, Total
  <2> QED
    BY <1>2, <2>1 DEF Start
<1>4. PICK q \in K : \A s \in K \ {q} : Ahead(s, q)
  <2> HIDE DEF K
  <2> QED
    BY <1>1, <1>3, LastExists
<1> DEFINE C == {s \in S : s = q \/ Ahead(s, q)}
<1>5. K \in SUBSET C /\ C \in SUBSET S
  BY <1>1, <1>4
<1>6. Total(K) <= Total(C)
  <2>1. IsFiniteSet(C) /\ C \in SUBSET Rule
    BY <1>5, TableFacts, FS_Subset
  <2> QED
    BY <1>5, <2>1, TotalGrows
<1>7. Start(S, r) <= Cumulative(S, q)
  BY <1>2, <1>6 DEF Start, Cumulative
<1>8. Start(S, r) \in Nat /\ Cumulative(S, q) \in Nat
  BY <1>1, <1>4, SumFacts
<1> QED
  BY <1>1, <1>4, <1>7, <1>8 DEF Weighed, Earlier

\* Without cookies and conditions, a choice among several is one by weight.
LEMMA WeightChoice ==
  ASSUME RouterInv, NEW S \in SUBSET table, Cardinality(S) # 1, NEW v
  PROVE  /\ Weighed(S, v) # {} => Choice(S, NoCookies, {}, v) = FirstOf(Weighed(S, v))
         /\ Weighed(S, v) = {} /\ Plain(S) # {} =>
              Choice(S, NoCookies, {}, v) = FirstOf(Plain(S))
         /\ Weighed(S, v) = {} /\ Plain(S) = {} => Choice(S, NoCookies, {}, v) = None
<1>1. Conditioned(S, {}) = {}
  BY DEF Conditioned
<1>2. Remembered(S, NoCookies) = {}
  <2>1. CASE Sticking(S, "cookie") = {}
    BY <2>1 DEF Remembered
  <2>2. CASE Sticking(S, "cookie") # {}
    <3> DEFINE r == FirstOf(Sticking(S, "cookie"))
    <3>1. Sticking(S, "cookie") \in SUBSET table
      BY DEF Sticking
    <3>2. r \in table /\ r.canary # None
      BY <2>2, <3>1, FirstExists DEF Sticking
    <3>3. r.canary.cookie \in CookieName
      BY <3>2, TableFacts DEF Rule, Canary
    <3>4. NoCookies[r.canary.cookie] = None
      BY <3>3 DEF NoCookies
    <3>5. \A q \in S : q.id # None
      BY TableFacts, RuleFacts, NamesAssumption
    <3> QED
      BY <2>2, <3>4, <3>5 DEF Remembered
  <2> QED
    BY <2>1, <2>2
<1> QED
  BY <1>1, <1>2 DEF Choice

\* The share of a canary is an interval as long as its weight, where it fits.
LEMMA ShareIsInterval ==
  ASSUME RouterInv, NEW S \in SUBSET table, Cardinality(S) # 1, NEW r \in S, r.canary # None
  PROVE  Share(S, r) =
           {v \in 0 .. Hundred - 1 : Start(S, r) <= v /\ v < Start(S, r) + Weight(r)}
<1> SUFFICES ASSUME NEW v \in 0 .. Hundred - 1
             PROVE  Choice(S, NoCookies, {}, v) = r
                      <=> Start(S, r) <= v /\ v < Start(S, r) + Weight(r)
  BY DEF Share
<1> DEFINE W == Weighed(S, v)
<1>1. v \in Nat /\ W \in SUBSET table /\ Plain(S) \in SUBSET table /\ r \notin Plain(S) /\ r # None
  BY HundredAssumption, TableFacts, RuleFacts DEF Weighed, Plain
<1>2. Start(S, r) \in Nat /\ Weight(r) \in Nat /\ Cumulative(S, r) = Start(S, r) + Weight(r)
  BY SumFacts
<1>3. ASSUME Choice(S, NoCookies, {}, v) = r
      PROVE  Start(S, r) <= v /\ v < Start(S, r) + Weight(r)
  <2>1. W # {}
    BY <1>1, <1>3, WeightChoice, FirstExists
  <2>2. r = FirstOf(W)
    BY <1>3, <2>1, WeightChoice
  <2>3. r \in W
    BY <1>1, <2>1, <2>2, FirstExists
  <2>4. \A q \in W : ~Ahead(q, r)
    BY <1>1, <2>1, <2>2, FirstExists, AheadOrder
  <2>5. ~(v < Start(S, r))
    BY <1>1, <2>4, EarlierShare
  <2> QED
    BY <1>1, <1>2, <2>3, <2>5 DEF Weighed
<1>4. ASSUME Start(S, r) <= v, v < Start(S, r) + Weight(r)
      PROVE  Choice(S, NoCookies, {}, v) = r
  <2>1. r \in W
    BY <1>2, <1>4 DEF Weighed
  <2>2. FirstOf(W) \in W /\ FirstOf(W) \in S
    BY <1>1, <2>1, FirstExists DEF Weighed
  <2>3. v < Cumulative(S, FirstOf(W)) /\ Cumulative(S, FirstOf(W)) \in Nat
    BY <2>2, SumFacts DEF Weighed
  <2>4. ~Ahead(FirstOf(W), r)
    BY <1>1, <1>2, <1>4, <2>2, <2>3, SharesApart
  <2>5. FirstOf(W) = r
    BY <1>1, <2>1, <2>4, FirstExists
  <2> QED
    BY <2>1, <2>5, WeightChoice
<1> QED
  BY <1>3, <1>4

\* Shares are as large as the weights say.
LEMMA SharesFollow == RouterInv => SharesHold
<1> SUFFICES ASSUME RouterInv, ~torn, NEW p \in Path, Cardinality(Candidates(p)) > 1,
                    \A r, q \in Candidates(p) : r.counted = q.counted,
                    NEW r \in Candidates(p), r \notin Plain(Candidates(p))
             PROVE  Cardinality(Share(Candidates(p), r)) = r.canary.weight
  BY DEF SharesHold
<1> DEFINE S == Candidates(p)
           K == {q \in RulesOf(file) : q.counted = r.counted}
           a == Start(S, r)
           w == Weight(r)
<1>1. S \in SUBSET table /\ r \in Rule /\ r.canary # None /\ Cardinality(S) # 1
  BY TableFacts DEF Candidates, Plain
<1>2. w = r.canary.weight
  BY <1>1, WeightType
<1>3. Total(K) <= Hundred
  <2>1. r.counted \in Pattern
    BY <1>1 DEF Rule
  <2> QED
    BY <2>1, FileType DEF RouterInv, Accepted
<1>4. S \in SUBSET K /\ K \in SUBSET Rule /\ IsFiniteSet(K)
  BY <1>1, FileType, RulesFinite, FS_Subset DEF RouterInv, RulesInv, TableIsFile
<1>5. Total(S) <= Total(K) /\ Total(K) \in Nat
  <2> HIDE DEF S, K
  <2> QED
    BY <1>4, TotalGrows, TotalType
<1>6. a \in Nat /\ w \in Nat /\ a + w <= Total(S) /\ Total(S) \in Nat
  BY <1>1, SumFacts
<1>7. a + w <= Hundred /\ Hundred \in Nat
  BY <1>3, <1>5, <1>6, HundredAssumption
<1>8. Share(S, r) = {v \in 0 .. Hundred - 1 : a <= v /\ v < a + w}
  BY <1>1, ShareIsInterval
<1> HIDE DEF a, w
<1>9. {v \in 0 .. Hundred - 1 : a <= v /\ v < a + w} = a .. (a + w - 1)
  BY <1>6, <1>7
<1>10. Cardinality(a .. (a + w - 1)) = w
  BY <1>6, FS_Interval
<1> QED
  BY <1>2, <1>8, <1>9, <1>10

\* The last of several canaries that fill the whole is below no value.
LEMMA LastServes ==
  ASSUME RouterInv, NEW S \in SUBSET table, Plain(S) = {}, Total(S) >= Hundred,
         NEW v \in 0 .. Hundred - 1
  PROVE  Weighed(S, v) # {}
<1>1. Hundred \in Nat \ {0}
  BY HundredAssumption
<1>2. S # {}
  <2>1. Units({}) = {} /\ Total({}) = 0
    BY FS_EmptySet DEF Units, Total
  <2> QED
    BY <1>1, <2>1
<1>3. PICK r \in S : \A q \in S \ {r} : Ahead(q, r)
  BY <1>2, LastExists
<1>4. {q \in S : q = r \/ Ahead(q, r)} = S
  BY <1>3
<1>5. Cumulative(S, r) = Total(S) /\ Total(S) \in Nat
  BY <1>4, SumFacts DEF Cumulative
<1> QED
  BY <1>1, <1>5 DEF Weighed, Plain

\* Where the weights fill the whole, every value finds a route.
LEMMA EveryValueFollows == RouterInv => EveryValueServed
<1> SUFFICES ASSUME RouterInv, NEW p \in Path, NEW hash \in 0 .. Hundred - 1,
                    Plain(Candidates(p)) # {} \/ Total(Candidates(p)) >= Hundred,
                    NEW v \in Values(Candidates(p), hash)
             PROVE  Choice(Candidates(p), NoCookies, {}, v) # None
  BY DEF EveryValueServed
<1> DEFINE S == Candidates(p)
<1>1. S \in SUBSET table /\ v \in 0 .. Hundred - 1
  BY DEF Candidates, Values
<1>2. \A r \in S : r # None
  BY <1>1, TableFacts, RuleFacts
<1>3. CASE Cardinality(S) = 1
  <2>1. IsFiniteSet(S)
    BY <1>1, TableFacts, FS_Subset
  <2>2. S # {}
    BY <1>3, FS_EmptySet
  <2>3. Choice(S, NoCookies, {}, v) = FirstOf(S)
    BY <1>3, <2>2 DEF Choice
  <2> QED
    BY <1>1, <1>2, <2>2, <2>3, FirstExists
<1>4. CASE Cardinality(S) # 1
  <2>1. Weighed(S, v) # {} \/ Plain(S) # {}
    BY <1>1, LastServes
  <2>2. Weighed(S, v) \in SUBSET S /\ Plain(S) \in SUBSET S
    BY DEF Weighed, Plain
  <2>3. CASE Weighed(S, v) # {}
    BY <1>1, <1>2, <1>4, <2>2, <2>3, WeightChoice, FirstExists
  <2>4. CASE Weighed(S, v) = {}
    BY <1>1, <1>2, <1>4, <2>1, <2>2, <2>4, WeightChoice, FirstExists
  <2> QED
    BY <2>3, <2>4
<1> QED
  BY <1>3, <1>4

-----------------------------------------------------------------------------
(* SortedTable: the order that matching sees is always sorted.             *)

\* Its words for a list of rules, and what is asked of an arrival.
LEMMA SortedFacts ==
  /\ \A f : Table!RulesIn(f) = RulesOf(f) /\ Table!InFile(f) = Listed(f, RulesOf(f))
  /\ \A R, A, B :
       (\A r, q \in R : ~Table!Precedes(r, q) /\ ~Table!Precedes(q, r)
                          => (<<r, q>> \in A <=> <<r, q>> \in B))
         => Table!Sorted(R, A) = Table!Sorted(R, B)
<1>1. ASSUME NEW f
      PROVE  Table!RulesIn(f) = RulesOf(f) /\ Table!InFile(f) = Listed(f, RulesOf(f))
  BY DEF Table!RulesIn, Table!InFile, RulesOf, Listed
<1>2. ASSUME NEW R, NEW A, NEW B,
             \A r, q \in R : ~Table!Precedes(r, q) /\ ~Table!Precedes(q, r)
                               => (<<r, q>> \in A <=> <<r, q>> \in B)
      PROVE  Table!Sorted(R, A) = Table!Sorted(R, B)
  BY <1>2 DEF Table!Sorted
<1> QED
  BY <1>1, <1>2

\* InOrder in its words.
LEMMA InOrderPrecedes ==
  ASSUME NEW r \in Rule, NEW q \in Rule
  PROVE  InOrder(r, q) <=> \/ Table!Precedes(r, q)
                           \/ ~Table!Precedes(q, r) /\ <<r, q>> \in added
<1>1. /\ r.type \in {"exact", "regex", "prefix"} /\ q.type \in {"exact", "regex", "prefix"}
      /\ Length[r.pattern] \in Nat /\ Length[q.pattern] \in Nat
      /\ r.type # q.type => (Rank[r.type] < Rank[q.type] <=> ~(Rank[q.type] < Rank[r.type]))
      /\ r.type = q.type => ~(Rank[r.type] < Rank[q.type])
  BY RuleFacts, Ranks
<1> QED
  BY <1>1 DEF InOrder, Table!Precedes

\* The order that is seen is that of a list sorted now,
SeenSorted == Seen = Table!Sorted(table, added)

\* after any reloads
LEMMA SeenIsSorted == RouterInv => SeenSorted
<1> SUFFICES ASSUME RouterInv PROVE Seen = Table!Sorted(table, added)
  BY DEF SeenSorted
<1>1. ASSUME NEW r \in table, NEW q \in table
      PROVE  Ahead(r, q) <=> \/ Table!Precedes(r, q)
                             \/ ~Table!Precedes(q, r) /\ <<r, q>> \in added
  BY AheadIsInOrder, InOrderPrecedes, TableFacts
<1> QED
  BY <1>1 DEF Seen, Table!Sorted

\* and the next.
LEMMA SeenStaysSorted == RouterInv' => SeenSorted'
BY SeenIsSorted, PTL

\* A list that is sorted can stand as it is seen,
SeenStands == Table!InPlace(table, Seen)

\* after any reloads
LEMMA SeenIsInPlace == RouterInv => SeenStands
<1> SUFFICES ASSUME RouterInv PROVE Table!InPlace(table, Seen)
  BY DEF SeenStands
<1>1. \A r, q \in table : <<r, q>> \in Seen <=> Ahead(r, q)
  BY DEF Seen
<1>2. ASSUME NEW r \in table, NEW q \in table
      PROVE  /\ Table!Precedes(r, q) => <<r, q>> \in Seen
             /\ <<r, q>> \in Seen <=> r # q /\ <<q, r>> \notin Seen
  <2>1. Table!Precedes(r, q) => Ahead(r, q)
    BY AheadIsInOrder, InOrderPrecedes, TableFacts
  <2> QED
    BY <1>1, <2>1, AheadOrder
<1>3. \A r, q, s \in table :
        <<r, q>> \in Seen /\ <<q, s>> \in Seen => <<r, s>> \in Seen
  BY <1>1, AheadOrder
<1>4. Seen \subseteq table \X table
  BY DEF Seen
<1> QED
  BY <1>2, <1>3, <1>4 DEF Table!InPlace

\* and the next.
LEMMA SeenStaysInPlace == RouterInv' => SeenStands'
BY SeenIsInPlace, PTL

\* A table that is sorted once is sorted.
LEMMA SortedTwice ==
  ASSUME NEW R, NEW A
  PROVE  Table!Sorted(R, Table!Sorted(R, A)) = Table!Sorted(R, A)
BY DEF Table!Sorted

\* The table that from_config fills is sorted.
LEMMA FilledSorted == RouterInit => Table!Init
<1> SUFFICES ASSUME RouterInit PROVE Table!Init
  OBVIOUS
<1>1. PICK f \in Files : table = RulesOf(f) /\ added = Listed(f, RulesOf(f)) /\ ~torn
  BY DEF RouterInit
<1>2. Seen = Table!Sorted(table, added)
  BY RouterInitInv, SeenIsSorted DEF SeenSorted
<1> QED
  BY <1>1, <1>2, SortedFacts DEF Table!Init, Table!Filled

\* A full reload fills it anew.
LEMMA SimpleRefills ==
  ASSUME RouterInv', NEW f \in Files, ReloadSimple(f)
  PROVE  Table!Refill(f)
<1>1. Seen' = Table!Sorted(table', added')
  BY SeenStaysSorted DEF SeenSorted
<1> QED
  BY <1>1, SortedFacts DEF Table!Refill, Table!Filled, ReloadSimple

\* The rules that an incremental reload leaves keep the order they have.
LEMMA LeftStay ==
  ASSUME RouterInv, RouterInv', NEW f \in Files, ReloadDiff(f), NEW R \in SUBSET Left(f)
  PROVE  Table!Stay(R)
<1> DEFINE L == Left(f)
           A == Added(f)
<1>1. L \subseteq table /\ A \subseteq RulesOf(f) /\ L \intersect A = {}
  BY LeftApart
<1>2. table' = L \union A /\ added' = Pushed(added, L, A, f)
  BY DEF ReloadDiff, DiffRoutes
<1>3. Pushed(added, L, A, f) = (added \intersect (L \X L)) \union (L \X A) \union Listed(f, A)
  BY DEF Pushed
<1>4. Listed(f, A) \subseteq A \X A
  BY DEF Listed
<1> HIDE DEF L, A
<1>5. \A r, q \in L : <<r, q>> \in added' <=> <<r, q>> \in added
  BY <1>1, <1>2, <1>3, <1>4
<1>6. Seen = Table!Sorted(table, added) /\ Seen' = Table!Sorted(table', added')
  BY SeenIsSorted, SeenStaysSorted DEF SeenSorted
<1>7. \A r, q \in L : <<r, q>> \in Seen' <=> <<r, q>> \in Seen
  BY <1>1, <1>2, <1>5, <1>6 DEF Table!Sorted
<1>8. R \subseteq L /\ R \subseteq table'
  BY <1>2 DEF L
<1>9. Seen' \intersect (R \X R) = Seen \intersect (R \X R)
  BY <1>7, <1>8
<1> QED
  BY <1>8, <1>9 DEF Table!Stay

\* An incremental reload of the whole file merges, or changes nothing.
LEMMA DiffMerges ==
  ASSUME RouterInv, RouterInv', NEW f \in Files, ReloadDiff(f), ~torn, ~torn'
  PROVE  Table!Merge(f) \/ UNCHANGED <<table, Seen, torn>>
<1>1. Refused(f) = {} /\ torn' = torn
  BY DEF ReloadDiff
<1>2. table' = RulesOf(f) /\ Left(f) = table \intersect RulesOf(f)
  BY <1>1, LeftIsRest DEF ReloadDiff, DiffRoutes
<1>3. Table!Stay(table \intersect RulesOf(f))
  BY <1>2, LeftStay
<1>4. Table!InPlace(table', Seen')
  BY SeenStaysInPlace DEF SeenStands
<1>5. CASE table = RulesOf(f)
  <2>1. Seen' \intersect (table \X table) = Seen \intersect (table \X table)
    BY <1>3, <1>5 DEF Table!Stay
  <2>2. Seen \subseteq table \X table /\ Seen' \subseteq table' \X table'
    BY DEF Seen
  <2> QED
    BY <1>1, <1>2, <1>5, <2>1, <2>2
<1>6. CASE table # RulesOf(f)
  BY <1>2, <1>3, <1>4, <1>6, SortedFacts DEF Table!Merge
<1> QED
  BY <1>5, <1>6

\* One that fails stops,
LEMMA DiffStops ==
  ASSUME RouterInv, RouterInv', NEW f \in Files, ReloadDiff(f), ~torn, torn'
  PROVE  Table!Stop(f)
<1>1. table' = Left(f) \union Added(f) /\ Left(f) \subseteq table /\ Added(f) \subseteq RulesOf(f)
  BY LeftApart DEF ReloadDiff, DiffRoutes
<1>2. table \intersect RulesOf(f) \subseteq Left(f)
  BY SharedStay
<1>3. table \intersect table' \subseteq Left(f)
  BY <1>1, SharedUntouched DEF Added
<1>4. Table!Stay(table \intersect RulesOf(f)) /\ Table!Stay(table \intersect table')
  BY <1>2, <1>3, LeftStay
<1>5. Table!InPlace(table', Seen')
  BY SeenStaysInPlace DEF SeenStands
<1> QED
  BY <1>1, <1>4, <1>5, SortedFacts DEF Table!Stop

\* and those that come after it stray.
LEMMA DiffStrays ==
  ASSUME RouterInv, RouterInv', NEW f \in Files, ReloadDiff(f), torn
  PROVE  Table!Stray(f)
<1>1. table' \subseteq table \union RulesOf(f) /\ torn'
  BY LeftApart DEF ReloadDiff, DiffRoutes
<1>2. Seen' = Table!Sorted(table', added')
  BY SeenStaysSorted DEF SeenSorted
<1>3. Seen' = Table!Sorted(table', Seen')
  BY <1>2, SortedTwice
<1> QED
  BY <1>1, <1>3, SortedFacts DEF Table!Stray

\* A sort is no step.
LEMMA SortUnseen ==
  ASSUME RouterInv, Sort
  PROVE  table' = table /\ Seen' = Seen /\ torn' = torn
<1>1. RouterInv'
  BY SortInv
<1>2. Seen' = Table!Sorted(table', added')
  BY <1>1, SeenStaysSorted DEF SeenSorted
<1> QED
  BY <1>2, SeenIsSorted DEF SeenSorted, Sort
=============================================================================
