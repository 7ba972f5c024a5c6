------------------------------- MODULE Router -------------------------------
(***************************************************************************)
(* The routing table (Router), how reloads rewrite it, and the choice of a *)
(* route for a request: match_route on the side of the router, and         *)
(* resolve_path on the side of the registry.                               *)
(*                                                                         *)
(* A path is a value, and a pattern is known by the paths it matches.  The *)
(* table holds its rules in vectors, one for each type: here a set of      *)
(* rules and the relation "stands before" among rules of one type.         *)
(*                                                                         *)
(* An incremental reload may stop half way: at a route that cannot be      *)
(* added, or later, at the clusters or the authentication.  GatewayState   *)
(* has those stages; here any reload may end after the routes.  It also    *)
(* has the registry, which holds the same routes (RegistryMirrorsRouter).  *)
(***************************************************************************)
EXTENDS Naturals, Sequences, FiniteSets

CONSTANTS
  RouteId, Path, Method, Client,
  Pattern,     \* paths, prefixes and regular expressions
  Covers,      \* the paths each pattern matches
  Length,      \* the length of each pattern: it matters for prefixes
  Signal,      \* the headers, cookies and parameters that match_rules ask for
  CookieName,
  Hundred,     \* the shares the weights divide: 100 in the code
  None,
  Files,       \* the route lists the configuration file may have
  Broken       \* the patterns that do not compile, where they are regular expressions

Type == {"exact", "regex", "prefix"}

Canary == [ weight : 0 .. Hundred, rules : SUBSET Signal,
            stick : {None, "cookie", "ip_hash"}, cookie : CookieName ]

\* pattern: path, or path_prefix for a prefix.  counted: path_key, under which
\* validate_canary adds up the weights; a prefix may give a path, too, and is then
\* counted under that.  refused: the clients that the address lists keep out.
Rule == [ id : RouteId, type : Type, pattern : Pattern, counted : Pattern,
          canary : Canary \union {None}, methods : SUBSET Method, auth : BOOLEAN,
          refused : SUBSET Client ]

-----------------------------------------------------------------------------
(* Route lists, and relations among rules.                                 *)

RulesOf(f) == {f[i] : i \in DOMAIN f}

IdsOf(f) == {r.id : r \in RulesOf(f)}

RouteOf(f, id) == CHOOSE r \in RulesOf(f) : r.id = id

\* The pairs of R in the order of the file.
Listed(f, R) ==
  {<<f[ij[1]], f[ij[2]]>> :
     ij \in {k \in (DOMAIN f) \X (DOMAIN f) : k[1] < k[2] /\ {f[k[1]], f[k[2]]} \subseteq R}}

OfOneType(pairs) == {rq \in pairs : rq[1].type = rq[2].type}

Weight(r) == IF r.canary = None THEN 0 ELSE r.canary.weight

\* The sum of the weights: each rule has as many units as its weight says.
Units(S) == {ru \in S \X (1 .. Hundred) : ru[2] <= Weight(ru[1])}

Total(S) == Cardinality(Units(S))

\* What validate_config lets through.
Accepted(f) ==
  /\ \A i, j \in DOMAIN f : f[i].id = f[j].id => i = j
  /\ \A k \in Pattern : Total({r \in RulesOf(f) : r.counted = k}) <= Hundred
  /\ \A r \in RulesOf(f) : r.type = "prefix" => Length[r.pattern] > 0

ASSUME HundredAssumption == Hundred \in Nat \ {0}

ASSUME FilesAssumption == Files \subseteq Seq(Rule) /\ \A f \in Files : Accepted(f)

ASSUME PatternAssumption ==
  Covers \in [Pattern -> SUBSET Path] /\ Length \in [Pattern -> Nat] /\ Broken \subseteq Pattern

ASSUME NamesAssumption == None \notin RouteId \union CookieName \union Canary \union Rule

VARIABLES
  table,   \* the rules of exact_routes, regex_routes and prefix_routes
  before,  \* r stands before q in the vector they share
  dirty,   \* prefix_dirty: the prefixes may be unsorted
  file,    \* config_snapshot: the routes of the file last applied
  added,   \* history: r was added before q
  torn     \* history: an incremental reload has stopped half way since the last full one

routerVars == <<table, before, dirty, file, added, torn>>

HasPrefix(R) == \E r \in R : r.type = "prefix"

\* Regex::new.
Compiles(r) == r.type = "regex" => r.pattern \notin Broken

Builds(f) == \A r \in RulesOf(f) : Compiles(r)

\* from_config adds the routes of the file to an empty table.
RouterInit ==
  \E f \in Files :
    /\ Builds(f)
    /\ torn = FALSE
    /\ table = RulesOf(f)
    /\ before = OfOneType(Listed(f, RulesOf(f)))
    /\ dirty = HasPrefix(RulesOf(f))
    /\ file = f
    /\ added = Listed(f, RulesOf(f))

-----------------------------------------------------------------------------
(* Reloads, under the write lock.                                          *)

\* Fault (see README, "Faults"): every route counts as changed.
TouchedAlways(r) == r.id \in RouteId

\* routes_differ, or a new id.
Touched(r) == r.id \notin IdsOf(file) \/ RouteOf(file, r.id) # r

\* add_route refuses an id that is there and a pattern that does not compile.  A
\* changed route has been removed before, a new one may be left from an update
\* that stopped.
Refused(f) ==
  {r \in RulesOf(f) : /\ Touched(r)
                      /\ \/ ~Compiles(r)
                         \/ r.id \notin IdsOf(file) /\ \E q \in table : q.id = r.id}

\* The routes that diff_routes comes to: the first it cannot add ends it.
Visited(f) ==
  LET refused == Refused(f)
  IN  {f[i] : i \in {j \in DOMAIN f : \A k \in 1 .. j - 1 : f[k] \notin refused}}

\* remove_route, for the ids that are gone and for the routes that are changed.
Left(f) ==
  LET changed == {r.id : r \in {q \in Visited(f) : Touched(q)}}
  IN  {r \in table : r.id \in IdsOf(file) => r.id \in IdsOf(f) \ changed}

\* add_route, in the order of the file.
Added(f) == {r \in Visited(f) \ Refused(f) : Touched(r)}

\* What is left keeps its order, and what is added goes to the end.
Pushed(order, kept, new, f) ==
  (order \intersect (kept \X kept)) \union (kept \X new) \union Listed(f, new)

\* Fault: the table is not marked when a prefix is added.
DiffRoutesUnmarked(f) ==
  LET kept == Left(f)
      new  == Added(f)
  IN  /\ table' = kept \union new
      /\ before' = OfOneType(Pushed(before, kept, new, f))
      /\ added' = Pushed(added, kept, new, f)
      /\ UNCHANGED dirty

DiffRoutes(f) ==
  LET kept == Left(f)
      new  == Added(f)
  IN  /\ table' = kept \union new
      /\ before' = OfOneType(Pushed(before, kept, new, f))
      /\ added' = Pushed(added, kept, new, f)
      /\ dirty' = (dirty \/ HasPrefix(new))

\* The whole of diff_update, or what has been done of it when a stage fails.
ReloadDiff(f) ==
  /\ DiffRoutes(f)
  /\ \/ Refused(f) = {} /\ file' = f /\ UNCHANGED torn
     \/ torn' = TRUE /\ UNCHANGED file

\* from_config, whose result replaces the state if it succeeds.
ReloadSimple(f) ==
  /\ Builds(f)
  /\ torn' = FALSE
  /\ table' = RulesOf(f)
  /\ before' = OfOneType(Listed(f, RulesOf(f)))
  /\ dirty' = HasPrefix(RulesOf(f))
  /\ file' = f
  /\ added' = Listed(f, RulesOf(f))

-----------------------------------------------------------------------------
(* Matching.                                                               *)

Rank == [exact |-> 1, regex |-> 2, prefix |-> 3]

\* The first match after a change sorts the prefixes, longest first; the sort is
\* stable.
LongerFirst(r, q) ==
  \/ Length[r.pattern] > Length[q.pattern]
  \/ Length[r.pattern] = Length[q.pattern] /\ <<r, q>> \in before

\* The order in which collect_path_matches returns its candidates.
Ahead(r, q) ==
  \/ Rank[r.type] < Rank[q.type]
  \/ r.type = q.type /\ IF dirty /\ r.type = "prefix" THEN LongerFirst(r, q)
                        ELSE <<r, q>> \in before

Sort ==
  /\ UNCHANGED <<table, file, added, torn>>
  /\ dirty' = FALSE
  /\ before' = {rq \in OfOneType(table \X table) : Ahead(rq[1], rq[2])}

Candidates(p) == {r \in table : p \in Covers[r.pattern]}

FirstOf(S) == CHOOSE r \in S : \A q \in S \ {r} : Ahead(r, q)

Conditioned(S, signals) ==
  {r \in S : r.canary # None /\ r.canary.rules \intersect signals # {}}

Sticking(S, how) == {r \in S : r.canary # None /\ r.canary.stick = how}

\* Fault: only the candidate that names the cookie is looked at.
RememberedFirst(S, cookies) ==
  {r \in Sticking(S, "cookie") :
     r = FirstOf(Sticking(S, "cookie")) /\ cookies[r.canary.cookie] = r.id}

\* check_cookie_sticky: the first sticky candidate names the cookie, any
\* candidate may be its value.
Remembered(S, cookies) ==
  IF Sticking(S, "cookie") = {} THEN {}
  ELSE LET name == FirstOf(Sticking(S, "cookie")).canary.cookie
       IN  {r \in S : r.id = cookies[name]}

Cumulative(S, r) == Total({q \in S : q = r \/ Ahead(q, r)})

\* Fault: the bound belongs to both shares.
WeighedInclusive(S, v) == {r \in S : r.canary # None /\ v <= Cumulative(S, r)}

\* The u8 sum of the code saturates: beyond Hundred that makes no difference.
Weighed(S, v) == {r \in S : r.canary # None /\ v < Cumulative(S, r)}

Plain(S) == {r \in S : r.canary = None}

\* match_route, for candidates S.
Choice(S, cookies, signals, v) ==
  LET rest == IF Weighed(S, v) # {} THEN Weighed(S, v) ELSE Plain(S)
      T    == IF Cardinality(S) = 1 THEN S
              ELSE IF Conditioned(S, signals) # {} THEN Conditioned(S, signals)
              ELSE IF Remembered(S, cookies) # {} THEN Remembered(S, cookies)
              ELSE rest
  IN  IF T = {} THEN None ELSE FirstOf(T)

\* Fault: the values start at one.
ValuesFromOne(S, hash) == IF Sticking(S, "ip_hash") # {} THEN {hash + 1} ELSE 1 .. Hundred

\* compute_route_value: without ip_hash, the clock.
Values(S, hash) == IF Sticking(S, "ip_hash") # {} THEN {hash} ELSE 0 .. Hundred - 1

-----------------------------------------------------------------------------
(* resolve_path: the entries are visited in any order, so that any of these *)
(* may be the answer.                                                      *)

Entries(p, type) == {r \in Candidates(p) : r.type = type}

\* Fault: the first prefix found is taken.
LongestOfAny(R) == R

LongestOf(R) == {r \in R : \A q \in R : Length[q.pattern] <= Length[r.pattern]}

ResolvePath(p) ==
  IF Entries(p, "exact") # {} THEN Entries(p, "exact")
  ELSE IF Entries(p, "regex") # {} THEN Entries(p, "regex")
  ELSE LongestOf({r \in Entries(p, "prefix") : Length[r.pattern] > 0})

-----------------------------------------------------------------------------
(* Properties.                                                             *)

RouterTypeOK ==
  /\ table \subseteq Rule
  /\ before \subseteq table \X table
  /\ dirty \in BOOLEAN
  /\ file \in Files
  /\ added \subseteq table \X table
  /\ torn \in BOOLEAN

\* The order of a table that is sorted at once: exact rules, regular
\* expressions, then prefixes from the longest, each as they were added.
InOrder(r, q) ==
  \/ Rank[r.type] < Rank[q.type]
  \/ /\ r.type = q.type
     /\ \/ r.type = "prefix" /\ Length[r.pattern] > Length[q.pattern]
        \/ /\ r.type = "prefix" => Length[r.pattern] = Length[q.pattern]
           /\ <<r, q>> \in added

\* Candidates stand in the order of a table that is sorted at once, whatever
\* additions, removals and late sorts of the prefixes have come one after the
\* other, and of any two one is ahead.
LazySortInvisible ==
  \A r, q \in table :
    /\ Ahead(r, q) <=> InOrder(r, q)
    /\ r # q => (Ahead(r, q) <=> ~Ahead(q, r))

\* The order that matching sees.
Seen == {rq \in table \X table : Ahead(rq[1], rq[2])}

Table == INSTANCE SortedTable WITH order <- Seen

\* Vectors, mark and late sort are a list that is sorted at every moment: a
\* reload keeps the rules it does not touch in the order they have, one that stops
\* half way, too, and matching is no step of it.
ActsAsSortedTable == Table!Spec

\* Unless an update has stopped half way since the last full reload, the rules are
\* those of the last file.
TableIsFile == ~torn => table = RulesOf(file)

\* Of several regular expressions the one that is declared first is documented to
\* win.
DeclaredOrder ==
  ~torn => \A r, q \in {s \in table : s.type = "regex"} :
    <<r, q>> \in Listed(file, table) => Ahead(r, q)

\* The candidates that no other is ahead of.
Leaders(p) == {r \in Candidates(p) : \A q \in Candidates(p) : ~Ahead(q, r)}

\* Whitelist and table agree: whichever entry resolve_path comes upon first has
\* the type and, among prefixes, the length of the candidate in front, which
\* is where a request without canaries goes; and a path with candidates
\* always has such an entry.
ResolveAgrees ==
  \A p \in Path :
    /\ ResolvePath(p) = {} => Candidates(p) = {}
    /\ \A r \in ResolvePath(p), q \in Leaders(p) :
         r.type = q.type /\ (r.type = "prefix" => Length[r.pattern] = Length[q.pattern])

NoCookies == [n \in CookieName |-> None]

\* The values for which match_route chooses r.
Share(S, r) == {v \in 0 .. Hundred - 1 : Choice(S, NoCookies, {}, v) = r}

\* Where a path has several candidates, each canary is chosen for as many values
\* as its weight says, wherever reloads have put it in the list, if the weights
\* are counted together: otherwise validate_canary does not see that their sum
\* exceeds Hundred.  An update that stops may leave weights of two files.
SharesHold ==
  ~torn => \A p \in Path :
    LET S == Candidates(p)
    IN  Cardinality(S) > 1 /\ (\A r, q \in S : r.counted = q.counted) =>
          \A r \in S \ Plain(S) : Cardinality(Share(S, r)) = r.canary.weight

\* No value falls between the shares: where the weights of the candidates fill
\* Hundred, or exceed it, or one candidate has no canary, each request finds a
\* route.
EveryValueServed ==
  \A p \in Path, hash \in 0 .. Hundred - 1 :
    LET S == Candidates(p)
    IN  Plain(S) # {} \/ Total(S) >= Hundred =>
          \A v \in Values(S, hash) : Choice(S, NoCookies, {}, v) # None
=============================================================================
