--------------------------- MODULE Request_proofs ---------------------------
(***************************************************************************)
(* Proofs about Request, for any routes, clients and files.                *)
(***************************************************************************)
EXTENDS Request, Router_proofs

-----------------------------------------------------------------------------
(* Steps on the table.                                                     *)

\* Every step of a request leaves the table alone or sorts it.
LEMMA RouterStep ==
  ASSUME RouterInv, [Next]_vars
  PROVE  RouterInv'
<1>1. CASE Reload
  BY <1>1, ReloadDiffInv, ReloadSimpleInv DEF Reload
<1>2. ASSUME NEW c \in Client, UpstreamPeer(c) PROVE RouterInv'
  BY <1>2, SortInv DEF UpstreamPeer
<1>3. ASSUME UNCHANGED routerVars PROVE RouterInv'
  <2>1. /\ table' = table /\ before' = before /\ dirty' = dirty /\ file' = file /\ added' = added
        /\ torn' = torn
    BY <1>3 DEF routerVars
  <2>2. \A r, q \in table : InOrder(r, q)' <=> InOrder(r, q)
    BY <2>1 DEF InOrder
  <2>3. OrderInv'
    BY <2>1, <2>2 DEF RouterInv, OrderInv
  <2> QED
    BY <2>1, <2>3 DEF RouterInv, RulesInv, TableIsFile
<1>4. ASSUME NEW c \in Client, NEW p \in Path, NEW signals \in SUBSET Signal, NEW m \in Method,
             Receive(c, p, signals, m)
      PROVE  RouterInv'
  BY <1>3, <1>4 DEF Receive
<1>5. ASSUME NEW c \in Client, RunFilter(c) \/ Log(c) \/ Retry(c) \/ Fail(c) \/ Respond(c)
      PROVE  RouterInv'
  BY <1>3, <1>5 DEF RunFilter, Log, Retry, Fail, Respond
<1>6. ASSUME NEW c \in Client, NEW n \in CookieName, Expire(c, n) PROVE RouterInv'
  BY <1>3, <1>6 DEF Expire
<1>7. CASE UNCHANGED vars
  BY <1>3, <1>7 DEF vars
<1> QED
  BY <1>1, <1>2, <1>4, <1>5, <1>6, <1>7 DEF Next, Proceed

(* After any chain of reloads in which no update has stopped half way since *)
(* the last full one, the rules are those of the last file: TableIsFile.    *)
THEOREM TableAlwaysFile == Spec => []TableIsFile
<1>1. Init => RouterInv
  BY RouterInitInv DEF Init
<1>2. RouterInv /\ [Next]_vars => RouterInv'
  BY RouterStep
<1>3. RouterInv => TableIsFile
  BY DEF RouterInv, RulesInv
<1> QED
  BY <1>1, <1>2, <1>3, PTL DEF Spec

\* The invariant, updates that stop half way included.
LEMMA TableInvariant == Spec => []RouterInv
<1>1. Init => RouterInv
  BY RouterInitInv DEF Init
<1>2. RouterInv /\ [Next]_vars => RouterInv'
  BY RouterStep
<1> QED
  BY <1>1, <1>2, PTL DEF Spec

\* Only a reload is a step of the sorted list; a match, with or without a sort,
\* is none.
LEMMA TableStep ==
  ASSUME RouterInv, [Next]_vars
  PROVE  Table!Next \/ UNCHANGED Table!vars
<1>1. CASE Reload
  <2>1. RouterInv'
    BY RouterStep
  <2>2. PICK f \in Files : ReloadDiff(f) \/ ReloadSimple(f)
    BY <1>1 DEF Reload
  <2>3. torn \in BOOLEAN /\ torn' \in BOOLEAN
    BY <2>1 DEF RouterInv
  <2> QED
    BY <2>1, <2>2, <2>3, DiffMerges, DiffStops, DiffStrays, SimpleRefills DEF Table!Next, Table!vars
<1>2. ASSUME NEW c \in Client, UpstreamPeer(c) PROVE UNCHANGED Table!vars
  BY <1>2, SortUnseen DEF UpstreamPeer, Table!vars
<1>3. ASSUME UNCHANGED routerVars PROVE UNCHANGED Table!vars
  <2>1. table' = table /\ before' = before /\ dirty' = dirty /\ torn' = torn
    BY <1>3 DEF routerVars
  <2>2. \A r, q \in table : Ahead(r, q)' <=> Ahead(r, q)
    BY <2>1 DEF Ahead, LongerFirst
  <2>3. Seen' = Seen
    BY <2>1, <2>2 DEF Seen
  <2> QED
    BY <2>1, <2>3 DEF Table!vars
<1>4. CASE UNCHANGED vars
  BY <1>3, <1>4 DEF vars
<1> QED
  BY <1>1, <1>2, <1>3, <1>4
    DEF Next, Proceed, Receive, RunFilter, Log, Retry, Fail, Respond, Expire

(* The routing table implements SortedTable, for any lists of routes: the  *)
(* vectors, the mark and the late sort are a list that is sorted at every  *)
(* moment, and reloads, those that stop half way included, change the list *)
(* as it allows: ActsAsSortedTable.                                        *)
THEOREM ImplementsSortedTable == Spec => ActsAsSortedTable
<1>1. Init => Table!Init
  BY FilledSorted DEF Init
<1>2. RouterInv /\ [Next]_vars => [Table!Next]_(Table!vars)
  BY TableStep
<1> QED
  BY <1>1, <1>2, TableInvariant, PTL DEF Spec, ActsAsSortedTable, Table!Spec

(* The late sort cannot be seen: LazySortInvisible.                        *)
THEOREM LateSortUnseen == Spec => []LazySortInvisible
BY TableInvariant, LazySortFollows, PTL

(* Whitelist and table agree: ResolveAgrees.                               *)
THEOREM WhitelistAgrees == Spec => []ResolveAgrees
BY TableInvariant, ResolveFollows, PTL

(* Each canary gets the share its weight says, wherever reloads have put   *)
(* it, for any weights that the check of the configuration lets through:   *)
(* SharesHold.                                                             *)
THEOREM SharesAreWeights == Spec => []SharesHold
BY TableInvariant, SharesFollow, PTL

(* No value falls between the shares: EveryValueServed.                    *)
THEOREM NoValueLost == Spec => []EveryValueServed
BY TableInvariant, EveryValueFollows, PTL

-----------------------------------------------------------------------------
(* Requests.                                                               *)

RequestTypes ==
  /\ req \in [Client -> Requests \union {None}]
  /\ jar \in [Client -> [CookieName -> RouteId \union {None}]]
  /\ assigned \in [Client -> [Path -> RouteId \union {None}]]

\* None is no route, cookie, rule or canary.
LEMMA Constants ==
  /\ None \notin RouteId /\ None \notin CookieName /\ None \notin Rule /\ None \notin Canary
  /\ MaxTries \in Nat \ {0}
BY NamesAssumption, RequestAssumption

\* A new decision is about the rule; unless an update has stopped half way, its cookie
\* is that of the rule, too.
LEMMA DecideFacts ==
  ASSUME RouterInv, NEW r \in table, NEW cookies, NEW old
  PROVE  /\ \/ Decide(r, cookies, old) = old
            \/ \E k \in CookieName \union {None} :
                 Decide(r, cookies, old) = [route |-> r.id, stale |-> FALSE, cookie |-> k]
         /\ ~torn /\ r.canary = None => Decide(r, cookies, old) = old
         /\ ~torn /\ r.canary # None =>
              Decide(r, cookies, old) =
                [route |-> r.id, stale |-> FALSE,
                 cookie |-> IF r.canary.stick = "cookie" /\ cookies[r.canary.cookie] # r.id
                            THEN r.canary.cookie ELSE None]
<1> DEFINE canary == CanaryOf(r.id)
           isNew  == canary.stick = "cookie" /\ cookies[canary.cookie] # r.id
           k      == IF isNew THEN canary.cookie ELSE None
<1>1. ~torn => canary = r.canary
  BY IdNamesRule DEF RouterInv, RulesInv, TableIsFile, CanaryOf
<1>2. canary # None => canary.cookie \in CookieName
  <2>1. ASSUME r.id \in IdsOf(file)
        PROVE  RouteOf(file, r.id) \in Rule
    BY <2>1, RouteOfType, FileType DEF RouterInv
  <2> QED
    BY <2>1 DEF CanaryOf, Rule, Canary
<1>3. Decide(r, cookies, old) =
        IF canary = None THEN old ELSE [route |-> r.id, stale |-> FALSE, cookie |-> k]
  BY DEF Decide
<1>4. canary # None => k \in CookieName \union {None}
  BY <1>2
<1> QED
  BY <1>1, <1>3, <1>4

\* The canary of a rule has a cookie name, used or not.
LEMMA CanaryFacts ==
  ASSUME NEW r \in Rule, r.canary # None
  PROVE  r.canary \in Canary /\ r.canary.cookie \in CookieName
BY DEF Rule, Canary

\* A decision is made of the rule, or is the old one.
LEMMA DecideType ==
  ASSUME RouterInv, NEW r \in table, NEW cookies, NEW old \in Decision \union {None}
  PROVE  Decide(r, cookies, old) \in Decision \union {None}
<1>1. r.id \in RouteId
  BY TableFacts, RuleFacts
<1>2. \A k \in CookieName \union {None} :
        [route |-> r.id, stale |-> FALSE, cookie |-> k] \in Decision
  BY <1>1 DEF Decision
<1>3. \/ Decide(r, cookies, old) = old
      \/ \E k \in CookieName \union {None} :
           Decide(r, cookies, old) = [route |-> r.id, stale |-> FALSE, cookie |-> k]
  BY DecideFacts
<1> QED
  BY <1>2, <1>3

\* What upstream_peer makes of a request.
LEMMA MatchedFacts ==
  ASSUME RouterInv, RequestTypes, NEW c \in Client, req[c] # None,
         NEW r \in table, NEW id \in RouteId
  PROVE  LET x == req[c]
             y == Matched(c, r, id)
         IN  /\ y \in Requests
             /\ y.path = x.path
             /\ ~Admits(r, c) => y.stage = "log" /\ y.decision = x.decision /\ y.tried = x.tried
             /\ Admits(r, c) => /\ y.stage = "connect" /\ y.rule = r
                                /\ y.decision = Decide(r, jar[c], x.decision)
                                /\ y.tried = x.tried \union {r.id}
<1>1. req[c] \in Requests
  BY DEF RequestTypes
<1>2. r \in Rule /\ r.id \in RouteId
  BY TableFacts, RuleFacts
<1>3. Decide(r, jar[c], req[c].decision) \in Decision \union {None}
  BY <1>1, DecideType DEF Requests
<1> QED
  BY <1>1, <1>2, <1>3 DEF Matched, Requests

\* upstream_peer either ends a request or matches it with a rule of the table.
LEMMA UpstreamPeerCases ==
  ASSUME RouterInv, RequestTypes, NEW c \in Client, UpstreamPeer(c)
  PROVE  \/ req' = [req EXCEPT ![c].stage = "log"]
         \/ \E r \in Candidates(req[c].path), id \in RouteId :
              req' = [req EXCEPT ![c] = Matched(c, r, id)]
<1>1. PICK r \in Picks(c), noCluster \in {FALSE, torn} :
        IF r = None \/ noCluster THEN req' = [req EXCEPT ![c].stage = "log"]
        ELSE \E e \in ResolvePath(req[c].path) : req' = [req EXCEPT ![c] = Matched(c, r, e.id)]
  BY DEF UpstreamPeer
<1>2. Candidates(req[c].path) \in SUBSET table
  BY DEF Candidates
<1>3. r \in Candidates(req[c].path) \union {None}
  BY <1>2, ChoiceType DEF Picks
<1>4. ResolvePath(req[c].path) \subseteq table
  BY <1>2, ResolvePathType
<1>5. \A e \in ResolvePath(req[c].path) : e.id \in RouteId
  BY <1>4, TableFacts, RuleFacts
<1> QED
  BY <1>1, <1>3, <1>5

\* The request of a client that moves on to another stage.
LEMMA StageMoves ==
  ASSUME RequestTypes, NEW c \in Client, req[c] # None,
         NEW next \in Filter \union {"route", "connect", "log"},
         NEW n \in 0 .. MaxTries
  PROVE  /\ [req[c] EXCEPT !.stage = next] \in Requests
         /\ [req[c] EXCEPT !.stage = next, !.rule = None] \in Requests
         /\ [req[c] EXCEPT !.stage = next, !.rule = None, !.tries = n] \in Requests
BY DEF RequestTypes, Requests

\* A reload marks the decisions that are under way and keeps the rest.
LEMMA OvertakenFacts ==
  ASSUME RequestTypes, Overtaken, NEW c \in Client
  PROVE  /\ req[c] = None => req'[c] = None
         /\ req[c] # None =>
              /\ req'[c] \in Requests /\ req'[c].path = req[c].path
              /\ req'[c].tried = req[c].tried
              /\ req[c].decision = None => req'[c].decision = None
              /\ req[c].decision # None => /\ req'[c].decision.route = req[c].decision.route
                                           /\ req'[c].decision.stale = TRUE
<1>1. CASE req[c] = None \/ req[c].decision = None
  <2>1. req'[c] = req[c]
    BY <1>1 DEF Overtaken
  <2> QED
    BY <1>1, <2>1 DEF RequestTypes
<1>2. CASE req[c] # None /\ req[c].decision # None
  <2>1. req[c] \in Requests /\ req[c].decision \in Decision
    BY <1>2 DEF RequestTypes, Requests
  <2> DEFINE d == [req[c].decision EXCEPT !.stale = TRUE]
  <2>2. req'[c] = [req[c] EXCEPT !.decision = d]
    BY <1>2 DEF Overtaken
  <2>3. d \in Decision /\ d.route = req[c].decision.route /\ d.stale = TRUE
    BY <2>1 DEF Decision
  <2> HIDE DEF d
  <2>4. /\ req'[c] \in Requests /\ req'[c].path = req[c].path
        /\ req'[c].tried = req[c].tried /\ req'[c].decision = d
    BY <2>1, <2>2, <2>3 DEF Requests
  <2> QED
    BY <1>2, <2>3, <2>4
<1> QED
  BY <1>1, <1>2

\* Only the request of client c changes, which stays under way.
Changes(c) ==
  /\ req[c] \in Requests /\ req'[c] \in Requests
  /\ \A d \in Client \ {c} : req'[d] = req[d]
  /\ req' \in [Client -> Requests \union {None}]
  /\ req'[c].path = req[c].path

\* It goes to another stage and keeps the rest.
MovesOn(c) ==
  /\ Changes(c)
  /\ req'[c].decision = req[c].decision /\ req'[c].tried = req[c].tried

\* It is matched with rule r.
Matches(c, r) ==
  /\ Changes(c)
  /\ req'[c].decision = Decide(r, jar[c], req[c].decision)
  /\ req'[c].tried = req[c].tried \union {r.id}

\* Assignments that change the stage and count a try are such moves.
LEMMA StageChange ==
  ASSUME RequestTypes, NEW c \in Client, req[c] # None,
         NEW next \in Filter \union {"route", "connect", "log"},
         \/ req' = [req EXCEPT ![c].stage = next]
         \/ req' = [req EXCEPT ![c].stage = next, ![c].rule = None]
         \/ /\ req[c].tries < MaxTries
            /\ req' = [req EXCEPT ![c].stage = next, ![c].rule = None, ![c].tries = @ + 1]
  PROVE  MovesOn(c)
<1>1. req[c] \in Requests /\ req \in [Client -> Requests \union {None}]
  BY DEF RequestTypes
<1>2. PICK y \in Requests :
        /\ req' = [req EXCEPT ![c] = y] /\ y.path = req[c].path
        /\ y.decision = req[c].decision /\ y.tried = req[c].tried
  <2>1. CASE req' = [req EXCEPT ![c].stage = next]
    <3>1. [req[c] EXCEPT !.stage = next] \in Requests
      BY StageMoves, Constants DEF RequestTypes, Requests
    <3> WITNESS [req[c] EXCEPT !.stage = next] \in Requests
    <3> QED
      BY <1>1, <2>1 DEF Requests
  <2>2. CASE req' = [req EXCEPT ![c].stage = next, ![c].rule = None]
    <3>1. [req[c] EXCEPT !.stage = next, !.rule = None] \in Requests
      BY StageMoves, Constants DEF RequestTypes, Requests
    <3> WITNESS [req[c] EXCEPT !.stage = next, !.rule = None] \in Requests
    <3> QED
      BY <1>1, <2>2 DEF Requests
  <2>3. CASE /\ req[c].tries < MaxTries
             /\ req' = [req EXCEPT ![c].stage = next, ![c].rule = None, ![c].tries = @ + 1]
    <3>1. req[c].tries + 1 \in 0 .. MaxTries
      BY <1>1, <2>3, Constants DEF Requests
    <3>2. [req[c] EXCEPT !.stage = next, !.rule = None, !.tries = req[c].tries + 1] \in Requests
      BY <3>1, StageMoves
    <3> WITNESS [req[c] EXCEPT !.stage = next, !.rule = None, !.tries = req[c].tries + 1] \in Requests
    <3> QED
      BY <1>1, <2>3 DEF Requests
  <2> QED
    BY <2>1, <2>2, <2>3
<1> QED
  BY <1>1, <1>2 DEF MovesOn, Changes

\* A filter moves the request on.
LEMMA FilterMoves == ASSUME RequestTypes, NEW c \in Client, RunFilter(c) PROVE MovesOn(c)
<1>1. req[c] # None /\ req[c].stage \in Filter
  BY DEF RunFilter, At
<1>2. PICK next \in {"log", Successor[req[c].stage]} : req' = [req EXCEPT ![c].stage = next]
  BY DEF RunFilter
<1>3. next \in Filter \union {"route", "connect", "log"}
  BY <1>1, <1>2 DEF Filter, Successor
<1> QED
  BY <1>1, <1>2, <1>3, StageChange

\* So does a connection that fails,
LEMMA OutcomeMoves == ASSUME RequestTypes, NEW c \in Client, Retry(c) \/ Fail(c) PROVE MovesOn(c)
BY StageChange DEF Retry, Fail, At

\* and the response.
LEMMA ResponseMoves == ASSUME RequestTypes, NEW c \in Client, Respond(c) PROVE MovesOn(c)
BY StageChange DEF Respond, At

\* upstream_peer ends the request or matches it with a candidate.
LEMMA MatchChanges ==
  ASSUME RouterInv, RequestTypes, NEW c \in Client, UpstreamPeer(c)
  PROVE  MovesOn(c) \/ \E r \in Candidates(req[c].path) : Matches(c, r)
<1>1. req[c] # None /\ req[c] \in Requests /\ req \in [Client -> Requests \union {None}]
  BY DEF UpstreamPeer, At, RequestTypes
<1>2. CASE req' = [req EXCEPT ![c].stage = "log"]
  BY <1>1, <1>2, StageChange
<1>3. ASSUME NEW r \in Candidates(req[c].path), NEW id \in RouteId,
             req' = [req EXCEPT ![c] = Matched(c, r, id)]
      PROVE  MovesOn(c) \/ Matches(c, r)
  <2>1. r \in table
    BY DEF Candidates
  <2>2. /\ Matched(c, r, id) \in Requests
        /\ Matched(c, r, id).path = req[c].path
        /\ ~Admits(r, c) => /\ Matched(c, r, id).decision = req[c].decision
                            /\ Matched(c, r, id).tried = req[c].tried
        /\ Admits(r, c) => /\ Matched(c, r, id).decision = Decide(r, jar[c], req[c].decision)
                           /\ Matched(c, r, id).tried = req[c].tried \union {r.id}
    BY <1>1, <2>1, MatchedFacts
  <2> QED
    BY <1>1, <1>3, <2>2 DEF MovesOn, Matches, Changes
<1> QED
  BY <1>2, <1>3, UpstreamPeerCases

-----------------------------------------------------------------------------
(* The invariants, operation by operation.                                 *)

DecisionKept(c) ==
  req[c] # None /\ req[c].decision # None => req[c].decision.route \in req[c].tried

DecisionInv == \A c \in Client : DecisionKept(c)

\* A new request has no decision.
LEMMA ReceiveStep ==
  ASSUME RequestTypes, DecisionInv, NEW c \in Client, NEW p \in Path,
         NEW signals \in SUBSET Signal, NEW m \in Method, Receive(c, p, signals, m)
  PROVE  RequestTypes' /\ DecisionInv'
<1> DEFINE x == [path |-> p, signals |-> signals, method |-> m, stage |-> "method",
                 route_id |-> None, rule |-> None, decision |-> None, tries |-> 0, tried |-> {}]
<1>1. x \in Requests /\ x.decision = None
  BY Constants DEF Requests, Filter
<1>2. req' = [req EXCEPT ![c] = x] /\ UNCHANGED <<jar, assigned>>
  BY DEF Receive
<1> HIDE DEF x
<1>3. RequestTypes'
  BY <1>1, <1>2 DEF RequestTypes
<1>4. \A d \in Client : req'[d] = IF d = c THEN x ELSE req[d]
  BY <1>2 DEF RequestTypes
<1> QED
  BY <1>1, <1>3, <1>4 DEF DecisionInv, DecisionKept

\* A request that is gone has none either.
LEMMA GoneStep ==
  ASSUME RequestTypes, DecisionInv, NEW c \in Client, req' = [req EXCEPT ![c] = None]
  PROVE  req' \in [Client -> Requests \union {None}] /\ DecisionInv'
<1>1. \A d \in Client : req'[d] = IF d = c THEN None ELSE req[d]
  BY DEF RequestTypes
<1> QED
  BY <1>1 DEF RequestTypes, DecisionInv, DecisionKept

\* A request that moves on keeps decision and tries.
LEMMA MoveStep ==
  ASSUME RequestTypes, DecisionInv, NEW c \in Client, req[c] # None, MovesOn(c)
  PROVE  req' \in [Client -> Requests \union {None}] /\ DecisionInv'
BY DEF MovesOn, Changes, DecisionInv, DecisionKept

\* A new decision is about the route that is tried next.
LEMMA MatchStep ==
  ASSUME RouterInv, RequestTypes, DecisionInv, NEW c \in Client, req[c] # None,
         NEW r \in table, Matches(c, r)
  PROVE  req' \in [Client -> Requests \union {None}] /\ DecisionInv'
<1>1. req' \in [Client -> Requests \union {None}]
  BY DEF Matches, Changes
<1>2. DecisionKept(c)'
  <2>1. \/ Decide(r, jar[c], req[c].decision) = req[c].decision
        \/ Decide(r, jar[c], req[c].decision).route = r.id
    BY DecideFacts
  <2> QED
    BY <2>1 DEF Matches, DecisionInv, DecisionKept
<1>3. \A d \in Client \ {c} : DecisionKept(d)'
  BY DEF Matches, Changes, DecisionInv, DecisionKept
<1> QED
  BY <1>1, <1>2, <1>3 DEF DecisionInv

\* A reload changes neither the routes of decisions nor tries.
LEMMA ReloadStep ==
  ASSUME RequestTypes, DecisionInv, Overtaken
  PROVE  RequestTypes' /\ DecisionInv'
<1>1. req' = [c \in Client |-> req'[c]]
  BY DEF Overtaken
<1>2. \A c \in Client : req'[c] \in Requests \union {None}
  BY OvertakenFacts
<1>3. assigned' \in [Client -> [Path -> RouteId \union {None}]] /\ jar' = jar
  BY DEF Overtaken, Nowhere
<1>4. req' \in [Client -> Requests \union {None}]
  BY <1>1, <1>2
<1>5. \A c \in Client : DecisionKept(c)'
  BY OvertakenFacts DEF DecisionInv, DecisionKept
<1> QED
  BY <1>3, <1>4, <1>5 DEF RequestTypes, DecisionInv

\* The cookie that a response sets is one that a decision holds.
LEMMA RespondStep ==
  ASSUME RequestTypes, NEW c \in Client, Respond(c)
  PROVE  /\ jar' \in [Client -> [CookieName -> RouteId \union {None}]]
         /\ assigned' \in [Client -> [Path -> RouteId \union {None}]]
<1> DEFINE d == req[c].decision
<1>1. CASE ~SetsCookie(d)
  BY <1>1 DEF Respond, RequestTypes
<1>2. CASE SetsCookie(d)
  <2>1. d \in Decision /\ d.route \in RouteId /\ d.cookie \in CookieName
    BY <1>2 DEF Respond, At, RequestTypes, Requests, SetsCookie, Decision
  <2>2. jar' = [jar EXCEPT ![c][d.cookie] = d.route]
    BY <1>2 DEF Respond
  <2>3. assigned' = [assigned EXCEPT ![c] =
                       IF d.stale THEN Nowhere
                       ELSE [q \in Path |-> IF q \in Group(req[c].path) THEN d.route ELSE @[q]]]
    BY <1>2 DEF Respond
  <2> HIDE DEF d
  <2> QED
    BY <2>1, <2>2, <2>3 DEF RequestTypes, Nowhere
<1> QED
  BY <1>1, <1>2

\* A cookie that ends leaves a well-typed jar.
LEMMA ExpireStep ==
  ASSUME RequestTypes, NEW c \in Client, NEW n \in CookieName, Expire(c, n)
  PROVE  RequestTypes'
BY DEF Expire, RequestTypes, Nowhere

\* Types and decisions are kept by every step.
LEMMA RequestStep ==
  ASSUME RouterInv, RequestTypes, DecisionInv, [Next]_vars
  PROVE  RequestTypes' /\ DecisionInv'
<1>1. CASE Reload
  BY <1>1, ReloadStep DEF Reload
<1>2. ASSUME NEW c \in Client, NEW p \in Path, NEW signals \in SUBSET Signal, NEW m \in Method,
             Receive(c, p, signals, m)
      PROVE  RequestTypes' /\ DecisionInv'
  BY <1>2, ReceiveStep
<1>3. ASSUME NEW c \in Client, RunFilter(c) PROVE RequestTypes' /\ DecisionInv'
  <2>1. MovesOn(c) /\ req[c] # None /\ UNCHANGED <<jar, assigned>>
    BY <1>3, FilterMoves DEF RunFilter, At
  <2> QED
    BY <2>1, MoveStep DEF RequestTypes
<1>4. ASSUME NEW c \in Client, UpstreamPeer(c) PROVE RequestTypes' /\ DecisionInv'
  <2>1. req[c] # None /\ UNCHANGED <<jar, assigned>>
    BY <1>4 DEF UpstreamPeer, At
  <2>2. MovesOn(c) \/ \E r \in table : Matches(c, r)
    BY <1>4, MatchChanges DEF Candidates
  <2>3. req' \in [Client -> Requests \union {None}] /\ DecisionInv'
    BY <2>1, <2>2, MoveStep, MatchStep
  <2> QED
    BY <2>1, <2>3 DEF RequestTypes
<1>5. ASSUME NEW c \in Client, Log(c) PROVE RequestTypes' /\ DecisionInv'
  <2>1. req' = [req EXCEPT ![c] = None] /\ UNCHANGED <<jar, assigned>>
    BY <1>5 DEF Log
  <2> QED
    BY <2>1, GoneStep DEF RequestTypes
<1>6. ASSUME NEW c \in Client, Retry(c) \/ Fail(c) PROVE RequestTypes' /\ DecisionInv'
  <2>1. MovesOn(c) /\ req[c] # None /\ UNCHANGED <<jar, assigned>>
    BY <1>6, OutcomeMoves DEF Retry, Fail, At
  <2> QED
    BY <2>1, MoveStep DEF RequestTypes
<1>7. ASSUME NEW c \in Client, Respond(c) PROVE RequestTypes' /\ DecisionInv'
  <2>1. MovesOn(c) /\ req[c] # None
    BY <1>7, ResponseMoves DEF Respond, At
  <2> QED
    BY <1>7, <2>1, MoveStep, RespondStep DEF RequestTypes
<1>8. ASSUME NEW c \in Client, NEW n \in CookieName, Expire(c, n)
      PROVE  RequestTypes' /\ DecisionInv'
  BY <1>8, ExpireStep DEF Expire, DecisionInv, DecisionKept
<1>9. CASE UNCHANGED vars
  BY <1>9 DEF vars, RequestTypes, DecisionInv, DecisionKept
<1> QED
  BY <1>1, <1>2, <1>3, <1>4, <1>5, <1>6, <1>7, <1>8, <1>9 DEF Next, Proceed

\* They hold at the start.
LEMMA RequestInit == Init => RequestTypes /\ DecisionInv
BY DEF Init, RequestTypes, NoCookies, Nowhere, DecisionInv, DecisionKept

\* The invariants together.
LEMMA Always == Spec => [](RouterInv /\ RequestTypes /\ DecisionInv)
<1>1. Init => RouterInv /\ RequestTypes /\ DecisionInv
  BY RouterInitInv, RequestInit DEF Init
<1>2. RouterInv /\ RequestTypes /\ DecisionInv /\ [Next]_vars
        => (RouterInv /\ RequestTypes /\ DecisionInv)'
  BY RouterStep, RequestStep
<1> QED
  BY <1>1, <1>2, PTL DEF Spec

(* Every variable holds a value of its type, for any routes, clients and   *)
(* files: TypeOK.                                                          *)
THEOREM TypeCorrect == Spec => []TypeOK
<1>1. RouterInv => RouterTypeOK
  BY TableFacts DEF RouterInv, RouterTypeOK, OrderInv, Orders, OfOneType
<1>2. RouterInv /\ RequestTypes => TypeOK
  BY <1>1 DEF TypeOK, RequestTypes
<1> QED
  BY <1>2, Always, PTL

(* The decision that metrics and cookie are made of names a route the      *)
(* request was sent to, whichever reloads and tries came in between:       *)
(* DecisionWasTried.                                                       *)
THEOREM DecisionAlwaysTried == Spec => []DecisionWasTried
<1>1. DecisionInv => DecisionWasTried
  BY DEF DecisionInv, DecisionKept, DecisionWasTried
<1> QED
  BY <1>1, Always, PTL

-----------------------------------------------------------------------------
(* How far a request has got.                                              *)

\* StepsLeft, stage by stage.
LEMMA StepsLeftFacts ==
  ASSUME NEW x \in Requests
  PROVE  /\ x.stage \in Filter \union {"route", "connect", "log"}
         /\ MaxTries - x.tries \in Nat
         /\ x.stage = "log" => StepsLeft(x) = 1
         /\ x.stage = "connect" => StepsLeft(x) = 2 + 2 * (MaxTries - x.tries)
         /\ x.stage = "route" => StepsLeft(x) = 3 + 2 * (MaxTries - x.tries)
         /\ x.stage \in Filter =>
              /\ Place[x.stage] \in 4 .. 8
              /\ Place[Successor[x.stage]] = Place[x.stage] - 1
              /\ Successor[x.stage] \in Filter \union {"route"}
              /\ StepsLeft(x) = Place[x.stage] + 2 * (MaxTries - x.tries)
<1>1. x.stage \in Filter \union {"route", "connect", "log"} /\ x.tries \in 0 .. MaxTries
  BY DEF Requests
<1>2. MaxTries - x.tries \in Nat
  BY <1>1, Constants
<1>3. "log" \notin Filter
  BY DEF Filter
<1>4. x.stage \in Filter =>
        /\ Place[x.stage] \in 4 .. 8
        /\ Place[Successor[x.stage]] = Place[x.stage] - 1
        /\ Successor[x.stage] \in Filter \union {"route"}
  BY DEF Filter, Place, Successor
<1>5. Place["connect"] = 2 /\ Place["route"] = 3
  BY DEF Place
<1> QED
  BY <1>1, <1>2, <1>3, <1>4, <1>5 DEF StepsLeft

\* The end is nearer than anything else.
LEMMA EndsForward ==
  ASSUME NEW x \in Requests, x.stage # "log", NEW y, y.stage = "log"
  PROVE  StepsLeft(y) < StepsLeft(x)
<1>1. StepsLeft(y) = 1
  BY DEF StepsLeft
<1>2. MaxTries - x.tries \in Nat
  BY StepsLeftFacts
<1>3. StepsLeft(x) \in Nat /\ StepsLeft(x) > 1
  BY <1>2, StepsLeftFacts
<1> QED
  BY <1>1, <1>3

\* The filters of a request come one after the other,
LEMMA FilterForward ==
  ASSUME RequestTypes, NEW c \in Client, RunFilter(c)
  PROVE  StepsLeft(req'[c]) < StepsLeft(req[c])
<1>1. req[c] \in Requests /\ req[c].stage \in Filter /\ req \in [Client -> Requests \union {None}]
  BY DEF RunFilter, At, RequestTypes
<1>2. PICK next \in {"log", Successor[req[c].stage]} : req' = [req EXCEPT ![c].stage = next]
  BY DEF RunFilter
<1>3. req'[c].stage = next /\ req'[c].tries = req[c].tries
  BY <1>1, <1>2 DEF Requests
<1>4. CASE next = "log"
  BY <1>1, <1>3, <1>4, EndsForward DEF Filter
<1>5. CASE next = Successor[req[c].stage]
  <2>1. next # "log"
    BY <1>1, <1>5, StepsLeftFacts DEF Filter
  <2>2. StepsLeft(req'[c]) = Place[next] + 2 * (MaxTries - req[c].tries)
    BY <1>3, <2>1 DEF StepsLeft
  <2>3. /\ Place[next] = Place[req[c].stage] - 1 /\ Place[req[c].stage] \in 4 .. 8
        /\ StepsLeft(req[c]) = Place[req[c].stage] + 2 * (MaxTries - req[c].tries)
        /\ MaxTries - req[c].tries \in Nat
    BY <1>1, <1>5, StepsLeftFacts
  <2> QED
    BY <2>2, <2>3
<1> QED
  BY <1>2, <1>4, <1>5

\* a match leads to the connection or to the end,
LEMMA MatchForward ==
  ASSUME RouterInv, RequestTypes, NEW c \in Client, UpstreamPeer(c)
  PROVE  StepsLeft(req'[c]) < StepsLeft(req[c])
<1>1. req[c] \in Requests /\ req[c].stage = "route" /\ req \in [Client -> Requests \union {None}]
  BY DEF UpstreamPeer, At, RequestTypes
<1>2. StepsLeft(req[c]) = 3 + 2 * (MaxTries - req[c].tries) /\ MaxTries - req[c].tries \in Nat
  BY <1>1, StepsLeftFacts
<1>3. CASE req' = [req EXCEPT ![c].stage = "log"]
  <2>1. req'[c].stage = "log"
    BY <1>1, <1>3 DEF Requests
  <2> QED
    BY <1>1, <2>1, EndsForward
<1>4. ASSUME NEW r \in Candidates(req[c].path), NEW id \in RouteId,
             req' = [req EXCEPT ![c] = Matched(c, r, id)]
      PROVE  StepsLeft(req'[c]) < StepsLeft(req[c])
  <2>1. req'[c] = Matched(c, r, id)
    BY <1>1, <1>4
  <2>2. CASE ~Admits(r, c)
    <3>1. req'[c].stage = "log"
      BY <1>1, <2>1, <2>2 DEF Matched, Requests
    <3> QED
      BY <1>1, <3>1, EndsForward
  <2>3. CASE Admits(r, c)
    <3>1. req'[c].stage = "connect" /\ req'[c].tries = req[c].tries
      BY <1>1, <2>1, <2>3 DEF Matched, Requests
    <3>2. StepsLeft(req'[c]) = 2 + 2 * (MaxTries - req[c].tries)
      BY <3>1 DEF StepsLeft, Place
    <3> QED
      BY <1>2, <3>2
  <2> QED
    BY <2>2, <2>3
<1> QED
  BY <1>3, <1>4, UpstreamPeerCases

\* and a connection that fails costs a try.
LEMMA OutcomeForward ==
  ASSUME RequestTypes, NEW c \in Client, Retry(c) \/ Fail(c) \/ Respond(c)
  PROVE  StepsLeft(req'[c]) < StepsLeft(req[c])
<1>1. req[c] \in Requests /\ req[c].stage = "connect" /\ req \in [Client -> Requests \union {None}]
  BY DEF Retry, Fail, Respond, At, RequestTypes
<1>2. CASE Fail(c) \/ Respond(c)
  <2>1. req'[c].stage = "log"
    BY <1>1, <1>2 DEF Fail, Respond, Requests
  <2> QED
    BY <1>1, <2>1, EndsForward
<1>3. CASE Retry(c)
  <2>1. req'[c].stage = "route" /\ req'[c].tries = req[c].tries + 1 /\ req[c].tries \in Nat
    BY <1>1, <1>3, Constants DEF Retry, Requests
  <2>2. StepsLeft(req'[c]) = 3 + 2 * (MaxTries - (req[c].tries + 1))
    BY <2>1 DEF StepsLeft, Place
  <2>3. StepsLeft(req[c]) = 2 + 2 * (MaxTries - req[c].tries)
    BY <1>1, StepsLeftFacts
  <2> QED
    BY <2>1, <2>2, <2>3, Constants
<1> QED
  BY <1>2, <1>3

\* A reload leaves every request where it is.
LEMMA OvertakenStays ==
  ASSUME RequestTypes, Overtaken, NEW c \in Client, req[c] # None
  PROVE  req'[c].stage = req[c].stage /\ req'[c].tries = req[c].tries
<1>1. req[c] \in Requests
  BY DEF RequestTypes
<1> QED
  BY <1>1 DEF Overtaken, Requests

\* One step of AlwaysForward.
Forward(c) ==
  req[c] # None /\ req'[c] # None =>
    \/ StepsLeft(req'[c]) < StepsLeft(req[c])
    \/ req'[c].stage = req[c].stage /\ req'[c].tries = req[c].tries

LEMMA ForwardStep ==
  ASSUME RouterInv, RequestTypes, [Next]_vars, NEW c \in Client
  PROVE  Forward(c)
<1>1. CASE Reload
  BY <1>1, OvertakenStays DEF Reload, Forward
<1>2. ASSUME req' = req PROVE Forward(c)
  BY <1>2 DEF Forward
<1>3. ASSUME NEW e \in Client, e # c, \A d \in Client \ {e} : req'[d] = req[d]
      PROVE  Forward(c)
  BY <1>3 DEF Forward
<1>4. ASSUME NEW e \in Client,
             RunFilter(e) \/ UpstreamPeer(e) \/ Retry(e) \/ Fail(e) \/ Respond(e)
      PROVE  Forward(c)
  <2>1. CASE e = c
    BY <1>4, <2>1, FilterForward, MatchForward, OutcomeForward DEF Forward
  <2>2. CASE e # c
    <3>1. MovesOn(e) \/ \E r \in Candidates(req[e].path) : Matches(e, r)
      BY <1>4, FilterMoves, OutcomeMoves, ResponseMoves, MatchChanges
    <3>2. \A d \in Client \ {e} : req'[d] = req[d]
      BY <3>1 DEF MovesOn, Matches, Changes
    <3> QED
      BY <1>3, <2>2, <3>2
  <2> QED
    BY <2>1, <2>2
<1>5. ASSUME NEW e \in Client, NEW p \in Path, NEW signals \in SUBSET Signal, NEW m \in Method,
             Receive(e, p, signals, m)
      PROVE  Forward(c)
  <2>1. req[e] = None /\ \A d \in Client \ {e} : req'[d] = req[d]
    BY <1>5 DEF Receive, RequestTypes
  <2> QED
    BY <1>3, <2>1 DEF Forward
<1>6. ASSUME NEW e \in Client, Log(e) PROVE Forward(c)
  <2>1. req'[e] = None /\ \A d \in Client \ {e} : req'[d] = req[d]
    BY <1>6 DEF Log, RequestTypes
  <2> QED
    BY <1>3, <2>1 DEF Forward
<1>7. ASSUME NEW e \in Client, NEW n \in CookieName, Expire(e, n) PROVE Forward(c)
  BY <1>2, <1>7 DEF Expire
<1> QED
  BY <1>1, <1>2, <1>4, <1>5, <1>6, <1>7 DEF Next, Proceed, vars

(* A request ends after a number of steps that is known when it starts, for *)
(* any number of tries and whatever reloads come in between: AlwaysForward. *)
THEOREM AlwaysNearerTheEnd == Spec => AlwaysForward
<1>1. RouterInv /\ RequestTypes /\ [Next]_vars => \A c \in Client : Forward(c)
  BY ForwardStep
<1>2. RouterInv /\ RequestTypes /\ [Next]_vars =>
        \A c \in Client :
          req[c] # None /\ req'[c] # None =>
            \/ StepsLeft(req'[c]) < StepsLeft(req[c])
            \/ req'[c].stage = req[c].stage /\ req'[c].tries = req[c].tries
  BY <1>1 DEF Forward
<1> QED
  BY <1>2, Always, PTL DEF Spec, AlwaysForward

-----------------------------------------------------------------------------
(* Sticky cookies.                                                         *)

\* Rule r of the candidates of p is one that id and cookie n stand for.
Stands(r, p, id, n) ==
  r \in Sticking(Candidates(p), "cookie") /\ r.id = id /\ r.canary.cookie = n

\* The client still holds the cookie of each route it was assigned.
Holds(c) ==
  \A p \in Path :
    assigned[c][p] # None =>
      \E r \in table : Stands(r, p, assigned[c][p], r.canary.cookie)
                         /\ jar[c][r.canary.cookie] = assigned[c][p]

\* A decision that no reload has overtaken is about a candidate of the path.
Fresh(c) ==
  LET d == req[c].decision
  IN  req[c] # None /\ SetsCookie(d) /\ ~d.stale
        => \E r \in table : Stands(r, req[c].path, d.route, d.cookie)

\* While no update has stopped half way: a reload ends what was assigned.
StickyInv == ~torn => \A c \in Client : (CookiesApart => Holds(c)) /\ Fresh(c)

\* What depends on the table alone.
LEMMA SameTable ==
  ASSUME table' = table
  PROVE  /\ \A p \in Path : Candidates(p)' = Candidates(p)
         /\ CookiesApart' <=> CookiesApart
         /\ \A r, p, id, n : Stands(r, p, id, n)' <=> Stands(r, p, id, n)
BY DEF Candidates, CookiesApart, CookiesOf, Sticking, Stands

\* One cookie for the candidates of one path, another one for other candidates.
LEMMA ApartFacts ==
  ASSUME CookiesApart, NEW p \in Path, NEW q \in Path, NEW r, NEW s,
         Stands(r, p, r.id, r.canary.cookie), Stands(s, q, s.id, s.canary.cookie)
  PROVE  r.canary.cookie = s.canary.cookie <=> Candidates(p) = Candidates(q)
<1>1. r.canary.cookie \in CookiesOf(p) /\ s.canary.cookie \in CookiesOf(q)
  BY DEF Stands, CookiesOf
<1> QED
  BY <1>1 DEF CookiesApart

\* A step that hands out no cookie and leaves the table.
LEMMA HoldsKept ==
  ASSUME StickyInv, ~torn, table' = table, UNCHANGED <<jar, assigned>>, NEW c \in Client
  PROVE  (CookiesApart => Holds(c))'
BY SameTable DEF StickyInv, Holds

\* A request that keeps or loses its decision needs no new argument.
LEMMA FreshKept ==
  ASSUME StickyInv, ~torn, table' = table, NEW c \in Client,
         \/ req'[c] = req[c]
         \/ req'[c] = None
         \/ req'[c].decision = None
         \/ req[c] # None /\ req'[c].path = req[c].path /\ req'[c].decision = req[c].decision
  PROVE  Fresh(c)'
BY SameTable DEF StickyInv, Fresh, SetsCookie

\* The match makes a decision about a candidate, or leaves it.
LEMMA FreshMatched ==
  ASSUME RouterInv, StickyInv, ~torn, table' = table, NEW c \in Client, req[c] # None,
         NEW r \in Candidates(req[c].path), Matches(c, r)
  PROVE  Fresh(c)'
<1>1. r \in table
  BY DEF Candidates
<1>2. CASE r.canary = None
  <2>1. req'[c].decision = req[c].decision /\ req'[c].path = req[c].path
    BY <1>1, <1>2, DecideFacts DEF Matches, Changes
  <2> QED
    BY <2>1, FreshKept
<1>3. CASE r.canary # None
  <2> DEFINE isNew == r.canary.stick = "cookie" /\ jar[c][r.canary.cookie] # r.id
             d == req'[c].decision
  <2>1. d = [route |-> r.id, stale |-> FALSE,
             cookie |-> IF isNew THEN r.canary.cookie ELSE None]
    BY <1>1, <1>3, DecideFacts DEF Matches
  <2>2. CASE ~isNew
    <3>1. d.cookie = None
      BY <2>1, <2>2
    <3> QED
      BY <3>1 DEF Fresh, SetsCookie
  <2>3. CASE isNew
    <3>1. d.route = r.id /\ d.cookie = r.canary.cookie
      BY <2>1, <2>3
    <3>2. req'[c].path = req[c].path
      BY DEF Matches, Changes
    <3>3. Stands(r, req[c].path, r.id, r.canary.cookie)
      BY <1>3, <2>3 DEF Stands, Sticking
    <3>4. Stands(r, req[c].path, req[c].decision.route, req[c].decision.cookie)'
      BY <3>1, <3>2, <3>3 DEF Stands, Sticking, Candidates
    <3> QED
      BY <1>1, <3>4 DEF Fresh
  <2> QED
    BY <2>2, <2>3
<1> QED
  BY <1>2, <1>3

\* The answer that sets a cookie overwrites none that another path relies on.
LEMMA HoldsAnswered ==
  ASSUME RouterInv, RequestTypes, StickyInv, ~torn, NEW c \in Client, Respond(c), CookiesApart
  PROVE  Holds(c)'
<1> DEFINE d == req[c].decision
<1>1. table' = table
  BY DEF Respond, routerVars
<1>2. CASE ~SetsCookie(d)
  BY <1>1, <1>2, HoldsKept, SameTable DEF Respond
<1>3. CASE SetsCookie(d)
  <2>1. /\ d.route \in RouteId /\ d.cookie \in CookieName
        /\ req[c] # None /\ req[c].path \in Path
    BY <1>3 DEF Respond, At, RequestTypes, Requests, SetsCookie, Decision
  <2>2. jar' = [jar EXCEPT ![c][d.cookie] = d.route]
    BY <1>3 DEF Respond
  <2>3. \A n \in CookieName : jar'[c][n] = IF n = d.cookie THEN d.route ELSE jar[c][n]
    BY <2>2 DEF RequestTypes
  <2>4. CASE d.stale
    <3>1. assigned'[c] = Nowhere
      BY <1>3, <2>4 DEF Respond, RequestTypes
    <3> QED
      BY <3>1 DEF Holds, Nowhere
  <2>5. CASE ~d.stale
    <3>1. \A q \in Path : assigned'[c][q] = IF q \in Group(req[c].path) THEN d.route
                                            ELSE assigned[c][q]
      BY <1>3, <2>5 DEF Respond, RequestTypes
    <3>2. PICK s \in table : Stands(s, req[c].path, d.route, d.cookie)
      BY <1>3, <2>1, <2>5 DEF StickyInv, Fresh
    <3>3. s.id = d.route /\ s.canary.cookie = d.cookie
      BY <3>2 DEF Stands
    <3>4. ASSUME NEW q \in Path, assigned'[c][q] # None
          PROVE  \E r \in table : Stands(r, q, assigned'[c][q], r.canary.cookie)
                                    /\ jar'[c][r.canary.cookie] = assigned'[c][q]
      <4>1. CASE q \in Group(req[c].path)
        <5>1. Candidates(q) = Candidates(req[c].path) /\ assigned'[c][q] = d.route
          BY <3>1, <4>1 DEF Group
        <5>2. Stands(s, q, d.route, s.canary.cookie)
          BY <3>2, <3>3, <5>1 DEF Stands
        <5> QED
          BY <2>1, <2>3, <3>3, <5>1, <5>2
      <4>2. CASE q \notin Group(req[c].path)
        <5>1. assigned'[c][q] = assigned[c][q] /\ Candidates(q) # Candidates(req[c].path)
          BY <3>1, <4>2 DEF Group
        <5>2. PICK r \in table : Stands(r, q, assigned[c][q], r.canary.cookie)
                                   /\ jar[c][r.canary.cookie] = assigned[c][q]
          BY <3>4, <5>1 DEF StickyInv, Holds
        <5>3. /\ Stands(r, q, r.id, r.canary.cookie)
              /\ Stands(s, req[c].path, s.id, s.canary.cookie)
          BY <3>2, <5>2 DEF Stands
        <5>4. r.canary.cookie # d.cookie
          BY <2>1, <3>3, <5>1, <5>3, ApartFacts
        <5>5. r.canary.cookie \in CookieName
          BY <5>2, TableFacts, CanaryFacts DEF Stands, Sticking
        <5> QED
          BY <2>3, <5>1, <5>2, <5>4, <5>5
      <4> QED
        BY <4>1, <4>2
    <3> QED
      BY <1>1, <3>4, SameTable DEF Holds
  <2> QED
    BY <2>4, <2>5
<1> QED
  BY <1>2, <1>3

\* Jars, assignments and decisions agree after every step.
LEMMA StickyStep ==
  ASSUME RouterInv, RequestTypes, StickyInv, [Next]_vars
  PROVE  StickyInv'
<1> SUFFICES ASSUME ~torn' PROVE StickyInv'
  BY DEF StickyInv
<1>1. CASE Reload
  <2>1. assigned' = [c \in Client |-> Nowhere]
    BY <1>1 DEF Reload, Overtaken
  <2>2. \A c \in Client : Holds(c)'
    BY <2>1 DEF Holds, Nowhere
  <2>3. \A c \in Client : Fresh(c)'
    BY <1>1, OvertakenFacts DEF Reload, Fresh, SetsCookie
  <2> QED
    BY <2>2, <2>3 DEF StickyInv
<1>2. ASSUME ~torn, table' = table, UNCHANGED <<jar, assigned>>, NEW c \in Client,
             \A e \in Client \ {c} : req'[e] = req[e],
             Fresh(c)'
      PROVE  StickyInv'
  BY <1>2, HoldsKept, FreshKept DEF StickyInv
<1>3. ASSUME NEW c \in Client, NEW p \in Path, NEW signals \in SUBSET Signal, NEW m \in Method,
             Receive(c, p, signals, m)
      PROVE  StickyInv'
  <2>1. ~torn /\ table' = table /\ UNCHANGED <<jar, assigned>> /\ req'[c].decision = None
        /\ \A e \in Client \ {c} : req'[e] = req[e]
    BY <1>3 DEF Receive, routerVars, RequestTypes
  <2> QED
    BY <1>2, <2>1, FreshKept
<1>4. ASSUME NEW c \in Client, RunFilter(c) \/ Retry(c) \/ Fail(c) PROVE StickyInv'
  <2>1. MovesOn(c) /\ req[c] # None
    BY <1>4, FilterMoves, OutcomeMoves DEF RunFilter, Retry, Fail, At
  <2>2. ~torn /\ table' = table /\ UNCHANGED <<jar, assigned>>
    BY <1>4 DEF RunFilter, Retry, Fail, routerVars
  <2>3. Fresh(c)' /\ \A e \in Client \ {c} : req'[e] = req[e]
    BY <2>1, <2>2, FreshKept DEF MovesOn, Changes
  <2> QED
    BY <1>2, <2>2, <2>3
<1>5. ASSUME NEW c \in Client, UpstreamPeer(c) PROVE StickyInv'
  <2>1. ~torn /\ req[c] # None /\ table' = table /\ UNCHANGED <<jar, assigned>>
    BY <1>5 DEF UpstreamPeer, At, Sort
  <2>2. CASE MovesOn(c)
    <3>1. Fresh(c)' /\ \A e \in Client \ {c} : req'[e] = req[e]
      BY <2>1, <2>2, FreshKept DEF MovesOn, Changes
    <3> QED
      BY <1>2, <2>1, <3>1
  <2>3. ASSUME NEW r \in Candidates(req[c].path), Matches(c, r) PROVE StickyInv'
    <3>1. Fresh(c)' /\ \A e \in Client \ {c} : req'[e] = req[e]
      BY <2>1, <2>3, FreshMatched DEF Matches, Changes
    <3> QED
      BY <1>2, <2>1, <3>1
  <2> QED
    BY <1>5, <2>2, <2>3, MatchChanges
<1>6. ASSUME NEW c \in Client, Log(c) PROVE StickyInv'
  <2>1. ~torn /\ table' = table /\ UNCHANGED <<jar, assigned>> /\ req'[c] = None
        /\ \A e \in Client \ {c} : req'[e] = req[e]
    BY <1>6 DEF Log, routerVars, RequestTypes
  <2> QED
    BY <1>2, <2>1, FreshKept
<1>7. ASSUME NEW c \in Client, Respond(c) PROVE StickyInv'
  <2>1. ~torn /\ table' = table /\ MovesOn(c) /\ req[c] # None
    BY <1>7, ResponseMoves DEF Respond, At, routerVars
  <2>2. \A e \in Client : Fresh(e)'
    BY <2>1, FreshKept DEF MovesOn, Changes
  <2>3. CookiesApart' => CookiesApart
    BY <2>1, SameTable
  <2>4. \A e \in Client \ {c} : jar'[e] = jar[e] /\ assigned'[e] = assigned[e]
    BY <1>7 DEF Respond, RequestTypes
  <2>5. \A e \in Client \ {c} : CookiesApart => Holds(e)'
    BY <2>1, <2>4, SameTable DEF StickyInv, Holds
  <2>6. CookiesApart => Holds(c)'
    BY <1>7, <2>1, HoldsAnswered
  <2> QED
    BY <2>2, <2>3, <2>5, <2>6 DEF StickyInv
<1>8. ASSUME NEW c \in Client, NEW n \in CookieName, Expire(c, n) PROVE StickyInv'
  <2>1. ~torn /\ table' = table /\ req' = req /\ assigned'[c] = Nowhere
        /\ \A e \in Client \ {c} : jar'[e] = jar[e] /\ assigned'[e] = assigned[e]
    BY <1>8 DEF Expire, routerVars, RequestTypes
  <2>2. Holds(c)'
    BY <2>1 DEF Holds, Nowhere
  <2>3. \A e \in Client \ {c} : CookiesApart => Holds(e)'
    BY <2>1, SameTable DEF StickyInv, Holds
  <2>4. \A e \in Client : Fresh(e)'
    BY <2>1, FreshKept
  <2> QED
    BY <2>1, <2>2, <2>3, <2>4, SameTable DEF StickyInv
<1>9. CASE UNCHANGED vars
  BY <1>9, HoldsKept, FreshKept DEF vars, routerVars, StickyInv
<1> QED
  BY <1>1, <1>3, <1>4, <1>5, <1>6, <1>7, <1>8, <1>9 DEF Next, Proceed

\* At the start nothing is assigned.
LEMMA StickyInit == Init => StickyInv
BY DEF Init, StickyInv, Holds, Fresh, Nowhere

\* Where the candidates share one cookie and it names one of them, that one is
\* chosen: whatever the clock or the address says.
LEMMA StickyChoice ==
  ASSUME RouterInv, NEW S \in SUBSET table, NEW s \in Sticking(S, "cookie"),
         NEW cookies, cookies[s.canary.cookie] = s.id,
         \A r \in Sticking(S, "cookie") : r.canary.cookie = s.canary.cookie,
         NEW v
  PROVE  Choice(S, cookies, {}, v) = s
<1>1. s \in S /\ Sticking(S, "cookie") \in SUBSET table /\ Sticking(S, "cookie") # {}
  BY DEF Sticking
<1>2. Conditioned(S, {}) = {}
  BY DEF Conditioned
<1>3. FirstOf(Sticking(S, "cookie")).canary.cookie = s.canary.cookie
  BY <1>1, FirstExists
<1>4. Remembered(S, cookies) = {s}
  BY <1>1, <1>3, TableFacts DEF Remembered
<1>5. Cardinality(S) = 1 => S = {s}
  BY <1>1, FS_Singleton, TableFacts, FS_Subset
<1> QED
  BY <1>1, <1>2, <1>4, <1>5, OnlyIsFirst DEF Choice

\* What the invariant says of a first match.
LEMMA StickyFollows ==
  ASSUME RouterInv, RequestTypes, StickyInv, ~torn, CookiesApart, NEW c \in Client,
         MatchesFirst(c), assigned[c][req[c].path] # None
  PROVE  \/ req'[c].stage = "connect" /\ req'[c].rule.id = assigned[c][req[c].path]
         \/ \E r \in table : r.id = assigned[c][req[c].path] /\ ~Admits(r, c)
<1> DEFINE p == req[c].path
           S == Candidates(p)
<1>1. req[c] # None /\ req[c].signals = {} /\ UpstreamPeer(c) /\ p \in Path
      /\ req \in [Client -> Requests \union {None}]
  BY DEF MatchesFirst, At, RequestTypes, Requests
<1>2. PICK s \in table : Stands(s, p, assigned[c][p], s.canary.cookie)
                           /\ jar[c][s.canary.cookie] = assigned[c][p]
  BY <1>1 DEF StickyInv, Holds
<1>3. s \in Sticking(S, "cookie") /\ s.id = assigned[c][p]
  BY <1>2 DEF Stands
<1>4. \A r \in Sticking(S, "cookie") : r.canary.cookie = s.canary.cookie
  <2>1. \A m, n \in CookiesOf(p) : m = n
    BY <1>1 DEF CookiesApart
  <2> QED
    BY <1>3, <2>1 DEF CookiesOf
<1>5. \A v : Choice(S, jar[c], {}, v) = s
  <2>1. S \in SUBSET table
    BY DEF Candidates
  <2> QED
    BY <1>2, <1>3, <1>4, <2>1, StickyChoice
<1>6. \A r \in Picks(c) : r = s
  BY <1>1, <1>5 DEF Picks
<1>7. s # None
  BY TableFacts, RuleFacts
<1>8. PICK e \in ResolvePath(p) : req' = [req EXCEPT ![c] = Matched(c, s, e.id)]
  <2>1. PICK r \in Picks(c), noCluster \in {FALSE, torn} :
          IF r = None \/ noCluster THEN req' = [req EXCEPT ![c].stage = "log"]
          ELSE \E e \in ResolvePath(p) : req' = [req EXCEPT ![c] = Matched(c, r, e.id)]
    BY <1>1 DEF UpstreamPeer
  <2>2. r = s /\ noCluster = FALSE
    BY <1>6, <2>1 DEF RouterInv
  <2> QED
    BY <1>7, <2>1, <2>2
<1>9. e.id \in RouteId
  BY ResolvePathType, TableFacts, RuleFacts DEF Candidates
<1>10. req'[c] = Matched(c, s, e.id)
  BY <1>1, <1>8
<1>11. Admits(s, c) => req'[c].stage = "connect" /\ req'[c].rule = s
  BY <1>1, <1>9, <1>10, MatchedFacts
<1> QED
  BY <1>3, <1>11

(* A client that was given a route by Set-Cookie stays with it until the   *)
(* next reload, as long as paths with other candidates use other cookies   *)
(* and no update has stopped half way, for any routes, clients and files:  *)
(* StickyHolds.                                                            *)
THEOREM StickyUntilReload == Spec => StickyHolds
<1>1. RouterInv /\ RequestTypes /\ StickyInv /\ [Next]_vars => StickyInv'
  BY StickyStep
<1>2. RouterInv /\ RequestTypes /\ StickyInv
        => \A c \in Client :
             ~torn /\ CookiesApart /\ MatchesFirst(c) /\ assigned[c][req[c].path] # None
               => \/ req'[c].stage = "connect" /\ req'[c].rule.id = assigned[c][req[c].path]
                  \/ \E r \in table : r.id = assigned[c][req[c].path] /\ ~Admits(r, c)
  BY StickyFollows
<1>3. Init => StickyInv
  BY StickyInit
<1> QED
  BY <1>1, <1>2, <1>3, Always, PTL DEF Spec, StickyHolds
=============================================================================
