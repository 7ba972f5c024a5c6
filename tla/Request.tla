------------------------------ MODULE Request ------------------------------
(***************************************************************************)
(* The life of a request: the phases in which pingora calls KirinProxy.    *)
(* request_filter runs the filter chain, upstream_peer matches a route and *)
(* picks a node, a connection that fails is tried again from upstream_peer *)
(* on, response_filter hands out the sticky cookie, and logging counts.    *)
(* Each phase, and each filter, takes the read lock anew: reloads come in  *)
(* between.                                                                *)
(*                                                                         *)
(* A client sends one request at a time; those to /metrics get no context  *)
(* and change nothing.  The verdict of the rate limiter is open here: see  *)
(* RateLimiter.                                                            *)
(***************************************************************************)
EXTENDS Router

CONSTANTS
  HashOf,    \* the hash of each client's address, modulo Hundred
  MaxTries   \* max_retries of pingora: how many times a request is tried

ASSUME RequestAssumption == HashOf \in [Client -> 0 .. Hundred - 1] /\ MaxTries \in Nat \ {0}

VARIABLES
  req,       \* the request of each client and its RequestContext, or None
  jar,       \* the sticky cookies each client holds
  assigned   \* history: the route a Set-Cookie gave each client, by path, since
             \* the last reload

vars == <<routerVars, req, jar, assigned>>

Filter == {"method", "auth", "rate_limit", "header", "logging"}

\* build_default_filter_chain: the stage after each filter.
Successor == [method |-> "auth", auth |-> "rate_limit", rate_limit |-> "header",
              header |-> "logging", logging |-> "route"]

\* CanaryDecision.  cookie is the one that the response will set, if any; stale
\* says that a reload has come in between.
Decision == [route : RouteId, stale : BOOLEAN, cookie : CookieName \union {None}]

\* route_id is what resolve_path found, rule the route whose upstream has the request,
\* while one has it, tried (history) the routes of all its tries.
Requests ==
  [ path : Path, signals : SUBSET Signal, method : Method,
    stage : Filter \union {"route", "connect", "log"}, route_id : RouteId \union {None},
    rule : Rule \union {None}, decision : Decision \union {None},
    tries : 0 .. MaxTries, tried : SUBSET RouteId ]

Nowhere == [p \in Path |-> None]

Init ==
  /\ RouterInit
  /\ req = [c \in Client |-> None]
  /\ jar = [c \in Client |-> NoCookies]
  /\ assigned = [c \in Client |-> Nowhere]

-----------------------------------------------------------------------------
(* Reloads: requests under way keep what they have.                        *)

Overtaken ==
  /\ req' = [c \in Client |->
               IF req[c] = None \/ req[c].decision = None THEN req[c]
               ELSE [req[c] EXCEPT !.decision.stale = TRUE]]
  /\ assigned' = [c \in Client |-> Nowhere]
  /\ UNCHANGED jar

Reload == (\E f \in Files : ReloadDiff(f) \/ ReloadSimple(f)) /\ Overtaken

-----------------------------------------------------------------------------
(* request_filter.                                                         *)

At(c, stages) == req[c] # None /\ req[c].stage \in stages

\* new_ctx, and the context of the filters.
Receive(c, p, signals, m) ==
  /\ req[c] = None
  /\ req' = [req EXCEPT ![c] =
               [path |-> p, signals |-> signals, method |-> m, stage |-> "method",
                route_id |-> None, rule |-> None, decision |-> None,
                tries |-> 0, tried |-> {}]]
  /\ UNCHANGED <<routerVars, jar, assigned>>

\* The entry of the route the context names: none before upstream_peer.
EntryOf(x) == {r \in table : r.id = x.route_id}

MethodRefused(x) == \E r \in EntryOf(x) : r.methods # {} /\ x.method \notin r.methods

\* The filters that may let the request pass, and those that may stop it: the
\* token of a request and the limiter are not modelled.
Passes(x) == x.stage = "method" => ~MethodRefused(x)

Stops(x) ==
  CASE x.stage = "method" -> MethodRefused(x)
    [] x.stage = "auth" -> \E r \in EntryOf(x) : r.auth
    [] x.stage = "rate_limit" -> TRUE
    [] OTHER -> FALSE

RunFilter(c) ==
  /\ At(c, Filter)
  /\ \E next \in {"log", Successor[req[c].stage]} :
       /\ IF next = "log" THEN Stops(req[c]) ELSE Passes(req[c])
       /\ req' = [req EXCEPT ![c].stage = next]
  /\ UNCHANGED <<routerVars, jar, assigned>>

-----------------------------------------------------------------------------
(* upstream_peer.                                                          *)

\* find_canary_config_by_route_id: an update that stopped may leave routes which
\* config_snapshot does not have.
CanaryOf(id) == IF id \in IdsOf(file) THEN RouteOf(file, id).canary ELSE None

\* Only a route with a canary sets the decision anew.
Decide(r, cookies, old) ==
  LET canary == CanaryOf(r.id)
      isNew  == canary.stick = "cookie" /\ cookies[canary.cookie] # r.id
  IN  IF canary = None THEN old
      ELSE [route |-> r.id, stale |-> FALSE, cookie |-> IF isNew THEN canary.cookie ELSE None]

Admits(r, c) == c \notin r.refused

\* Fault: the decision is taken before the address lists are looked at.
MatchedEarly(c, r, id) ==
  LET x == [req[c] EXCEPT !.route_id = id, !.decision = Decide(r, jar[c], @)]
  IN  IF ~Admits(r, c) THEN [x EXCEPT !.stage = "log"]
      ELSE [x EXCEPT !.stage = "connect", !.rule = r, !.tried = @ \union {r.id}]

\* Fault: each try has a count of its own.
MatchedAnew(c, r, id) ==
  LET x == [req[c] EXCEPT !.route_id = id, !.tries = 0]
  IN  IF ~Admits(r, c) THEN [x EXCEPT !.stage = "log"]
      ELSE [x EXCEPT !.stage = "connect", !.rule = r, !.decision = Decide(r, jar[c], @),
                     !.tried = @ \union {r.id}]

\* The request after the match with rule r, where the registry names id.
Matched(c, r, id) ==
  LET x == [req[c] EXCEPT !.route_id = id]
  IN  IF ~Admits(r, c) THEN [x EXCEPT !.stage = "log"]
      ELSE [x EXCEPT !.stage = "connect", !.rule = r, !.decision = Decide(r, jar[c], @),
                     !.tried = @ \union {r.id}]

\* The routes that the clock, or the address, may choose.
Picks(c) ==
  {Choice(S, jar[c], req[c].signals, v) :
     S \in {Candidates(req[c].path)}, v \in Values(Candidates(req[c].path), HashOf[c])}

\* Without a route, and with an address that is kept out, the request ends; an
\* update that stopped may have left a route without its cluster.
UpstreamPeer(c) ==
  /\ At(c, {"route"})
  /\ \E r \in Picks(c), noCluster \in {FALSE, torn} :
       IF r = None \/ noCluster THEN req' = [req EXCEPT ![c].stage = "log"]
       ELSE \E e \in ResolvePath(req[c].path) : req' = [req EXCEPT ![c] = Matched(c, r, e.id)]
  /\ Sort
  /\ UNCHANGED <<jar, assigned>>

-----------------------------------------------------------------------------
(* The upstream, and the way back.                                         *)

\* Fault: a try is not counted.
RetryUncounted(c) ==
  /\ At(c, {"connect"})
  /\ req[c].tries < MaxTries
  /\ req' = [req EXCEPT ![c].stage = "route", ![c].rule = None]
  /\ UNCHANGED <<routerVars, jar, assigned>>

\* Fault: there is no end to it.
RetryUnbounded(c) ==
  /\ At(c, {"connect"})
  /\ req' = [req EXCEPT ![c].stage = "route", ![c].rule = None, ![c].tries = @ + 1]
  /\ UNCHANGED <<routerVars, jar, assigned>>

\* fail_to_connect allows another try: upstream_peer runs again, on the same
\* context.  A reused connection that turns out to be dead is treated alike.
Retry(c) ==
  /\ At(c, {"connect"})
  /\ req[c].tries < MaxTries
  /\ req' = [req EXCEPT ![c].stage = "route", ![c].rule = None, ![c].tries = @ + 1]
  /\ UNCHANGED <<routerVars, jar, assigned>>

\* No node, no try left, or an error after the connection.
Fail(c) ==
  /\ At(c, {"connect"})
  /\ req' = [req EXCEPT ![c].stage = "log", ![c].rule = None]
  /\ UNCHANGED <<routerVars, jar, assigned>>

\* The paths that have the candidates of p.
Group(p) == {q \in Path : Candidates(q) = Candidates(p)}

SetsCookie(decision) == decision # None /\ decision.cookie # None

\* response_filter, and the client that keeps the cookie.
Respond(c) ==
  /\ At(c, {"connect"})
  /\ LET d == req[c].decision
     IN  IF ~SetsCookie(d) THEN UNCHANGED <<jar, assigned>>
         ELSE /\ jar' = [jar EXCEPT ![c][d.cookie] = d.route]
              /\ assigned' = [assigned EXCEPT ![c] =
                   IF d.stale THEN Nowhere
                   ELSE [q \in Path |-> IF q \in Group(req[c].path) THEN d.route ELSE @[q]]]
  /\ req' = [req EXCEPT ![c].stage = "log", ![c].rule = None]
  /\ UNCHANGED routerVars

\* logging, after which the context is gone.
Log(c) ==
  /\ At(c, {"log"})
  /\ req' = [req EXCEPT ![c] = None]
  /\ UNCHANGED <<routerVars, jar, assigned>>

\* Max-Age runs out; during a request it might as well run out after it.
Expire(c, n) ==
  /\ req[c] = None
  /\ jar[c][n] # None
  /\ jar' = [jar EXCEPT ![c][n] = None]
  /\ assigned' = [assigned EXCEPT ![c] = Nowhere]
  /\ UNCHANGED <<routerVars, req>>

\* What the gateway does by itself.
Proceed(c) == RunFilter(c) \/ UpstreamPeer(c) \/ Log(c)

Next ==
  \/ Reload
  \/ \E c \in Client :
       \/ \E p \in Path, signals \in SUBSET Signal, m \in Method : Receive(c, p, signals, m)
       \/ Proceed(c)
       \/ Retry(c) \/ Fail(c) \/ Respond(c)
       \/ \E n \in CookieName : Expire(c, n)

\* The runtime polls the task of a request that can go on.  Nothing is assumed
\* of upstreams: no timeout is set, and one may keep a request for ever.
Spec == Init /\ [][Next]_vars /\ \A c \in Client : WF_vars(Proceed(c))

-----------------------------------------------------------------------------
(* Properties.                                                             *)

\* Every variable holds a value of its type.
TypeOK ==
  /\ RouterTypeOK
  /\ req \in [Client -> Requests \union {None}]
  /\ jar \in [Client -> [CookieName -> RouteId \union {None}]]
  /\ assigned \in [Client -> [Path -> RouteId \union {None}]]

CookiesOf(p) == {r.canary.cookie : r \in Sticking(Candidates(p), "cookie")}

\* The sticky candidates of a path name one cookie, and no path with other
\* candidates names it.
CookiesApart ==
  \A p, q \in Path : \A m \in CookiesOf(p), n \in CookiesOf(q) :
    m = n <=> Candidates(p) = Candidates(q)

\* The first match of a request that meets no condition.
MatchesFirst(c) == At(c, {"route"}) /\ req[c].tries = 0 /\ req[c].signals = {} /\ UpstreamPeer(c)

\* If so, a client that has got a route by Set-Cookie stays with it: until the
\* next reload or the cookie's end each of its requests that meets no condition
\* goes there, whatever its other requests have been answered meanwhile.
StickyHolds ==
  [][\A c \in Client :
       ~torn /\ CookiesApart /\ MatchesFirst(c) /\ assigned[c][req[c].path] # None
         => \/ req'[c].stage = "connect" /\ req'[c].rule.id = assigned[c][req[c].path]
            \/ \E r \in table : r.id = assigned[c][req[c].path] /\ ~Admits(r, c)]_vars

\* The canary metrics and the cookie name a route the request has been sent to,
\* whichever of its tries ended at the address lists or without a route.
DecisionWasTried ==
  \A c \in Client :
    req[c] # None /\ req[c].decision # None => req[c].decision.route \in req[c].tried

\* How many steps a request has before it, at most: a try takes two.
Place == [method |-> 8, auth |-> 7, rate_limit |-> 6, header |-> 5, logging |-> 4,
          route |-> 3, connect |-> 2]

StepsLeft(x) == IF x.stage = "log" THEN 1 ELSE Place[x.stage] + 2 * (MaxTries - x.tries)

\* A request ends after as many steps at the latest, whatever reloads and other
\* requests come in between: no filter is run twice, each try is counted, and
\* what a reload changes of it gives no step back.
AlwaysForward ==
  [][\A c \in Client :
       req[c] # None /\ req'[c] # None =>
         \/ StepsLeft(req'[c]) < StepsLeft(req[c])
         \/ req'[c].stage = req[c].stage /\ req'[c].tries = req[c].tries]_vars

\* A request is counted in the end, unless it waits for an upstream for good:
\* neither the filters, nor reloads, nor tries without end keep it.
EveryRequestEnds ==
  \A c \in Client : []<>(req[c] = None) \/ <>[]At(c, {"connect"})

\* The cookie a response sets is documented to name the route the request was
\* sent to.
CookieNamesRoute ==
  \A c \in Client :
    At(c, {"connect"}) /\ SetsCookie(req[c].decision)
      => req[c].decision.route = req[c].rule.id

\* A request whose method is not in its route's list is documented to be
\* answered with an error by the filters, before it is sent anywhere.
MethodsKept ==
  \A c \in Client :
    At(c, {"connect"}) => req[c].rule.methods = {} \/ req[c].method \in req[c].rule.methods
=============================================================================
