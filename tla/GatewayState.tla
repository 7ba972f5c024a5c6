---------------------------- MODULE GatewayState ----------------------------
(***************************************************************************)
(* The shared runtime state of the gateway (GatewayState) and the two ways *)
(* a configuration reaches it: a full rebuild (from_config, used at start  *)
(* and by ControlPlane::reload_simple) and an incremental update           *)
(* (diff_update, used by ControlPlane::reload_diff).  Both run with the    *)
(* write lock held, or on a state nobody else sees yet, so each call is    *)
(* one step here.  diff_update works stage by stage and returns at the     *)
(* first stage that fails, without undoing the earlier ones: each place    *)
(* it can return from is an action of its own.                             *)
(*                                                                         *)
(* A route's fields are one value, its rule, apart from the id and the     *)
(* upstream it names; the order in which rules are tried is not modelled   *)
(* here.  The filter chain never changes and is left out.                  *)
(***************************************************************************)
EXTENDS Naturals, Sequences

CONSTANTS
  RouteId,       \* the values of route_id
  Rule,          \* everything else routes_differ compares, the upstream apart
  Upstream,      \* the names of upstream clusters
  UpstreamSpec,  \* the contents of an upstreams entry: nodes, algorithm, health_check
  Policy,        \* the pairs (capacity, refill_rate)
  AuthSpec,      \* the contents of the auth section
  None,          \* an absent optional section
  Configs,       \* the contents the configuration file may have
  BadRegex,      \* the rules whose pattern Regex::new refuses
  Unsupported,   \* the upstream entries that name an unknown algorithm
  Fallible,      \* entries that need the outside world: a host name, a key file
  HealthChecked  \* the upstream entries with a health_check section

RouteCfg == [id : RouteId, rule : Rule, upstream : Upstream]

\* What RouteRule and RouteEntry keep of it.
Kept == [rule : Rule, upstream : Upstream]

\* One value of the configuration file.  lint says whether the field-local
\* checks of validate_config (addresses, weights, ranges, IP lists) all pass.
Config == [ routes    : Seq(RouteCfg),
            upstreams : UNION {[N -> UpstreamSpec] : N \in SUBSET Upstream},
            limit     : Policy \union {None},
            auth      : AuthSpec \union {None},
            lint      : BOOLEAN ]

\* tag stands for the identity of an Arc: a replacement carries the other tag.
Tag     == {0, 1}
Cluster == [spec : UpstreamSpec, tag : Tag, watched : BOOLEAN]
Limiter == [policy : Policy, tag : Tag]

ASSUME ConfigsAssumption == Configs \subseteq Config
ASSUME SpecAssumption ==
  /\ BadRegex \subseteq Rule
  /\ Unsupported \subseteq UpstreamSpec
  /\ HealthChecked \subseteq UpstreamSpec
  /\ Fallible \subseteq UpstreamSpec \union AuthSpec
ASSUME NoneAssumption == None \notin Policy \union AuthSpec \union Limiter

VARIABLES
  router,    \* Router: the rules of the routes that can be matched, by id
  registry,  \* RouteRegistry: the registered entries, by id
  clusters,  \* the upstream clusters, by name
  limiter,   \* the rate limiter or None
  auth,      \* the authentication settings or None
  snapshot,  \* config_snapshot: the configuration the next diff starts from
  booted,    \* main has registered the health-check services
  op,        \* the last call: "start", "full" or "diff"
  reply,     \* what it returned
  clean      \* history: no diff_update has failed half way since the last rebuild

served == <<router, registry, clusters, limiter, auth>>
vars   == <<router, registry, clusters, limiter, auth, snapshot, booted, op, reply, clean>>

-----------------------------------------------------------------------------
(* Reading a configuration.                                                *)

Ids(c) == {c.routes[i].id : i \in DOMAIN c.routes}

RouteOf(c, id) == c.routes[CHOOSE i \in DOMAIN c.routes : c.routes[i].id = id]

\* Fault (see README, "Faults"): the whole entry is stored.
RuleOfWhole(r) == r

RuleOf(r) == [rule |-> r.rule, upstream |-> r.upstream]

UniqueIds(c) ==
  \A i, j \in DOMAIN c.routes : c.routes[i].id = c.routes[j].id => i = j

UpstreamsExist(c) ==
  \A i \in DOMAIN c.routes : c.routes[i].upstream \in DOMAIN c.upstreams

\* validate_config: nothing here looks at the algorithm, compiles a pattern,
\* resolves a host name or opens the key file.
Valid(c) == c.lint /\ UniqueIds(c) /\ UpstreamsExist(c)

\* UpstreamCluster::from_config, when what is in lost cannot be resolved.
Builds(spec, lost) == spec \notin Unsupported \union lost

\* AuthConfigRaw::into_auth_config reads the public key file.
KeyLoads(spec, lost) == spec = None \/ spec \notin lost

\* GatewayState::from_config returns Ok.
FromConfigOk(c, lost) ==
  /\ Valid(c)
  /\ \A n \in DOMAIN c.upstreams : Builds(c.upstreams[n], lost)
  /\ \A i \in DOMAIN c.routes : c.routes[i].rule \notin BadRegex
  /\ KeyLoads(c.auth, lost)

Rules(c) == [id \in Ids(c) |-> RuleOf(RouteOf(c, id))]

-----------------------------------------------------------------------------
(* The full rebuild.                                                       *)

\* A tag for the new instance of a cluster, or of the limiter.
NewTag(n)     == IF n \in DOMAIN clusters THEN 1 - clusters[n].tag ELSE 0
NewLimiterTag == IF limiter = None THEN 0 ELSE 1 - limiter.tag

Init ==
  \E c \in Configs :
    /\ FromConfigOk(c, {})
    /\ router = Rules(c)
    /\ registry = Rules(c)
    /\ clusters = [n \in DOMAIN c.upstreams |->
                     [spec |-> c.upstreams[n], tag |-> 0, watched |-> FALSE]]
    /\ limiter = IF c.limit = None THEN None ELSE [policy |-> c.limit, tag |-> 0]
    /\ auth = c.auth
    /\ snapshot = c
    /\ booted = FALSE
    /\ op = "start"
    /\ reply = "ok"
    /\ clean = TRUE

\* main registers a background service for each cluster there is, once.
RegisterHealthServices ==
  /\ ~booted
  /\ booted' = TRUE
  /\ clusters' = [n \in DOMAIN clusters |-> [clusters[n] EXCEPT !.watched = TRUE]]
  /\ UNCHANGED <<router, registry, limiter, auth, snapshot, op, reply, clean>>

Rebuild(c) ==
  /\ router' = Rules(c)
  /\ registry' = Rules(c)
  /\ clusters' = [n \in DOMAIN c.upstreams |->
                    [spec |-> c.upstreams[n], tag |-> NewTag(n), watched |-> FALSE]]
  /\ limiter' = IF c.limit = None THEN None
                ELSE [policy |-> c.limit, tag |-> NewLimiterTag]
  /\ auth' = c.auth
  /\ snapshot' = c

\* reload_simple builds the new state aside: an error leaves the old one.
ReloadSimple(c, lost) ==
  /\ booted
  /\ \/ /\ FromConfigOk(c, lost)
        /\ Rebuild(c)
        /\ reply' = "ok"
        /\ clean' = TRUE
     \/ /\ ~FromConfigOk(c, lost)
        /\ reply' = "error"
        /\ UNCHANGED <<served, snapshot, clean>>
  /\ op' = "full"
  /\ UNCHANGED booted

-----------------------------------------------------------------------------
(* The incremental update, stage 1: routes, in the order of the file.      *)

\* Fault: the upstream a route names is not compared.
RoutesDifferNoUpstream(a, b) == a.rule # b.rule

RoutesDiffer(a, b) == a.rule # b.rule \/ a.upstream # b.upstream

IsNew(r)     == r.id \notin Ids(snapshot)
IsChanged(r) == ~IsNew(r) /\ RoutesDiffer(RouteOf(snapshot, r.id), r)
Touched(r)   == IsNew(r) \/ IsChanged(r)

\* Fault: add_route does not compile the pattern.
AddFailsNoCompile(r) == Touched(r) /\ IsNew(r) /\ r.id \in DOMAIN router

\* Fault: a changed route is added before the old one is removed.
AddFailsNoRemoval(r) ==
  Touched(r) /\ (r.rule \in BadRegex \/ r.id \in DOMAIN router)

\* add_route refuses a pattern that does not compile and an id the router
\* already holds.  A changed route has been removed just before it is added.
AddFails(r) ==
  Touched(r) /\ (r.rule \in BadRegex \/ (IsNew(r) /\ r.id \in DOMAIN router))

FirstFailure(c) ==
  CHOOSE i \in DOMAIN c.routes :
    AddFails(c.routes[i]) /\ \A j \in 1 .. i - 1 : ~AddFails(c.routes[j])

\* The ids removed when the loop ends at entry k: those the new file no longer
\* has, and those of the changed routes up to k, the failing one included.
RemovedUpTo(c, k) ==
  (Ids(snapshot) \ Ids(c)) \union
  {c.routes[i].id : i \in {j \in DOMAIN c.routes : j <= k /\ IsChanged(c.routes[j])}}

\* Fault: the last entry is skipped.
AddedBeforeShort(c, k) ==
  {c.routes[i].id : i \in {j \in DOMAIN c.routes : j < k - 1 /\ Touched(c.routes[j])}}

\* The ids added by the entries before k.
AddedBefore(c, k) ==
  {c.routes[i].id : i \in {j \in DOMAIN c.routes : j < k /\ Touched(c.routes[j])}}

\* Function f without the keys in gone, and with the pairs of g put in.
Patch(f, gone, g) ==
  [x \in (DOMAIN f \ gone) \union DOMAIN g |-> IF x \in DOMAIN g THEN g[x] ELSE f[x]]

PatchRoutes(f, c, k) ==
  Patch(f, RemovedUpTo(c, k), [id \in AddedBefore(c, k) |-> RuleOf(RouteOf(c, id))])

RoutesFail(c) == \E i \in DOMAIN c.routes : AddFails(c.routes[i])

\* Fault: an entry is registered before add_route has accepted it.
DiffRoutesRegisterFirst(c) ==
  /\ RoutesFail(c)
  /\ router' = PatchRoutes(router, c, FirstFailure(c))
  /\ registry' = PatchRoutes(registry, c, FirstFailure(c) + 1)

\* diff_routes returns at its first failing entry; otherwise it does them all.
DiffRoutesStopped(c) ==
  /\ RoutesFail(c)
  /\ router' = PatchRoutes(router, c, FirstFailure(c))
  /\ registry' = PatchRoutes(registry, c, FirstFailure(c))

DiffRoutesDone(c) ==
  /\ ~RoutesFail(c)
  /\ router' = PatchRoutes(router, c, Len(c.routes) + 1)
  /\ registry' = PatchRoutes(registry, c, Len(c.routes) + 1)

-----------------------------------------------------------------------------
(* Stage 2: clusters.  The names of the new file come out of a HashMap, in *)
(* any order, so when one of them cannot be built any subset of the others *)
(* has been built already.                                                 *)

UpstreamsDiffer(a, b) == a # b

\* Fault: every cluster of the new file is built again.
RebuiltAll(c) == DOMAIN c.upstreams

Rebuilt(c) ==
  {n \in DOMAIN c.upstreams :
     n \in DOMAIN snapshot.upstreams => UpstreamsDiffer(snapshot.upstreams[n], c.upstreams[n])}

Unbuildable(c, lost) == {n \in Rebuilt(c) : ~Builds(c.upstreams[n], lost)}

\* Fault: a changed cluster is taken out before the new one is built.
PatchClustersRemoveFirst(c, built) ==
  Patch(clusters, (DOMAIN snapshot.upstreams \ DOMAIN c.upstreams) \union Rebuilt(c),
        [n \in built |-> [spec |-> c.upstreams[n], tag |-> NewTag(n), watched |-> FALSE]])

PatchClusters(c, built) ==
  Patch(clusters, DOMAIN snapshot.upstreams \ DOMAIN c.upstreams,
        [n \in built |-> [spec |-> c.upstreams[n], tag |-> NewTag(n), watched |-> FALSE]])

DiffClustersStopped(c, lost) ==
  /\ Unbuildable(c, lost) # {}
  /\ \E built \in SUBSET (Rebuilt(c) \ Unbuildable(c, lost)) :
       clusters' = PatchClusters(c, built)

DiffClustersDone(c, lost) ==
  /\ Unbuildable(c, lost) = {}
  /\ clusters' = PatchClusters(c, Rebuilt(c))

-----------------------------------------------------------------------------
(* Stages 3 and 4: rate limiter and authentication.                        *)

\* Fault: a changed policy makes a new limiter.
DiffLimiterAnew(c) ==
  limiter' =
    IF snapshot.limit = c.limit THEN limiter
    ELSE IF c.limit = None THEN None
    ELSE [policy |-> c.limit, tag |-> NewLimiterTag]

\* Fault: a section taken out of the file leaves the limiter on.
DiffLimiterStaysOn(c) ==
  limiter' =
    IF c.limit \in {None, snapshot.limit} THEN limiter
    ELSE IF limiter = None THEN [policy |-> c.limit, tag |-> 0]
    ELSE [limiter EXCEPT !.policy = c.limit]

\* The old and the new section decide what is done; the limiter itself is
\* looked at only to hand it the new policy.
DiffLimiter(c) ==
  limiter' =
    CASE snapshot.limit = None /\ c.limit # None -> [policy |-> c.limit, tag |-> NewLimiterTag]
      [] snapshot.limit # None /\ c.limit = None -> None
      [] snapshot.limit # c.limit /\ snapshot.limit # None /\ c.limit # None /\ limiter # None
           -> [limiter EXCEPT !.policy = c.limit]
      [] OTHER -> limiter

AuthChanged(c) == snapshot.auth # c.auth

DiffAuthStopped(c, lost) == AuthChanged(c) /\ ~KeyLoads(c.auth, lost) /\ UNCHANGED auth

DiffAuthDone(c, lost) ==
  /\ AuthChanged(c) => KeyLoads(c.auth, lost)
  /\ auth' = IF AuthChanged(c) THEN c.auth ELSE auth

-----------------------------------------------------------------------------
(* diff_update: one action for each place it returns from.                 *)

DiffRejected(c) ==
  /\ ~Valid(c)
  /\ reply' = "error"
  /\ UNCHANGED <<served, snapshot, clean>>

DiffFailsInRoutes(c) ==
  /\ Valid(c)
  /\ DiffRoutesStopped(c)
  /\ reply' = "error"
  /\ clean' = FALSE
  /\ UNCHANGED <<clusters, limiter, auth, snapshot>>

DiffFailsInClusters(c, lost) ==
  /\ Valid(c)
  /\ DiffRoutesDone(c)
  /\ DiffClustersStopped(c, lost)
  /\ reply' = "error"
  /\ clean' = FALSE
  /\ UNCHANGED <<limiter, auth, snapshot>>

DiffFailsInAuth(c, lost) ==
  /\ Valid(c)
  /\ DiffRoutesDone(c)
  /\ DiffClustersDone(c, lost)
  /\ DiffLimiter(c)
  /\ DiffAuthStopped(c, lost)
  /\ reply' = "error"
  /\ clean' = FALSE
  /\ UNCHANGED snapshot

DiffApplied(c, lost) ==
  /\ Valid(c)
  /\ DiffRoutesDone(c)
  /\ DiffClustersDone(c, lost)
  /\ DiffLimiter(c)
  /\ DiffAuthDone(c, lost)
  /\ snapshot' = c
  /\ reply' = "ok"
  /\ UNCHANGED clean

DiffUpdate(c, lost) ==
  /\ \/ DiffRejected(c)
     \/ DiffFailsInRoutes(c)
     \/ DiffFailsInClusters(c, lost)
     \/ DiffFailsInAuth(c, lost)
     \/ DiffApplied(c, lost)
  /\ op' = "diff"
  /\ UNCHANGED booted

Next ==
  \/ RegisterHealthServices
  \/ \E c \in Configs, lost \in SUBSET Fallible :
       ReloadSimple(c, lost) \/ DiffUpdate(c, lost)

Spec == Init /\ [][Next]_vars
-----------------------------------------------------------------------------
(* Properties.                                                             *)

IsTable(f, K, V) == DOMAIN f \subseteq K /\ f \in [DOMAIN f -> V]

\* Every variable holds a value of its type.
TypeOK ==
  /\ IsTable(router, RouteId, Kept)
  /\ IsTable(registry, RouteId, Kept)
  /\ IsTable(clusters, Upstream, Cluster)
  /\ limiter \in Limiter \union {None}
  /\ auth \in AuthSpec \union {None}
  /\ snapshot \in Configs
  /\ booted \in BOOLEAN
  /\ op \in {"start", "full", "diff"}
  /\ reply \in {"ok", "error"}
  /\ clean \in BOOLEAN

\* The registry and the router hold the same routes, whatever calls have
\* failed and wherever they stopped: a path the router can match is one the
\* registry lets through.
RegistryMirrorsRouter == registry = router

\* The configuration in effect, read off the running parts.
Specs    == [n \in DOMAIN clusters |-> clusters[n].spec]
PolicyOf == IF limiter = None THEN None ELSE limiter.policy

Serves(c) ==
  /\ router = Rules(c)
  /\ registry = Rules(c)
  /\ Specs = c.upstreams
  /\ PolicyOf = c.limit
  /\ auth = c.auth

\* Any chain of incremental updates of which none failed half way leaves the
\* gateway serving what one full rebuild from the last file would serve.
CleanServesSnapshot == clean => Serves(snapshot)

Leads(id) == router[id].upstream \in DOMAIN clusters

\* The router has the route as the file last applied has it.
AsApplied(id) ==
  id \in DOMAIN router \intersect Ids(snapshot) /\ router[id] = Rules(snapshot)[id]

\* Although routes and clusters are updated by separate stages that each look only
\* at what changed, a call after which the state is whole leaves every route with its
\* cluster; and one that fails, wherever it stops and whatever calls have failed
\* before, takes no cluster from a route that it has left as it was last applied.
RoutesKeepClusters ==
  [][/\ clean' => \A id \in DOMAIN router' : Leads(id)'
     /\ reply' = "error" =>
          \A id \in Ids(snapshot) :
            AsApplied(id) /\ Leads(id) /\ AsApplied(id)' => Leads(id)']_vars

\* The snapshot is always a configuration from_config accepts, although
\* diff_update compiles and builds only what changed: a restart with the file
\* last applied comes up.
SnapshotIsBuildable == FromConfigOk(snapshot, {})

\* The inductive invariant behind the theorems of GatewayState_proofs.
IInv ==
  /\ TypeOK
  /\ RegistryMirrorsRouter
  /\ SnapshotIsBuildable
  /\ CleanServesSnapshot

\* While no update has failed half way, diff_update accepts every file that a
\* full rebuild would accept at that moment.
CleanDiffAccepts ==
  [][\A c \in Configs, lost \in SUBSET Fallible :
       clean /\ reply' = "error" /\ FromConfigOk(c, lost) => ~DiffUpdate(c, lost)]_vars

Same(f, g, x) == (x \in DOMAIN f <=> x \in DOMAIN g) /\ (x \in DOMAIN f => f[x] = g[x])

SameRoute(c, id) ==
  /\ id \in Ids(snapshot) \intersect Ids(c)
  /\ RuleOf(RouteOf(snapshot, id)) = RuleOf(RouteOf(c, id))

SameUpstream(c, n) ==
  /\ n \in DOMAIN snapshot.upstreams \intersect DOMAIN c.upstreams
  /\ snapshot.upstreams[n] = c.upstreams[n]

KeepsUnchanged(c) ==
  /\ \A id \in RouteId : SameRoute(c, id) => Same(router, router', id)
  /\ \A n \in Upstream : SameUpstream(c, n) => Same(clusters, clusters', n)
  /\ snapshot.limit # None /\ c.limit # None /\ limiter # None
       => limiter' # None /\ limiter'.tag = limiter.tag

\* diff_update, failing or not, keeps in place every route and every cluster
\* instance, with its health-check service, whose configuration is the same in
\* both files, and keeps the limiter's instance while both files have one.
UnchangedStays ==
  [][op' = "diff" =>
       \A c \in Configs :
         /\ reply' = "ok" => c = snapshot'
         /\ ~KeepsUnchanged(c)
         => \A lost \in SUBSET Fallible : ~DiffUpdate(c, lost)]_vars

\* config_snapshot is documented as the configuration in effect, and the watcher logs
\* that a failed reload keeps the old one: it should be what is served at least after
\* a reload that returned Ok.
AppliedIsInEffect == reply = "ok" => Serves(snapshot)

\* Once the health services are registered, every cluster that asks for health
\* checks has one.
ConfiguredChecksRun ==
  booted => \A n \in DOMAIN clusters : clusters[n].spec \in HealthChecked => clusters[n].watched

-----------------------------------------------------------------------------
(* The contract: see ConfigRegister.                                       *)

Content(c) ==
  [routes |-> Rules(c), upstreams |-> c.upstreams, limit |-> c.limit, auth |-> c.auth]

\* The register's value, in a 1-tuple so that the torn one, <<>>, is another.
InEffect ==
  IF clean
  THEN <<[routes |-> router, upstreams |-> Specs, limit |-> PolicyOf, auth |-> auth]>>
  ELSE <<>>

Register ==
  INSTANCE ConfigRegister WITH
    Contents <- {<<Content(c)>> : c \in Configs},
    Torn     <- <<>>,
    content  <- InEffect

\* Both reloads read and write the configuration in effect as one register
\* would, except that an incremental reload that fails after validation tears
\* it until the next full reload.
ActsAsRegister == Register!Spec
=============================================================================
