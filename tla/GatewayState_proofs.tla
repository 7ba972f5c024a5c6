------------------------- MODULE GatewayState_proofs -------------------------
(***************************************************************************)
(* Theorems about GatewayState, for any files, routes, upstreams, policies *)
(* and any failure of what the files depend on.                            *)
(***************************************************************************)
EXTENDS GatewayState, TLAPS

(* A file of the domain has routes, upstreams and sections of their types. *)
LEMMA ConfigType ==
  ASSUME NEW c \in Configs
  PROVE  /\ c.routes \in Seq(RouteCfg)
         /\ DOMAIN c.routes = 1 .. Len(c.routes)
         /\ Len(c.routes) \in Nat
         /\ \A i \in DOMAIN c.routes : c.routes[i] \in RouteCfg
         /\ DOMAIN c.upstreams \in SUBSET Upstream
         /\ c.upstreams \in [DOMAIN c.upstreams -> UpstreamSpec]
         /\ c.limit \in Policy \union {None}
         /\ c.auth \in AuthSpec \union {None}
<1>1. c \in Config
  BY ConfigsAssumption
<1>2. c.routes \in Seq(RouteCfg)
  BY <1>1 DEF Config
<1>3. \E N \in SUBSET Upstream : c.upstreams \in [N -> UpstreamSpec]
  BY <1>1 DEF Config
<1>4. /\ c.limit \in Policy \union {None}
      /\ c.auth \in AuthSpec \union {None}
  BY <1>1 DEF Config
<1>5. /\ DOMAIN c.routes = 1 .. Len(c.routes)
      /\ Len(c.routes) \in Nat
      /\ \A i \in DOMAIN c.routes : c.routes[i] \in RouteCfg
  BY <1>2
<1>6. /\ DOMAIN c.upstreams \in SUBSET Upstream
      /\ c.upstreams \in [DOMAIN c.upstreams -> UpstreamSpec]
  BY <1>3
<1> QED
  BY <1>2, <1>4, <1>5, <1>6

(* Looking up an id of a file gives an entry of the file with that id.     *)
LEMMA RouteOfEntry ==
  ASSUME NEW c \in Configs, NEW id \in Ids(c)
  PROVE  /\ \E i \in DOMAIN c.routes : RouteOf(c, id) = c.routes[i]
         /\ RouteOf(c, id) \in RouteCfg
         /\ RouteOf(c, id).id = id
         /\ id \in RouteId
<1>1. \E i \in DOMAIN c.routes : c.routes[i].id = id
  BY DEF Ids
<1> DEFINE k == CHOOSE i \in DOMAIN c.routes : c.routes[i].id = id
<1>2. k \in DOMAIN c.routes /\ c.routes[k].id = id
  BY <1>1
<1>3. RouteOf(c, id) = c.routes[k]
  BY DEF RouteOf
<1>4. c.routes[k] \in RouteCfg
  BY <1>2, ConfigType
<1>5. c.routes[k].id \in RouteId
  BY <1>4 DEF RouteCfg
<1> QED
  BY <1>2, <1>3, <1>4, <1>5

(* When ids are unique, it gives the only such entry.                      *)
LEMMA RouteOfUnique ==
  ASSUME NEW c \in Configs, UniqueIds(c), NEW i \in DOMAIN c.routes
  PROVE  RouteOf(c, c.routes[i].id) = c.routes[i]
<1>1. c.routes[i].id \in Ids(c)
  BY DEF Ids
<1>2. PICK j \in DOMAIN c.routes : RouteOf(c, c.routes[i].id) = c.routes[j]
  BY <1>1, RouteOfEntry
<1>3. c.routes[j].id = c.routes[i].id
  BY <1>1, <1>2, RouteOfEntry
<1>4. j = i
  BY <1>3 DEF UniqueIds
<1> QED
  BY <1>2, <1>4

(* The rules built from a file have the type the router keeps.             *)
LEMMA RulesType ==
  ASSUME NEW c \in Configs
  PROVE  /\ Ids(c) \in SUBSET RouteId
         /\ \A id \in Ids(c) : RuleOf(RouteOf(c, id)) \in Kept
         /\ Rules(c) \in [Ids(c) -> Kept]
<1>1. \A id \in Ids(c) : id \in RouteId /\ RouteOf(c, id) \in RouteCfg
  BY RouteOfEntry
<1>2. \A id \in Ids(c) : RuleOf(RouteOf(c, id)) \in Kept
  BY <1>1 DEF RuleOf, RouteCfg, Kept
<1> QED
  BY <1>1, <1>2 DEF Rules

(* Patch keeps the type of the table it changes.                           *)
LEMMA PatchType ==
  ASSUME NEW K, NEW V, NEW f, NEW g, NEW gone,
         IsTable(f, K, V), IsTable(g, K, V)
  PROVE  IsTable(Patch(f, gone, g), K, V)
BY DEF Patch, IsTable

(* The table diff_routes leaves, wherever it stops, is a table of routes.  *)
LEMMA PatchRoutesType ==
  ASSUME NEW c \in Configs, NEW f, NEW k, IsTable(f, RouteId, Kept)
  PROVE  IsTable(PatchRoutes(f, c, k), RouteId, Kept)
<1> DEFINE g == [id \in AddedBefore(c, k) |-> RuleOf(RouteOf(c, id))]
<1>1. AddedBefore(c, k) \subseteq Ids(c)
  BY DEF AddedBefore, Ids
<1>2. \A id \in AddedBefore(c, k) : id \in RouteId /\ RuleOf(RouteOf(c, id)) \in Kept
  BY <1>1, RulesType
<1>3. IsTable(g, RouteId, Kept)
  BY <1>2 DEF IsTable
<1> HIDE DEF g
<1>4. IsTable(Patch(f, RemovedUpTo(c, k), g), RouteId, Kept)
  BY <1>3, PatchType
<1> QED
  BY <1>4 DEF PatchRoutes, g

(* So is the table of clusters diff_clusters leaves.                       *)
LEMMA PatchClustersType ==
  ASSUME TypeOK, NEW c \in Configs, NEW built \in SUBSET DOMAIN c.upstreams
  PROVE  IsTable(PatchClusters(c, built), Upstream, Cluster)
<1> DEFINE g == [n \in built |-> [spec |-> c.upstreams[n], tag |-> NewTag(n), watched |-> FALSE]]
<1>1. IsTable(clusters, Upstream, Cluster)
  BY DEF TypeOK
<1>2. \A n \in DOMAIN clusters : clusters[n].tag \in Tag
  BY <1>1 DEF IsTable, Cluster
<1>3. \A n : NewTag(n) \in Tag
  BY <1>2 DEF NewTag, Tag
<1>4. \A n \in built : n \in Upstream /\ c.upstreams[n] \in UpstreamSpec
  BY ConfigType
<1>5. IsTable(g, Upstream, Cluster)
  BY <1>3, <1>4 DEF IsTable, Cluster
<1> HIDE DEF g
<1>6. IsTable(Patch(clusters, DOMAIN snapshot.upstreams \ DOMAIN c.upstreams, g), Upstream, Cluster)
  BY <1>1, <1>5, PatchType
<1> QED
  BY <1>6 DEF PatchClusters, g

(* The limiter diff_rate_limiter leaves is a limiter or none.              *)
LEMMA DiffLimiterType ==
  ASSUME TypeOK, NEW c \in Configs, DiffLimiter(c)
  PROVE  limiter' \in Limiter \union {None}
<1>1. c.limit \in Policy \union {None} /\ limiter \in Limiter \union {None}
  BY ConfigType DEF TypeOK
<1>2. NewLimiterTag \in Tag
  BY <1>1 DEF NewLimiterTag, Limiter, Tag
<1>3. c.limit # None => [policy |-> c.limit, tag |-> NewLimiterTag] \in Limiter
  BY <1>1, <1>2 DEF Limiter
<1>4. c.limit # None /\ limiter # None => [limiter EXCEPT !.policy = c.limit] \in Limiter
  BY <1>1 DEF Limiter
<1> QED
  BY <1>1, <1>3, <1>4 DEF DiffLimiter

-----------------------------------------------------------------------------
(* Type correctness.                                                       *)

LEMMA InitType == Init => TypeOK
<1> SUFFICES ASSUME Init PROVE TypeOK
  OBVIOUS
<1>1. PICK c \in Configs :
        /\ router = Rules(c)
        /\ registry = Rules(c)
        /\ clusters = [n \in DOMAIN c.upstreams |->
                        [spec |-> c.upstreams[n], tag |-> 0, watched |-> FALSE]]
        /\ limiter = IF c.limit = None THEN None ELSE [policy |-> c.limit, tag |-> 0]
        /\ auth = c.auth
        /\ snapshot = c
  BY DEF Init
<1>2. IsTable(router, RouteId, Kept) /\ IsTable(registry, RouteId, Kept)
  BY <1>1, RulesType DEF IsTable
<1>3. \A n \in DOMAIN c.upstreams : n \in Upstream /\ c.upstreams[n] \in UpstreamSpec
  BY ConfigType
<1>4. IsTable(clusters, Upstream, Cluster)
  BY <1>1, <1>3 DEF IsTable, Cluster, Tag
<1>5. limiter \in Limiter \union {None} /\ auth \in AuthSpec \union {None}
  BY <1>1, ConfigType DEF Limiter, Tag
<1> QED
  BY <1>1, <1>2, <1>4, <1>5 DEF TypeOK, Init

LEMMA RebuildType ==
  ASSUME TypeOK, NEW c \in Configs, Rebuild(c)
  PROVE  /\ IsTable(router', RouteId, Kept) /\ IsTable(registry', RouteId, Kept)
         /\ IsTable(clusters', Upstream, Cluster)
         /\ limiter' \in Limiter \union {None}
         /\ auth' \in AuthSpec \union {None}
         /\ snapshot' \in Configs
<1>1. IsTable(router', RouteId, Kept) /\ IsTable(registry', RouteId, Kept)
  BY RulesType DEF IsTable, Rebuild
<1>2. \A n \in DOMAIN clusters : clusters[n].tag \in Tag
  BY DEF TypeOK, IsTable, Cluster
<1>3. \A n : NewTag(n) \in Tag
  BY <1>2 DEF NewTag, Tag
<1>4. \A n \in DOMAIN c.upstreams : n \in Upstream /\ c.upstreams[n] \in UpstreamSpec
  BY ConfigType
<1>5. IsTable(clusters', Upstream, Cluster)
  BY <1>3, <1>4 DEF IsTable, Cluster, Rebuild
<1>6. NewLimiterTag \in Tag
  BY DEF TypeOK, NewLimiterTag, Limiter, Tag
<1>7. limiter' \in Limiter \union {None}
  BY <1>6, ConfigType DEF Limiter, Rebuild
<1> QED
  BY <1>1, <1>5, <1>7, ConfigType DEF Rebuild

LEMMA NextType == TypeOK /\ [Next]_vars => TypeOK'
<1> SUFFICES ASSUME TypeOK, [Next]_vars PROVE TypeOK'
  OBVIOUS
<1>1. CASE RegisterHealthServices
  <2>1. \A n \in DOMAIN clusters : [clusters[n] EXCEPT !.watched = TRUE] \in Cluster
    BY DEF TypeOK, IsTable, Cluster
  <2>2. IsTable(clusters', Upstream, Cluster)
    BY <1>1, <2>1 DEF RegisterHealthServices, TypeOK, IsTable
  <2> QED
    BY <1>1, <2>2 DEF RegisterHealthServices, TypeOK
<1>2. ASSUME NEW c \in Configs, NEW lost \in SUBSET Fallible, ReloadSimple(c, lost)
      PROVE  TypeOK'
  <2>1. CASE Rebuild(c) /\ reply' = "ok" /\ clean' = TRUE
    BY <1>2, <2>1, RebuildType DEF ReloadSimple, TypeOK
  <2>2. CASE reply' = "error" /\ UNCHANGED <<served, snapshot, clean>>
    BY <1>2, <2>2 DEF ReloadSimple, TypeOK, served
  <2> QED
    BY <1>2, <2>1, <2>2 DEF ReloadSimple
<1>3. ASSUME NEW c \in Configs, NEW lost \in SUBSET Fallible, DiffUpdate(c, lost)
      PROVE  TypeOK'
  <2>1. op' = "diff" /\ UNCHANGED booted
    BY <1>3 DEF DiffUpdate
  <2>2. CASE DiffRejected(c)
    BY <2>1, <2>2 DEF DiffRejected, TypeOK, served
  <2>3. CASE DiffFailsInRoutes(c)
    <3>1. IsTable(router', RouteId, Kept) /\ IsTable(registry', RouteId, Kept)
      BY <2>3, PatchRoutesType DEF DiffFailsInRoutes, DiffRoutesStopped, TypeOK
    <3> QED
      BY <2>1, <2>3, <3>1 DEF DiffFailsInRoutes, TypeOK
  <2>4. ASSUME DiffRoutesDone(c)
        PROVE  IsTable(router', RouteId, Kept) /\ IsTable(registry', RouteId, Kept)
    BY <2>4, PatchRoutesType DEF DiffRoutesDone, TypeOK
  <2>5. ASSUME DiffClustersDone(c, lost)
        PROVE  IsTable(clusters', Upstream, Cluster)
    BY <2>5, PatchClustersType DEF DiffClustersDone, Rebuilt
  <2>6. CASE DiffFailsInClusters(c, lost)
    <3>1. IsTable(clusters', Upstream, Cluster)
      BY <2>6, PatchClustersType DEF DiffFailsInClusters, DiffClustersStopped, Rebuilt
    <3> QED
      BY <2>1, <2>4, <2>6, <3>1 DEF DiffFailsInClusters, TypeOK
  <2>7. CASE DiffFailsInAuth(c, lost)
    <3>1. limiter' \in Limiter \union {None}
      BY <2>7, DiffLimiterType DEF DiffFailsInAuth
    <3> QED
      BY <2>1, <2>4, <2>5, <2>7, <3>1 DEF DiffFailsInAuth, DiffAuthStopped, TypeOK
  <2>8. CASE DiffApplied(c, lost)
    <3>1. limiter' \in Limiter \union {None}
      BY <2>8, DiffLimiterType DEF DiffApplied
    <3>2. auth' \in AuthSpec \union {None}
      BY <2>8, ConfigType DEF DiffApplied, DiffAuthDone, TypeOK
    <3> QED
      BY <2>1, <2>4, <2>5, <2>8, <3>1, <3>2 DEF DiffApplied, TypeOK
  <2> QED
    BY <1>3, <2>2, <2>3, <2>6, <2>7, <2>8 DEF DiffUpdate
<1>4. CASE UNCHANGED vars
  BY <1>4 DEF vars, TypeOK
<1> QED
  BY <1>1, <1>2, <1>3, <1>4 DEF Next

(* Every variable keeps its type: TypeOK.                                  *)
THEOREM TypeCorrect == Spec => []TypeOK
BY InitType, NextType, PTL DEF Spec

-----------------------------------------------------------------------------
(* What a completed incremental update computes.                           *)

(* A route neither new nor changed is kept as it is in the snapshot.       *)
LEMMA UntouchedRule ==
  ASSUME NEW c \in Configs, UniqueIds(c), NEW i \in DOMAIN c.routes,
         ~Touched(c.routes[i])
  PROVE  /\ c.routes[i].id \in Ids(snapshot)
         /\ RuleOf(RouteOf(snapshot, c.routes[i].id)) = RuleOf(RouteOf(c, c.routes[i].id))
<1>1. c.routes[i].id \in Ids(snapshot)
  BY DEF Touched, IsNew
<1>2. ~RoutesDiffer(RouteOf(snapshot, c.routes[i].id), c.routes[i])
  BY DEF Touched, IsChanged
<1>3. RouteOf(c, c.routes[i].id) = c.routes[i]
  BY RouteOfUnique
<1> QED
  BY <1>1, <1>2, <1>3 DEF RoutesDiffer, RuleOf

(* Starting from the snapshot's rules, the loop over all entries leaves    *)
(* the rules of the new file.                                              *)
LEMMA AllRoutesDone ==
  ASSUME snapshot \in Configs, NEW c \in Configs, UniqueIds(c)
  PROVE  PatchRoutes(Rules(snapshot), c, Len(c.routes) + 1) = Rules(c)
<1> DEFINE k == Len(c.routes) + 1
           gone == RemovedUpTo(c, k)
           added == AddedBefore(c, k)
           g == [id \in added |-> RuleOf(RouteOf(c, id))]
<1>1. \A i \in DOMAIN c.routes : i <= k /\ i < k
  BY ConfigType
<1>2. added = {c.routes[i].id : i \in {j \in DOMAIN c.routes : Touched(c.routes[j])}}
  BY <1>1 DEF AddedBefore
<1>3. gone = (Ids(snapshot) \ Ids(c)) \union
             {c.routes[i].id : i \in {j \in DOMAIN c.routes : IsChanged(c.routes[j])}}
  BY <1>1 DEF RemovedUpTo
<1>4. (Ids(snapshot) \ gone) \union added = Ids(c)
  <2>1. added \subseteq Ids(c) /\ Ids(snapshot) \ gone \subseteq Ids(c)
    BY <1>2, <1>3 DEF Ids
  <2>2. ASSUME NEW x \in Ids(c), x \notin added
        PROVE  x \in Ids(snapshot) \ gone
    <3>1. PICK i \in DOMAIN c.routes : c.routes[i].id = x
      BY DEF Ids
    <3>2. ~Touched(c.routes[i])
      BY <1>2, <2>2, <3>1
    <3>3. x \in Ids(snapshot)
      BY <3>1, <3>2, UntouchedRule
    <3>4. \A j \in DOMAIN c.routes : IsChanged(c.routes[j]) => c.routes[j].id # x
      BY <3>1, <3>2 DEF UniqueIds, Touched
    <3> QED
      BY <1>3, <3>3, <3>4
  <2> QED
    BY <2>1, <2>2
<1>5. ASSUME NEW x \in Ids(c), x \notin added
      PROVE  x \in Ids(snapshot) /\ Rules(snapshot)[x] = Rules(c)[x]
  <2>1. PICK i \in DOMAIN c.routes : c.routes[i].id = x
    BY DEF Ids
  <2>2. ~Touched(c.routes[i])
    BY <1>2, <1>5, <2>1
  <2> QED
    BY <2>1, <2>2, UntouchedRule DEF Rules
<1>6. added \subseteq Ids(c)
  BY <1>4
<1> HIDE DEF k, gone, added
<1>7. Patch(Rules(snapshot), gone, g)
        = [x \in Ids(c) |-> IF x \in added THEN RuleOf(RouteOf(c, x)) ELSE Rules(snapshot)[x]]
  BY <1>4, <1>6 DEF Patch, Rules
<1>8. Patch(Rules(snapshot), gone, g) = Rules(c)
  BY <1>5, <1>7 DEF Rules
<1> QED
  BY <1>8 DEF PatchRoutes, k, gone, added

(* Starting from the snapshot's clusters, a completed second stage leaves  *)
(* the clusters of the new file.                                           *)
LEMMA AllClustersDone ==
  ASSUME TypeOK, NEW c \in Configs, Specs = snapshot.upstreams,
         clusters' = PatchClusters(c, Rebuilt(c))
  PROVE  Specs' = c.upstreams
<1> DEFINE gone == DOMAIN snapshot.upstreams \ DOMAIN c.upstreams
<1>1. DOMAIN clusters = DOMAIN snapshot.upstreams
      /\ \A n \in DOMAIN clusters : clusters[n].spec = snapshot.upstreams[n]
  BY DEF Specs
<1>2. Rebuilt(c) \subseteq DOMAIN c.upstreams
  BY DEF Rebuilt
<1>3. \A n \in DOMAIN c.upstreams \ Rebuilt(c) :
        n \in DOMAIN clusters /\ clusters[n].spec = c.upstreams[n]
  BY <1>1 DEF Rebuilt, UpstreamsDiffer
<1>4. DOMAIN clusters' = DOMAIN c.upstreams
  BY <1>1, <1>2, <1>3 DEF PatchClusters, Patch
<1>5. \A n \in DOMAIN c.upstreams : clusters'[n].spec = c.upstreams[n]
  BY <1>1, <1>2, <1>3 DEF PatchClusters, Patch
<1>6. c.upstreams = [n \in DOMAIN c.upstreams |-> c.upstreams[n]]
  BY ConfigType
<1> QED
  BY <1>4, <1>5, <1>6 DEF Specs

(* The limiter follows the section, if it did before.                      *)
LEMMA LimiterFollows ==
  ASSUME TypeOK, NEW c \in Configs, PolicyOf = snapshot.limit, DiffLimiter(c)
  PROVE  PolicyOf' = c.limit
<1>1. /\ limiter \in Limiter \union {None}
      /\ c.limit \in Policy \union {None}
      /\ snapshot.limit \in Policy \union {None}
      /\ None \notin Policy /\ None \notin Limiter
  BY ConfigType, NoneAssumption DEF TypeOK
<1>2. limiter = None <=> snapshot.limit = None
  BY <1>1 DEF PolicyOf, Limiter
<1>3. CASE snapshot.limit = None /\ c.limit # None
  <2>1. limiter' = [policy |-> c.limit, tag |-> NewLimiterTag]
    BY <1>3 DEF DiffLimiter
  <2>2. limiter' \in Limiter
    BY <1>1, <1>3, <2>1 DEF NewLimiterTag, Limiter, Tag
  <2> QED
    BY <1>1, <2>1, <2>2 DEF PolicyOf
<1>4. CASE snapshot.limit # None /\ c.limit = None
  BY <1>4 DEF DiffLimiter, PolicyOf
<1>5. CASE snapshot.limit # None /\ c.limit # None /\ snapshot.limit # c.limit
  <2>1. limiter' = [limiter EXCEPT !.policy = c.limit] /\ limiter \in Limiter
    BY <1>1, <1>2, <1>5 DEF DiffLimiter
  <2>2. limiter' \in Limiter /\ limiter'.policy = c.limit
    BY <1>1, <1>5, <2>1 DEF Limiter
  <2> QED
    BY <1>1, <2>2 DEF PolicyOf
<1>6. CASE snapshot.limit = c.limit
  BY <1>6 DEF DiffLimiter, PolicyOf
<1> QED
  BY <1>3, <1>4, <1>5, <1>6

(* A file applied incrementally to a buildable snapshot is buildable.      *)
LEMMA AppliedIsBuildable ==
  ASSUME TypeOK, SnapshotIsBuildable, NEW c \in Configs, NEW lost \in SUBSET Fallible,
         Valid(c), ~RoutesFail(c), Unbuildable(c, lost) = {}
  PROVE  FromConfigOk(c, {})
<1>1. \A n \in DOMAIN c.upstreams : Builds(c.upstreams[n], {})
  <2> SUFFICES ASSUME NEW n \in DOMAIN c.upstreams PROVE Builds(c.upstreams[n], {})
    OBVIOUS
  <2>1. CASE n \in Rebuilt(c)
    BY <2>1 DEF Unbuildable, Builds
  <2>2. CASE n \notin Rebuilt(c)
    BY <2>2 DEF Rebuilt, UpstreamsDiffer, SnapshotIsBuildable, FromConfigOk
  <2> QED
    BY <2>1, <2>2
<1>2. \A i \in DOMAIN c.routes : c.routes[i].rule \notin BadRegex
  <2> SUFFICES ASSUME NEW i \in DOMAIN c.routes PROVE c.routes[i].rule \notin BadRegex
    OBVIOUS
  <2>1. CASE Touched(c.routes[i])
    BY <2>1 DEF RoutesFail, AddFails
  <2>2. CASE ~Touched(c.routes[i])
    <3>1. /\ c.routes[i].id \in Ids(snapshot)
          /\ RouteOf(snapshot, c.routes[i].id).rule = c.routes[i].rule
      BY <2>2 DEF Touched, IsNew, IsChanged, RoutesDiffer
    <3>2. \E j \in DOMAIN snapshot.routes :
            RouteOf(snapshot, c.routes[i].id) = snapshot.routes[j]
      BY <3>1, RouteOfEntry DEF TypeOK
    <3> QED
      BY <3>1, <3>2 DEF SnapshotIsBuildable, FromConfigOk
  <2> QED
    BY <2>1, <2>2
<1>3. KeyLoads(c.auth, {})
  BY DEF KeyLoads
<1> QED
  BY <1>1, <1>2, <1>3 DEF FromConfigOk

-----------------------------------------------------------------------------
(* The inductive invariant.                                                *)

(* A full rebuild leaves what the new file says, from any state.           *)
LEMMA RebuildServes ==
  ASSUME TypeOK, NEW c \in Configs, Rebuild(c)
  PROVE  Serves(c)' /\ snapshot' = c
<1>1. Specs' = c.upstreams
  <2>1. c.upstreams = [n \in DOMAIN c.upstreams |-> c.upstreams[n]]
    BY ConfigType
  <2> QED
    BY <2>1 DEF Rebuild, Specs
<1>2. PolicyOf' = c.limit
  <2>1. CASE c.limit = None
    BY <2>1 DEF Rebuild, PolicyOf
  <2>2. CASE c.limit # None
    <3>1. limiter' = [policy |-> c.limit, tag |-> NewLimiterTag]
      BY <2>2 DEF Rebuild
    <3>2. NewLimiterTag \in Tag
      BY DEF TypeOK, NewLimiterTag, Limiter, Tag
    <3>3. limiter' \in Limiter
      BY <2>2, <3>1, <3>2, ConfigType DEF Limiter
    <3> QED
      BY <3>1, <3>3, NoneAssumption DEF PolicyOf
  <2> QED
    BY <2>1, <2>2
<1> QED
  BY <1>1, <1>2 DEF Rebuild, Serves

(* A diff_update that returns Ok, on a state that serves its snapshot,     *)
(* leaves what the new file says.                                          *)
LEMMA AppliedServes ==
  ASSUME TypeOK, SnapshotIsBuildable, Serves(snapshot),
         NEW c \in Configs, NEW lost \in SUBSET Fallible, DiffApplied(c, lost)
  PROVE  Serves(c)'
<1>1. snapshot \in Configs /\ UniqueIds(c)
  BY DEF TypeOK, DiffApplied, Valid
<1>2. router' = Rules(c) /\ registry' = Rules(c)
  BY <1>1, AllRoutesDone DEF DiffApplied, DiffRoutesDone, Serves
<1>3. Specs' = c.upstreams
  BY AllClustersDone DEF DiffApplied, DiffClustersDone, Serves
<1>4. PolicyOf' = c.limit
  BY LimiterFollows DEF DiffApplied, Serves
<1>5. auth' = c.auth
  BY DEF DiffApplied, DiffAuthDone, AuthChanged, Serves
<1> QED
  BY <1>2, <1>3, <1>4, <1>5 DEF Serves

LEMMA InitInv == Init => IInv
<1> SUFFICES ASSUME Init PROVE IInv
  OBVIOUS
<1>1. TypeOK
  BY InitType
<1>2. PICK c \in Configs :
        /\ FromConfigOk(c, {})
        /\ router = Rules(c)
        /\ registry = Rules(c)
        /\ clusters = [n \in DOMAIN c.upstreams |->
                        [spec |-> c.upstreams[n], tag |-> 0, watched |-> FALSE]]
        /\ limiter = IF c.limit = None THEN None ELSE [policy |-> c.limit, tag |-> 0]
        /\ auth = c.auth
        /\ snapshot = c
  BY DEF Init
<1>3. Specs = c.upstreams
  <2>1. c.upstreams = [n \in DOMAIN c.upstreams |-> c.upstreams[n]]
    BY ConfigType
  <2> QED
    BY <1>2, <2>1 DEF Specs
<1>4. PolicyOf = c.limit
  <2>1. CASE c.limit = None
    BY <1>2, <2>1 DEF PolicyOf
  <2>2. CASE c.limit # None
    <3>1. limiter = [policy |-> c.limit, tag |-> 0] /\ limiter \in Limiter
      BY <1>2, <2>2, ConfigType DEF Limiter, Tag
    <3> QED
      BY <3>1, NoneAssumption DEF PolicyOf
  <2> QED
    BY <2>1, <2>2
<1> QED
  BY <1>1, <1>2, <1>3, <1>4
     DEF IInv, RegistryMirrorsRouter, SnapshotIsBuildable, CleanServesSnapshot, Serves

LEMMA NextInv == IInv /\ [Next]_vars => IInv'
<1> SUFFICES ASSUME IInv, [Next]_vars PROVE IInv'
  OBVIOUS
<1>1. TypeOK' /\ TypeOK
  BY NextType DEF IInv
<1>2. SnapshotIsBuildable /\ registry = router /\ (clean => Serves(snapshot))
  BY DEF IInv, RegistryMirrorsRouter, CleanServesSnapshot
<1> SUFFICES /\ registry' = router'
             /\ FromConfigOk(snapshot', {})
             /\ clean' => Serves(snapshot)'
  BY <1>1 DEF IInv, RegistryMirrorsRouter, SnapshotIsBuildable, CleanServesSnapshot,
              FromConfigOk, Valid, UniqueIds, UpstreamsExist, Builds, KeyLoads
<1>3. ASSUME UNCHANGED <<served, snapshot, clean>>
      PROVE  /\ registry' = router'
             /\ FromConfigOk(snapshot', {})
             /\ clean' => Serves(snapshot)'
  BY <1>2, <1>3 DEF served, SnapshotIsBuildable, Serves, Specs, PolicyOf
<1>4. CASE RegisterHealthServices
  <2>1. Specs' = Specs
    <3>1. \A n \in DOMAIN clusters : [clusters[n] EXCEPT !.watched = TRUE].spec = clusters[n].spec
      BY <1>1 DEF TypeOK, IsTable, Cluster
    <3> QED
      BY <1>4, <3>1 DEF RegisterHealthServices, Specs
  <2> QED
    BY <1>2, <1>4, <2>1
       DEF RegisterHealthServices, SnapshotIsBuildable, Serves, PolicyOf
<1>5. ASSUME NEW c \in Configs, NEW lost \in SUBSET Fallible, ReloadSimple(c, lost)
      PROVE  /\ registry' = router'
             /\ FromConfigOk(snapshot', {})
             /\ clean' => Serves(snapshot)'
  <2>1. CASE FromConfigOk(c, lost) /\ Rebuild(c)
    <3>1. Serves(c)' /\ snapshot' = c
      BY <1>1, <2>1, RebuildServes
    <3>2. FromConfigOk(c, {})
      BY <2>1 DEF FromConfigOk, Builds, KeyLoads
    <3>3. registry' = router'
      BY <2>1 DEF Rebuild
    <3> QED
      BY <3>1, <3>2, <3>3 DEF Serves
  <2>2. CASE UNCHANGED <<served, snapshot, clean>>
    BY <1>3, <2>2
  <2> QED
    BY <1>5, <2>1, <2>2 DEF ReloadSimple
<1>6. ASSUME NEW c \in Configs, NEW lost \in SUBSET Fallible, DiffUpdate(c, lost)
      PROVE  /\ registry' = router'
             /\ FromConfigOk(snapshot', {})
             /\ clean' => Serves(snapshot)'
  <2>1. CASE DiffRejected(c)
    BY <1>3, <2>1 DEF DiffRejected
  <2>2. CASE DiffFailsInRoutes(c)
    BY <1>2, <2>2 DEF DiffFailsInRoutes, DiffRoutesStopped, SnapshotIsBuildable
  <2>3. CASE DiffFailsInClusters(c, lost)
    BY <1>2, <2>3 DEF DiffFailsInClusters, DiffRoutesDone, SnapshotIsBuildable
  <2>4. CASE DiffFailsInAuth(c, lost)
    BY <1>2, <2>4 DEF DiffFailsInAuth, DiffRoutesDone, SnapshotIsBuildable
  <2>5. CASE DiffApplied(c, lost)
    <3>1. snapshot' = c /\ clean' = clean
      BY <2>5 DEF DiffApplied
    <3>2. registry' = router'
      BY <1>2, <2>5 DEF DiffApplied, DiffRoutesDone
    <3>3. FromConfigOk(c, {})
      BY <1>1, <1>2, <2>5, AppliedIsBuildable DEF DiffApplied, DiffRoutesDone, DiffClustersDone
    <3>4. clean => Serves(c)'
      BY <1>1, <1>2, <2>5, AppliedServes
    <3> QED
      BY <3>1, <3>2, <3>3, <3>4 DEF Serves
  <2> QED
    BY <1>6, <2>1, <2>2, <2>3, <2>4, <2>5 DEF DiffUpdate
<1>7. CASE UNCHANGED vars
  BY <1>3, <1>7 DEF vars, served
<1> QED
  BY <1>4, <1>5, <1>6, <1>7 DEF Next

THEOREM Invariance == Spec => []IInv
BY InitInv, NextInv, PTL DEF Spec

(* Whatever calls fail and wherever they stop, the registry holds exactly  *)
(* the routes of the router.                                               *)
THEOREM MirrorAlways == Spec => []RegistryMirrorsRouter
<1>1. IInv => RegistryMirrorsRouter
  BY DEF IInv
<1> QED
  BY <1>1, Invariance, PTL

(* As long as no incremental update has failed half way, what is served is *)
(* what a full rebuild from the last applied file would serve.             *)
THEOREM DiffEqualsRebuild == Spec => []CleanServesSnapshot
<1>1. IInv => CleanServesSnapshot
  BY DEF IInv
<1> QED
  BY <1>1, Invariance, PTL

(* The snapshot is a file from_config accepts.                             *)
THEOREM SnapshotBuildable == Spec => []SnapshotIsBuildable
<1>1. IInv => SnapshotIsBuildable
  BY DEF IInv
<1> QED
  BY <1>1, Invariance, PTL

-----------------------------------------------------------------------------
(* Action properties.                                                      *)

RoutesLead == clean => \A id \in DOMAIN router : Leads(id)

(* While no update was torn, no route leads to a cluster that is not there. *)
LEMMA CleanLeads == IInv => RoutesLead
<1> SUFFICES ASSUME IInv, clean, NEW id \in DOMAIN router
             PROVE  router[id].upstream \in DOMAIN clusters
  BY DEF RoutesLead, Leads
<1>1. Serves(snapshot) /\ snapshot \in Configs /\ UpstreamsExist(snapshot)
  BY DEF IInv, TypeOK, CleanServesSnapshot, SnapshotIsBuildable, FromConfigOk, Valid
<1>2. id \in Ids(snapshot) /\ router[id] = RuleOf(RouteOf(snapshot, id))
  BY <1>1 DEF Serves, Rules
<1>3. RouteOf(snapshot, id).upstream \in DOMAIN snapshot.upstreams
  BY <1>1, <1>2, RouteOfEntry DEF UpstreamsExist
<1>4. DOMAIN clusters = DOMAIN snapshot.upstreams
  BY <1>1 DEF Serves, Specs
<1> QED
  BY <1>2, <1>3, <1>4 DEF RuleOf

LEMMA CleanLeadsNext == IInv' => RoutesLead'
BY CleanLeads, PTL

(* A route that all of diff_routes leaves as it was last applied names an   *)
(* upstream of the new file, too.                                           *)
LEMMA KeptUpstream ==
  ASSUME snapshot \in Configs, NEW c \in Configs, Valid(c), DiffRoutesDone(c),
         NEW id \in Ids(snapshot), id \in DOMAIN router', router'[id] = Rules(snapshot)[id]
  PROVE  router'[id].upstream \in DOMAIN c.upstreams
<1> DEFINE k == Len(c.routes) + 1
           g == [x \in AddedBefore(c, k) |-> RuleOf(RouteOf(c, x))]
<1>1. router' = Patch(router, RemovedUpTo(c, k), g)
  BY DEF DiffRoutesDone, PatchRoutes
<1>2. AddedBefore(c, k) \subseteq Ids(c) /\ Ids(snapshot) \ Ids(c) \subseteq RemovedUpTo(c, k)
  BY DEF AddedBefore, RemovedUpTo, Ids
<1>3. /\ DOMAIN router' = (DOMAIN router \ RemovedUpTo(c, k)) \union AddedBefore(c, k)
      /\ id \in AddedBefore(c, k) => router'[id] = RuleOf(RouteOf(c, id))
  BY <1>1 DEF Patch
<1>4. id \in Ids(c)
  BY <1>2, <1>3
<1>5. PICK i \in DOMAIN c.routes : c.routes[i].id = id /\ RouteOf(c, id) = c.routes[i]
  BY <1>4, RouteOfEntry
<1>6. router'[id] = RuleOf(RouteOf(c, id))
  <2>1. CASE Touched(c.routes[i])
    <3>1. id \in AddedBefore(c, k)
      BY <1>5, <2>1, ConfigType DEF AddedBefore
    <3> QED
      BY <1>3, <3>1
  <2>2. CASE ~Touched(c.routes[i])
    BY <1>5, <2>2, UntouchedRule DEF Valid, Rules
  <2> QED
    BY <2>1, <2>2
<1> QED
  BY <1>5, <1>6 DEF Valid, UpstreamsExist, RuleOf

(* A call that fails takes no cluster from such a route.                    *)
LEMMA FailureCutsNothingOff ==
  ASSUME TypeOK, Next, reply' = "error", NEW id \in Ids(snapshot),
         AsApplied(id), Leads(id), AsApplied(id)'
  PROVE  Leads(id)'
<1>1. CASE RegisterHealthServices
  BY <1>1 DEF RegisterHealthServices, Leads
<1>2. ASSUME UNCHANGED served PROVE Leads(id)'
  BY <1>2 DEF served, Leads
<1>3. ASSUME NEW c \in Configs, NEW lost \in SUBSET Fallible, ReloadSimple(c, lost)
      PROVE  Leads(id)'
  BY <1>2, <1>3 DEF ReloadSimple
<1>4. ASSUME snapshot' = snapshot
      PROVE  id \in DOMAIN router' /\ router'[id] = Rules(snapshot)[id] /\ router'[id] = router[id]
  BY <1>4 DEF AsApplied, Rules, Ids
<1>5. ASSUME NEW c \in Configs, Valid(c), DiffRoutesDone(c), snapshot' = snapshot,
             NEW built, clusters' = PatchClusters(c, built)
      PROVE  Leads(id)'
  <2>1. router'[id].upstream \in DOMAIN c.upstreams
    BY <1>4, <1>5, KeptUpstream DEF TypeOK
  <2>2. router'[id].upstream \in DOMAIN clusters
    BY <1>4, <1>5 DEF Leads
  <2> QED
    BY <1>5, <2>1, <2>2 DEF Leads, PatchClusters, Patch
<1>6. ASSUME NEW c \in Configs, NEW lost \in SUBSET Fallible, DiffUpdate(c, lost)
      PROVE  Leads(id)'
  <2>1. CASE DiffRejected(c)
    BY <1>2, <2>1 DEF DiffRejected
  <2>2. CASE DiffFailsInRoutes(c)
    BY <1>4, <2>2 DEF DiffFailsInRoutes, Leads
  <2>3. CASE DiffFailsInClusters(c, lost)
    BY <1>5, <2>3 DEF DiffFailsInClusters, DiffClustersStopped
  <2>4. CASE DiffFailsInAuth(c, lost)
    BY <1>5, <2>4 DEF DiffFailsInAuth, DiffClustersDone
  <2>5. CASE DiffApplied(c, lost)
    BY <2>5 DEF DiffApplied
  <2> QED
    BY <1>6, <2>1, <2>2, <2>3, <2>4, <2>5 DEF DiffUpdate
<1> QED
  BY <1>1, <1>3, <1>6 DEF Next

(* A whole state has a cluster for every route, and no failure takes one    *)
(* from a route that is as it was last applied, however many came before:   *)
(* RoutesKeepClusters.                                                      *)
THEOREM NothingCutOff == Spec => RoutesKeepClusters
<1>1. IInv /\ IInv' /\ [Next]_vars =>
        [/\ clean' => \A id \in DOMAIN router' : Leads(id)'
         /\ reply' = "error" =>
              \A id \in Ids(snapshot) :
                AsApplied(id) /\ Leads(id) /\ AsApplied(id)' => Leads(id)']_vars
  <2> SUFFICES ASSUME IInv, IInv', Next
               PROVE  /\ clean' => \A id \in DOMAIN router' : Leads(id)'
                      /\ reply' = "error" =>
                           \A id \in Ids(snapshot) :
                             AsApplied(id) /\ Leads(id) /\ AsApplied(id)' => Leads(id)'
    OBVIOUS
  <2>1. clean' => \A id \in DOMAIN router' : Leads(id)'
    BY CleanLeadsNext DEF RoutesLead
  <2>2. ASSUME reply' = "error", NEW id \in Ids(snapshot),
               AsApplied(id), Leads(id), AsApplied(id)'
        PROVE  Leads(id)'
    BY <2>2, FailureCutsNothingOff DEF IInv
  <2> QED
    BY <2>1, <2>2
<1> QED
  BY <1>1, Invariance, PTL DEF Spec, RoutesKeepClusters

LEMMA CleanAccepts ==
  ASSUME IInv, clean, NEW c \in Configs, NEW lost \in SUBSET Fallible,
         FromConfigOk(c, lost), DiffUpdate(c, lost)
  PROVE  reply' = "ok"
<1>1. DOMAIN router = Ids(snapshot)
  BY DEF IInv, CleanServesSnapshot, Serves, Rules
<1>2. ~RoutesFail(c)
  BY <1>1 DEF RoutesFail, AddFails, IsNew, FromConfigOk
<1>3. Unbuildable(c, lost) = {}
  BY DEF Unbuildable, Rebuilt, FromConfigOk
<1>4. Valid(c) /\ KeyLoads(c.auth, lost)
  BY DEF FromConfigOk
<1> QED
  BY <1>2, <1>3, <1>4
     DEF DiffUpdate, DiffRejected, DiffFailsInRoutes, DiffRoutesStopped, DiffFailsInClusters,
         DiffClustersStopped, DiffFailsInAuth, DiffAuthStopped, DiffApplied

(* While no update has failed half way, diff_update accepts every file a   *)
(* full rebuild would accept: no duplicate id can stop it.                 *)
THEOREM DiffAcceptsWhileClean == Spec => CleanDiffAccepts
<1>1. IInv /\ [Next]_vars =>
        [\A c \in Configs, lost \in SUBSET Fallible :
           clean /\ reply' = "error" /\ FromConfigOk(c, lost) => ~DiffUpdate(c, lost)]_vars
  BY CleanAccepts
<1> QED
  BY <1>1, Invariance, PTL DEF Spec, CleanDiffAccepts

(* A route that is the same in both files is neither removed nor added.    *)
LEMMA SameRouteStays ==
  ASSUME snapshot \in Configs, NEW c \in Configs, UniqueIds(c),
         NEW id, SameRoute(c, id), NEW f, NEW k
  PROVE  Same(f, PatchRoutes(f, c, k), id)
<1>1. id \in Ids(snapshot) /\ id \in Ids(c)
  BY DEF SameRoute
<1>2. \A i \in DOMAIN c.routes : c.routes[i].id = id => ~Touched(c.routes[i])
  <2> SUFFICES ASSUME NEW i \in DOMAIN c.routes, c.routes[i].id = id
               PROVE  ~Touched(c.routes[i])
    OBVIOUS
  <2>1. RouteOf(c, id) = c.routes[i]
    BY RouteOfUnique
  <2>2. ~RoutesDiffer(RouteOf(snapshot, id), c.routes[i])
    BY <2>1 DEF SameRoute, RuleOf, RoutesDiffer
  <2> QED
    BY <1>1, <2>2 DEF Touched, IsNew, IsChanged
<1>3. id \notin RemovedUpTo(c, k)
  BY <1>1, <1>2 DEF RemovedUpTo, Touched
<1>4. id \notin AddedBefore(c, k)
  BY <1>2 DEF AddedBefore
<1> QED
  BY <1>3, <1>4 DEF PatchRoutes, Patch, Same

LEMMA SameClusterStays ==
  ASSUME NEW c \in Configs, NEW n, SameUpstream(c, n), NEW built \in SUBSET Rebuilt(c)
  PROVE  Same(clusters, PatchClusters(c, built), n)
<1>1. n \notin built
  BY DEF SameUpstream, Rebuilt, UpstreamsDiffer
<1>2. n \notin DOMAIN snapshot.upstreams \ DOMAIN c.upstreams
  BY DEF SameUpstream
<1> QED
  BY <1>1, <1>2 DEF PatchClusters, Patch, Same

LEMMA LimiterStays ==
  ASSUME TypeOK, NEW c \in Configs, DiffLimiter(c),
         snapshot.limit # None, c.limit # None, limiter # None
  PROVE  limiter' # None /\ limiter'.tag = limiter.tag
<1>1. limiter \in Limiter /\ c.limit \in Policy /\ None \notin Limiter
  BY ConfigType, NoneAssumption DEF TypeOK
<1>2. [limiter EXCEPT !.policy = c.limit] \in Limiter
      /\ [limiter EXCEPT !.policy = c.limit].tag = limiter.tag
  BY <1>1 DEF Limiter
<1> QED
  BY <1>1, <1>2 DEF DiffLimiter

LEMMA DiffKeepsUnchanged ==
  ASSUME TypeOK, NEW c \in Configs, NEW lost \in SUBSET Fallible, DiffUpdate(c, lost)
  PROVE  KeepsUnchanged(c)
<1>1. snapshot \in Configs
  BY DEF TypeOK
<1>2. ASSUME UNCHANGED limiter
      PROVE  limiter # None => limiter' # None /\ limiter'.tag = limiter.tag
  BY <1>2
<1>3. CASE DiffRejected(c)
  BY <1>3 DEF DiffRejected, served, KeepsUnchanged, Same
<1>4. ASSUME Valid(c), NEW k, router' = PatchRoutes(router, c, k)
      PROVE  \A id \in RouteId : SameRoute(c, id) => Same(router, router', id)
  BY <1>1, <1>4, SameRouteStays DEF Valid
<1>5. ASSUME NEW built \in SUBSET Rebuilt(c), clusters' = PatchClusters(c, built)
      PROVE  \A n \in Upstream : SameUpstream(c, n) => Same(clusters, clusters', n)
  BY <1>5, SameClusterStays
<1>6. CASE DiffFailsInRoutes(c)
  BY <1>2, <1>4, <1>6 DEF DiffFailsInRoutes, DiffRoutesStopped, KeepsUnchanged, Same
<1>7. CASE DiffFailsInClusters(c, lost)
  <2>1. PICK built \in SUBSET (Rebuilt(c) \ Unbuildable(c, lost)) :
          clusters' = PatchClusters(c, built)
    BY <1>7 DEF DiffFailsInClusters, DiffClustersStopped
  <2> QED
    BY <1>2, <1>4, <1>5, <1>7, <2>1 DEF DiffFailsInClusters, DiffRoutesDone, KeepsUnchanged
<1>8. CASE DiffFailsInAuth(c, lost)
  BY <1>4, <1>5, <1>8, LimiterStays
     DEF DiffFailsInAuth, DiffRoutesDone, DiffClustersDone, KeepsUnchanged
<1>9. CASE DiffApplied(c, lost)
  BY <1>4, <1>5, <1>9, LimiterStays
     DEF DiffApplied, DiffRoutesDone, DiffClustersDone, KeepsUnchanged
<1> QED
  BY <1>3, <1>6, <1>7, <1>8, <1>9 DEF DiffUpdate

(* diff_update, failing or not, leaves alone every route, cluster instance *)
(* and limiter instance whose configuration did not change.                *)
THEOREM UnchangedParts == Spec => UnchangedStays
<1>1. TypeOK /\ [Next]_vars =>
        [op' = "diff" =>
           \A c \in Configs :
             /\ reply' = "ok" => c = snapshot'
             /\ ~KeepsUnchanged(c)
             => \A lost \in SUBSET Fallible : ~DiffUpdate(c, lost)]_vars
  BY DiffKeepsUnchanged
<1> QED
  BY <1>1, TypeCorrect, PTL DEF Spec, UnchangedStays

-----------------------------------------------------------------------------
(* The contract.                                                           *)

LEMMA WholeContent ==
  ASSUME clean, NEW c \in Configs, Serves(c)
  PROVE  InEffect = <<Content(c)>>
BY DEF InEffect, Serves, Content

LEMMA RegisterInit == Init => Register!Init
<1> SUFFICES ASSUME Init PROVE Register!Init
  OBVIOUS
<1>1. IInv /\ clean /\ snapshot \in Configs /\ op = "start" /\ reply = "ok"
  BY InitInv DEF Init, IInv, TypeOK
<1>2. InEffect = <<Content(snapshot)>>
  BY <1>1, WholeContent DEF IInv, CleanServesSnapshot
<1> QED
  BY <1>1, <1>2 DEF Register!Init

LEMMA RegisterNext == IInv /\ IInv' /\ [Next]_vars => [Register!Next]_<<InEffect, op, reply>>
<1> SUFFICES ASSUME IInv, IInv', [Next]_vars
             PROVE  [Register!Next]_<<InEffect, op, reply>>
  OBVIOUS
<1>1. clean => InEffect = <<Content(snapshot)>> /\ snapshot \in Configs
  BY WholeContent DEF IInv, TypeOK, CleanServesSnapshot
<1>2. clean => InEffect # <<>>
  BY <1>1
<1>3. ~clean => InEffect = <<>>
  BY DEF InEffect
<1>4. ~clean' => InEffect' = <<>>
  BY DEF InEffect
<1>5. ASSUME Specs' = Specs, UNCHANGED <<router, limiter, auth, clean>>
      PROVE  InEffect' = InEffect
  BY <1>5 DEF InEffect, PolicyOf
<1>6. ASSUME UNCHANGED <<served, clean>>
      PROVE  InEffect' = InEffect
  BY <1>5, <1>6 DEF served, Specs
<1>7. ASSUME clean'
      PROVE  \E c \in Configs : InEffect' = <<Content(c)>>
  <2>1. snapshot' \in Configs /\ Serves(snapshot)'
    BY <1>7 DEF IInv, TypeOK, CleanServesSnapshot
  <2>2. InEffect' = <<Content(snapshot')>>
    BY <1>7, <2>1 DEF InEffect, Serves, Content
  <2> QED
    BY <2>1, <2>2
<1>8. CASE RegisterHealthServices
  <2>1. \A n \in DOMAIN clusters : [clusters[n] EXCEPT !.watched = TRUE].spec = clusters[n].spec
    BY DEF IInv, TypeOK, IsTable, Cluster
  <2>2. Specs' = Specs
    BY <1>8, <2>1 DEF RegisterHealthServices, Specs
  <2> QED
    BY <1>5, <1>8, <2>2 DEF RegisterHealthServices
<1>9. ASSUME NEW c \in Configs, NEW lost \in SUBSET Fallible, ReloadSimple(c, lost)
      PROVE  Register!Next
  <2>1. CASE reply' = "ok" /\ clean' = TRUE
    BY <1>7, <1>9, <2>1 DEF ReloadSimple, Register!Next, Register!FullReload, Register!Write
  <2>2. CASE reply' = "error" /\ UNCHANGED <<served, clean>>
    BY <1>6, <1>9, <2>2 DEF ReloadSimple, Register!Next, Register!FullReload, Register!Refuse
  <2> QED
    BY <1>9, <2>1, <2>2 DEF ReloadSimple
<1>10. ASSUME NEW c \in Configs, NEW lost \in SUBSET Fallible, DiffUpdate(c, lost)
       PROVE  Register!Next
  <2>1. op' = "diff"
    BY <1>10 DEF DiffUpdate
  <2>2. CASE DiffRejected(c)
    <3>1. InEffect' = InEffect /\ reply' = "error"
      BY <1>6, <2>2 DEF DiffRejected
    <3> QED
      BY <1>2, <1>3, <2>1, <3>1 DEF Register!Next, Register!DiffReload, Register!Refuse
  <2>3. CASE clean' = FALSE /\ reply' = "error"
    BY <1>4, <2>1, <2>3 DEF Register!Next, Register!DiffReload
  <2>4. CASE DiffApplied(c, lost)
    <3>1. reply' = "ok" /\ clean' = clean
      BY <2>4 DEF DiffApplied
    <3>2. CASE clean
      BY <1>2, <1>7, <2>1, <3>1, <3>2 DEF Register!Next, Register!DiffReload, Register!Write
    <3>3. CASE ~clean
      BY <1>3, <1>4, <2>1, <3>1, <3>3 DEF Register!Next, Register!DiffReload
    <3> QED
      BY <3>2, <3>3
  <2> QED
    BY <1>10, <2>2, <2>3, <2>4
       DEF DiffUpdate, DiffFailsInRoutes, DiffFailsInClusters, DiffFailsInAuth
<1>11. CASE UNCHANGED vars
  BY <1>6, <1>11 DEF vars, served
<1> QED
  BY <1>8, <1>9, <1>10, <1>11 DEF Next

(* The gateway's state implements the configuration register.              *)
THEOREM ImplementsRegister == Spec => ActsAsRegister
BY RegisterInit, RegisterNext, Invariance, PTL
   DEF Spec, ActsAsRegister, Register!Spec, Register!vars
=============================================================================
