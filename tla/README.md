# A verification of Kirin Gateway

Kirin Gateway is an HTTP gateway in Rust on top of pingora. A *data plane* checks each request with filters, matches it against a routing table and sends it to a node of an upstream cluster. A *control plane* watches the configuration file and changes the data plane's shared state while requests run. This directory models both in TLA+, checks the models with TLC and proves the main results with TLAPS.

Paths below are relative to `src/src/` of the repository, and those that begin with `docs/` to `src/`.

## 1. Inventory

| Component | Source | State | Operations | Module |
|---|---|---|---|---|
| Shared gateway state | `control_plane/gateway_state.rs`, `config/validation.rs` | router, registry, clusters, limiter, authentication, `config_snapshot` | `from_config`, `diff_update` and its stages | `GatewayState`, `ConfigRegister` |
| Control plane | `control_plane/control_plane.rs` | watcher thread, event channel, the read-write lock | `start_file_watcher`, `reload_diff`, `reload_simple`, `load_and_apply` | `ControlPlane` |
| Admin API | `control_plane/admin_api.rs` | none of its own | `POST /admin/reload`, three queries | `ControlPlane`, `Gateway` |
| Rate limiter | `data_plane/rate_limit.rs`, `filter/rate_limit_filter.rs` | two atomics, buckets by address behind a mutex | `check`, `update_policy` | `RateLimiter`, `LeakyMeter` |
| Router and registry | `data_plane/router.rs`, `router/router_white_list.rs` | rules by type, prefixes sorted late; entries by id | `add_route`, `remove_route`, `match_route`, `resolve_path` | `Router`, `SortedTable` |
| Proxy | `data_plane/proxy.rs` | one context per request | `request_filter`, `upstream_peer`, `response_filter`, `fail_to_connect`, `logging` | `Request` |
| Filter chain | `data_plane/filter.rs`, `filter/*.rs` | none | one filter after the other | `Request` |
| Upstream clusters, health checks, boot | `data_plane/upstream.rs`, `control_plane/health_check.rs`, `main.rs` | load balancers, background services | build, select, register | `GatewayState`, `Gateway` (in part) |
| Configuration | `config/*.rs` | none | parse, validate | as data of the models |
| The whole gateway | all of the above | all of the above | all of the above | `Gateway` |
| Metrics, middleware | `observability/metrics.rs`, `data_plane/middleware.rs` | counters; dead code | none that anything depends on | not modelled |

How they interact. Every component of the data plane reads one `Arc<RwLock<GatewayState>>`. A request takes the read lock several times: for the filter chain, in some filters, for the match, for the response. Reloads come from the watcher thread (incremental, `reload_diff`), from a handler of the admin API (full, `reload_simple`), and from whoever calls `load_and_apply`. All of them read the file first and take the write lock later. The limiter is an `Arc` that requests keep when the lock is released. The binary is built with `panic = "abort"`, so a poisoned lock is never seen.

What is hard here, component by component:

* **Shared state.** A reload changes five parts one after the other and can stop between them. The next reload compares with a snapshot and not with what runs. Correct means: a chain of incremental reloads serves what one rebuild would serve; router and registry never differ; what did not change is not replaced.
* **Control plane.** The first read of the file comes before the watch, events are swallowed by the debounce loop, the file is read while it is written, reloads overtake each other. Correct means: no wake-up is lost once there is a watch, the last valid content gets into effect, a request sees one configuration, nobody waits for a lock of their own.
* **Rate limiter.** Several requests of one address, a policy in two words, integer seconds, wrapping arithmetic. Correct means: no address gets more than capacity and rate in any window, none is refused more than half of what it is due, a bucket takes no number from a policy that was gone before its request came.
* **Router.** Sorting happens at the first match after a change, and reloads move routes about; two structures match paths on their own. Correct means: late sorting cannot be seen, a reload does not move what it does not touch, both structures agree, weights are shares and leave no gap.
* **Proxy and filters.** A context lives through filters, match, retries and response, with reloads between any two of them; a sticky cookie is decided at the match, set with the response and read by later requests. Correct means: a sticky client stays, a decision is about a route the request was sent to, every request ends.
* **The whole.** What one reload leaves is what the next one starts from. Correct means: what is served is one whole content of the file, and the last one in the end.

`PROJECT.json` lists the hazards one by one, each at its line, with the properties that would catch it.

## 2. The modules

### GatewayState (with ConfigRegister)

A reload runs with the write lock held, or on a state that nobody else sees, so one call is one step. `ReloadSimple` is `from_config` and the replacement of the state. `DiffUpdate` has one disjunct for each place `diff_update` returns from: `DiffRejected` (validation), `DiffFailsInRoutes` (a duplicate id or a pattern that does not compile, after the removals and the additions before it), `DiffFailsInClusters` (a host name or an unknown algorithm, after some of the clusters; the map is iterated in any order, so *which* of them is open), `DiffFailsInAuth` (a key file), and `DiffApplied`. `Fallible` entries are those that need the outside world; each call chooses with `lost` which of them fail this time. `tag` is the identity of an `Arc`: a new instance carries the other tag, which tells "left alone" from "built again with the same contents".

The variable `clean` is history: no `diff_update` has failed half way since the last full rebuild. The code has no such flag, and most promises hold only while it is true; the documented promise that ignores it is violated (section 5). What holds in torn states, too: `RegistryMirrorsRouter`, `SnapshotIsBuildable`, `UnchangedStays`, and the half of `RoutesKeepClusters` about calls that fail: such a call, wherever it stops, takes no cluster from a route that it has left as it was last applied. It can leave a route it has *changed* without a cluster.

`ConfigRegister` is the abstract specification: the configuration in effect is a register that reloads write or refuse, and that an incremental reload may tear. `GatewayState` implements it under the mapping `InEffect`, which reads the configuration off the running parts (never off the snapshot).

### ControlPlane

One action per step of each thread: register the watch, wake up, debounce, read the file, ask for the lock, get it, apply. File contents are numbered: even numbers are versions, odd ones the same version half written. `kernel` and `queue` count events not delivered and in the channel; `OpensReported` says whether the platform also reports that a file was opened, in which case each reload wakes the watcher again. A waiting writer keeps new readers out, as `std::sync::RwLock` does on Linux.

What a reload makes of a content is left open within three sets: a content in `Accepted` may be applied, one in `Refused` may be refused, and one in `Tearing` may stop an incremental update half way, after which `serving` is `Torn`. A content can be in `Accepted` and in `Refused`, since host names and key files come and go. From `Torn` only a full reload returns for sure.

The model starts where `main` has read the file (`main.rs:29`) and before the thread it spawns has registered the watch (`control_plane.rs:140`, `Watch`). In that window a write makes no event (`Notice`), and nothing reads the file on account of the watch: this is a change that is really lost, which `cp_startup` shows (section 5). The history `early` is true while the last write is older than the watch. `NoLostWakeup`, `Converges` and the clean half of `FileTakesEffect` are promises about files that were written later; `FullReloadRepairs` is not, since a full reload reads the file in any case.

### Gateway

The composition. It extends `GatewayState` and takes the threads, the file and the lock from `ControlPlane` with `INSTANCE`. A content of the file is now a configuration, or `Unparsable`, and the outcome of a reload, which `ControlPlane` leaves open, is computed by `from_config` and `diff_update` from the content that was read and the state found under the lock. `ControlPlane`'s three sets become definitions (`MayBuild`, `MayFail`, `MayTear`), its `serving` becomes `IF clean THEN version ELSE Torn`, and the property `ActsAsControlPlane` says that every step of the composition is one of `ControlPlane`. `Boot` is the part of `main` that reads the state while the watcher runs already. `load_and_apply` is left out, because no code calls it.

### RateLimiter

The steps of `check` on one limiter: the reference taken under the read lock, the mutex, the two relaxed loads for a new bucket, then refill and decision in one step under the mutex. `update_policy` is two stores that may show up in either order. An update runs under the write lock, so no request *enters* between its stores, but one that has entered may load between them. `Word` is the modulus of `usize`. `book`, `offered` and `window` are histories which no action reads, and the properties are about them: what an address was granted, what it was paid for, what a full bucket spilt, and which policies were in force since a request took its reference (`offered`). A bucket made during an update *can* pair the capacity of one policy with the rate of the other, and keeps the pair as long as it lives. `BucketsFollowPolicy` says what the code does ensure, raced or not: each of the two numbers is of a policy in `offered`, so that they are of one policy unless an update came in between, and never of one that was gone when the request came.

`LeakyMeter` is the abstract specification: one meter for each address, whose level rises with each request let through and drains with time, and one answer at a time. It has no threads, no mutex, no atomics and no modulus. `RateLimiter` implements it (`ActsAsMeter`) when a level is read as the tokens that are *gone*, and the answers as what the books say was granted. `LoadRate` installs a meter, `Try` is the answer, and every other step but `Tick` is none.

### Router

The table is a set of rules with the relation `before`, "stands before in the vector of its type", and the flag `dirty` (`prefix_dirty`). `ReloadDiff` removes and adds rules as `diff_routes` does, up to the first that `add_route` refuses (`Refused`, `Visited`): its id is still there from an update that stopped, or its pattern does not compile. It can also fail later, at the clusters or the authentication, when the routes are those of the new file and the snapshot is not; so any `ReloadDiff` may set `torn` and leave `file` as it is. `ReloadSimple` fills a new table, `Sort` is what the first match after a change does. `added` is a history of the order in which the rules were added; the order of a table that is sorted at once (`InOrder`) is defined from it, and `Ahead`, the order of the candidates that `collect_path_matches` returns, is defined from `before` and `dirty`. `Choice` is `match_route` as a chain of stages, of which the first that has a candidate decides; `ResolvePath` is the registry's answer. At which of the later stages a reload fails is left to `GatewayState`, and the registry is not a variable because `RegistryMirrorsRouter` is proved there.

Weights are added up by `Units`: a rule of weight w stands for w pairs, so that the sum of a set is a cardinality. A sum by recursion or by a fold would put every theorem about shares beyond the prover, which has no induction over data.

`SortedTable` is the abstract specification: one list of rules that is sorted at every moment. A full reload fills it anew (`Refill`); an incremental one keeps the rules both lists share in the order they have (`Merge`), and so does one that fails (`Stop`); after that the list may be any that is sorted (`Stray`). Where an incremental reload puts the *other* rules among those of one place is left open: the documents say that the rule declared first wins, the code puts a changed rule last, and `rq_order` shows the disagreement (section 5). `Router` implements `SortedTable` (`ActsAsSortedTable`) when its order is read off `Ahead`: the marks, the late sort and the comparison with the snapshot disappear, and a match is no step at all.

A pattern is known by the paths it covers. `counted` is the path under which `validate_canary` adds up a route's weight, which need not be what the router matches by (section 5).

### Request

Extends `Router` with the phases of a request and its context. `Receive` creates the context, `RunFilter` runs one filter of the chain that `from_config` builds, `UpstreamPeer` is match, whitelist, address lists and canary decision, `Retry` and `Fail` are the two outcomes of a connection that fails, `Respond` sets the cookie, `Log` ends the request. `Reload` may come between any two. Whether the limiter lets a request pass is open here, and so is whether a token is valid; what the filters can *see* of the route is exact. `jar` holds the client's cookies. Two histories serve the properties: `assigned`, the route a `Set-Cookie` gave the client since the last reload, and `tried`, the routes a request was sent to. `StepsLeft` is the measure behind `AlwaysForward`: how many steps a request has before it, where each try that is left counts for two.

### How the modules fit together

`Gateway` is `ControlPlane` and `GatewayState` put together by `INSTANCE`, with the refinement to both checked and proved. `Router` and `RateLimiter` zoom in on two parts of the state, and `Request` on what runs between the reloads. Here the assumptions one module makes are results of another: that a match is one step (`Router`, `Request`) rests on `RequestsSeeOneState` (`Gateway`); that no request enters while a policy is stored (`RateLimiter`) rests on `LockDiscipline` (`ControlPlane`); that the table holds the rules of the file unless `torn` is `CleanServesSnapshot` there and `TableIsFile` here.

### Faults

Some definitions are preceded by a variant whose comment begins with `Fault:`. It is the same definition with a plausible bug in it: a guard dropped, a flag not set, a bound off by one. No specification uses them. Putting one in the place of the definition it varies must break a property, which shows that the property can fail; `mutants` in `PROJECT.json` lists the pairs.

## 3. The runs

| Run | Instance | What it shows |
|---|---|---|
| `gs_reloads` | 13 files over two routes, two clusters, two policies, one key file that may be missing | everything proved of `GatewayState`: router and registry agree, clean states serve the snapshot, failures cut no route off from its cluster, the snapshot can be built, unchanged parts stay, the register (`ConfigRegister`) |
| `cp_reloads` | the watcher from before its watch and a caller of `load_and_apply`, one request, two versions, each half written first; contents that are refused at times and that tear; a limiter in the first content only, so that the caller may reload for ever | no lost wake-up, one version per read, no way back to an older content unless a reload overtakes another, convergence, and repair by a full reload |
| `gw_whole` | the watcher, one admin connection, one request; a file that is valid when cut off and then fails after validation, one with a host name that is not always found, one that does not parse when cut off | the parts serve one whole content, requests see one state, the composition implements `ControlPlane`, the last content takes effect |
| `rl_checks` | two requests of one address, two policies, three seconds of two ticks | bounds on bursts and refusals, buckets of policies in force, raced ones included, one answer at a time (`LeakyMeter`) |
| `rq_life` | one client, three route lists, one of which has a pattern that does not compile, two paths, two prefix lengths, two cookies, four shares, one retry | matching, the sorted list (`SortedTable`), the whitelist, shares, stickiness, decisions, progress and the end of requests |
| `gs_in_effect`, `gs_health`, `cp_startup`, `cp_deadlock`, `rq_order`, `rq_methods`, `rq_cookie` | the same instances or smaller | each shows a documented promise that the code does not keep (section 5) |

Why the bounds are enough.

* *GatewayState*: a step looks at one old file, one new file and the running parts. The files contain, between them, every kind of change to a route (kept, changed, added, removed, reordered, to another upstream), a cluster, and each optional section, and a failure in every stage. The number of reloads is not bounded.
* *ControlPlane*: two versions (`MaxVersion`), each possibly half written, are enough for a reload that read an old content to be overtaken; the counters of events stop at two (`MaxQueue`), where the loop only asks whether there are any. The safety part is proved for all bounds.
* *Gateway*: as `ControlPlane`, with `MaxQueue` 1; the four contents were chosen so that a torn update, an overtaken reload, a name that is found on the second try and a half-written file all occur. Safety and refinement are proved for all bounds.
* *RateLimiter*: six ticks (`MaxTime`) of half a second give refills with and without a remainder; the properties are proved for every bound. `Word` is large in the run, so that nothing wraps, which `DenialJustified` and `ActsAsMeter` need; wrapping is covered by the proof of `BurstBound`.
* *Request*: a prefix pair in both orders, with a regular expression, and groups with a stable route, without one, with conditions, with cookies of one and of two names, with an address hash, with weights that exceed the whole, and with an address list that keeps the client out; two of the lists share a rule, so that an incremental reload leaves it and moves its neighbours. One client is enough, since clients share nothing but the table; its requests and the reloads are not bounded, its tries are (`MaxTries`, pingora's `max_retries`). Four shares (`Hundred`) stand for the hundred of the code: weights only have to be comparable and to fill it. All but the liveness is proved for every instance.

`CHECK_DEADLOCK FALSE` is set in two runs. In `cp_reloads` the system really stops: `load_and_apply` waits for itself, which `cp_deadlock` shows on its own. In `gw_whole` the system may come to rest when the file has reached its last version.

## 4. Fairness

*ControlPlane and Gateway.* Delivery of events, and each step of the watcher and of a reload, is weakly fair: threads run, and sleeps end. A request releases its read lock (weakly fair `ReadUnlock`): the guard lives in a block without an `await`. Getting the write lock is strongly fair for each thread: the lock of the standard library queues writers and prefers them to readers, but between several writers it only promises that a release wakes one of them. Nothing is assumed of the file, of other files or of the administrator, who may stop at any time.

The debounce loop has no bound: as long as events about *other* files of the directory come in faster than it sleeps, it does not reload. So `Converges` and `FileTakesEffect` have the premise `Quiet`, that such events end. Both also need that opening the file is an event (`OpensReported`, true with inotify): without it a reload of the admin API can read an old content, wait, and put it over the newer one after the watcher has finished, and no event is left to repair that. No document promises otherwise, so this is recorded as a hazard and not as a finding.

*Request.* The runtime polls the task of a request that can go on, so filters, match and logging (`Proceed`) are weakly fair. Nothing is assumed of upstreams, which may keep a request for ever, since no timeout is set: `EveryRequestEnds` says that a request ends unless it stays with an upstream for good.

## 5. What the code does not keep

Seven runs are expected to find a violation. Each quotes its document, comment or log line in `PROJECT.json`.

* `gs_in_effect`: a reload that fails after validation has already changed part of what is served, though the log says that the old configuration is kept. `config_snapshot` is then not the configuration in effect, and going back to the old file is a success that changes nothing.
* `gs_health`: clusters built by a reload are never probed.
* `cp_deadlock`: `load_and_apply` takes the write lock twice.
* `cp_startup`: the file is read before it is watched, and a write in between is not noticed. The next event in the directory, or a full reload, repairs it.
* `rq_order`: an incremental reload puts a changed regular expression behind the others, though the documents say that the one declared first wins. (`ActsAsSortedTable` says what remains true: a reload moves nothing that it does not touch.)
* `rq_methods`: the filter that looks at a route's list of methods runs before the route is known, and lets every request pass.
* `rq_cookie`: after a retry the response can set the cookie of the first try's route. (`DecisionWasTried` says what remains true.)

Three more disagreements are recorded as hazards only:

* Each refill drops the left-over part of a second (`Refilled`), so `refill_rate`, which `docs/config-reference.md:212` calls the average rate, is not reached by an address that asks often. `DenialJustified` bounds the loss: at least half of it is.
* Without `stick: ip_hash` one address gets both versions (`Values`); `docs/note/路由匹配-灰度发布.md:136` says the hash is the default.
* `validate_canary` adds up the weights of a prefix route that also gives a `path` under that path (`counted`), so the weights of one prefix can exceed a hundred together, and the last version gets less than its weight. `SharesHold` says what is true where they are counted together, and `EveryValueServed` that no request is lost by it.

One limit of the program itself: sticky groups that name no cookie share `kirin_canary`, and a client of two of them may move at each request. No document promises otherwise; `StickyHolds` is about groups with cookies of their own (`CookiesApart`), and no property covers the rest.

## 6. What is proved

The theorems hold for all values of the constants that the named assumptions admit. TLC evaluates these assumptions in each run.

**`GatewayState_proofs`.** The inductive invariant is `IInv`: types, `RegistryMirrorsRouter`, `SnapshotIsBuildable`, and `CleanServesSnapshot`. The last is needed for all else: that an incremental update is right depends on the running parts *being* the snapshot before it. The heart is a lemma that, from such a state, removing and adding the touched routes yields exactly the table of the new file, and the same for clusters. `SnapshotIsBuildable` does not depend on `clean`: a file gets into the snapshot only if each of its parts was either built now or was part of an earlier snapshot, and its inductiveness is what makes a restart come up. `RoutesKeepClusters` (`NothingCutOff`) rests on the order of the stages: a call that comes to the clusters is through with the routes, so that a route it has left as last applied is one of the new file (`KeptUpstream`); validation has seen that its upstream is there, too, and only clusters that the new file does not have are removed. From `IInv` follow the action properties `UnchangedStays` and `CleanDiffAccepts`, and `ActsAsRegister` by one step lemma per reload.

**`ControlPlane_proofs`.** `NoLostWakeup` is inductive with types and the fact that the last write is `early` as long as there is no watch (`WakeupInv`). `ReadersSeeOneVersion` follows from `LockInv`: a writer excludes readers, and a thread that applies is the writer. `LockInv` cannot do without the second part, since `Apply` itself does not look at the lock. `GoesBackOnlyIfOvertaken` says how much of an order there is although reloads read before they wait: an older content replaces a newer one only if the thread that applies it read before another thread that has read the newer one. It needs `ReadInv`: no thread is ahead of the file, and some thread has read what is in effect or something later, which `Torn` and refused updates leave true.

**`Gateway_proofs`.** `ImplementsState`: the composition takes only steps of `GatewayState`, so that all of its theorems hold of it, and `Prepared` is an invariant, which says that the snapshot is the content numbered `version` and that a thread on its way to the lock holds a content it may apply. `WholeVersionInEffect` is then `CleanServesSnapshot` for that version. `ImplementsControlPlane` maps each action to one of `ControlPlane`; the step that matters is `Apply`, where each return of `diff_update` must be one of the outcomes that the three sets allow, which uses the lemma behind `CleanDiffAccepts`: a clean state never refuses what `from_config` accepts. `ImplementsRegisterToo` is the refinement of `ConfigRegister` carried over. The invariants of `ControlPlane` are not proved a second time: the proof takes an `INSTANCE` of `ControlPlane_proofs`, discharges its assumptions about the three sets from their definitions here, and cites its lemmas (`ControlPlaneHolds`). `OneStatePerRequest` follows from the `LockInv` among them and from the fact that no request reads before `Boot`.

**`RateLimiter_proofs`.** The invariant `IInv` has, beside types, the mutex discipline (`MutexInv`), that what a request has loaded or may load is of a policy it was offered (`PolicyInv`, from which `BucketsFollowPolicy` follows), and the books of each address (`BooksInv`): a balance of tokens, a bound on the time not paid for, and the cover of a window. `BurstBound` and `DenialJustified` are arithmetic consequences of the books. `DenialJustified` and the balance need that nothing wraps before the last tick (`NoWrap`, a hypothesis inside the invariant); `BurstBound` does not. Division by `Second`, the remainder modulo `Word` and products are used only through a few lemmas, so that the rest of the proof is linear. `ImplementsMeter` maps a bucket to a meter whose level is what is missing from it. Two steps matter: a refill cut off at the capacity is a drain cut off at zero (`DrainedIsRefilled`, which needs `NoWrap` and the bounds on tokens in the books), and a bucket is never made where there is one, which is `MutexInv`.

**`Router_proofs` and `Request_proofs`.** `RouterInv` says that the table holds rules of the files, with one rule for an id, and unless `torn` those of the last file (`RulesInv`), and that `added` orders it totally (`OrderInv`); among rules of one type `before` is the order `InOrder`, except among prefixes while `dirty` is set, where it need be so only for equal lengths. That exception is the point: it is what additions at the end and removals keep, and all that a stable sort needs to restore the order. Then `Ahead`, the order seen by a match, *is* `InOrder`, a strict total order, so that the first candidate exists and is unique (`LazySortInvisible`), and the registry's answer has its type and length (`ResolveAgrees`).

For the shares, the rules ahead of a canary form a chain, so that the values it is chosen for are an interval from the sum of the weights ahead of it (`Cumulative`) on, of the length of its weight; that the interval does not reach beyond `Hundred` is what `validate_canary` ensures where weights are counted together (`SharesHold`). Conversely, a value that no canary takes is at least the whole sum (`EveryValueServed`). `Cumulative` and `Total` are cardinalities of sets of `Units`, so that the theorems of the library on finite sets do the work of an induction, and both theorems hold for lists of any length and for any `Hundred`.

`ImplementsSortedTable`: between two states with `OrderInv` the order that matching sees is that of a sorted list, so a late sort is a stutter (`SortUnseen`), and an incremental reload is the merge of `SortedTable` (`DiffMerges`), where "in the table and the new file" and "left because the snapshot has it unchanged" are the same set, since the table is the snapshot. One that fails is `Stop` (`DiffStops`), or `Stray` if one has failed before (`DiffStrays`). In torn states little is left, but the table is sorted still, its rules come from files, and both are what lets the next full reload start afresh.

For requests, `RequestTypes` and `DecisionInv` are inductive with `RouterInv`. `StickyHolds` needs `StickyInv`, which says, unless `torn`: the client still holds the cookie of every route it was assigned, and a decision that no reload has overtaken is about a candidate of the request's path; that no response overwrites a cookie another path relies on uses `CookiesApart`. `TypeCorrect` includes that no request is tried more than `MaxTries` times. `AlwaysForward` is the safety half of `EveryRequestEnds`, without fairness: each step of a request lowers `StepsLeft`, which starts at most at 8 + 2 `MaxTries`, and a reload leaves it as it is.

The assumptions are: the configuration files are well typed and no model value stands for two things (`ConfigsAssumption`, `SpecAssumption`, `NoneAssumption`, `NamesAssumption`, `ThreadsAssumption`, `ContentAssumption`), route lists have unique ids and weights that validation accepts (`FilesAssumption`), bounds are natural numbers (`BoundsAssumption`, `RequestAssumption`, `PatternAssumption`, `HundredAssumption`), and policies have positive entries (`PoliciesAssumption`, which `validate_rate_limit` ensures).

## 7. What is only checked, and what is not modelled

Only model-checked: the liveness properties `Converges`, `FullReloadRepairs`, `FileTakesEffect` and `EveryRequestEnds`, which are beyond the prover because they rest on fairness, and of course the violations. What is proved of their safety: no wake-up is lost (`NoLostWakeup`) and no content comes back unless overtaken (`GoesBackOnlyIfOvertaken`), for the first three; no step is given back (`AlwaysForward`), for the last. The theorems `DenialsJustified` and `ImplementsMeter` have the hypothesis `NoWrap`, which is true as long as capacity and the seconds since the start times the rate stay below 2^64, and which the instance of `rl_checks` satisfies.

Not modelled: parsing, formatting, logging, metrics, TLS, headers, the choice of a node and the probes (pingora), name look-ups except that they may fail, the time a writer holds the lock, the growth of the bucket map, the contents of key files, a watcher that fails to start, requests to `/metrics`, the checks of a token, `WhiteListFilter` and the middleware trait, which are in no chain, and `load_and_apply` in the composition, which nothing calls (it is in `ControlPlane`).

## 8. Plan

Done in this order: `GatewayState` with `ConfigRegister` and its proofs, `ControlPlane` and its proofs, `RateLimiter` and its proofs, `Router` and `Request`, `Gateway`, the proofs about the last three, then the shares, `SortedTable`, `LeakyMeter`, the order of contents and the progress of requests. Every safety property of the runs that pass is proved.

Next:

1. The effect of reloads on the limiter: which of two limiters a request's tokens come from when a reload replaces it, and what an address can get in all when full reloads come often.
2. What a state at rest says: when nothing is pending and no reload has overtaken another, the content in effect is the last one read or the reason it was refused; the safety half of `Converges`.
3. Tokens: the keys that a reload of the authentication section puts in place, and requests that were checked with the old ones.
