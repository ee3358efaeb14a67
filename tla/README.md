# TLA+ models of parapet-ingress-controller

This directory models the parts of parapet-ingress-controller in which several
goroutines, processes or machines share state: how the controller follows the
cluster, turns objects into routes and rules and serves requests with them, how
the edge control plane distributes rules, certificates and purges to the edges,
and how the edges' client certificates are issued, trusted and revoked. Every definition
is translated from the Go source; `PROJECT.json` maps each one to its lines.

To check a model: `tlc -config X.cfg M`. To check the proofs:
`tlapm ReloadProofs.tla`, and so for the other `*Proofs` modules.

## 1. The system

Three executables share one repository.

- The **ingress controller** (`src/*.go`, `route/`, `proxy/`, `debounce/`,
  `cert/`, `trust/`) watches Kubernetes resources, keeps each kind in a
  `sync.Map`, and rebuilds its tables (routes, services, hosts, certificates,
  rule sets) by debounced reloads. The request path reads the tables through
  atomic pointers.
- The **edge control plane** (`cmd/edge-controlplane`, `edgecp/`) watches the same
  cluster, keeps stores of rules, bindings, certificates and purges, and serves
  them to edges over HTTP, scoped by the edge's token. It also signs the edges'
  client certificates.
- The **edge proxy** (`cmd/edge-proxy`, `edge/`) polls the control plane, is woken
  by an event stream, and never discards its last good state on an error.

### Inventory

| component | state | operations | what is hard | correct when |
|---|---|---|---|---|
| Debounced reload (`debounce/`, `reload*Debounced`) | timer, mutex, published table | `Call`, timer expiry, pass | passes overlap; a pass panics; the first call is synchronous | a quiet controller serves the current store; no table goes back in time |
| Resource watch (`watchResource`, `resyncStore`) | store, watch channel, readiness | preload, first reload, event, close, relist, reconcile | events lost between two watches; failed lists | live objects are tracked; Ready implies loaded; stale objects go away |
| Endpoint routes (`reloadEndpoint*`, `resolveTargetPort`, `route/table.go`) | slice and Endpoints stores, host table, port table | upsert, delete, resync, recompute, reload of the ports | two watchers write one host; ports and hosts are refreshed separately | the last writer has read last |
| Rule reloads (`controller_{waf,ratelimit,coraza,transform}.go`) | fingerprints, live instances, zone registry | range, compare, compile, publish | in-place compilation, skipped zones, rejected edits, panics | as good as a full rebuild; a bad edit keeps the old rules |
| Control-plane reloads and stores (`edgecp/*reload.go`, `*store.go`) | stores, generation, ETag | watch, list, set, drain | a failed list, two critical sections per reload, restart with an empty store | the store follows the cluster |
| Event stream (`edgecp/events.go`, `edge/events.go`) | subscribers, one-place channels, baseline | sample, subscribe, send, receive, cut, cancel | lost wake-ups, slots held by dead streams | an edge that listens fetches every change |
| Edge policy (`edge/waf.go`, `wafrefresh.go` and siblings) | instances, bindings, ETag, generation | poll, poke, 200, 304, failure | partly rejected snapshots | what is enforced is what the cluster holds; no claim on an empty ruleset |
| Purges (`edgecp/purgestore.go`, `edge/purge*.go`) | journal, cursor, table, state file | issue, trim, poll, apply, flush, persist, restart | journal resets, cursor on disk, trimmed entries | an edge that has caught up enforces every purge |
| Edge certificates (`edge/certstore.go`, `refresh.go`) | cache, SNI table, negative cache, flights | refresh, handshake, update, swap | two writers, single-flight, caps | fetches are bounded, handshakes end, certificates are rotated |
| Trust manager (`trust/trust.go`) | CA pool, generation, memo of verified leaves, floor on disk | fetch, apply, persist, warm start, verify | pool and generation are stored and read one after the other; stale replicas; lost cache file | trust only moves forward, a verdict is that of a CA set in force, the newest bundle arrives |
| Edge leaf and re-mint (`edge/remint.go`, `clientcert.go`) | leaf in three stores, target, two breakers, flight | observe, trigger, mint, score, cool down | dropped triggers, lagging replicas, breakers fed stale evidence | the edge reaches the final signer and reports the leaf it presents |
| CA rotation and revocation (`edgecp/ca.go`, `signer*.go`, `issuance.go`, `converge/`, `revoke.go`) | CA Secret, signers, ledgers, the tool's step | bootstrap, rotate, flip, trim, reload, mint, gate | racing Jobs, stale lists, restarts that forget ledgers, a tool that crashes between steps | only the revoked edge is severed, and it cannot come back |
| Request path (`route/rrlb.go`, `badaddr.go`, `retry.go`, `proxy/`, `wsh2/`) | counter, bad addresses, h2c verdict and probe, tunnels | pick, dial, mark, retry, probe, tunnel, cancel | shared counter, verdicts that go stale, bodies already read, half-closed tunnels | nothing is sent twice that must not be; a healthy pod is found; everything ends |
| Rate limits (`ratelimitrule/`, `edge/ratelimit.go`, `edgecp/ratelimit*.go`) | sets of limits, counters, zone map, matcher, the store | set, poll, update, take | reload under traffic, separate stores, the clock | a limit that stays keeps its rate; a bound route is limited; Retry-After is honest |
| Ingress routing (`controller.go`, `plugin/`, `cert/table.go`) | mux, plugins | build, look up | precedence | not modelled (section 6) |

`PROJECT.json` lists the remaining parts (metrics, GeoIP, CIDR sources, rule
engines, wiring) with the reason why they are left out.

### How the parts interact

Watch goroutines write the stores and call the reloads; the reloads publish
tables the request path reads. EndpointSlice and Endpoints watchers recompute the
same hosts under `endpointReloadMu` and ask for a reload of the Services for the
ports. At the control plane the reloaders set a store; the hub samples its
version; the edge's stream pokes a refresh loop; the loop fetches with an ETag and
applies. Polling alone is meant to be enough; the stream makes it fast.

The CA Secret ties three planes together. Replicas of the control plane sign with
its active key and publish its certificates as the trust bundle; cores trust the
bundle they fetched last; edges compare their leaf with what the control plane
announces and mint again. A rotation adds NEW, waits until everybody trusts it,
flips the active key, waits until everybody presents it, and drops OLD.
`TrustManager` and `Remint` model a core and an edge in detail, `EdgeRevocation`
composes the planes with a coarse core and a coarse edge.

## 2. Modules

| module | models | proofs |
|---|---|---|
| `Debounce` | `debounce.go` and the passes of the Ingress and Secret reloads (no mutex) and of the transform reload (serialized) | `ReloadProofs` |
| `ResourceWatch` | one resource kind against an API server | `WatchProofs` |
| `EndpointRoutes` | both endpoint watchers, host table, port table and its overlapping reload passes | `WatchProofs` |
| `RuleReload` | the four incremental rule reloads | `ReloadProofs` |
| `PolicyDistribution` | cluster, control-plane reloaders, WAF store, event hub, stream, refresh loop, `EdgeWAF` | `EdgeStoreProofs` |
| `PurgeDistribution` | journal, poll loop, purge table, state file | `EdgeStoreProofs` |
| `EdgeCertStore` | certificate cache, SNI table, refresh loop, on-demand handshakes | `EdgeStoreProofs` |
| `TrustAnchors` | what the trust manager promises (abstract) | |
| `TrustManager` | `trust.go`, and concurrent verifications; implements `TrustAnchors` | `TrustManagerProofs` |
| `Remint` | an edge's leaf store, pollers, re-mint coordinator | `RemintProofs` |
| `EdgeRevocation` | CA Secret and its writers, replicas, revoke tool and gates, cores, edges | `EdgeRevocationProofs` |
| `RequestPath` | round robin, bad addresses, retry, transports, h2c verdict, tunnels | `RequestPathProofs` |
| `RateLimiter` | rate-limit store, edge update, limiter, strategies | `RateLimiterProofs` |

`MC*` modules give the constants of the runs. Every module states its type
invariant: `TypeOK`, or `DebounceTypeOK`, `WatchTypeOK`, `CertTypeOK` and
`PolicyTypeOK`. Three proof modules extend several components; these therefore have
distinct names where they would clash, and `Debounce`, `ResourceWatch`,
`EdgeCertStore` and `PolicyDistribution` prefix theirs (`DebounceSpec`, `WatchSpec`,
`CertSpec`, `PolicySpec`). The type invariant is a property of the runs of `Debounce`
and `EndpointRoutes`; for every component it is part of the inductive invariant that
the proofs rest on.

**Debounce.** A caller writes objects it owns (`StoreWrite`) and calls. `CallFirst`
runs the reload while holding `d.mu`; later calls arm a timer (`CallArm`), which
fires a goroutine (`Fire`). A pass takes its mutex if it has one (`BeginPass`), reads
the store key by key (`ReadKey`), and publishes or panics. What it publishes is a
function of the store, so it is represented by the version of every object it was
built from. Two kinds of pass are modelled, one per behaviour (`reload`). An Ingress
pass has no mutex, panics while it reads, swaps one table in and then asks for the
Secret reload (`PublishPass`); the Secret reload is the same without that call. A
transform pass is serialized by `transformReloadMu` and stores the global set and
the zones one after the other (`StoreGlobal`, `StoreZones`), with a panic possible in
between. `asked` and `shown` are history: the store when the Secret reload was last
asked for, and whether the current store has been published since its last write.
The WAF, rate-limit and Coraza reloads compile live instances in place, so what a
panic leaves behind is more than nothing; they are in `RuleReload`.

**ResourceWatch.** `cluster` is the API server's truth, `queue` the watch channel.
A watch opened without a resourceVersion starts with an Added for every live
object. The code relists and reconciles *before* it opens the next watch; the
reconciliation visits one key at a time.

**EndpointRoutes.** Each watch goroutine writes its store without a lock, then
recomputes the target hosts under the mutex, reading one object at a time. A resync
brings new and changed objects into the store one by one and removes those that are
gone, then recomputes the hosts of all Services; like a deletion it does not ask for the
ports. The passes of the service reload hold no mutex: each resolves Service by Service
and then replaces the port table, so that they overlap and may end out of order.
`unasked` and `shown` are history. The resolution of one Service, a scan of the slices,
is one step. The constant `Relabel` lets a slice change
its Service; the runs set it to `FALSE` because the EndpointSlice controller never
does this. With `TRUE`, `HostFresh` fails: the Service the slice leaves is not
recomputed.

**RuleReload.** A document is valid, rejected (`Bad`) or makes the engine panic
(`Boom`); a batch with both is rejected or panics, as the first one decides. A pass ranges over the store, skips unchanged fingerprints, compiles
into live instances (or, for transforms, builds new ones) and publishes registry
and fingerprints at the end. `torn` records the zones a panicking pass had already
compiled; `armed` the zones that have rules and whose ConfigMap still is a zone.

**PolicyDistribution.** Content stands for its own ETag. The reloaders establish
the watch, list, and set; the rules take two critical sections (`SetGlobal`,
`SetZones`). A list and the first set after it are one step, and so are a 200 and
the `Update` it leads to: no other process can see the time between. A handler
subscribes, sends the current vector, and is then fed by the hub; `handler` slots
are the hub's `MaxSubscribers`. `dirty`, `failed` and `blink` are history
variables. The distribution of Coraza rules has the same control without the claim and
the legacy map of hosts; it is not instantiated, nor are cache overrides and hosts.
There is one control-plane replica.

**PurgeDistribution.** A purge is a number; the table is the set of purges it
enforces. `inc` and `masked` are history. One poll loop per edge: the code runs
one, so the guard in `persist` against a stale snapshot cannot fire here.

**EdgeCertStore.** A certificate is its version; 0 is none. `Update` (under `mu`)
and the swap of the SNI table (after it) are two steps, as in the code.

**TrustManager.** A bundle is its generation, a leaf the CA that signed it. `apply`
is three steps (`StorePool`, `StoreGen`, `Remember`), a verification four
(`LoadPool`, `LoadGen`, `Lookup`, `Insert`). The control plane may answer with any
generation, however stale. `seen` collects the CA sets in force during a call and
`torn` records that a call paired an old pool with a newer generation; both are
history. `TrustAnchors` is the abstract specification: the generation moves
forward within a process and a restart is bound by the record that survived.

**Remint.** A leaf is the version of the Secret it was minted from; its CA id and
signer fingerprint follow from it, and `ClientCertStore` keeps the three in three
atomics. Pollers load the leaf's fields one at a time. The mint that `main` runs at
boot goes past the coordinator, so it can overlap a coordinated one; `raced`
records that.

**EdgeRevocation.** `log` is the history of the Secret; its index is the resource
version and the generation. Writers read and then write under compare-and-swap:
a write makes the reads of all others void, which stands for their conflict and
retry. Replicas may receive older lists, and restart with the registry file of that
moment and an empty ledger; `lost` keeps what the ledger had. Edges are processes; several may have
the same `edge_id` and token (`deploy/edge/edge.yaml` runs two replicas). The registry
(`registry`) disables any of the ids at any time, and every run of the tool is for an id
of its own choice, so that a run for one edge may have flipped the key and given up
before a run for another one starts. The tool reads every reporter twice, one after the
other, and goes on when both reads pass; of the processes of one `edge_id` the gates see
one sample, any of them, and each query its own (`EdgeConverged`), as `labelByLabel` keeps
the last. Conditions that only make the tool wait longer (heartbeats, failed re-mints,
observed targets, counts) are left out. The ledger counts a mint from its beginning
(`MintBegins`), which is when the code counts it. A mint that is under way at the first
read has ended by the second: the edge's timeout of 30 s is shorter than the
window, which `checkCadence` keeps at least as long as the refresh interval. A
refresh interval below 30 s would break this.

**RequestPath.** One action per step between which another request can act: pick,
dial, send, answer, fall back, retry, the copies of a tunnel. A copy is blocked in its
Read, or in its Write when the peer does not read (`upfull`, `downfull`); in the Write it
does not see that its source has ended. Bad marks, verdicts
and negative WebSocket verdicts expire at any moment. A cancel is atomic with the
code's reaction to it. `got` and `good` are history.

**RateLimiter.** The store of the control plane is set in three critical sections,
the edge updates known hosts, global set, zones, zone map and matcher one after the
other, and a request loads matcher and zone map separately and then walks the set
it loaded. Counters live in a heap so that an old and a new set can share them.
Ticks are nanoseconds and weights are exact where the code uses `float64`. The
fixed-window strategy is the parapet library's and is marked external. A failed
fetch changes nothing and is no step. `hist` counts what a limit admitted since it
came to the live set.

## 3. Runs

All properties hold.

| run | checks |
|---|---|
| `debounce` | `DebounceTypeOK`, `Settled`, `SecretsFollow`, `NoRegress`, `Converges` |
| `resource_watch` | `LiveObjectsTracked`, `SelfHeals` |
| `endpoint_routes` | `TypeOK`, `HostFresh`, `PortFreshUnlessUnasked`, `HostsConverge` |
| `rule_reload` | `RebuiltUnlessTorn`, `BadEditKeepsRules`, `RulesConverge` |
| `policy_distribution` | `ClaimNotAtBoot`, `PolicyConverges`, `StreamConverges` |
| `purge_distribution` | `CaughtUpEnforces`, `CursorRealigns` |
| `edge_cert_store` | `BoundedFetches`, `HandshakesEnd`, `CacheConverges` |
| `trust_manager` | `VerdictInForceUnlessTorn`, `ImplementsAnchors` (refinement), `BundleArrives` |
| `remint` | `StoreWholeAtRest`, `FutileMintsBounded`, `EdgeConverges` |
| `edge_revocation` | `FleetNeverSevered`, `RevokedStaysOut`, `BootstrapAgrees` |
| `request_path` | `OnceOnly`, `ProbeOwned`, `GaugeExact`, `ReachesHealthyPod`, `RequestsEnd`, `StaleVerdictHeals` |
| `rate_limiter` | `RateHeld`, `AfterHonest`, `BoundRouteLimited` |

### Bounds

- Debounce: two callers, two timer slots, two objects written twice. Two timers let
  two passes overlap, the third would repeat the second; an object that panics is
  among the contents, and one of the two objects is in the global set.
- ResourceWatch: two objects, three changes, three events in flight. A create, a
  delete and a change in the gap fit.
- EndpointRoutes: one Service, two slices and an Endpoints object, two ports, two
  writes, one per watcher or both of one, two overlapping passes of the service
  reload. The Services share only the mutex and the passes.
- RuleReload: two ConfigMaps (one in the controller's namespace), a feature that
  compiles in place and one that does not, four writes: define, edit, break, and
  revert.
- PolicyDistribution: one zone, one host in scope and one outside, one stream slot
  (so that a reconnect meets the cap), two contents, two bounded steps of which at
  most one is a fault. Two writes give the change and its reversal; fetches fail
  without a bound.
- PurgeDistribution: four purges, a journal of two, one restart on each side. The
  cursor can be behind, at, and ahead of the new journal.
- EdgeCertStore: two names, two handshakes, capacity one in every table.
- TrustManager: the three bundles of a rotation, one handler (handlers share only
  the memo, which outlives a call), a memo of one leaf, two restarts, one loss of
  the cache file.
- Remint: the rotation up to the flip, two replicas that move separately, one
  poller, breakers after two and one futile mints.
- EdgeRevocation: two CAs (one rotation), two replicas, one core, two edge processes
  with the same or different ids out of two, two Jobs, edits of the Secret by other
  hands up to its second version (`LastEdit`), one mint under way at a time
  (`MaxMints`). In a read the samples of edges are the oldest, then those of cores
  (`Age`), the order that leaves the fleet the most time to change behind the tool;
  with every order the run is too large. The proofs are for any `Age`.
- RequestPath: two requests, two pods, as many attempts as pods, a counter that
  wraps at 2, one change of a pod, and the pairs of kinds that share a mechanism.
- RateLimiter: a zone with one limit and four edits (siblings; a new shape beside
  an empty document; an invalid window and key; the zone renamed), two updates,
  two requests, windows of three ticks and a clock that is set back by at most
  two. The store changes only while a poll can still see it.

### Fairness

Goroutines that can run do run (weak fairness on their steps). Where a request may fail
any number of times, strong fairness says that one asked again and again is answered in
the end (`Relist`, `Serve`, `Fetched`, `StorePool(N)`, `FetchOK`). `ResourceWatch` also
assumes that the API server ends every watch, which it does by its time limit.
`PolicyDistribution` does not: there a failed list is left alone until the next event or
reconnect, and the property names that case (`Unlisted`). `PolicyConverges` assumes that
the poll timer ticks, `StreamConverges` does not. In `Remint` cooldowns end and a
rollout reaches every replica. In `RequestPath` only what the code bounds is fair
(`Bounded`): dials, backoff, the answer to a request without a body over HTTP/1.1 and to
a WebSocket handshake, which have timers, and the copies of a tunnel that can go on.
Nothing is assumed of an h2c exchange (`transport.go:45`), of a request whose body is
still being sent, nor of a client or a pod; `RequestsEnd` names the peers that can hold a
request up (`HeldUp`), and `StaleVerdictHeals` the traffic it needs.
`EdgeRevocation` and `RateLimiter` state safety only. Nothing forces the environment
(writes, faults, handshakes) to act.

Deadlock is checked except in `endpoint_routes` and `rule_reload`, whose models
stop when the bounded writes are used up and everything is reloaded.

## 4. Where the code and its comments part

Met while modelling; each is a behaviour the model has. Where a property of a run
would be false because of one, it names the exception.

- *Debounce.* The Service, Ingress and Secret reloads hold no mutex over their pass
  (`controller.go:784`): an old pass may publish after a newer one, and nothing
  repeats it. The comment at `controller.go:141` knows of the overlap but
  serializes only the rule reloads. `Settled` and `Converges` therefore say of an
  Ingress pass that the last state was published after the last write (`shown`), and
  `NoRegress` speaks of the serialized passes.
- *Resource watch.* The relist comes before the next watch (`controller.go:494`); an
  object deleted in between stays in the store until the next restart of the watch,
  although the comment at 443 says that dropped events are recovered. Therefore
  `LiveObjectsTracked` speaks of live objects only. That it holds rests on the API
  server: a watch opened without a resourceVersion begins with an Added event for
  every live object. The comment at `edgecp/reload.go:45` and `EDGE.md:384` say of the
  same call that it "never replays history"; if it did not, an object created between
  relist and watch would be missed until the next restart of the watch.
- *Endpoints.* Deleting an EndpointSlice recomputes the host and not the ports, and
  neither does a resync, which may bring new and changed slices
  (`controller.go:600`, 623); the ports stay stale until the next event asks for a
  service reload. Overlapping passes of that reload may end out of order.
  `PortFreshUnlessUnasked` names both (`unasked`, `shown`). A slice whose label changes
  never recomputes the Service it leaves (`controller.go:1045`).
- *Rule reloads.* A pass that panics after it compiled a zone in place records no
  fingerprint; if the edit is reverted the zone is skipped and keeps it
  (`RebuiltUnlessTorn`).
- *Purges.* A journal reset is recognised only while the cursor is ahead of the new
  journal (`purgestore.go:162`). A control plane that restarts and issues at least
  as many purges as an edge's cursor is taken for the old one and the edge skips
  the first; `CaughtUpEnforces` excepts this (`masked`). The comments at 19 and 155
  call the scheme conservative, "never an under-invalidation", and
  `edge/purge.go:77` says the same of a corrupt state file: the cursor then is 0, and
  a control plane that has restarted too has no gap to report. The hosts of a token
  are evaluated when it polls (`server.go:671`): an entry skipped while a host was
  not granted is never sent again.
- *Edge certificates.* `table.Set` comes after the unlock (`certstore.go:249`); of two
  concurrent `Update`s the one with the older list may set the SNI table last,
  where the comment at 231 says "atomically".
- *Policy snapshots.* A partly rejected snapshot is applied in part under the old
  ETag; reverting the change is answered 304 and the applied part stays
  (`Stale304` in `PolicyConverges`). `wafrefresh.go` calls a 304 "cached ruleset is
  current". The siblings have the same shape.
- *Trust manager.* `VerifyClientCert` loads the pool and then the generation
  (`trust.go:436`); a whole apply in between memoizes a verdict of the old pool
  under the new generation, which the comment above it rules out
  (`VerdictInForceUnlessTorn`).
- *Re-mint.* `main`'s mint at boot is not under the coordinator's single flight. If
  the two overlap, an OLD leaf can be reported as NEW until it is renewed (`raced`).
- *Revocation.* `runRevoke` says that its steps are no-ops in their target state; a
  re-run after the trim starts another rotation. An unrelated edit of the Secret
  followed by a restart of one replica splits the generations, and the gate waits
  until the others restart. The convergence gate keeps one sample per `edge_id`
  (`source.go:190`), while replicas of an edge may share one (`EDGE.md:1039`): a
  replica with an OLD leaf is hidden behind one with a NEW leaf, and the trim severs
  it. `FleetNeverSevered` is about processes with an `edge_id` of their own (`Stays`).
  The issuance ledger is forgotten at a restart (`metrics.go`). After a run for one
  edge has flipped the key and given up, another edge may get a NEW leaf; if it is then
  revoked and the replicas restart with the blacklist, as the procedure asks, the run
  for it finds an empty ledger, trims and reports it as severed while it holds a leaf
  of the remaining CA. `RevokedStaysOut` says what does hold: no ledger shows such a
  leaf, and for the edge whose own run flipped the key none was ever signed.
- *Request path.* A request without a body can be received more than once (a POST or
  DELETE too), where a comment says that a replay is always safe and `SPEC.md:45` that
  nothing is retried once a connection is established; `OnceOnly` is about the others.
  (The library, too, repeats a bodyless request on a fresh connection when a pooled
  one is closed under it; the model has no pool.) `wstunnel.go:132` says that closing
  one endpoint unblocks the other copy; a copy that is blocked in its Write to a pod
  that neither reads nor hangs up, with the deadlines cleared, is not, and the
  handler stays after the client has gone (`HeldUp` in `RequestsEnd`). A cancelled h2c request looks like a protocol error and sends
  the Service back to HTTP/1.1 for the TTL. A request with a body that is retried
  after a failed dial has a closed body and can only end with 502. A stale positive
  verdict fails WebSocket requests until ordinary traffic heals it.
  `ReachesHealthyPod` needs no more addresses than attempts and no mark that expires
  (the dial timeout and a mark both last 2 s).
- *Rate limits.* Denied takes also advance the window, so after a step back of the
  clock a wall-clock window can admit more than the rate; `RateHeld` counts by
  generation, as the code's comment does. Between the stores of zone map and
  matcher a renamed zone's route passes unlimited, and a poll between two setters
  may bind a route to a zone the payload lacks; `BoundRouteLimited` is about
  routes whose binding does not change.
- *Debounce* has no maximum wait: events that keep coming postpone a reload for ever.

## 5. Proofs

Every component is proved about, for every value of the constants that satisfies
the named assumptions: all invariants and all action properties of the runs are
theorems, and so is the refinement of `TrustAnchors`. Each proof finds an inductive
invariant: what the property leaves unsaid about the steps half way. TLC has
checked these invariants on instances of the runs' size before they were proved.
Components that belong together share a proof module.

### Reloads of the controller

`ReloadProofs` is about `RuleReload` and `Debounce`. For any number of ConfigMaps,
documents and writes, and each of the four features:

- `RebuiltHolds`: `Spec => []RebuiltUnlessTorn`.
- `BadEditHolds`: `Spec => []BadEditKeepsRules`.
- `TypeCorrect`: `Spec => []TypeOK`.

`RebuiltUnlessTorn` speaks of a controller at rest. Within a pass an instance that is
compiled in place has the new rules under the old fingerprint. `Fingerprints` says that
otherwise a fingerprint is that of the documents the instance was compiled from, except
for the zones a panic has torn; `Building`, that the new registry holds what the pass
has read of every zone it is done with; `Coherent`, that what it has read is still in
the store or another pass is due. A pass that skips an unchanged fingerprint is then as
good as one that compiles. `ArmedInv` is for the bad edits: an armed zone has rules in
the registry, in what the pass has read and in what it has built so far, because only
the end of a pass arms a zone, and a write that empties it or makes it no zone disarms
it. The mark for "no ConfigMap" must be no document, no ConfigMap and no set of global
documents (`DocumentsAssumption`).

For any number of callers, timers, objects and writes:

- `DebounceTypeCorrect`: `DebounceSpec => []DebounceTypeOK`.
- `SettledHolds`: `DebounceSpec => []Settled`.
- `SecretsFollowHolds`: `DebounceSpec => []SecretsFollow`.
- `NoRegressHolds`: `DebounceSpec => NoRegress`.

`Settled` is not inductive: it says nothing of a pass half way through the store.
For passes that overlap, `Covered` says that a timer or a caller is pending, or the
last state has been published and the Secret reload asked for since the last write, or
some pass is `Fresh`: what it has collected so far is still in the store, so that it will
do both. A write makes its caller dirty, a dirty caller leads to an armed timer or a
starting pass, and a pass that starts is fresh. For serialized passes, `Alone` (a reading
pass holds the mutex; a caller in a synchronous first reload holds `d.mu`, and there is
no timer yet) and `SnapCurrent` (the reading pass is fresh, or another is due) make what
is published last the last state, and `HalfStored` says that a transform pass that has
come to its zones has the global set in place. `NoRegress` needs
`Ordered`: versions flow from the store through the pass to the table, and with
the mutex no second pass can publish between a pass's reads and its publication.
The assumptions are those on the constants in `Debounce` (owners, disjoint slots,
a free mark that is no pass).

### What the controller knows of the cluster

`WatchProofs` is about `ResourceWatch` and `EndpointRoutes`. For any objects and any
number of changes, faults and events in flight, `LiveObjectsHold`:
`WatchSpec => []LiveObjectsTracked`. `WatchInv` says of an open watch that the last
event in flight about a live object carries its current version and that, with none
in flight, the store has it. Nothing holds of the store while no watch is open; the
Added events a new watch begins with make the invariant true again, and this is the
reason why relisting before watching loses nothing but deletions.

For any number of Services, slices, addresses and events:

- `HostFreshHolds`: if no event moves a slice to another Service (`~Relabel`),
  `Spec => []HostFresh`.
- `PortFreshHolds`: `Spec => []PortFreshUnlessUnasked`, whatever slices do.
- `TypeCorrect`: `Spec => []TypeOK`, and `WatchTypeCorrect` for the watch.

`HostFresh` says nothing of a goroutine half way through the stores. `FreshInv`
adds `Held` (a reader holds `endpointReloadMu`; a goroutine with nothing to
recompute has no target) and `Coherent` (what the reader has read about one of its
Services is still what the stores say, unless the other goroutine has that Service
as a target too). The argument: a write disturbs only Services that its goroutine
then has as targets (`WriteKeeps`; this is where a slice must keep its owner), so
a Service of the reader alone cannot have changed since it was read, and the route
of a Service depends only on its own slices and Endpoints (`AggregateSame`). It
uses the assumptions of `EndpointRoutes`: the marks for "no object", "no Service"
and "mutex free" are none of the real values, and slices are not Services. For the
ports, `PortInv` says of a Service all of whose changes were followed by a call that its
right port has been published since, or that something is going to publish it
(`InProspect`): a reload is due, a goroutine is still going to ask for one, or a pass
under way has the right port or has still to resolve it (`Resolving`). Overlapping passes
are covered because a change always leaves such a pass behind it; a deletion or a resync
leaves none, which is why the property excepts the Services it records.

### What an edge holds of the control plane's

`EdgeStoreProofs` is about `PurgeDistribution`, `EdgeCertStore` and
`PolicyDistribution`.

- `CaughtUpHolds`: `Spec => []CaughtUpEnforces`, for any number of purges and
  restarts and any size of the journal. `TypeCorrect` bounds the journal.
- `BoundedFetchesHolds`: `CertSpec => []BoundedFetches`, for any number of names,
  handshakes and slots.
- `ClaimHolds`: `PolicySpec => []ClaimNotAtBoot`, for any cluster content and any
  number of faults.
- `EtagServedHolds`: `PolicySpec => []EtagServed`. An edge whose last `Update` was
  clean enforces the content whose ETag it sends, so that a 304 tells it the truth.

A purge's number and its place in the order of issue differ by what was issued before
the last restart of the control plane. `PurgeInv` says that the journal is the end of
that order without a hole, that the table, the state file and the snapshot on its way
to the file enforce everything up to their cursor (`Covers`), and that an answer in
flight holds everything between the cursor it was asked with and its own maximum.
`masked` is the one way out: a cursor of an earlier incarnation that happens to lie
within the new journal.

For the certificates, that a name has one leader at a time (`OneLeader`) makes the
bound per name inductive: a handshake leads only when nobody else does, and a leader
holds a slot of the semaphore until it has stored its answer. Names and handshakes
are finite sets, and there is at least one name to ask for (`ConfiguredAssumption`).
For the rules (`PolicyInv`), ETag and generation advance with a clean `Update` only,
which replaces the instance of the boot, and a rejected document keeps what is there;
`dirty` marks the time in which the edge enforces something else than its ETag says.

### Trust, leaves and revocation

`TrustManagerProofs` proves for any sequence of bundles and any number of handlers,
restarts and losses of the cache file:

- `Implements`: `Spec => ImplementsAnchors`, the refinement of `TrustAnchors` with
  the generation as what is held, a usable cache file as what is durable and the
  floor as the bound.
- `VerdictHolds`: `Spec => []VerdictInForceUnlessTorn`.

`apply` checks a generation before it stores the pool, and stores the generation
and writes the file later. `MapInv` carries the check over: the pool between the
two stores is newer than the generation and not below the floor (`Accepted`), a
generation in force is not below the floor (`AboveFloor`), and what Run would write
again on contact is the generation in force or else the floor (`Remembered`). Each
step of `Run` then is one of `Advance`, `Persist`, `Forget`, `Restart` or invisible,
and the steps of the handlers touch nothing of it (`HandlersApart`). It uses that
there are finitely many bundles (`BundlesAssumption`).

For the verdicts, `VerdictInv` says how pool and generation belong together: outside
of `apply` they are of one bundle, and inside it the pool is the next one's. So a
call that has loaded a pool and then a generation not yet overtaken has both CA sets
that any concurrent call of that generation can have used among those in force
during it, and whatever such a call has put into the memo is right for both. A call
that loads its pool before a whole `apply` and its generation after it breaks this
for everybody, for as long as the memo lives: this is `torn`, and the invariant holds
up to it.

`RemintProofs` proves for any rotation of CAs and any number of replicas and pollers:

- `StoreWholeHolds`: `Spec => []StoreWholeAtRest`.
- `FutileBounded`: `Spec => []FutileMintsBounded`.

`StoreInv` rests on an ordering the code does not state: a poller can see a mismatch
only after the boot mint of `main` has stored its CA id, so of the boot mint's three
stores only the last can interleave with a coordinated mint, and `raced` records it.
For the breaker, the history count of futile mints never exceeds the breaker's own
count, and the breaker opens with the last one allowed.

`EdgeRevocationProofs` proves for any number of replicas, cores, edges, Jobs, CAs and
edits:

- `FleetNeverSeveredHolds`, `RevokedStaysOutHolds` and `BootstrapAgreesHolds`, the
  three invariants of the run.
- `TypeCorrect`, by which the Secret never has a third CA.

`LogInv` is about the history of the Secret: a signer that was replaced does not come
back, nor does an overlap, and the key an overlap has in store has not signed yet.
Hence a replica once seen with the overlap, or signing with NEW, stays there whatever
late list it receives. `FleetInv` says that the fleet is in one of three states:
nothing generated; one CA signs everywhere and every core trusts it; everybody holds
both CAs. `ToolInv` says what each gate has established so far, and shows why a gate
reads twice: what the second read sees of cores and edges is final only because the
first saw all replicas, and because mints older than the second read have ended. Of the
edges it speaks of those that have an `edge_id` to themselves, for which the sample of the
id is their own. `RegistryInv` shows that the edge of a run is kept from NEW by the probe
and the agreement of the replicas on the registry: all of them refuse the token when the
run passes gate A, and a restart reads a registry in which it is still disabled.
`LedgerInv` adds that no ledger, not even one that was lost, has an entry for a key that
has never been active, nor for the edge of the run that has flipped to it. The ledger
that gate B reads is needed for the edge of a later run, which finds the key flipped. The
proof assumes that replicas, cores and ids of edges are different reporters and that no Job
is called "tool" (`NamesAssumption`).

### Serving requests

`RequestPathProofs` proves for any number of concurrent requests and pods:

- `OnceOnlyHolds`, `ProbeOwnedHolds` and `GaugeExactHolds`.
- `ReachesHealthyHolds`: `Spec => ReachesHealthyPod`, if the pods are not more than
  the attempts (`PodsWithinRetries`; the code has five).

`RequestInv` records which kinds of request meet which transport. The marker of the
probe and the gauge are shared, the conditions on them are about all requests: each
step changes the shared value and the one request that accounts for it together. What
the peers of a tunnel do, read, write or stop, touches neither (`PeersMove`).
`ReachesHealthyPod` needs that after i failed attempts at least i addresses are
marked, the one just chosen not among them: with an unmarked one left, the retries
are not used up. Requests and pods are finite sets (`ConfigAssumption`).

`RateLimiterProofs` proves for any number of requests, hosts, zones, contents and
updates, any rate and any window:

- `RateHeldHolds`: `Spec => []RateHeld`.
- `AfterHonestHolds`: `Spec => []AfterHonest`.
- `BoundRouteHolds`: `Spec => BoundRouteLimited`.
- `TypeCorrect`: `Spec => []TypeOK`.

`RateHeld` speaks of what a tenure of a limit has admitted, the code counts in
strategies. `OneTenure` ties the two: of all the limits that the live sets and the
requests under way refer to, those with the same strategy are the same tenure of the
same limit of the same Limiter, and the other way round. A request on an old set and one
on the new set therefore count in one strategy exactly when the limit has continued, and
a limit that was dropped and defined again has a strategy nobody else holds. `Counts`
says that a live limit's strategy holds the window and the counts of its tenure, within
the rate; it excepts fixed windows after the clock has stepped back, which forget
theirs. What a reload does to the references is one definition, `Replaces` (each limit
of the new set is carried on or starts), which an accepted and a rejected batch both
satisfy (`InstallReplaces`, `RejectReplaces`).

`AfterHonest` is arithmetic over all rates, windows and counts (`AfterCovers`): the
quotient is rounded down and one tick added, which lies past the point where the decay
of the previous generation, or of the current one in the next window, makes room for
one more; within a window, and from one window to the next, room only grows. Counts
are exact in the model; that the code's `float64` are precise enough is not part of
it.

For `BoundRouteLimited`, `HeldInv` says that as long as some request is to be limited,
the zone of the route is published and has limits, and an update under way binds the
route to the same zone with limits. A batch with limits leaves a set that had some
with some, whether it is accepted or rejected; the zone map and the matcher change to
what they were.

The proofs assume that what the cluster holds is well typed, valid or not
(`ContentsAssumption`), and that the names of hosts, zones and marks differ
(`NamesAssumption`).

### Only model-checked

Every liveness property (`Converges`, `SelfHeals`, `HostsConverge`, `RulesConverge`,
`PolicyConverges`, `StreamConverges`, `CursorRealigns`, `HandshakesEnd`,
`CacheConverges`, `BundleArrives`, `EdgeConverges`, `RequestsEnd`,
`StaleVerdictHeals`): they need fairness and `ENABLED`, which TLAPS does not reason
about. That parsing concatenates the documents of a batch (`Parse`) is a definition of
the model and nothing is proved about it; the proofs use only that its result is a
sequence of limits.

## 6. Not modelled

- X.509, TLS and HTTP themselves; CEL, SecLang and YAML (a document is valid,
  rejected or panicking); the response cache and the fixed-window strategy, which
  are a library's.
- Ingress routing and plugins: the precedence is that of the muxes used, and the
  plugins configure middleware; there is no state of their own. The certificate
  table of the core is a pure lookup in a map that is swapped whole.
- Trusted CIDR sources: one goroutine per source swaps a list and keeps the last
  good one.
- The edge's WebSocket tunnel (the controller's, with the same copies, is
  modelled); cache overrides and the host list (the loops of the WAF).
- Metrics other than the gauge of connections, GeoIP, logging, the file-system
  cluster of development, flag parsing.
- Durations: a timer that may expire is an action, except in `RateLimiter`, whose
  windows are real numbers of ticks. `PolicyDistribution` has one replica of the
  control plane; several are modelled in `Remint` and `EdgeRevocation`.
- Pools of connections, and with them the library's own replay on a pooled connection
  that was closed; every attempt of `RequestPath` dials. An answer is the return of
  `RoundTrip`; the relay of its body is not modelled.
- In `RateLimiter` weights are exact integers where the code has `float64`, the clock
  steps back once per behaviour, the map of zones and the set of a zone are loaded in
  one step, and a tenure of a limit ends by the model's own rule (`Instance`), so a zone
  whose instance is replaced without need would not be noticed.
- The distribution of Coraza rules: the twin of the WAF's, with the same loop, handler
  and refresh.
- What the properties do not reach: the SNI table after concurrent `Update`s
  (section 4), the overlap of the boot mint with a coordinated one (`raced`), a
  rotation Job beside the revoke tool beyond what `FleetNeverSevered` says of it.

## 7. Plan

1. Cache overrides, hosts and a change of a token's grants in
   `PolicyDistribution`; the edge's tunnel in `RequestPath`.
2. An abstract `LatestValue` (a reader that eventually sees the last write and never
   an older one), implemented by the serialized `Debounce` and by the control
   plane's store.
