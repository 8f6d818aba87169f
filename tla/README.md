# A verification of zonedns

zonedns answers DNS queries according to the *zone* of the workload that asks.
Inside one zone a name resolves to its ordinary address; across zones it
resolves to the gateway of the destination's zone. A wrong answer seldom looks
wrong, so the questions worth asking are about states and interleavings that
tests hardly reach. This directory holds TLA+ models of the code that decides,
carries, caches and feeds those answers, the TLC instances that check them and
TLAPS proofs of the most important results.

## 1. The system

    client pod --DNS--> node agent (zonedns_agent) --DoH/mTLS--> central (zonedns)
                          |  podzone / static resolver            |  identity, decision, gateways
                          |  zonecache                            |  registry.Store <-- Poller <-- SPIRE

| Part | State | Operations | Touches |
|---|---|---|---|
| `plugin/zonedns_agent/agent.go` | none of its own; locals of every query in flight | `ServeDNS`, `resolveZone`, `stripZoneOption`, `answersQuestion` | resolver, cache, central |
| `internal/zonecache` | LRU map keyed by name, type and zone | `Put`, `Get`, `Len` | agent |
| `internal/ednszone` | none | `Valid`, `Set`, `Get` | agent, central, podzone, registry |
| `internal/dohupstream` | none | `Exchange` with a query timeout | agent, central |
| `internal/podzone` | `byPod`, `byIP`, `ready` | `upsert`, `remove`, `Run`, `Zone` | informer, agent |
| `plugin/zonedns_agent/setup.go` | `resolverGeneration`, `resolverReadyGeneration`, the gauge `resolver_ready` | `setup`, `markResolverReady`, `markResolverStopped` | Caddy, podzone |
| `plugin/zonedns/zonedns.go`, `internal/identity`, `internal/decision`, `internal/zonetable` | none | `ServeDNS`, `SourceZone`, `Decide`, `Gateway` | registry |
| `internal/registry`, `internal/spiffezone` | `Store.cur`, `Poller.pollErrors` | `BuildSnapshot`, `PollOnce`, `Run`, `Lookup` | SPIRE, central |
| `plugin/zonedns/setup.go` | `registry_*` gauges | `parseConfig`, `dialSPIRE`, `setup`, callbacks of the poller | Caddy, poller |
| `internal/drift`, `cmd/zonedns-drift` | none | one-shot comparison of labels and entries | Kubernetes, SPIRE |

What makes it hard: queries are goroutines that share the cache and read a
registry replaced under them; the clock is read before an exchange and used
after it; a Corefile reload runs two instances side by side on package-level
gauges; informer events reach their handlers late, over relists and resyncs,
while pod addresses are recycled; SPIRE is listed page by page while it changes.

What each part should guarantee:

* query path: an answer fits the asker's zone and is not older than `maxTTL`;
  every query ends;
* cache: map and LRU list agree, within the limit;
* pod table: a mapping has an owner; a pod is never taken for an earlier tenant
  of its address; lost mappings come back;
* readiness: the gauge tells what the instance in service can do;
* registry: a snapshot says nothing SPIRE did not say during the poll, conflicts
  stay unresolvable, failures lose nothing, polls end;
* central's gauges: they settle on what the instance in service knows, and the
  pollers of replaced instances end;
* configuration: no instance runs with settings another part cannot live with;
* drift tool: its exit code is justified by what the cluster held while it ran.

`PROJECT.json` lists the components, the hazards with the line where each bites,
and the source lines behind every definition.

## 2. The modules

| Module | Models |
|---|---|
| `EdnsZone` | the declaration option: `Valid`, `Set`, `Get`, `stripZoneOption` |
| `Central` | central's answer to a query under one snapshot: `PeerCertificates`, `SPIFFEIDFromCert`, `SourceZone`, `Decide`, `answerGateway`, `ServeDNS` |
| `ZoneCache` | the cache: `Put`, `Get` (as `Hits`, `Touch`, `Copy`), LRU order and eviction |
| `Agent` | composes the three above: concurrent queries, the exchange, the clock, the registry |
| `ZoneService` | abstract: what agent, cache and central promise together |
| `PodZone` | the pod table with the informer and the cluster |
| `AgentConfig` | the agent's `parseConfig`, the directive list and its check, `NewMTLS`'s check |
| `ResolverReady` | generations of the agent's plugin over reloads, and the gauge; composed with `AgentConfig` |
| `Registry` | `BuildSnapshot` with a reference definition that knows no order |
| `Poller` | composes `Registry` with the paginated poll and SPIRE |
| `CentralConfig` | central's `parseConfig`, its directive check, `dialSPIRE`'s checks |
| `CentralReload` | generations of central's plugin, their pollers and the shared gauges; composed with `CentralConfig` |
| `Drift` | one run of the drift tool against a changing cluster |
| `AgentProofs`, `AgentRefinement`, `PodZoneProofs`, `ResolverReadyProofs`, `PollerProofs`, `CentralReloadProofs`, `DriftProofs` | theorems and proofs about the module they are named after |
| `Loops` | the code's range loops as one fold over a sequence, for `Registry`, `AgentConfig` and `CentralConfig` |
| `DataLemmas` | facts about numbers, sequences and folds that several proofs use |
| `MC*` | instances for TLC |

### Correspondence with the code

**Agent.** A thread is a goroutine in `Agent.ServeDNS`; `pc` is its place,
`zone`, `now`, `answer` are the code's locals, `req` and `opt` the message. The
steps are the stretches between synchronisation points: `Receive` (resolver's
lock, clock), `Hit` or `Miss` (cache's lock), `Serve` (central decides, at some
moment of the exchange), `Reply`, `Reject` or `ExchangeFails`. `Serve` may
answer another question than the one asked, the case `answersQuestion` guards
against. That central answers a query under that query's own declaration is
assumed: a reply to the same question for another zone bears no mark of the
zone, `answersQuestion` would accept it, and nothing in the agent could tell.
Any zone may come out of the resolver for any address, a different one
for each query: that covers the static and the pod resolver. `at` and `snap` of
a message are history kept for the properties.

**ZoneCache.** `entries` is the map, `recency` the order `golang-lru` keeps.
`Get` moves a key to the front before it looks at the expiry, as the library
does. Time is in ticks of `1/TicksPerSecond` seconds so that flooring to
seconds matters. A message's TTL stands for the least one of its answer section.

**Central.** `ServeDNS` changes nothing but counters, and reads the store once;
it is the set of possible replies. `Downstream` is what the next plugin may say.
Names as spelled and as normalised are different sets; `Lower` maps one to the
other. The agent's connection is its transport, whether a plugin wrapped the
writer, and the certificate chain, each certificate a sequence of identities.

**ZoneService.** Decisions of central, each for a name, a type and a zone, made
from the registry of the moment; some are held for a while; a query is answered
with a held decision made for what it asks and for its own zone, young enough
and with a TTL that does not prolong it, or it fails. `Agent!Service` maps the
cache's entries and the replies under way to held decisions, threads between
`Receive` and their end to pending queries.

**PodZone.** `byPod`, `byIP`, `run` are the Watcher's. The informer is external:
`api` is the server's truth, `known` its store, `pend` the notifications not yet
handled. A relist delivers listed and vanished pods in any order: client-go's
queues differ here (that of the pinned version puts the vanished ones first, an
older one last) and the Watcher has no say in it. A resync may come while
handlers lag. `live` says whether
the pod's sandbox holds its address; the object keeps `status.podIP` after that.

**ResolverReady, AgentConfig.** One generation per `setup()` that builds a
resolver, from a Corefile that `parseConfig` accepts. A Corefile is a sequence of
lines; an argument is what the parser tells apart (a number, an address, junk,
nothing). Caddy starts the new instance, then stops the old one; a failed reload
drops the new one without its `OnShutdown`. Every section under
`resolverReadyMu` is a step. `orderly` remembers whether every instance so far
was left to report before its successor came, and no reload failed half-way.

**Registry, Poller.** A path is its segments; a page token is the id of the last
entry before it, 0 for the empty token. A page is the first `pageSize` ids after
the token, and the reply may list them in any order. `TakePage` is the loop body of `PollOnce`
after its two checks and, on the last page, `BuildSnapshot`, `Replace` and the
callbacks of `Run`. `touched` and `lasting` remember what the server held at
some, and at every, moment of the poll.

**CentralReload, CentralConfig.** One generation per `setup()` that gets past
`parseConfig`, with its store, its connection and its poller; a poll is one call.
Each `Set` of a gauge is a step, so callbacks of two pollers interleave. A call
under way when `ctx` ends may still succeed; one made afterwards is refused. A
process that stops is not followed further.

**Drift.** The steps are the tool's calls; between them anybody changes
VirtualServices, pods or the served API versions. `seen` remembers what some and
what every moment of the run held.

## 3. The runs

| Run | Specification | Shows |
|---|---|---|
| `agent` | `Agent!Spec` | `TypeOK`, `ZoneIsolation`, `PropagationBound`, `CachedTTLExpires` and the refinement `ImplementsZoneService`, with two concurrent queries |
| `agent_peers` | `Agent!FairSpec` | `ZoneIsolation` over all connections and sources, `LRUCoherent`, `EveryQueryEnds` |
| `resolver_ready` | `ResolverReady!FairSpec` | `TypeOK`, `ZeroMeansStopped`, `ConfigIsSound` under every reload; `GaugeTruthInOrder`, `StopSparesNewerInOrder`, `ReadyIsShown` |
| `resolver_late` | `Spec` | **violates** `StopSparesNewer` |
| `resolver_failed` | `Spec` | **violates** `GaugeTruth` |
| `pod_zone` | `PodZone!FairSpec` | `TypeOK`, `MappingHasTenant`, `MappingIsKnown`, `MappingIsReal`, `Heals` |
| `pod_zone_reuse` | `Spec` | **violates** `NoPreviousTenant` |
| `pod_zone_loaded` | `Spec` | **violates** `ReadyMeansLoaded` |
| `poller` | `Poller!FairSpec` | `TypeOK`, `SnapshotIsBracketed`, `StatsAreTrue`, `FailureKeepsSnapshot`, `PollEnds` |
| `central_reload` | `CentralReload!FairSpec` | `TypeOK`, `ConfigIsSound`, `ErrorsAreShown`, `SnapshotIsShown`, `PollersEnd` |
| `central_reset` | `Spec` | **violates** `ReadyMeansOwnStore` |
| `drift` | `Drift!Spec` | `CleanIsEarned`, `DriftIsReal`, `FailureHasCause` |

### What the five violations are

* `resolver_late`. `markResolverReady` does not compare generations, so a
  watcher that syncs after its successor did takes the gauge over; its stop then
  zeroes it over the running successor (`setup.go:162`). The comment of
  `markResolverStopped` promises otherwise.
* `resolver_failed`. In VM mode `setup` reports ready at once (`setup.go:219`).
  If the reload then fails, that report is never taken back: the gauge is 1 while
  the instance in service still waits for its first sync.
* `pod_zone_reuse`. `upsert` does not look at the pod's phase (`podzone.go:200`).
  A pod terminates, its address goes to another pod, and the list delivers both
  objects: the address ends up mapped to the terminated pod's zone. If the
  running pod was indexed first, its mapping is overwritten; if it has no zone
  label, the terminated pod's mapping is the only one.
* `pod_zone_loaded`. `Run` waits for the informer's `HasSynced`, not for the
  handlers (`podzone.go:102`), so the Watcher may be ready with an empty table.
* `central_reset`. Central's `setup` zeroes `registry_ready` (`setup.go:136`), but
  the previous instance's poller still runs; a poll of it that returns later sets
  the gauge back to 1 over the new, empty store.

The properties named `...InOrder` in `resolver_ready` show that the gauge is
right where neither of the first two events happens. For the third,
`MappingIsReal` shows the other half: an address that only one object carries
resolves to that pod's zone or to none. `MappingIsKnown` says what holds in
between, when handlers lag or the watch is broken. A broken watch does not clear
`ready`, although the design document (line 421) has queries take the fallback
then; what the code does guarantee is that the table, once the queue is handled,
says what the informer knew at the moment the watch broke. For the fifth, `SnapshotIsShown` and
`ErrorsAreShown` show that the gauges come right once reloads cease, unless a
failed reload left a poller behind that nothing ever stops.

### Bounds

* Agent: `agent` has two threads, since every conflict over the cache is between
  two queries; each comes from one of two zones or an unknown one. The cache has
  one slot, the registry moves the name to and fro, and the clock runs for two
  half seconds, which is `maxTTL`. `agent_peers` has one thread and stands still in time, with four
  connections, three kinds of source and of OPT record, an address type and
  another type, two spellings of the name, and more keys than the cache has
  slots. No run asks for AAAA through an IPv4 gateway, whose answer is empty like
  a refusal's; the theorems of section 4 hold for it.
* ResolverReady: three generations, which suffice for each violation. The
  Corefiles are the two good blocks, with and without their upstream lines, and
  each of 26 lines that adds to, repeats or spoils them.
* PodZone: two pods, each on the host network or not, fighting over one address
  beside the node's; three changes after any initial cluster (terminate one pod,
  give its address to the other, delete the first), four in `pod_zone_reuse`,
  which has no invalid labels. A
  queue of two notifications lets the handlers lag behind both pods.
* Poller: two ids in pages of one, entries of four kinds, tokens that may lie
  past the last entry, three pages at most, so that both the page limit and the
  repeated token are reached before the other; one change during polls, and two
  failures in a row, so that a poll recovers.
* CentralReload: two generations. What matters is the overlap of an instance
  with its successor or with a failed reload; counts of failures above one are
  all "many". The Corefiles are chosen as for the agent; those that are accepted
  differ only in what `dialSPIRE` looks at.
* Drift: two VirtualServices of six kinds, two pods, any served versions, two
  changes during the run.

`MaxChanges`, `MaxPending`, `MaxClock`, `MaxGen`, `MaxId` and `MaxErrors` are the
bounds by name. The runs of PodZone, ResolverReady, Poller and CentralReload may
stop when a bound is used up, and the drift tool ends, so deadlock is not checked
there; it is in the Agent's. Symmetry is used only in runs without liveness
properties.

### Fairness

* `EveryQueryEnds`: a runnable goroutine runs; `Exchange` returns because the
  HTTP client has a timeout (`dohupstream.go:123`). Central owes nothing.
* `ReadyIsShown`: goroutines run, the API server serves the first list, Caddy
  finishes a reload it began.
* `Heals`: the handler goroutine runs, the informer relists and resyncs every
  `resyncPeriod`. The cluster owes nothing; the bound on changes makes it quiet.
* `PollEnds`: a call to SPIRE returns, with a page or an error. The code sets no
  deadline, so this is an assumption about the connection; a call that hangs in
  the instance in service stops its polls, and no property says otherwise.
* `ErrorsAreShown`, `SnapshotIsShown`, `PollersEnd`: the same for every poller;
  the end of `ctx` ends a call. `End` is strongly fair because `select` chooses at
  random between a due ticker and an ended `ctx`. `SnapshotIsShown` has the
  success of later polls as a premise of its own, not as fairness.

## 4. The proofs

All hold for every value of the constants that satisfies the modules' `ASSUME`s.
Every safety property a passing run checks is also a theorem.

**AgentProofs** (`ZonesAreIsolated`, `PropagationIsBounded`,
`CachedAnswersExpire`, `CacheIsCoherent`, `TypeCorrect`). `ZoneIsolation` speaks
of answers given; it is not inductive, since an answer may come from the cache
and what enters the cache is in the hands of other queries. `IInv` adds:
`CacheInv`, every entry fits the zone in its key and expires within `maxTTL` of
the decision; `QueryInv`, a query on its way declares its own zone and nothing
else, and the reply it holds fits that zone and is no older than the query. The
argument runs along the query: `Declare` leaves exactly the agent's declaration,
central's reply to it is permitted (`TrustedIsAuthorized`: the check of the
leaf's one identity is exactly what the property calls trusted), `Put` stores it
under the same zone, `Hit` takes it from there.

**AgentRefinement** (`AgentImplementsZoneService`). Initial states map to initial
states, and with `IInv` of `AgentProofs` every step maps to a step or a stutter:
`Receive` asks, `Serve` decides, `Hit` and `Reply` answer, `Reject` and
`ExchangeFails` fail, `Miss` is not seen. An eviction forgets a held decision,
which the service may do in the same step. The invariant is needed where an
answer is given: it says the decision was made for this name, type and zone and
is young enough.

**ResolverReadyProofs** (`TypeCorrect` and `ZeroIsTrue` for every reload and
every set of Corefiles; `GaugeIsTrue` and `StopsSpareNewer` while `orderly`;
`ConfigsAreSound`). `OrderlyInv` says which generations exist in which phase
(`Succession`), what their goroutines have done (`Goroutines`) and that the last
report is of the serving or incoming generation (`LastReport`). `Configured` says
that every generation's settings came out of `parseConfig`; what those satisfy is
`Read`, the invariant of its loop over the lines, with the checks after the loop.
That the plugin stands ahead of `cache` follows from `insertBeforeCache`, itself
a loop (`InsertGuards`).

**PodZoneProofs** (`MappingsHaveTenants`, `TypeCorrect`, `MappingsAreKnown`,
`MappingsAreReal`). `TypeOK` and `MappingHasTenant` are inductive together; the
two halves of the latter need each other, as `byPod` says which mapping a pod
gives up. `MappingIsKnown` compares the table with the informer's knowledge;
between the two lies the queue. `FeedInv` bridges it: the last notification
queued for a pod carries what the informer knows of it, or none is queued and
the pod was last handled as that. `MappingIsReal` follows, since the informer
knows the truth while the watch stands.

**PollerProofs** (`SnapshotsAreBracketed`, `StatsAreAlwaysTrue`,
`FailuresKeepSnapshot`, `TypeCorrect`). Three arguments meet here.

1. What `BuildSnapshot` computes. `LoopInv`: after the first `m` entries the
   accumulator names, for each name, whether the entries so far declare it in no
   zone, in one or in several, and has counted those without a zone. Both of its
   loops preserve this (`NamesMean`, `AddEntryMeans`), so `DeclarationsMean`.
2. What a call returns. The ids of a page are a first part of those after the
   token and never empty while some are left (`PagesAdvance`); the list holds each
   of them that has a SPIFFE ID once, in some order (`ListsAreComplete`).
3. What `PollOnce` has gathered, `Paging`: every entry collected comes from a
   registration the server had during the poll; every registration that stayed
   since the poll began and has an id up to the token is among them; and if
   nothing changed, each is there once. This is the inductive part.
   `SnapshotIsBracketed` and `StatsAreTrue` alone say nothing about the pages
   collected before the last.

On the last page the three give the properties (`SnapshotSays`); a token of the
server's own choosing leaves nothing that the snapshot must account for, but what
is in it is still real.

**CentralReloadProofs** (`TypeCorrect`, `PollersRunSoundConfigs`). `IInv` adds to
the types that every poller's settings came out of `parseConfig` and that phases
and pollers go together (`LifeCycle`); the loop over the lines is treated as the
agent's.

**DriftProofs** (`CleanIsAlwaysEarned`, `DriftIsAlwaysReal`,
`FailureAlwaysHasCause`). `IInv` follows the run: what the tool has collected lies
between what every moment and what some moment held (`Collected`, `Witnessed`),
and a version passed over was not served all the time.

**DataLemmas.** The code's loops are folds in the model. The library's induction
theorems take an operator as a parameter and cannot be applied, so the induction
is stated with sets and functions: `Ascent` (a set of numbers that holds 0 and
with each number its successor, up to `n`), `FoldExists` (the function a fold is
defined by exists) and `FoldSteps` (it takes the elements one by one, in order).
Each loop then has one lemma that applies them to its own body.

**Assumptions** the proofs need, all evaluated by the runs: bounds are numbers and
sentinels are not values (`AgentConstants`, `PollerConstants`, `PodZoneConstants`,
`AbsentIsNoObject`, `MalformedIsNoList`); a Corefile is a finite sequence of lines
whose numbers are numbers or junk (`CorefileForm`); CoreDNS lists `cache` at most
once among its directives (`DirectivesForm`); DNS names are of bounded length and
so finitely many, an entry spells finitely many of them (`RegistryConstants`).

Only model-checked: the liveness properties `EveryQueryEnds`, `ReadyIsShown`,
`Heals`, `PollEnds`, `ErrorsAreShown`, `SnapshotIsShown` and `PollersEnd`, since
fairness and `ENABLED` are outside the prover's reach; and, naturally, the five
violations.

## 5. What is not modelled

* The set-up of TLS, gRPC and HTTP clients beyond the checks the code makes, and
  the DoH encoding: library calls.
* `warnIfDoT`, counters and log lines; only the gauges with a meaning of their
  own are state. The drift report's wording and its list of skipped hosts.
* `internal/testcerts`: certificates for tests.
* `FromID` of `internal/spiffezone`: called only by its own tests.

Simplifications: both Corefiles, in the query path, use the same
option code. Query class is not part of a question (nor of the cache's key in
the code; `answersQuestion` compares it). Gateway addresses are IPv4 or IPv6 without a scope. Cache lifetimes
are those of the answer section. An instance has the plugin in one server block,
so one `setup` (and, for central, one poller) per instance; several blocks in one
Corefile, whose generations would share the gauges, are not followed. A server's
wrong page token is any token, but not an early end of the list. The drift tool's
lists are those of the whole cluster; with `-namespace` (`main.go:44`) model and
theorems speak of that namespace alone, and a host reported as unclaimed there
may be claimed in another one, as the flag's help says. A pod label that matches only a host the drift tool
skips counts as unrouted in model and code alike.

## 6. Plan

Done: the core (Central, ZoneCache, Agent, ResolverReady, PodZone, Registry,
Poller) with its first theorems; then the identity check from certificate chains,
both configurations, CentralReload, Drift and the refinement of ZoneService; then
the proof of every safety property and of the refinement; then the bound on how
stale the pod table can be (`MappingIsKnown`).

Next: action properties behind the liveness results, each saying that a step of
the fair part makes progress and no other step undoes it.
