# A TLA+ model of YAPR

YAPR is a client-side router: a client process picks, for every request, the
endpoint of a service that should serve it. Pods register their endpoints in
etcd, clients watch them, selectors apply a strategy to them, and the `direct`
strategy routes by a header value to an endpoint stored in Redis, with the
servers checking that they are the right one. This project models the parts of
it in which goroutines, processes and messages interleave, checks them with TLC
on small instances, and proves the properties of its core with TLAPS.

## 1. Inventory

| Component | State | Operations | Hard parts |
|---|---|---|---|
| Service view, `types/service.go` | endpoint list, set, per-pod index, attributes, `dirty`, `version`, `UpdateNTF` | `RegisterPod`, `RemovePod`, `HangPod`, `SetAttributeInSelector`, `update`, accessors | `dirty` and `version` are read outside the mutex; four indexes kept by hand |
| Selector, `selector.go` | strategy, `lastVersion`, `lastUpdate`, `mu`, `strategyMu` | `Select`, `NotifyRetry` | unlocked tests before locked ones, a throttle, a lookup after the pick |
| Custom routes, `store/impl/impl.go:470-555` | two Redis hashes: endpoint and deadline | `SetCustomRoute` (Lua), `GetCustomRoute`, `RemoveCustomRoute` | compare-and-set with deadlines; Lua's nil, false and Redis's nil reply |
| Direct routing, `sdk/server`, `sdk/client`, `strategy/impl/direct.go` | clients' caches, servers' routing tables, pub/sub messages, retries | `SetCustomRoute`, `onMigration`, `OnRequestReceived`, `Refresh`, `invoke`, `NotifyRetry` | store and announcement are not atomic, messages get lost, caches are stale |
| LRU cache, `strategy/impl/cache/impl/lru.go` | map and doubly linked list | `Get`, `Refresh`, `Clear` | pointers at both ends, eviction |
| Registry, `store/impl/impl.go:187-375` | lease and data keys in etcd, `serviceToLease`, the clients' views | `RegisterService`, `UnregisterService`, `GetServices`, the change listener | leases that expire, restarts under the same name, a load and a watch that are not atomic, partial failures |
| Router, `router.go` | rules, blocked requests | `Route` with pass, throw, panic, retry, block | lost wake-ups, fall-through after the last retry |
| gRPC balancer, resolver, picker, `grpc/` | sub-connections and their states, picker, errors, the resolver's channel | `UpdateClientConnState`, `ResolverError`, `updateSubConnState`, `watcher`, `Pick` | removed connections that still report, reports that are ignored, errors without a cause |
| Strategies, `strategy/impl/` | tables, counters, weights | `Select`, `Update` | wrap-around, zero weights, non-atomic counters, the order of Go maps |
| Attributes and RPS, `impl.go:383-468`, `sdk/server/sdk.go:152-176` | Redis hash per endpoint, counters, report marks | `SetEndpointAttribute`, the listener, `reportRPS` | reports and messages overtake each other, one mark for many requests, endpoints that get no requests report nothing |
| Configuration, `impl.go:68-177`, `selector.go:29-48`, `router.go:23-38` | `version`, selector and router keys, the clients' maps | `LoadConfig`, `GetSelector`, `GetRouter` | crash between puts, a lease lost under a running load, caches filled at different times, string comparison of versions |

Interactions: the etcd watch goroutine and the attribute goroutines change the
Service; requests read it through the Selector; the Router calls the Selector
and waits for the Service's `UpdateNTF`; the balancer's picker calls the Router
on every attempt; the direct strategy reads the custom routes through its
cache; server SDKs exchange migrations over Redis pub/sub, and the client SDK
refreshes its cache when a server rejects a request.

What makes each part correct is listed with its runs in section 3; what can go
wrong and is hard to test is in `PROJECT.json`, `hazards`, at its source line.

## 2. Modules and how they correspond to the code

Every module says in its head what its state stands for; `PROJECT.json`, `map`,
gives the source lines of each definition. Definitions named `X_Something` are
deliberate defects of `X` that show that a property notices them; no
specification uses them.

* **Service** - one service for one selector. A critical section of `s.mu` is a
  step; every read of `dirty` or `version` outside it is a step of its own.
  The list is a multiset (`RegisterPod` appends duplicates). Attributes are told
  apart by their RPS relative to `max_requests`.
* **Selector** (extends Service) - `Select` by any number of goroutines, from the
  unlocked nil test of the strategy to the final lookup, one step per shared
  access. The strategy is the table it was last given, and picks any endpoint
  of it. A panic ends the process. *MCSelector*. **SelectorFresh** adds history
  variables: what the service offered since a Select began, and whether that
  Select passed the 50 ms test. *MCSelectorFresh*.
* **CustomRoute** - the script and the operations around it as operators over the
  route and its deadline (permanent, ahead, past); Lua's nil and false are
  different values, and both become a nil reply. **CustomRouteClients** calls the
  operations in any order and remembers what the last caller was told.
* **DirectRouting** (extends CustomRoute) - one header value: migrators, each in a
  server or in a client, that store, apply and publish in separate steps;
  servers that handle migrations one after the other; calls that route through
  a cache, are judged by the server (table, or store and then table), refresh
  the cache when rejected and try again up to three times, in the way of the
  gRPC interceptor (routes every attempt, appends the header) or of `Invoke`
  (routes once, overwrites it). A read of the store may fail, and so may the
  answer to the script be lost (`StoreFails`). Refresh reads the store and writes the
  table in two steps; `overtaken` remembers the servers whose entry was no longer
  the stored route when it was written, `failed` the calls for which a server could
  not read the store. A server has one endpoint. *MCDirectRouting*.
* **LruSpec**, **LruCache** - the abstract cache as a sequence of entries, and the
  map and linked list of `lru.go` with node addresses and garbage collection;
  the second implements the first under the mapping "entries in list order".
  The cache's mutex covers each operation whole, the store call included.
* **Router** (extends Service) - `Route` by any number of requests. `Select` is one
  step that gives any answer a strategy with a table however old can give; its
  interleavings are Selector's. Of a blocked request every shared access is a
  step: the evaluation of `UpdateNTF`, the waking, the unlocked tests of `dirty`
  in `EndpointsSet()`, the update, the look. `update()` makes a new channel and
  closes the old one exactly when it increments `version`, so a channel is named
  by the version it was made for. Timers may fire at any time, which covers
  every interval and timeout. *MCRouter* has three rule lists, the first the one
  of the repository's README.
* **Balancer** - one gRPC channel: the resolver's watcher with its ticker and its
  channel of capacity one, gRPC's FIFO queue of calls into the balancer, and the
  two handlers of the balancer with the evaluator, errors and pickers. A
  picker is told by what it does (wait, fail, route) and by the connections it
  was made with. gRPC's connections are external: dials succeed or fail, ready
  connections break, failed ones back off to Idle, `Shutdown()` is the last report.
* **Config** - processes in `LoadConfig`, one etcd request a step, under a mutex
  that belongs to a lease; and the maps of routers and selectors that a client
  fills at first use and never again. A key's value is the configuration it came
  from. Within the selectors and within the routers the order of the puts is
  left open. Versions are sequences of characters, compared as Go compares
  strings. *MCConfig*.
* **Strategies** - for each strategy what `Update` builds from the endpoints in some
  order and what `Select` may then return, as operators. Treemaps (`Floor`,
  `Ceiling`), uint32 sums and counters, random numbers and Lua indices are modelled
  by all the values they can take; `Hash` is a constant.
* **LoadReports** (extends Strategies) - one selector with `max_requests`: clients
  that filter, rebuild, pick and check the limit; servers that count a request,
  mark and report; the merge script; messages applied in any order. `Select` is
  atomic here. A pick about which nobody has reported yet dereferences a nil
  `AttributeInSelector` (`selector.go:138`) and kills the client (`Crashed`); the
  servers go on with what they received. Which endpoints have a report when the client
  starts is left open. "old" marks a report or message that a newer one has overtaken.
  *MCLoadReports*.
* **Registry** - pods and clients around etcd for one service. Each request of
  `RegisterService` and `UnregisterService` is a step, may fail, and a failed
  put may have been applied. Leases expire at any time (a pod may be cut off
  from etcd), processes crash at any point and restart with empty memory. A
  client loads once, opens its watch later and handles events in order. Initial
  states include data keys that earlier processes left. *MCRegistry*.
* **SelectorProofs**, **DirectRoutingProofs** (also of CustomRouteClients),
  **LruCacheProofs**, **RegistryProofs**, **RouterProofs**, **BalancerProofs**,
  **ConfigProofs**, **LoadReportsProofs** (also of Strategies) - the theorems of
  section 4.

etcd and Redis are external: single requests are atomic, a watch delivers in
order, pub/sub delivers in order to those that are subscribed and not at all to
others (`Lossy`).

## 3. Runs

| Run | Bounds | Shows |
|---|---|---|
| `selector` | 1 endpoint, 2 threads, 3 events, `max_requests` set | no change of the service is lost on a selector (`SnapshotFresh`), its version never goes back (`LastVersionMonotone`), the indexes agree (`CatalogConsistent`), a Select that passed the throttle never picks what was gone before it began (`FreshPick`) |
| `selector_live` | 1 endpoint, 2 threads, 1 event | every Select returns (`SelectReturns`); the strategy ends up with what the service offers (`EventuallyCurrent`) |
| `custom_route` | 4 endpoints, all timeouts, removals | a permanent route changes hands only to a caller that named it (`PermanentNeedsConsent`) |
| `custom_route_removed` | the same without expiry | **violation**: after a removal, sets are reported as successful and store nothing |
| `direct_calls` | 2 servers, 1 client, both call paths, 1 migrator in a client, 3 sets, expiry, lost messages, failing commands | no trace of a set that lost (`OnlyStoredRoutes`), the owner is reached within the attempts unless it could not read the store (`OwnerReachable`), a retry that names its rejection reads the store (`RetryReadsStore`), the cache after a rejection is of this call (`RetryCacheFresh`) |
| `direct_sequential` | 3 servers, 1 client, both call paths, 1 migrator in a server, 3 sets, reliable messages and store | once all is handled only the stored route's server accepts from its table, and one whose last Refresh was overtaken (`SingleOwner`) |
| `lru` | 4 keys, 2 values, capacity 3 | list and map agree from both ends (`ListMatchesMap`), refinement of the abstract cache (`ImplementsLru`) |
| `registry` | 2 pods, 1 client, 2 leases, failing etcd | `HealthySeen`, `DeadPodHung`, `UnregisteredGone` |
| `router` | 2 requests, one with a context, 1 endpoint, 2 events, 3 rule lists | no rule is skipped that does not pass (`PriorityKept`), nil is only dereferenced after used-up retries, an unknown solution or an unknown selector (`NilOnlyAfterRetries`), a blocked request sleeps through the return of its endpoint only if it was back before `UpdateNTF` was read (`NoMissedWakeup`), every `Route` ends (`RouteEnds`) |
| `balancer` | 2 addresses, 2 changes, 1 break, 1 fault | the evaluator counts what is there and nothing leaks (`ConnsCounted`), the picker fits the state and never uses a connection that was shut down (`PickerFits`), failing RPCs have a cause but in one case (`ErrorHasCause`), in the end every address of the services has a ready connection and RPCs are routed over them (`EventuallyServes`) |
| `config` | 2 processes with different versions, 4 faults | routers find their selectors in etcd (`RoutersRunnable`) and in a client (`ClientRunnable`), a version stands for a whole configuration (`LoadedIsComplete`) and never goes back (`VersionMonotone`) unless a lease was lost, nobody waits for ever (`LoadEnds`) |
| `load_reports` | 2 endpoints, 1 server, 2 callers, 2 requests, 1 weight, 1 fault, picks that panic; samples of 3 endpoints, weights nil, 0 and 3, 2-bit counters, two endpoints with colliding hashes | `QuietReport`, `ClientCurrent`, `FieldsKept`, `FusedRecovers` about the reports; `PicksOffered`, `WeightsExact`, `RingStable` about the strategies |

Why the bounds suffice. *Selector*: a lost update needs one change before, one
during and one after a rebuild, and a second Select to overtake the first;
three events and two threads give all orders, and the theorems remove the bound
for the safety properties. One event is the smallest number that makes a table
stale for good, which is what `EventuallyCurrent` is about. *CustomRoute*: the
state is one route and one deadline; a caller, an owner, a wrong guess and one
more are four endpoints. *DirectRouting*: a stale entry needs a route to leave
a server and come back, which takes three sets; with one client every such entry can
be met by a call, and a Refresh be overtaken by each set. Servers that no migrator
runs in are alike, and `AnyServer` says so to TLC in `direct_calls`. *LRU*: with
capacity three an entry can be head, middle or tail, and a fourth key evicts.
*Registry*: a restart within the old lease needs two leases of one pod; the second pod
makes the service known to a client although the first is absent, and enters through
the initial states. *Router*: a wake-up is missed, if at all, between two events, one
before and one after a turn begins. *Balancer*: with two changes an address goes and
comes back while its old connection still reports; one break covers each report that
is ignored. *Config*: a crash, a restart, a lost lease and a failed put can happen in
one behaviour. *LoadReports*: two requests raise the counter past a limit of one and
have it fall again under one mark, or under two; the counter of the round robin wraps
at the same time. The strategies do not depend on the state, so their properties are
evaluated where the run starts, over all orders of all subsets of the samples, with
weights whose sums pass two bits, and with hashes that give every other point of one
endpoint to another as well.

Deadlock is not checked where a bound, a finished request or a panic ends a
behaviour (`selector`, `selector_live`, the direct runs, `router`, `config`,
`load_reports`); it is checked for the custom routes, the cache, the registry and
the balancer.

Fairness. `selector_live`: strong fairness of each Select's steps - the Go scheduler
runs what can run, a `sync.Mutex` in starvation mode is handed to the longest
waiter, and waiting for a lock is the only way a step is disabled; weak
fairness of the watch goroutine; and, for `EventuallyCurrent`, of time passing
and of requests arriving, since only a request refreshes a selector. `router`: weak
fairness of each request, whose timers always fire; none of the service's
goroutines, so `RouteEnds` does not rest on a wake-up. `balancer`: of gRPC's queue,
the resolver's ticker, dials and back-off; breaks and changes are bounded, not
fair. `config`: of each step of a running process, which etcd answers, of a free
mutex being granted, and of dead processes' leases expiring; not of restarts.
`load_reports`: of the goroutines under way and of Redis; nobody needs to call, and a
request need not arrive of a client that has died.

### What the properties leave out, and why

`DeadPodHung` names two paths on which a dead pod stays in use: its data key was
put after its lease key went, or the client read the data key when there was no
lease key. Both are real in the code; nothing repairs them before the pod
registers again. All registry properties speak of clients that follow
(`Follows`): an event between `Get` and `Watch`, or of a service that had no pod
at the `Get`, is never seen. `FreshPick` speaks of Selects that passed the 50 ms
test. `SelectReturns` is checked with a strategy that has a builder; with an unknown one,
the first Select returns with `s.mu` locked and the next one waits for ever (the
action `BuildFails`, which the run `selector` takes). With `max_requests` set, a
pick that has no report yet panics (the second disjunct of `LookupPanics`); so does a
pick whose pod is removed before the lookup (the first). `FreshPick` bounds the latter:
behind a filter and after the 50 ms test, the pod had to leave during that very Select.

Other behaviour of the code that the models have and the properties step around:

* A server's Refresh reads the store and writes its table without a lock in between
  (`routing_table.go:53-58`). A migration handled there is overwritten by the older
  route, and the server keeps it, accepting requests that are no longer its own,
  until the next migration that concerns it or its next Refresh. `SingleOwner` names
  this exception (`overtaken`). In `direct_sequential` a single call meets it.
* Two servers that migrate the same header value may publish in the other order
  than they stored, and the loser then considers itself the owner for good; and when
  the answer to the script is lost, what was stored is never announced.
  `SingleOwner` is checked and proved for one migrator whose commands do not fail.
* Such an old route was stored once, so `OnlyStoredRoutes` is no word about it, and
  `RetryReadsStore` is one about when a server reads, not about what it writes later.
* On the third gRPC attempt the server reads the first rejection from the metadata,
  where the comment at `sdk/client/sdk.go:129` speaks of the last (`LastEndpoint`).
* After a lost lease `RegisterService` refuses the registration that the comment at
  `sdk/server/sdk.go:181` asks for (`AlreadyRegistered`).
* A blocked request is let through when its endpoint is listed, though it may still
  hang (`Look`). One that got no endpoint from `Select` waits for its timeout.
* When the retries are used up, or the solution is not a known one (also the listed
  `default`), `Route` goes on to dereference the endpoint (`RetriesUsedUp`, `Enter`).
  The branch for a service that is not found (`router.go:179-183`) cannot be reached:
  `Select` would have panicked.
* The last connection error is never cleared, although the comment at `balancer.go:59`
  has it cleared when the channel leaves TransientFailure. An error picker may
  therefore quote one of long ago, and `ErrorHasCause` takes it for a cause.
* After a resolution that removed all addresses, the next one publishes an error
  picker without a cause until a connection is ready or all have failed, contrary to
  the comment at `balancer.go:145` (`ErrorHasCause` names the case); and a removed
  connection that is still counted may make the state Ready under that picker.
* `LoadConfig` compares versions as strings, so 10 is older than 9, and the properties
  about versions are in that order. When its lease runs out it goes on putting, and may
  overwrite a newer configuration. What survives even then are `RoutersRunnable` and
  `ClientRunnable`. A router that a client caches after its selectors may name a
  selector it will never see, and then `Select` is called on nil (`UnknownSelector`);
  `ClientRunnable` is about the routers cached before.
* A report that fails, or a message that is overtaken, stays uncorrected until the
  next request of that endpoint: the properties about reports exclude it by name
  (`staleStored`, `staleAttr`).
* A client that picked an endpoint before anybody reported about it is dead and learns
  nothing any more; `FusedRecovers` says so (`Crashed`).
* Two endpoints whose virtual nodes have the same hash share a point of the ring, and
  who gets its keys depends on the order in which a Go map was walked: such keys may
  move at any Update, also between endpoints that stay (`RingStable`).
* Weights that sum up to a multiple of 2^32 make the weighted round robin answer that
  there is no endpoint (`PicksOffered`).

## 4. Proofs

Every safety property that a passing run checks, invariant or action property,
is a theorem, for every value of the constants that the named `ASSUME`s admit
(TLC evaluates those in the runs), and so is the refinement of the cache. What
is assumed beyond that stands in the theorem. Where a property is not inductive,
the inductive invariant is named here with the reason.

**SelectorProofs** - `TypeCorrect` (`TypeOK`), `NoLostUpdate` (`SnapshotFresh`),
`LastVersionNeverBack` (`LastVersionMonotone`), `CatalogAlwaysConsistent`
(`CatalogConsistent`), and of `FreshSpec` `PicksAreFresh` (`FreshPick`), for all
endpoints, pods, threads, filters and bounds.

`SnapshotFresh` says nothing about a Select that has rebuilt the table and not yet
recorded its version. The inductive invariant `Inv` adds

* `MutexInv` - who is in the part that `s.mu` protects holds it, so only one is;
* `VersionInv` - recorded and read versions are never ahead of the service's,
  and whoever rebuilds has read a version newer than the recorded one;
* `CommitInv` - a Select about to record its version has a table that is what
  the service offers, unless the service has since become dirty or got a newer
  version than the one to be recorded.

The argument: every change of the catalogue sets `dirty` in the same critical
section, and `dirty` is cleared only together with an increment of `version`. So
after a change either `dirty` holds or `version` exceeds every version anyone has
read, and both make the premise of `SnapshotFresh` false until a later rebuild.
That `update()` does not test `dirty` again under the mutex costs an extra
version and no more. `LastVersionNeverBack` follows from `VersionInv`: only the
recording step changes `lastVersion`, and it holds a newer version since the test
under `s.mu`. `CatalogAlwaysConsistent` has its own induction over the service's
operations.

`FreshPick` needs `SeenInv`: from the moment a Select has found the service clean, or
has updated it, whatever table is recorded under the version it read, or a later
one, was offered during this Select (`Covers`). A Select that finds its version
recorded therefore picks from a table of its own time, also when another thread
built that table. `SnapshotFresh` and `CommitInv` make this true at the clean read.
What was offered is remembered until Select returns, hence also when the lookup panics.

**DirectRoutingProofs** - first, for any servers, clients, migrators, modes and
bounds, with expiry, lost messages and failing commands: `NoForeignRoutes`
(`OnlyStoredRoutes`), `OwnersReachable` (`OwnerReachable`), `RetriesReadStore`
(`RetryReadsStore`), `RetryCachesFresh` (`RetryCacheFresh`). `DirectInv` consists of

* `StoredInv` - every announced migration is one that was stored, and a route
  without a deadline is one that never was set, so the script's false answer
  cannot pass for a success;
* `CallFine` - where a call is and what it has seen of the store. Its main part is
  about a `Settled` call, during which the stored route was the target of the
  first attempt all the time, and for which no server failed to read the store: it
  makes at most one more attempt, to the same server, which finds itself named in the
  metadata, reads the store and accepts.

`OneOwner` (`SingleOwner`) assumes `Sequential`, as the run does: one migrator, no
expiry, no lost message, no failing command. Clients are not restricted: any number of
them call, refresh caches and make servers refresh their tables meanwhile. `OwnedInv`
says that who will believe to be the owner, once its inbox is empty, is the stored
route, or the one that the migration under way has just replaced (`Holders`), or is in
`overtaken`; the last message that concerns a server (`LastConcern`) tells what its
table will say, and the table if there is none. A Refresh either writes the stored
route or puts its server into `overtaken` (`OwnedCall`), so the exception is exactly the
race of `routing_table.go:53`, and a migration handled at that server ends it.

Then, of the custom route by itself, `CustomRouteTypes` (`ClientsTypeOK`) and
`PermanentRouteKept` (`PermanentNeedsConsent`). While a permanent route is stored, the
script's `existing` is that route, which is neither Lua's nil nor false
(`LuaAssumption`: endpoints are stored as `ip#pod#port`), so it writes only for a
caller whose old value is equal to it.

**LruCacheProofs** - `ListAndMapAgree` (`ListMatchesMap`) and `CacheImplementsLru`
(`ImplementsLru`) for any keys, values, capacity and addresses (finitely many,
more than the capacity). Neither is inductive: `prev`, `next`, `head` and `tail` are
related only through the list they form. `LruInv` says that there is a sequence `s`
of different nodes (`CacheInv(s)`) that is this list from both ends (`Chain`), that
the map leads to the nodes of `s` and to no other, each under its own key
(`Holds`), that garbage points nowhere (`Loose`), and that `s` is no longer than the
capacity. The lemmas say what each list operation makes of `s`: `remove` takes a
place out (`RemoveChain`), `moveToHead` puts a node in front, of the list
(`MoveChain`) or a new one (`NewChain`), garbage collection keeps `s` (`Collected`),
and `resize` removes the last. A new node can always be allocated because `s` has as
many nodes as the map has keys (`SizeFacts`, `NodeFree`). Reading the links from
either end gives `s` (`ListRead`), so the abstract entries are the contents of `s`
(`HeldItems`), and each operation on `s` is the operation of LruSpec on them: every
hit, miss and refresh is one abstract step (`HitRefines`, `MissRefines`,
`ErrorRefines`, `RefreshRefines`, `ClearRefines`).

**RegistryProofs** - `HealthyPodsSeen` (`HealthySeen`), `DeadPodsHung` (`DeadPodHung`),
`UnregisteredPodsGone` (`UnregisteredGone`), for any pods, clients and leases, with
crashes, failing requests and late events. A client is behind by its queue; what
it will have seen of a pod is told by the last event of the pod in the queue, and
by its view if there is none. `DataInv` says so of the data key and `LeaseInv` of the
lease key; `HealthyInv` that a successful registration whose lease holds owns the
lease key; `QueueInv` that nothing is queued before the watch is open. Every request
that changes a key adds the event that becomes the last, and handling an event
moves what it tells from the queue to the view.

**RouterProofs** - `RulesInOrder` (`PriorityKept`), `NilCausesKnown`
(`NilOnlyAfterRetries`), `WakeupsArrive` (`NoMissedWakeup`), for any requests, rules,
endpoints and number of events. `RouteInv` adds `AnswerInv`, where a request may still
have an answer without an endpoint, and `NtfInv`, that nobody waits on a channel not
yet made: an increment of `version` therefore wakes whoever waits.
`RuleListsAssumption`: what a rule catches has a solution, a listed one or another,
and a number of times.

**BalancerProofs** - `NoConnLeaks` (`ConnsCounted`), `PickerAlwaysFits` (`PickerFits`),
`ErrorsHaveCauses` (`ErrorHasCause`), for any finite set of addresses and any bounds.
`BalancerInv` adds

* `QueueInv` - the queue holds at most one call of the resolver, which waits for it,
  and no report of a shut-down behind it;
* `MadeInv` - an address gets another connection only after a change removed it and
  another brought it back, so the bound on the connections made is never what
  stops the balancer;
* `ErrorInv` - what the errors and the picker of the last publication stand for.

The counts of the evaluator are cardinalities of sets of connections; a report moves
one connection from one set to another (`CountMove`).

**ConfigProofs** - `ConfigTypes` (`TypeOK`), `RoutersAlwaysRunnable` (`RoutersRunnable`),
`ClientsAlwaysRunnable` (`ClientRunnable`), `VersionStandsForAll` (`LoadedIsComplete`),
`VersionNeverBack` (`VersionMonotone`), for any processes, configurations and number
of faults. `ConfigAssumption`: versions are sequences of numbers, and a router only
names selectors of its own configuration, which the code does not check. There
are two inductive invariants, because the first two properties survive a lost
lease and the last two do not:

* `RunnableInv` - a process that puts has each selector of its configuration still
  to put or already stored (`SelectorsPut`), and cached routers find their
  selectors in etcd (`CachedRunnable`). A router is put only when no selector is
  left, and no step removes a key (`StoredStays`); the mutex plays no part.
* `VersionInv` - while no lease is lost, who is between lock and unlock holds the
  mutex (`MutexInv`), and who puts finds an older version stored and its own puts
  untouched (`PutterInv`). The version is the last key, so it is put when all
  others are stored; any other key it overwrites only becomes newer.

Both rest on the order of versions: that `Less` is asymmetric and its negation
transitive is proved from the definition by looking at the first place where two
strings differ (`LessAsymmetric`, `NotLessTransitive`, `LeastNumber`).

**LoadReportsProofs** - `QuietMeansReported` (`QuietReport`), `ClientsCatchUp`
(`ClientCurrent`), `ReportsKeepFields` (`FieldsKept`), for any endpoints, strategy,
callers and bounds. Reports and messages are two stages of one shape: a sequence
whose last entry is current, until that one is taken and everything left is marked as
overtaken. `LoadInv` says that of an endpoint a report is due (the mark is set, a
reporter is awake, or a request is about to look at the mark), or the newest report
has the counter's value, or all are overtaken and what is stored has it; and the
same of messages, the stored attribute and the client's.

Of the strategies, for any finite sample of endpoints, any order, weights, loads and
width: `PicksAreOffered` (`PicksOffered`, one lemma per strategy), `SharesAreWeights`
(`WeightsExact`), and `RingHandsOver` (`RingStable`), for any hash, colliding or not.
A key whose endpoint stays still meets the same point first, for the points that are
left are among those that were there; who of those that put this point has it is the
choice of the map's walk, and the only way for the key to move. The sums are
recursive functions; that they satisfy their equations is proved from the existence
of a solution for each length, by looking at the least length that has none, and
what they compute in the same way (the library's induction theorems cannot be used).

**Only model-checked**: the liveness properties `SelectReturns`, `EventuallyCurrent`,
`RouteEnds`, `EventuallyServes`, `LoadEnds` and `FusedRecovers`, which are out of the
prover's reach, and the violation of `SuccessMeansStored`. The `TypeOK` of a module
is part of its inductive invariant, and a listed theorem only where a run checks it.

## 5. Not modelled

Error texts, logging and metrics; construction of clients; reading the YAML file;
the examples; the sidecar, whose source is commented out; the default cache, which
keeps nothing. In DirectRouting all endpoints stay available, a server has one
endpoint, and routes are not removed while calls run; other header values appear
only as evictions. `Close` of the resolver and the balancer. The digests of the Lua
scripts are cached for the life of a process: after a Redis that lost its scripts
every call fails, which the models have only as single failures.

## 6. What is left

1. **Compositions** - Router over Selector instead of over its answers, and Balancer's
   pickers over Router.
2. **DirectRouting** with several endpoints in a server, and removal of routes.
3. **Proofs** about those; and `SingleOwner` for several migrators whose messages
   arrive in the order of their sets, which the code does not arrange today.
