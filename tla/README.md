# A TLA+ model of yoroi's concurrent core

yoroi is a Go toolkit for services: endpoints and middlewares, transports
(HTTP, JSON-RPC, gRPC, fasthttp), service discovery with client-side load
balancing, metrics, circuit breakers, rate limiting, authentication, tracing.
What is hard to get right, and to test, is the part that runs in goroutines of
its own: service discovery (`sd/`), the connection manager (`util/conn`) and the
metrics buffers; and, in the code that handles one request, the many ways out
of it. This project models the discovery pipeline from the backend to a retried
call, the connection manager, two registrars, the metrics from an update to
the flush, and a request on its way through server, middlewares and client. All
paths are relative to `src/`.

## Inventory

| component | state | operations | hard behaviour | what makes it correct |
|---|---|---|---|---|
| instancers (`sd/etcd`, `etcdv3`, `consul`, `dnssrv`, `eureka`, `zk`) | watch or index, quit channel | discovery loop, Stop | watches that end, errors between watches, Stop against the loop | a change or a restored connection reaches the cache; Stop ends the loop |
| instance cache (`sd/internal/instance/cache.go`) | last event, registered channels | Update, Register, Deregister | sends on unbuffered channels with the lock held | every subscriber gets every change once and in order; no send to a closed channel; nobody waits for ever |
| endpointer (`sd/endpointer.go`) | channel, receive goroutine | NewEndpointer, receive, Close | Close during a broadcast | Close returns and the goroutine ends |
| endpoint cache (`sd/endpoint_cache.go`) | instance to endpoint map, served slice, error, deadline | Update, Endpoints | lock upgrade in Endpoints, failing factories, outages | endpoints served are open and in order; each is closed once, when it disappears; the outage deadline is honoured |
| balancers (`sd/lb/round_robin.go`, `random.go`) | counter or random source | Endpoint | concurrent picks, a list that changes, a counter that wraps | even use of the endpoints |
| retry (`sd/lb/retry.go`) | attempts, two channels, context | a call | timeout against late answers, goroutines left behind | results account for all attempts; no goroutine is stuck; calls return |
| connection manager (`util/conn/manager.go`) | connection, timer, backoff | Take, Put, Write, loop | dial goroutines, stale errors, the start-up | never stranded, one dial at a time, no lost connection, growing backoff |
| registrars (`sd/eureka`, `etcd`, `etcdv3`, `consul`, `zk`) | heartbeat goroutine, lease | Register, Deregister | Deregister during a heartbeat, lost leases | one goroutine; deregistration sticks; a lost instance returns |
| metrics (`metrics/`) | label-value spaces, counters, gauges | Add, Observe, Set, WriteTo, Send | observation during a flush | no observation lost or counted twice |
| transports (`transport/`) | one request | ServeHTTP, Endpoint | error paths, finalizers, cancellation | hooks run in order, finalizers always, bodies closed |
| middlewares (`circuitbreaker`, `ratelimit`, `auth`, `tracing`, `endpoint`) | in libraries | wrap an endpoint | late responses | the wrapper reports the outcome it saw |

The pipeline: an instancer's loop calls the instance cache's `Update`, which
sends the event to every registered channel; the receive goroutine of each
`DefaultEndpointer` hands it to its endpoint cache, which calls the factory and
the closers; a balancer asks the endpointer for the current list on every
attempt, and `Retry` makes the attempts. Registrars are the other side of
discovery and share nothing with this pipeline but the remote service. The
connection manager serves the metrics backends (`WriteLoop`, `SendLoop`).

PROJECT.json lists all components with what is and is not modelled, and under
"hazards" the places that tests hardly reach, each with the properties that
cover it or the reason why none does yet.

## Modules

| module | models | proofs |
|---|---|---|
| `EndpointCache` | `sd/endpoint_cache.go` and the `InvalidateOnError` option | `EndpointCacheProofs` |
| `InstancerContract` | what `sd/instancer.go` promises a subscriber (abstract) | |
| `InstanceCache` | `sd/internal/instance/cache.go` composed with the endpointers of `sd/endpointer.go` | `InstanceCacheProofs` |
| `Retry` | `sd/lb/retry.go` composed with `sd/lb/round_robin.go` | `RetryProofs` |
| `ConnManager` | `util/conn/manager.go` | `ConnManagerProofs` |
| `EurekaRegistrar` | `sd/eureka/registrar.go` | `EurekaRegistrarProofs` |
| `EtcdRegistrar` | `sd/etcd/registrar.go`, services with a TTL | |
| `DiscoveryBackend` | what the instancers share: the registered instances, outages, the cache they push to, Stop | |
| `ConsulInstancer` | `sd/consul`: blocking queries and their index | |
| `EtcdInstancer` | `sd/etcd` and `sd/etcdv3`: the loop, the watch goroutine, a client shared with a registrar | |
| `ZkInstancer` | `sd/zk`: one-time watches | |
| `PollingInstancers` | `sd/dnssrv` and `sd/eureka` | |
| `Instancers` | the composition of the four above with the backend | `InstancersProofs` |
| `AtomicMetrics` | `metrics/generic`: the atomic words of counters and gauges, and the gauges' set flag of dogstatsd and influxstatsd | |
| `LabelSpace` | `metrics/internal/lv` | |
| `MetricsFlush` | `metrics/statsd`, `dogstatsd`, `influxstatsd`, `influx`, `graphite`, `cloudwatch2` over the two modules above | `MetricsFlushProofs` |
| `Transports` | the servers and clients of `transport/`, and `circuitbreaker`, `ratelimit`, `auth`, `tracing/zipkin`, `endpoint` between them | `TransportsProofs` |

`MC_EndpointCache`, `MC_InstanceCache` and `MC_Transports` give the constants
that a `.cfg` cannot write; the other modules are checked directly. Definitions whose comment
begins with "Mutant" are altered forms of the definition that follows them, used
to see that a property notices the difference; no specification uses them.

### How state and actions correspond to the code

- **EndpointCache.** One step per critical section of the `RWMutex`. The reader
  that has given up the shared lock and not yet got the exclusive one is in
  `upgrading`. Endpoints are handles, numbers; `opened` are the ones the factory
  returned with a closer, `closed` the ones whose closer was called. Position
  `i` of a sorted list would get handle `made + i`, whether or not the factory
  is called for it, so that `updateCache` is one expression and not a loop:
  `Called` are the positions where the loop calls the factory, `Kept` the ones
  whose entry survives in the new map, `Leftovers` what is closed. `outage` is
  a history variable: the first error since the last good event and its time,
  independent of `err` and `deadline`.
- **InstanceCache.** The mutex has an owner. A send is a rendezvous: it happens
  when the sender is at its send and the receive goroutine at its receive.
  `Update` takes the lock and fixes the broadcast's work list `todo`;
  `BroadcastTo` sends to one of them, in any order, as Go's map iteration does.
  What `Update` sorts is abstracted to `SortOf`.
- **Retry.** Per call: the loop (`launch`, `select`, `returned`), one goroutine
  per attempt, the buffers of the two channels. Reading the list and drawing a
  number are two steps of a goroutine, as in `roundRobin.Endpoint`. The counter
  has `W` bits; `drawn` is a history variable, the numbers drawn in all, by which
  the wraps are counted. A `Callback` other than `maxRetries` answers as it
  likes.
- **ConnManager.** `lpc` separates the blocking first dial from the loop. The
  timer is armed or nil. Backoff is in units of a second; `Exponential` gives
  every value that doubling and a factor in [0.5, 1.5) can reach.
- **EurekaRegistrar, EtcdRegistrar.** The remote service is one bit. A call to
  it may fail with or without its effect, and the bit may be lost at any time.
  The etcd goroutine reads `r.quit` at the start of each select, without the
  mutex: the read is a single machine word and sees the last value written.

- **Instancers.** The registered instances are a version number that each
  change increments: two reads agree iff no change lies between them. `cache` is
  the last event given to the instance cache (whose delivery is
  `InstanceCache`'s business), `pc` the point of the constructor or the loop.
  A behaviour is about one `kind` of instancer. Consul's `query` is the answer
  in the channel of the latest query goroutine. The etcd modules have the
  WatchPrefix goroutine as `watch` and what the server has for it as `events`;
  `gap` is a change that fell between etcd's first signal and its first `Next`
  and that no read has seen yet, `closed` a watcher that the registrar of the
  same etcdv3 client has closed. zk's `eventc` is the channel the loop listens to. A zk `GetEntries` is
  two steps: the list with its watch, then the children, which an outage in
  between leaves out.
- **AtomicMetrics, LabelSpace, MetricsFlush.** A float is the set of updates it
  sums, so conservation is a statement about sets; a compare-and-swap is a load
  and a conditional swap, each one step. An observation is two steps: `nodeFor`
  under the space's lock, the append under the node's, and a `Reset` may come
  between. Each backend is three tables: what its metrics' methods call, the
  sections of its `WriteTo` with what they write and whether their error is
  checked, and whether lines are written one by one or collected. Writes,
  points and requests may fail at any time. influx's batch configuration is
  taken to be valid: with one that `NewBatchPoints` refuses, no `WriteTo` would
  ever get to its first section.
- **Transports.** Each layer is the sequence of its stages; a goroutine is a
  stack of frames with their deferred calls, so early returns, `defer` order and
  panics come out as in Go. `w` is what the request has done to the outside: the
  code and body sent, what the error handler, breaker and finalizers were told,
  spans, the response body and the context of the client. Breakers, finalizers
  and spans are counted per layer: a chain may have two breakers or two
  `TraceEndpoint`. Every stage that returns an error may fail, and code of the
  user may panic in every stage that runs it (`UserCode`); error handlers, error
  encoders and finalizers are taken not to. A server's encoder that fails or
  panics may have written nothing, the header or the answer (`PartlyEncoded`).
  Hystrix runs the rest of the chain in a second goroutine and may give up on it;
  `LayersAssumption` allows one Hystrix in a chain, since there is one second
  goroutine.

## Runs

| run | bounds | states | shows |
|---|---|---|---|
| `endpoint_cache` | lists `<<>>`, `<<1>>`, `<<2,1>>`, two errors, two readers, four handles, time to 4, timeout 2 | 506k | all safety properties of the cache |
| `endpoint_cache_duplicates` | lists with a repeated instance | violation | the lost closer |
| `instance_cache` | two endpointers, four events, one of them a reordering of another | 8.6k | refinement of the contract, safety, liveness |
| `retry` | two calls, max 2, at most 3 attempts, lists up to 3, counter of 2 bits | 747k | accounting, no stuck goroutine, no lost outcome, evenness, termination |
| `conn_manager` | four connections, two writers, two dial goroutines, backoff up to 3 | 45k | safety, backoff, liveness |
| `conn_startup` | same | violation | the closed connection that is lent again |
| `eureka_registrar` | two callers, two goroutines | 216 | safety and liveness |
| `etcd_registrar` | one caller, two goroutines, three channels | violation | the goroutine that goes on after Deregister |
| `instancers` | six kinds, three changes, two faults | 80k | no change missed by a live watch or a query that blocks, catching up, Stop |
| `instancers_recover` | zk alone, same | violation | an error that is the last event |
| `metrics_flush` | six backends, two goroutines, two updates, one name with two label sets, a counter, two gauges, batches of one, one request at a time | 454k | conservation, no update overlooked, lost or repeated; reporting |
| `transports` | five servers, six chains, four clients, traced or not, buffered or not | 70k | answers, spans, breakers, release |

Why the bounds are enough to meet the interesting cases: two readers are needed
for one to invalidate in the other's upgrade gap, and time runs past a deadline
and into a second outage; `<<2,1>>` is unsorted and, after `<<1>>`, has a
survivor and a newcomer; two subscribers let one close while the broadcast waits
for the other; three attempts reach beyond `max = 2` on either side, and two
calls drive a 2-bit counter through a wrap with lists whose length (3) does not
divide it; two writers make a stale `Put`, and a second dial goroutine and four
connections leave room for a spare dial, had it been possible. A second
heartbeat goroutine is available in the registrars, so `OneLoop` is not a
consequence of the bound. Three changes let one fall before, during and after a
read, and two faults an outage and a restart of Consul's index or a second
outage. Two updates are enough for a lost compare-and-swap, an append after a
reset, and two datums that must be split over two requests of one place; two
gauges let one fail while the other is still to be read. The chains of
`transports` have each middleware once and a breaker with something on either
side of it; servers, clients and middlewares keep nothing between requests, so
one request is all there is.

`instancers`, `metrics_flush` and `transports` switch deadlock checking off: a
stopped instancer, a cancelled WriteLoop and a finished request have nothing
left to do.

`TypeOK` appears as an invariant where it says more than types: in `conn_manager`
it bounds the backoff. The other modules' are proved (`CacheTypes`,
`DeliveryTypes`, `RetryTypes`).

### Fairness

- Goroutines that can run do run (weak fairness); an action that waits for a
  mutex has strong fairness, because `sync.Mutex` hands over to a waiter that
  has starved for a millisecond; a `select` that keeps finding a case ready
  takes it in the end (strong fairness), because Go chooses at random.
- `InstanceCache`: that `Handle` ends assumes a factory that returns.
- `Retry`: only the call's own goroutine and its timer are fair. Nothing is
  assumed of endpoints, which may hang for ever.
- `ConnManager`: timers fire, dials and writes end; for `Reconnects`, dials
  repeated for ever do not all fail.
- `EurekaRegistrar`: calls end, and repeated re-registrations do not all fail.
- `EtcdRegistrar`: the same, and keys with a TTL expire. The counterexample
  is a loop of fair steps: a heartbeat goroutine that nobody can stop.
- `Instancers`: loops, the watch goroutine, tickers and Eureka's poller go on; a
  Consul query is answered in the end, because its wait has a limit. A closed
  quit channel is one ready case of a `select` that may have others (strong
  fairness of `Quit`). Nothing is assumed of the backend: `CatchesUp` is about
  behaviours in which it stays up.
- `MetricsFlush`: the goroutine of WriteLoop runs, its ticker ticks, writes and
  requests return. Nothing is assumed of the goroutines that update metrics.
- `Transports`: goroutines run, remote calls return, and a caller that got an
  open body closes it, as BufferedStream's documentation asks. Only the HTTP
  client hands its body out, so nobody closes the JSON-RPC client's.

## Findings

1. `sd/endpoint_cache.go:92`: an instance listed twice gets two endpoints, and
   the closer of the first is lost.
2. `sd/zk/instancer.go:62`: after a `GetEntries` that fails, the loop listens to
   a nil channel; the error is the last event until Stop, although
   `sd/instancer.go:10-11` asks for another one when the connection is back.
3. `util/conn/manager.go:96`: a write that fails before the loop has received
   its own first connection makes it current again after it was closed; the
   reconnect is cancelled. The next failing write repairs this, so the damage is
   one more failed write, which is why `Reconnects` still holds.
4. `sd/etcd/registrar.go:99`: Deregister during a heartbeat, or before the
   goroutine has made its channel, leaves a goroutine that sets the key for
   ever. Beside it, line 86 returns with the mutex held after a second
   Register, and every later Deregister blocks.

Met while modelling, described by the model and excepted by name in the
properties, without a run of their own:

- `sd/lb/retry.go:98`: a context that ends yields its own error, not the
  `RetryError` that lines 12-13 promise; the repository's test expects it so.
- `sd/consul/instancer.go:76-80`: an error is pushed and `lastIndex` kept, so the
  query after the recovery blocks until a change or the end of its wait while
  the subscribers hold the error (the `Failed` of `LastIndexCovers`). An index
  that restarts and has caught up with `lastIndex` before the answer blocks
  likewise.
- `sd/zk/client.go:225`: a child whose `Get` fails is left out of an otherwise
  good list (`Partial`), until the next change.
- `sd/etcd/client.go:142-145`: the watch reaches the server with the first
  `Next`, after the signal that makes the loop read; a change behind that read
  and ahead of `Next` is not seen (`gap`). A watch that ends is never made again.
- `sd/etcd/client.go:143-148`, `sd/etcdv3/client.go:156-161`: after Stop nobody
  receives the signals, so the WatchPrefix goroutine blocks in its next send.
  `StopEnds` speaks of the loop (and Consul's query), not of it.
- `sd/etcdv3/client.go:180-182`, `249-259`: Register and Deregister close the
  watcher of an instancer with the same client (`closed`).
- `transport/http/server.go:177-181`: `EncodeJSONResponse` fails after its
  header; the client keeps the first code, the finalizer gets the second
  (`HalfWritten`). An encoder that panics when it has written leaves a partial
  answer (`CutShort`).
- `transport/http/jsonrpc/server.go:93-98`: a request that is not a POST gets its
  405 before the finalizer is deferred and without a word to the logger; line 85
  calls the finalizer "executed at the end of every HTTP request" (`Refused`).
  The properties demand nothing of a finalizer for it.
- `transport/http/jsonrpc/server.go:171`: the error of the last encoder is
  discarded; a result that cannot be marshalled is answered with an empty 200,
  and no logger is told (`Unwritten`).
- `transport/http/client.go:148-151`: with BufferedStream, a decoder that fails
  leaves the body open and the context uncancelled, and so does a Hystrix
  timeout. The JSON-RPC client never returns the body, so with BufferedStream it
  stays open on success too (`jsonrpc/client.go:196-222`; `BodyLeft`), with its
  context cancelled (line 142), although the option's comment says "allowing it
  to be read from later" (lines 135-136).
- `transport/http/client.go:118-128`: no cancel is deferred before there is a
  response; a panic of a function that makes the request leaves the context
  live (`NoCancel`).
- `tracing/zipkin/http.go:96-110`, `grpc.go:86-100`: a client that fails before
  its own span is started finishes and sends its caller's (`Borrowed`).
- `circuitbreaker/handy_breaker.go:26-32`: a panic is reported as a success.
- `metrics/internal/lv/space.go:20-22`: an observation whose node was reset and
  walked before the append is lost (`Late`).

## Proofs

All are by TLAPS, for every value of the constants that satisfies the named
assumptions of the modules.

- **EndpointCacheProofs.** `SafetyForAllLists` needs no assumption on lists:
  `TypeOK`, `ServedAreOpen` and `ClosedOnce` are inductive only together (no
  handle above `made` exists, so new handles are fresh; what is in the cache is
  open, so closing a leftover is its first close; the cache is injective, so a
  leftover is not also a survivor). `SortedList` and `NewCacheEntries` say what
  the sorted list and the new map contain, and `UpdateCacheSafe` carries the
  invariant through `updateCache`. `EndpointLifetimes` proves `NoLeak` and
  `SurvivorsPersist` from `DistinctLists`, the condition whose absence is
  finding 1; `SurvivorsKept` states the second by itself. `OutageIsHonoured`
  relates `err` and `deadline` to the history variable `outage` (`OutageTracked`).
- **InstanceCacheProofs.** The invariant says who owns the mutex in which state
  of an endpointer and that a channel on the work list has a receiver
  (`Protocol`), and that those not on it have been sent the current state
  (`Caught`). `DeliverySafe` follows, and
  `Refinement` maps the work list and the event in the receive goroutine's hands
  to the contract's queue: `Update` is `Publish`, `RegisterLock` is `Subscribe`,
  `Handle` is `Apply`, sends and lock steps stutter. `Concatenations` are the
  facts about short sequences it needs.
- **RetryProofs.** The invariant of one call (`CallOK`): attempts come in turn,
  at most the current attempt's outcome waits in the channels, the errors
  collected are those of the attempts before it, and `max` has not been passed.
  The bound `MaxRetries = 0`, which still makes one attempt, is covered here and
  not by the run. `RetrySafe` concludes `SendNeverBlocks` and
  `ReturnAccountsForAttempts`, and `OutcomesAreNotLost` that a call in its select
  has an attempt under way or an outcome to take. The balancer has an invariant of its own (`BInv`):
  a goroutine between reading the list and drawing holds the present list unless
  it has changed (`PickersOK`), and `RoundRobin` makes `EvenPicks` exact: within
  a round of the list only the endpoints that had their turn are ahead, and each
  wrap of the counter may put one more ahead. A draw is then one of two cases,
  `c + 1 < 2^W` and the wrap. `RetryTypes` and `BalancerIsEven` follow for every
  width. `2^W \in Nat \ {0}` is part of `BoundsAssumption` because the provers
  know nothing of powers; the code has `W = 64`.
- **ConnManagerProofs.** `ManagerSafe` proves the three invariants, made
  inductive by what idle dial goroutines, idle writers and the time before the
  first dial look like; `raced` marks finding 3, after which a timer may
  be armed while a connection waits in `connc`. `BackoffIsMonotone` is the
  action property, from the bounds of `Exponential`.
- **EurekaRegistrarProofs.** `Handshake` says what the goroutine can be doing
  for each program point of the caller that holds the mutex; `OneLoop` and
  `DeregisterSticks` follow, and so does `DeregisterIsServed`, the safety part of
  `CallsReturn`: only the holder of the mutex can be sending or waiting, so the
  one goroutine there is belongs to it.
- **InstancersProofs.** `WInv` strengthens `WatchCoversChanges`, which speaks of
  a loop at rest, to every point from the read to the push: with a watch that is
  open, or about to be opened with nothing missed, what was read last is what is
  registered (`EtcdCurrent`, `ZkCurrent`), and the watch goroutine starts only
  when the constructor is through (`WatchStarts`). There is one lemma for each
  group of steps. `EurekaStopFinal` needs only that Eureka's loop has ended when
  its Stop returns. `LastIndexCovers` has an invariant of its own
  (`ConsulCurrent`): until the server's index starts anew, an answer carries the
  index of its list and `lastIndex`, unless 0, that of the list last pushed. No
  bound on changes or faults is used.
- **MetricsFlushProofs.** The invariant (`AInv`) says of every goroutine in the
  middle of an `Add` that its update is not yet in the word or among those
  taken, and that no two goroutines have the same update; with it, a successful
  swap adds exactly one update and a successful reset moves all of them.
  Conservation follows for any number of goroutines, counters and updates, and
  for `MetricsFlush`'s whole specification, since no other step touches the
  words. The gauges' half of the invariant says who has still to touch a gauge
  whose word differs from what was last read.
  For the flush, `SInv` says that a node is the root of one name, or waits to be
  walked, or is retired (`RootsApart`), that an update is in one list of the
  heap or in one counter, and an observation before its append in neither
  (`OnePlace`, `Pending`), and where in its sections the WriteLoop goroutine is
  (`Control`); `RInv` that what can still be reported (`Unreported`: from a word,
  a live node, a batch, an open request) has not been, and that no two lines
  share an update (`LinesApart`). cloudwatch2's split of its datums into requests
  is a partition (`BatchesPartition`), proved from the arithmetic of its slices.
  `TablesAssumption` names the backends and the kinds of metrics the tables
  speak of. `NoUpdateTwice` is `ReportedOnce`; `OnlyLateAppendsLose` is
  `LostOnlyLate`, an action property: `LostByAppend` follows each step from the
  invariants before and after it.
- **TransportsProofs.** For every server, every chain with at most one Hystrix,
  every client. `RequestShape` is the ground of the rest: `Types`, `Shape` (the
  stacks are runs of consecutive layers, each caller in its call; the layers of
  `run` follow Hystrix) and `Ahead` (no layer beyond one that has not called yet
  has been touched). Each action is first shown to have one of seven effects on
  its stack (`Advance`, `GiveUp`, `Push`, `PopDefer`, `End`, `Drop`, `Resume`), so
  that invariants are shown per effect and not per stage. On that:
  - `BreakersAreTold`. `ToldOK` relates what a breaker was told to the outcome of
    the layer it wraps, `ReportsOK` says for each frame whether the report of the
    handy breaker is still to be deferred, deferred, or made.
  - `OneAnswer` is about every finished request, with the exceptions
    `AnsweredOnce` names: the 405, which no finalizer sees, a JSON-RPC result that
    cannot be marshalled, an HTTP encoder that fails half way, one that panics.
    `ServerOK` follows the server's frame: nothing written and the finalizer
    deferred from its stage on (`ServingOK`), refused with a 405 (`RefusedOK`), or
    answered with the finalizer still to run or run (`UnwoundOK`). Layers inside, and the goroutine that Hystrix gave up on,
    cannot disturb it.
  - `SpansGoOutOnce`. `Ledger` balances, per layer, how often its span was sent
    against its finish, its finalizer and whether the client has borrowed it;
    `Tracing` says what a frame has still to do: the finish of `TraceEndpoint`
    deferred once and only there, the finalizer of a traced layer in the deferred
    calls exactly once or already run. That the client borrows at most one span,
    and once, comes from the client being the last layer and its finalizer
    running once. A step starts, finishes or flushes a span or leaves all alone
    (`StepSpans`), and each of the four keeps every ledger. A before or after stage
    that panics may have started or finished its span, with the finalizer that
    sends it deferred already (`PanicSpans`).

Only model-checked: all liveness properties (TLAPS does not prove liveness
under fairness here) and the violations. The safety that termination rests on
is proved: someone is always there to do what a goroutine waits for
(`DeregisterIsServed`, `CallIsServed`, `SendsHaveReceivers`, `NeverStranded`).
Every invariant and action property of the passing runs is a theorem.

## Not modelled

- Text: error messages, logging, the formats of metrics; headers, claims, tags.
- Forwarding without state or order of its own: the metrics adapters (`expvar`,
  `prometheus`, `pcp`, `multi`, `discard`, `provider`, `timer.go`), the request
  and response functions of the transports, options that set a field.
- Construction of clients (`NewClient` of etcd, etcdv3, zk) and what happens in
  third-party libraries: etcd's keep-alive, zk's session, when a circuit opens,
  histograms' quantiles.
- The gauges' tree of label values in dogstatsd and influxstatsd, and label
  values built with `With`, whose `append` may share an array between two
  metrics (`metrics/internal/lv/labelvalues.go:9-14`).
- Data races whose outcome Go does not define: `sd/lb/random.go`'s random source
  and `FixedInstancer`'s shared slice.
- A factory that never returns, or a caller that uses an endpoint which the next
  update closes: the code sets no limit on either.

What would come next: the composition of `EndpointCache` and `Retry`, in which
a caller holds an endpoint that the next update closes.
