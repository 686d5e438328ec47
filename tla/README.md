# Verification of the telecom platform

TLA+ models of the platform's services, the TLC runs that check them on small
instances, and the TLAPS proofs of the properties that matter most. Every
definition is translated from the code under `src/`; `PROJECT.json` names, for
each definition, the lines it stands for, and lists the hazards the properties
are for. Paths below are relative to `src/apps/` unless they start with `src/`.

1. The system
2. The models, one by one
3. The runs: what they check, their bounds, the fairness assumed
4. The proofs
5. What is only model-checked, and what is not modelled
6. Where the code differs from what is said of it
7. Plan

## 1. The system

The platform is a monorepo of services that share Redis and PostgreSQL.

| part | state it keeps | operations | interacts with |
|---|---|---|---|
| charging-engine (Rust, `charging-engine`): credit and blocks | Redis `credit:{ip}`, `block:{ip}` | check, add, deduct credit; block, unblock; sweep of the block keys | HTTP handlers and background loops share the keys |
| charging-engine: accounts | Redis `account:{imsi}`, `usage:{imsi}:{session}`, `last_monthly_fee` | process a usage event, replace an account, monthly fees | every writer writes the whole account |
| charging-engine: bundles in PostgreSQL | `subscriber_bundles`, `usage_records` | activate, deduct, mark expired, charge a usage event | the usage pipeline, an expiry task |
| charging-engine: airtime and bundles in Redis | `airtime:home:{imsi}`, `bundle:active:*`, their set; audit rows in PostgreSQL | add and use airtime; buy, give, activate, consume, deactivate a bundle | both stores, in a chain of calls |
| charging-engine: circuit breaker | state, count, time of the last failure, each behind its own lock | execute, reset | concurrent requests |
| packet-gateway (eBPF C and Rust, `packet-gateway`) | eBPF maps: credits, block list, byte counters | filter, count and charge a packet; copy credits and blocks from Redis; report; clear | CPUs and user space share the maps |
| api-server (Go, `api-server`): subscribers and payments | PostgreSQL `subscribers`, `transactions`; Stripe's payment intents | top-up, refund, webhooks; suspend, terminate, update; authentication vectors | Stripe, its redelivered events, the database |
| api-server: circuit breaker | state, two counts, time of the last failure, under a mutex | execute, reset | the Kubernetes client |
| api-server: enrolment | PostgreSQL `imsi_allocations` (one row), `subscribers` | allocate a number, insert a subscriber, start again | concurrent creations |
| api-server: alerts and WebSocket hub | alerts, the hub's map of clients, a channel and two goroutines per client | evaluate the rules, broadcast, register, unregister, read, write | health checks, connections |
| api-server: chaos experiments | a list of experiments, by an id made of the second, under a mutex | begin, run, end, list | a goroutine per experiment, requests |
| api-server: users and sessions | PostgreSQL `users`, `auth_sessions` | register, log in, refresh, log out, change the password; edit and delete users | concurrent requests, operators |
| api-server: the rest | permissions, caches, rate limits, payment methods; rows of plugins, automations, deployments, configuration and invoices | see section 5 | Redis, Kubernetes |
| carrier-connector (Go, `carrier-connector`): eSIM profiles | PostgreSQL `esim_profiles`, a cache in the memory of each replica | order, look up, update, delete; expiry of the cache | SM-DP+ servers, other replicas |
| carrier-connector: rate plans | PostgreSQL `rate_plans`, `rate_plan_subscriptions`, `rate_plan_usage` | subscribe, cancel, record usage, delete a plan | concurrent requests |
| carrier-connector: tenants | PostgreSQL `tenants`, `tenant_users` | create, update, delete a tenant; add a user | concurrent requests |
| carrier-connector: circuit breaker | state, two counts, time of the last failure, under one lock | execute, with and without a fallback | concurrent callers; nothing creates one |
| carrier-connector: SM-DP+ downloads | the carriers with their health and metrics, under one read-write lock | download with retries and failover; add, replace, remove and check carriers | SM-DP+ servers, concurrent downloads |
| carrier-connector: ids | the time and the number of the last id, under a mutex | generate | the wall clock; rules, MVNOs, usage rows, events and keys take one (plans, profiles' subscriptions and tenants take a uuid) |
| carrier-connector: the rest | tenant rate limits, MVNO provisioning, scores of a selection, pricing, currencies, compliance, branding, analytics | see section 5 | PostgreSQL, RabbitMQ, webhooks |
| TypeScript SDK (`src/sdk/typescript`): WebSocket client | its socket, a flag, a count of attempts, timers, an interval | connect, disconnect; open, error and close events; reconnect; ping | the application, the browser |
| web dashboard (`src/apps/web-dashboard`): WebSocket service | one service for all pages: socket, flag, count, timers | created on first use, reconnects by itself and by a button | pages, the browser |
| CLI, dashboard pages, SDK requests, Terraform provider | none but a token | clients of the api-server | |

### Behaviours that are hard here

* Redis and PostgreSQL are shared by every replica and every handler. A handler
  reads, awaits, and writes: between two commands any other handler, a
  background loop or the expiry of the key may run.
* Background loops run beside the handlers, and `POST /v1/sync/start` starts
  another one each time.
* One operation spans several stores (airtime in Redis, the bundle in Redis,
  the audit row in PostgreSQL) with no transaction across them, and most errors
  on the way are either ignored or end the operation half done.
* Clients disconnect: axum then drops the handler at the await it is at.
* Stripe delivers an event until it is acknowledged, before, after or while the
  synchronous answer of the same payment is processed.
* Results of calls through a circuit breaker arrive late and in any order.
* CPUs run the packet filter on the same maps without locks.
* Caches are invalidated in one replica only.
* gorm's `Save` writes every column of a row, and inserts the row if it is gone.
* What a query found is acted on after it was answered, with neither a
  transaction nor an index behind most checks.
* Goroutines meet over channels that close, and a broadcast does not wait.
* A lock is held for reading across calls that take it for writing.
* Browsers deliver the events of a socket after the page has replaced it, and
  timers run after what they were set for is over.

### What makes each part correct

* credit: concurrent deductions overdraw a balance by a bounded amount; what a
  negative balance can and cannot do afterwards;
* blocks: every block ends, and a confirmed unblocking unblocks;
* breakers: no call while open before the timeout, a failed trial reopens, they
  close when calls succeed and open when they fail;
* accounts: no usage nobody recorded, no fee nobody took, every month marked;
* bundles: an allowance is never overdrawn nor used after its row is closed,
  the status of a row agrees with what remains, records match deductions;
* airtime: all of it is accounted for, to the unit; who pays gets the bundle;
* payments: a payment is credited at most once, and only if Stripe has the money;
* subscribers: money and sequence numbers survive concurrent writers;
* packet filter: a blocked address is cut off, counters never over-report;
* profiles: a completed write is seen, no cache stays out of date for ever;
* enrolment: no number is given to two subscribers;
* alerts: the alert follows its condition, every client is shown what it is;
* rate plans: one active subscription per profile, no usage lost, no plan
  deleted under its subscribers;
* tenants: an update lasts, a deleted tenant stays deleted, no user twice;
* experiments: one that runs is listed, one that has ended is not;
* ids: no two are the same;
* downloads: each ends, a carrier that fails too often is used no more;
* WebSocket clients: one connection, kept alive while it is open, and one again
  after it is lost.

## 2. The models

Each module models one component; its VARIABLES are the stored state, the place
of each handler between two calls to a store, and history variables (said to be
so in their comments) that properties need. One action is one atomic call:
a Redis command, an SQL statement, a lock held, a map access. Names are the
code's where TLA+ allows. A definition whose comment begins with "mutant" is a
plausible bug in the definition that follows it; no specification uses it.

**CreditControl** (`charging/credit_management.rs:8-92`, `handlers/credit.rs`).
`credit:{ip}` with its value and whether it has a TTL. `deduct_credit` is GET
(`DeductRead`) then DECRBY (`DeductDecr`); `add_credit` is GET, INCRBY, EXPIRE
(`AddRead`, `AddIncr`, `AddExpire`); the GET of a deduction reads the value as
u64 (unreadable: 0), that of a top-up as an optional u64 (unreadable: an error).
`KeyExpires` is Redis's, `Abandon` a dropped or failed request, which is also
what a refusal by the circuit breaker around these calls comes to. Redis's limit of
an i64 is the constant `MaxInt64`.

**BlockControl** (`credit_management.rs:94-165`, `monitoring/sync.rs:9-74`,
`handlers/block.rs`). `block:{ip}`: absent, held without a TTL, or expiring.
`block_user` is GET, SET, EXPIRE whose error is ignored; the sweep is KEYS, TTL,
DEL, any of which can fail. `unblock_user` works on `blocked:{ip}`, which nothing
writes.

**Breaker** is what a circuit breaker promises, whatever it counts.
**ApiBreaker** (`api-server/internal/circuitbreaker`) is the api-server's:
`Admit` decides under the mutex, `Fail` and `Succeed` record the result under it,
and any number of calls are outside of it in between. It implements Breaker
(`INSTANCE Breaker WITH due <- lastFailure = "past"`).
**EngineBreaker** (`charging-engine/src/circuit_breaker.rs`) has one step per
lock taken, because state, count and time have locks of their own: `on_failure`
alone holds the count's across others (`CountFree`). `Drop` is the dropped
future, `Reset*` the three locks of `reset`. It implements Breaker for one call at a
time, and not for two: see `engine_breaker_hold`.
**CarrierBreaker** (`carrier-connector/internal/infra/circuitbreaker.go`) is the carrier
connector's: who finds the circuit open and its timeout over gives up the read
lock (`Allow`), takes the write lock and moves to half-open whatever the state
has become (`Try`). `RecordFailure` and `RecordSuccess` are one step each.

**BundleCharging** (`charging/bundle_repo.rs`, `usage_pipeline.rs`,
`bundle_expiry_task.rs`). The rows of one subscriber in the order the pipeline
tries them; an event selects (`Select`), deducts by the conditional UPDATE
(`Deduct`), falls back (`FallBack`) and records (`Persist`); rows fall due at any
time and the task closes them (`ExpireStale`). Events fail or are dropped
between any two statements (`GiveUp`). Allowances and volumes are any u64 and
are stored with `as i64`: the pipeline compares what it read as u64
(`HasAllowance`), the UPDATE compares and subtracts as BIGINT (`Usable`, `Take`),
and a difference out of range fails the statement. `row_to_active_bundle`, which
reads the rows back, is defined nowhere; it is taken to convert `as u64`, as the
other readers of these columns do.

**BundlePurchase** (`charging/bundle_service.rs`, `airtime_service.rs`,
`handlers/bundles.rs`, `handlers/airtime.rs`). Airtime, the bundle keys with
their TTLs, the set of active bundles and the audit ledger. A purchase is pay,
configure, check, activate, record; consumption is the set, the bundles, choose,
then untrack or write back. Activations are numbered, so that a bundle knows
which one it is from; `over` are those whose expiry has passed.

**SubscriberAccount** (`api-server/internal/payment`, `services/subscriber_*.go`,
`database/crud.go`). One row (status, balance, sqn); top-ups and refunds change
`balance` in place, the authentication centre `sqn`; suspend, terminate and update
read the row and save all its columns. Stripe is the environment: intents
settle, fail, and their events are redelivered until acknowledged. The
`payment_intent.succeeded` handler ends in a failed type assertion
(`webhook_handlers.go:22`), so it never credits.

**PacketFilter** (`packet-gateway/src/ebpf/packet_filter.c`, `redis_sync.rs`,
`ebpf.rs`, `main.rs`). Every CPU takes a packet through the program, one map
access per step; user space writes credits and blocks at any time while it runs
and clears the counters when it stops, with the program still attached. The
first synchronisation comes after the attachment, so initially the maps are empty
and packets arrive. `UsageData` is what a report holds.

**AccountCharges** (`charging/rating_billing.rs`, `monitoring/sync.rs:76-151`,
`handlers/subscriber.rs`). Accounts as they are stored; usage tasks, fee loops
and PUT interleave command by command; a command that fails may have taken
effect; the clock moves to the next month at any time.

**ProfileStore** (`carrier-connector/internal/repository/cached_profile.go`,
`postgres.go`, `handlers/profile_handlers_*.go`). Rows of `esim_profiles`, and of
every replica the cache and its requests. A lookup reads the row without the
cache's lock and then fills the cache; writes change the row and then remove the
entry of their own replica, unless the statement, or the read-back of an update,
failed. Entries grow old at any time, the ticker removes the old ones, and a
replica can be restarted.

**Enrollment** (`api-server/internal/services/subscriber_imsi.go`, `subscriber_crud.go`,
`database/database.go`). The counter is read (`GetIMSIAllocation`), saved whole
(`UpdateIMSIAllocation`), and the subscriber inserted under the unique index
(`InsertSubscriber`); creations fail anywhere and the server starts again.

**AlertHub** (`api-server/internal/monitoring/alerting.go`, `health.go`,
`websocket/handler.go`). The loop of the alert manager evaluates a rule, changes
its alert and broadcasts (`Evaluate`); the hub takes the message, or was busy and
it is lost. A client has a channel of `Capacity` messages (256 in the code), a
connection, and the goroutines `readPump` and `writePump`; a client whose channel
is full is forgotten by the hub, which closes the channel.

**ChaosExperiments** (`api-server/internal/services/chaos.go`, `handlers/platform_chaos.go`).
A request lists an experiment under its second (`RunExperiment`); its goroutine runs
it (`Execute`), then takes what is listed under that id off the list (`Forget`). A
load ends early when the request returns (`RequestReturns`), as its context is the
request's.

**AuthSessions** (`api-server/internal/services/auth.go`, `handlers/auth.go`,
`middleware/auth.go`). One user and the rows of its sessions; every query is a step.
A login reads the user (`Login`), signs the tokens (`Issue`) and inserts the session
(`CreateSession`); a refresh finds the session (`Refresh`) and the user, deactivates
the old session (`Retire`), whether or not that works, and goes on as a login does. A
token is the second it was signed in. `UpdatePassword` and `InvalidateAllUserSessions` are
the two queries of a change of the password; `SaveUser` writes the row an operator's
request has read before (`ReadUser`). A session carries, as history, the login it comes
from, that login's password, and whether a request for it went on while all were ended
(`overtaken`). A session that is not active never is again, so its row is left out.

**Snowflake** (`carrier-connector/internal/id/snowflake.go`). An id is the time, the node
and a number, each a digit of one integer (`Id`); `Generate` is one step under the
mutex unless the numbers of a millisecond are used up, when it waits
(`GenerateInNext`). The clock moves on or is set back, and processes restart.

**RatePlans** (`carrier-connector/internal/services/service_subscription.go`,
`service.go`, `repository/repository_rateplan*.go`, their handlers). Three
tables; each request is a chain of queries, each a step: `SubscribeToPlan`,
`CancelSubscription`, `DeleteRatePlan`, `RecordUsage`.

**Tenants** (`carrier-connector/internal/services/tenant_core.go`,
`tenant_user_methods.go`, `repository/tenant_repository*.go`). A creation looks
up the domain, inserts the row and saves it again with its configuration; an
update reads the row, sets the fields it was given and saves all of it. `Save` is
an UPDATE and, if that met no row, an INSERT (`UpdateTenant`, `Reinsert`).

**CarrierFailover** (`carrier-connector/internal/smdp/operations.go`, `manager.go`,
`health_checker.go`). A download selects a carrier, gets its client, calls it
and reports (`SelectCarrier`, `GetClient`, `CarrierAnswers`,
`UpdateCarrierMetrics`), again up to `MaxRetries` times, and then fails over.
`handleFailover` holds `carriersMutex` for reading from `BeginFailover` to its end
(`InFailover`), while its calls report under the same lock for writing: who may
take the lock is `Writable` and `Readable`, with Go's rule that a waiting writer
stops new readers. Checks begin in rounds, ask (`CheckCarrier`) and update
(`UpdateCarrierHealth`) the carrier as it is by then.

**WebSockets** is the browser's side of a socket: `Dial`, `Hangup`, and the states
between which its events move it. **SocketClient** (`src/sdk/typescript/src/websocket.ts`)
and **DashboardSocket** (`web-dashboard/src/lib/websocket.ts`,
`hooks/use-websocket.ts`) use it; each handler of an event, each timer and each
call of the application is one action, since JavaScript runs them one at a time.
SocketClient's `timers` counts the reconnections that are scheduled, and `leaked` says
that an interval is lost; DashboardSocket's `ForceReconnect` is the button, and its service connects
again by the close event of the socket it hung up (`ServiceCloses`). It implements
**Reconnector**, what a service that keeps up a connection promises; the client of
the SDK does not: after a `disconnect` that crosses a connection it pings and connects
on behalf of the wrong socket.

Components of one service that share no state are checked by one run: the
modules `MCChargingEngine`, `MCMetering`, `MCControls`, `MCApiServer`,
`MCCarrierConnector` and `MCReconnections` extend theirs and have a variable
`part`, chosen in the initial state. A behaviour is one of the part it names, and
the variables of the others stay at an initial value. So the states of a run
are the sum of those of its parts, never their product. Fairness is stated for
the part that is chosen, or for all: the actions of the others are never
enabled. The runs that expect a violation check the component's own module,
`settled_credit` excepted, whose `MCSubscriberAccount` adds the fairness of the
environment.

`MCMetering` has a `VIEW`: it hides what a CPU has in its registers and does not
use any more, and replaces the sums of history that `AirtimeAccounts` and
`UsedIsDeducted` compare by their differences, which is all these read of them.

The components share no state in the models: the engine's keys of one prefix
are used by one component, and where the packet gateway reads Redis it reads
keys (`user_credit:`, `blocked_user:`) the engine does not write.

## 3. The runs

| run | checks | instance | distinct states |
|---|---|---|---|
| `charging_engine` | `UsageRecorded`, `BalanceExplained`; `OverdraftBound`, `DebtIsNotToppedUp`; `StatusTells`, `Reconciles` | accounts: 1 account, 1 usage task, 2 loops, 2 months, 1 PUT, 1 fault; credit: 3 handlers, requests of 1 or 2 bytes, limit 2; rows: 2 events of volume 0, 1, 2 or 4, 2 rows, a hybrid bundle, an unlimited one and one of 0, BIGINTs up to 2 | 3.5 M |
| `metering` | `AirtimeAccounts`, `UsedIsDeducted`, `RunningIsTracked`, `DeadForEver`; `BlockCutsOff`, `NeverOverReported` | purchases: 2 requests, 1 bundle of 2 units, 2 units of airtime, 2 activations; filter: 2 CPUs, 2 addresses, 3 packets | 2.5 M |
| `controls` | `ImplementsBreaker`, `Recovers`; `EngineRecovers`, `TripsUnderFailure`; `CarrierRecovers`; `BlockEnds` | the api-server's breaker: 3 calls, thresholds 2 and 2; the engine's: 2 calls, threshold 2; the connector's: 3 callers, thresholds 2 and 2; blocks: 2 handlers, 2 loops | 17 k |
| `api_server` | `CreditedOnce`, `LedgerAgrees`, `SqnFresh`, `FailureReachesRow`; `RefusedOnlyAfterOverlap`; `ViewAgrees`, `LeftIsForgotten`, `AlertFollows`; `RunningIsListed`; `ChangeEndsSessions`, `OneSessionEach` | the row: 2 requests, one of them a creation, 1 delivery, 1 payment of 2, 2 vectors; enrolment: 2 creations, 4 numbers; alerts: 1 check, 1 client, a channel of 2; chaos: 2 experiments, 2 seconds; sessions: 2 requests, 2 rows, 2 seconds, 2 logins, new passwords or edits | 758 k |
| `carrier_connector` | `WritesSeen`, `FreshInTheEnd`; `OneActive`, `UsageKept`; `UpdatesHold`; `IdsDiffer` | 1 profile, 2 replicas with 2 requests each, 4 requests, 1 fault; 2 plans, 1 profile, 2 requests, 2 subscriptions, 2 usage records; 2 tenants, 1 domain, 1 user, 2 requests, 2 changes; ids: 3 milliseconds, 3 numbers in each | 2.1 M |
| `reconnections` | `SpentStays`, `DownloadsEnd`; `OneConnection`; `ImplementsReconnector`, `ComesBack` | downloads: 2 carriers, 2 downloads, 1 retry, failover on, as both configurations in the code have it; SDK: 3 sockets, 2 attempts; dashboard: 2 sockets, 5 attempts | 789 k |
| `block_unblock` | violates `UnblockLifts` | 1 handler | - |
| `engine_breaker_hold` | violates `OpenHeldForTimeout` | 2 calls, threshold 1 | - |
| `settled_credit` | violates `SettledIsCredited` | 1 request, 1 delivery, 1 payment | - |
| `rate_plan_delete` | violates `DeleteProtects` | 2 plans, 1 profile, 2 requests | - |
| `failover_ends` | violates `FailoverEnds` | 2 carriers, 1 download, 1 retry | - |
| `sdk_disconnect` | violates `StaysDisconnected` | 2 sockets | - |

The type invariant of each module
(`TypeOK`, or `CreditTypeOK`, `ChargingTypeOK`, `FilterTypeOK` and so on where modules are
extended together) is proved where section 4 says so, and
holds in these instances; no run lists it. What each property says stands above
it in its module; what each run shows, in a sentence, is in `PROJECT.json`.

### Why the bounds are enough

* Two actors race wherever a race needs two; a third is there where the bound
  depends on their number (`OverdraftBound` with 3, and thresholds in
  `controls` that two calls reach while a third is late).
* Credit amounts up to 2 and a limit of 2 let a top-up meet the limit, a balance
  go negative by several requests, and the key expire between any two commands.
* Two rows of bundles are the least for a fall back to the next one; allowances
  of 1 and 2 with volumes 1 and 2 cover "covers", "exactly" and "too little"; with a
  BIGINT of at most 2 the volume 4 and the unlimited 5 are too large for one, and
  are bound as -2 and -1; 0 is an allowance and a volume the handlers let through;
  the hybrid bundle has one allowance exhausted while another remains.
* Two activations of one bundle are the least for a request to hold an older
  one than the key; two units of airtime pay for both.
* Three packets let both CPUs count for one address while a third passes.
* Two months and one fault: a loop can mark a month that is over, and lose an
  answer; `Balances = {3}` with a fee of 2 makes a second fee go negative.
* Four requests for profiles are a fill, a write, another replica's
  request and one more lookup; one fault is enough for a failed read-back or a
  restart, each of which leaves the cache untouched or empty.
* Two creations are the least for saves of the counter to overlap; four numbers
  let it be set back and be raised again past the numbers given out.
* A channel of two messages fills, overflows and holds messages of different
  status; the alert can fire, be resolved and fire again while it is full.
* Two subscriptions are the least for two active ones, or for an active one
  after a cancelled one; two usage records the least for usage to be split.
* Two tenants with one domain are the least for a domain to be taken, given
  free by a deletion, and taken by another tenant before a row is saved back.
* Two logins are the least to share a token, and a login and a new password the
  least to overlap; two seconds let the tokens differ. With three of them in all the
  same properties hold (3.2 M states, not in a run).
* Two experiments share a second or do not. Three ids in a millisecond fill it,
  and three milliseconds let the clock be set back while an id waits for the
  next, or by more than one.
* Two carriers are the least for a failover; one retry and one tolerated failure
  (3 and 5 in the code) reach the last attempt and an unhealthy carrier, and two
  downloads let one wait for the lock the other holds.
* Three sockets of the SDK are one that is closing, one that connects and one
  more from a timer; two attempts (5 in the code) let one reconnection be due
  while another was made. Two are enough for the dashboard, which has one
  at a time.
* The bounds that cap counters (`MaxPackets`, `MaxAdded`, `MaxActivations`,
  `MaxSqn`, `MaxMonth`, `MaxEvents`, `MaxPuts`, `MaxFaults`, `MaxRequests`,
  `MaxIMSI`, `MaxRecorded`, `MaxChanges`, `MaxDownloads`, `MaxTime`, `MaxSecond`) are
  constants of the modules and stand in guards; where a safety property is
  proved, it holds for every value of them.

Deadlock is checked in every run: each model always has a step, the end of the
bounded ones being a lapse, a cleanup or a repetition the code also makes.
Symmetry is used in `metering` alone, which has no liveness property.

### Fairness, and why the code justifies it

* `BlockEnds`: loops tick for ever (`sync.rs:9-29`: an error is logged, the loop
  goes on), a command is answered or fails, Redis expires what is due. Strong
  fairness of the DEL says that Redis does not fail it every time.
* `Recovers`, `EngineRecovers`, `CarrierRecovers`, `TripsUnderFailure`: calls are made and return, time passes. Tokio's
  locks are fair, hence the strong fairness of a call waiting for the count.
  Nothing is assumed to make the backend healthy: that is in the property.
* `FailureReachesRow`: Stripe redelivers until acknowledged, and not every
  delivery fails.
* `LeftIsForgotten`: the hub takes what its goroutines send it, since its `select`
  serves whichever channel is ready, and goroutines run. `AlertFollows`: the
  manager's ticker ticks for ever.
* `SettledIsCredited` (violated): besides the fairness of `FailureReachesRow`,
  Stripe delivers the events of payments that succeed, too.
* `FreshInTheEnd`: time passes, so entries grow old. No handler is assumed to
  make progress, nor the ticker.
* `DownloadsEnd`: a call to a server ends, at the latest by its timeout, and
  goroutines run. Checks are not assumed to happen.
* `ComesBack`: timers are due, and the browser opens a socket or reports its end.

### The six disagreements

* `block_unblock`: `handlers/block.rs:25` calls it "Unblock a user", but
  `unblock_user` reads and deletes another key than `block_user` writes, answers
  success, and the address stays blocked until the key expires or is swept.
* `engine_breaker_hold`: `circuit_breaker.rs:72` describes the timeout as the
  "Duration to wait before attempting to close the circuit"; a call that read an
  older state or failure time writes HalfOpen or Closed over a circuit opened in
  between, and calls go through at once.
* `settled_credit`: `payment/webhook_handlers.go:12` says that
  "handlePaymentSucceeded handles successful payment events"; it asserts the
  amount, a float64 in a map decoded from JSON, to be an int64, and panics before
  it has changed anything. A top-up Stripe had not settled when its row was
  inserted is never credited.
* `rate_plan_delete`: `handlers/rateplan_handlers_crud.go:208` expects the service to
  answer "cannot delete rate plan with active subscriptions"; the service lists
  the subscriptions of the profile with the empty id, finds none, and deletes.
* `failover_ends`: `smdp/operations.go:96` says that "handleFailover attempts to
  download profile using alternative carriers"; it holds `carriersMutex` for
  reading while its own first call ends in `updateCarrierMetrics`, which takes it
  for writing. The failover never returns, and nothing that needs the lock
  runs any more.
* `sdk_disconnect`: `src/sdk/typescript/src/websocket.ts:86` says "Disconnect from
  WebSocket server"; a reconnection that was scheduled before connects again.

## 4. The proofs

Each `*Proofs` module extends the module or modules it is about (ChargingEngineProofs:
AccountCharges, CreditControl and BundleCharging; BreakerProofs: the three breakers;
SubscriberAccountProofs: also Enrollment, AlertHub, ChaosExperiments and AuthSessions;
CarrierConnectorProofs: the connector's; ReconnectionProofs: the two clients), and
proves safety properties for every value of the constants that satisfies that module's named
assumptions: finite sets where they are counted or summed over (`WorkersFinite`,
`CPUsFinite`, `RequestsFinite`, `EventsFinite`, `HandlersFinite`: requests and tasks
that are being served are finitely many), bounds that are natural numbers, thresholds
that are positive, amounts within their width (a bundle's allowances in PostgreSQL, and the
volumes charged to it: any u64, or no allowance). Nothing else is assumed, except by the
three theorems that say so in their statement (`Alone`: one caller at a time).

**SetSums** has the laws of the community modules' `SumFunctionOnSet`, which adds up a
function over a set in an order nobody knows: a sum does not depend on it, changes by
what one term changes, and over a part of the set is that of the terms in it. They
need induction over finite sets, which is done without the library's induction
theorems: of all subsets for which a law could fail, one is smallest.

Every safety property of the passing runs is stated by a theorem.

| theorem | says | along which invariant |
|---|---|---|
| CreditControl `OverdraftBounded` | the balance is at least minus (handlers x largest request) | `OverdraftShare`: a handler that was approved and is still to deduct has its share of the bound left, since it was approved over a balance that covers its request |
| CreditControl `DebtNotToppedUp`, `StuckStays` | an overdrawn balance, with no top-up in flight, stays overdrawn until the key expires; a negative one without a TTL is permanent | the same, with the types |
| CreditControl (the same) | and never above what Redis's i64 holds | `TypeOK` |
| ApiBreaker `CountTells`, `ApiRefinesBreaker` | the count is at the threshold exactly while not closed; every step is one of Breaker's | `BreakerInv`; the refinement maps "past" to `due` |
| CarrierBreaker `CarrierCountsBelow` | a closed circuit is below its failures, a half-open one below its successes, wherever late moves to half-open fall | itself, with the types |
| CarrierBreaker `CarrierAloneIsBreaker` | with one caller at a time every step is one of Breaker's | `Upgrades`: a caller on its way to the write lock still finds the circuit open and its timeout over |
| EngineBreaker `EngineAloneHolds`, `EngineAloneIsBreaker` | with one call at a time the timeout is held, and every undisturbed step is one of Breaker's: the disagreement below takes two calls | `ReadsHold`: what a call has read of state and time is still so when it acts on it; the refinement maps to `due` that the last failure is not recent and no call is about to stamp one |
| BundleCharging `UsageReconciles` | what is gone from an allowance is recorded, held by an event about to record it, or lost with one that failed, to the unit | `ReconcileInv`: only an event about to be recorded has deducted, from a row that was inserted, and nothing is booked to a row before |
| BundleCharging `StatusAgrees`, `ClosedStayClosed` | no allowance that was used is overdrawn, the status computed from one column is right about all that were used; closed rows keep their allowances | `BundleInv`: the above and `NotYetDue` (a row not inserted has no expiry); what is bound is a BIGINT whatever the u64 (`BigintOfU64`) |
| BundlePurchase `RunningTracked`, `UnusedBundlesLapse`, `DeadBundlesStay` | consumption finds every undisturbed running bundle; unused ones lapse; used ones that outlived their time stay | `Shape`: what each request holds at each stage |
| BundlePurchase `UsageIsDeducted` | the usage reported as covered is what the bundle lost, unless a request wrote what another had overtaken | `DeductedInv`: all copies of an activation, stored or read to be written back, are of one key; one to come has no copy and no usage |
| BundlePurchase `AirtimeIsAccounted` | all airtime added is in the balance, used, lapsed, recorded, missing or held by a purchase | `AirtimeInv`: the ledger is behind the bundles bought by what the purchases between activation and record hold (`Unrecorded`) |
| SubscriberAccount `OnlySavesLoseMoney`, `SqnNeverRepeats` | only a whole-row Save loses money or repeats a sequence number | `InPlace`: until such a Save, the balance is the ledger and sqn counts the vectors |
| SubscriberAccount `TopUpCreditedOnce` | a payment is credited once, and only if paid | `Single`: a payment about to be credited is in one request's hands |
| Enrollment `RefusalsNeedOverlap` | the index refuses a number only after a save of the counter overlapped another | until then, numbers in use are at or below the counter, and those of creations about to insert are in no other hands |
| PacketFilter `BlockedAreCutOff` | at most one more packet per CPU after a block | `LateBounded`: packets let through since the block and CPUs past the check add up to at most the CPUs |
| PacketFilter `NoOverReport` | counters never exceed what went through | `ReadsAccounted`: what a CPU has read was accounted for by then |
| AccountCharges `FeesExplainBalances` | balances are given ones less fees taken | `Explained`: also what was read to be written back, by usage tasks and fee loops |
| AccountCharges `UsageIsRecorded` | an account never shows more usage than was recorded for it or given with it | `FitsInv`: what is stored, and what usage tasks and fee loops read to write back, leaves room for all events still in progress (`Room`) |
| ProfileStore `SettledWritesSeen` | a write no lookup overlaps is seen on its replica | `Settled`: where a write settled, neither the cache nor a lookup about to fill it is older |
| AlertHub `ClientsAreTold` | a client the hub knows is shown, or has in its channel, the status of the alert unless it missed the message | `HubInv`: that of every connection, known to the hub or not; one that waits to be registered is open and has been told nothing |
| ChaosExperiments `RunningExperimentsListed` | an experiment that runs is listed unless another was begun in its second, and none that has ended is | `ListKept`: what is listed is under its id and has not ended |
| AuthSessions `PasswordChangeEndsSessions` | a session of a password given up remains only if a request for it was served meanwhile | `PasswordsEnd`: the password in use is not given up, and requests for a session of one that is were overtaken |
| AuthSessions `LoginHasOneSession` | a login that shares no token, and whose requests do not overlap, has one session, or none once it ended it | `Apart`: such a login has one request at a time, which has ended the session it is about to replace; the token it will present is that of its session and nobody else's |
| RatePlans `SubscribedOnce` | two active subscriptions of a profile only after two requests found none at a time | a request about to insert is the only one, and there is no active row, unless the profile is in `raced` |
| RatePlans `UsageIsKept` | one record holds all usage of a profile until two recordings overlap | what a request read, and is about to write back, is still what the record holds |
| CarrierFailover `SpentCarrierStays` | a carrier that failed too often and is out of use stays out until it is removed, replaced or the connector is restarted | the types; `Spent` is closed under every other step |
| CarrierFailover `FailoverStuckForGood` | once another carrier answered a failover, it waits for its own lock, no carrier changes and no download begins until a restart: the disagreement below is for ever | `StuckForGood` is closed under every step, with the types |
| Snowflake `IdsAreDifferent` | an id is given out again only while the clock is behind the ids | `IdsInOrder`: ids follow their times up to the latest millisecond, whose numbers the generator knows unless it was restarted, and then the clock is past it |
| Tenants `UpdatesAreHeld` | updates hold and deletions stay until two requests for a tenant overlap | `Held`: the only request that may save a row holds it as it still is, with one field changed |
| Tenants `UserAddedOnce` | a user twice in a tenant only where two requests added it at a time | one request about to add a user finds no row of it |
| SocketClient `ClientHasOneConnection`, `ClientPings` | one connection, pinged while it is open, until an event is handled while another socket has events to come | `OneHeld`: while a socket connects, it is the client's and `isConnecting` says so |
| DashboardSocket `ServiceRefinesReconnector` | every step is one of Reconnector's: one connection, attempt or timer at a time, and all attempts made before it gives up | `ServiceInv`: at most one socket is in use, none while a reconnection is due, one while `isConnecting`; the refinement maps it to `phase` |

That the types are kept is a theorem where a type says more than a domain: Redis's
limit (`CreditTypeCorrect`), refunds within the price (SubscriberAccount's
`TypeCorrect`), usage within u64 (`AccountsTypeCorrect`), only addresses with an entry
are charged (PacketFilter's `TypeCorrect`), and caches hold profiles only
(ProfileStore's). `Shape` and `HubTypeOK` stand for the types of BundlePurchase and
AlertHub.

Few of these are inductive as they stand: a property of the stored state says
nothing about what a handler has read and is about to write, and every
strengthening above is about exactly that.

## 5. What is only model-checked, and what is not modelled

Only model-checked: the liveness properties (`BlockEnds`, `Recovers`,
`EngineRecovers`, `CarrierRecovers`, `TripsUnderFailure`, `FailureReachesRow`,
`LeftIsForgotten`, `AlertFollows`, `FreshInTheEnd`,
`DownloadsEnd`, `ComesBack`), since fairness and ENABLED are out of the provers' reach.
Proved but not in a run: `StuckForever`, `CountTellsState`, `CountsBelow`,
`ClosedRowsKept`, `UnusedLapses`, `UserOnce`, `PingsWhileOpen`, `StuckForGood` and the
two refinements of Breaker for one caller.

Not modelled, and why:

* listings, statistics, queries, pricing arithmetic and response formats: they
  change nothing, or nothing a property is about;
* the api-server's rate limiter in memory, one step under a mutex; its Redis rate
  limiter, which is not mounted; payment methods, which have no caller but a
  route that inserts a row with an empty key;
* tenant rate limits, API keys and configuration: their handlers look for the
  parameter `tenant_id` where the routes name it `id`, and refuse every request;
* creating and changing rate plans: the adapter loses the currency that
  `validateRatePlan` asks for, so both are refused; bulk creation, search and
  statistics;
* MVNO onboarding: its provisioner is never set, and the services it would call are
  interfaces that nothing implements; messaging and webhooks: clients of servers
  that are not in the repository; prices and the
  scores of a selection of SM-DP+ servers are arithmetic; what the selection
  learns is read by its own statistics;
* currencies, of which the routes are placeholders and the stored rates have no
  creator; compliance and white labels: rows inserted, or saved as they come in; the
  analytics, the detection of fraud and threats and the prediction of failures, which
  nothing creates; the api-server's messaging, discovery and metrics;
* plugins, automations, deployments and configuration: rows that a request reads and
  saves whole, which loses one of two changes as it does for a subscriber;
  invoices: one row inserted; services: calls to Kubernetes, which keeps their state;
* `StopExperiment` and the middleware `InjectChaos`, which nothing uses;
* the alert rules on memory and goroutines (the health rule with another
  comparison), and the broadcasts of services and metrics, which nothing calls;
* eSIM provisioning of a subscriber beyond its whole-row saves, which are those
  of `UpdateSubscriber`;
* the roaming airtime balance (the same code on another key), the older
  `purchase_bundle_with_airtime` that the newer one replaces, and
  `ActivateSubscriber`, `DeleteSubscriber` and `TopUpBalance`, which nothing calls;
* the gateway's `sync_stats` program, which is never attached, so that the buffer
  it fills never holds a valid entry;
* the requests of the SDKs, one at a time; the listeners of the dashboard, on
  which its connection does not depend; infrastructure and pipelines.

### Modelled as written, though not wired

Some code that is modelled is not reached in the commit as it stands; it is
modelled as its callers would run it.

* The api-server mounts no routes for payments and for the authentication centre.
  `cmd/server.go:103` takes the hub before it is created, so that a connection
  waits on a nil hub; AlertHub is the hub its handler is written for.
* The carrier-connector mounts no route for `RecordUsage`, and nothing creates its
  circuit breaker.
* `routes_domain.go:134-149` mounts of the SM-DP+ manager only what removes carriers
  and lists; downloads and health checks are reached through
  `services/integration`, which nothing in `main` creates. A call to a
  server executes at most once, though `executeWithRetry` repeats it: the body of
  the request is consumed (`es2/client.go:73-116`). With failover disabled a failed
  download answers with a nil response, and the panic that follows is recovered.
* Nothing calls the dashboard's `disconnectWebSocket`.
* The carrier-connector mounts no route for `UpdateProfileHandler`; its other
  profile routes name the parameter `profileId` while the handlers read `iccid`
  (`routes.go:34-35`); and `routes_domain.go:134` asserts the repository to be a
  `*PostgresProfileStore` where `main.go:73` passes the cached store.
* The charging engine's `main.rs:43` calls `ChargingEngine::new` without the
  bundle repository, and `process_usage_event` is defined both in
  `rating_billing.rs` and in `usage_pipeline.rs`: AccountCharges models the one,
  BundleCharging the other. The gateway's `ebpf` feature awaits in a function
  that is not async (`ebpf.rs:304-324`).

## 6. Where the code differs from what is said of it

Found while modelling, besides the six runs above. The properties state what the
code does guarantee.

* `packet-gateway/README.md:125` and `src/docs/ARCHITECTURE.md:104` promise atomic
  counters: the filter reads, adds and writes back, and two CPUs lose one of two
  updates. `NeverOverReported` is the half that holds.
* A monthly fee can be taken twice: the month is marked after the accounts are
  charged, by every loop for itself (`sync.rs:127-151`).
* Usage, fees and PUT undo each other on an account (`rating_billing.rs:129-155`).
* A negative credit refuses every later top-up, and one without a TTL stays.
* A sweep that read a TTL deletes a block set since (`sync.rs:61-66`).
* A request dropped between the opening of the engine's circuit and the stamp of
  its time leaves it open with no time to wait for (`circuit_breaker.rs:158-162`).
* A bundle consumed from loses its TTL (SET, `bundle_service.rs:202`): it stays after
  its expiry, and every later purchase of it pays and then fails. Airtime is
  never given back, and the audit insert names columns the migration lacks.
* A hybrid bundle is exhausted as a whole when one allowance is.
* Nothing checks the allowances of a bundle (`handlers/bundles.rs:17-22`,
  `bundle_service.rs:34-37`), nor does the migration: one of 0 is activated with
  nothing to use, and an event without a volume, read as 0, exhausts it. One over
  2^63 - 1 is stored below 0 (u64::MAX, "unlimited", as -1): it passes
  `has_allowance`, which reads it back as u64, and the UPDATE refuses it. A volume over 2^63 - 1
  is deducted and recorded as a negative one. `StatusTells` says what holds all the same:
  of the allowances that were used.
* The INSERT of `activate_for_subscriber` leaves out `subscriber_id`, which
  `src/migrations/00020_init_bundles.sql:21` has NOT NULL: against that schema it fails.
* A stale SREM untracks the bundle bought since (`bundle_service.rs:165-168`).
* `Save` of a row read earlier undoes top-ups, refunds and sequence numbers
  (`database/crud.go:35`), `subscriber_auc.go:107-109` notwithstanding.
* Stripe charges before the transaction is inserted: a failed insert leaves the
  customer charged and never credited (`gateway_service.go:67`).
* User space never takes an address off the gateway's block list, and each
  synchronisation overwrites what the filter has charged since.
* The gateway reports usage cumulatively, as a fractional number the engine
  reads as an integer, that is as 0.
* Handlers of usage process each event twice (`handlers/usage.rs:137-141`).
* A replica's profile cache serves what another replica has changed or deleted
  for up to its time to live of five minutes.
* Two creations at a time can be given one number; the second is refused by the
  index and its client gets an error (`subscriber_imsi.go:12-30`). A counter set
  back by a late save makes creations fail until it has caught up.
* "Refresh tokens for long-lived sessions" (`src/docs/ARCHITECTURE.md:220`) are signed for
  seven days, but the session they are looked up in ends with the access token, after
  a quarter of an hour (`services/auth.go:90`, `:163`).
* Two sessions of a user begun within one second have the same tokens: refreshing or
  giving up one ends the other (`services/auth.go:180`, `:188`).
* A refresh or a login that overlaps a change of the password leaves a session after
  "Invalidate all sessions for this user" (`services/auth.go:313`), and an operator's edit
  that overlaps it brings the old password back (`handlers/auth.go:312`).
* A refresh does not ask whether the user is still active; nor do sessions end when
  an operator deactivates one (`services/auth.go:175`).
* A broadcast the hub is not waiting for is lost (`websocket/handler.go:95-99`): its
  clients show an old status until the alert changes again.
* `GetActiveExperiments` is said to return "all currently running experiments"
  (`chaos.go:219`): of two begun within one second it returns the second, and after
  the end of either none. A load experiment ends as soon as it is begun: its
  context is that of the request.
* Every process is node 1 (`id/snowflake.go:96`): two replicas of the connector can
  give out one id. A clock that is set back makes one replica repeat its own.
* Onboarding goes on in a goroutine with a provisioner that nothing sets
  (`services/onboarding_service.go:26`): unless the request's context ends it first, it
  panics, and the process ends.
* A request to erase or to export a subject's data is marked completed and nothing
  is erased or exported (`compliance/service.go:101-116`).
* Two requests at a time subscribe a profile twice, add a user twice and lose
  usage: no index or transaction stands behind the checks.
* Usage goes on being added to the record of the first cycle: `GetCurrentUsage`
  takes the latest record whatever its cycle (`repository_rateplan.go:55-60`).
* `Save` of a tenant read earlier undoes updates, and brings a deleted tenant
  back (`tenant_repository_crud.go:42`).
* The health checker reads the carriers and their metrics without the mutex
  (`smdp/health_checker.go`); Go stops the process if a map is written meanwhile.
  A carrier's error rate counts all requests it ever had, and only a healthy one
  is sent any: a carrier past the rate stays out (`SpentStays`).
* The SDK's `connect` after a `disconnect` during a connection returns
  without connecting, and an interval is lost when a second socket opens before
  the first has closed (`src/sdk/typescript/src/websocket.ts`). The Go SDK repeats a POST that
  timed out, so a payment can be made twice (`src/sdk/go/client.go:93`).
* The dashboard's button does nothing once the service has given up: it has no
  socket whose close event would connect again (`hooks/use-websocket.ts:70-72`).

## 7. Plan

Done, in this order: credit and blocks; the breakers and their abstraction;
bundles in both stores; the subscriber row and payments; the packet filter;
accounts and fees; profiles and their cache; a safety theorem for each; then
enrolment, alerts and the hub, the connector's breaker, rate plans and tenants;
then SM-DP+ downloads and the two WebSocket clients; then ids and experiments; then
the abstract Reconnector, and the proofs of tenants' rows and of both clients; then
login sessions and their proofs; then the laws of sums, and with them the proofs of
usage, airtime and accounts; what the hub's clients are told; the breakers for one
caller; the failover that does not end.

Next, the most important first:

1. **Usage path** - compose the gateway's counters and reports with the engine's
   usage processing: what reaches the account of what went through, with the
   cumulative reports and each event processed twice.
2. **BundlePurchase** - an abstract shop (pay, hold, use up, lapse) that the
   undisturbed purchase implements.
3. **EngineBreaker** - what any number of calls guarantee (an abstract breaker whose
   Open may be left early by a call that began before).
4. **MVNO onboarding** - its steps, of which none is undone, once a provisioner is set.

A new part extends the run of its service.
