# Verification of the wallet integration

TLA+ models, TLC runs and TLAPS proofs for the parts of this repository whose
correctness depends on the order in which several actors act: backend replicas
with leases in one PostgreSQL database, a market-data service, a web page whose
wallets, prompts and answers arrive in any order, order books and providers that
lose or delay answers. Paths are relative to the repository root; `L/` stands
for `backend/src/main/java/com/wallet/swap/limitorder/`, `N/` for
`.../notification/`, `R/` for `src/market-radar/`, `S/` for `src/lib/server/`
and `page.tsx` for `src/app/swap/page.tsx`.

Check a run with `tlc -workers 2 -config LimitOrders.cfg MCLimitOrders`, a
proof with `tlapm LimitOrder_proofs.tla`. `PROJECT.json` lists the runs; the
configurations that are not listed there are described below beside the module
they instantiate: larger instances, and refuted claims.

## 1. The system

A browser application (Next.js, `src/`) quotes swaps over many providers and has
the user sign transactions and limit orders. A Java backend (Spring, `backend/`)
keeps the wallet's data, watches prices and orders, and sends notifications. A
Node service (`R/`) follows exchange books and derives events. The backend and
the radar share PostgreSQL; several backend replicas may run.

| Component | State | Operations | Interacts with | Module |
|---|---|---|---|---|
| limit orders (`L/`) | `limit_orders` rows: status, attempts, two leases, due times | save, submit (on the request and by a worker), check status, cancel, expire | CoW and 1inch order books, feature flag, wallet lock | `LimitOrder` |
| limit order validation (`L/`) | none | signatures, payload hash, maker traits | called by save and before each POST | – |
| notifications (`N/`, `pricealert/`, `ops/`) | `notification_outbox`, delivery records, `job_locks` | monitor cycle, enqueue, claim, send, record, dead letter | mail, Telegram, web push; price source | `Notifications` |
| radar feed and books (`R/transport.ts`, `book.ts`, `adapters.ts`) | connection generation, book, delta buffer | connect, snapshot, apply, fail | exchanges | `MarketFeed` |
| radar collector (`R/collector.ts`, `subscriptions.ts`, `main.ts`) | catalog, planned subscriptions, watch entries | discover, plan, watch, expire | feeds, HTTP readers, backend's watch list | `RadarCollector` |
| radar engine (`R/engine.ts`) | walls, zones | calculate | feeds, store | `RadarEngine` |
| radar store and audit (`R/store.ts`, `persistence-queue.ts`, `events.ts`, `audit.ts`) | queue, what was saved last, signals, events, outcomes | offer, save, evaluate, clean up | engine, PostgreSQL | `RadarRecorder`, `RadarAudit` |
| radar alerts (`marketradar/`) | event cursor, alert rules, watches | reserve, dispatch, read | radar store, outbox | watches in `RadarCollector` |
| web: session and panels (`page.tsx`, `src/lib/backendSession.ts`, `backendClient.ts`) | wallet, session in state and storage, panels and their flags | connect, sign in, load, save, disconnect | backend, wallet | `SwapSession` |
| web: swap form (`page.tsx`, `useTokenCatalog`, `TokenPicker`) | networks, tokens, recipient, link, dialog | pick, paste, scan, import, effects | token routes, wallets | `SwapForm` |
| web: swap execution (`page.tsx`, `swapTransaction.ts`, `routeStatus.ts`) | quote, executions, tracking loop | quote, press, approve, send, poll | wallets, networks, history | `SwapExecution` |
| web: limit orders (`limit-orders/page.tsx`) | draft, orders shown | prepare, sign, save, cancel, refresh | backend, wallet | – |
| quote, token and list routes (`src/app/api/`, `S/`) | token caches, quote cache, request budgets | admit, resolve, fan out, record, serve | providers, Redis, backend | `QuoteService` |
| sign-in (`auth/`) | nonces, sessions, cookie | issue, verify once, prune | wallet row lock | cookie in `SwapSession` |
| swap history (`history/`) | swap rows with tracking schedule | client upsert, LI.FI status worker | browser, LI.FI | page's side in `SwapExecution` |
| revenue (`revenue/`) | revenue records with leases | record, verify, expire | swap history, chain RPC | evidence in `QuoteService` |
| favorite pairs, price alert rules, preferences, Telegram codes, push devices | rows per wallet | create, change, link, subscribe | wallet lock, outbox | – |
| rate limits (`config/`, `S/rateLimit.ts`) | fixed-window counters | count, reject | every request | Node side in `QuoteService` |
| feature flags (`feature/`) | one boolean per feature | read, set | limit orders, alerts | flag in `LimitOrder` |
| maintenance, contact, growth, configuration, deployment | none that matters here | deletes, inserts, validation | everything | – |

### Which behaviours are hard

* **Limit orders.** One token approval backs one order. The database row must
  stay reserved for as long as *any* copy of a POST could still place the order:
  after a timeout, after a crash between the POST and its record, while a second
  replica retries, while the expiry sweep or a cancellation runs. Two leases per
  row (submission, status check) may lapse under a live worker.
* **Notifications.** Delivery is at least once: a message leaves before it is
  recorded. Attempts, not sends, are counted; the outcome is written by row id,
  so that a worker which lost its lease overwrites its successor.
* **Radar feed.** A snapshot of a replaced connection, or a gap between snapshot
  and buffered deltas, must never reach a book that is shown as healthy.
* **Radar store.** Snapshots are coalesced while a save is under way; a commit
  may succeed with its answer lost; evaluations run under leases that lapse.
* **Radar collector.** Readers and alert rules compete for on-demand places;
  places expire and are lost with the process.
* **The page.** Handlers run to their next `await` and go on with the values of
  the render they were started in, while wallets switch, answers come late and
  effects rewrite the form. One sign-in request is shared by all handlers; the
  backend's answer follows a browser-wide cookie.
* **The routes.** Requests share caches, loads under way and a request budget
  that moves between Redis and memory when Redis fails.
* **Swap history, revenue, quotas, codes.** Leases, cursors and
  read-check-write under row locks; not modelled yet (section 15).

### What makes each component correct

* Limit orders: never two executable orders per approval; a terminal order is
  dead; the outcome shown agrees with the order book (all three but for an order
  whose unanswered attempt a later answer overruled, findings 1 and 2); an order at
  a provider is tracked until settled; every saved order settles.
* Notifications: bounded copies; "sent" is true and recorded; monitors take
  turns; every queued message is sent or given up.
* Radar: a healthy book equals the exchange's book at its sequence number and
  never moves back; what a saved snapshot shows is signalled, once; a verdict covers its
  window and stays; an alert's market is watched; budgets hold.
* Page: a spinner has work behind it; the session believed in is the cookie's;
  the recipient belongs to the token bought; a link is quoted once; what is
  recorded and shown of a swap agrees with the networks; everything settles.
* Routes: a quote served is the request's own, and recorded if it has an EVM
  owner; LI.FI's budget holds; failure is never taken for absence.

`PROJECT.json` lists the components with their sources and the hazards, each at
the line where it bites and with the properties that watch it.

## 2. The modules

In the order they were written, the most important behaviour first:

1. `AllowanceReservation`, `LimitOrder`: the order's life, and the abstract
   promise it implements. Proved.
2. `Notifications`: price alert to delivery. Safety proved.
3. `MarketFeed`: one feed against the exchange's book. Safety proved.
4. `RadarRecorder`, `RadarAudit`: the store's two halves. Safety proved.
5. `RadarCollector`, `RadarEngine`: what is watched, and what is seen in it.
   Safety proved. `MarketRadar` holds the four parts over one set of variables;
   its proofs are about all of them.
6. `SwapSession`, `SwapForm`, `SwapExecution`: three views of one page. They
   share no state but the wallet's address and network, which each of them lets
   move freely, so each one is checked under more behaviours of its neighbours
   than the page has. Most of their safety proved.
7. `QuoteService`: the server side of quotes and tokens. Safety proved.

Every module takes its sets and bounds as CONSTANTS and uses no RECURSIVE
operator. `MC…` modules give the instances; `MCLimitOrders` holds several of them
and `MarketRadar` the four parts of the radar at once, a variable `part` saying
which one a behaviour belongs to, so that one run answers questions of one
component.

Still to come, most important first: the page of the limit orders; the swap row
under client upserts and the status worker with the revenue records verified
from it; the dispatch of radar events; nonces, codes and windows under the
wallet row lock.

## 3. `LimitOrder`

### State

| Variable | Code |
|---|---|
| `orders[o]` | the row of `limit_orders`: `status`; `attempts` = `submission_attempts`; `due` = `next_submission_at` is set; `lock`/`lapsed` = `submission_lock_token` and whether `submission_locked_until <= now()`; `known` = `provider_order_id` is set; `checkDue`, `checkLock`, `checkLapsed` = the same for status checks; `cancelRequested` = `cancellation_requested_at` is set |
| `sub[s]` | a thread between the steps save, claim, POST, `completeSubmission` |
| `chk[c]` | a status worker between claim, query and `completeStatusCheck` |
| `can[k]` | a request thread between `cancel`'s read, the provider call and its write |
| `enabled`, `config` | the feature flag; the switches of `LimitOrderProperties`: `"submission"` for the whole order-book submission, `"oneinch"` for 1inch |
| `expired`, `book`, `inFlight`, `cancelAsked` | the world: expiry passed, the provider's entry, a POST that may still arrive, a cancellation the provider or chain has seen |
| `doubt` | history, read by properties only: whether the row was claimed again while an earlier attempt was unanswered (`"unsure"`), and whether the answer written last was a refusal or a skip all the same (`"overruled"`) |

One action is one SQL statement or transaction, or one HTTP call.

### Actions

| Action | Code |
|---|---|
| `SaveNew`, `SaveAgain` | `LimitOrderService.save` and `LimitOrderPersistenceService` – one transaction under `WalletMutationLock`: idempotent match, scope check, quota, insert or `scheduleManualRetry` |
| `ClaimDue`, `ClaimById` | `LimitOrderRepository.claimDue` / `claimById` |
| `PostAccepted`, `PostUnavailable`, `PostRefused`, `PostSkipped` | `LimitOrderSubmissionClient` with its classification of answers, duplicate lookup included; `PostRefused` is a permanent failure without a duplicate found, of a retry whose earlier POST the book holds too |
| `CompleteSubmission` | `LimitOrderSubmissionCoordinator.submitClaimed`, `nextAttemptAt`, `completeSubmission` |
| `MarkExpiredPending` | the sweep at the start of each worker pass |
| `ClaimStatusCheck`, `CheckAnswered`, `CheckFailed`, `CompleteStatusCheck` | `LimitOrderStatusCoordinator`, `LimitOrderStatusClient` |
| `BeginCancel`, `CancelLocally`, `DeleteAccepted`, `DeleteFailed`, `MarkCancellation` | `LimitOrderCancellationService.cancel` |
| `SubmissionLeaseLapses`, `CheckLeaseLapses`, `Crash…`, `Redeploy`, `ToggleFlag` | time, process death or a throwing statement, deployments, the flag |
| `Deadline`, `LatePostLands`, `Fill`, `CancellationLands`, `Invalidate`, `WalletCancels` | clock, order books, solvers, the maker's own transaction |

### Abstractions

* Partial fills do not occur: the signed terms are fill-or-kill. The status
  `partially_filled` stays in the lists of statuses the SQL uses.
* A thread's name stands for the UUID of its claim. A thread has one claim at a
  time and a UUID is fresh, so a token equals a name only for the claim's holder
  or for a successor of the same name after a crash; in the latter case the
  earlier holder has no write left to make.
* Delays are gone: a due time is set or not, and a set one may be over at any
  moment. `nextAttemptAt` returning null because the delay passes the expiry is
  the free choice of `again`.
* A lease may lapse while its worker still runs; an HTTP call has no fixed length.
* While the token matches, the row's attempts are those of the claimed candidate,
  so `CompleteSubmission` reads them from the row.
* Not modelled: a stored payload that fails its integrity check and an unknown
  provider (both end in `rejected` before any POST), the text of reasons, the
  list and plan endpoints, which only read.

### Abstract specification

`AllowanceReservation` says what a wallet is promised: a scope (wallet, chain,
sell token, provider) is reserved for one order at a time, only a reserved order
is executed, at most once, and a released order never comes back. The code keeps
this but for one kind of order, which the specification names: `overruled`, an order
of which the backend has written that the provider does not have it while
an earlier attempt was unanswered, may be executed after its release.
`ImplementsReservation` maps `reserved` to the rows with an active status,
`released` to the terminal ones, `overruled` to those with `doubt` overruled and
`executed` to the filled book entries.

### Runs

| cfg | Bounds | Checks and what they show |
|---|---|---|
| `LimitOrders` with `MCLimitOrders` | part `pair`: 2 CoW orders of one scope, 2 submitters, 1 checker, 2 attempts; part `single`: 1 1inch order, the same threads and 1 canceller, 1inch switched off and on | `TypeOK`, `OneLivePerScope`, `ImplementsReservation`, `ReleasedOrderIsDead`, `OutcomeIsTrue`, `LocalOrderUntouched`, `TrackedUntilSettled`, `TerminalIsFinal`: two threads race to save, POST, retry, check, cancel and expire, with every refusal and every skip the code can meet |
| `LimitOrderRefused` with `MCLimitOrder` | part `single` alone, 1inch on | `RejectedCannotExecute` is **violated** (finding 1) |
| `LimitOrderSkipped` with `MCLimitOrder` (not listed) | the same, 1inch switched off and on | `LocalOrderNeverSent` is **violated** (finding 2) |
| `LimitOrderSettles` with `MCLimitOrder` | 1 CoW order, 1 submitter, 2 checkers, 1 canceller, fairness; `CowNext` leaves out what happens to 1inch orders alone | `EverySavedOrderSettles` |

What the code says of its orders without exception is `RejectedCannotExecute` and
`LocalOrderNeverSent`, and it is not so. The other properties say how far it is: one answer to one attempt
decides the row, so an order whose earlier attempt was unanswered and whose retry
is refused or skipped (`Overruled`) is the only one that can be released,
rejected or stored while a provider has it. In particular no order is in doubt after a
single attempt, an answer that is lost again (`failed`) keeps the reservation, and an
attempt accepted later ends the exception. The mutants show that each of
the guards carries this: a lost answer taken for a verdict, for one, breaks
`ReleasedOrderIsDead` in spite of the exception.

Two attempts are enough for every pattern "an attempt is lost, the next one
decides"; two submitters for a lost lease and its successor; two orders for the
one who holds a scope and the one who waits. The wallet's quota does not bind in
the pair (`MaxActive = 2`): with a quota of one it would keep the orders
apart by itself and hide a wrong scope check. Nobody cancels in the pair and the
flag stays on, since it only forbids steps; the single order has both. So the pair
may stop and the deadlock check is off; with a single order the flag may always
turn and the check would say nothing. Progress is what `EverySavedOrderSettles`
is for. Threads of a kind and the pair's orders are interchangeable, so the
safety runs use symmetry; the run with a liveness property does not.

### Fairness

The sweep and a worker's own steps get weak fairness: both are scheduled jobs
that run whatever the flag says. Deadlines pass and check leases end. Claiming a
given order gets strong fairness, for the queue is ordered by due time and the
pass of a replica returns again and again. An answered check under the current
lease, and the write of that answer, get strong fairness: the provider answers
now and then, and a pass takes seconds where a lease lasts at least fifteen.
No fairness is assumed for submitting, cancelling or the flag: an order that is
never submitted settles by expiry. The last two conditions are assumptions about
the provider; with 1inch switched off for good (`CheckAnswered` never enabled)
an open 1inch order would never settle; the run's order is CoW's.

## 4. `Notifications`

### State

| Variable | Code |
|---|---|
| `now` | the clock, in units of which `Cooldown` make the wallet's cooldown |
| `alerts`, `sentAt` | the rules; per rule the last `sent_at` of its delivery records |
| `outbox[k]` | the row with dedupe key `k` = (rule, window): status, attempts, whether `locked_until <= now()` |
| `copies[k]` | how many messages left for the user (history) |
| `job` | the `job_locks` row of the monitor |
| `mon[r]`, `wrk[r]` | monitor and delivery threads between two statements |

### Actions

`AcquireMonitorLock`, `EndCycle` and `JobLockLapses` are `JobLockService`;
`ReadCandidates`, `Reached`, `NotReached` the cycle of `ReverseProfitMonitor`
with `NotificationDeliveryService.isCooldownElapsed`, `dedupeKey` and
`NotificationOutboxRepository.enqueue`. `MarkExhaustedPending`, `ClaimPending`,
`SendSucceeds`, `SendFails`, `SaveDelivery`, `SaveDeliveryFails`, `MarkSent` and
`MarkFailed` are one pass of `NotificationOutboxWorker`; `SendFails` includes a
timeout of a message that left. `DeleteAlert` cascades to the delivery records.
`Restart…` is a process that dies between two statements.

### Abstractions

* One rule has one delivery channel; a rule with several has one row each.
* The ends of leases and of the job lock are booleans that may turn at any time;
  a retry's delay is over at some time. A lock owner id belongs to one process,
  so a restarted monitor no longer owns its predecessor's lock.
* Not modelled: the limit on candidates and their order (a starvation listed as
  a hazard), changes of the cooldown preference, the feature flag of the alerts,
  the 30-day cleanup of finished rows, and the `contact` and `market_radar`
  kinds, which write no delivery record. Favorite-pair and reverse-profit alerts
  follow the rules modelled here, with tables of their own.

### Runs

| cfg | Bounds | Checks and what they show |
|---|---|---|
| `NotificationsSettle` | 1 alert, 2 monitors, 2 workers, 2 attempts, clock to 1, fairness | `CopiesWithinAttempts`, `SentIsRecorded`, `MonitorsDoNotOverlap`, `NotificationsSettle`: a lapsed lease, its late success, a crash after the send, a deleted rule |
| `Notifications` (not listed) | 1 monitor, 2 workers, cooldown 2, clock to 3 (two windows) | `TypeOK`, `SentHasLeft` and the first two again, over the boundary of a window |
| `NotificationsCooldown` (not listed) | 1 alert, 1 monitor, 1 worker, two windows | `CooldownRespected` is **violated** (finding 3) |

Two windows are needed for the boundary at which a second row of the same alert
may appear; two workers for a lost lease; two attempts for a retry and its
exhaustion. Rules do not influence each other except through the order of
claims, so one rule suffices.

### Fairness

A claimed item is worked off (weak), a lease runs out (weak), the exhausted-row
sweep runs (weak). Claiming a given row gets strong fairness: the delivery job
runs every few seconds in each replica and takes the oldest due rows first.
Nothing is assumed about the monitor, the clock or success of a send.

## 5. `MarketFeed`

### State and actions

| Variable | Code |
|---|---|
| `conn`, `aged` | `this.socket` and its ready state; `now - openedAt > 300000` |
| `wire`, `cursor` | messages between the exchange and the socket, the last version put on it |
| `book`, `syncing`, `buffered` | the fields of the same names of `MarketFeed` (`R/transport.ts`); `boundary` is the first snapshot's last level |
| `silent`, `old` | `now - lastMessage > staleMs`, `now - (newest book time) > staleMs` |
| `waiting`, `tries` | `now < retryAt`; `VenueRequestBudget.attempts` of the last minute |
| `rest`, `blocked` | the promise chain of the venue's REST requests; its cooldown |
| `venue`, `hist` | the instrument's venue; the exchange's book, one content per version |

`Start`, `Stop`, `Open`, `TickStale` and `TickRefresh` are `start`, `stop` and
the branches of `tick`; `SocketOpen`, `RestQueueFull`, `Receive`, `Heartbeat` and
`SocketLost` the socket's callbacks; `SnapshotArrives`, `SnapshotFails` and
`RestInCooldown` the two ends of the snapshot request. `Receive` calls `Apply`,
which is `OrderBook.apply` with the sequence rules of the three venues
(`Duplicate`, `OutOfSequence`). The exchange trades, pushes one version or
several at once, loses and repeats pushes, answers late or refuses.

A content is a set of price levels of one side; quantities and the other side
behave alike. The generation number only separates the present socket's request
from older ones, so a request carries `mine`, cleared whenever the generation
moves on. Left out: trades (`RadarEngine` takes them as executions), the lengths
of retry delays, limits on frame sizes.

### Run `MarketFeed`

Three venues, four levels of which a snapshot has three, a buffer of one delta,
a REST queue of two, one connection per minute, two changes of the exchange's
book and two faults: enough for a gap between snapshot and stream, an answer to
a request of the socket before, a full buffer and a refusal in the cooldown.
`HealthyBookIsExact` and `ShownBookMovesForward` hold for the venues with
sequence numbers that show every gap. Bybit's do not; what the code gives there
is a fresh snapshot every five minutes, and `FeedComesRight` says that this is
enough for an error to end. Deadlock is checked.

Fairness is weak: the one-second timer, the socket's events and the REST chain
are scheduled by Node; pushes arrive; time passes. Faults are bounded, so the
liveness property speaks of what happens after the last one.

## 6. `RadarRecorder` and `RadarAudit`

### `RadarRecorder`

`pending`, `accepted`, `closed`, `running`, `saving` are the fields of
`PersistenceQueue`; `last` and `material` those of `RadarStore`; `db` the tables
`latest`, `observations`, `signals`, `events`. `Offer`, `Take`, `Ended`, `Stop`
are `offer`, the loop of `drain` and `close`; `Commit` is the transaction of
`observe` with `significant`, `NewSignal` and `detectEvents`; `SaveFails` and
`CommitUnacknowledged` its failures before and after the commit; `Exit` and
`Crash` lose the memory and keep the tables. A pair has one zone; its strength is
counted in units of four points, two of which are a material change. Left out:
counters of dropped snapshots, evictions from the caches, the cap of 128 KiB,
the scoring version.

`NewestSurvives`: a save that ended is not undone by an older snapshot.
`BreakIsAnnounced`: a zone seen standing and then broken has its event. A lost
answer of a commit and a restart are the hard cases: the process remembers less
than the tables hold. `ChangeIsRecordedOnce` has two halves: the newest signal of a
pair shows what its last saved snapshot shows, up to less than a material change,
and no signal is added that repeats the newest one. It holds for books of any
age. A book may be older than the distance of two snapshots, so that two snapshots
show one instant and the signal of the second one has an id that is taken, or is
not the newest; the ghost `blurred` holds the pairs with such a change, and those whose
commit was not acknowledged, until a change observed later than all signals is
committed. For these the code loses the change or repeats a signal, which
`EveryChangeIsRecorded` shows (`RadarSameInstant.cfg`, finding 4); all other
failures, coalescing and restarts lose nothing.

### `RadarAudit`

One signal with an outcome row for each horizon: `rows`, the samples taken and
stored, and per collector the position in `maintain` (`evaluateDue`, then
`cleanup`). `Claim` is the `UPDATE … FOR UPDATE SKIP LOCKED` with the lease,
`Evaluate` is `calculateOutcome` over the observations read at that moment,
`WriteOutcome` the conditional update, `EvaluationFails` the `catch`, `Cleanup`
the deletes. Two collectors stand for a rolling deployment.
`VerdictCoversWindow`: a verdict is never given before its window is over and
agrees with the samples of the whole window. `VerdictIsFinal`: no second
evaluation changes it. The excursions in a result are arithmetic over the same
samples and left out. The clock is bounded, so the deadlock check is off.

### Runs

All configurations of the radar are of `MCMarketRadar`, which extends `MarketRadar`;
the constant `Parts` names the modules whose behaviours a run looks at.
`RadarStore` is of both of these and of `RadarEngine` (section 8).
Recorder: two pairs, a queue of one, three offers, one fault, and books up to twice as
old as the distance of two snapshots (`Stale = 2`, `Interval = 1`; the code's defaults are
15 and 10 seconds), so that consecutive snapshots may show one instant, or the later one
an earlier instant. The theorem is for books of any age. Audit: one
horizon of two units, two attempts, one fault, a retention that ends within the
clock. `StoreSettles` (queue drained, outcome decided) needs weak fairness of the
drain loop and the commit, of the clock, of a free collector's pass and of a
sample's way into the table. `RadarMore.cfg` checks the types and two weaker
properties (`CompleteIsCovered`, `FailedWasTried`), which are proved as well. `RadarSameInstant.cfg` is finding 4.

## 7. `RadarCollector`

| Variable | Code |
|---|---|
| `listed`, `age`, `asking`, `discoveryDue` | `MarketCollector.catalog` by venue with its time of discovery; how far `discover()` is |
| `watched`, `feeds` | `SubscriptionPlanner.watched`; `MarketCollector.feeds` |
| `alerts`, `watches` | the tables `alert_rules` and `watches` |
| `maintaining`, `rows`, `ran` | the maintenance timer of `main.ts` between its query and its `watch` calls; the timers that have fired in this period |

`Tick` is `MarketCollector.tick` with `SubscriptionPlanner.plan`; `Discovered`,
`DiscoveryFails`, `DiscoveryEnds` one venue's part of `discover`; `MaintainRead`,
`MaintainWatch`, `MaintainFails` the timer; `Request` the HTTP read that watches
a pair; `Reserve` and `DeleteAlert` the backend's `MarketRadarWatchBudget`;
`Elapse` the passing of ten seconds; `Restart` a new process. A pair is a
number, a larger one trades more. Snapshots and engines exist for the planned
pairs and are left out, as are authentication and the request limit.

Run `RadarCollector`: three markets on two venues, one permanent place and one
on demand, one promise in the backend, one HTTP read, one fault. `BudgetsHold`
relates places taken and promises given to their limits. `AlertIsWatched` is the
question a team would argue about: reads that bypass the backend's budget take
places too; since they are bounded here, a rule's market gets its feed in the
end. With endless reads of other pairs it need not. `CatalogRecovers` says that
failed discoveries leave no venue out. Weak fairness: both timers fire once in
every period (`FirstTick`; more calculations in it are possible and not needed)
and discovery goes on; nobody is forced to read. Deadlock is checked.

## 8. `RadarEngine`

The supply side of `StructuralEngine.calculate`; the demand side is its mirror.
`walls` and `zones` are the engine's memory, `shown` the zones of the last
snapshot; `book`, `healthy`, `fills` what feeds report. `Calculate` is one call:
`UpdatedWall`, `AbsentWall`, `Moved` are the three passes over walls,
`Zone` and `PreviousZone` build the result. `Gap` is three compute intervals, for how
long a wall may be missed; a wall counts as moved if it was seen within two of them
(two thirds of `Gap`) and at most four bands away. Markets requote, move, go unhealthy
and execute walls; an execution is heard some time after it happened. `run` is a
ghost: since when a wall stood at every calculation.

`PersistenceIsObserved` (in `RadarStore`, and with one more change of the
markets in `RadarEngine.cfg`): a zone is never said to be older than the
shortest time for which each of its walls stood at every calculation. The score
and the lifecycles that depend only on the score are floating-point arithmetic
and left out. `RadarConsumption.cfg` is finding 5. Two more things a reader
should know: an outage of one calculation resets a wall's persistence and counts
as a cancellation; a zone broken while coverage is insufficient is not announced.

## 9. `SwapSession`

### State and actions

| Variable | Code |
|---|---|
| `provider`, `wallet`, `attaching`, `moved` | the provider state, `walletAddress`, an `eth_accounts` request under way, an effect that has not run |
| `stored`, `session`, `cookie` | the tab's `sessionStorage`, `backendSession`, the browser's `wallet_session` cookie, each as the wallet it stands for |
| `request` | `backendSessionRequestRef`: the one sign-in under way, from nonce to answer |
| `shown`, `loaded`, `busy`, `flying` | per panel: whose data, the loaded flag, spinners, the in-flight references |
| `tasks` | handlers that wait: for the sign-in, for an answer, for the push device |

A handler runs to its next `await` in one step, with the cookie of the moment
its request leaves. `Press` is every button and view effect that makes a request
(loading, saving, removing in four panels, Telegram and push included),
`WalletEvent` the bridge and the provider's events, `Progress` answers and
effects. `SignedIn` keeps the session for whatever wallet is connected by then,
as the code does. The backend answers by the cookie alone
(`AuthController`/`AuthService`: cookie first).

Left out: a second tab on the same cookie, page reloads, failing storage, views
whose effect runs in the same commit before the wallet's, the separate flags of
"save" and "check Telegram" (one flag here), the push refresh after a failed
enable.

### Runs

`SwapSession`: two wallets, two handlers at a time (one for alerts, which share
the favorites' code shape), three wallet events, one fault, one panel per
behaviour. Three events are enough for A, B and A again while an answer is under
way. `SpinnerHasWork`, `SettledSessionIsTheCookies` and, under weak fairness of
`Progress`, `EverythingAnswers`. The fairness is the event loop's, the
request timeout's, and the user's attention to a modal dialog (one that is
neither approved nor closed blocks the page by design). `SwapSessionLate.cfg` is
finding 6.

## 10. `SwapForm`

Handlers and answers change the state; `Commit` is one render with all effects,
which read the rendered state: default tokens (`Defaulted`), the wallet's
network (`Followed`), the pending link's amount (`Amounted`), the auto-quote
effect (`Corrected`, `AutoQuotes`), the recipient's two effects, the token
loader, the scanner. Of two effects that write one field the later wins. `form`,
`list`, `load`, `recipient`, `dialog`, `imports`, `liveImport`, `camera`,
`search`, `asked` are the states and references of the same purpose in
`page.tsx`, `useTokenCatalog` and `TokenPicker`. The user acts on what is at
rest; answers come at any time, also between two renders.

`RecipientIsThisTokens` relates the recipient to the token bought and the wallet
connected at rest; `DialogOwnsItsWork` says that no wallet import and no camera
outlives its dialog, but for an import between its last check of the dialog
(`page.tsx:1263`) and its last writes (1268-1269, stage `"sharing"`), which goes through
with what it has, as `SwapLateImport.cfg` shows; `LinkIsQuotedOnce` relates the quote asked for to the link;
`FormSettles` says that the effects come to rest once the link's tokens are
listed. Weak fairness of renders, list answers and quote answers: React commits
and `fetch` times out; wallets and cameras need not answer.

Runs: `SwapForm` has an EVM network and Bitcoin, one wallet that may be on a
network the page does not offer, three links, one favorite pair, four events of
which at most two of the form and three of the dialog, one import. `SwapLink`
(one link, listed finding) and `SwapLateImport.cfg` (finding 8) are refuted
claims. Left out: the Solana family, languages, layout. Render and effects are
one step. Seen and not stated as properties: a frame being read when the dialog
closes is applied all the same, for the token of the last render (`RenderedBuy`); a list that is replaced drops a token found by
address; a link whose networks the wallet's network replaces stays pending.

## 11. `SwapExecution`

An execution is one press of Swap; it keeps quote, account and networks of the
render it was pressed in (`exec[i]`) and stops at every `await`: network switch,
signer check, allowance read, up to two approvals, simulation, send, receipt,
history save. Saving the history may ask the user to sign in (`persistSwapSnapshot`,
`confirmWalletSignIn`), up to twice, and the route is followed only after that
(phase `"signIn"`). `chain` and `delivery` say what became of its transaction;
`tracking` is the loop of `monitorSubmittedRoute`; `status`, `notice`,
`progress` are what the page shows. Beside it the form is edited, quotes are
asked for and expire, wallets switch accounts and networks.

`RecordedIsTrue`: nothing is saved that was not broadcast, nothing is saved as
confirmed that has another network to reach. `ShownIsTrue`: "confirmed" has an
arrived swap behind it, a busy page has an execution at the wallet, the loop
that runs is the one the page speaks of. `EverySwapSettles`: an execution ends
or waits where the code waits without a limit, for the wallet's user (network switch,
signer, approval, send, signature), for the sign-in of the history save or for a
block; the loop ends, and so does a quote request.

Run `SwapExecution`: two accounts, two networks, a route of each kind, two
presses, two moves of the user, two polls. Two presses overlap in every way two
executions can. Fairness is weak for `Progress` as a whole: answers to requests and reads,
which time out, effects and timers. `Prompted`, the wallet's and the user's answers
to a switch, to `getSigner`, to an approval, to a signature and to the sign-in, has none, nor has
`World`, blocks and deliveries. The run stops when all is done, so the deadlock check is off.
`SwapOldQuote.cfg` is finding 7. Left out: the dry-run mode, the choice of
another route of the same quote, the approval hash shown.

## 12. `QuoteService`

`req[r]` is a request of one of the three routes: its stage, what it wants, the
state of each provider. `Admitted`, `Listing`, `Resolving`, `Quoting`, `Settled`,
`Delivered` are the stretches between two awaits; `GoesOn` also starts the loads
that the requests now wait for, since requests share one load per list and per
address. `rateLimitMany` is the Lua script in Redis, the same in memory when
Redis fails and the configuration lets it fail open, and the LI.FI budget, which
takes a request for each call. `Records` is `captureRevenueEvidence` with an
answer that may be lost; only then a quote is cached and served.

`QuoteIsTheRequests` and `ServedIsRecorded` relate what is served, also from the
cache, to the asker and to the evidence; `AbsenceIsTrue` says that a 404, 400 or
422 is never the mistake of a source that failed.

There is evidence for an EVM owner only: `buildRevenueSnapshot` returns null for
any other (`S/revenueEvidence.ts:30`) and the envelope goes without that quote
(59-62). `docs/commercial/revenue-accounting.md:112` says that "Enabled mode fails
closed when quote evidence cannot be stored", lines 61-64 that sources without an
authenticated EVM owner stay unverified; `ServedIsRecorded` reads the first with the
second. Read alone, it is `EveryServedIsRecorded`, which `QuoteUnrecorded.cfg` shows
violated: a quote for Solana is served with no evidence.

`WithinBudget` bounds the calls sent to LI.FI in one window of the budget, over every
interleaving of routes and of both counters. The windows of Redis and of memory are as
long as each other but begin on their own, with the first request each counts
(`S/rateLimit.ts:22-26, 85-92`); `early` says which of the two began first and so
ends first. Where memory may stand in for a failing Redis (`FailOpen`), a window of the one
overlaps two windows of the other, and the code sends up to `3 * BudgetMax - 1` calls: its own
budget and twice the other's, less one, for the other's earlier window began before this
one and with a request. Otherwise it is `BudgetMax`.

Run `QuoteService`, a budget of two, one request per key and window otherwise, in two
modes. `all`: two requests out of nine kinds in every interleaving, one fault of Redis,
one expiry. `budget`: two requests for a token that only a lookup finds and a route
that only LI.FI has, one after the other, five faults and three expiries, which is
what it takes to reach the bound of five calls in one window. One chain: the Uniswap list cache
shared by chains is left out. A Redis command and its answer are one step; the assertions on the configuration are static; the
ranking of quotes and the clients no configuration enables are left out. Safety
only; requests end, so deadlock is not checked. `QuoteIsolation.cfg` is
finding 9. Seen and not stated: a blocked wallet key still counts the address's
key; a token list with one source missing is kept for its full time; LI.FI's
budget spent on resolving a token answers 429 although 0x could quote.

## 13. Findings

Two runs of `PROJECT.json` (1 and 10) are refuted claims; the others are reproduced
with the configuration named, which TLC reports as violated.

1. **A rejected order may execute.** `L/LimitOrderCancellationService.java:295`
   tells its owner "The order service rejected this order, so it cannot
   execute." A permanent refusal of a *retry* marks the order rejected, also when
   an earlier POST landed and its answer was lost; a lookup that would show it
   runs only after 400 and 409, and its failure counts as "not there".
   Run `limit_order_refused`.
2. **A stored order may have been sent.** The local cancellation plan (`:121`)
   says it "has not reached the provider". A skipped retry (1inch switched off)
   writes `stored` whatever earlier attempts did. `LimitOrderSkipped.cfg` with
   `MCLimitOrder`.
3. **A second alert inside the cooldown.** The dedupe key names fixed windows
   and the cooldown looks only at recorded deliveries: an alert that still waits
   when its window ends is queued again and both are delivered.
   `NotificationsCooldown.cfg` with `MCNotifications`.
4. **A change is lost.** `docs/market-radar/prediction-audit.md:5-8`:
   "a score change of eight points, lifecycle change or scoring-version change
   produces a new immutable signal." A signal's id is made of the zone and the
   observation time (`R/store.ts:172-207`), which is the oldest book's: with books up to 15
   seconds old and snapshots every ten, two snapshots may show one instant, and the
   second one's change meets `ON CONFLICT DO NOTHING` and is remembered as recorded.
   A commit whose answer is lost leaves the process with an older state than the
   table and a change back to it unrecorded. `RadarSameInstant.cfg` with `MCMarketRadar`.
5. **Consumption is counted as cancellation.** `docs/market-radar/supply-demand-methodology.md:41-42`:
   "Executed consumption is not penalized as cancellation." The engine looks for
   taker trades with an *exchange* time after the last calculation
   (`R/engine.ts:252`, used at 373-378 and 414); an execution that happened before
   it and is heard after it makes the wall look cancelled.
   `RadarConsumption.cfg` with `MCMarketRadar`.
6. **Another wallet's data in a panel.** `page.tsx:3765` promises to "keep
   your history, favorite pairs, and notification settings separate from other
   users". Handlers write what they were answered without asking which wallet is
   connected by now (`page.tsx:1381, 1434, 1450`): an answer for A that comes
   after the switch to B is shown to B. `SwapSessionLate.cfg` with `MCSwapSession`.
7. **An old quote is sent by another account.** `src/lib/growthContent.ts:128`:
   "The old quote must not authorize a transaction for the wrong owner".
   `accountsChanged` keeps the quote (`page.tsx:711-716`), and
   `validateSwapTransaction` (`swapTransaction.ts:24-30`) compares the signer
   with the account of the press, not with the quote's taker.
   `SwapOldQuote.cfg` with `MCSwapExecution`.
8. **An imported recipient of another token.** `docs/prompt17_f.md:39-40`:
   "Validate the imported address against the selected destination asset before
   saving it." While the import's wallet session is being closed the user picks
   another token; the address is checked against the token of the start and
   saved (`page.tsx:1263-1269`). `SwapLateImport.cfg` with `MCSwapForm`.
9. **One provider's quote fails the others.** `docs/prompt42_f.md:25-26`: "Isolate
   provider failures and rate limits so another approved provider can still
   return a quote." A LI.FI quote whose service fee is split over two costs
   passes `assertLifiIntegratorFee` and makes `buildRevenueSnapshot` throw
   (`S/revenueEvidence.ts:30-34, 58-60`), so the whole request answers 503 although 0x
   quoted. `QuoteIsolation.cfg` with `MCQuoteService`.
10. **A native-bitcoin alert link never settles.** `page.tsx:2366` says of the
    auto-quote effect that it "should fire once when the form is ready".
    `resolveUiChainId` (4316-4327) maps native Bitcoin to the paired EVM chain,
    whose list never has the token: the auto-quote effect (2322-2329) and the
    default-token effect (465-483) undo each other in every render. Run
    `swap_link_loops`.
11. **A quote without evidence.** Section 12; `QuoteUnrecorded.cfg` with
   `MCQuoteService`.
## 14. Proofs

The theorems hold for all sets of orders, wallets, threads, tokens, requests,
price levels and so on, and for all bounds that satisfy the named assumptions of
the modules. TLC evaluates those assumptions in the runs of the same modules.

**`LimitOrder_proofs`** needs no assumption beyond those of the module. `TypeCorrect`
is the type invariant. `Tracking` proves the inductive invariant `TrackingInv`: besides the
types, that an order in a provider-active status has its provider id, is held by
the book and has its next check set, and that what a thread carries is
true (an "accepted" answer means the book holds the order). The type
invariant alone is not inductive for these: the write of an answer would be free to set a
terminal row to `submitted`. What stops it in the code is the lock token, which
is cleared whenever a row becomes terminal, and this too is part of the
invariant. From it follow `OrdersStayTracked` and `TerminalStatusIsFinal`.

Its second half is about the reservation of the token approval. `ReservationInvariant`
proves `ReservationInv`: which book entries, requests in
flight and pending answers each status allows to an order that is not `Overruled`,
and that at most one row per scope is active. An untouched order is the crux: only taking the
submission lease may end "nothing was ever sent", and it moves the row to
`pending_submission` first; the history variable then has to know of every
claim after the first one, or a refusal would release an order an earlier attempt placed
(`DeniedUntouched`: an answer "refused" or "skipped" to the only attempt means that
nothing was sent). From it follow `ReleasedOrdersAreDead`,
`OneLiveOrderPerScope`, `OutcomesAreTrue`, `LocalOrdersUntouched` and the
refinement `Implementation`: initial states map to initial states, every step to
a step of `AllowanceReservation` or a stutter. The exception in them is not an
assumption on the provider or on deployments: refusals and skips are as free as in
the code, and findings 1 and 2 are its two cases.

**`Notifications_proofs`** has one inductive invariant per question. `TypeInv`
adds to `TypeOK` that a busy worker has a key (`NotificationTypes`; with it, no
row is ever claimed beyond the limit). `LockInv`: a cycle that has not overrun
owns the job lock (`MonitorsTakeTurns`). `CopyInv`: messages that left plus
workers that may still send are at most the attempts counted in the row; the
second summand is the cardinality of a set of threads, and each step adds or
removes one (`CopiesAreBounded`). `RecordInv`: a worker that has sent or
recorded implies a copy and a delivery record of the row's window or later,
unless the rule is gone (`SentNotificationsLeft`, `SentNotificationsRecorded`).

**`MarketFeed_proofs`** assumes that the venues are the three the adapters know
(`ConstantsAssumption`) and that there is a highest price level
(`LevelsAssumption`). `HealthyBookIsExact` says nothing of a book that is not
shown, of the deltas that wait for a snapshot or of the request that will bring
it, so `FeedInv` says what these are worth: every book that is ready, shown or
not, is the exchange's at its version where it is known; every message on the
wire and in the buffer carries versions the exchange has had; at most one request
is this socket's, and only while the feed waits for it without a book. The core is
`ApplyExact`, on one message: a delta that passes `OutOfSequence` names every
level that changed since the book's version, for between two versions in which a
level is named nowhere it does not change (`Agreement`). `RestBookExact` shows
that the best `SnapshotLevels` levels are all there is up to the last of them,
`ReplayedExact` that the buffer may be replayed on them. It goes over the length
of the buffer by a least counterexample, as induction theorems cannot be
instantiated. From `FeedInv` follow `BookIsTheExchanges` and `BookMovesForward`;
the second uses also that okx sends its snapshot first, when no book is shown.

**`SwapSession_proofs`** needs no assumption. The property speaks of a page with
no sign-in under way; `SessionInv` covers the rest of the time. From the moment the
backend has set the cookie until its answer is handled, the page may believe in
an older session: then the cookie is the one of the wallet that is being verified,
which the handlers take over (`Believed`, `SessionFollowsCookie`). `SpinnerInv`
adds to `SpinnerHasWork` what a handler is: a step that replaces one keeps its
panel and its operation, a step that ends one resets its flag
(`SpinnersHaveWork`).

**`SwapExecution_proofs`** assumes that presses are numbered
(`PressesAssumption`). The history and the notices of the page depend on what
several executions have done, so `SwapInv` ties each execution's phase to the
fate of its transaction, the tracking loop to a broadcast transaction whose route
has to be delivered, and the page's "pending" to an execution that is at the wallet
(`RecordsAreTrue`, `ShowsAreTrue`). Without the first part a late receipt could
confirm a transaction that was never sent.

**`QuoteService_proofs`** assumes that the requests' wishes are of the kinds the routes
accept (`WantsAssumption`) and that the budget is a positive number (`BudgetAssumption`).
`AnswersInv` gives the caches their meaning: a cached quote was made for the
wallet, receiver and owner in its key and, if that is an EVM owner, is recorded; a lookup that ended with
"absent" has asked a source that answered. From it follow `QuotesAreTheAskers`,
`QuotesAreRecorded` and the action property `AbsencesAreTrue`. `BudgetInv`
bounds the calls of a window by what its own counter has let through and what the
other one's has: a window of that one which began earlier and has ended
(`BudgetMax - 1` at most, for the request that began it came before), and the one that
is open, less its first request if it began earlier. Which of the two open windows
began first is what the state has to remember (`early`). Memory's counter is zero
unless it stands in for a failing Redis (`BudgetIsKept`).

**`SwapForm_proofs`** needs no assumption. `DialogInv`: an import is the current
one only while the dialog shows it, in whatever stage it is, and a camera that is not
off belongs to a scanner its effect last ran for; the second part bridges the
renders between a click and its effect (`NothingOutlivesItsDialog`). `LinkInv`:
a link that is still kept has asked for nothing, and `NoDifference` lifts the
effect's search for a differing field to all fields (`LinksAreQuotedOnce`).
`RecipientInv` needs nothing of what the lists may hold: a recipient given by hand is
for the token of the last render (`RenderedBuy`), which the state has moved away
from or not, and the render that finds another token gives it up; at rest the last
render is of the state itself (`RecipientsAreTheirTokens`). An earlier `DetectAnswers`
validated a frame with the token the state has, and the invariant failed: a list that
changes twice between two renders left an address for a token that had come and
gone. `applyRecipientAddressRef` is assigned in an effect (`page.tsx:953-955`), so the
code reads the rendered token, and the module now does.

**`MarketRadar_proofs`** is about the four modules of the radar, each by an
inductive invariant of its own; what they share are the lemmas on least and
greatest members, of which every induction here is made.

*Audit.* `VerdictCoversWindow` speaks of rows that have a verdict; `AuditInv`
says what a verdict will be made of: while a signal is kept its samples are stored,
but for those of the last `Grace` (`SamplesKept`), a row is not due before its window
and the grace period are over, and an evaluation under way was started after that
moment (`DueAfterGrace`); so what it reads is all there is, and the end it computes,
the first contact and the horizon, is that of every sample of the window
(`VerdictIsTrue`, `CompleteIsTrue`). `VerdictsAreFinal` and `FailureIsEarned` follow from the lease and the count
of attempts in the same invariant. The proofs use that the grace period ends before
samples are deleted (`AuditAssumption`).

*Recorder.* `QueueInv` puts the queue in order: a pair waits once, in its newest
snapshot, and what is being saved is older than that by an interval at least
(`NewestIsKept`). `BreakInv` ties the memory of the process to the last two saved
snapshots (`BreaksAreTold`). `SignalInv` says that the process's cache is the newest signal of every pair but
the `blurred` ones: a signal that is added is the newest if it is observed later than
all others (`NewestIsNew`), a snapshot that is no later, or whose commit is not
acknowledged, makes the pair blurred, a later one ends that (`CommitRecords`), and a new process reads the cache from
the table (`FreshReads`). From it follows `ChangesAreRecordedOnce`, for books of any
age.

*Engine.* `PersistenceIsObserved` compares zones with a ghost, so `Observed` says
of every remembered wall, in a zone or not, that it is no older than the ghost or
was seen too long ago to go on; a wall that is absent for one calculation loses its
notional and can no longer go on (`CalculateKeeps`). That zones are made of
walls that stand rests on `AnchorIsHeld`, on the recursion that merges bands two by
two: its function exists for every number of bands (`MergeExists`), which is why
it may be unfolded (`AgesAreObserved`).

*Collector.* Budgets are sizes of sets picked in an order. `FirstSize`: the first n
of a finite ordered set are n, or all of them, for ranks differ and the least rank
not taken is the next one. The orders of liquidity and of venues are orders
(`LiquidityIsOrder`, `RankIsOrder`), a `watch` takes a place only while one is free
(`WatchKeeps`), and so does a sequence of them (`AfterRowsKeeps`).
`BudgetsAreKept` assumes `MinVenues <= VenuesPerMarket`: `radarConfig`
(`R/config.ts:66-91`) accepts a minimum of venues above the maximum, and then every
market has fewer feeds than it needs.

Only model-checked are the liveness properties (`EverySavedOrderSettles`,
`NotificationsSettle`, `FeedComesRight`, `StoreSettles`, `AlertIsWatched`,
`CatalogRecovers`, `EverythingAnswers`, `EverySwapSettles`, `FormSettles`), for
liveness under fairness and ENABLED are beyond the prover. Every invariant that a
passing run checks is proved.
## 15. Not modelled

Components without a module: limit order validation, the limit orders page,
swap history and its status worker, revenue records and their verification,
favorite pairs, price alert rules, preferences, Telegram codes and push devices,
the dispatch of radar events, the backend's rate counters, maintenance, contact
and growth, configuration, deployment. The first is cryptography and formats;
the last four are single statements or no state at all. The others are the next
things to model; their hazards, beside those in `PROJECT.json`:

* `pricealert/PriceAlertRepository.java:165`: candidates are limited and ordered
  by `updated_at`; a triggered rule moves to the front and may starve others.
* `history/SwapHistoryRepository.java:59`, `:74`: the page reports a terminal
  status while the status worker holds the row; an upsert after tracking was
  paused schedules it again.
* `revenue/RevenueRepository.java:113`, `:200`: a verification that outlives its
  lease; the expiry sweep against a late verification.
* `auth/AuthRepository.java:58`, `auth/AuthService.java:65`: nonces ordered by
  the start of their transactions; two verifications with one nonce.
* `notification/TelegramLinkService.java:60`: codes read before the Telegram call
  and consumed after it.
* `config/DatabaseApiRateLimiter.java:29`, `S/rateLimit.ts`: two windows of one
  key around a boundary.
* `marketradar/MarketRadarDispatch.java:154`: the cursor and the messages it
  stands for.

Left out for good: signature verification, hashing and payload formats, message
wording, metrics, retention deletes, the floating-point scores of the radar
engine, ranking of quotes, page layout.
