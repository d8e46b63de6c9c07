# ZettaBridge: TLA+ models and proofs

ZettaBridge is a gateway that receives trading signals on webhook URLs, checks them, and turns
them into paper or live orders. This directory holds a formal model of it: TLA+ modules
translated from the Go code, TLC configurations that check them on small instances, and TLAPS proofs
about twelve of them. `PROJECT.json` lists runs, theorems, hazards, and for every definition the
source lines it stands for.

Paths below are relative to `internal/` unless they start with `docs/` or name a file at the top of the repository.

## 1. The system

### Parts, state and operations

| Part | State | Operations | What is hard about it |
|---|---|---|---|
| Signal ingestion (`modules/signals`) | none of its own; Redis dedup keys, rate counters, webhook cache | ingest a signal: token, status, plan, guard, counters, dedup claim, enqueue, answer 202 or refuse | any number of handler goroutines; Redis is best effort; a claim outlives the process |
| Guard, compliance, plans (`guard`, `compliance`, `plan`) | none | pure checks, made at ingestion and again at the worker | two body formats, windows over midnight, time zones, stacked limits |
| Trade queue (`platform/queue`) | a bounded channel in memory; the `trades` rows | enqueue, take, look for a duplicate, insert, gate, execute, finalize, stop | a pool of workers; a deadline per job; a crash loses the channel |
| Execution (`execution`, `risk`, `algo`, `credentialproduct`) | adapter idempotency records in Redis | route, look up the key, size, build, place, store the outcome | an answer may be lost after the order was placed; the record is read, used and written in three steps |
| Broker clients (`integrations/brokers`) | the instrument cache in Redis | instrument, quote, position, order, cancel | six calls per order, each of which may fail; what a failure says of the order |
| Trade lifecycle (`modules/webhooks` cancel, `modules/internalapi`, `zerodha/fillpoll`) | `trades.status` | cancel, poll for fills, receive execution events | four writers of one column, two of them unconditional |
| Kite Publisher (`zerodha/publisher`, `modules/publisher`) | `publisher_orders` and their trades | store a basket, show it, redirect back, confirm by hand, expire | the user acts outside the gateway, late, twice, or never; two rows in two statements |
| Paper engine (`paperengine`, `platform/queue/paper*.go`, `missquareoff`, `marketdata`) | accounts, positions, trades, orders, equity snapshots | fill, close, square off, mark, snapshot, edit, reset | decisions on rows read earlier; unconditional writes next to a serializing transaction |
| Webhook configuration (`modules/webhooks`, `store/redis.go`) | `webhooks` row, Redis copies | create, update, rotate, pause, resume, delete; platform sweeps | a copy warmed after its invalidation; a resume that raced a disable |
| Broker credentials (`modules/credentials`, `zerodha/auth`, `modules/shared`) | credential rows and webhooks, platform switches | create, edit, pause, resume, delete, connect at Kite, move a webhook between paper and live | limits counted before they are used, or not at all; a login that comes back after an edit; the 06:00 expiry |
| FYERS connection (`fyers`, `modules/admin/fyers.go`, `marketdata/fyers`) | one row, the provider's token in memory | log in, refresh, tell the administrator | the refresh job against a login, a restart, a failing write |
| Billing (`billing`) | user plan, billing source, subscription id, event ids | Stripe webhook, checkout, portal, admin override | redelivery, overlap, reordering, crash between statements |
| Accounts (`modules/auth`, `modules/admin`, `store/users.go`) | users, verification links, platform invites, JWTs and their revocation | register, verify, resend, login, logout, patch, delete | invalidate-then-insert, read-then-mark; claims outlive the row they were made from |
| Organisation invites (`modules/invites`) | organisations, members, invites | create, preview, accept | seats counted without a lock; a deletion in between |
| Push (`transport/websocket/hub.go`) | connected clients and their queues | register, broadcast, drop, unregister | two goroutines per connection; a full queue drops the update; a write waits for its client |
| Process (`app/app.go`) | up, stopping, draining, down | start, graceful or forced shutdown | the channel may be closed only after the last handler |

Interactions. Ingestion calls Redis (webhook cache, dedup claims, counters) and PostgreSQL, and
hands a job to the queue over a channel. A worker writes the `trades` row, calls the guard, the
compliance gate and an execution adapter (in the process or over HTTP), and writes the outcome; paper
jobs go to the paper engine instead. Cancel requests, the fill poll, execution events and Publisher
callbacks later change the same `trades` rows. Webhook, credential and billing handlers change the rows
ingestion caches. Background jobs (fill poll, expiry sweep, square-off, mark job, FYERS refresh) run in
the same process as tickers. Every change of a trade is pushed to the dashboard over the hub.

### What makes each part correct

* Pipeline: one signal, at most one order; an accepted signal gets a row before an order goes out and is
  settled in the end; a duplicate inside the window is refused and only a duplicate is; a final row stays; shutdown
  drains.
* Trade lifecycle: a final row agrees with the broker; a row at `submitted` is settled once its
  order is closed.
* Publisher: a trade waiting for confirmation can always still be decided, is decided in the end,
  by its own user, once.
* Paper engine: cash, trades and positions agree; a close closes; equity computed in two ways is
  the same; the quota holds.
* Configuration: what ingestion accepts is at most one cache TTL behind the row.
* Admission: the counters admit no more than their limits, and refuse nobody without cause; the guard
  opens in the configured hours; every answer is on record and an executed order is the one asked for.
* Execution: a key places one order and always hears the same; a code that says "rejected" is true; a stop
  protects; a close never opens the opposite position.
* Credentials: what is active stays within the plan; a stored token belongs to the app stored beside it
  and the status shown is Kite's; the FYERS token in use is live or somebody has been told.
* Accounts: one usable link per user, one account per invite, seats kept, claims of an administrator true.
* Push: a connection that works misses nothing; one that is gone is forgotten.
* Billing: plan, source and subscription follow Stripe unless an admin has taken over; a downgrade
  pauses what the plan no longer allows; every acknowledged event has taken effect.

## 2. Modules

| Module | Models | Role |
|---|---|---|
| `OrderContract` | what the gateway promises about one signal | abstract specification, refined by `SignalPipeline` |
| `TradeStatus` | the documented life of a `trades` row | abstract specification, refined by `PublisherHandoff` and `TradeLifecycle` |
| `SignalAdmission` | checks, guard, hours and counters of a request, at ingestion and at the worker | component; hands over to `SignalPipeline` |
| `SignalPipeline` | handlers, channel, workers, Redis claims, `trades`, process | core component |
| `OrderRules` | sizing, building, posting and error codes of an order, per broker | pure operators |
| `OrderExecution` | gateway, adapter, idempotency record, broker client, broker | component, on `OrderRules` |
| `TradeLifecycle` | worker, cancel, fill poll, execution events on rows | component, on `OrderRules` |
| `PublisherHandoff` | worker, user on Kite, callbacks, expiry jobs | component |
| `PaperAccount` | workers, closes, square-off, marks, snapshots, edits and resets on one account | component |
| `WebhookConfig` | a webhook row, its Redis copies, owners, platform | component |
| `BrokerCredentials` | a user's credentials and their webhooks, live and on paper, plan limits, Kite's login, platform switches | component |
| `FyersConnection` | the platform's FYERS token, its refresh job, the provider | component |
| `UserAccounts` | registration, verification, sessions, administration of users | component |
| `OrgInvites` | organisation invites and seats | extends `UserAccounts`, whose deletions touch its rows |
| `TradePush` | writers of trade rows, the hub, connections | component |
| `StripeBilling` | Stripe, deliveries, retries, admin, owner's resumes | component |
| `SignalPipelineProofs`, `WebhookConfigProofs`, `OrderExecutionProofs`, `PublisherHandoffProofs`, `OrgInvitesProofs` | theorems about the module they are named after (the last also about `UserAccounts`) | TLAPS |
| `TradeBookProofs` | theorems about `TradeLifecycle` and `PaperAccount`, real trades and paper ones | TLAPS |
| `AdmissionProofs` | theorems about `SignalAdmission` and `TradePush`, what comes in and what goes out | TLAPS |
| `PlanProofs` | theorems about `StripeBilling` and `BrokerCredentials`, how the plan changes and what it allows | TLAPS |
| `MC*` | instances for TLC | constants, worlds and symmetry |

Every SQL statement or transaction, every Redis command, every call to a broker and every channel
operation is a step of its own; everything between two of them is part of one step. A goroutine is
a function from its name to the next step it takes.

Several modules take a constant set of *worlds* (`Worlds`, `Envs`, `Starts`, or the `gate` and `feed`
of the admission): one is chosen in the initial state and never changes. A world says what the
surroundings may do (which broker, which faults, which requests), so that one run explores every such
setting, and the theorems hold for any set of them.

### SignalAdmission

`requests` is the sequence of requests in order of arrival, each with the step it takes next: `Receive`
(size, token, status, body, guard), `PerMinute`, `ReadUser`, `PerDay`, `PerSecond`, `HandOver` (what
`SignalPipeline` makes of it: accepted, a duplicate, a full queue), and for an accepted one `Work` (the
worker's second look), `OrderRate`, `BrokerRate`, `MarketHours`. `PriceUpdate` is the other kind of body.
A counter is two steps, since INCR and EXPIRE travel in one pipeline that is no transaction: `CountHit` is INCR with the
count it replies, `RenewKey` is EXPIRE, which does nothing to a key that has expired in between, and then the request's
answer. Other requests' commands and the clock come between the two, and either may fail.
The rules are operators: `Clean` normalises, the body's legacy and new fields are merged, `FirstOf`
gives the code of the first check that fails. `counters` are the Redis keys with their expiry, `hits` the
outcome of every hit on a counter (a pass whose counter expired between its two commands is `late`), `ledger` the `trades` rows of refused and executed requests. The window
rule has a reference of its own, `OpenAt`, which `HoursKept` compares with what the guard answers.

### SignalPipeline

`handler[r]` walks through `processOrderSignal`: `Deliver` (the checks up to the claim, as a pass
or a refusal), `Claim` (SET NX; a Redis error lets the signal on, as in `handler.go:191`),
`Enqueue` (the select with default; a full channel leads to `Release`), `Release` (the DEL), and the
audit row of a refusal. `step[w]` walks through `Queue.process`: `Take`, `Lookup`
(`HasActiveTradeWithSignalKey`), `Insert`, `Gate` (compliance, guard), `Execute`, `Settle`
(`FinalizeTrade`, or the rejection). `claim[k]` is the expiry of a key in Redis, `row[r]` the
status in `trades`, `orders[r]` how many orders exist at the broker: what `Execute` adds to, whether or not
the call then says so. `BeginShutdown`, `CloseQueue`, `Exit` are the order of `App.Run`; `Crash` (also the forced exit
when the shutdown times out) empties all that lives in memory, `Restart` starts again with Redis and PostgreSQL as they are.
`now` is the clock behind Redis expiry and `created_at`. Faults are a constant set: `redis`,
`store`, `deadline` (the 10 s context is used up), `lostreply`, `stall` (a handler is
descheduled for a whole window), `crash`.

The three live outcomes of an order are one status, `placed`; nothing in the pipeline tells them
apart. Everything that reads other components' state is a nondeterministic pass or refusal.

### OrderExecution and OrderRules

`OrderRules` holds what does not change state: `ResolveLot` and `ApplyMaxLotSize` (`risk`,
`adapter/local`), `Build` and `BuildCode` (`maporder`), `AlgoCode` (`algo`), `AccessCode` and `GatewayCode`
(router, plan, credential), `CallsTo` and `Posted` (the calls each client makes and the order it posts),
`SquareOff`, `PickInstrument`, `ShouldRetry`, `ErrorCode` and `CancelCode`. Lots are in hundredths and prices in paise (points
at MT5). What is posted carries the limit price and the stop: `ZerodhaCover` finds the trigger from the quote and raises it to
`MinTrigger` (five paise), `Limited` takes the limit price from the signal or, with the slippage (`LimitPrice`), from the quote.

In `OrderExecution` a command walks through `Submit` (orchestrator), `Lookup` (the adapter's record),
`Admit`, `Size`, then the calls of its broker's client in order, `Instrument`, `Quote`, `Position`, `Refuse`
(a bracket that is refused before it is posted), `Send`; `Store` writes the record, `Reply` is what the gateway
hears. `draft[c]` is the order with the calls still to make, `book` what the broker has taken. `Send`
may lose its answer with or without having placed the order. `GiveUp` is the HTTP client's timeout,
`Crash` the adapter's death, `Forget` the record's TTL. `excused` collects the keys whose record could not be
relied on: a Redis error, an overlap, a crash, an expiry.

### TradeLifecycle

`worker`, `call` and `poll` are the writers, `row` the status, `order` what the order is at the
broker. `CancelRead`, `CancelAtBroker`, `CancelMark` are `CancelTrade`: read, the broker's cancel with
the code its client makes of the answer (`OrderRules`), an unconditional UPDATE. `PollList`, `PollBook`,
`PollApply` are one sweep of the fill poll: the SELECT with its LIMIT, today's book, and per row a lookup in
the book or the history, the guarded UPDATE and the push. `Report` and `Receive` are execution events in any
order. A world names the broker's client and what the broker may do: confirm a cancel later (`async`), answer
404 for a closed order (`forget`), report by itself (`report`), and let rows leave the 48-hour window (`age`).
A broker that does none but the last is called steady. `Pending` is what the SELECT finds for a credential that is active and of the
OAuth mode throughout; rows of a paused credential are not in it (section 6).

### PublisherHandoff

`worker[o]` stores the basket, links the trade, finalizes it at `pending_confirmation`. `kite[o]` is
what the user has done on Kite. A request (Kite's redirect, a reload of it, or the user's own
confirmation) resolves the order, writes it, and writes its trade, in three steps. Two expiry jobs,
the sweep and a user's view of the list, select overdue orders and then expire them one transaction at a time.
A world (`env`) says whether the redirect carries the signed state (`echo`; without it the code takes the most
recent open order), which faults may happen, and how many orders and requests there are.

### PaperAccount

Actors run jobs: a worker's order (quota, price, fill), a one-click close, the square-off, the mark job and
marks by signals, the equity snapshot that follows fills and sweeps, edits, status changes and resets by the owner.
The fill is one step because it is one transaction that locks the account; the snapshot reads account, trades and
positions in three. `CheckQuota` counts the orders of the month, or fails to and lets the order through (`uncounted` counts
those). What a job has read before is in `act[a]`. Quantities, prices and fees are integers, chosen
so that every average is a whole number.

### WebhookConfig

`hook` is the row with its status, token, `admin_disabled` and a revision; `cache[t]` the Redis copy under
token `t` with its expiry. A signal does `LookupCache`, `LoadRow`, `Warm`, `Judge`
(`IngestSignal`). An owner does `OwnerRead` (the authorisation and status checks on a loaded row), `OwnerWrite`,
`OwnerDrop` (the DEL). The platform does `PauseAll` (downgrade, which has no DEL), `SwitchMode` and `SweepWebhooks`
(the admin's mode switch, credentials first, webhooks second). `Delay` bounds the time between a
load and its warm; without such a bound no statement about the age of a copy holds.

### BrokerCredentials and FyersConnection

`cred` and `hook` are the two tables, `req[r]` a request with what it has read and its next step: create,
edit, pause, resume, delete and connect of a credential, create, edit, pause, resume and delete of a webhook. A
webhook's destination is a credential or a paper account (`KindOf`), and each kind has its own cap (`MaxWebhooks`). A
limit is a count step before the write that uses it up; an edit names another destination and counts nothing
(`EditHookLoad`, `Redirected`), and `uncounted` marks the webhooks that are of a kind nobody counted them in. A downgrade writes the plan and then pauses;
an administrator's switch writes the setting and then sweeps credentials and webhooks. `logins` are
browsers at Kite's login page; the return exchanges and stores with the keys of one read. A token is the app it
was issued to and the day part it was issued in; `now` counts the parts of an Indian day that matter (before 05:40, to 06:00, after).

`FyersConnection` is the row, the job (read, refresh, write, hand over), `provider` (the token the market data
client uses), `browsers` at FYERS's login and `told`, whether whoever connected has been asked to do so again.
The two share no state; their run explores them side by side.

### UserAccounts and OrgInvites

Request slots run `Register` (invite, duplicate address, create, mark the invite, then the verification link),
`ResendVerification`, `VerifyEmail`, `Login`, the administrator's patch and delete; `Logout`,
`CreatePlatformInvite`, `RevokePlatformInvite` are single statements. A link is issued in three steps: invalidate, insert,
mail. `tokens` are JWT claims, which nobody updates. `Restart` includes the bootstrap of the first administrator.
`peak` counts what overlapped, so that the properties can say by how much an overlap lets a bound be exceeded.
`OrgInvites` adds organisations, members and invites: `CountMembers`, `CountPending`, `LookUpInvitee` and
`InsertOrgInvite` make an invite, `AcceptLoad`, `AcceptCheck` and `AcceptCommit` accept it, and a user's `Delete`
cascades over both.

### TradePush

`Write` puts a row into the table, `LookUp` finds who may see it, `Snapshot` is the copy the hub takes of one
user's connections under its lock, `Send` the non-blocking send to one of them. A connection has a read
goroutine and a pump. The pump `Picks` what is ready in its select, is then `writing` it, and `WriteReturns` ends the
write: no deadline is set, so not as long as the client is there and does not read (`stalled`). `Fails` is what happens to the wire: the
client leaves (`gone`), stalls, or acknowledges nothing any more (`mute`); `ReadsOn` ends a stall; `Register`, `Ping` and `ReadFails` are
the read goroutine's. `got` is
what a browser has shown, `missed` what had a reason not to reach it.

### StripeBilling

Stripe's subscription changes emit events; a delivery runs `Handle`: has the event been recorded,
find the user, read the plan, write plan, subscription ids and source, pause what the plan does not
allow, record the event, each in a statement of its own. Any statement may fail and the process may die between any two; Stripe delivers
again until it gets 200. The admin's `AdminSetUserPlan` writes the plan and then the source. A plan
is its rank. `mixed` records that requests have overlapped or that an event was overtaken by a later one:
what the code keeps without it is more than what it keeps with it.

## 3. Runs

Every run ends without error. Each property has a mutant in `PROJECT.json`, a plausible bug in one of the mapped
definitions under which the same run finds it violated.

| Run | Shows | Instance |
|---|---|---|
| `Pipeline_safe` | `NoDoubleOrder`: two orders for one payload have claims a window apart; `DuplicateHasOriginal`: a 409 refers to a live original | 3 deliveries of one payload, 2 workers, channel of 1, window 2, clock to 3, no faults |
| `Pipeline_faults` | `OrderAccountedFor`: an order has an accepted signal and a row; `NoSendOnClosed`; `KeepsContract`: `OrderContract` is refined | 2 deliveries, every fault, a restart, clock to 2 |
| `Pipeline_live` | `AcceptedIsSettled`, `ShutdownCompletes` | 2 deliveries, fair, Redis failures, lost answers, stalls |
| `Config_ttl` | `StaleUntilTTL`: a stale copy is gone one TTL + `Delay` after the last change; `AcceptedWithinTTL`: a webhook that is off accepts nothing after that | 2 signals, 1 owner, every operation, 2 changes, failing Redis |
| `Execution_orders` | `OncePerKey`: one order per key, and its repetition hears the same; `AnswerMatchesBroker`: what the gateway says of an order is true, unless its code says that nobody knows; `StopProtects`: an entry with a stop distance has a stop or is not placed, and the stop is on the losing side of the quote and of the limit price, at Zerodha as far as these are within its reach (`WithinReach`); `CloseNeverReverses` | 2 commands, 64 starts: four brokers, local and HTTP, entries at market, at the signal's price and at one from the quote, closes, sizes, refusals; quotes of 5 paise, 1 and 10 rupees, stops of 2 rupees; one fault of any kind anywhere |
| `Trade_rows` | `FinalMatchesBroker`: a final row tells the fate of its order; `KeepsTradeStatus`: rows follow the documented lifecycle; `SubmittedIsSettled`: at Kite a submitted row whose order is closed is settled unless it has left the poll's 48 hours | 2 trades, five worlds: a steady Kite with rows that age and 2 cancels, Dhan, an Angel that forgets, MT5 that is late and reports, a Kite that forgets and is late; LIMIT 1, a failing call, an event; fair |
| `Handoff` | `OutcomeIsTheUsers`; `FollowsLifecycle`: trades follow `TradeStatus` whatever fails; `PendingIsResolved` | three worlds: no faults, 2 orders, 2 requests; failing statements and crashes, 1 order, 2 requests; no state echoed and crashes, 2 orders, 1 request; fair |
| `Paper_books` | `BooksBalance`: cash = start + realized - fees - cost of open positions, unless an edit has overwritten a fill; `EquityUnlessStale`: the two formulas of equity agree except at stale marks; `SnapshotIsAnEquity`: a snapshot is an equity the account had unless it was torn by two changes; `QuotaOvershoot`: the quota is exceeded by at most one order per further worker and one per order whose count failed; `CloseNeverOpens` | 2 actors, 2 symbols, every job, 3 jobs, 2 lots, 3 prices, quota 1 |
| `Billing_events` | `InSync`, `AdminOwnsPlan`: when nothing overlaps, plan, source and subscription follow Stripe and admins keep what they gave; `AckedIsHandled`, `DowngradePauses`, whatever overlaps or fails | 2 actors, 3 events, an admin request, a fault |
| `Credentials` | `ActiveWithinPlan`: active credentials, and the live webhooks that a create or a resume counted, exceed the plan by at most the other requests in flight; `LoginIsHonest`: a stored token is of the app stored beside it and the status shown is Kite's; `FeedIsKept`: a FYERS token near its end is replaced or somebody is told, and the provider comes to use the row's | nine worlds: limits on credentials of two plans, limits on webhooks with a downgrade, edits of webhooks between paper and live, the same under the platform's switches, edits against logins, switches on new credentials and on edited ones, FYERS; 3 credentials, 3 webhooks, 2 requests at a time, 3 to 5 in all |
| `Accounts` | `LinksWithinOverlap`, `InviteAdmitsOnce`, `SeatsWithinOverlap`: usable links, accounts per invite and seats exceed their bound only by what overlapped or failed; `AdminClaimsHold`: whoever passes the administrator's check is one | eight worlds: registration behind an invite, with an administrator revoking it; links issued and used; patches and deletions; invites made and accepted; a bootstrap |
| `Admission` | `RatesHold`: late passes and those Redis failed for apart, no counter admits more than its limit within its TTL, and nobody is refused without as many requests before; `HoursKept`: the hours rule opens exactly in the configured hours; `AnsweredIsOnRecord`: every answer has its row, and an executed order is the one its webhook allows and its body asked for; `FeedHasNoGaps`, `GoneIsForgotten`: the trade feed | eleven gates: counters of a webhook, a user, a day, a credential with a failing Redis; seven schedules in three time zones; every body on every kind of webhook with failing look-ups and inserts; three feeds, with clients that leave, stall and fall silent |

**Bounds.** Three deliveries are the fewest for which a claim can be released under a later claim while an
earlier job is alive; two workers and a channel of one make a full channel and a race between workers
happen; a clock of one window plus one lets a claim expire and be taken again. One restart lets a
crash meet what it left behind. Crashes are part of `Pipeline_faults` with two deliveries; that they do not
disturb the separation of claims for any number of deliveries is the theorem `DedupSeparatesOrders`. Two
requests, two orders, two trades or two commands are the pair every race in these components needs; a third actor waits for
the same rows and adds no new pair. `Paper_books` bounds the number of jobs, because prices and cash would
otherwise grow without end; three are enough to open, close and mark, to reset under a snapshot, or to let two
orders race past the quota. Its prices are multiples of 1260 and its tick 2520, so that one price lies between two ticks, as a last
price may. `Billing_events` needs three events for checkout, change and cancellation. One fault is enough for
`Execution_orders`: every statement of its properties is about one execution and its repetition, and the second fault would
hit an execution that is already excused; that more do no harm is the theorem `OneOrderPerKey`.

In `Admission` a clock tick is a fraction of what the code counts: `SecTTL` and `MinTTL` are the 2 s and 60 s
of the counters, `Day` and `Week` shrink the calendar to days of four ticks and a week of three days, `DailyCap` stands for
100 and `SendBuffer` for 16; two hits, a boundary and a refill are what the rules are about. In `Credentials` a day
has the three parts between which Kite's status can change.

`MaxTime`, `MaxRestarts`, `MaxRev`, `MaxJobs`, `MaxEvents`, `MaxGrants`, `MaxFaults`, `MaxFailures`, `MaxReports`,
`MaxLogins`, `MaxSwitches`, `MaxConnects`, `MaxUsers`, `MaxLinks`, `MaxInvites`, `MaxTokens`, `MaxOrgInvites`, `MaxWrites`
and the numbers in a world only bound exploration; they stand in the guards of the actions they bound. Each run with a bound reaches
states in which nothing more can happen, so deadlock is not checked: a bounded run, a gateway that has shut
down or an account without further requests stops legitimately. That the parts do not wait for each other for ever
is checked by the runs with liveness properties.

**Symmetry** is used only for sets of interchangeable names (deliveries of one payload, workers, signals,
owners, symbols, actors), in `Pipeline_safe`, `Config_ttl`, `Paper_books` and `Billing_events`, none of which has a
liveness property.

**Fairness.** `Pipeline_live`: a goroutine that can run runs (the Go scheduler), and every call it
makes ends, since Redis, PostgreSQL and HTTP clients have timeouts. `Handoff`: the same, plus the sweep's
ticker and the clock. `Trade_rows`: the fill poll's ticker, the worker, and that an exchange closes
an order in the end. `Credentials`: the FYERS job's ticker. `Admission`: the hub's and a connection's goroutines run,
and a read on a broken connection returns. A write of the pump returns because the client takes it, or because the connection
ends: the client leaves, or TCP gives up on one that acknowledges nothing. To a client that stays, acknowledges and does not read
(`stalled`) it need not return, since neither the hub nor the route sets a write deadline; there `WriteReturns` is not
enabled, no fairness is assumed, and `GoneIsForgotten` promises nothing until that client leaves. No fairness is assumed of users, admins, owners, faults,
crashes or lost answers, and none at all in `StripeBilling` and `OrderExecution`: their statements are about
what has been acknowledged.

## 4. Proofs

The proof modules hold for any number of deliveries, workers, keys, signals, owners, commands, trades,
requests, users and events, any set of worlds, any window, capacity, TTL and delay, and every number of faults:
their only assumptions are `ConstantsOK`, `ConfigConstantsOK`, `ExecutionConstantsOK`, `TradeConstantsOK`,
`HandoffConstantsOK`, `PaperConstantsOK`, `AdmissionConstantsOK`, `PushConstantsOK`, `BillingConstantsOK`, `CredentialConstantsOK`,
`StartsWithinPlan`, `AccountConstantsOK` and `OrgConstantsOK`, which TLC evaluates
in the runs of their component. The last two say that the rows a world starts from fit in the tables, that its sessions tell the
truth, and that an organisation has a seat for its owner (`migrations/000_schema.sql:139` demands `seat_limit > 0`).
`StartsWithinPlan` says that a user does not start with more credentials than the plan allows. `ExecutionConstantsOK` says what the
gateway forwards (`Wanted`: a side, one of the three products, whole sizes and distances) and that positions are whole numbers.
The theorems about `SignalAdmission` are about `GateSpec`, its specification for a `gate` that is `WellConfigured`: limits and
TTLs are whole numbers, windows lie within a day, and the rates that stand together on one counter use one TTL. The run
explores only such gates, which the assumption `GatesAreWellConfigured` has TLC check.

| Theorem | States |
|---|---|
| `TypeCorrect`, `Invariance` | `TypeOK` and `PipelineInv` are invariants of the pipeline under every set of faults |
| `OrdersAreAccountedFor` | an order exists at most once per accepted signal and never without a row |
| `NeverSendsOnClosed` | no handler can send on the closed channel |
| `RowsStayFinal` | a final row is never overwritten by the pipeline |
| `DedupSeparatesOrders` | if Redis answers and no goroutine stalls for a window, two orders for one payload have claims at least a window apart |
| `DuplicatesHaveOriginals` | if Redis and PostgreSQL answer and the process does not die, a 409 refers to another delivery that is on its way or on record |
| `PipelineKeepsContract` | the pipeline implements `OrderContract` |
| `ConfigInvariance` | `ConfigInv` is an invariant |
| `StaleEntriesExpire`, `PauseBitesWithinTTL` | a stale copy is gone, and a webhook that is off accepts nothing, one TTL + `Delay` after the last change |
| `ExecutionInvariance`, `OneOrderPerKey` | an execution places at most one order; two commands with one key place one and hear the same, unless the record of the key could not be relied on |
| `AnswersMatchBroker` | an answer of "submitted" has exactly one order, one of "rejected" with a code that is sure has none |
| `LifecycleInvariance`, `FinalRowsTellTheOrder` | at a steady broker a final row agrees with its order, whoever wrote it |
| `RowsKeepTradeStatus` | at a steady broker the rows implement `TradeStatus` |
| `HandoffInvariance`, `OutcomeFollowsUser` | with the state echoed a trade is submitted or cancelled only as its user decided |
| `HandoffFollowsLifecycle` | the handoff's trades implement `TradeStatus` under every fault |
| `StopsProtect` | at every broker, an entry with a stop distance goes out with a stop or is not placed; the stop is on the losing side of the quote and of the limit price, at Zerodha unless the quote is at most five paise or the signal's limit price beyond the trigger |
| `ClosesNeverReverse` | a close sells or buys back what is held and no more |
| `PaperInvariance`, `QuotaOvershootIsBounded`, `SnapshotsAreEquities`, `ClosesNeverOpen` | the paper quota is overshot by at most one order per further worker and one per order whose count failed; a stored equity was the account's unless two tables changed under it; a close leaves a position flat |
| `BooksInvariance`, `BooksAlwaysBalance`, `EquityAgreesWithCash` | while averages are whole (`WholeAverages`), cash is what start, profit, fees and positions leave, and both formulas of equity agree, unless an edit or a late mark has written over a fill |
| `RequestsInvariance`, `HoursAreKept`, `AnswersAreOnRecord` | the hours rule admits exactly what the schedule means; every refusal has its row and every execution is what its webhook allows and its body asked for |
| `CountersInvariance`, `RatesAlwaysHold` | no window admits more than its limit, passes whose counter expired between INCR and EXPIRE and those Redis failed for apart; nobody is refused without as many requests before, each linked to the next |
| `FeedInvariance`, `FeedNeverGaps` | a connection that works misses nothing except for a reason of its own |
| `AdminClaimsAlwaysHold` | whoever passes the administrator's check is an administrator in the table now |
| `LinksAlwaysWithinOverlap`, `InvitesAlwaysAdmitOnce`, `SeatsAlwaysWithinOverlap` | links, accounts of an invite and seats exceed their bound only by what overlapped or was lost |
| `BillingInvariance`, `AckedEventsTookEffect`, `DowngradesPause` | Stripe hears 200 only for an event that took effect; after a downgrade nothing forbidden runs unless a pause was lost |
| `SyncInvariance`, `UserStaysInSync`, `AdminKeepsThePlan` | while requests do not overlap, the user has exactly what Stripe names once every event is acknowledged, or what an admin gave |
| `CredentialInvariance`, `LoginsAreHonest` | a token is stored with the key of its app, and a login is shown as live or expired as Kite would have it |
| `ClaimsInvariance`, `PlansAreKept` | active credentials, and the live webhooks that were counted as live, exceed the plan by at most one per further request, whatever edits move between paper and live |

*The pipeline.* `OrderAccountedFor` is not inductive: a job that sits in the channel twice, or at a worker and in the
channel, would be executed twice. `HandlersOK` says which answers a handler may have at which step; `NoSendOnClosed` that none is
left at the enqueue step when the channel is closed; `QueueOK` that the channel holds each accepted delivery once and
none that a worker has or has had; `WorkersOK` that two workers never hold one job and what the row
and the broker show at each step of a worker. With `TypeOK` and `OrderAccountedFor` they make up `PipelineInv`, which is inductive: the proof
has one lemma per action, and under it one step per part the action can disturb. Facts about the
head, the tail and the elements of a sequence are lemmas of their own. `RowsStayFinal` and the
refinement use the invariant in the pre-state and the same case split.

*Dedup.* `NoDoubleOrder` follows from `DedupInv`: `ClaimsAlive`, a delivery that holds its claim and is
within the window finds the key in Redis at or beyond its own expiry, and `ClaimsApart`, two deliveries that hold
claims of one key took them a window apart. They need `PipelineInv` (who may still release a key) and
the premise that Redis answers and that no handler stalls between its claim and its release for a whole
window (`redis`, `stall` not in `Faults`); section 5 shows that the first premise is necessary.
`DuplicateHasOriginal` asks the converse, that a live key has somebody behind it: `OriginalInv` says that who set it still holds it
(`KeysHeld`) and that an accepted signal is in the channel, at a worker or on record (`AcceptedLeaveTraces`). The premise is `NothingLost`:
`redis`, `store` and `crash` are not in `Faults`; a failed release, a failed audit of a rejection and a crash each leave a key with nobody behind
it. Stalled handlers do no harm here, since a late release only frees a key.

*The configuration.* `StaleUntilTTL` speaks of entries only. It becomes inductive with `EntriesOK` (an
entry's revision is at most the row's, one of the same revision is the row, none outlives TTL after its
write) and `WarmersOK` (a signal about to warm loaded its copy at most `Delay` ago), on
top of `RowOK`. A warmer is what can make an entry stale after the fact.

*Execution.* The steps are first sorted by what they do to the record and the book (`StepCases`): the execution works on
(`Worked`), places the order and concludes (`Ordered`), or is one of the steps around them. That a client
never repeats its POST is a fact about `ShouldRetry`. `OneOrderEach` says that an execution has no order
before it concludes and one after it, which carries its name; `RecordHolds` that, while the record of a key
can be relied on, whoever executes under it is alone and has found nothing, and whoever is past the store answers what
is recorded; `RefusedAtGateway` covers a gateway that refuses before the adapter is asked; `HeardOutcome` relates
what the gateway hears to the outcome. `AnswersHold` says of every answer, in the outcome, in the record and at the gateway,
that it is true of the order of whoever it names, and that this one is past its POST, so that it stays true; the lemma
`LostIsUnsure` is where the codes of a missing answer enter. `OneOrderPerKey` follows: of two commands with one key only one can own the
recorded outcome's order.

`StopProtects` and `CloseNeverReverses` speak of an order in the book, long after it was built. `OrdersInv` follows it: `Prepared`
says of a draft, at every step from the look-up to the POST, that it has the right side and size and that its stop, where
there is one, will be found from a quote that is known by then (`Entering`, `Opposite`, `Leaving`); `Standing` says the same of what is in the book. The
arithmetic of each broker's rules is in lemmas about `OrderRules` and `Plan`.

*The trade lifecycle.* `FinalMatchesBroker` is not inductive because each writer acts on what it has read. `WorkerOK`: until
the worker is done the row is queued and unlinked, and its answer is true of its order. `LinkOK`: a row beyond queued has an
order, and none waits to be cancelled. `CancelOK`: a cancel that is about to mark the row has cancelled the
order. `BookOK`: a closed order in the poll's book is as the book says, however old the book. They hold at a steady
broker; `Answered` and the types hold at any. The refinement uses them for the two updates that do not look at the row.

*The paper account.* `QuotaInv` counts, next to the orders placed, those that have passed the check and are not filled yet
(`Filling`): each was let in below the quota or uncounted, so the sum exceeds it by at most one per further worker and one per
order of the second kind. `SnapInv` says what an actor that
is reading the three tables may rely on (`Honest`): the equity of now is among those seen, a table that has not changed
still says what was read of it, and what was read is an equity of before while only one table has changed. The sum over the symbols stays one
opaque number in that argument.

The books need the sum itself: what a fill, a close or a mark does to one position must come out in the total. `SumFunction`
adds by an element of its own choice, so that any element may be taken first is an induction over the set of symbols, which
is carried out by its smallest counterexample (`SmallestSet`, `TotalWithout`; `SumAfterChange` and `SumOfDifferences` are what the rest
uses). `FillPays` is the arithmetic of a fill: the cash it moves is the cost it adds to the position less what it
realizes, whether it opens, adds, reduces or turns the position round. `BooksInv` is the two properties made inductive by
`MarksAreFresh`; an edit keeps it because it writes back what it has read, or moves both balances of an account to which nothing
has happened. The theorems speak of behaviours whose averages are whole (`WholeAverages`): the code divides float64s, and the rounding is left
out. Every step of `Paper_books` is one: its prices and lots are chosen so that they divide.

*Admission.* `Judged` says what has been established of a request at each step, first at the gate and then at the worker, and `RequestsInv`
that every refusal whose insert did not fail has exactly its row; `AnsweredIsOnRecord` is what is left of it at the
end. `ScheduleMeansHours` is the lemma that the window rule of the guard is the reference
`OpenAt`, for any length of a day and any time zone. A counter forgets: it has only a number and an expiry. `LogInv` relates it
to the log of its hits, at every point between the two commands of each: the count rises by one with each hit or begins again (`CountsUp`); a pass whose window is not over
is still in it, and the counter outlives that window (`Remembered`), so every hit within the window has counted it (`SeenLater`); and the
hits it counts are linked, each to the next (`RenewedBy`, `AllLinked`). `IncrKeeps` and `RenewKeyKeeps` are the two commands. A pass whose counter had expired before its EXPIRE is `late` and nothing is promised of
those after it. So a pass finds fewer than the limit, and a refusal as many hits before it.

*The handoff.* The worker writes a trade before anybody else can find it (`WorkersFirst`), and between two statements a
request says of its order what the user did (`SaysIsKite`). The expiry jobs never write an outcome of the user's, so
they do not disturb it.

*The feed.* `FeedHasNoGaps` needs only `Listed`: a connection that works is in the hub's map. So the copy a
broadcast works through contains it, and what is sent to it is in its queue, was shown, or was dropped by a full queue.

*Billing.* `RecordedLast`: what is recorded, or is about to be, has taken effect; so an answer of 200 finds it handled.
`PausedInTime`: unless a pause was lost, what runs is allowed by the plan or an actor is between
the plan and the pause of that resource.
`InSync` compares the two ends of a protocol. `FollowsInv` says that, while nothing overlaps, the acknowledged events are the
first k, and what they leave behind is read off a table of marks, one per number of events: the plan, and whether a subscription is
alive. Between two events the row of the user is the mark (`Base`); while one is being applied, or a handler died on it, it is the mark up to how far
the effect has come (`Pending`, `Effect`), since a retry starts from there. The table is an existential and a new event
extends it by one row, so no fold over the events is needed. That an admin has taken over is the other half of `Base`: the row keeps
what was granted.

*Credentials.* `CredentialInv` says of every row, stored or carried by a request, that its token is of the app whose key is
beside it, that a request to create carries no login and one to pause a paused row, and (`Honest`) that a login which
nothing has overtaken was made on the Kite day of its token; the lemma `StatusFollowsKite` is the arithmetic of that day. `ActiveWithinPlan` becomes inductive
by counting claims: `CredClaims` are the requests that may still activate a row because they were counted, or because they read a
plan the user no longer has. A request in flight becomes a claim only when there is room, so active rows and claims stay within
the limit and one for every further request, also while a downgrade sweeps. An edit that moves a webhook counts nothing and claims
nothing; the webhook it moves is `uncounted` from then on and not among those bounded (`CountedHooks`), until a resume counts it
(`HookWritesCount`).

*Accounts and organisations.* `AdminClaimsHold` speaks of tokens; `AdminInv` adds what makes it inductive: a request that carries a
role it has read (to a signature, or through an acceptance) carries one its row still has, and a deletion in flight aims at no
administrator. Both could be broken only by a promotion, and a restart, which is the only step that promotes, drops the
requests. The three bounds are steps of one argument: each becomes inductive by counting, next to the rows that are
there, the requests on their way to add one (`LinksInv`, `DoorsInv`, `SeatsInv`). For an invite there are two phases: until somebody has
marked it, every account it let in is about to mark it or lost the mark; from then on nobody new gets in. Most steps are sorted out by
`QuietStep` and `PlainOverlap`; the steps that count have a lemma each.

*Only model-checked:* `FyersConnection`, whose one property is a liveness property; and all
liveness: `AcceptedIsSettled`, `ShutdownCompletes`, `PendingIsResolved`, `SubmittedIsSettled`, `FeedIsKept`, `GoneIsForgotten`. The type of
`todo` in `TradeLifecycle` would need that every finite set can be put in order, and no theorem needs it. Liveness under
fairness and `ENABLED` are out of the prover's reach; no module declares a recursive operator.

## 5. Promises that do not hold

These properties stand in the modules next to the ones that hold. TLC finds each violated in the instance
named (constants that are not named are as in the component's run, symmetry off). Those in
italics are properties of a run without their premise. The lines are where the code makes the choice.

| Property | Instance | What happens | Where |
|---|---|---|---|
| `NoDoubleOrder` | `Pipeline_safe`, 2 deliveries, `Faults = {"redis"}` | Redis fails, the signal goes on without a claim, the look-up of the earlier row comes too soon | `modules/signals/handler.go:191` |
| `DuplicateHasOriginal` | the same, `{"crash"}`, `MaxRestarts = 1` | the channel is lost, the claim stays, the retry is refused as a duplicate of a signal that never traded | `modules/signals/handler.go:199` |
| `DoneIsSettled`, `DrainedBeforeDown` | the same, `{"deadline"}` | an execution uses up the job's context and the row stays at `queued`, also after a clean shutdown | `platform/queue/trade_reject.go:96` |
| `OldTokenRefused` | `Config_ttl`, `Ops = {"rotate"}`, `Platform = {}`, `TTL = 2`, `Delay = 0`, no Redis failures | a copy loaded before the rotation is warmed after its DEL: the old URL trades until the TTL | `modules/signals/handler.go:61` |
| `PauseIsImmediate` | the same with `Ops = {"pause"}` | the same for a pause | `modules/signals/handler.go:61` |
| `DisabledStaysOff` | one signal, `Ops = {"pause", "resume"}`, `Platform = {"disable", "enable"}`, `MaxRev = 4` | a resume that read the row before the sweep switches it on again | `modules/webhooks/handler.go:728` |
| *`FinalMatchesBroker`* without `Steady` | `Trade_rows` | at a broker that forgets or confirms late a cancel overwrites or pre-empts a fill | `modules/webhooks/handler.go:886` |
| `PushedIsStored` | `Trade_rows` | the poll pushes a fill that its guarded UPDATE did not store | `zerodha/fillpoll/job.go:162` |
| `FinalStays` | `Trade_rows`, `MaxReports = 2` | an execution event undoes a final row | `modules/internalapi/handler.go:54` |
| *`SubmittedIsSettled`* without `Steady` | `Trade_rows` | LIMIT hides a newer row behind forgotten ones | `store/trade_fill_poll.go:37` |
| *`PendingIsResolved`* without `env.faults = {}` | `Handoff` | the worker or a callback dies between the order and its trade; nothing revisits the trade | `modules/publisher/handler.go:146` |
| *`OutcomeIsTheUsers`* without `env.echo` | `Handoff` | a redirect without the state settles the most recent open order, whoever's it is | `modules/publisher/handler.go:106` |
| `FinalStaysFinal` | `Handoff` | a confirmation that resolved the order in time is written over its expiry | `store/publisher.go:66` |
| `EditsKeepBooks` | `Paper_books`, 2 jobs of `{"order", "edit"}` | any edit, also of the label, writes the cash it read over a fill's | `store/paper_trading.go:146` |
| `EquityIsEquivalent` | `{"order", "sweep"}` | a mark computed for a row that has changed since leaves unrealized P&L on a flat position | `marketdata/snapshotjob.go:183` |
| `QuotaKept` | one actor, `{"order"}`; 2 actors; or one and 4 of `{"order", "reset"}` | a count or look-up fails and the order goes through; two workers count, then both fill; a reset deletes the rows that are counted | `platform/queue/paper_quota.go:33` |
| `SquareOffCloses` | one actor, `{"order", "squareoff"}` | the price taken lies between two ticks and is refused | `paperengine/fill.go:41` |
| `DuplicatesIgnored` | `Billing_events`, `Grants = {}` | two deliveries of one event overlap between look-up and record | `billing/webhook.go:44` |
| `AdminOverrideKept` | `Paid = {1, 2}`, `Grants = {2}` | a later event that is not for the plan overwrites what the admin gave | `billing/webhook.go:99` |
| `PlanFollowsStripe` | 2 events | a cancellation overtakes the checkout | `billing/webhook.go:123` |
| `PlanFollowsPrice` | `Paid = {2, 3}` | a change in Stripe's portal changes the price and not the metadata | `billing/webhook.go:205` |
| `RatesHoldForAll` | `Admission` | the counter expires between INCR and EXPIRE: that pass is forgotten, and the window admits another in its place | `store/redis.go:72` |
| `StopAlwaysProtects` | `Execution_orders` | a BUY at a quote of five paise has its trigger raised to the quote; a limit price from the signal lies beyond the trigger found from the quote | `integrations/brokers/livebrokers/zerodha.go:165` |
| `MovedWithinPlan` | `Credentials` | webhooks are created on paper, under paper's cap, and moved to a live credential one after the other; the comment above says that both share one pool, line 363 and `shared/handler.go:191` that each has its own cap | `modules/webhooks/handler.go:594` |
| `WritesReturn` (under `PushFairness`) | `Admission` | a client that stays and does not read keeps the pump in its write and its own place in the hub | `transport/websocket/hub.go:93` |
| `DowngradeAlwaysPauses` | as it is | the plan is written, the pause fails, and the retry finds nothing to downgrade | `billing/apply_plan.go:90` |

They fall into six groups: an unconditional write after an earlier read; two statements that belong together; state that
outlives what it stands for; a wrong choice of what to read; a check that is left out or lets pass what it cannot decide; a resource (the job's context, the
precision of a price, the LIMIT) used up before it is needed. For each the runs of section 3 show what
does hold: `StaleUntilTTL` next to `PauseIsImmediate`, `EquityUnlessStale` next to `EquityIsEquivalent`,
`QuotaOvershoot` next to `QuotaKept`, `RatesHold` next to `RatesHoldForAll`, `ActiveWithinPlan` next to `MovedWithinPlan`, `InSync` and `AckedIsHandled` next to the billing ones.

The models also made the following visible; they are described here because a reader of a model will
look for them, and are part of the modelled behaviour unless marked (not modelled).

*Admission.* A window over midnight that is listed on one day opens in the early and the late hours of that same day and is shut
the next early morning (`guard/guard.go:368`). The hours are checked at ingestion and not again at the worker. A
client that never pauses for a TTL is refused for ever once it has reached its limit, because every hit, a refused one
included, renews the counter's expiry (`store/redis.go:79`); an EXPIRE that fails leaves a counter without one
until the next hit. The second normalisation of a misplaced order type never recovers one (`paper_parse.go:66-68` says
it does). A `PRICE_UPDATE` to a paused webhook leaves a rejected row without a side, other refused price updates leave
none, although `ingest_reject.go:30-32` says that no rejection is silent. `CheckMarketHours` fails open.

*Push.* An older push can arrive after a newer one, and a full queue loses the last status of a trade: the
dashboard shows it after a reload. A client that does not read holds two goroutines, a socket and a full queue for as long as it stays;
the other connections of its user are not affected, because a broadcast never waits. A logout does not end an open connection (not modelled).

*Execution.* A request that overlaps its repetition, or follows the record's loss, places a second order
(`ADAPTER_SPLIT.md:327-329` promises the opposite). A lost answer is recorded as a
rejection, and the repetition hears that rejection of an order that exists; its code is one of those `Unsure` names. The
quantity reported is the lot, not the shares ordered or closed (`live.go:201`). The cap on the lot is checked
before it is rounded. Two closes that read the same position both sell it. Zerodha's cover order drops a target without
a stop; Dhan refuses a close with a stop only after it has looked up the instrument; Angel falls back to the first
row of a search. Over HTTP `live_not_allowed` arrives as `internal`. A broker in demo mode without a demo URL is
called at the live one (not modelled).

*Credentials.* A label edit that overlaps a reconnect at Kite writes the old token back under the new
`connected_at`. A token exchanged before 06:00 and stored after it is shown as valid. Changing the mode or the broker
of a credential that the administrator has disabled leaves it disabled under a mode that is enabled. Two overlapping
switches can leave rows blocked under an enabled mode, and the errors of a sweep are ignored. The reminder at 05:50 also
goes to users of the Publisher and is lost if the process restarts in that minute (not modelled). A FYERS refresh
that started before a login overwrites what the login stored; a tick that cannot decrypt or encrypt a token tells nobody; a callback without a refresh token wipes the stored one;
the administrator is told again at every tick.

*Accounts.* A user deleted between an invite's load and the acceptance is inserted again with the old row
(`store/invites.go:217-226`). `AdminDeleteUser` answers 500 for a user who has used, made or sent an invite: those three
references do not cascade, although `store/users.go:83-84` says that all do. A suspended user's tokens go on working
(`docs/plans/beta-phase-4-live-broker-launch.md:92` says that they do not); `CheckRevoked` lets a token pass when Redis
fails. A platform invite can be used after its revocation by a registration that had read it, and a mark that fails is
only logged, so the invite can be used again. A failed mail leaves a link that nobody has. An expired invite to an
organisation still blocks a new one. A suspended account that becomes the bootstrap administrator stays suspended.

*Paper.* A starting-balance edit and a `PRICE_UPDATE` take no snapshot; a reset during a snapshot leaves one
of the account's earlier life. `GetPaperAccountPnL` dereferences a nil summary if the account is deleted
meanwhile (not modelled).

## 6. Not modelled

* Wording, formatting and encodings of broker requests; error texts, metrics, audit and ingest logs.
* Encryption of credentials, password hashing, token formats: what a wrong one leads to is a refusal.
* The connection test of a credential and lists that are only read.
* CRUD of one statement: symbols, profiles, settings, organisation policy, reports, notifications. Organisations and
  their invites have no route that creates them; store functions without a caller (`CreateOrgWithOwner`,
  `TransferOrgOwnership`, `LeaveOrg`, `RemoveOrgMember`) are left out.
* The Stripe checkout and portal sessions, which keep no state of the gateway's.
* Fills of a credential that is paused or changes its mode: the fill poll lists the rows of active OAuth credentials only
  (`store/trade_fill_poll.go:35-36`), so `SubmittedIsSettled` speaks of a credential that is one throughout. A row of a paused credential stays at
  `submitted` and, once it is 48 hours old, is never listed again.
* Prices of live fills, which nothing decides on, and the case of the word in an execution event
  (`internalapi/handler.go:51` stores it as written).
* Several gateway processes on one database. The code assumes one: the fill poll, the square-off and
  the hub are per process.
* `components` in `PROJECT.json` names every part that is left out, with the reason.

## 7. Plan

In order, with what is done marked:

1. [x] `OrderContract`, `SignalPipeline`, proofs of the invariant, dedup and the refinement.
2. [x] `WebhookConfig` and proofs of the TTL bounds.
3. [x] `TradeStatus`, `PublisherHandoff`, `TradeLifecycle`; [x] proofs of their invariants and of `TradeStatus` refined.
4. [x] `PaperAccount`. [x] `StripeBilling`; [x] proofs of what an acknowledged event and a downgrade leave behind.
5. [x] `OrderRules`, `OrderExecution`; [x] proofs of one order per key and of true answers.
6. [x] `SignalAdmission`: guard, hours, counters.
7. [x] `BrokerCredentials` with the plan's limits, Kite's login, the platform's switches; [x] `FyersConnection`.
8. [x] `TradePush`; [x] proof that a feed has no gaps.
9. [x] `UserAccounts`, `OrgInvites`; [x] proofs of the administrator's claims and of the three bounds.
10. [ ] Composition of `SignalPipeline`'s dedup with `TradeLifecycle`: a cancelled or rejected row no longer counts as active.
11. [x] Proofs about `PaperAccount`, `SignalAdmission`, `BrokerCredentials`, of stops and closes in `OrderExecution`, and of the plan
    in step with Stripe.
12. [x] Proofs of `DuplicateHasOriginal` and of the books of a paper account.
