# Verification of turtle_bot

TLA+ models of `turtle_bot`: how a live order is claimed, sent, recorded,
cancelled and synced; how iterations and the smoke test decide that an order may
be sent; what the strategy runtime makes of holdings, rows and bars; how market
data is fetched through caches and rate limits; what the dashboard does to the
config file, what it starts and stops, and what it tells its operator; how four
backtest engines book their trades; and the gateway that gives several users a
dashboard each. TLC checks the models on small instances. TLAPS proves the main
safety properties of the order path and its callers, the loop, the runtime, the
market data, the dashboard, the backtests and the gateway for every value of the
constants: each invariant and action property of a run that holds is also a theorem.

Paths are relative to the repository. `bot/` below abbreviates
`src/turtle_bot/`.

## 1. The system

| Component | State it keeps | Operations | Talks to |
|---|---|---|---|
| Live order orchestrator `bot/live_execution.py` | none of its own | `submit`, `cancel_acknowledged` (`modify_order` has no caller) | safety, adapter, ledger |
| Broker adapter `bot/toss_live_adapter.py` | none | place, cancel, query; maps errors to known / unknown state | Toss HTTP client |
| Ledger `bot/state_store.py` | SQLite: `execution_orders`, events, positions, signals, runtime events | upserts, unresolved rows, daily summary | every process that opens the database |
| Order sync `bot/operations.py:2259` | none | queries each unresolved row that has a broker id, writes the answer | adapter, ledger |
| Pre-trade safety `bot/live_safety.py` | none | `validate(intent, context)` | called by `submit` |
| Live iteration `bot/operations.py:1475, 1778` | counters of the pass | reconcile, run strategy, sync, summary, final guard, submit each intent, cancel after ack | all of the above |
| Smoke test `bot/operations.py:1995` | none | one test order and its cancel | the same |
| Dashboard process `bot/operations.py:257-627`, `bot/health.py:6315` | config file, loop thread, stop event, remembered mode and blockers, shown settings, process environment | settings, pilot, stop, live-once, smoke test, readiness | its browser, loop thread, ledger |
| Position sync `bot/position_sync.py` | positions, closed orders | copy holdings, reconcile holdings and open orders with the rows | client, ledger |
| Runtime `bot/paper_runtime.py` | positions, signals, orders, fills | turtle and momentum runs, guard, fill simulator | strategy, ledger, market data |
| Strategy `bot/strategy.py`, `indicators.py` | last trade outcomes | breakout, pyramid, stop and exit signals | runtime, backtests |
| HTTP client, rate limits `bot/toss_client.py`, `rate_limit.py` | token; remaining budget and pauses | requests, token refresh, resend after 401 | everything that talks to Toss |
| Market data `bot/toss_market_data.py`, `market_cache.py` | candle cache of an iteration, stored snapshots | fetch pages, fall back after 429 | client, ledger |
| Universe, watchlist, calendar `bot/universe.py`, `watchlist.py`, `market_calendar.py` | latest watchlist | which symbols, is the market open | market data, runtime |
| Backtests `bot/backtest.py`, `scan_backtest.py`, `momentum_backtest.py`, `pit_universe.py` | cash, positions, trades, audit, curve | four engines over CSV candles | CLI |
| Multi-user gateway `ops/multi_user_gateway.py` | registry file, secrets, directories, containers, setup attempts | set up, route, stop, start, restart, remove, offboard, delete, clean up | Docker, the users' dashboards |
| Reports, notifier, AI summary, pages, CLI | none that trading reads | output only | - |

How they interact. A worker (the dashboard's loop thread, a dashboard request
that runs one iteration or the smoke test, the launchd service) runs order
passes. A pass reads the broker and the ledger, takes a snapshot of both, and
submits its intents one by one on that snapshot. Nothing but SQLite locks the
ledger, nothing but the ledger remembers a sent order, and the only lock above
that, the dashboard's `action_lock`, does not cover the loop thread.

What is hard, and what must hold in spite of it:

- **Crash or exception between send and record.** The order may exist, or
  arrive later. The row written before the send must keep blocking. A socket
  timeout is not a `LiveBrokerError`, so it unwinds the whole pass.
- **Lost or late answers.** An order of unknown fate must never be taken for a
  failed one, nor may the resend after a 401 make a second one.
- **Two workers and stale answers.** A sync may write what it read before
  another worker moved on.
- **Cancel after ack.** A refused or lost cancel leaves a live order behind a
  row that says `FAILED`; an accepted one renames the order in the ledger.
- **Snapshots.** Counters and unresolved rows are read once per pass.
- **Stop while an iteration is running**, a config file that is truncated
  before it is written, a start that meets a loop about to end.
- **Two truths about a position.** The broker's holdings are read before its open
  orders, then copied over rows that the strategy decides on.
- **Data of several ages.** Pages, caches, stored snapshots and fallbacks are put
  together into one series; the dashboard puts its verdict together from a file,
  an event and its own memory.
- **Pauses that outlive the client** that was told to wait.
- **A fuse over events**: consecutive failures are counted over passes, restarts
  and blocked attempts.
- **Bookkeeping in several places**: cash, units, averages, fees and skips of
  both directions, in engines that repeat each other's rules.
- **The gateway's rollback** races requests for the user it is taking back, may
  leave credentials or the container behind, and a command is another process
  that shares the registry file but no lock.

The full list, each with its line and the properties that cover it, is in
`PROJECT.json` under `hazards`.

## 2. Modules

```
OrderClaim                the contract of one order intent (abstract)
   ^ refined by
LiveExecution             orchestrator, adapter, ledger, sync; broker external
   ^ EXTENDS
LiveService               callers: iteration, smoke test, safety checks, counters

TradingLoop               dashboard requests, loop thread, stop event, config file
Calendar <- Dashboard     settings, pilot, passes, runtime events, readiness

Turtle, MomentumRank      rules and ranking as operators
   ^ EXTENDS                          ^ EXTENDS
BacktestFills             |   PaperRuntime   runtime, position sync, broker account
   ^ EXTENDS
TurtleBacktest -> ScanBacktest
SingleBacktest, MomentumBacktest
   all composed in Backtests          one command of the CLI

TossRead <- MarketData    rate limits and requests; fetches, rounds, iterations

Gateway                   user registry, secrets, containers, requests, commands
```

`X <- Y` means Y EXTENDS X. The `MC*` modules give TLC symmetry sets, prices,
bars, answers and templates. `*Proofs` modules hold the theorems:
`LiveServiceProofs` those of `LiveExecution`, `LiveService` and `OrderClaim`;
`TurtleProofs` has no theorem of a specification but the lemmas about `Turtle`'s
operators and about sums, which the proofs of the backtests and the runtime cite.

### LiveExecution

| Variable | Code |
|---|---|
| `rows[i]` | the `execution_orders` row of intent `i`: status, `broker_order_id`, and whether `raw` still holds `request.notional` |
| `older` | the order of `updated_at`, which the sync's `ORDER BY ... LIMIT` reads |
| `pc`, `cur`, `wire`, `answer`, `listed` | where a worker's pass is and the local variables it holds there |
| `submits` | how often `submit()` was called for an intent |
| `book` | external: create requests on the wire, orders, and what became of cancels |

Every HTTP exchange and every store transaction is one action, so anything may
happen between them. `Send` and `PlaceOrderReturns` are the two ends of one
request; between them, and after the sender is gone, `Arrives` may turn the
request into an order or into nothing. A 401 to the first of them (`Unauthorized`)
sends the worker for a new token, which may fail (`RenewFails`), and then the same
order goes out again (`Resend`); the row stays `PENDING` throughout, and a crash,
another worker or a late arrival may come in between. That a 401 answers a request
that created no order is assumed of the broker, as of every definite refusal; the
refused cancel that is sent again after a 401 is one step with its resend. `Abort` stands for a crash and for an
exception that unwinds the pass: both lose exactly what was not recorded. The
decision of `PreTradeSafety.validate` is left open here (`Claim` or `Block`).

The cancel answer carries an order id of its own, and the row takes it
(`cancel: TRUE` in `Id`). From then on the row is queried under that id, and the
broker may report the cancel's end (`CANCEL_REJECTED`) instead of the order's.

### LiveService

Each action conjoins an action of `LiveExecution` with the caller's guard and
variables: `context` is the `PreTradeSafetyContext` of the pass, `batch` the
intents it has not submitted yet. The order of reads is the code's: an
iteration reconciles, syncs, counts, submits; the smoke test reconciles,
counts, syncs, submits. An iteration has no intents without a clean reconcile. The
smoke test goes on with an unclean one, which `validate` refuses only if
`live.require_clean_reconcile` is set: each pass draws that setting from
`CleanSettings`. Checks whose data is not modelled here (symbol, hours, quantity,
cash, position, consecutive failures) can only refuse, so `Block` is always possible.
`mine` is a history variable.

### TradingLoop

The dashboard's HTTP server is single-threaded, so `server` holds one request.
A write of the config file is two steps (`OpenFile` empties it, `WriteFile`
fills it), and a loop thread that loads it between them sees every default.
`config` holds what `load_config` would return: live or not, the kill switch,
and whether an account is set. A loop thread decides, iterates, sleeps and
wakes; its first iteration is followed by a second without a sleep, as in
`run_paper_service`. `Crash` ends the process and leaves the file as it is,
possibly empty. `wanted`, `halted`, `late` are history variables.

### Dashboard and Calendar

| Variable | Code |
|---|---|
| `file`, `keys` | the config file; client id and secret in the environment of the process |
| `closure` | what `build_dashboard_server` remembers: `config`, `default_blockers` |
| `shown` | `HealthServer._settings`, changed by an accepted save only |
| `log` | the newest `Window` runtime events, newest first; 100 in the code |
| `loop`, `pass` | the loop thread and what each worker's pass has found so far |
| `clock`, `days`, `answer` | the time, the day, and what the market calendar answers on it |

A request is one step, except live-once and the smoke test, which keep the
single-threaded server busy for a whole pass (`Free`). `SaveSettings` writes the file part by part, so
a refusal leaves the earlier parts in it. A pass works on the config it loaded
when it began, reports its blockers as a health event, and counts the failures
of the log before it sends. `Snapshot` and `CanSubmit` are what the dashboard
shows. `Calendar` is `parse_market_session`: official answers with named
sessions, flat ones with a flag or a status. `judged`, `shared`, `sent` and
`byHand` are history variables.

Abstractions: the log keeps one event of no content where a pass writes several
(a pass may find more in the real window, never fewer); a code is always given
where one is registered; `use_market_calendar` is on; momentum numbers are valid
or not, as nothing here reads them. Torn reads and the meeting of stop and start
are `TradingLoop`'s. The smoke test orders one of the allowed symbols, asks for
no consent, leaves no heartbeat and counts failures like any pass; which symbol
comes first and whether `cancel_after_ack` is set are open, and its orders are
`LiveService`'s. The requests for watchlist, backup and Discord test are left
out.

### PaperRuntime

`holdings` and `orders` are the account at the broker, where orders fill, in
part or in whole, or lapse at any time. `rows` are the live positions, `paper`
those of the other modes. An iteration reads holdings (`seen`), then orders,
copies the holdings into the rows if live, and goes on only if they agree
(`Clean`). The turtle run visits one symbol per step; the momentum run gathers
prices, sells, then buys, as `run_momentum` does. In paper and shadow mode
intents are filled at once; in live mode they become orders at the end. That a
fresh runtime never applies trade outcomes is the code's doing: there is no S1
skip in it. Two history variables: `raced` records that an order was filled
between the two reads, `unsold` which held symbols the strategy wanted to leave
and could not (the guard or the submit refused the sale, or it was filled in
part or lapsed).

### TossRead and MarketData

`TossRead` is one request at a time: look at the group's pause, token, send,
once more after the first 401, without another look. `limits` is what
`RateLimitQueue` keeps per group; `notBefore` and `earlier` are history variables
of what the server asked for, the second without the 401 that is being answered.
`MarketData` adds the fetch of candles (cache, stored snapshot, pages, repeated
cursors, fallback after 429) and the rounds of an iteration that ask for them:
calendar, stocks, universe, watchlist, evaluation. `Restart` forgets the client,
and with it all pauses, and keeps `store`: `RateLimitQueue` is not persisted. `paged` and `late` are
history variables: when a page of a symbol was last fetched, and for which symbols
a first page began after the day that follows the bars it is merged with
(`FallsShort`). Bars are numbered by their days. The limits of the group
"auth" are never asked about, and the queue's own enqueue and dequeue have no
caller; both are left out, as is the cache of prices.

### Backtests

One variable per local of the engines: `cash`, `positions`, `trades`, `audit`,
`curve`, `histories`, `skip`. A step is one candle in one of the passes of a
session, in the order of the code. `command` chooses the engine; the engines
share fills (`BacktestFills`) and rules (`Turtle`) exactly as the classes share
methods, and `SingleBacktest` repeats what `run` repeats. Turtle fills slip
against the order by `SlippagePct` percent (`Slipped`); momentum fills do not, as in
the code. An event of `audit` keeps the side of its fill, from which the direction of an entry
follows. Amounts are whole: the fraction of a fee or a slipped price is dropped,
where the code keeps its decimals, and rates are whole percents. Prices are multiples of 64, so N and the stops are exact.

### Gateway

| Variable | Code |
|---|---|
| `registry` | `registry.json`: `users` (identity and port per slug), `identity_map` (`login`), `next_port` (`next`) |
| `copy`, `lock` | what a process has loaded and not saved; `_registry_lock`, one per process |
| `secrets`, `dirs`, `containers` | Keychain, user directories, Docker (external) |
| `pc`, `job`, `user`, `keys` | where a server thread or the command is, and its local variables |
| `found` | what `cleanup_orphans` will remove |

Loading and saving the registry are two actions (`Load`, and the action that
saves), because the lock that spans them keeps out only threads of the same
process. Every Docker call, every access to the Keychain and every directory
operation is an action. `Raise` is an exception: `create_user` rolls back, all
other callers give up. Two removals fail without being noticed, because they run with
`check=False`: `docker rm -f` (`Removes` leaves the container as it was) and the
deletion of credentials (`leaked` is a history variable of the slugs whose
credentials a rollback could not delete). The Keychain's two items, client id
and secret, are one here: they are stored and deleted together. `docker run` on a taken port leaves a stopped container
behind, as Docker does. The file secret store keeps credentials inside the
user's directory and is not modelled, nor is `--unmap-ip`, which saves what it
loaded just as a stop does.

### OrderClaim

What the order path promises about one intent, without workers or messages: an
order comes into being only under a held claim, a claim is settled only when
the order is over, a refused claim never has an order, and a claim may be
abandoned with the order alive (what a failed cancel does).

## 3. What TLC checks

| Run | Question | Bounds |
|---|---|---|
| `live_execution` | Can two workers, crashes, late and lost answers, resends after a 401 and refused cancels produce a second order, hide a live one, or make a row misreport an end? Is the contract `OrderClaim` kept? | 2 workers, 2 intents, 2 requests (broker ids), sync limit 1 |
| `live_service` | Does one worker ever order while an earlier order is in doubt? How far does the ledger's daily count overshoot? | 1 worker, 3 intents, 3 requests, batches of 2, count limit 2, a clean reconcile required or not |
| `trading_loop` | Two loops? Orders after stop? Does a stop end the loop even if each read of the file is torn? | 3 starts of a loop, batches of 2 |
| `dashboard` | Does the failure fuse hold over passes, blocked attempts, restarts? May anything but the pilot's symbol be ordered? When is `can_submit_live_orders` right? When is the calendar wrong? | 4 templates, 4 forms, 3 requests, 2 passes, 2 days, window of 4, fuse of 2, 2 symbols |
| `paper_runtime` | Do live rows agree with the broker while signals are made? Can an order exceed a holding, or be doubled? Are slots kept? | 2 symbols and the market's, 5 pairs of mode and strategy, 3 days, 2 iterations a day, with or without holdings of the owner's |
| `market_data` | Are only completed, consecutive bars used? Are pauses obeyed across clients? Does every iteration end? | 2 symbols, 3 bars wanted, pages of 2, 6 days of which the last 3 pass while the service runs, 2 sets of stages |
| `backtests` | Is cash exactly what trades make of it, are skips and acceptances spent as the rules say, do fills lie in their bars, do the two engines agree? | 7 sessions, the last 4 of them free among 5 or 6 bars, 1 to 3 symbols, slippage 1% |
| `gateway` | Can failing set-ups, their rollbacks, removals that fail unnoticed, crashes, or a command that overwrites the registry give two users one port? Can they, without a command, route a user to another's dashboard? | 2 threads, 2 identities, 2 slugs, 2 ports, 1 command, after which a request begins when no other is under way (`Alongside` = 0) |
| `stop_then_start`, `live_units`, `stale_snapshot`, `can_submit` | disagreements, section 5 | as small as shows them |

Why the bounds are enough to be interesting. Two workers suffice for one to be
stale while the other moves on; two intents for the sync's order and its limit
of 1 to starve one row; two broker ids for a second order of an intent to be
possible: by another submit, or by a resend. Batches of two let the
second intent of a pass run on the snapshot of the first, and a count limit of
two keeps the count from hiding what the unresolved rows and the reconcile must
refuse. Three loop threads allow a start after a stop, and another after a
crash. In `gateway` ports are never given back, so two of them allow two
registrations: one that is rolled back or removed, and another that takes its
slug; one command is enough for a save between the server's load and save, and it
may come while both threads are at any point of a request; what begins after it
comes one by one, as the threads of the server cannot overwrite each other's saves.
In `dashboard` two passes and a fuse of two let the failures of one pass count in
the next, a window of four holds the events of both, and a form that is refused
after its first part follows one that is not. In `paper_runtime` three days let a
position be opened, added to and closed, and one slot lets
an entry meet a position whose sale is still open. In `market_data` a clock that
passes midnight makes a stored running bar a completed one, and as more bars are
wanted than a page holds, a series is put together from pages of different days: the
gap of section 4 occurs in the run, and without its exception (`late`) TLC refutes
`BarsComplete`. The bars of
`backtests` are chosen so that every signal, gap, skip and refusal occurs. The
safety results of section 4 do not depend on bounds.

Symmetry is used for workers, intents, ids, threads, identities and slugs, never
with a liveness property.
`CHECK_DEADLOCK FALSE` stands where the system really may stop: the intents of
`LiveService` are used up, a backtest is over, and the days, iterations, requests
and passes of `PaperRuntime` and `Dashboard` are bounded.

**Fairness.** Most models assume none: their properties are about safety, and
nothing obliges the broker to answer an order. In
`TradingLoop` the server's pending step and each loop thread are weakly fair:
every HTTP request of an iteration has a timeout, the sleep is
`Event.wait(interval)`, file writes return. No button press is fair, and
neither is a failure. In `MarketData` the steps of an iteration are weakly fair:
requests have a timeout of 15 s, and pages are bounded by `MaxPages` and by the
cursors already seen. The clock and the start of an iteration are not fair.

The properties:

- `OneOrderPerKey`: at most one request of an intent is under way or became an
  order, whatever is sent again after a 401. Its mutant sends again after any answer
  that leaves the first request open.
- `LiveOrderTracked`: a request on the wire or an open order is behind an
  unresolved row, or behind a row whose cancel failed.
- `EndedRowsTruthful`: a row that says how an order ended agrees with the
  broker; a row without an id that says `REJECTED` or `FAILED` means no order.
- `BrokerOrderKept`: no write makes a row forget its broker order.
- `EndNeverContradicted`: `FILLED` never turns into `CANCELLED` or the like; a
  stale answer can at worst reopen a row for the next sync.
- `KeepsContract`: refinement of `OrderClaim`.
- `NoOrderWhileInDoubt`: with one worker, no order is sent while one of an
  earlier pass is live. The exception it names is a smoke test of a config without
  `require_clean_reconcile`: it may meet an order whose cancel failed. This needs the unresolved rows *and* the reconcile: an
  order whose cancel failed has left the unresolved rows, and only the broker's
  list of open orders shows it.
- `CountExceedsByUnknown`: orders of unknown fate do not move the pass's
  counter, so the rest of the batch goes through; nothing else exceeds the limit.
- `AtMostOneLoop`: never two loop threads.
- `LateOrdersAreOneBatch`: once stop has answered, at most one batch of orders
  goes out.
- `StopEndsTrading`: after a stop the loop ends.
- `FuseHolds`: while one pass runs at a time, the events that a scan can see
  never hold more lost orders of a day in a row than the fuse allows.
- `PilotOnly`: if only the button made the config tradable, orders are sent for
  the pilot's symbol alone.
- `VerdictExact`: the calendar opens the market exactly while a session the bot
  may trade in is on, but for the instant where one session ends and the next
  begins: both ends count as inside, and the session listed first decides.
- `ReadyWhenInSync`: `can_submit_live_orders` is right when settings, heartbeat
  and remembered blockers stem from the present file and keys.
- `RowsMatchBroker`, `OrdersFitHoldings`: unless an order was filled between the
  two reads of a reconcile, live rows are the holdings while signals are made, no
  two orders are open for one symbol, and no sale exceeds its holding.
- `MomentumSlots`: simulated momentum keeps `max_positions`; live it may exceed
  them by the other entries of one iteration, and by no more. What is held or
  about to be bought counts, without what is about to be sold or was tried to be
  (`unsold`): the run drops a symbol from its dictionary when it plans the sale,
  whatever becomes of it, and buys another in its place.
- `BarsComplete`: what is stored or cached is at most what was asked for, of days that
  were over when it was captured, and without gaps, but for the symbols in `late`.
- `PausesObeyed`: no request goes out before all is over that the server's answers, since
  the service started, asked its group to wait for; a resend after a 401 waits for
  what was asked before that 401. `IterationEnds`: every iteration ends.
- `CashAccounted`: cash is the initial equity and the sum of trades and costs,
  less what open positions tie up. `DrawdownIsWorstFall`: the one-pass drawdown
  equals its definition over all pairs of points.
- `EntriesWereAccepted`: a scan's backtest enters a symbol only in the direction in
  which it was accepted in one of the last `HoldDays` sessions.
- `FillsInsideBar`: a fill is never better than its bar allows, and worse only by
  the slippage.
- `NoReentry`, `OneSkipPerWinner`, `StopOnlyTightens`: rules of the engines over
  whole runs.
- `RunAgreesWithPortfolio`: the single-symbol engine, run beside the portfolio
  engine on the same bars, trades as it does.
- `PortsDiffer`: no two users have one port. A save may undo the save of another
  process, but it undoes users and `next_port` together.
- `RoutedToOwn`: an identity is routed to its own slug, and what runs on a
  user's port is that user's container with that user's credentials. The one exception:
  on a slug whose credentials a rollback could not delete (`leaked`) the container
  may run with those of the former user. Stated while no command has run
  (`commands = 0`): `delete_user` leaves the container and its credentials to
  whoever takes the slug next.
- `OnlyOwnRollback`: the server removes an entry only in the rollback of the
  request that made it, and after the deletion of its credentials, if that has not
  failed.

## 4. What is proved

With `tlapm`, for any sets of workers, intents and ids, any sync limit, batch
size and number of restarts:

| Theorem | States |
|---|---|
| `TypeCorrect` | `Spec => []TypeOK`, for any number of submits |
| `AtMostOneOrder`, `LiveOrdersAreTracked`, `EndsAreTrue`, `RowsKeepTheirOrder`, `EndsAreFinal` | the five properties of `LiveExecution` |
| `LiveExecutionKeepsContract` | `Spec => KeepsContract`: every step is a step of `OrderClaim` or a stutter |
| `ClaimsAlwaysMatch`, `ClaimsMatchTheOrders` | what `OrderClaim` guarantees, and that the order path therefore does |
| `ServiceTracksOrders` | `OneOrderPerKey` and `LiveOrderTracked` under `ServiceSpec`: what the callers do are steps of `LiveExecution` |
| `NoOrderInDoubt`, `CountBounded` | the two properties of a single worker's passes, for any number of passes |
| `LoopInvariant`, `NeverTwoLoops`, `StopBoundsOrders` | `TradingLoop`'s safety |
| `DashboardTypesCorrect`, `PilotOrdersOneSymbol`, `ReadyIsRightInSync`, `FuseAlwaysHolds` | `Dashboard`'s types, `PilotOnly`, `ReadyWhenInSync` and `FuseHolds`, for any templates, forms, days, windows and fuses |
| `CalendarIsExact` | `VerdictExact`, for any answers with official sessions in chronological order |
| `RuntimeTypesCorrect`, `RowsAreTheBrokers`, `OrdersAlwaysFit`, `SlotsAreKept` | `RuntimeTypeOK`, `RowsMatchBroker`, `OrdersFitHoldings` and `MomentumSlots`, for any symbols, bars and fills |
| `PausesAreObeyed`, `MarketTypes` | `PausesObeyed` and `MarketTypeOK`, for any answers, delays, pages and clients; a restart forgets all pauses |
| `BarsAreOver`, `BarsAreComplete` | no bar of a running day is used; no series has a gap but those of symbols in `late`, for any target and page size |
| `NothingIsReentered`, `WinnersSkipOnce`, `EntriesAreAccepted` | `NoReentry`, `OneSkipPerWinner` and `EntriesWereAccepted`, for any candles, filters, costs and limits |
| `BacktestsTypesCorrect`, `CashIsAccounted` | `BacktestsTypeOK` and `CashAccounted`, for all four engines |
| `FillsAreInTheirBar`, `StopsOnlyTighten` | `FillsInsideBar` and `StopOnlyTightens`, steps of all engines, for any slippage up to 100% |
| `DrawdownIsTheWorstFall` | `DrawdownIsWorstFall`, for a curve of any length |
| `PortfolioRunsOne` | `RunAgreesWithPortfolio`: on the candles of one symbol each step of the portfolio loop is a step of the single-symbol loop or a stutter |
| `GatewayInvariant`, `PortsNeverShared`, `UsersKeptApart`, `RollbacksAreOwn` | `Gateway`'s safety, for any number of threads, users, ports and commands |

Assumptions. The constants' assumptions (`ConstantsOK`, `ServiceConstantsOK`,
`LoopConstantsOK`, `DashboardConstantsOK`, `GatewayConstantsOK`, `RuntimeConstantsOK`,
`ReadConstantsOK`, `MarketConstantsOK`, and those of the engines); they type the
candles and the holdings an account starts with and ask for finitely many symbols. For the order path and its callers, except for `TypeCorrect`,
`MaxSubmits = 1`, which bounds calls of `submit`, not requests: no caller submits one intent id twice, because ids are fresh
(`uuid4` in the runtime, a time stamp in the smoke test). The assumption is
needed: the rejection of a duplicate overwrites the unresolved row, so a third
submit of one id would be let through (section 5). `NoOrderInDoubt` also assumes
that unresolved rows block and that a sync looks at one row at least (20 in the
code). It and `CountBounded` assume finitely many intents and workers, and what
they say is about one worker.

Three theorems outside the order path have a hypothesis of their own.

- `CalendarIsExact`: the sessions that an official answer names come one after
  the other. Without it two sessions may overlap, and the one listed first decides.
- `SlotsAreKept`: what the account holds at the start fits in `LiveSlots`
  (`OwnFits`). The strategy counts what it finds and buys nothing beyond it, but
  sells nothing for being too many either.
- `PortfolioRunsOne`: the candles of the single-symbol command are of one symbol
  (`run` refuses others, `bot/backtest.py:303`), and the limit of a direction is not below that
  of a symbol (`SingleCandles`). `run` has no limit per direction; the defaults are
  12 and 4, and the instance of the run meets both conditions.

`BarsAreComplete` has no hypothesis, but its statement an exception, and the example
configurations and those the gateway writes are exposed to it: they ask for 320
bars, and a page holds 200 at most. The snapshot of a young symbol, shorter than
wanted, is read again after a 429 in the universe's round; when the evaluation asks
for the symbol it becomes the seed, and one fresh page is merged with it, after
which the count is reached and no further page is asked for. The days between the
snapshot and the page are missing, and nothing tells. `late` has exactly the symbols
whose first page began beyond the day after the seed. Where a page holds more than
is wanted (the default, 100 bars) the exception is void. `BarsAreOver` has none.

The argument for the order path. None of the five properties is inductive: that
no second order is sent depends on who holds an intent, that a row is truthful
depends on what the worker about to write it knows. `OrderInv` adds this:
`SubmittedOnce` (an intent is in the hands of one worker), `HandOK` (what the row
and the broker look like at each point of a submit), `SyncOK` (an answer a sync
holds was once true, and *ends stay true*, so a stale end is still right),
`UnnamedRowsOK` and `NamedRowsOK` (what each status implies about the broker).
The proof has one lemma per action. The refinement proof then shows, per action,
which step of the contract it is.

The argument for the callers. `DoubtInv` follows what a pass knows. When its
reconcile saw no open order, whatever is live is still on the wire, and its row
names no order (`UnnamedLive`): no sync settles such a row. So a sync that leaves
no row unresolved proves that nothing was live, and from then on only the pass
itself sends (`OwnLive`). `NothingListed` closes the gap between the count the
code reads, which is limited to `SyncLimit` rows, and the rows there are: the
oldest unresolved row is always listed, because `older` is an order (`OlderOK`).
`CountInv` says that the pass's count is never behind the rows that count and
name an order, and that such rows never exceed the limit: only an
acknowledgement adds one, after a check that the count is below the limit, and a
sync looks at unresolved rows alone and so brings no row back that did not count. A
smoke test that does not require a clean reconcile knows less: whatever it meets
alive has a row that says `FAILED` after a cancel (`GivenUp`).

The argument for the loop. `LoopInv` says that only `current` can be alive, that
a stop request has put the kill switch into what it is about to write, and, once
halted, that the file reads as stopped and that each thread's remaining orders
together with the late ones fit in a batch.

The argument for the dashboard. `PilotInv`: as long as nobody has made the config
tradable by hand, a config that trades allows its first symbol only, be it the
file's or the one a pass under way has loaded, and a pass that may send has a
config that trades. `ReadyInv`
relates the newest health event to the file it was judged on (`Reported`): the
scan of the log finds the blockers of that very file, so in sync the verdict is
that of the gates.

The argument for the runtime. `FitInv` follows an iteration. The copied rows are
the holdings the iteration has seen, and stay so until its end, as live fills are
not written to rows. The reconcile passes only without open orders, so an intent
made from a row fits its holding, at most one is made for a symbol (the turtle
run visits each symbol once; the momentum run sells what is held and buys what is
not), and nothing sells the holding before the orders are sent.

`PaperSlots` and `LiveSlotsOK` count. Paper rows are what the dictionary holds, and
each purchase is below the limit. Live, a purchase looks at the dictionary, which
with the symbols it has dropped is what the account holds; a dropped symbol
is about to be sold or is in `unsold`. Orders change the count only downwards: a purchase
takes the slot its intent had, a sale frees one or leaves the symbol in `unsold`.

The argument for the fuse. The log is finite, and the counter a pass starts from
is that of the newest events that are lost orders of the day. The invariant
relates, for each pass, the count it goes on with to the events a scan would see
now, so that no induction over the log is needed.

The argument for the market data. `PauseInv` says that every request at its first try
looked at the pause after the last answer of its group, which is where the
delay between look and send could hurt. `RoundInv` bounds tries and pages. For
the bars, a page is a run of days that ends at a known one, and a merge of two
runs that touch is a run; a first page that does not touch the seed puts its symbol
in `late`, and every later page begins where the one before it ended.

The argument for the backtests. `AuditInv`: while a session is under way,
`exited` has the symbols of all its exits, and no symbol of it is held. `SkipInv`
counts per key: a trade of S1 is closed only while no skip of its key waits, since
its entry needed that and nothing else adds one, so a winner adds exactly one.
`Scanned`: an acceptance with `n` sessions left was made or renewed
`HoldDays - 1 - n` sessions ago.

The argument for the gateway. `GatewayInv` has two parts. `PortsOK` holds of the
registry and of every loaded copy, so it survives any save, stale or not.
`Undisturbed` holds while no command has run: the registry's maps agree,
credentials belong to the entry of their slug unless a rollback has left them
(`leaked`), and `Whose` says of each
container and each running request that nobody else has its port, now or later
(the port is below `next_port`). A request that is setting up a user has its
slug to itself until it is answered (`RequestsOK`), which is why a rollback
cannot hit a later user of the slug. A container that survives its removal keeps
a port that is never given again.

The argument for the books. `Books` has the tape of candles, the marks, the
visits, the holdings and the ledger. Each fill changes cash, and one term of one
of two sums: the gains of closed trades or what open positions tie up. A lemma
for a sale, one for a purchase and one for a step without either say that
`CashAccounted` survives; `TurtleProofs` proves that a sum over a finite set
changes by what one term changes. The visits are needed because a position is
valued at a mark: what is held has been marked (`DOMAIN positions \subseteq
DOMAIN closes`), since a candle is marked when it is visited.

Fills and stops follow from the triggers: a signal is made only if the bar
reaches its price, and the fill is the trigger or the open beyond it, slipped by a
factor that is monotone. A stop is
that of the last fill (`HoldingsOK`), and a pyramid is filled at or beyond the last one
in the direction of the position, with the N of the entry.

The argument for the drawdown. The recursive function exists for a curve of any
length (`FallsExist`), and after `k` points its peak and its worst fall are those
of all pairs of the first `k` points (`Covers`). Both go by induction on `k`, for
which no induction theorem with an operator parameter is needed: `TurtleProofs`
derives from the well-foundedness of `<` that a set of numbers has a least
member, and the points where a claim fails are such a set.

The argument for the two loops. `Alone` says that a portfolio of one symbol has
every key admitted, holds that symbol at most, and values it at its own close.
Under it each operator of the portfolio equals its copy in `SingleBacktest`, no
limit is ever reached, and each of the session's actions is the action of the same
name in the other loop.

The argument for the runtime's types. `TypeInv` adds to the types what an
iteration relies on without a check: prices exist for all symbols once
they are gathered, what is left to sell is held, every intent has a positive
quantity, and a row is open exactly if it has a quantity and units.

Only model-checked: the liveness properties `StopEndsTrading` and `IterationEnds`.
Liveness under fairness and `ENABLED` are out of the prover's reach. That the
runs' bounds are large enough to reach the interesting cases is shown by TLC alone,
as are the four refuted claims of section 5.

## 5. Where code and documents disagree

Four are runs that TLC must refute; the traces are short.

1. `stop_then_start`: start answers that trading is already running for a thread
   that the preceding stop is about to end.
2. `live_units`: a symbol is documented to have four units at most. Every live
   reconcile sets the units of its row back to one, so a live turtle position is
   given units without limit.
3. `stale_snapshot`: live mode is documented to be blocked on stale data. A
   stored snapshot read as a fallback after a 429 is recorded as captured now by
   the next fetch of its symbol, though no page was fetched.
4. `can_submit`: the dashboard is documented to report `can_submit_live_orders`
   only when all gates are clean. After a stop the last heartbeat and the old
   settings still say so.

Seen while modelling, without a run:

- The orchestrator is documented to prevent a duplicate submit of a key
  (`docs/phase-7-live-order-architecture.md`). The rejection of the duplicate
  overwrites the unresolved row, so a third submit goes through. No caller submits
  one id twice.
- The safe pilot is documented as one order a day (`docs/setup.md:139-140`). If
  the cancel after ack is refused because the order was filled, the row says
  `FAILED`, is not counted (`bot/state_store.py:845-871`), and the next iteration
  may order again.
- The daily notional must not be exceeded. A sync replaces the JSON in which the
  summary looks for the notional, so synced orders no longer count.
- The dashboard says that no new orders are sent after a stop. An iteration under
  way sends the rest of its batch; `StopBoundsOrders` proves it is no more.
- Failed provisioning is documented to remove the failed container. A request
  routed to the user meanwhile starts it again, after which neither registry nor
  secret store knows the user.
- A rollback does not look whether the Keychain has deleted the credentials
  (`ops/multi_user_gateway.py:620-633`) and takes the entry out all the same. The next
  user of the slug overwrites them with its own; a request routed to it before
  that starts its container with those of the former user. A container that survives
  `docker rm -f` keeps a port nobody else gets, so the next user's dashboard is
  not reached until it is removed; nobody is shown another's.
- Where 320 bars are wanted a series may lack days in its middle (section 4).
- With `live.require_clean_reconcile` off the smoke test sends an order beside one
  whose cancel failed; an iteration does not, whatever the flag says.
- The S1 skip after a winner exists only in backtests, because each live
  iteration has a runtime of its own (`bot/operations.py:1632`).
- A settings save that is refused has written its first parts
  (`bot/operations.py:1117-1145`); the loop trades on them while the dashboard
  shows the settings of before. Client id and secret set in it last as long as
  the process.
- `_first_safe_pilot_symbol` asks the store for `latest_watchlist`, which does not
  exist (`bot/operations.py:938`), so the pilot never uses the watchlist.
- With official calendar answers the status is the name of a session, never
  `OPEN` or `PREOPEN`, so the watchlist is never built before the session opens
  (`bot/operations.py:2393`).
- The fuse reads the 100 newest events; a long quiet stretch forgets failures.

## 6. Not modelled, and the plan

Left out for good: pages, formatting, notifications, AI summaries and CLI parsing
(output only). In `TradingLoop` and `Dashboard` an order is an event of little
content; their composition with `LiveService` is by the bound `BatchMax` and by
the statuses a submit may return. Whether a 408 or 409 from the broker can follow
an accepted request is not settled by the repository; the models take a definite
refusal only for requests that created no order.

Next, in this order:

1. `LiveService` with two workers: how far the daily limits overshoot when two
   snapshots overlap, first with TLC, then as a theorem about any number of
   workers; liveness of the sync under fairness of the queries.
2. The ranking of universe and watchlist as operators against a reference
   definition.
3. `Gateway`: the setup rate limiter, the file secret store, an abstract
   specification (a user is active exactly when registry, secrets and container
   agree), and that a user whose set-up failed can set up again, under fairness
   of the rollback.
