# Verification of ctp-proxy

ctp-proxy is a service between trading strategies and the CTP interface of a
futures broker. Strategies send commands over a ZeroMQ REP socket and receive
market data, order reports and trades over a PUB socket; the proxy keeps which
strategy an order belongs to in PostgreSQL. This directory holds TLA+ models of
its stateful parts, TLC configurations that check them, and theorems about them
that TLAPS proves. Source paths below are relative to the repository
(`src/...` is the Python code).

## Inventory

The process has five threads: the **main** thread starts and stops the others, the
**command** thread (`CtpProxy._command_loop`) handles one request at a time, the
**publisher** thread (`_publisher_loop`) sends queued events, and CTP runs one
callback thread for the **trader** (`CtpTraderSpi`) and one for **market data** (`CtpMdSpi`).

| Component | State | Operations | Interacts through |
|---|---|---|---|
| Placing and cancelling (`CtpProxy.handle_command`, `CtpSession.place_order`, `cancel_order`) | `_pending_cancels`, the trader SPI's `order_ref`, `front_id`, `session_id` | place, cancel | the registry, the CTP API, state the trader thread writes |
| Order registry (`OrderRegistry`, table `ctp_orders`) | one row per (client_id, strategy_id, client_order_id) | `create`, `get`, `find_by_ctp`, `update_ctp`, `list` | called by both threads; survives the process |
| Trader session (`CtpTraderSpi`, `order_payload`, `publish_cancel_error`) | `td_ready`, SPI fields | login chain, `OnRtnOrder`, `OnRspOrderInsert`, `OnErrRtnOrderInsert`, `OnRspOrderAction`, `OnErrRtnOrderAction`, `OnRtnTrade`, `OnRspQry...` | callbacks from CTP, registry, publish queue |
| Market-data subscriptions (`SubscriptionRegistry`, `CtpMdSpi`) | owners of each symbol, `md_ready` | subscribe, unsubscribe, login, disconnection | command thread and MD thread share registry and flag |
| Account, position, order queries and `SnapshotCache` | `_pending_queries`, `_query_lock`, row buffers, cache | `_query`, `complete_query`, `OnRspQry...` | command thread waits, trader thread completes |
| Trade ledger (table `ctp_trades`) | trades by event id, cursors | `record_trade`, `list_trades`, `latest_trade_cursor` | trader thread writes, command thread reads |
| Publishing and life cycle (`enqueue_publish`, `_publisher_loop`, `start`, `stop`, `connect`, `close`, `main`) | bounded queue, `active`, sockets, APIs | enqueue, send, start, stop | every thread enqueues |
| Protocol, configuration, logging, examples | none that changes | | |

What makes each of them correct:

* **Placing**: a key reaches CTP at most once whatever the client repeats and
  wherever the process dies; nothing reaches CTP unrecorded; a recorded order does
  not hang in `PENDING_SUBMIT`; its recorded status goes forward.
* **Reports**: a report is told to the strategy that owns the order and changes that
  order's row; orders of other terminals on the account touch no row and no strategy.
* **Cancelling**: a cancel names its own order; `cancel_pending` is only answered
  while a request is under way; a live order has at most one request under way.
* **Subscriptions**: an instrument is sent as long as, and only while, it has an owner,
  through reconnections.
* **Queries**: an answer belongs to the query that it completes; a cached snapshot holds
  the rows of one answer; a query ends.
* **Trades**: every trade is stored before it is published, once, for the right owner, and
  paging returns each once.
* **Publishing, life cycle**: subscribers see events in order; accepted events are sent
  before an orderly stop ends; sockets outlive their threads; stop ends.

The hard behaviours are the interleavings of command and callback threads (the
SPI's three login fields, the ready flags, `_pending_cancels`, `_pending_queries` and the rows
are read and written in several steps), reconnections (with `THOST_TERT_QUICK` nothing is
sent again), a crash between two writes, answers and errors that name no session or
request, duplicate callbacks, repeated commands, and a stop that meets threads at work.
`PROJECT.json` lists them as hazards, each at its line, with the properties that would notice.

## Modules

| Module | What it is |
|---|---|
| `OrderRegistry` | `ctp_orders`: rows, lookups and writes, used by `OrderFlow` and `TradeLedger` |
| `OrderDesk` | abstract specification: what placing promises a client |
| `OrderFlow` | placing, cancelling, trader callbacks, login, crash, and the CTP counter as environment |
| `MarketData` | subscriptions, MD callbacks, and the market-data front as environment |
| `AccountQuery` | `_query` with the snapshot cache, the query callbacks, and the counter that answers |
| `TradeLog` | abstract specification: what the trade ledger promises an engine |
| `TradeLedger` | `OnRtnTrade` to `ctp_trades`, and the pages of `get_trades`; composed with `OrderRegistry` |
| `EventFeed` | abstract specification: what the PUB socket promises a subscriber |
| `ProxyLifecycle` | `main`, `start`, `connect`, `stop`, `close`, both loops, the publish queue |
| `MCOrderFlow`, `MCMarketData`, `MCAccountQuery`, `MCTradeLedger` | instances for TLC (`ProxyLifecycle` needs none) |
| `OrderRegistryProofs` | lemmas about the table's operations |
| `OrderFlowProofs`, `OrderIdentityProofs`, `OrderCancelProofs` | theorems about `OrderFlow` |
| `MarketDataProofs`, `AccountQueryProofs`, `TradeLedgerProofs`, `ProxyLifecycleProofs` | theorems about the module each is named after |

Operators named `<Definition>_<What>` are variants of a definition with one
plausible programming error. No specification uses them; putting one in the place of
its definition makes the property next to it in the `mutants` list of `PROJECT.json`
fail, which shows that the property depends on that piece of code.

### OrderRegistry

`orders` is a partial function from order keys (the UNIQUE triple) to rows;
`updated_at[k]` is the set of keys whose rows were written before row `k`, all that
`ORDER BY updated_at DESC LIMIT 1` needs. FrontID and SessionID travel together and
are one session number; ExchangeID and OrderSysID are one system number. `FindByCtp`
has the three queries of `find_by_ctp` in their order, `UpdateTarget` the row
`update_ctp` selects: the two differ (the update never looks at the system number),
so `OwnReports` speaks of both.

### OrderFlow

| Model | Code |
|---|---|
| `link` | `td_api` and the state of its connection |
| `td_ready`, `spi` | `CtpSession.td_ready`; `front_id`/`session_id` and `order_ref` of the SPI |
| `pending_cancels` | `_pending_cancels` |
| `cmd`, `td` | where each thread is inside `place_order`/`cancel_order` and inside `order_payload`, with the local variables that outlive a step |
| `PlaceOrder`, `LoadOrderRef`, `StoreOrderRef`, `TakeOrderRef`, `ReadFrontId`, `ReadSessionId`, `CreateRow`, `ReqOrderInsert`, `ReadFrontIdAgain`, `RejectLocally` | `place_order`: readiness check, `order_ref += 1` as a load and a store, the number read again, `front_id`, `session_id`, the INSERT, the API call, the failure path that reads the two again |
| `CancelByKey` / `CancelByIds`, `MarkCancel`, `ReqOrderAction`, `UnmarkCancel` | `cancel_order`: the read of the record or the request's own identifiers, the check and add under `_cancel_lock`, the API call (which raises without a `td_api`), the failure path |
| `Connect`, `OnRspAuthenticate`, `OnRspUserLogin`, `OnRspSettlementInfoConfirm`, `OnFrontDisconnected` | `connect` and the callbacks of these names; `OnFrontConnected` and `OnRspAuthenticate` only forward to the next request and are one step |
| `OnRtnOrder`, `OnRspQryOrder`, `ReleaseCancel`, `UpdateAndPublish` | the report callbacks and `order_payload`: find the owner, release the mark of a finished order, update the row, publish |
| `OnRspOrderAction` | both cancel error callbacks, `publish_cancel_error` |
| `Crash` | death at any point and restart: memory is lost, rows and the counter stay |
| `broker`, `cancels`, `flow`, `qflow` and the actions that change them | the CTP counter (external): accepts an OrderRef once in a session, reports every order of the account to a session that is logged in, answers a failed request to the session that asked, loses what is under way with the connection |

Commands run one at a time because there is one command thread, callbacks one at
a time because the API has one callback thread. A step is as large as it can be
without hiding an access to shared state. A login that comes between two reads of `place_order` is in the
model with all its effects: the increment may overwrite the login's `order_ref` or be overwritten by
it, and the pair of `front_id` and `session_id` may be of no login (`TornSess`; one number stands for all
such pairs). `OnRspUserLogin` writes its three fields in one step: `place_order` reads `order_ref` before the other two,
in the order in which the login writes them, so that what it sees between two of those writes is what it sees around
one step. A command whose only effect is its reply is no step, and neither is a
refused authentication or login, which changes nothing: the session waits for the next `OnFrontConnected`.

`Env` names what a run's clients and environment do beyond placing, accepting,
rejecting and trading orders: `cancel`, `cancel_by_ids` (any order_ref and session, also those of another
terminal's order or of none), `early_cancel` (cancels in the window
between `proxy.start()` and `proxy.connect()`, see `main.py`), `disconnect`,
`relogin_during_place` (a login completed while `place_order` is past its readiness check), `foreign_rejects`
(refusals of other terminals' orders), `two_cancel_errors` (both callbacks report one refusal). A passing run leaves out
what is known to break its properties (see below) and what would only enlarge it.

### MarketData

`subscriptions` maps instruments to owners. `Subscribe`/`Unsubscribe` are the registry's
methods, `CheckReady` the early return of `subscribe_market_data` and
`unsubscribe_market_data`, `CallApi` the API call; `OnRspUserLogin`, `ReadActive`,
`Resubscribe` are the login callback cut at the flag, the registry and the API. `link`,
`feed` and `denied` belong to the market-data front (external): a connection is lost with all its
subscriptions some time before `OnFrontDisconnected` says so; a call may be refused with a
non-zero code. `denied` remembers refused instruments until the next login. CTP calls
`OnFrontDisconnected` before the next `OnFrontConnected`.

### AccountQuery

| Model | Code |
|---|---|
| `cmd` | the command thread in `_query`; `since` is the account's version when it was asked |
| `pending` | the entry of `_pending_queries` that the command thread put there: its event and holder. There is at most one, because there is one command thread |
| `cache`, `buffer` | `SnapshotCache`; `position_buffer` and `order_query_buffer` |
| `Query`, `CacheGet`, `CheckReady`, `CacheGetAgain`, `Register`, `Send`, `Answered`, `TimeOut` | `_query` cut at the cache, `td_ready`, the second look under `_query_lock`, the registration, the API call and `event.wait` |
| `OnRspQryTradingAccount`, `OnRspQryInvestorPosition`, `OnRspQryOrder` | the callbacks: rows, the last row, the error, `cache.put`, `complete_query` by kind |
| `OnRspSettlementInfoConfirm`, `OnFrontDisconnected` | the ends of the login chain that `OrderFlow` models; a disconnection leaves the buffers as they are |
| `Answer`, `AccountChanges` | the counter (external): answers in order, each answer from one version of the account, in rows of which the last is marked |

A row is known by the query it answers, its place in that answer and the version it shows.
Whether a cached item is young enough is a free choice: every age is covered.
`overdue` (queries that returned before their answer came), `cut` (queries of whose answer a
disconnection left rows in a buffer) and `reused` (queries whose account an answer without a row gave again: `OnRspQryTradingAccount`
completes with what the cache holds) are history: the properties name them as the exceptions
that the code allows, and the violation runs show that the first two are needed.

### TradeLedger

| Model | Code |
|---|---|
| `td`, `flow` | the trader thread in `OnRtnTrade`; reports on their way |
| `OnRtnTrade`, `RecordTrade`, `RecordTradeFails`, `PublishTrade` | `trade_payload` (owner by `find_by_ctp` without a session), `record_trade` (INSERT ... ON CONFLICT DO NOTHING), its exception before or after the commit, the two topics |
| `EventId` | `_trade_event_id` |
| `OnRtnOrder`, `OnRspQryOrder`, `OnErrRtnOrderInsert` | what `order_payload` does to the rows: it writes the number the message has, an empty one too, and an error takes the session of the login; the status, which no lookup reads, is a constant here, and `OrderFlow` models the rest |
| `ListTrades`, `GetTrades`, `GetTradeCursor` | `list_trades` with its limit (0 is the default) clamped and its one extra row, `latest_trade_cursor` |
| `reader` | an engine (external) that pages with the cursor it was given |
| `Report`, `AnswerQuery`, `Refuse`, `Fill`, `Reconnect`, `Crash` | the counter (external): reports first without and then with the number, answers to order queries with or without it, refusals, fills more than once and before or after all of these; what is lost with a connection or the process |

`Old` is an order of an earlier day whose number the exchange may give again; its row may lack the session (a release that
stored none) or the number. The orders of the day were placed under login 2; each fault is followed by a login of its own. `FillsDiffer`
states what `_trade_event_id` relies on: two fills do not share a TradeID. The two sides of a
self-trade that share one would break it, because the identity leaves the direction out when a
TradeID is present. `strays` are fills that were handled when no row of their order had its number: before a report brought it,
after a message erased it, or of another terminal. `TradeIsOwn` says where such a fill may end up (its own order, nobody, the
row of the earlier day) and where it may not (another order of the day); that the row of the earlier day is wrong too, and that an erased
number loses a fill, is said by `ForeignFillHasNoOwner` and `KnownFillIsOwn`, which the code does not keep. `known` is
the history the latter speaks of: keys that a report or an answer had given their number.

### ProxyLifecycle

`main` walks through `main()`, `start`, `connect`, `stop` and `close` with every early failure;
`pub` and `cmd` are the two loops with the event or request they hold; `queue` is the bounded
`_publish_queue`; `produced` numbers the events of the callbacks, `sent` and `missed` (dropped by a full queue, or not
sendable) say what became of each. `ready` holds both ready flags, `api` both APIs. Callbacks run between the creation of the
APIs and their release. `mark`, `cut`, `logins` are history: events produced before `stop()`,
threads whose `join(timeout=2)` gave up, sessions that ever were ready. The process ends with `main`; the threads are daemons.

## Runs

Deadlock is checked for `MarketData` and `AccountQuery`. The runs of `OrderFlow` and `TradeLedger` switch
it off: with the bounds on sessions, references or reports used up the model stops, as does the real account
when nobody trades. `ProxyLifecycle` ends when the process does.

| Run | What it asks | States |
|---|---|---|
| `order_place` | `TypeOK`, `InsertOnce`, `DeskSpec` with two keys, another terminal that orders and is refused, a login between any two steps of `place_order`, one crash, two sessions | 1.3M |
| `order_reports` | `OwnReports`, `TerminalRowIsDone` with one key, a foreign order, a reconnection, a delayed query answer, two references | 1.6M |
| `order_recancel` | `OwnReports`, `CancelNamesItsOrder`, `CancelAfterActiveReport`, `StatusGoesForward` with a legacy row and a new order, three sessions, one crash, cancels before the login, cancels refused twice | 3.2M |
| `order_cancel` | `PendingCancelIsOutstanding`, `NoSecondCancel`, `PendingSubmitIsAwaited`, `PendingSubmitResolves`, `PendingCancelResolves` with two requests for one order on one connection, by client_order_id and by any identifiers, each refused by one callback | 90k |
| `market_data` | `TypeOK`, `NoLostSubscription`, `OnlyUnwantedReturned`, `ActiveIsServed` with two instruments, three owners, refusals, three lost connections | 10k |
| `account_query` | `TypeOK`, `SnapshotIsWhole`, `AnswerIsOwnOrLate`, `ForcedIsFresh`, `QueryEnds` with three requests of three kinds, answers of none, one or two rows, errors, a changing account, a lost connection | 1.5M |
| `trade_ledger` | `TypeOK`, `TradeIsOwn`, `PublishedOnce`, `ReceivedIsStored`, `LogSpec`, `EndOfPagesIsEnd`, `StoredIsRead` with three fills (one without a TradeID, one of another terminal), a row of an earlier day with the number and OrderRef of a new order, messages without a number, a refusal, two engines, one with a limit of 0 and one of -1, one fault | 301k |
| `proxy_lifecycle` | `TypeOK`, `NothingSkipped`, `StopDrains`, `ThreadsEndFirst`, `ServesOnlyLoggedIn`, `FeedSpec`, `StopEnds`, `QueuedIsTaken` with a queue of two and four events | 437k |
| `crash_before_insert`, `late_answer`, `torn_positions`, `wrong_owner` | one statement of the documentation each, which the code does not keep | |

Bounds: `MaxSession` (sessions; the last number is the other terminals', the one before it `TornSess`), `MaxRef` (largest
OrderRef), `MaxFlow` (reports under way), `MaxCancels`, `MaxSnapshots`, `MaxCrashes`,
`MaxDrops`, `MaxQueries` (requests sent), `MaxVersion` (account changes), `MaxSends` (fills
reported), `MaxPage` (rows of a page), `MaxFaults`, `MaxQueue`, `MaxEvents`. Two keys are enough for
one order to be taken for another, two sessions for the
same OrderRef to come back (`RefBases = {0}`: every login starts again, the case in which
references collide), one crash to separate any two steps, two cancels for a
retry to overlap the answer to its predecessor, three lost connections for a
login callback, a command and a second loss to overlap. Three requests are enough for
a late answer to meet a later query of its kind with another kind in between, two rows for an answer to be cut
in the middle, a page of one (the limit -1, clamped) for the two fills of one owner to need a second page. A queue of two with four
events overflows, and drains after `stop()`.

Fairness is weak fairness, chosen run by run:

* `OrderFlow`: each thread of the proxy (the operating system runs them), the login (the network comes back and
  the front accepts it) and the counter's answer to each request. Clients need not send anything and orders need not trade.
  Neither crashes nor disconnections occur in `order_cancel`: with them the liveness
  properties fail, as `crash_before_insert` shows.
* `MarketData`: the command thread, the callback thread and the login.
* `AccountQuery`: the command thread alone, and with it the clock of `event.wait`. No answer has to come, and the
  connection may stay down: `QueryEnds` is the timeout's doing.
* `TradeLedger`: an engine goes on paging. The counter, the trader thread and the database need do nothing.
* `ProxyLifecycle`: the main thread (except that a signal need not come), the publisher, and the command loop, its poll and
  its reply, but not what a command does: a query or the database may take for ever, and `StopEnds` must hold then too.

### What the code does otherwise

Each violation run checks one property that the documentation states, and TLC shows a
behaviour of the code that breaks it. `PROJECT.json` quotes the statements.

* `crash_before_insert`: a row stays `PENDING_SUBMIT` after a crash between its INSERT and the report;
  README.md:213 tells the client to wait for an event that never comes.
* `late_answer`: `complete_query` matches by kind, so the answer to a query that timed out completes the next
  one, and a forced refresh returns what was true before it was asked (README.md:172).
* `torn_positions`: a disconnection leaves the first rows of an answer in `position_buffer`; they are added
  to the next answer, cached and published as the account's positions (README.md:18).
* `wrong_owner`: a trade names no session, so `find_by_ctp` takes the row of an earlier day with the same number, or a row
  without a session with the same OrderRef: the trade of another terminal is stored and published for a strategy
  (README.md:182, 238).

The statements below fail too. A run of the table, changed as said, shows it; the property of the line is
checked alone, under `Spec`.

| Property | Run and change | What happens |
|---|---|---|
| `PendingCancelIsOutstanding` | `order_cancel`, `MaxCrashes = 1`, `Env = {"cancel", "early_cancel"}` | the exception that `ReqOrderAction` raises before `connect()` leaves the mark; later cancels are skipped as pending, where `test_ctp_session.py:525` expects a failed cancel to be retryable |
| `PendingCancelIsOutstanding` | `order_cancel`, `Env = {"cancel", "disconnect"}` | the answer to a cancel is lost with the connection and nothing releases the mark |
| `NoSecondCancel` | `order_cancel`, `MaxCancels = 3`, `Env = {"cancel", "two_cancel_errors"}` | the second error callback of one refusal releases the mark of the retry (`test_ctp_session.py:486`: a pending cancel is not sent twice) |
| `CancelAfterActiveReport` | `order_cancel` | a cancel by order_ref is not checked against README.md:211, which accepts a cancel only after an active report |
| `OwnReports` | `order_reports`, `Env = {"disconnect", "relogin_during_place"}` | the row has the identifiers of another login than its order, whose reports find nobody |
| `OwnReports` | `order_reports`, `Env = {"foreign_rejects"}` | the refusal of another terminal's order, which names no session, is taken for one of this session (README.md:238) |
| `OwnReports` | `order_reports`, `LegacyKeys = {k1}` | the order of another terminal with the OrderRef of a row without a session is taken for that row's |
| `FinishedStaysFinished` | `order_reports` | a delayed answer to an order query takes a finished row back, after which it would be cancelled again (`test_ctp_session.py:452`) |
| `KnownFillIsOwn` | `trade_ledger` | an answer without OrderSysID erases the number; the next fill has no owner and no engine recovers it (README.md:182) |
| `ReleasedIsNotReady` | `proxy_lifecycle` | a login between the clearing of the flags and the release of the APIs leaves a session ready without an API |
| `ReadyWhenAnnounced` | `proxy_lifecycle` | the market-data session is lost while `connect()` waits for the trader; "CTP proxy is ready" (`main.py:42`) is logged with one session |

Three more behaviours meet no statement of the repository, so that the properties only leave them out: an
instrument that lost its last owner between the registry read and the call of a login callback is subscribed; after a refused
subscription the owner stays registered and the next one is told there is nothing to do (`denied` in `MarketData`);
a thread whose join timed out may use a closed socket (`cut` in `ProxyLifecycle`).

## Theorems

All of them hold for every value of the constants that satisfies the modules' assumptions
(`RegistryAssumption`, `FlowAssumption`, `MarketAssumption`, `QueryAssumption`, `LedgerAssumption`,
`FillsDiffer`, `LifecycleAssumption`), which TLC evaluates in the runs. Some need a hypothesis about the environment
more, which is part of their statement; without it the result is false, as said at each.

`OrderFlowProofs`:

* `TypeCorrect`: `Spec => []TypeOK`. `TypeOK` is inductive by itself. It carries what the
  code relies on without saying so: past its readiness check `place_order` has a session number from a login.
* `OrderedAtMostOnce`: `Spec => []InsertOnce`. `InsertOnce` is not inductive: between the INSERT and the API
  call the count is still 0 and the call is coming. `InsertInv` adds that while `cmd` waits to call
  `ReqOrderInsert` its key has a row and was not sent. `StepEffect` reduces every step to
  *quiet*, *claims a key* or *hands a key over*.
* `PlacingIsIdempotent`: `Spec => DeskSpec`, a refinement of `OrderDesk` under
  `claimed <- DOMAIN orders`, `calls <- inserts`, from the same lemma.

`OrderIdentityProofs`, under `Calm` (no login in the middle of `place_order`, no refusal of another
terminal's order, legacy rows or other terminals but not both; each of these is known to break the result):

* `ReportsReachTheirOrder`: `Spec => []OwnReports`; `FinishedMeansFinished`: `Spec => []TerminalRowIsDone`;
  `CancelsNameTheirOrder`: `Spec => []CancelNamesItsOrder`, with crashes, lost connections, delayed query
  answers and cancels of every kind. All three need to know that a row and the order at the counter agree on
  session and OrderRef, which holds only because references never repeat in a session and a report is true when it is
  handled. `IdInv` says so: `RegistryInv` (a row's session and number are its order's *home* or not
  yet known, and homes differ), `CounterInv` (orders at the counter are at home), `ThreadInv` (the reference
  that `place_order` is taking or has taken is above all others of its session, at each of its steps), `ReportInv` (what a report under way or in hand says
  was true and, of a final status, still is) and `StatusInv`. `FindTrue` is the heart of it: from the identifiers in a true report
  `find_by_ctp` and `update_ctp` find the row of its order and no other.

`OrderCancelProofs`, about marks, requests and statuses over time:

* `PendingCancelsAreOutstanding`: `Spec => []PendingCancelIsOutstanding`, under `Connected` (the connection stays up and
  nobody cancels before it is made: a lost connection takes away the answer that would release the mark, and a cancel
  before `connect()` leaves one behind). Crashes are allowed. `MarkInv` is stronger than the property: the request that a mark waits for was
  sent through the session that is still connected (`Awaited`), so that the counter's answer is put in its queue, and a terminal
  report in hand names the session of the mark it will release (`ReportsNamed`).
* `OneRequestPerOrder`: `Spec => []NoSecondCancel`, under `Calm`, `OneRefusal` (the second error callback for one request
  would release the mark of the retry after it) and `MaxCrashes = 0` (a crash empties the marks while the request is still at the
  counter). Lost connections, new logins and cancels by order_ref are allowed. `LockInv` treats the mark as a lock with one holder: for each
  identifier that does not belong to an order that has ended, one of the command between mark and call,
  one request at the counter, or one refusal on its way (`OneHolder`), and while there is one the mark is set
  (`HeldIsMarked`). This holds for the orders of other terminals too, whose references differ (`ForeignApart`). Only a terminal report releases it early, and then the order has ended (`Ended`).
* `OneRequestPerLogin`: the same for any number of crashes, restricted to two requests through one login.
* `StatusesGoForward`: `Spec => StatusGoesForward`, under `Calm` and `MaxSnapshots = 0` (a delayed answer to an order query moves
  a row back). `update_ctp` writes whatever it is given, so this rests on the order of reports: `InOrder` says that the row, the
  report in hand, the reports in the queue and what the counter says of the order (`Stand`) follow each other in the stages of
  an order. `MailKept` and `MailSent` keep it when a report is taken and when one is sent, `OrdersAtCounter` says how an
  order moves, `RowsGoOn` how a row does.
* `CancelsFollowReports`: `Spec => CancelAfterActiveReport`, under `Calm`, `MaxSnapshots = 0` and `ByRegistry` (a
  cancel by order_ref does not look at the registry). Between the read of the row and the API call the trader thread may write the
  row; `AsksKnown` survives because, by the theorem before, it only moves it forward.
* `PendingSubmitAwaitsAnswer`: `Spec => []PendingSubmitIsAwaited`, under `Calm` and `StaysUp` (no crash and no lost connection: each takes
  away what the row waits for, as `crash_before_insert` shows). Query answers are allowed. `AwaitInv` adds that no report says
  `PENDING_SUBMIT` and that an order under way was sent through the session still connected.
  It is the safety half of `PendingSubmitResolves`: what a row waits for is one of the steps that `Fairness` promises.

`MarketDataProofs`:

* `MarketTypeCorrect`: `Spec => []TypeOK`.
* `SubscriptionsSurvive`: `Spec => []NoLostSubscription`. The inductive form `Feeds` says for
  every moment, not only when both threads are done, who will still ask for an
  instrument that is not sent; it needs `ReturnsUnwanted` (what an unsubscribe is about to return
  nobody wants) and `NotReadyBeforeLogin`.
* `WantedIsKept`: `Spec => OnlyUnwantedReturned`, from the same invariant.

`AccountQueryProofs`:

* `QueryTypeCorrect`: `Spec => []TypeOK`, with the fact that a query is registered exactly while it is sent and awaited.
* `AnswersAreOwnOrLate`, `ForcedAnswersAreFresh`: `Spec => []AnswerIsOwnOrLate`, `Spec => []ForcedIsFresh`. The
  invariant `QInv` (`TypeOK`, `Sane`, `Numbered`, `UnderWay`, `Own`, `GoodReply`) says of every row in flow, buffer, cache and
  holder whose query it answers: one that has returned, the one that waits, one that was cut, or one whose account an answer without a row
  gave again (`reused`); requests are numbered in order, and the version a query will see is not older than the
  query.

* `SnapshotsAreWhole`: `Spec => []SnapshotIsWhole`, under `OneAccountRow` (CTP answers the account query with one row or none; with
  more, each row would be cached as it comes). `SInv` follows the answers: messages in `flow` form
  a chain of whole answers (`ChainOf`), the buffer of a kind holds exactly the rows of the answer under way that came
  before its next message (`Gathered`), and what a disconnection leaves behind is in `cut` (`Uncut`).

`TradeLedgerProofs`:

* `LedgerTypeCorrect`: `Spec => []TypeOK`.
* `FillsKeepTheirOwner`, `FillsPublishedOnce`, `FillsAreStored`: `Spec => []TradeIsOwn`, `[]PublishedOnce`, `[]ReceivedIsStored`.
  The first says that a fill whose order's row has the number is stored for that order; any other is stored for its own order, for nobody or
  for a row of an earlier day, and never for another order of the day, for all reports, query answers and refusals.
  The invariant is `Rows` (a row of the day keeps its session and has its own number or none; a row of the earlier day with the same
  number is older and never takes the session and OrderRef of an order of the day), `Reports` (messages name an order by its own number or by none), `Recorded` (rows of the ledger are named after their fill), `Handled` and `Owned`
  (what the trader thread has found out so far).
* `LedgerIsLog`, `NoMoreMeansEnd`: `Spec => LogSpec`, `Spec => []EndOfPagesIsEnd`, from `ReadsAll`: a reader has seen exactly
  what is stored for it up to its cursor, whatever the limit.

`ProxyLifecycleProofs`:

* `LifecycleTypeCorrect`; `FeedImplemented` (`Spec => FeedSpec`, from `Ordered`: what was sent, the event in hand, the queue, the
  last produced are increasing); `EventsAccountedFor` (`[]NothingSkipped`: each event produced was itself sent or missed, or is queued or in
  hand); `StoppedHasDrained` (`[]StopDrains`, from `NothingSkipped` and `Ends`: the publisher ends only with nothing from before `stop()` left);
  `SocketsOutliveThreads` (from `Ends` and `Joined`: a thread has ended once its join is over or was given up); `ServingIsLoggedIn` (from `Flags`).

Every safety and action property that a passing run checks is stated by one of these theorems. Only model-checked is liveness
(`PendingSubmitResolves`, `PendingCancelResolves`, `ActiveIsServed`, `QueryEnds`, `StoredIsRead`, `StopEnds`, `QueuedIsTaken`), which
is out of the prover's reach. The hypotheses of the theorems about `OrderFlow` hold in the runs that check
the same properties, and are wider than those runs: crashes with `PendingCancelIsOutstanding`, lost connections with `NoSecondCancel`.

## Not modelled

* `protocol.py`, `config.py`, `logger.py` and the examples: they validate, format or read once, and keep no state that
  changes.
* Failures of PostgreSQL inside `place_order`, `cancel_order` and `order_payload` (those of `record_trade` are modelled).
* `td_enabled` and `md_enabled` are true; with false the commands answer an error.
* The two assignments by which `complete_query` fills the holder are one step: the waiting thread reads it only after
  `event.set()`, but for a timeout between the two, which raises either way.
* Ages of cached items (a free choice) and the wait for a query slot (a delay under a lock that one thread takes).
* Prices, volumes, symbols, ticks, wording of replies and logs.

## Plan

All parts of the program with state of their own are modelled, and every safety property is proved. What can still be gained is
the safety half of the liveness properties that have none yet: `PendingSubmitResolves` has `PendingSubmitIsAwaited` and
`PendingCancelResolves` has `PendingCancelIsOutstanding`; that a query always has a timeout or an answer ahead (`QueryEnds`), and
`stop` always a bounded wait (`StopEnds`), could be stated and proved in the same way.
