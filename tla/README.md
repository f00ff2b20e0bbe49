# A TLA+ model of hm_backend

hm_backend is a Go server for market data and trading: it copies candles,
orders and fills from an exchange into PostgreSQL, watches price and candle
triggers, places entry orders for trades whose triggers have fired, computes
trendlines, and streams events to browsers. This directory models the parts of
it whose correctness depends on the order in which goroutines, database
notifications, failures and restarts happen, checks them with TLC and proves
the main results with TLAPS. All modules are translated from the code; line
numbers in this file and in `PROJECT.json` are those of the source.

## 1. Inventory

| component | source | state it keeps | operations |
|---|---|---|---|
| trigger manager | `triggers/triggers.go` | copy of active triggers per product, candle history per timeframe, `triggerMutex` | `ProcessPriceUpdate`, `ProcessCandleUpdate`, `UpdateTriggers`, `ReloadTriggers`, load at start |
| SSE manager | `sse/sse.go` | registry of client channels, `clientMux`, channel `candleUpdates`, `selectedTable` | `ServeHTTP`, `AddClient`, `RemoveClient`, `BroadcastMessage`, `handleCandleUpdates`, `ListenForDBChanges` |
| trade manager | `trademanager/trademanager.go` | trades by id, `tradesMutex`, channels `tradeUpdates` and `orderUpdates` | `Initialize`, `ListenForDBChanges`, `checkAndExecuteTrade`, `placeEntryOrder`, `processTradeUpdates`, `processOrderUpdates` |
| candle fill loop | `main.go` 107-143, `api/api.go`, `model/coinbase.go` 560-661, `db/db.go` 547-625 | candle tables, watchlist | `Fetch_And_Store_Candles`, `FetchCandles`, `Write_Candles` |
| order and fill sync | `api/api.go` 122-209, `model/coinbase.go` 663-912, `db/db.go` 410-523 | tables `orders`, `fills` | `Do_Orders_and_Fills`, `Write_Orders`, `Write_Fills`, `cancelOrderHandler` |
| trendline indicator | `indicators/trendlines/trendlines.go` | a trendlines table | `Start`, `MakeTrendlines`, inserts |
| indicator manager | `indicators/indicators.go` | indicators by table name | registers indicators, attaches triggers, routes candle notifications |
| HTTP handlers | `main.go` 194-683 | none of their own | write triggers, trades, watchlist; cancel orders |
| change notifications | `db/db.go` 1651-1819 | row-level triggers in the database | one notification per written row |
| market websocket | `model/coinbase.go` 260-371 | a connection | price ticks |
| user websocket | `model/coinbase.go` 86-258, 373-409 | a connection, its readers and monitors | `ConnectUserWebsocket`, `handleUserWebsocketMessages`, `monitorUserHeartbeat`, `reconnectUserWebSocket` |
| bracket orders | `model/coinbase.go` 914-994 | a goroutine per order placed | `PlaceBracketOrder` |
| portfolio, products | `api/api.go` 98-120, 211-229, `db/db.go` 326-387, 858-890 | tables `portfolio`, `available_products` | `Do_Portfolio`, `Write_Portfolio`, `Do_AvailableProducts` |
| start-up | `main.go` 37-192, `db/db.go` 30-269 | the tables there are and the triggers on them | `DBConnect`, `CreateTables`, `NewIndicatorManager`, `Start` |

How they interact. All components share the database and hear of each other
through its notifications: a handler or goroutine writes a row, the row-level
trigger of the table sends a notification, and up to three listeners (SSE
manager, trade manager, indicator manager) receive it later, in commit order,
unless their connection is down at that moment. The SSE listener calls the
trigger manager, which writes rows and so causes more notifications. The
market websocket calls the SSE manager and the trigger manager directly. The
fill loop runs beside all this and rewrites `orders`, which again notifies.

What is hard. A notification is a copy of the past, applied later; the copies
in memory are protected by mutexes, the rows they copy are not; database calls
are made with a mutex held; errors are logged and forgotten; several
multi-statement writes are not transactions; channels have limits, and the two
managers treat a full one in opposite ways (drop, wait); processes restart,
and start over a database in which an earlier start stopped half way.

What makes each component correct is stated by the properties of section 4.
The 40 hazards of `PROJECT.json` name where each of these bites.

## 2. Modules

| module | models | properties | proofs |
|---|---|---|---|
| `TriggerManager` | the rows of the triggers of one product, their copy in memory, the notifications between them | with the module | `TriggerManagerProofs` |
| `SSEManager` | client streams, their channels and the three broadcasters | with the module | `SSEManagerProofs` |
| `TradeManager` | entry and bracket orders: tables, listener, two channel goroutines, bracket goroutines, an exchange | with the module | `TradeManagerProofs` |
| `OrderLedger` | what `TradeManager` promises of its orders: the abstract specification it implements | | `TradeManagerProofs` |
| `Bootstrap` | start-up over a database that keeps what was done, and the two routines that come to attach triggers | with the module | `BootstrapProofs` |
| `UserSocket` | the user websocket: callers, readers, monitors over one shared field | with the module | `UserSocketProofs` |
| `Trendlines` | `Start` and `MakeTrendlines` over a growing candle table | with the module | `TrendlinesProofs` |
| `CandleStore` | the fill loop for one candle table, under a running clock | with the module | `CandleStoreProofs` |
| `CandleLog` | what a candle table promises its readers: the abstract specification `CandleStore` implements | | `CandleStoreProofs` |
| `OrderSync` | the fill loop for orders, fills and portfolio, with cancellations | with the module | `OrderSyncProofs` |
| `AccountMirror` | what the tables of one exchange may say of it: the abstract specification `OrderSync` implements | | `OrderSyncProofs` |

`MC*` modules only give constants values for TLC. A definition marked
"Mutant" is not part of the specification: it is a slip one could make in the
definition below it, and putting it in that definition's place makes the
property named in `PROJECT.json` fail.

**TriggerManager.** `row` is the table, `mem` the map `TriggerManager.triggers`,
`hist` the history, `queue` what the LISTEN connection has still to deliver.
`scan` is an evaluation in progress. It stands for the mutex too: while it is
not idle nobody else touches `mem`, but clients go on writing rows, which is
the interleaving the code allows. Each handler is one action since each is one
statement; each database update inside an evaluation is an action of its own
(`Fire`, or one of the two ways the two paths treat its failure). A failed
update may have been committed or not. `Disconnect` keeps any prefix of the
queue; `Restart` may fail to load, which `main` only logs. `stale` is a ghost:
the triggers of which memory may have missed a write, because nobody listened,
the reload failed, or the update of a fired trigger failed on the candle path.

**SSEManager.** `AddClient` and `RemoveClient` are two steps each: `Lock`
announces the writer, as `sync.RWMutex` does, which keeps new readers out, and
`Register` or `Unregister` is the work, done when the readers inside are gone.
`UpdateSelectedProduct`, a writer too, is one step. `BroadcastMessage` holds
the read lock from `BeginSend` over one `SendTo` per client to `EndSend`. A
channel is its fill level and the newest candle put into it, which is all the
properties tell apart. Candles are numbered in the order the listener meets
them. `Contains` stands for `strings.Contains` of table names (`sse.go:208`): the
trendlines table of the selected candle table passes the test, so its rows are
broadcast as candles, by the listener and, as their table names have enough
parts (`sse.go:80`), by the handler once more. The indicator manager broadcasts
in the same way as the feed and is not a separate broadcaster.

**TradeManager.** `job` and `current` are the program counters of the three
callers of `checkAndExecuteTrade`. The read lock is taken and released within a
step, the write lock of `processTradeUpdates` is a variable, so the goroutine
that asks for the read lock under its own write lock blocks as it does in the
code. `found` is the pointer `processOrderUpdates` uses after unlocking: an
UPDATE in between writes through it. `owner` is the exchange's list of orders:
the trade each was placed for, and the order whose filling led to it (0 for an
entry). `PlaceBracketOrder` appends an order and leaves a goroutine in
`watchers`, which appends another one when the exchange says "FILLED", however
late. `LoseNotes` keeps any prefix of the notifications. Three
constants say what the deployment hands to the component: `HasApi`,
`RowsDecode`, `NoticeStatuses`. With `main.go` and `CreateTables` as they are
these are FALSE, FALSE and {""}: `main` passes an empty map of exchanges; a
`TIMESTAMP` without zone does not decode into `time.Time`; `orders` has no
column `status`. The passing runs set `HasApi`, to examine the component as it
would work when given an API; `no_exchange` examines it as `main` builds it.

**OrderLedger** has orders, the order each row names, and the triggers seen
triggered; no tables, goroutines, notifications or failures. Its actions say
when an order may be placed: an entry of a trade that was there at the start
once its triggers were seen, an order after an entry, one more after that. The
refinement mapping is in `TradeManager` (`Ledger`): orders are `owner`, the row
names `trade[tr].entry`, seen triggers those with `Fired(t)`. The ghost `fired`
of `TradeManager` is the log of the writes that left a trigger triggered, each
of which is the cause of at most one entry per trade.

**Bootstrap.** `main` walks through the stages of `main.go`; a `log.Fatal` is
`Stop`, after which `Launch` starts over the same tables. `notifies` and
`watched` are the two kinds of row-level triggers. That
`CreateTriggersForExistingTables` takes any trigger whose name begins with
`notify_` for its own is in `QueryTables`; that its loop may end early without
anybody noticing is `ExistingCutShort`. The event trigger has no variable:
PostgreSQL does not parse its function (`RETURNS EVENT TRIGGER`, `db.go:1670`;
the type is `event_trigger`), so `CreateEventTriggerForNewTables` makes its log
and fails, which is logged (`EnsureLog`). The log stays empty and the
ten-second goroutine that reads it never finds a table. The fill loop
(`FillTable`) runs beside `main`. `old` and `missed` are ghosts: the tables
there at the start of this process, and those a failure left out in it.

**UserSocket.** Connections are numbered as they are dialled, `conn` is the
field `UserWSConn`; reader and monitor `k` are those started for connection
`k`, and read the field anew at each use. `caller[e]` is where `main` or a
monitor is in `ConnectUserWebsocket` and `reconnectUserWebSocket`. The pause
between two attempts is left out.

**Trendlines.** `Start` reads the table once, `Scan` is one turn of the loop of
`MakeTrendlines` with one operator per branch of its `if`, then the segments
are inserted one by one. The `counter` of the code is tested by `>= 0` right
after it is incremented and so never holds back a turn; it is left out, and so
is `TrendStart`, which nothing reads. `SELECT COUNT(*)` decides whether the
table is filled; its failure is only logged and leaves 0 (`trendlines.go:162`),
so `Start` fills a table that has rows. The ghost `refills` notes where in the
table such a pass began.

**CandleStore.** Time is in minutes; a candle is how much of it had been traded
when the exchange was asked. `ChunkEnd` is the arithmetic of `FetchCandles`.
`missed` is a ghost: a window began after the end of the one before.

**CandleLog** has what was traded in each candle and what its row tells of it,
and two actions: trading goes on, and the table learns of it. Windows, chunks,
answers and failures are gone. The mapping (`Log` in `CandleStore`) takes
`table` for the rows and, for what was traded, `Traded`: what the exchange
would answer now about each candle.

**OrderSync.** `Write_Orders` and `Write_Portfolio` are a delete and one insert
per row, each a transaction. A refused request reads like an empty answer,
since the status code of the answer is not looked at. The lists of the exchange
come in pages and the code reads the first only: any `PageSize` fills, any
`PageSize` orders of whatever status, and of the accounts those of `FirstPage`.
A cancellation may fail and have had its effect; or the exchange may refuse it
in the body of an answer with status 200, which the code takes for success
(`coinbase.go:904`). The ghost `refused` has the orders whose last answer was of
this kind. A client may ask to cancel any order. Each order buys an asset of
its own, which the account holds once the order is filled; an asset whose price
request fails is left out of a round. `TimesFit` says whether timestamps
convert to the time columns. With the columns of `CreateTables` they do not,
which is the run `text_times`; `order_sync` sets it, to examine the rest. The
proofs hold for both.

**AccountMirror** has the orders of the exchange and the three tables; no rounds,
answers, failures or requests. Orders move forward, fills of filled orders are
recorded and stay, the other two tables are emptied or gain a row of an order
that was opened, or of an asset that is held. The mapping (`Mirror` in
`OrderSync`) takes the variables of the same names.

## 3. Constants, fairness, deadlock

The assumptions on constants are named `...Assumption` and as weak as the
definitions need; TLC evaluates them on each run and the proofs use them.
Counters named `Max...` only bound the exploration, by the guards of the
actions of the environment (client writes, ticks, faults); the proofs hold for
all their values.

Fairness is assumed only of goroutines that the runtime schedules, never of
clients, browsers, faults or the exchange:

- `TriggerManager`: weak for an evaluation in progress and for `Listen`; strong
  for `Deliver`, since ticks compete for the mutex and `sync.Mutex` hands a
  starving waiter the lock; strong for `StartPrice`, which says that the market
  keeps ticking at these prices, the premise of the property.
- `SSEManager`: strong for `Lock`, since writers of `clientMux` queue at the
  `sync.Mutex` in it, which hands a starving waiter the lock; weak for the work
  of the writer, as the model has readers wait once it is announced; weak for
  sends and for the drain of a stream whose browser is gone (a write to a dead
  connection fails at once and its error is ignored). Nothing of a connected
  browser.
- `TradeManager`, `CandleStore`, `OrderSync`: weak for each goroutine, or the
  fill loop, as a whole; `CandleStore` also lets time pass.
- `Bootstrap`: weak for `main` as a whole; nothing of the fill loop, so the
  property does not rest on its being fast. A new start is not assumed either.
- `UserSocket`: weak for each caller, each monitor (a ping on a broken
  connection fails sooner or later) and the start of a read; a read is only
  assumed to return once the connection was closed by this side.

`CHECK_DEADLOCK FALSE` is said where the model may stop: when all clients have
come and gone and the candles are used up (`sse_manager`), when the bounds are
used up (`trade_*`, `no_exchange`), at the end of time (`candle_store`), when
all candles are in the table and `Start` has returned (`trendlines`), when the
server is up and its tables have what they need (`bootstrap`), when a first
connection failed for good or no fault is left (`user_socket`). In
`trade_posted` it also covers the wait of `processTradeUpdates` for itself
(hazard at `trademanager.go:216`); what stops with it, and for how long, is
`InsertsBlock`.

## 4. What the runs check

| run | bounds | states | what it shows |
|---|---|---|---|
| `trigger_manager` | 2 triggers, 2 specs (a wick trigger, a close trigger that needs 2 candles), 2 candles, history 2, 2 writes, 2 faults | 373,727 | `MemoryFollowsRows`, `AlertsAreCurrent`, `AlertsAreTrue`, `CrossedTriggersFire` |
| `sse_manager` | 1 client, a candle table and its trendlines table, a client channel of 1, `candleUpdates` of 2, 2 candles, 1 tick | 280,200 | `SendsAreOpen`, `NewestCandleLast`, `StreamsEnd`, `BroadcastsEnd` |
| `trade_posted` | a loaded and a posted trade, 1 shared trigger written twice, 4 orders, 2 order notices, channels of 1, 1 fault | 520,439 | `RecordedOrdersExist`, `EntryNeedsTriggers`, `OrdersHaveCauses`, `BracketsFollowEntry`, `InsertsBlock`, `ImplementsLedger` |
| `trade_live` | 2 loaded trades that share one of 2 triggers, 4 trigger writes, channels of 1, no fault | 406,297 | `DueTradesAreEntered` |
| `trendlines` | up to 5 candles of 6 shapes, 2 faults | 3,217,881 | `OneZigzag`, `SegmentsGoTheirWay`, `RowsDoNotOverlap` |
| `candle_store` | candles of 2 minutes, windows of 3, chunks of 2, 10 minutes, 2 faults | 138,948 | `NoGaps`, `ClosedCandlesBecomeFinal`, `ImplementsLog` |
| `order_sync` | 2 orders, pages of 1, 1 of the 2 assets on the first page, 1 fault | 146,169 | `SuccessMeansClosed`, `ClosedOrdersLeave`, `HoldingsAreShown`, `ImplementsMirror` |
| `bootstrap` | 5 of the 10 tables, 3 candle tables of which 2 are watched, 1 trendlines table, any number of starts, 3 faults | 1,694,563 | `UpMeansComplete`, `ExistingTablesNotify`, `CompleteDatabaseStarts` |
| `user_socket` | 3 faults, and so 4 connections | 5,171 | `MonitorHasNewest`, `UserFeedReturns` |

The properties are explained where they are defined. In short:

- *Triggers.* For a trigger that exists and whose events were not lost, the
  newest notification under way carries its row as it is now, and with none
  under way memory behaves like the row. Hence an alert is raised for exactly
  what the table holds. This is not obvious, since an older notification does
  set a fired trigger back to "active" for a while: the update of the firing
  itself notifies, and repairs it. Conditions are evaluated at the start of a
  tick and alerts go out one database update after the other; still each
  condition holds when its alert is raised (`AlertsAreTrue`). Two triggers, two
  writes and two faults let a write, a firing, its failure, a lost connection
  and a reload meet in every order; the first write creates the trigger, so
  with fewer than two no client ever edits a row under an evaluation.
- *Streams.* Sends never meet a closed channel, since a broadcast holds the
  read lock over all its sends. A request ends although broadcasts never do:
  rows of the trendlines table keep two goroutines broadcasting, so an end that
  waited for a moment without readers would not come, and it is the
  announcement of the writer that brings it. Each candle is broadcast twice,
  and yet the newest ends up last in every stream, because both goroutines take
  candles in order and the handler's copy of the newest is sent after all its
  older ones. One client is enough for these, as clients differ in nothing and
  share only the lock; that sends stay open for any number of clients is
  proved.
- *Trades.* A recorded order was placed as an entry of this trade; no order
  before each trigger has fired; a second entry only after another firing or a
  restart; what follows a filled order is for the same trade, and two such
  orders end a chain. All but the count of causes come down to one statement:
  every step is a step of `OrderLedger`, or leaves the ledger alone. And a
  trade that arrives as an INSERT stops the component until the next start:
  `InsertsBlock` says what goes on and what does not. Four
  orders are the fewest in which an entry, its two followers and a second entry
  meet. `DueTradesAreEntered` is checked without faults, since a failed
  `PlaceOrder` is not retried.
- *Trendlines.* The segments are one unbroken zigzag, and each goes the way it
  says, though no branch of the code compares with the turning point. Rows of
  the table overlap only where a pass began that took a failed count for an
  empty table; crashes, failed inserts and parts left behind do not bring that
  about. Two faults suffice for a part that is left behind and a failed count
  in the next start.
- *Candles.* Chunks leave nothing out at any alignment, a candle stored while
  open becomes final, and there are no gaps while windows reach back far
  enough. The chunks of the run are smaller than its window, as with a
  `CandleLimit` above 350; with its 350 (`db.go:730`) a window is one chunk.
  The proofs cover both. `Write_Candles` overwrites whatever row is there with
  an answer that may be old; still no row is lost, goes back or runs ahead of
  the exchange, which is `CandleLog`.
- *Orders.* Whatever was lost or failed, closed orders leave their table for
  good, and what the first page of accounts shows of their assets is in the
  portfolio again and again. "Order cancelled successfully" is true when given,
  through old rows, lost answers and fillings in between, unless the exchange
  has refused in the body of its answer. The tables say nothing of the exchange
  that was not so, which is `AccountMirror`. Pages of one entry let every order
  be on a later page than another; one fault is enough to cut each write short.
- *Start-up.* Whatever failed and was only logged, a server that is up has the
  trade tables and the watched candle tables with their triggers; a table that
  was there at the start notifies, on the one channel or the other; and a
  complete database starts, whatever earlier attempts left behind. The five
  tables of the run hold both chains of foreign keys (orders on exchanges,
  trade_triggers on trades and triggers), the two whose failure is fatal and
  three whose failure is only logged. Three faults suffice for a start that
  stops half way and two failures in the next one.
- *User websocket.* One monitor ticks, on the newest connection, however old
  readers, failed dials and failed subscriptions follow each other; and once
  connected the feed returns. Three faults suffice for a lost connection and
  both failures of its replacement.

Three runs show that the program does not do what its texts say
(`PROJECT.json`, `findings`):

- `alert_grounds`: an alert for a trigger that was deleted, and that was due to
  one candle counted twice. The two are flaws of their own, stated by
  `DeletedTriggersAreSilent` and `CandleCountIsCandles`; the run checks a
  property each of them implies, so its trace refutes both.
- `no_exchange`: no trade is ever entered.
- `text_times`: with the tables as `CreateTables` makes them no order and no
  fill ever gets a row. The run checks what each of `OpenOrdersAreListed` and
  `FillsAreRecorded` implies, without any fault and with all entries on the
  first page, so that nothing but the time columns stands in the way.

More disagreements were met while modelling; they follow from the code at the
lines given and have no run of their own.

- "Order cancelled successfully" (`main.go:249`) is also said when the exchange
  answers with status 200 and refuses in the body, which `CancelOrder` only
  logs (`coinbase.go:904`).
- "trendlines empty for" (`trendlines.go:169`) is also said when the count has
  failed; the trendlines are then written a second time.
- "Write Fills" and "Write Current Orders" (`README.md:87`): the lists are read
  as far as their first page only (`coinbase.go:663`, `:747`), and so are the
  accounts (`coinbase.go:1157`).
- "retrieve 30 days of candles" for a new asset (`README.md:62`):
  `addToWatchlistHandler` writes the watchlist row only and the fill loop
  fetches with `full = false` (`main.go:120`), `CandleLimit` candles back.
- "When entry filled -> place bracket order" (`README.md:78`): the bodies
  `PlaceBracketOrder` builds (`coinbase.go:916`, `:958`) are never sent; it
  sends `PlaceOrder(trade_group)` twice, the second time in the same direction
  as the entry. Each further notification of the filled entry does it again.
- "Ensure triggers for new tables are created automatically" (`db.go:79`):
  PostgreSQL refuses the function of the event trigger for any role, since
  `RETURNS EVENT TRIGGER` (`db.go:1670`) does not parse; the error is logged.
  The log stays empty, and a table made by this process notifies only after
  the next start.
- A first start on an empty database ends at `main.go:91`, since `Initialize`
  reads `trades` before `CreateTables`; `trade_triggers` names `triggers`
  before that is made (`db.go:239`).
- A candle table whose first trigger is the indicator manager's never gets that
  of `global_changes`: `LIKE 'notify_%'` (`db.go:1789`) matches
  `notify_candle_update_` too.
- `Start` of the indicator manager is fatal while one of its candle tables is
  missing (`main.go:164`), so on a new database the fill loop must be faster.
- A first connection of the user websocket that fails is logged and not tried
  again (`main.go:81`); a failed subscription leaves its connection open
  (`coinbase.go:111`); the market feed is never reconnected.
- `parseTableName` (`indicators.go:257`) leaves the timeframe in the asset, so
  the key of a notification never matches one of registration.
- "Confirm reversal after 3 higher highs" (`trendlines.go:265`) stands beside a
  test that every first one passes; a prefix of the trendlines left by a crash
  is never completed, though the log says "Generate trendlines for all of the
  candles" (`trendlines.go:170`).
- "Order not found" (`main.go:225`) is also answered for an open order between
  the delete and the inserts of `Write_Orders`, and for any failure of
  `Get_Order`.

## 5. What is proved

Each proof module shows, for every value of the constants that satisfies the
named assumptions, `Init => IInv` and `IInv /\ [Next]_vars => IInv'` for an
inductive invariant `IInv`, and concludes with temporal logic.

- `TriggerManagerProofs`: `TypeCorrectness`, `MemoryFollows`, `CurrentAlerts`,
  `TrueAlerts`. `IInv` adds to the types and `MemoryFollowsRows` that the
  triggers an evaluation has still to take are active in memory. Without it
  `Fire` could not be known to mark an active trigger and the notification it
  causes could not be known to match. One step of the proof per action, and
  lemmas for what a commit, a delivery, a lost queue suffix, a reload and a
  restart do to a trigger's newest notification. `CurrentAlerts` follows: what
  is taken is active in memory, memory behaves like the row, so they are equal.
  `TodoMet`, that what is still to be taken meets its condition, is inductive
  because every writer of memory and of the history waits for the mutex, and a
  firing changes no trigger but its own; `TrueAlerts` follows.
- `SSEManagerProofs`: `TypeCorrectness`, `OpenSends`, `NewestLast`.
  `SendsAreOpen` is inductive together with: registered clients have a channel
  that is not closed. A writer needs all `sending` flags down, which is the
  lock. `NewestCandleLast` speaks of the moment when all is sent; the invariant
  behind it says what is owed before. The feed broadcasts no candles, the
  listener none but the newest, and the handler's are older only while the
  newest waits behind them (`OldBeforeNew`). So a client that ends up with an
  older one for a while has the newest still to come from the handler
  (`NewestSent`, `ToCome`), unless a candle was dropped.
- `TrendlinesProofs`: `TypeCorrectness`, `ZigzagOfSegments`, `TrueDirections`,
  `SeparateRows`. The strengthening `Levels` says of the segment under way that
  its `inv` is never beyond its end point, and that the candle before does not
  reach beyond its end point either. A turn needs a candle beyond one of the
  two, and so beyond the turning point: this is why the new segment goes its
  way. That rows do not overlap needs `InOrder`, that the segment under way
  begins after all found and ends by the next candle, and `Written`, that what
  is still to be inserted comes after each row or is parted from it, and that a
  pass which found rows is parted from all of them by its place in `refills`.
- `CandleStoreProofs`: `TypeCorrectness`, `NoHoles`, `FinalCandles`,
  `LogIsImplemented`. `Fetching` says that all candles between the start of the
  window and the cursor are among those fetched, as complete as they were when
  the round began; `Solid` says that the table has no holes up to the last
  window. `Honest` is what makes each write a step of the log: no answer runs
  ahead of the exchange, and while a round fetches, no row is ahead of the
  answer that will overwrite it. It needs that one loop alone writes the table.
- `TradeManagerProofs`: `TypeCorrectness`, `RecordedOrders`, `EntriesWait`,
  `BracketsOfEntry`, `LedgerIsImplemented`, `OrdersCaused`, `BlockedByInsert`.
  Wherever the number of a trade's order is kept or under way (the row, the
  copy in memory, a notification, a channel, the pointer, the answer a caller
  is about to record), it is that of an entry of this very trade
  (`EntriesKept`); the orders that bracket goroutines wait for follow an entry
  (`Watched`). Without these an old notification could tie a trade to a
  bracket, and its filling would start another chain. A caller at "place" has
  had every trigger of its trade fire (`CheckedSeen`). The refinement then
  takes one step per action: what the ledger does, and that the mapped
  variables are otherwise unchanged.

  `OrdersCaused` counts. A cause is a firing of a trigger of the trade, or a
  restart; an effect is an entry order, or something that will lead to one: a
  notification under way that says "triggered", the listener or the pass of
  `Initialize` with the trade still to do (`Effects`). Effects never exceed
  causes (`Within`): each write of a trigger adds one to both, its delivery
  moves an effect from the queue to the listener, an order moves it from the
  listener to the exchange. Sets under way are counted as positions of
  sequences, so an append adds one and no induction over data is needed. The
  first start is no cause: its pass counts only once a check has passed, and by
  then the trade has no order (`FirstPass`). Nothing goes on beside
  `Initialize` (`Quiet`), and what arrives as an INSERT was not there at the
  start (`Posted`), so the updater never checks a loaded trade.
  `BlockedByInsert` needs `Locked`: between two steps the write lock is only
  ever held by an INSERT about to look its trade up, and that step needs the
  read lock.
- `BootstrapProofs`: `TypeCorrectness`, `CompleteWhenUp`, `OldTablesNotify`.
  The invariant follows the position of `main`: which tables CreateTables must
  have made by then, which triggers `attachTriggersToCandlestickTables` must
  have attached, and that a table of the start is done, still to do, or missed.
- `UserSocketProofs`: `TypeCorrectness`, `OneMonitor`. One caller is busy at a
  time: `main`, then the monitor it starts, and so on; and one that subscribes
  does so on the newest connection, which has no monitor yet.
- `OrderSyncProofs`: `TypeCorrectness`, `TrueSuccess`, `MirrorIsImplemented`.
  "success" is also said when the exchange has nothing left to cancel; that the
  order is closed then needs that it was opened once, which comes with the row
  the handler found, the answer that row was inserted from, and so from the
  exchange (`Known`). An order stays closed, and one that is open after a
  success is among `refused`. That what a page holds is in the list is
  `PageOfList`. The refinement needs besides that fills and holdings, in an
  answer or in a table, are of filled orders (`Filled`), which stay filled: no
  step takes an order back (`OrderMoves`).

All statements hold for every value of the constants that satisfies the named
assumptions; the bounds `Max...` are among these constants.

Every invariant and every action property of the passing runs is stated by a
theorem, and so is each of the three refinements. Only model-checked are the
liveness properties, as fairness and ENABLED are beyond the proof system as set
up here: `CrossedTriggersFire`, `StreamsEnd`, `BroadcastsEnd`,
`DueTradesAreEntered`, `ClosedOrdersLeave`, `HoldingsAreShown`,
`CompleteDatabaseStarts`, `UserFeedReturns`; and the three violations, which
are counterexamples. No recursive operator is used anywhere.

## 6. What is not modelled

- `Do_AvailableProducts`: an upsert in one transaction, whose rows only a page
  reads. `Get_Exchanges`, whose failure only delays a round.
- The indicator manager's listener: it parses a table name whose key never
  matches, and `ProcessCandle` of the one indicator would only broadcast.
- The branches of `processOrderUpdates` for stop and profit-target orders: no
  statement writes their ids.
- The event trigger and the ten-second goroutine that reads its log: the one
  cannot be made, the other finds nothing (`Bootstrap`).
- Request signing, JSON and number formats, logging; torn reads of
  `selectedTable`; the Alpaca client, which nothing constructs.
- Numbers are integers; prices and volumes in the code are floats that are
  compared and stored, never summed, in the parts modelled.
- The exchange and the clock are modelled as far as the code uses them
  (marked external in the map).

## 7. Plan

What would add most, most important first:

1. *Composition* of `TriggerManager` and `TradeManager` over one triggers
   table: from a tick to an entry order, with the two listeners that hear of
   the same write at different times.
2. *Abstract specifications* of `TriggerManager` (a replica fed by a log),
   `SSEManager` (a registry whose broadcasts are atomic) and `Trendlines` (a
   table that only grows, by true segments), as `OrderLedger`, `CandleLog` and
   `AccountMirror` are for theirs.
3. The remaining five tables of `CreateTables` in the run of `Bootstrap`, and
   the products in `OrderSync`.
