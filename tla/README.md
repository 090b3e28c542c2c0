# A verification of the synthetic L3 market data engine

The program connects to the Deribit exchange over a WebSocket, receives Level 2
book updates (a quantity per price) and trades, and turns them into a synthetic
Level 3 stream (adds, cancels and fills of single orders). This directory holds
TLA+ models of its components, TLC configurations that check them on small
instances, and proofs, checked by TLAPS, for every value of the constants.

Line numbers below refer to the files under `src/src/` and `src/include/`.

## 1. The system

```
             event-loop thread                                    main thread
  exchange -> WebSocketClient -> DeribitClient -> main's lambda   connect, wait for Ctrl+C,
                  (handlers)      (replies, data)      |          stop, print_stats, destroy
                                       |               v
                              heartbeat thread   MarketDataHandler::on_message
                                                       |  one call per trade / level
                                                       v
                                                   Correlator  (bid book, ask book, trade buffer)
                                                       |  one callback per event
                                                       v
                                                  L3OrderTracker
```

| Component | State | Operations | What makes it correct |
|---|---|---|---|
| `ShadowBook` (`utils/shadow_book.*`) | per price a total and a FIFO queue of synthetic orders; id counter | `apply`, `consume`, `add_order` | the queue stands for the quantity at its price; time priority; ids are not reused while they rest |
| `TradeBuffer` (`utils/trade_buffer.*`) | pending trades by timestamp, then price | `add`, `consume`, `flush_before` | a trade explains each unit of volume once; nothing stale is used |
| `Correlator` (`utils/correlator.*`) | two shadow books, trade buffer, event callback | `on_trade`, `on_l2_update` (`process_decrease`, `flush_unmatched_trades`) | the events of a call explain the change of the book; fills are backed by trades; a cancel only for what no trade explains |
| `L3OrderTracker` (`utils/l3_order_tracker.*`) | live orders by id, counters | `on_event` | it mirrors the books and counts anomalies |
| `MarketDataHandler` (`utils/market_data_handler.*`) | correlator, tracker, parser | `on_message`, `print_stats` | each element of a message is applied once and in order; a broken message leaves a usable state |
| `WebSocketClient` (`utils/websocket_client.*`) | connection state, stop flag, reconnect counter, background thread | `connect`, handlers, `handle_reconnect`, `stop` | a lost connection comes back or is given up; `stop` ends the thread |
| `DeribitClient` (`utils/deribit_client.*`) | authenticated / subscribed flags, heartbeat thread and its flag | `connect`, callbacks, `setup_heartbeat`, `stop`, destructor | nothing is sent on a connection that is not authenticated; no thread outlives its owner |
| `main.cpp` | `g_running`, the objects | signal handler, `main` | Ctrl+C ends the program; the statistics are read when nothing writes them |
| `ConfigLoader` (`utils/config_loader.*`) | – | `load_config` | every setting of the program is the one in the file, or its default |
| `types.hpp` | – | the shared types | – |
| `external_utils/simdjson.cpp` | – | third-party JSON parser | outside |

How they interact. Everything from `on_message` down to the tracker is
synchronous: one call chain on the event loop's thread, no lock, no queue. The
concurrency is above it: the main thread calls `connect()` and `stop()`, the
event loop's thread runs every handler, and a heartbeat thread, started by the
event loop's thread, is joined by the main thread. They share atomics
(`state_`, `should_stop_`, `heartbeat_running`, `g_running`) and, without
protection, the `std::thread` object of the heartbeat. Before any thread exists,
`main()` loads the configuration, which decides how often the client reconnects
and how many subscriptions it asks for.

What is hard in it:

* in the synchronous part, *long sequences of legal calls*: trades and book
  updates come on separate channels in any order; `apply` writes a level's total
  that `consume` and `add_order` change again; two consumptions of one queue
  follow each other in one call; an error may stop a message between any two
  elements; two id counters feed one tracker;
* in the session, *interleavings*: a signal may arrive between any two steps of
  the authentication, a handler may throw, and connections open, fail and close
  at any time;
* in the configuration, *partial failure*: the file may end in an error after any
  of its sections, and what was read until then stays.

`PROJECT.json` lists these hazards one by one, with the line where each bites
and the properties that watch it.

## 2. The modules

| Module | Models | Kind |
|---|---|---|
| `ShadowBook` | `shadow_book.cpp` | a book is a value; each method is an operator from a book to its result |
| `ConsumeLoop` | the `while` loop of `consume()` | state machine, one iteration per step |
| `TradeBuffer` | `trade_buffer.cpp` | a buffer is a value, one operator per method |
| `Correlator` | `correlator.cpp` | state machine over two books and the buffer |
| `L3Stream` | what the correlator promises to the receiver of its events | abstract specification: queues, ids and batches, nothing else |
| `CorrelatorStream` | – | the refinement mapping from `Correlator` to `L3Stream` |
| `MCCorrelator` | – | `CorrelatorStream` with the symmetry of the prices, for TLC |
| `FeedHistory` | – | `Correlator` beside history variables: what the exchange announced and traded |
| `MCFeedHistory` | – | `FeedHistory` with the symmetry of the prices, for TLC |
| `L3OrderTracker` | `l3_order_tracker.cpp` | a tracker is a value, one operator per method |
| `MarketDataHandler` | `market_data_handler.cpp` | composes `Correlator` and `L3OrderTracker`; one element of a message per step |
| `ConfigLoader` | `config_loader.cpp` | a file and a configuration are values; `Load` is an operator between them |
| `WebSocketClient` | `websocket_client.cpp` | actions of the handlers and of `stop()` |
| `DeribitClient` | `deribit_client.cpp` | adds the session's callbacks and the heartbeat thread |
| `Session` | `main.cpp` | composes the configuration, the three threads, the network and the signal |
| `Lifecycle` | what one run of the program promises | abstract specification: the stages of connection, event loop, heartbeat and main thread, nothing else |
| `SessionLifecycle` | – | the refinement mapping from `Session` to `Lifecycle` |
| `MCSession` | – | the configuration files TLC tries |
| `QueueTheorems`, `ShadowBookTheorems`, `ConsumeLoopProofs`, `CorrelatorProofs`, `L3StreamProofs`, `FeedHistoryProofs`, `MarketDataHandlerProofs`, `SessionProofs` | – | theorems (sections 5 and 6) |

Operators named `...Strict`, `...NoErase`, `...InFront` and the like, marked
"Mutant" in a comment, are wrong versions of the definition after them; they
are there to confirm that the properties notice the mistake.

### Correspondence with the code

**ShadowBook.** `levels` is the `std::map`, a function on the prices that have a
level. `Apply`, `AddOrder`, `Consume` return the new book and what the method
returns. A `Qty` is 32 bits wide: every assignment to one is `% QtyMod`. The
loop of `consume()` is in closed form (`FullyConsumed`, `Taken`, `Left`,
`TotalLeft`), because proofs are about the form and not about the iteration;
`ConsumeLoop` has the iteration and shows that it ends in that form. Deltas are
`int64_t` in the code and integers here.

**TradeBuffer.** The nested maps become one function from pairs
`<<timestamp, price>>`: the code creates an inner map with its first entry and
erases it with its last.

**Correlator.** `OnTrade` is `on_trade()`. `on_l2_update()` is split by the sign
of the delta (`Increase`, `Decrease`, `NoChange`), each the whole call: flush,
`apply`, `process_decrease` or `add_order`, and the events, which are the value
of `out` after the step. `process_decrease` fills first and cancels the rest,
and stamps the side on all events at the end. `recv_ts` is carried along
unused and left out.

**L3Stream.** The abstract specification knows queues, id counters and the batch of
events of a call; no totals, no trades, no timestamps. A batch is one new order
(`Add`), or fills and then cancels that each name the order at the head of their
queue when their turn comes (`Take`), or empty, and then the call changed nothing
(`Quiet`) or a level disappeared (`Drop`, the silent Delete of `shadow_book.cpp:34`).
`CorrelatorStream` maps it: `queue` is the queues of the two books, `next_id` their
counters, `batch` the events in `out`. Refinement means that a consumer who
replays the events, and knows nothing else, holds the queues of the books
order by order, except for the levels that were dropped.

**MarketDataHandler.** `parsing` says which array the loop is in; the actions
are the start of a message, one element, the end of an array and the end of the
message, which may come anywhere because a `simdjson_error` is caught outside
the loops (lines 150-156). `NonNumericTradeId` is the exception of `std::stoull`
that nothing catches. The conversions are modelled by what they do: a price is
truncated to tenths, an amount to an integer; the cast of an amount that does not
fit into `Qty` is undefined behaviour, so `ToQty` is a *set* of results, and for such
an amount it is all of `Qty`. After each element, the events of
the call go to the tracker in order. A Delete may take orders along without an
event; the history variable `lost` remembers them.

**ConfigLoader.** A `File` is what simdjson finds in it: each setting a value or
`Missing` (absent or of another type), and `sections`, the number of sections
read before the end or an error. `Load` applies the three sections in the code's
order; an error keeps what was read. `ReadConnection` copies all three settings
from `heartbeat`, as lines 67-74 do. `ToInt` is the conversion of the `int64_t`
settings to the `int` parameters of `WebSocketClient`. Instruments and channels
are reduced to their number, an api key to its environment.

**Session.** It starts from `Load(file)` for any `file` in `Files`. `main` is the program counter of the main thread together with the
caller of `stop()`, since `~DeribitClient()` calls it again. `io` is where the event
loop's thread is; the steps between which another thread matters are separate:
`AuthReply`, which sets `heartbeat_running`, and `StartHeartbeat`, which assigns the
thread; `Closed`, which stores DISCONNECTED (`websocket_client.cpp:198`), and
`ForgetSession`, which clears the flags (`deribit_client.cpp:49`); `HeartbeatWakes`,
which reads `authenticated_` (`deribit_client.cpp:291`), and `HeartbeatSends`, where
`send()` reads `state_` (`websocket_client.cpp:111`). `link`, `halted` and `replies` are websocketpp, the
network and the exchange, modelled from how the code uses them. `LoopThrows` is an
exception that leaves a handler: `run()` catches it (`websocket_client.cpp:144`),
the state becomes FAILED and the event loop's thread ends. `aborted` says
whether `std::terminate` was called and why.

These stores and reads are still one step each, because no other thread can tell the
difference:

* `Opened`: CONNECTED, the reset of the counter, and the request to authenticate. Only
  this thread reads the counter, and the reply comes to this thread, later.
* `Failed` and `HandleReconnect`: what they store in `state_` is never CONNECTED, and
  the other threads compare it with nothing else; the counter is this thread's own.
  `should_stop_` is read twice in a row and is only ever set, so the second read counts.
* `AuthReply`: the stores of `authenticated_` and `heartbeat_running`. Between them there
  is no heartbeat yet to read the first, and `stop()` does not read it.
* `StartHeartbeat`: the construction of the thread, the assignment of the pointer, and
  the subscription requests. `stop()` sees the old pointer or the new one, as it
  does in the model; `send()` reads `state_`, which this thread alone changes now.
* `ForgetSession`: `subscribed_` is read by this thread only.

**FeedHistory.** Its variables are history: they constrain nothing but the bound
`MaxUnreported`. `unreported` is a ledger: what the exchange traded at a timestamp
and price, less what the fills of the correlator reported there, over the whole run.

**Lifecycle.** The abstract specification knows four stages and no flags:
`connection` (none, pending, open, gone), `loop` (none, running, over), `pulse`, the
heartbeat (none, beating, told to stop, joined) and `phase`, the main thread. Each
goes forward only. `SessionLifecycle` maps it: every state of the reconnection logic
is `gone`, the steps of each call of `stop()` are one phase, and a heartbeat is
`beating` or `told` by `heartbeat_running`. A heartbeat may be born `told`, when
`stop()` came between the reply and the assignment of the thread. Refinement means
that a flag that told the heartbeat to stop is never set again, that the statistics
wait for the loop and a clean exit for the heartbeat, and that only a program
that never had a session can be terminated by it.

## 3. The runs

Expected to pass:

| Run | Module | Properties | Question |
|---|---|---|---|
| `correlator` | `MCCorrelator` | `TypeOK`, `TotalIsTwiceResting`, `IdsInOrder`, `NoStaleTrades`, `CancelsAreUnexplained`, `FIFOPriority`, `VolumeExplained`, `FillsConsumeTrades`, `ImplementsStream` | one price: every order of trades and updates |
| `loop` | `ConsumeLoop` | `VolumeConserved`, `ComputesClosedForm` | is the closed form what the loop computes? |
| `feed` | `MCFeedHistory` | `IdsInOrder`, `RestingWithinAnnounced`, `EveryFillTraded`, `VolumeExplained`, `UpdateLeavesDifference` | two prices: does a call keep to its own level, what does an update leave there, and is every fill traded? |
| `handler` | `MarketDataHandler` | `TrackerMirrorsBooks`, `AnomaliesNeedDuplicate`, `EveryAddCounted`, `DuplicatesAcrossSides` | does the tracker agree with the books, broken messages included? |
| `session` | `MCSession` | `TypeOK`, `StatsReadAlone`, `HeartbeatOnlyInSession`, `HeartbeatStartedOnce`, `CleanExitAfterConnection`, `AtMostOneAttempt`, `SignalStopsSession`, `ImplementsLifecycle` | every configuration file; threads against network and signal |

Expected to be violated, each a disagreement between the code and what a
comment, a header or the README says of it (the quotes are in `PROJECT.json`):

| Run | Property | What the counterexample shows |
|---|---|---|
| `feed_mirror` | `MirrorsFeed` | a level announced as 1 rests 1 with total 2; when it is announced as 1 again, the delta is -1 and the order is cancelled |
| `feed_flush` | `FlushedNeverMatched` | "Trade arrived but L2 never came" is logged for a trade whose update came before it |
| `feed_decrease` | `DecreaseIsReported` | a Delete erases the orders before `process_decrease` looks for them: no cancel, no fill |
| `handler_ids` | `NoDuplicateAdd` | the first bid and the first ask both have id 1 |
| `session_signal` | `CtrlCExits` | the authentication reply sets `heartbeat_running` again after `stop()` cleared it: `stop()` joins for ever |
| `session_config` | `AttemptsAsConfigured` | the file allows 0 attempts and gives no heartbeat interval: the limit is 5, and a lost connection starts attempt 1 |
| `session_reconnect` | `ReconnectAttempted` | `handle_reconnect` stores RECONNECTED, `connect` accepts only DISCONNECTED |

### What the passing properties say

* `TotalIsTwiceResting`: a level's total is not the volume of its queue but twice
  that, modulo the width of `Qty`. It is the invariant the code really has; the
  error neither heals nor grows.
* `UpdateLeavesDifference`: what that means for the book. A level that rests R and
  is announced as n rests n - R afterwards, or nothing if n <= R, whatever came
  before; a book snapshot sent again after a reconnect empties the levels that
  were right. It is stated for each call of `on_l2_update()`, on the queue of its
  own side and price, and needs that twice a quantity fits into `Qty` (assumption
  `FeedFitsTwice`).
* `RestingWithinAnnounced`: hence the queue never holds *more* than announced.
* `ImplementsStream`: the event stream is complete but for dropped levels; fills
  and cancels name the head of the queue at their turn, also when a fill and a
  cancel of one call split the same order.
* `VolumeExplained`, `FillsConsumeTrades`: what the events of a call add up to is
  what happened to the queue they are about, the volume at every other price and
  side stays, and every filled unit was taken out of a buffered trade with the same
  key and id. The one exception in the first property is a call without any event
  that makes one level disappear (and then no other queue changes): it is the
  finding of `feed_decrease`.
* `EveryFillTraded`: the same over the whole run. Trades of one key merge (and wrap),
  are spent by several updates, and are flushed; still the fills reported for a
  timestamp and price never add up to more than was traded there. The run has the
  merges and the splits; the wrap and the flush are in the theorem only.
* `FIFOPriority`, `IdsInOrder`: a call consumes a prefix of a queue or appends one
  order; ids ascend within a queue and are unique within a book.
* `NoStaleTrades`, `CancelsAreUnexplained`: what the order of flush, match and
  cancel in a call guarantees, however trades and updates were interleaved.
* `TrackerMirrorsBooks`, `AnomaliesNeedDuplicate`, `EveryAddCounted`: until an
  id is issued twice the tracker is right about every resting order, and its
  other counters stay 0. All its anomalies are consequences of the two counters.
  The live orders that do not rest are *exactly* those a Delete ever dropped: nothing
  removes them, so `live_orders` grows with every level deleted.
* `DuplicatesAcrossSides`: a duplicate is one side reaching an id the other is past, so
  there are at most as many of them as ids that either side has issued. The bound is
  reached: the counterexample of `handler_ids` has one, with one id issued by each.
* `StatsReadAlone`: `print_stats()` runs only when the event loop's thread is gone.
* `HeartbeatOnlyInSession`: when the heartbeat thread has found `authenticated_` set and
  is about to send, `send()` refuses (the state is not CONNECTED) or the session is still
  authenticated. The connection may be lost between the two reads; it holds because the
  loss is stored before the flags are cleared, and no second connection makes the state
  CONNECTED again.
* `HeartbeatStartedOnce`, `CleanExitAfterConnection`: no `std::terminate` by a
  joinable thread. The first holds only because reconnecting does not work; the
  second excludes a `connect()` that timed out, where the program can be
  terminated at exit.
* `AtMostOneAttempt`: whatever the limit, the client tries to reconnect once at most,
  and never if the limit became negative or 0 as an `int`.
* `ImplementsLifecycle`: see `Lifecycle` above; what is promised of a run as a whole.
* `TypeOK` of `Session` also says that no more answers are due than one request to
  authenticate and one subscription per instrument.
* `SignalStopsSession`: a signal that finds the heartbeat running ends the program.

### Bounds, and why they are enough

* `QtyMod` is 8 instead of 2^32, even like it. In `correlator` the announced
  quantities are 0 and 5: the total of a level of 5 is 10, which wraps to 2, so the next
  announcement of 5 adds an order, and so does the one after it. Trades of 1 merge
  until they wrap at 8. In `feed` the quantities are 1 and 3 (and 0 by a Delete):
  twice each fits, and 3 after 1 differs from 1 after 3. The proofs hold for every
  positive width.
* `MaxOrderId` (2 or 3) bounds the orders a side ever issues: it stops further
  increases only, decreases and Deletes go on. Queues of three orders let a
  consumption take a whole order and a part of the next, and leave one behind.
* `MaxBuffered = 1` bounds the *keys* that wait, not the trades: trades with the
  same key merge. Two timestamps make one key stale while another is current.
  Matching only looks at one key, so more waiting keys add no new behaviour of a
  call.
* `MaxUnreported = 2` bounds the traded quantity that no fill has reported, at one
  key. Trades there are of 1, so two merge before an update spends them in part or
  whole. With one timestamp nothing is flushed in `feed` (two take
  TLC over its time); `FillsAreTraded` has the flush, and the wrap, for every instance.
* One price suffices for most properties because every operator looks at one
  level; `feed` has two, interchangeable, to check exactly that. `handler` has one
  key: with two TLC needs four minutes and reaches nothing new (the properties
  are proved for any number of prices).
* `FeedPrices = {10, 15}` (hundredths) become one price key, `FeedQtys =
  {0, 10, 35}` (tenths) become 0, 1 and 3: both truncations happen. `TradedQtys = {80}`,
  an amount of 8, does not fit into a `Qty` of `QtyMod = 8`: it becomes any of 0 to 7.
* In `handler`, `TradeIds` is empty: trade ids play no role for the tracker.
* `loop`: all queues of up to three orders with quantities 1-7, all amounts 1-7.
* `MCFiles`: a file that cannot be read, an error after each section, and complete
  files with every combination of settings from `Missing`, 0, 2 and 40000 and with
  0 or 2 instruments. So the limit on attempts is 5, 0, 2 or negative, attempts run
  out, and replies can be partly outstanding when a session ends. `IntMod` is 65536
  instead of 2^32 (TLC's integers have 32 bits); 40000 is negative as such an int.

Deadlock is not checked: each model may stop, because a bound is reached
(`correlator`, `feed`, `handler`), the loop is over (`loop`) or the program has
ended (`session`).

### Fairness

Only `Session` has liveness properties. Its specification assumes weak fairness
of each thread (`MainStep`, `LoopStep`, `HeartbeatStep`): the operating system
goes on scheduling a thread that can run, a sleep ends, and a poll in
`connect()` either sees the connection or times out. Nothing is assumed of the
network, the exchange or the signal: `NetworkStep` and `Signal` have no
fairness. In `session_signal` the counterexample is fair: the heartbeat thread
keeps running, which is what the join waits for.

## 4. What TLC does not decide here

TLC checks the instances above. The arithmetic of the correlator for all widths
and quantities, and for any number of prices, orders and trades, is the subject
of the proofs. The bounds in the guards (`MaxOrderId`, `MaxBuffered`) are in
`Spec` too, but they are constants without an upper limit: a behaviour of the
unbounded system that ends is a behaviour of `Spec` for large enough bounds.

## 5. What is proved

Every safety property that a passing run checks is proved for every value of the
constants, in each of the specifications that it is checked of, and both
refinements (`ImplementsStream`, `ImplementsLifecycle`) are too.

The theorems compose. `HandlerRunsCorrelator` and `FeedRunsCorrelator` say that the two
larger machines drive the correlator only through behaviours of its own `Spec`;
whatever is proved of `Spec` then holds in them, without a second proof.
`HandlerStreams` is such a composition: from the bytes-to-elements loop with its
error exits down to the abstract event stream.

| Theorem | Module | Statement |
|---|---|---|
| `LoopConserves` | `ConsumeLoopProofs` | `LoopSpec => []VolumeConserved` |
| `LoopIsClosedForm` | `ConsumeLoopProofs` | `LoopSpec => []ComputesClosedForm` |
| `DecreaseIsPrefix` | `ShadowBookTheorems` | a decreasing call takes a prefix of a queue |
| `TypeCorrect` | `CorrelatorProofs` | `Spec => []TypeOK` |
| `TotalsDoubled` | `CorrelatorProofs` | `Spec => []TotalIsTwiceResting` |
| `IdsStayInOrder` | `CorrelatorProofs` | `Spec => []IdsInOrder` |
| `TradesFlushed` | `CorrelatorProofs` | `Spec => []NoStaleTrades` |
| `CancelsJustified` | `CorrelatorProofs` | `Spec => []CancelsAreUnexplained` |
| `TimePriority` | `CorrelatorProofs` | `Spec => FIFOPriority` |
| `StreamRefined` | `L3StreamProofs` | `Spec => ImplementsStream` |
| `VolumeIsExplained` | `L3StreamProofs` | `Spec => VolumeExplained` (silent Deletes excepted) |
| `FillsArePaid` | `L3StreamProofs` | `Spec => FillsConsumeTrades` |
| `UpdatesLeaveDifference` | `FeedHistoryProofs` | `FeedSpec => UpdateLeavesDifference` |
| `NeverOverstates` | `FeedHistoryProofs` | `FeedSpec => []RestingWithinAnnounced` |
| `FillsAreTraded` | `FeedHistoryProofs` | `FeedSpec => []EveryFillTraded` |
| `FeedRunsCorrelator` | `FeedHistoryProofs` | `FeedSpec => Spec` |
| `FeedStreams` | `FeedHistoryProofs` | `FeedSpec => []IdsInOrder /\ ImplementsStream /\ VolumeExplained` |
| `AddsAreCounted` | `MarketDataHandlerProofs` | `MDSpec => []EveryAddCounted` |
| `NoOtherAnomaly` | `MarketDataHandlerProofs` | `MDSpec => []AnomaliesNeedDuplicate` |
| `TrackerMirrors` | `MarketDataHandlerProofs` | `MDSpec => []TrackerMirrorsBooks` |
| `DuplicatesBounded` | `MarketDataHandlerProofs` | `MDSpec => []DuplicatesAcrossSides` |
| `HandlerRunsCorrelator` | `MarketDataHandlerProofs` | `MDSpec => Spec` |
| `HandlerStreams` | `MarketDataHandlerProofs` | `MDSpec => ImplementsStream` |
| `HandlerIdsInOrder` | `MarketDataHandlerProofs` | `MDSpec => []IdsInOrder` |
| `TypeCorrect` | `SessionProofs` | `Spec => []TypeOK` |
| `StatisticsReadAlone` | `SessionProofs` | `Spec => []StatsReadAlone` |
| `HeartbeatInSession` | `SessionProofs` | `Spec => []HeartbeatOnlyInSession` |
| `OneHeartbeat` | `SessionProofs` | `Spec => []HeartbeatStartedOnce` |
| `HeartbeatJoined` | `SessionProofs` | `Spec => []CleanExitAfterConnection` |
| `OneAttemptOnly` | `SessionProofs` | `Spec => []AtMostOneAttempt` |
| `PositiveLimitKept` | `SessionProofs` | `Spec => [](AttemptsAllowed >= 1 => AttemptsAsConfigured)` |
| `LifecycleRefined` | `SessionProofs` | `Spec => ImplementsLifecycle` |
| `LoadIsSound` | `SessionProofs` | `Load(f)` is a configuration with the keys of its own environment |
| `LimitIsIgnored` | `SessionProofs` | the limit in the file does not change `Load(f)` |

Assumptions: `QtyMod` is a positive natural; timestamps and trade ids are
naturals; the quantities of the feed are values of `Qty`; the bounds are
naturals. The theorems of `FeedHistoryProofs` on quantities that rest also need `FeedFitsTwice`, those of the
handler that `Prices`, `L2Qtys` and `TradeQtys` are what the conversions can make
of the feed's prices and amounts (`FeedAssumption`). Those of the session need that
`Files` are files, that `Missing` is not a setting and that `IntMod` is positive.
Nothing is assumed of `Prices` in the correlator. TLC evaluates all of these in
the runs.

## 6. How the proofs go

`QueueTheorems` is about queues as sequences. The volume of a queue is a
recursive function (`Cumulative`), so its existence and uniqueness must be
shown first: `PartialSumsExist` extends the sums one order at a time,
`PartialSumsUnique` takes a least disagreement. Both use that the naturals are
well ordered, since induction theorems with an operator parameter cannot be
instantiated by the provers at hand. From it follow `FullyConsumedFacts` (the
position the loop stops at exists), `RestingLeft` and `RestingAppend` (what a
consumption or an append does to the volume) and `TakenFacts` (what is emitted).

`ConsumeLoopProofs` has the invariant `LoopInv` of the `while` loop: what was emitted
is the closed form of what was spent so far, the queue is what the closed form
leaves, and as long as something remains to be consumed the loop stands between
two orders (`BetweenOrders`). `NextReduced` is the iteration that takes part of an
order, after which nothing remains. The two theorems read the invariant at the
end of the loop, where `Spent` is the quantity asked for or the whole queue.

`ShadowBookTheorems` lifts this to books. `ConsumedTo(old, new, price, qty)` says
that `new` is `old` after `qty` was consumed at `price`; `ConsumedByConsume` and
`ConsumedTwice` show that one call of `consume`, or a fill followed by a cancel,
has that effect, even when the first erases the level. `DecreaseKeepsTwice` and
`IncreaseKeepsTwice` are the arithmetic of the doubled total, `IdsOfPrefix` and
`IdsOfAppend` the order of the ids.

`CorrelatorProofs` has the inductive invariant

    IInv == TypeOK /\ TotalIsTwiceResting /\ IdsInOrder
            /\ NoStaleTrades /\ CancelsAreUnexplained

Each part is a property of its own; the type invariant is the strengthening the
others need (orders have positive quantities, totals are values of `Qty`, so
that a delta is a quantity). `NextInv` has one lemma per action: `OnTradeStep`,
`IncreaseStep`, and for the two others `DecreaseConsumes` and `NoChangeConsumes`,
which bring them into one form (`Consumes`) that `ConsumingStep` deals with.
It also shows `KeepsTimePriority`, so `TimePriority` needs no second proof.

`L3StreamProofs` is about events. `TakenReplays` shows that the pieces `consume()`
emits, replayed one by one against the queue, lead to the queue it leaves;
`ReplayOfConcat` joins the replay of a fill with that of the cancel after it, which
is why the case where both take from one order needs no treatment of its own.
Two steps stand for all of `on_l2_update()` (`QueueTold`): it adds one order or
its events replay the queue of its price, and every other queue stays.
`StreamRefined` maps these to the steps of `L3Stream`. `VolumeIsExplained` uses the same two
steps: each replayed event takes its quantity from the queue (`ReplayVolume`).
`FillsArePaid` is about the buffer instead: `consume_trade` returns at most what
was asked for and takes it out of one entry, and the shadow book fills at most
that. The recursive functions of the specification are only ever
compared with an explicit list of queues (`IsReplay`). `StepPaysForFills` is the step
behind it, as a lemma about two states that the ledger of the feed uses again.

`FeedHistoryProofs` adds `AnnouncedFits` (what was announced is a quantity of the
feed or 0) and `RestingWithinAnnounced` itself. With R resting and a announced,
R <= a and 2a < QtyMod make the total exactly 2R (`TotalIsExact`); an update to n
then adds n - 2R > 0 (`IncreaseWithin`: n - R rests) or consumes 2R - n
(`DecreaseWithin`: n - R rests, or nothing), and n - R <= n. For the ledger,
`EveryFillTraded` is inductive together with the correlator's `IInv` and the type of
`unreported` (`LedgerInv`). Each way a buffered trade can change is followed: a trade merges and can only wrap downwards
(`ModAtMost`), a flush only removes (`FlushShrinks`), and an update takes from the
buffer at least what its fills report (`UpdatePays`).

`MarketDataHandlerProofs` follows the tracker along the batch of events a call
hands out. Its three properties cannot be proved one by one: that a fill is known
to the tracker rests on its mirroring the books, and that it mirrors them on no
fill having been unknown. So `HandlerInv` has the correlator's `IInv`, the types of
tracker and time, `EveryAddCounted`, and `Clean`: while no id is a duplicate, the
other counters are 0, every resting order is live, and every other live order
was lost. `Follows` says the same of one queue in the middle of a batch; `TakeFollows`
is one event, `ReplayFollows` the whole batch, on top of the replay that
`L3StreamProofs` found. One fact is not obvious: a fill in one queue must not touch
an order of the same id in the *other* book. `NoSharedId` shows that there is none
while the tracker is clean, since it holds one order per id and that order has one
side. `LostStay` is what makes `TrackerMirrorsBooks` an equality: what a Delete dropped
is live, and since no resting order has its id, no later event can remove it.

`DuplicatesAcrossSides` holds beyond the first duplicate, where `Clean` says nothing
more. `LiveIssued` is the invariant that survives: every live id is below the counter
of *some* side. When a side issues an id that is live, its own counter is not past
it, so the other side's is: the smaller of the two counters grows with each duplicate.

`SessionProofs` relates `main`, `io`, `heartbeat` and `link`. None of its properties is
inductive; the strengthening has two parts. `OneConnection` says that only one
connection is ever open: a client that lost it is `RECONNECTED`, a state `connect()`
refuses. Hence one authentication, hence one heartbeat thread; and while that thread
exists a CONNECTED client is authenticated, because the state leaves CONNECTED before
the flags are cleared and never comes back (`HeartbeatOnlyInSession`). `OrderlyExit` says
what the main thread has behind it: after a connection, the `stop()` in the
destructor runs when the event loop's thread is joined, so that a heartbeat it
finds joinable stays the last one, and it joins it.

The refinement needs more: `Stages`, proved on top of it. `OneAttempt` and
`ConnectionStages` say that an attempt is only made when a connection is gone for good
and that an open one means a running, unhalted loop; `HeartbeatStages` that before the
first `stop()` an existing heartbeat has its flag set, and that a finished one has
it cleared, which is why no step ever sets the flag of a heartbeat again;
`MainStages` what the main thread has behind it. The steps are mapped thread by thread:
those of main, of the loop, and of the network each to one abstract action or to a
stutter. `LoadIsSound` and `LimitIsIgnored` are about `Load` alone, for every file.

## 7. What is only model-checked

* `SignalStopsSession` and the violated liveness properties: liveness under
  fairness is beyond the prover.
* The violated safety properties: TLC's counterexample is the evidence.
  Some theorems say how far the violation reaches: `PositiveLimitKept` for
  `AttemptsAsConfigured`, `NoOtherAnomaly` and `DuplicatesBounded` for `NoDuplicateAdd`,
  `UpdatesLeaveDifference` for `MirrorsFeed`, `VolumeIsExplained` for `DecreaseIsReported`.

## 8. What is not modelled, and why

* **simdjson** and the bytes of JSON: third-party. That an element is skipped, or
  that an error ends the message or the configuration, are choices of the model.
  Its two files are nearly all of the repository's lines; the models map the
  program's own code.
* **types.hpp**: `L2Book`, `PriceLevelUpdate`, `L2Delta` have no user.
* `get_qty`, `has_level`, `empty`, `DeribitClient::run`: no caller, or no effect on
  the state. `WebSocketClient::disconnect` has no caller, and is why that component
  is listed as partly modelled.
* Log lines, message texts, tokens, TLS set-up, `recv_ts` and `added_ts`; names of
  instruments and channels, and the reconnect delay that is parsed from the file
  and dropped.
* Several instruments: all of them feed the same two books, and the handler does not
  read which one a message is about. The model has one feed whose updates are
  arbitrary, which includes that mixture, but nothing in it tells instruments apart.
* The exchange's `test_request`, which the client never answers, is a reason for
  the exchange to close the connection; closing at any time is in the model.
* `connect()` returns when the socket is open, although `deribit_client.hpp:34`
  says it authenticates. The model has that behaviour (it is what makes the race of
  `session_signal` possible) but no run of its own.

## 9. Plan

Done: the synchronous core, the abstract event stream it implements, the tracker
and the handler on top of it, the configuration, the session; the abstract life cycle it
implements; proofs of every safety property and refinement that the passing runs check.

Left: *a second instrument* as a feed of its own, should the program ever give each
instrument its own books; today there is one pair of books to speak about.

## 10. Running it

    tlc -workers 2 -config correlator.cfg MCCorrelator.tla
    tlapm CorrelatorProofs.tla

Each `.cfg` belongs to the run of the same name in `PROJECT.json`.
