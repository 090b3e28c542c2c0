-------------------------- MODULE MarketDataHandler -------------------------
(***************************************************************************)
(* The market data handler (src/utils/market_data_handler.cpp): it decodes *)
(* one feed message at a time, calls the correlator for every element, and *)
(* hands each event the correlator emits to the order tracker.             *)
(*                                                                         *)
(* A message is worked off element by element because it can stop between  *)
(* two elements: a simdjson_error is caught outside the loops, so what was *)
(* done so far stays done; any other exception leaves a noexcept function  *)
(* and ends the process.  `parsing` is where on_message() stands.  The     *)
(* messages and elements that the code skips (wrong method, wrong types)   *)
(* change nothing and are stuttering steps.                                *)
(*                                                                         *)
(* The feed is external: it sends prices in hundredths and quantities in   *)
(* tenths here, which the handler truncates to its integer types.          *)
(***************************************************************************)
EXTENDS Correlator, L3OrderTracker, Functions

CONSTANTS FeedPrices, \* prices the exchange sends, in hundredths
          FeedQtys,   \* amounts of its book messages, in tenths
          TradedQtys  \* amounts of its trades messages, in tenths

(* to_price(): the double times 10, truncated.                             *)
ToPrice(hundredths) == hundredths \div 10

(* static_cast<Qty> of an amount truncates it; the cast of one too large   *)
(* for Qty is undefined, and may yield any value.                          *)
ToQty(tenths) == {qty \in Qty : tenths \div 10 \in Qty => qty = tenths \div 10}

ASSUME FeedAssumption ==
    /\ FeedPrices \subseteq Nat /\ Prices = {ToPrice(p) : p \in FeedPrices}
    /\ FeedQtys \subseteq Nat   /\ L2Qtys = UNION {ToQty(q) : q \in FeedQtys}
    /\ TradedQtys \subseteq Nat /\ TradeQtys = UNION {ToQty(q) : q \in TradedQtys}

VARIABLES tracker, \* tracker_, fed by the event callback
          parsing, \* idle, or the array being iterated, or terminated
          msg_ts,  \* `ts` of the book message being processed
          lost     \* history: orders that an erased level took along

mdVars == <<book, trade_buffer, out, tracker, parsing, msg_ts, lost>>

Parsing == {"idle", "trades", "bids", "asks", "terminated"}

MDInit ==
    /\ Init
    /\ tracker = EmptyTracker
    /\ parsing = "idle"
    /\ msg_ts \in Timestamps
    /\ lost = {}

-----------------------------------------------------------------------------
(* The event callback: every emitted event goes to the tracker, in order.  *)
DeliverEvents == tracker' = OnEvents(tracker, out')

(* on_message() on a trades message (`data` is an array).                  *)
BeginTrades ==
    /\ parsing = "idle"
    /\ parsing' = "trades"
    /\ UNCHANGED <<book, trade_buffer, out, tracker, msg_ts, lost>>

TradeElement(ts, price, amount, trade_id) ==
    /\ parsing = "trades"
    /\ \E qty \in ToQty(amount) : OnTrade(ts, ToPrice(price), qty, trade_id)
    /\ DeliverEvents
    /\ UNCHANGED <<parsing, msg_ts, lost>>

(* std::stoull throws std::invalid_argument: nothing in on_message()       *)
(* catches it.                                                             *)
NonNumericTradeId ==
    /\ parsing = "trades"
    /\ parsing' = "terminated"
    /\ UNCHANGED <<book, trade_buffer, out, tracker, msg_ts, lost>>

(* on_message() on a book message (`data` is an object): bids, then asks.  *)
BeginBook(ts) ==
    /\ parsing = "idle"
    /\ parsing' = "bids"
    /\ msg_ts' = ts
    /\ UNCHANGED <<book, trade_buffer, out, tracker, lost>>

SideOf(array) == IF array = "bids" THEN "Bid" ELSE "Ask"

RestingIds(bk, price) == {o.order_id : o \in Range(Queue(bk, price))}

LevelElement(action, price, amount) ==
    LET side == SideOf(parsing)
        key  == ToPrice(price)
    IN  /\ parsing \in {"bids", "asks"}
        /\ \E new_qty \in ToQty(amount) : OnL2Update(msg_ts, action, key, new_qty, side)
        /\ DeliverEvents
        /\ lost' = IF action = "Delete"
                   THEN lost \cup RestingIds(book[side], key) ELSE lost
        /\ UNCHANGED <<parsing, msg_ts>>

(* The end of an array, or (catch) an error anywhere in it.                *)
EndBids ==
    /\ parsing = "bids"
    /\ parsing' = "asks"
    /\ UNCHANGED <<book, trade_buffer, out, tracker, msg_ts, lost>>

EndMessage ==
    /\ parsing \in {"trades", "bids", "asks"}
    /\ parsing' = "idle"
    /\ UNCHANGED <<book, trade_buffer, out, tracker, msg_ts, lost>>

MDNext ==
    \/ BeginTrades
    \/ \E ts \in Timestamps, price \in FeedPrices, amount \in TradedQtys,
          id \in TradeIds \cup {0} : TradeElement(ts, price, amount, id)
    \/ NonNumericTradeId
    \/ \E ts \in Timestamps : BeginBook(ts)
    \/ \E action \in L2Action, price \in FeedPrices, amount \in FeedQtys :
          LevelElement(action, price, amount)
    \/ EndBids
    \/ EndMessage

MDSpec == MDInit /\ [][MDNext]_mdVars

-----------------------------------------------------------------------------
IsLive(id, side, price, qty) ==
    /\ id \in DOMAIN tracker.live_orders
    /\ tracker.live_orders[id] = [price |-> price, qty |-> qty, side |-> side]

(* The tracker and the two books agree on the stream as long as no order   *)
(* id was ever issued twice: each resting order is live in the tracker     *)
(* with its price, side and remaining quantity, and the other live orders  *)
(* are exactly those that a Delete dropped without an event, ever: nothing *)
(* removes them, so live_orders grows with every level deleted.            *)
TrackerMirrorsBooks ==
    tracker.stats.duplicate_add = 0 =>
        /\ \A s \in Side, p \in Prices : \A o \in Range(Queue(book[s], p)) :
              IsLive(o.order_id, s, p, o.qty)
        /\ DOMAIN tracker.live_orders =
              lost \cup UNION {RestingIds(book[s], p) : s \in Side, p \in Prices}

(* Every anomaly of the other two kinds is the consequence of an id issued *)
(* twice: without one, no cancel or fill names an unknown order or takes   *)
(* more than the order has left.                                           *)
AnomaliesNeedDuplicate ==
    tracker.stats.duplicate_add = 0 =>
        tracker.stats.unknown_order_id = 0 /\ tracker.stats.qty_exceed = 0

(* The tracker misses no order: every id the two books have issued was     *)
(* counted, as an add or as a duplicate.                                   *)
EveryAddCounted ==
    tracker.stats.total_adds + tracker.stats.duplicate_add =
        (book["Bid"].next_order_id - 1) + (book["Ask"].next_order_id - 1)

(* One book never repeats an id, so a duplicate is always one side         *)
(* reaching an id that the other has used already, and it reaches each     *)
(* once: there are at most as many duplicates as ids that either side has  *)
(* issued.                                                                 *)
DuplicatesAcrossSides ==
    \A s \in Side : tracker.stats.duplicate_add <= book[s].next_order_id - 1

(* What the order tracker takes for granted (l3_order_tracker.hpp:20-23    *)
(* calls the opposite an anomaly): the stream never adds a live order id.  *)
NoDuplicateAdd == tracker.stats.duplicate_add = 0
=============================================================================
