----------------------------- MODULE FeedHistory ----------------------------
(***************************************************************************)
(* What the exchange said against what the shadow books made of it.  The   *)
(* correlator keeps no history; this module runs it beside four history    *)
(* variables:                                                              *)
(*   announced  the quantity the last L2 update gave for each side and     *)
(*              price, 0 after a Delete and before the first update;       *)
(*   reduced    the <<timestamp, price>> pairs for which some L2 update    *)
(*              announced a smaller quantity than the one before it;       *)
(*   flushed    the keys the last call flushed, that is, those it logged   *)
(*              as TradeNoL2Match;                                         *)
(*   unreported for each <<timestamp, price>>, the quantity the exchange   *)
(*              traded there less the fills the correlator reported there. *)
(***************************************************************************)
EXTENDS Correlator

CONSTANT MaxUnreported \* bound: how much traded quantity can be unreported at a key

ASSUME UnreportedAssumption == MaxUnreported \in Nat

(* Qty is wide enough for twice any quantity of the feed: with 32 bits, no *)
(* level of 2^31 or more.                                                  *)
ASSUME FeedFitsTwice == \A q \in L2Qtys : 2 * q < QtyMod

VARIABLES announced, reduced, flushed, unreported

feedVars == <<book, trade_buffer, out, announced, reduced, flushed, unreported>>

FeedInit ==
    /\ Init
    /\ announced = [s \in Side |-> [p \in Prices |-> 0]]
    /\ reduced = {}
    /\ flushed = {}
    /\ unreported = [k \in Timestamps \X Prices |-> 0]

(* What the fills of a batch report for one timestamp and price.           *)
FilledAt(events, k) ==
    Resting([i \in 1 .. Len(events) |->
               [qty |-> IF /\ events[i].type = "OrderFill"
                           /\ <<events[i].exchange_ts, events[i].price>> = k
                        THEN events[i].qty ELSE 0]])

FeedTrade(ts, price, qty, id) ==
    /\ OnTrade(ts, price, qty, id)
    /\ flushed' = {}
    /\ unreported' = [unreported EXCEPT ![<<ts, price>>] = @ + qty]
    /\ unreported'[<<ts, price>>] <= MaxUnreported
    /\ UNCHANGED <<announced, reduced>>

FeedUpdate(ts, action, price, new_qty, side) ==
    /\ announced' = [announced EXCEPT ![side][price] =
                        IF action = "Delete" THEN 0 ELSE new_qty]
    /\ OnL2Update(ts, action, price, new_qty, side)
    /\ reduced' = IF announced'[side][price] < announced[side][price]
                  THEN reduced \cup {<<ts, price>>} ELSE reduced
    /\ flushed' = DOMAIN trade_buffer \ DOMAIN FlushTradesBefore(trade_buffer, ts)
    /\ unreported' = [k \in DOMAIN unreported |-> unreported[k] - FilledAt(out', k)]

FeedNext ==
    \/ \E ts \in Timestamps, price \in Prices, qty \in TradeQtys, id \in TradeIds \cup {0} :
          FeedTrade(ts, price, qty, id)
    \/ \E ts \in Timestamps, action \in L2Action, price \in Prices,
          new_qty \in L2Qtys, side \in Side :
          FeedUpdate(ts, action, price, new_qty, side)

FeedSpec == FeedInit /\ [][FeedNext]_feedVars

-----------------------------------------------------------------------------
(* The shadow book never shows more than the exchange does: however the    *)
(* doubled totals distort the deltas, the queue at a price holds at most   *)
(* the last announced quantity (it needs FeedFitsTwice).                   *)
RestingWithinAnnounced ==
    \A s \in Side, p \in Prices : Resting(Queue(book[s], p)) <= announced[s][p]

(* What the doubled totals make of one update: a level that rests R and is *)
(* announced as n rests n - R afterwards, and nothing if n <= R, whatever  *)
(* came before.  So a first announcement is mirrored, and the second of    *)
(* the same quantity -- a snapshot after a reconnect, a message sent       *)
(* twice -- empties the level.                                             *)
LeavesDifference(side, price) ==
    LET before == Resting(Queue(book[side], price))
        n      == announced'[side][price]
    IN  Resting(Queue(book'[side], price)) = IF n > before THEN n - before ELSE 0

EveryUpdateLeavesDifference ==
    \A ts \in Timestamps, action \in L2Action, price \in Prices,
       new_qty \in L2Qtys, side \in Side :
        FeedUpdate(ts, action, price, new_qty, side) => LeavesDifference(side, price)

UpdateLeavesDifference == [][EveryUpdateLeavesDifference]_feedVars

(* Over the whole run, and wherever the buffer merges, splits, wraps or    *)
(* flushes trades, the fills reported for a timestamp and price never add  *)
(* up to more than was traded there: what waits in the buffer is covered   *)
(* by quantity that no fill has reported yet.                              *)
Buffered(buffer, k) == IF k \in DOMAIN buffer THEN buffer[k].qty ELSE 0

EveryFillTraded ==
    \A k \in Timestamps \X Prices : Buffered(trade_buffer, k) <= unreported[k]

(* What shadow_book.hpp:22 and the README promise of the books: after each *)
(* update a level rests exactly what the exchange announced for it.        *)
MirrorsFeed ==
    \A s \in Side, p \in Prices : Resting(Queue(book[s], p)) = announced[s][p]

(* What correlator.cpp:91 says of a flushed trade: the L2 update it would  *)
(* explain, a decrease at its timestamp and price, never came.             *)
FlushedNeverMatched == flushed \cap reduced = {}

(* What shadow_book.hpp:24 says of a decrease: orders that leave a queue   *)
(* leave it with a cancel or a fill.                                       *)
DecreaseIsReported ==
    [][\A s \in Side, p \in Prices :
         Resting(Queue(book'[s], p)) < Resting(Queue(book[s], p)) => out' # << >>]_feedVars
=============================================================================
