------------------------------ MODULE Correlator ----------------------------
(***************************************************************************)
(* The correlator (src/utils/correlator.cpp): two shadow books and the     *)
(* trade buffer.  Trades are remembered; every L2 update is turned into    *)
(* the L3 events that explain the change of quantity at its price.         *)
(*                                                                         *)
(* `out` is the batch of events the last call handed to the event          *)
(* callback.  recv_ts is carried through the code untouched and left out.  *)
(***************************************************************************)
EXTENDS TradeBuffer, FiniteSets

CONSTANTS L2Qtys,     \* quantities an L2 update can carry
          TradeQtys,  \* quantities a trade can carry
          MaxOrderId, \* bound: no book hands out an id above this one
          MaxBuffered \* bound: how many <<timestamp, price>> entries can wait

ASSUME InputAssumption == L2Qtys \subseteq Qty /\ TradeQtys \subseteq Qty
ASSUME BoundAssumption == MaxOrderId \in Nat /\ MaxBuffered \in Nat

VARIABLES book,         \* bid_book_ and ask_book_, by side (book_for)
          trade_buffer, \* trade_buffer_
          out           \* events emitted by the last call

vars == <<book, trade_buffer, out>>

EventType == {"OrderAdd", "OrderCancel", "OrderFill"}
L3Event   == [type : EventType, side : Side, order_id : Nat, price : Prices,
              qty : Qty \ {0}, exchange_ts : Timestamps, trade_id : TradeIds \cup {0}]

TypeOK ==
    /\ book \in [Side -> {book["Bid"], book["Ask"]}]
    /\ \A s \in Side : IsShadowBook(book[s])
    /\ IsTradeBuffer(trade_buffer)
    /\ out \in Seq(L3Event)

Init ==
    /\ book = [s \in Side |-> EmptyBook]
    /\ trade_buffer = EmptyBuffer
    /\ out = << >>

-----------------------------------------------------------------------------
(* process_decrease(): what the buffered trade explains is a fill, the     *)
(* rest a cancel; both are consumed from the same queue, fills first, and  *)
(* the side is stamped on the events last.                                 *)
ProcessDecrease(bk, buffer, ts, price, decrease_qty, side) ==
    LET trade    == ConsumeTrade(buffer, ts, price, decrease_qty)
        cancel   == decrease_qty - trade.qty
        filled   == IF trade.qty > 0
                    THEN Consume(bk, price, trade.qty, "OrderFill", ts, trade.trade_id)
                    ELSE [book |-> bk, events |-> << >>]
        canceled == IF cancel > 0
                    THEN Consume(filled.book, price, cancel, "OrderCancel", ts, 0)
                    ELSE [book |-> filled.book, events |-> << >>]
        events   == filled.events \o canceled.events
    IN  [book   |-> canceled.book,
         buffer |-> trade.buffer,
         events |-> [i \in DOMAIN events |-> [events[i] EXCEPT !.side = side]]]

(* on_trade(): the aggressor side is a parameter the code ignores.         *)
OnTrade(ts, price, qty, trade_id) ==
    /\ trade_buffer' = AddTrade(trade_buffer, ts, price, qty, trade_id)
    /\ Cardinality(DOMAIN trade_buffer') <= MaxBuffered
    /\ out' = << >>
    /\ UNCHANGED book

(* on_l2_update(): flush older trades, overwrite the level's total, then   *)
(* act on the sign of the change.                                          *)
Applied(action, price, new_qty, side) ==
    Apply(book[side], action, price, new_qty)

(* Mutant: the new quantity, not the change, is added to the queue.        *)
IncreaseByQuantity(ts, action, price, new_qty, side) ==
    LET applied == Applied(action, price, new_qty, side)
    IN  /\ applied.delta > 0
        /\ book' = [book EXCEPT ![side] = AddOrder(applied.book, price, new_qty)]
        /\ trade_buffer' = FlushTradesBefore(trade_buffer, ts)
        /\ out' = << [type |-> "OrderAdd", side |-> side,
                      order_id |-> applied.book.next_order_id, price |-> price,
                      qty |-> new_qty, exchange_ts |-> ts, trade_id |-> 0] >>

Increase(ts, action, price, new_qty, side) ==
    LET applied == Applied(action, price, new_qty, side)
    IN  /\ applied.delta > 0
        /\ book' = [book EXCEPT ![side] = AddOrder(applied.book, price, applied.delta)]
        /\ trade_buffer' = FlushTradesBefore(trade_buffer, ts)
        /\ out' = << [type |-> "OrderAdd", side |-> side,
                      order_id |-> applied.book.next_order_id, price |-> price,
                      qty |-> applied.delta, exchange_ts |-> ts, trade_id |-> 0] >>

Decrease(ts, action, price, new_qty, side) ==
    LET applied == Applied(action, price, new_qty, side)
        result  == ProcessDecrease(applied.book, FlushTradesBefore(trade_buffer, ts),
                                   ts, price, -applied.delta, side)
    IN  /\ applied.delta < 0
        /\ book' = [book EXCEPT ![side] = result.book]
        /\ trade_buffer' = result.buffer
        /\ out' = result.events

NoChange(ts, action, price, new_qty, side) ==
    LET applied == Applied(action, price, new_qty, side)
    IN  /\ applied.delta = 0
        /\ book' = [book EXCEPT ![side] = applied.book]
        /\ trade_buffer' = FlushTradesBefore(trade_buffer, ts)
        /\ out' = << >>

OnL2Update(ts, action, price, new_qty, side) ==
    \/ /\ book[side].next_order_id <= MaxOrderId
       /\ Increase(ts, action, price, new_qty, side)
    \/ Decrease(ts, action, price, new_qty, side)
    \/ NoChange(ts, action, price, new_qty, side)

Next ==
    \/ \E ts \in Timestamps, price \in Prices, qty \in TradeQtys, id \in TradeIds \cup {0} :
          OnTrade(ts, price, qty, id)
    \/ \E ts \in Timestamps, action \in L2Action, price \in Prices,
          new_qty \in L2Qtys, side \in Side :
          OnL2Update(ts, action, price, new_qty, side)

Spec == Init /\ [][Next]_vars

-----------------------------------------------------------------------------
(* What the shadow books really hold.                                      *)

(* The total that apply() diffs the next update against is not the volume  *)
(* of the queue but twice that volume (modulo the width of Qty): apply()   *)
(* writes the new quantity and add_order() adds the increase once more,    *)
(* and a decrease is subtracted twice in the same way.  So no sequence of  *)
(* calls makes the two drift further apart.                                *)
TotalIsTwiceResting == \A s \in Side : TwiceResting(book[s])

(* In one book an order id rests in one place only, queues are in order of *)
(* arrival, and the id counter is ahead of every resting order, so that    *)
(* add_order() never reissues the id of an order that still rests.         *)
IdsInOrder == \A s \in Side : IdsAscend(book[s])

(* When events stamped ts are handed out, no trade older than ts is still  *)
(* waiting: the flush precedes the matching, whatever the order in which   *)
(* trades and updates arrived.                                             *)
NoStaleTrades ==
    \A i \in DOMAIN out : \A k \in DOMAIN trade_buffer : k[1] >= out[i].exchange_ts

(* A cancel is emitted only for volume no trade explains: after the batch  *)
(* nothing is left in the buffer at its timestamp and price.               *)
CancelsAreUnexplained ==
    \A i \in DOMAIN out :
        out[i].type = "OrderCancel" =>
            <<out[i].exchange_ts, out[i].price>> \notin DOMAIN trade_buffer

-----------------------------------------------------------------------------
(* Time priority: no call reduces an order while an older one rests at the *)
(* same price, none reorders a queue, none inserts ahead of a resting one. *)
KeepsTimePriority ==
    \A s \in Side, p \in Prices :
        \/ PrefixConsumed(Queue(book[s], p), Queue(book'[s], p))
        \/ OneAppended(Queue(book[s], p), Queue(book'[s], p))

FIFOPriority == [][KeepsTimePriority]_vars

(* The batch of a call accounts for the volume at a price: an add by       *)
(* exactly its quantity, fills and cancels by exactly their sum, and the   *)
(* volume stays if the batch is not about this price.                      *)
VolumeTold(side, price) ==
    LET before == Resting(Queue(book[side], price))
        after  == Resting(Queue(book'[side], price))
        hit    == out' # << >> /\ out'[1].side = side /\ out'[1].price = price
    IN  IF hit
        THEN IF out'[1].type = "OrderAdd"
             THEN after = before + Resting(out')
             ELSE before = after + Resting(out')
        ELSE after = before

(* The Delete arm of apply(): one level is gone, and no other queue moved. *)
LevelVanishes(side, price) ==
    /\ price \notin DOMAIN book'[side].levels
    /\ \A s \in Side, p \in Prices :
         s # side \/ p # price => Queue(book'[s], p) = Queue(book[s], p)

(* The batch of a call explains every change of resting volume, at every   *)
(* price of both sides.  The one exception is a call without any event     *)
(* that makes a single level disappear: then all that changed is that its  *)
(* queue is gone.                                                          *)
BatchExplainsVolume ==
    \/ \A s \in Side, p \in Prices : VolumeTold(s, p)
    \/ out' = << >> /\ \E s \in Side, p \in Prices : LevelVanishes(s, p)

VolumeExplained == [][BatchExplainsVolume]_vars

(* The quantity the fills of a batch add up to.                            *)
FilledQty(events) ==
    Resting([i \in 1 .. Len(events) |->
               [qty |-> IF events[i].type = "OrderFill" THEN events[i].qty ELSE 0]])

(* Every fill is paid for: what a call reports as filled it took, in that  *)
(* call, out of the buffered trade of the same timestamp and price, whose  *)
(* id the fills carry.  No traded quantity is ever reported twice.         *)
TradesPayForFills ==
    \A i \in 1 .. Len(out') :
        out'[i].type = "OrderFill" =>
            LET key == <<out'[i].exchange_ts, out'[i].price>>
                left == IF key \in DOMAIN trade_buffer' THEN trade_buffer'[key].qty ELSE 0
            IN  /\ key \in DOMAIN trade_buffer
                /\ FilledQty(out') + left <= trade_buffer[key].qty
                /\ out'[i].trade_id = trade_buffer[key].trade_id

FillsConsumeTrades == [][TradesPayForFills]_vars
=============================================================================
