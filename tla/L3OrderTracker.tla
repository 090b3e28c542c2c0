--------------------------- MODULE L3OrderTracker ---------------------------
(***************************************************************************)
(* The consistency tracker of the emitted L3 stream                        *)
(* (src/utils/l3_order_tracker.cpp): the orders it believes are live, by   *)
(* order id, and its counters.  A tracker is a value; OnEvents feeds it a  *)
(* batch of events, one callback each, in order.  The stored timestamp     *)
(* (LiveOrder::added_ts, never read) and the log lines are left out.       *)
(***************************************************************************)
EXTENDS Integers, Sequences

TrackerStats == [total_adds : Nat, total_cancels : Nat, total_fills : Nat,
                 unknown_order_id : Nat, qty_exceed : Nat, duplicate_add : Nat]

EmptyTracker ==
    [live_orders |-> [id \in {} |-> [price |-> 0, qty |-> 0, side |-> "Bid"]],
     stats |-> [total_adds |-> 0, total_cancels |-> 0, total_fills |-> 0,
                unknown_order_id |-> 0, qty_exceed |-> 0, duplicate_add |-> 0]]

(* Mutant: a duplicate is dropped without being counted.                   *)
HandleAddSilent(tracker, ev) ==
    IF ev.order_id \in DOMAIN tracker.live_orders
    THEN tracker
    ELSE [tracker EXCEPT
            !.live_orders =
                [id \in DOMAIN @ \cup {ev.order_id} |->
                    IF id = ev.order_id
                    THEN [price |-> ev.price, qty |-> ev.qty, side |-> ev.side]
                    ELSE @[id]],
            !.stats.total_adds = @ + 1]

(* handle_add(): emplace does not overwrite; a live id counts as a         *)
(* duplicate and the new order is dropped.                                 *)
HandleAdd(tracker, ev) ==
    IF ev.order_id \in DOMAIN tracker.live_orders
    THEN [tracker EXCEPT !.stats.duplicate_add = @ + 1]
    ELSE [tracker EXCEPT
            !.live_orders =
                [id \in DOMAIN @ \cup {ev.order_id} |->
                    IF id = ev.order_id
                    THEN [price |-> ev.price, qty |-> ev.qty, side |-> ev.side]
                    ELSE @[id]],
            !.stats.total_adds = @ + 1]

(* Mutants of handle_reduce(): an exact match counts as excess; an order   *)
(* with nothing left stays in the map.                                     *)
ExceedsOrEquals(live, ev) == ev.qty >= live[ev.order_id].qty
ReducedNoErase(live, id, left) == [live EXCEPT ![id].qty = left]

Exceeds(live, ev) == ev.qty > live[ev.order_id].qty

(* The live orders once `left` is what remains of order id.                *)
Reduced(live, id, left) ==
    IF left = 0 THEN [other \in DOMAIN live \ {id} |-> live[other]]
                ELSE [live EXCEPT ![id].qty = left]

(* handle_reduce(): look the id up (a different price is only logged),     *)
(* reduce it to no less than zero, drop it when nothing is left.           *)
HandleReduce(tracker, ev) ==
    IF ev.order_id \notin DOMAIN tracker.live_orders
    THEN [tracker EXCEPT !.stats.unknown_order_id = @ + 1]
    ELSE LET live     == tracker.live_orders
             exceeded == Exceeds(live, ev)
             left     == IF exceeded THEN 0 ELSE live[ev.order_id].qty - ev.qty
             count    == IF ev.type = "OrderCancel" THEN "total_cancels" ELSE "total_fills"
         IN  [tracker EXCEPT !.live_orders      = Reduced(live, ev.order_id, left),
                             !.stats.qty_exceed = IF exceeded THEN @ + 1 ELSE @,
                             !.stats[count]     = @ + 1]

OnEvent(tracker, ev) ==
    IF ev.type = "OrderAdd" THEN HandleAdd(tracker, ev) ELSE HandleReduce(tracker, ev)

OnEvents(tracker, events) ==
    LET after[i \in 0 .. Len(events)] ==
          IF i = 0 THEN tracker ELSE OnEvent(after[i - 1], events[i])
    IN  after[Len(events)]
=============================================================================
