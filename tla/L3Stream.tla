------------------------------ MODULE L3Stream ------------------------------
(***************************************************************************)
(* What the correlator promises to whoever receives its events, as an      *)
(* abstract specification: FIFO queues of orders and batches of events     *)
(* that can be replayed against them.  A consumer that keeps a queue per   *)
(* side and price, appends every added order and takes every fill and      *)
(* cancel from the head of its queue, holds the very queues of the         *)
(* correlator after each batch -- but for the one thing the stream does    *)
(* not tell: a level can disappear without an event (Drop).                *)
(*                                                                         *)
(* Nothing here knows of quantities announced by an exchange, of totals,   *)
(* of trades or of timestamps: module CorrelatorStream says which state of *)
(* the correlator stands for the variables below.                          *)
(***************************************************************************)
EXTENDS Integers, Sequences

CONSTANT Prices \* the prices of the feed

Side == {"Bid", "Ask"}

VARIABLES queue,   \* by side and price, the resting orders, oldest first
          next_id, \* by side, the id of the next order
          batch    \* the events the last call handed out

Init ==
    /\ queue = [s \in Side |-> [p \in Prices |-> << >>]]
    /\ next_id = [s \in Side |-> 1]
    /\ batch = << >>

-----------------------------------------------------------------------------
(* One event against a queue: it names the order at the head and takes     *)
(* some or all of it; an order with nothing left goes.                     *)
NamesHead(orders, ev) ==
    /\ orders # << >>
    /\ ev.order_id = orders[1].order_id
    /\ ev.qty \in 1 .. orders[1].qty

TakeFromHead(orders, qty) ==
    IF qty = orders[1].qty THEN Tail(orders)
                           ELSE [orders EXCEPT ![1].qty = @ - qty]

(* The queue after each event of a batch, and a batch that can be replayed *)
(* from the queue `old` and ends in the queue `new`.                       *)
Replay(orders, events) ==
    LET after[i \in 0 .. Len(events)] ==
          IF i = 0 THEN orders ELSE TakeFromHead(after[i - 1], events[i].qty)
    IN  after

Replays(old, events, new) ==
    /\ \A i \in 1 .. Len(events) : NamesHead(Replay(old, events)[i - 1], events[i])
    /\ new = Replay(old, events)[Len(events)]

-----------------------------------------------------------------------------
(* A new order, with a fresh id, behind all others of its price.           *)
Add(s, p) ==
    /\ Len(batch') = 1
    /\ LET ev == batch'[1]
       IN  /\ ev.type = "OrderAdd" /\ ev.side = s /\ ev.price = p
           /\ ev.order_id = next_id[s]
           /\ ev.qty > 0
           /\ queue' = [queue EXCEPT ![s][p] =
                           Append(@, [order_id |-> ev.order_id, qty |-> ev.qty])]
    /\ next_id' = [next_id EXCEPT ![s] = @ + 1]

(* Fills, then cancels, of orders of one price, each at the head when its  *)
(* turn comes.                                                             *)
Take(s, p) ==
    /\ batch' # << >>
    /\ \A i \in 1 .. Len(batch') :
         /\ batch'[i].type \in {"OrderFill", "OrderCancel"}
         /\ batch'[i].side = s /\ batch'[i].price = p
    /\ \A i \in 1 .. Len(batch'), j \in 1 .. Len(batch') :
         i < j /\ batch'[i].type = "OrderCancel" => batch'[j].type = "OrderCancel"
    /\ Replays(queue[s][p], batch', queue'[s][p])
    /\ queue' = [queue EXCEPT ![s][p] = queue'[s][p]]
    /\ UNCHANGED next_id

(* A level disappears and nobody is told.                                  *)
Drop(s, p) ==
    /\ batch' = << >>
    /\ queue' = [queue EXCEPT ![s][p] = << >>]
    /\ UNCHANGED next_id

(* A call without events that leaves every queue alone.                    *)
Quiet ==
    /\ batch' = << >>
    /\ UNCHANGED <<queue, next_id>>

Next ==
    \/ \E s \in Side, p \in Prices : Add(s, p) \/ Take(s, p) \/ Drop(s, p)
    \/ Quiet

Spec == Init /\ [][Next]_<<queue, next_id, batch>>
=============================================================================
