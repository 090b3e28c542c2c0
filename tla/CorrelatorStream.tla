--------------------------- MODULE CorrelatorStream --------------------------
(***************************************************************************)
(* The correlator implements the abstract event stream of L3Stream: its    *)
(* queues are the orders of the two shadow books, its ids their counters,  *)
(* its batches the events of a call.                                       *)
(***************************************************************************)
EXTENDS Correlator

Queues  == [s \in Side |-> [p \in Prices |-> Queue(book[s], p)]]
NextIds == [s \in Side |-> book[s].next_order_id]

Stream == INSTANCE L3Stream WITH queue <- Queues, next_id <- NextIds, batch <- out

(* Every behaviour of the correlator is one of the abstract stream: the    *)
(* events of on_l2_update(), replayed in order by a consumer that knows    *)
(* nothing else, rebuild the queues of the books, order by order.          *)
ImplementsStream == Stream!Spec
=============================================================================
