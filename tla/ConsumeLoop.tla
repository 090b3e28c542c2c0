----------------------------- MODULE ConsumeLoop ----------------------------
(***************************************************************************)
(* The while loop of ShadowBook::consume(), one iteration per step.        *)
(* Module ShadowBook gives the loop in closed form (Taken, Left,           *)
(* TotalLeft), which is what the correlator's model and the proofs use;    *)
(* this module steps through the loop and compares the two.                *)
(***************************************************************************)
EXTENDS ShadowBook

CONSTANTS MaxOrders, \* bound: longest queue
          MaxTake    \* bound: largest quantity to consume

ASSUME LoopBoundAssumption == MaxOrders \in Nat /\ MaxTake \in Qty

VARIABLES queue,     \* level.orders
          remaining, \* remaining
          events,    \* the part of `out` this call appended
          orders0,   \* history: the queue the call found
          qty0       \* the parameter qty

loopVars == <<queue, remaining, events, orders0, qty0>>

(* Queues of the book: positive quantities, ids in order of arrival.       *)
Queues == UNION {{[i \in 1 .. n |-> [order_id |-> i, qty |-> q[i]]] :
                     q \in [1 .. n -> Qty \ {0}]} : n \in 0 .. MaxOrders}

LoopInit ==
    /\ orders0 \in Queues
    /\ qty0 \in 1 .. MaxTake
    /\ queue = orders0
    /\ remaining = qty0
    /\ events = << >>

Looping == remaining > 0 /\ queue # << >>

(* Mutant: `<` for `<=`.                                                   *)
FrontFitsStrict(front, left) == front.qty < left

FrontFits(front, left) == front.qty <= left

(* Fully consume the front order ...                                       *)
PopFront ==
    /\ Looping
    /\ FrontFits(Head(queue), remaining)
    /\ events' = Append(events, Head(queue))
    /\ remaining' = remaining - Head(queue).qty
    /\ queue' = Tail(queue)
    /\ UNCHANGED <<orders0, qty0>>

(* Mutant: the event is emitted but the front order keeps its quantity.    *)
ReduceFrontKept ==
    /\ Looping
    /\ ~FrontFits(Head(queue), remaining)
    /\ events' = Append(events, [Head(queue) EXCEPT !.qty = remaining])
    /\ remaining' = 0
    /\ UNCHANGED <<queue, orders0, qty0>>

(* ... or partially consume it.                                            *)
ReduceFront ==
    /\ Looping
    /\ ~FrontFits(Head(queue), remaining)
    /\ events' = Append(events, [Head(queue) EXCEPT !.qty = remaining])
    /\ queue' = [queue EXCEPT ![1].qty = @ - remaining]
    /\ remaining' = 0
    /\ UNCHANGED <<orders0, qty0>>

LoopNext == PopFront \/ ReduceFront

LoopSpec == LoopInit /\ [][LoopNext]_loopVars

-----------------------------------------------------------------------------
(* In the middle of the loop no volume is lost or invented: what has been  *)
(* emitted plus what is still wanted is what was asked for, and emitted    *)
(* plus queued is what the queue held.                                     *)
VolumeConserved ==
    /\ Resting(events) + remaining = qty0
    /\ Resting(events) + Resting(queue) = Resting(orders0)

(* When the loop ends it has emitted the pieces, left the queue and        *)
(* reduced the level's total as the closed form says.                      *)
ComputesClosedForm ==
    ~Looping =>
        /\ events = Taken(orders0, qty0)
        /\ queue = Left(orders0, qty0)
        /\ \A total \in Qty :
             (total - (qty0 - remaining)) % QtyMod =
                 TotalLeft([total_qty |-> total, orders |-> orders0], qty0)
=============================================================================
