----------------------------- MODULE ShadowBook -----------------------------
(***************************************************************************)
(* One side of the shadow order book (src/utils/shadow_book.cpp): for each *)
(* price the quantity the book believes the exchange shows there and the   *)
(* FIFO queue of synthetic orders that stand for it.  A book is a value;   *)
(* each C++ method is an operator from a book to its result, and module    *)
(* Correlator holds the two books as state.                                *)
(*                                                                         *)
(* `levels` is std::map<Price, LevelState>: a function whose domain is the *)
(* set of prices that have a level.  Qty is uint32_t: every arithmetic     *)
(* assignment to a Qty is taken modulo QtyMod.                             *)
(***************************************************************************)
EXTENDS Integers, Sequences

CONSTANTS Prices, \* the price keys the feed can produce
          QtyMod  \* 2^32 in the code: the number of values of type Qty

ASSUME QtyModAssumption == QtyMod \in Nat \ {0}

Side     == {"Bid", "Ask"}
L2Action == {"New", "Change", "Delete"}
Qty      == 0 .. QtyMod - 1

SyntheticOrder == [order_id : Nat, qty : Qty \ {0}]
LevelState     == [total_qty : Qty, orders : Seq(SyntheticOrder)]

(* A map from some of the prices; a book is that map and the id counter.   *)
IsLevels(levels) == /\ DOMAIN levels \subseteq Prices
                    /\ levels \in [DOMAIN levels -> LevelState]
IsShadowBook(book) == /\ book \in [levels : {book.levels}, next_order_id : Nat]
                      /\ IsLevels(book.levels)

EmptyBook == [levels |-> [p \in {} |-> [total_qty |-> 0, orders |-> << >>]],
              next_order_id |-> 1]

-----------------------------------------------------------------------------
(* std::map operations.  LevelAt is operator[]: a default level if absent. *)

LevelAt(levels, price) ==
    IF price \in DOMAIN levels THEN levels[price]
                               ELSE [total_qty |-> 0, orders |-> << >>]

Put(levels, price, level) ==
    [p \in DOMAIN levels \cup {price} |-> IF p = price THEN level ELSE levels[p]]

(* Mutant: levels_.clear() for levels_.erase(price).                       *)
EraseAll(levels, price) == [p \in {} |-> levels[p]]

Erase(levels, price) == [p \in DOMAIN levels \ {price} |-> levels[p]]

-----------------------------------------------------------------------------
(* The volume queued in front of each position: Cumulative(orders)[i] is   *)
(* the quantity of the first i orders (or of any records with a qty).      *)

Cumulative(orders) ==
    LET c[i \in 0 .. Len(orders)] ==
          IF i = 0 THEN 0 ELSE c[i - 1] + orders[i].qty
    IN  c

Resting(orders) == Cumulative(orders)[Len(orders)]

(* Mutant: `front.qty < remaining` for `<=`, an exact match is not popped. *)
FullyConsumedStrict(orders, qty) ==
    LET c == Cumulative(orders)
    IN  CHOOSE k \in 0 .. Len(orders) :
          /\ k = 0 \/ c[k] < qty
          /\ k < Len(orders) => qty <= c[k + 1]

(* The while loop of consume(), in closed form: the first `full` orders    *)
(* are popped, the next one is reduced by what is left of qty.             *)
FullyConsumed(orders, qty) ==
    LET c == Cumulative(orders)
    IN  CHOOSE k \in 0 .. Len(orders) :
          /\ c[k] <= qty
          /\ k < Len(orders) => qty < c[k + 1]

PartOfNext(orders, qty) ==
    LET k == FullyConsumed(orders, qty)
    IN  IF k < Len(orders) THEN qty - Cumulative(orders)[k] ELSE 0

(* Mutant: the partially consumed order is reported with its whole size.   *)
TakenWhole(orders, qty) ==
    LET k == FullyConsumed(orders, qty)
    IN  SubSeq(orders, 1, IF PartOfNext(orders, qty) > 0 THEN k + 1 ELSE k)

(* What the loop emits, as <<order, quantity>> pieces in queue order ...   *)
Taken(orders, qty) ==
    LET k    == FullyConsumed(orders, qty)
        part == PartOfNext(orders, qty)
    IN  [i \in 1 .. (IF part > 0 THEN k + 1 ELSE k) |->
            IF i <= k THEN orders[i] ELSE [orders[i] EXCEPT !.qty = part]]

(* ... and the queue it leaves.                                            *)
Left(orders, qty) ==
    LET k == FullyConsumed(orders, qty)
    IN  [i \in 1 .. Len(orders) - k |->
            IF i = 1 THEN [orders[k + 1] EXCEPT !.qty = @ - PartOfNext(orders, qty)]
                     ELSE orders[k + i]]

-----------------------------------------------------------------------------
(* apply(): overwrite (or erase) the level's total and report the change.  *)
(* The Change arm inserts a missing level exactly as the New arm does.     *)
Apply(book, action, price, new_qty) ==
    LET level == LevelAt(book.levels, price)
    IN  IF action = "Delete"
        THEN [book  |-> [book EXCEPT !.levels = Erase(@, price)],
              delta |-> -level.total_qty]
        ELSE [book  |-> [book EXCEPT !.levels =
                            Put(@, price, [level EXCEPT !.total_qty = new_qty])],
              delta |-> new_qty - level.total_qty]

(* Mutants of add_order(): the id is not consumed; the order jumps the     *)
(* queue.                                                                  *)
AddOrderSameId(book, price, qty) ==
    LET level == LevelAt(book.levels, price)
        order == [order_id |-> book.next_order_id, qty |-> qty]
    IN  [book EXCEPT !.levels =
           Put(@, price, [total_qty |-> (level.total_qty + qty) % QtyMod,
                          orders    |-> Append(level.orders, order)])]

AddOrderInFront(book, price, qty) ==
    LET level == LevelAt(book.levels, price)
        order == [order_id |-> book.next_order_id, qty |-> qty]
    IN  [levels |-> Put(book.levels, price,
                        [total_qty |-> (level.total_qty + qty) % QtyMod,
                         orders    |-> <<order>> \o level.orders]),
         next_order_id |-> book.next_order_id + 1]

(* add_order(): push a new order at the back; the level's total grows by   *)
(* its quantity (on top of what apply() already wrote).                    *)
AddOrder(book, price, qty) ==
    LET level == LevelAt(book.levels, price)
    IN  [levels |->
            Put(book.levels, price,
                [total_qty |-> (level.total_qty + qty) % QtyMod,
                 orders    |-> Append(level.orders,
                                      [order_id |-> book.next_order_id, qty |-> qty])]),
         next_order_id |-> book.next_order_id + 1]

(* Mutant: the level's total is not reduced.                               *)
TotalLeftUnchanged(level, qty) == level.total_qty

(* total_qty -= (qty - remaining): what was taken, at most what rests.     *)
TotalLeft(level, qty) ==
    LET resting == Resting(level.orders)
    IN  (level.total_qty - (IF qty < resting THEN qty ELSE resting)) % QtyMod

(* consume(): cancel or fill `qty` from the front of the level's queue.    *)
(* A missing level yields no event; a level whose queue ends up empty is   *)
(* erased.  `side` is the default {} = Bid here: the caller overwrites it. *)
Consume(book, price, qty, type, ts, trade_id) ==
    IF price \notin DOMAIN book.levels
    THEN [book |-> book, events |-> << >>]
    ELSE LET level == book.levels[price]
             taken == Taken(level.orders, qty)
             left  == Left(level.orders, qty)
             total == TotalLeft(level, qty)
         IN  [book   |-> [book EXCEPT !.levels =
                            IF left = << >>
                            THEN Erase(@, price)
                            ELSE Put(@, price, [total_qty |-> total, orders |-> left])],
              events |-> [i \in DOMAIN taken |->
                            [type |-> type, side |-> "Bid",
                             order_id |-> taken[i].order_id, price |-> price,
                             qty |-> taken[i].qty, exchange_ts |-> ts,
                             trade_id |-> IF type = "OrderFill" THEN trade_id ELSE 0]]]

-----------------------------------------------------------------------------
(* What a book keeps true from call to call; Correlator states these of    *)
(* both of its books.                                                      *)

Queue(book, price) == LevelAt(book.levels, price).orders

(* The total that apply() diffs the next update against is twice the       *)
(* volume of the queue (in the width of Qty).                              *)
TwiceResting(book) ==
    \A p \in DOMAIN book.levels :
        book.levels[p].total_qty = (2 * Resting(Queue(book, p))) % QtyMod

(* Queues are in order of arrival, the id counter is ahead of every        *)
(* resting order, and an id rests at one price only.                       *)
IdsAscend(book) ==
    \A p \in DOMAIN book.levels : \A i \in 1 .. Len(Queue(book, p)) :
        /\ Queue(book, p)[i].order_id < book.next_order_id
        /\ \A j \in 1 .. Len(Queue(book, p)) :
             i < j => Queue(book, p)[i].order_id < Queue(book, p)[j].order_id
        /\ \A r \in DOMAIN book.levels \ {p} : \A j \in 1 .. Len(Queue(book, r)) :
             Queue(book, r)[j].order_id # Queue(book, p)[i].order_id

(* What one call may do to a queue: drop a prefix and reduce the order     *)
(* that becomes the head, or append one order.                             *)
PrefixConsumed(old, new) ==
    \E k \in 0 .. Len(old) :
        /\ Len(new) = Len(old) - k
        /\ \A i \in 2 .. Len(new) : new[i] = old[k + i]
        /\ Len(new) > 0 => /\ new[1].order_id = old[k + 1].order_id
                           /\ new[1].qty <= old[k + 1].qty

OneAppended(old, new) ==
    /\ Len(new) = Len(old) + 1
    /\ \A i \in 1 .. Len(old) : new[i] = old[i]
=============================================================================
