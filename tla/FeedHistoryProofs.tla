--------------------------- MODULE FeedHistoryProofs -------------------------
(***************************************************************************)
(* The shadow books never show more than the exchange announced, whatever  *)
(* the feed sends.  The argument: what rests, R, fits twice into Qty       *)
(* because it is at most what was announced, so the level's total is       *)
(* exactly 2R, and an update to n leaves n - R or nothing.                 *)
(***************************************************************************)
EXTENDS FeedHistory, L3StreamProofs

LEMMA TotalIsExact ==
    ASSUME NEW bk, IsShadowBook(bk), TwiceResting(bk), NEW price \in Prices,
           NEW a \in Nat, 2 * a < QtyMod, Resting(Queue(bk, price)) <= a
    PROVE  /\ Queue(bk, price) = LevelAt(bk.levels, price).orders
           /\ Resting(Queue(bk, price)) \in Nat
           /\ LevelAt(bk.levels, price).total_qty = 2 * Resting(Queue(bk, price))
<1> DEFINE R == Resting(Queue(bk, price))
           T == LevelAt(bk.levels, price).total_qty
<1>1. Queue(bk, price) = LevelAt(bk.levels, price).orders
  BY LevelAtFacts
<1>2. R \in Nat
  BY LevelAtFacts, RestingNat, OrdersHaveQty
<1>3. T = (2 * R) % QtyMod
  BY <1>1, TwiceAt
<1>4. R <= a
  OBVIOUS
<1> HIDE DEF R, T
<1>5. 2 * R \in 0 .. QtyMod - 1 /\ 2 * R = 0 * QtyMod + 2 * R
  BY <1>2, <1>4, QtyModAssumption
<1>6. (2 * R) % QtyMod = 2 * R
  BY <1>2, <1>5, ModUnique
<1>7. QED
  BY <1>1, <1>2, <1>3, <1>6 DEF R, T

(* add_order(): the queue grows from R to n - R.                           *)
LEMMA IncreaseWithin ==
    ASSUME NEW bk, IsShadowBook(bk), TwiceResting(bk), NEW price \in Prices,
           NEW a \in Nat, 2 * a < QtyMod, Resting(Queue(bk, price)) <= a,
           NEW action \in L2Action, NEW new_qty \in Qty,
           Apply(bk, action, price, new_qty).delta > 0
    PROVE  LET r   == Apply(bk, action, price, new_qty)
               new == AddOrder(r.book, price, r.delta)
               R   == Resting(Queue(bk, price))
           IN  /\ action # "Delete"
               /\ R < new_qty /\ Resting(Queue(new, price)) = new_qty - R
               /\ \A p \in Prices \ {price} : Queue(new, p) = Queue(bk, p)
<1> DEFINE r   == Apply(bk, action, price, new_qty)
           new == AddOrder(r.book, price, r.delta)
           o   == [order_id |-> bk.next_order_id, qty |-> r.delta]
           T   == LevelAt(bk.levels, price).total_qty
           R   == Resting(Queue(bk, price))
<1>1. R \in Nat /\ T = 2 * R
  BY TotalIsExact
<1>2. r.delta = IF action = "Delete" THEN -T ELSE new_qty - T
  BY DEF Apply
<1>3. r.delta > 0
  OBVIOUS
<1>4. /\ o \in SyntheticOrder
      /\ IsShadowBook(new)
      /\ DOMAIN new.levels = DOMAIN bk.levels \cup {price}
      /\ \A p \in DOMAIN bk.levels \ {price} : new.levels[p] = bk.levels[p]
      /\ new.levels[price].orders = Append(Queue(bk, price), o)
  BY IncreaseAppends
<1>5. Queue(bk, price) \in Seq(SyntheticOrder)
  BY QueueFacts
<1>6. Queue(new, price) = Append(Queue(bk, price), o)
  <2> HIDE DEF new, o
  <2>1. QED
    BY <1>4, QueueFacts
<1>7. o.qty = r.delta
  OBVIOUS
<1> HIDE DEF o, T, r, new
<1>8. Resting(Append(Queue(bk, price), o)) = R + r.delta
  BY <1>4, <1>5, <1>7, RestingAppend DEF R
<1>9. action # "Delete" /\ R < new_qty /\ R + r.delta = new_qty - R
  <2> HIDE DEF R
  <2>1. QED
    BY <1>1, <1>2, <1>3, QtyModAssumption DEF Qty
<1>10. ASSUME NEW p \in Prices \ {price} PROVE Queue(new, p) = Queue(bk, p)
  BY <1>4, QueueFacts
<1>11. QED
  BY <1>6, <1>8, <1>9, <1>10 DEF new, r, R

(* The other calls: the queue shrinks from R to n - R, or disappears.      *)
LEMMA DecreaseWithin ==
    ASSUME NEW bk, IsShadowBook(bk), TwiceResting(bk), NEW price \in Prices,
           NEW a \in Nat, 2 * a < QtyMod, Resting(Queue(bk, price)) <= a,
           NEW action \in L2Action, NEW new_qty \in Qty, NEW new,
           Apply(bk, action, price, new_qty).delta <= 0,
           ConsumedTo(Apply(bk, action, price, new_qty).book, new, price,
                      -Apply(bk, action, price, new_qty).delta)
    PROVE  LET R == Resting(Queue(bk, price))
               n == IF action = "Delete" THEN 0 ELSE new_qty
           IN  /\ Resting(Queue(new, price)) = IF n > R THEN n - R ELSE 0
               /\ \A p \in Prices \ {price} :
                    Queue(new, p) = Queue(bk, p) \/ Queue(new, p) = << >>
<1> DEFINE r     == Apply(bk, action, price, new_qty)
           level == LevelAt(bk.levels, price)
           T     == level.total_qty
           R     == Resting(Queue(bk, price))
<1>1. R \in Nat /\ T = 2 * R /\ Queue(bk, price) = level.orders
  BY TotalIsExact
<1>2. r.delta = IF action = "Delete" THEN -T ELSE new_qty - T
  BY DEF Apply
<1>3. ConsumedTo(r.book, new, price, -r.delta)
  OBVIOUS
<1>4. /\ action = "Delete" => DOMAIN r.book.levels = DOMAIN bk.levels \ {price}
      /\ action # "Delete" =>
           /\ DOMAIN r.book.levels = DOMAIN bk.levels \cup {price}
           /\ r.book.levels[price] = [total_qty |-> new_qty, orders |-> level.orders]
      /\ \A p \in DOMAIN bk.levels \ {price} :
           p \in DOMAIN r.book.levels /\ r.book.levels[p] = bk.levels[p]
  BY ApplyFacts
<1> HIDE DEF r, level, T
<1>5. IsShadowBook(new)
  BY <1>3 DEF ConsumedTo
<1> DEFINE n == IF action = "Delete" THEN 0 ELSE new_qty
<1>6. n \in Nat
  BY QtyModAssumption DEF Qty
<1>7. ASSUME price \notin DOMAIN new.levels
      PROVE  Resting(Queue(new, price)) = IF n > R THEN n - R ELSE 0
  <2>1. Queue(new, price) = << >>
    BY <1>5, <1>7, QueueFacts
  <2>2. Resting(Queue(new, price)) = 0
    BY <2>1, EmptyQueue
  <2>3. ~(n > R)
    <3>1. CASE action = "Delete"
      BY <1>1, <3>1
    <3>2. CASE action # "Delete"
      <4>1. /\ price \in DOMAIN r.book.levels
            /\ r.book.levels[price].orders = Queue(bk, price)
        BY <1>1, <1>4, <3>2
      <4>2. R <= -r.delta
        BY <1>3, <1>7, <4>1 DEF ConsumedTo
      <4>3. R <= -(new_qty - 2 * R) /\ n = new_qty
        BY <1>1, <1>2, <3>2, <4>2
      <4> HIDE DEF R, n
      <4>4. QED
        BY <1>1, <1>6, <4>3
    <3>3. QED
      BY <3>1, <3>2
  <2>4. QED
    BY <2>2, <2>3
<1>8. ASSUME price \in DOMAIN new.levels
      PROVE  Resting(Queue(new, price)) = IF n > R THEN n - R ELSE 0
  <2>1. /\ price \in DOMAIN r.book.levels
        /\ Resting(new.levels[price].orders) =
             Resting(r.book.levels[price].orders) - (-r.delta)
    BY <1>3, <1>8 DEF ConsumedTo
  <2>2. action # "Delete" /\ r.book.levels[price].orders = Queue(bk, price)
    BY <1>1, <1>4, <2>1
  <2>3. Queue(new, price) = new.levels[price].orders
    BY <1>5, <1>8, QueueFacts
  <2>4. Resting(Queue(new, price)) = R - (-(new_qty - T))
    BY <1>2, <2>1, <2>2, <2>3
  <2>5. Resting(Queue(new, price)) \in Nat
    BY <1>5, QueueFacts, RestingNat, OrdersHaveQty
  <2>6. n = new_qty
    BY <2>2
  <2> DEFINE after == Resting(Queue(new, price))
  <2> HIDE DEF R, n, after
  <2>7. after = n - R /\ after \in Nat
    BY <1>1, <1>6, <2>4, <2>5, <2>6 DEF after
  <2>8. after = IF n > R THEN n - R ELSE 0
    BY <1>1, <1>6, <2>7
  <2>9. QED
    BY <2>8 DEF after, R, n
<1>9. ASSUME NEW p \in Prices \ {price}
      PROVE  Queue(new, p) = Queue(bk, p) \/ Queue(new, p) = << >>
  <2>1. CASE p \notin DOMAIN new.levels
    BY <1>5, <2>1, QueueFacts
  <2>2. CASE p \in DOMAIN new.levels
    <3>1. p \in DOMAIN bk.levels /\ new.levels[p] = bk.levels[p]
      BY <1>3, <1>4, <2>2 DEF ConsumedTo
    <3>2. QED
      BY <1>5, <2>2, <3>1, QueueFacts
  <2>3. QED
    BY <2>1, <2>2
<1>10. QED
  BY <1>7, <1>8, <1>9
-----------------------------------------------------------------------------
(* What was announced fits twice into Qty.                                 *)
AnnouncedFits ==
    announced \in [Side -> [Prices -> L2Qtys \cup {0}]]

FInv == IInv /\ AnnouncedFits /\ RestingWithinAnnounced

LEMMA AnnouncedTwice ==
    ASSUME AnnouncedFits, NEW s \in Side, NEW p \in Prices
    PROVE  announced[s][p] \in Nat /\ 2 * announced[s][p] < QtyMod
<1>1. announced[s][p] \in L2Qtys \cup {0}
  BY DEF AnnouncedFits
<1>2. \A q \in L2Qtys : q \in Nat /\ 2 * q < QtyMod
  BY FeedFitsTwice, InputAssumption, QtyModAssumption DEF Qty
<1>3. QED
  BY <1>1, <1>2, QtyModAssumption

LEMMA FeedInitInv == FeedInit => FInv
<1>1. SUFFICES ASSUME FeedInit PROVE FInv
  OBVIOUS
<1>2. IInv
  BY <1>1, InitInv DEF FeedInit
<1>3. AnnouncedFits
  BY <1>1 DEF FeedInit, AnnouncedFits
<1>4. ASSUME NEW s \in Side, NEW p \in Prices
      PROVE  Resting(Queue(book[s], p)) <= announced[s][p]
  <2>1. book[s] = EmptyBook /\ announced[s][p] = 0
    BY <1>1 DEF FeedInit, Init
  <2>2. DOMAIN EmptyBook.levels = {}
    BY DEF EmptyBook
  <2>3. Queue(EmptyBook, p) = << >>
    BY <2>2, EmptyBookFacts, QueueFacts
  <2>4. QED
    BY <2>1, <2>3, EmptyQueue
<1>5. QED
  BY <1>2, <1>3, <1>4 DEF FInv, RestingWithinAnnounced

(* An update of one price of one side.                                     *)
LEMMA WithinStep ==
    ASSUME FInv, NEW ts \in Timestamps, NEW action \in L2Action, NEW price \in Prices,
           NEW new_qty \in L2Qtys, NEW side \in Side,
           FeedUpdate(ts, action, price, new_qty, side)
    PROVE  /\ AnnouncedFits' /\ RestingWithinAnnounced'
           /\ LeavesDifference(side, price)
<1> DEFINE old == book[side]
           new == book'[side]
           n   == IF action = "Delete" THEN 0 ELSE new_qty
           r   == Apply(old, action, price, new_qty)
           R   == Resting(Queue(old, price))
<1>1. /\ OnL2Update(ts, action, price, new_qty, side)
      /\ announced' = [announced EXCEPT ![side][price] = n]
  BY DEF FeedUpdate
<1>2. /\ IsShadowBook(old) /\ TwiceResting(old) /\ side \in DOMAIN book
      /\ \A s \in Side : s \in DOMAIN book /\ IsShadowBook(book[s])
  BY DEF FInv, IInv, TypeOK, TotalIsTwiceResting
<1>3. announced \in [Side -> [Prices -> L2Qtys \cup {0}]]
  BY DEF FInv, AnnouncedFits
<1>4. n \in L2Qtys \cup {0}
  OBVIOUS
<1>5. /\ announced[side][price] \in Nat /\ 2 * announced[side][price] < QtyMod
      /\ Resting(Queue(old, price)) <= announced[side][price]
  BY AnnouncedTwice DEF FInv, RestingWithinAnnounced
<1>6. new_qty \in Qty
  BY InputAssumption
<1>7. /\ book' = [book EXCEPT ![side] = new]
      /\ Resting(Queue(new, price)) = IF n > R THEN n - R ELSE 0
      /\ \A p \in Prices \ {price} : Queue(new, p) = Queue(old, p) \/ Queue(new, p) = << >>
  <2>1. CASE Increase(ts, action, price, new_qty, side)
    <3>1. r.delta > 0 /\ book' = [book EXCEPT ![side] = AddOrder(r.book, price, r.delta)]
      BY <2>1 DEF Increase, Applied
    <3>2. new = AddOrder(r.book, price, r.delta)
      BY <1>2, <3>1
    <3>3. /\ action # "Delete"
          /\ R < new_qty
          /\ Resting(Queue(AddOrder(r.book, price, r.delta), price)) = new_qty - R
          /\ \A p \in Prices \ {price} :
               Queue(AddOrder(r.book, price, r.delta), p) = Queue(old, p)
      BY <1>2, <1>5, <1>6, <3>1, IncreaseWithin
    <3> HIDE DEF r, old, new, R
    <3>4. n > R /\ Resting(Queue(new, price)) = n - R
      BY <3>2, <3>3
    <3> HIDE DEF n
    <3>5. QED
      BY <3>1, <3>2, <3>3, <3>4
  <2>2. CASE Decrease(ts, action, price, new_qty, side)
             \/ NoChange(ts, action, price, new_qty, side)
    <3>1. Consumes(ts, action, price, new_qty, side)
      BY <2>2, DecreaseConsumes, NoChangeConsumes DEF FInv
    <3>2. /\ r.delta <= 0
          /\ book' = [book EXCEPT ![side] = new]
          /\ ConsumedTo(r.book, new, price, -r.delta)
      BY <3>1 DEF Consumes
    <3>3. /\ Resting(Queue(new, price)) = IF n > R THEN n - R ELSE 0
          /\ \A p \in Prices \ {price} :
               Queue(new, p) = Queue(old, p) \/ Queue(new, p) = << >>
      BY <1>2, <1>5, <1>6, <3>2, DecreaseWithin
    <3>4. QED
      BY <3>2, <3>3
  <2>3. QED
    BY <1>1, <2>1, <2>2 DEF OnL2Update
<1>8. Resting(Queue(new, price)) <= n
  <2>1. R \in Nat
    BY <1>2, QueueFacts, RestingNat, OrdersHaveQty
  <2>2. n \in Nat
    BY <1>4, InputAssumption, QtyModAssumption DEF Qty
  <2> HIDE DEF R, n
  <2>3. QED
    BY <1>7, <2>1, <2>2
<1> HIDE DEF n
<1>9. LeavesDifference(side, price)
  <2>1. announced'[side][price] = n
    BY <1>1, <1>3
  <2>2. QED
    BY <1>7, <2>1 DEF LeavesDifference
<1>10. AnnouncedFits'
  BY <1>1, <1>3, <1>4 DEF AnnouncedFits
<1>11. ASSUME NEW s \in Side, NEW p \in Prices
      PROVE  Resting(Queue(book'[s], p)) <= announced'[s][p]
  <2>1. Resting(Queue(book[s], p)) <= announced[s][p]
    BY DEF FInv, RestingWithinAnnounced
  <2>2. CASE s = side /\ p = price
    BY <1>1, <1>3, <1>8, <2>2
  <2>3. CASE s = side /\ p # price
    <3>1. announced'[s][p] = announced[s][p]
      BY <1>1, <1>3, <2>3
    <3>2. Queue(book'[s], p) = Queue(book[s], p) \/ Queue(book'[s], p) = << >>
      BY <1>7, <2>3
    <3>3. announced[s][p] \in Nat
      BY AnnouncedTwice DEF FInv
    <3>4. QED
      BY <2>1, <3>1, <3>2, <3>3, EmptyQueue
  <2>4. CASE s # side
    <3>1. announced'[s][p] = announced[s][p] /\ book'[s] = book[s]
      BY <1>1, <1>2, <1>3, <1>7, <2>4
    <3>2. QED
      BY <2>1, <3>1
  <2>5. QED
    BY <2>2, <2>3, <2>4
<1>12. QED
  BY <1>10, <1>11, <1>9 DEF RestingWithinAnnounced

LEMMA FeedNextInv ==
    ASSUME FInv, [FeedNext]_feedVars
    PROVE  FInv'
<1>1. CASE UNCHANGED feedVars
  <2>1. UNCHANGED vars
    BY <1>1 DEF feedVars, vars
  <2>2. IInv'
    BY <2>1, NextInv DEF FInv
  <2>3. AnnouncedFits' /\ RestingWithinAnnounced'
    BY <1>1 DEF feedVars, FInv, AnnouncedFits, RestingWithinAnnounced
  <2>4. QED
    BY <2>2, <2>3 DEF FInv
<1>2. ASSUME NEW ts \in Timestamps, NEW price \in Prices, NEW qty \in TradeQtys,
             NEW id \in TradeIds \cup {0}, FeedTrade(ts, price, qty, id)
      PROVE  FInv'
  <2>1. OnTrade(ts, price, qty, id) /\ book' = book /\ announced' = announced
    BY <1>2 DEF FeedTrade, OnTrade
  <2>2. IInv'
    BY <2>1, OnTradeStep DEF FInv
  <2>3. AnnouncedFits' /\ RestingWithinAnnounced'
    BY <2>1 DEF FInv, AnnouncedFits, RestingWithinAnnounced
  <2>4. QED
    BY <2>2, <2>3 DEF FInv
<1>3. ASSUME NEW ts \in Timestamps, NEW action \in L2Action, NEW price \in Prices,
             NEW new_qty \in L2Qtys, NEW side \in Side,
             FeedUpdate(ts, action, price, new_qty, side)
      PROVE  FInv'
  <2>1. Next
    BY <1>3 DEF FeedUpdate, Next
  <2>2. IInv'
    BY <2>1, NextInv DEF FInv
  <2>3. QED
    BY <1>3, <2>2, WithinStep DEF FInv
<1>4. QED
  BY <1>1, <1>2, <1>3 DEF FeedNext

(* For every width of Qty, every feed whose quantities fit twice into it   *)
(* and every sequence of trades and updates, the shadow queue at a price   *)
(* never holds more than the exchange last announced there.                *)
THEOREM NeverOverstates == FeedSpec => []RestingWithinAnnounced
<1>1. FInv /\ [FeedNext]_feedVars => FInv'
  BY FeedNextInv
<1>2. FInv => RestingWithinAnnounced
  BY DEF FInv
<1>3. QED
  BY FeedInitInv, <1>1, <1>2, PTL DEF FeedSpec

(* For every such feed, an update to n of a level that rests R leaves      *)
(* n - R, or nothing: announcing a level twice empties it.                 *)
THEOREM UpdatesLeaveDifference == FeedSpec => UpdateLeavesDifference
<1>1. FInv /\ [FeedNext]_feedVars => FInv'
  BY FeedNextInv
<1>2. FInv /\ [FeedNext]_feedVars => [EveryUpdateLeavesDifference]_feedVars
  BY WithinStep DEF EveryUpdateLeavesDifference
<1>3. QED
  BY FeedInitInv, <1>1, <1>2, PTL DEF FeedSpec, UpdateLeavesDifference

-----------------------------------------------------------------------------
(* The history variables only watch: the feed drives the correlator        *)
(* through calls of its own specification.                                 *)
THEOREM FeedRunsCorrelator == FeedSpec => Spec
<1>1. FeedInit => Init
  BY DEF FeedInit
<1>2. [FeedNext]_feedVars => [Next]_vars
  BY DEF FeedNext, FeedTrade, FeedUpdate, Next, feedVars, vars
<1>3. QED
  BY <1>1, <1>2, PTL DEF FeedSpec, Spec

(* So along every feed an order id rests once in its book, the events can  *)
(* be replayed into the queues of the books, and those of a call add up to *)
(* what it did to each of them, silent Deletes excepted.                   *)
THEOREM FeedStreams == FeedSpec => []IdsInOrder /\ ImplementsStream /\ VolumeExplained
<1>1. QED
  BY FeedRunsCorrelator, IdsStayInOrder, StreamRefined, VolumeIsExplained

-----------------------------------------------------------------------------
(* The ledger of trades: no call reports more at a key than it takes out   *)
(* of the buffer there, and only a trade puts anything into it.            *)

Masked(events, k) ==
    [i \in 1 .. Len(events) |->
       [qty |-> IF /\ events[i].type = "OrderFill"
                   /\ <<events[i].exchange_ts, events[i].price>> = k
                THEN events[i].qty ELSE 0]]

LEMMA NothingFilledAt ==
    ASSUME NEW events, Len(events) \in Nat, NEW k,
           \A i \in 1 .. Len(events) :
              events[i].type = "OrderFill" => <<events[i].exchange_ts, events[i].price>> # k
    PROVE  FilledAt(events, k) = 0
<1> DEFINE n == Len(events)
           m == Masked(events, k)
           f == [i \in 0 .. n |-> 0]
<1>1. DOMAIN m = 1 .. n /\ m = [i \in 1 .. n |-> m[i]]
  BY DEF Masked
<1>2. \A i \in 1 .. n : m[i].qty = 0
  BY DEF Masked
<1> HIDE DEF m
<1>3. Len(m) = n /\ HasQty(m)
  BY <1>1, <1>2 DEF HasQty
<1>4. PartialSums(f, m, n) /\ f[n] = 0
  BY <1>2 DEF PartialSums
<1> HIDE DEF f, n
<1>5. Resting(m) = f[n]
  BY <1>3, <1>4, RestingIsLastSum
<1>6. FilledAt(events, k) = Resting(m)
  BY DEF FilledAt, m, Masked
<1>7. QED
  BY <1>4, <1>5, <1>6

LEMMA AllFilledAt ==
    ASSUME NEW events, NEW ts, NEW price,
           \A i \in 1 .. Len(events) :
              events[i].exchange_ts = ts /\ events[i].price = price
    PROVE  FilledAt(events, <<ts, price>>) = FilledQty(events)
BY DEF FilledAt, FilledQty

LEMMA FilledQtyNat ==
    ASSUME NEW events \in Seq(L3Event)
    PROVE  FilledQty(events) \in Nat
<1> DEFINE n == Len(events)
           m == [i \in 1 .. n |->
                   [qty |-> IF events[i].type = "OrderFill" THEN events[i].qty ELSE 0]]
<1>1. n \in Nat /\ \A i \in 1 .. n : events[i].qty \in Nat
  BY EventsHaveQty DEF HasQty
<1>2. DOMAIN m = 1 .. n /\ \A i \in 1 .. n : m[i].qty \in Nat
  BY <1>1
<1>3. m = [i \in 1 .. n |-> m[i]]
  OBVIOUS
<1> HIDE DEF m
<1>4. HasQty(m)
  BY <1>1, <1>2, <1>3 DEF HasQty
<1>5. FilledQty(events) = Resting(m)
  BY DEF FilledQty, m
<1>6. QED
  BY <1>4, <1>5, RestingNat

LEMMA ConsumeTradeShrinks ==
    ASSUME NEW buffer, IsTradeBuffer(buffer), NEW ts, NEW price, NEW qty \in Qty, NEW k
    PROVE  Buffered(ConsumeTrade(buffer, ts, price, qty).buffer, k) <= Buffered(buffer, k)
<1> DEFINE key       == <<ts, price>>
           entry     == buffer[key]
           available == IF entry.qty < qty THEN entry.qty ELSE qty
           new       == ConsumeTrade(buffer, ts, price, qty).buffer
<1>1. \A j \in DOMAIN buffer : buffer[j] \in TradeEntry /\ buffer[j].qty \in Nat
  BY QtyModAssumption DEF IsTradeBuffer, TradeEntry, Qty
<1>2. CASE key \notin DOMAIN buffer
  <2>1. new = buffer
    BY <1>2 DEF ConsumeTrade
  <2> HIDE DEF new
  <2>2. QED
    BY <1>1, <2>1 DEF Buffered, new
<1>3. CASE key \in DOMAIN buffer
  <2>1. new = IF entry.qty = available
              THEN [j \in DOMAIN buffer \ {key} |-> buffer[j]]
              ELSE [buffer EXCEPT ![key] = [entry EXCEPT !.qty = @ - available]]
    BY <1>3 DEF ConsumeTrade
  <2>2. available \in Nat
    BY <1>1, <1>3, QtyModAssumption DEF Qty
  <2> HIDE DEF new, available, key
  <2>3. CASE entry.qty = available
    BY <1>1, <2>1, <2>3 DEF Buffered, new
  <2>4. CASE entry.qty # available
    <3>1. DOMAIN new = DOMAIN buffer
      BY <2>1, <2>4
    <3>2. CASE k = key
      <4>1. new[key] = [entry EXCEPT !.qty = @ - available]
        BY <1>3, <2>1, <2>4
      <4>2. new[key].qty = entry.qty - available
        BY <1>1, <1>3, <4>1 DEF TradeEntry
      <4>3. QED
        BY <1>1, <1>3, <2>2, <3>1, <3>2, <4>2 DEF Buffered, new
    <3>3. CASE k # key
      BY <1>1, <2>1, <2>4, <3>1, <3>3 DEF Buffered, new
    <3>4. QED
      BY <3>2, <3>3
  <2>5. QED
    BY <2>3, <2>4
<1>4. QED
  BY <1>2, <1>3

LEMMA FlushShrinks ==
    ASSUME NEW buffer, IsTradeBuffer(buffer), NEW ts, NEW k
    PROVE  Buffered(FlushTradesBefore(buffer, ts), k) <= Buffered(buffer, k)
<1>1. \A j \in DOMAIN buffer : buffer[j].qty \in Nat
  BY QtyModAssumption DEF IsTradeBuffer, TradeEntry, Qty
<1>2. QED
  BY <1>1 DEF Buffered, FlushTradesBefore

(* An update takes at least what it reports out of the buffer.             *)
LEMMA UpdatePays ==
    ASSUME IInv, NEW ts \in Timestamps, NEW action \in L2Action, NEW price \in Prices,
           NEW new_qty \in L2Qtys, NEW side \in Side,
           OnL2Update(ts, action, price, new_qty, side), NEW k
    PROVE  /\ FilledAt(out', k) \in Int
           /\ Buffered(trade_buffer', k) + FilledAt(out', k) <= Buffered(trade_buffer, k)
<1> DEFINE before == Buffered(trade_buffer, k)
           after  == Buffered(trade_buffer', k)
<1>1. IsTradeBuffer(trade_buffer) /\ IsTradeBuffer(trade_buffer')
  <2>1. Next
    BY DEF Next
  <2>2. QED
    BY <2>1, NextInv DEF IInv, TypeOK
<1>2. before \in Nat /\ after \in Nat
  BY <1>1, QtyModAssumption DEF IsTradeBuffer, TradeEntry, Qty, Buffered
<1>3. CASE Increase(ts, action, price, new_qty, side) \/ NoChange(ts, action, price, new_qty, side)
  <2>1. after <= before
    BY <1>1, <1>3, FlushShrinks DEF Increase, NoChange
  <2>2. /\ Len(out') \in Nat
        /\ \A i \in 1 .. Len(out') : out'[i].type # "OrderFill"
    BY <1>3 DEF Increase, NoChange
  <2>3. FilledAt(out', k) = 0
    BY <2>2, NothingFilledAt
  <2> HIDE DEF before, after
  <2>4. after + 0 <= before
    BY <1>2, <2>1
  <2>5. QED
    BY <2>3, <2>4 DEF before, after
<1>4. CASE Decrease(ts, action, price, new_qty, side)
  <2> DEFINE key  == <<ts, price>>
             r    == Apply(book[side], action, price, new_qty)
             kept == FlushTradesBefore(trade_buffer, ts)
             d    == -r.delta
  <2>1. Consumes(ts, action, price, new_qty, side)
    BY <1>4, DecreaseConsumes
  <2>2. /\ out' \in Seq(L3Event) /\ Len(out') \in Nat
        /\ \A i \in 1 .. Len(out') : out'[i].exchange_ts = ts /\ out'[i].price = price
    BY <2>1 DEF Consumes
  <2>3. after <= before
    <3>1. IsShadowBook(book[side]) /\ new_qty \in Qty /\ r.delta <= 0
      BY <2>1, InputAssumption DEF IInv, TypeOK, Consumes
    <3>2. d \in Qty
      BY <3>1, DeltaFacts
    <3>3. IsTradeBuffer(kept)
      BY <1>1, FlushTradesType
    <3>4. trade_buffer' = ConsumeTrade(kept, ts, price, d).buffer
      BY <1>4 DEF Decrease, Applied, ProcessDecrease
    <3> HIDE DEF d, kept
    <3>5. after <= Buffered(kept, k)
      BY <3>2, <3>3, <3>4, ConsumeTradeShrinks
    <3>6. Buffered(kept, k) <= before
      BY <1>1, FlushShrinks DEF kept
    <3>7. Buffered(kept, k) \in Nat
      BY <3>3, QtyModAssumption DEF IsTradeBuffer, TradeEntry, Qty, Buffered
    <3> HIDE DEF before, after
    <3>8. QED
      BY <1>2, <3>5, <3>6, <3>7
  <2>4. CASE k # key \/ \A i \in 1 .. Len(out') : out'[i].type # "OrderFill"
    <3>1. FilledAt(out', k) = 0
      BY <2>2, <2>4, NothingFilledAt
    <3> HIDE DEF before, after
    <3>2. after + 0 <= before
      BY <1>2, <2>3
    <3>3. QED
      BY <3>1, <3>2 DEF before, after
  <2>5. CASE k = key /\ \E i \in 1 .. Len(out') : out'[i].type = "OrderFill"
    <3>1. PICK i \in 1 .. Len(out') : out'[i].type = "OrderFill"
      BY <2>5
    <3>2. TradesPayForFills
      <4>1. Next
        BY DEF Next
      <4>2. QED
        BY <4>1, StepPaysForFills
    <3>3. /\ key \in DOMAIN trade_buffer
          /\ FilledQty(out') + after <= before
      BY <2>2, <2>5, <3>1, <3>2 DEF TradesPayForFills, Buffered
    <3>4. FilledAt(out', k) = FilledQty(out')
      BY <2>2, <2>5, AllFilledAt
    <3>5. FilledQty(out') \in Nat
      BY <2>2, FilledQtyNat
    <3> HIDE DEF before, after
    <3>6. after + FilledQty(out') <= before
      BY <1>2, <3>3, <3>5
    <3>7. QED
      BY <3>4, <3>5, <3>6 DEF before, after
  <2>6. QED
    BY <2>4, <2>5
<1>5. QED
  BY <1>3, <1>4 DEF OnL2Update

(* A sum that wraps only gets smaller.                                     *)
LEMMA ModAtMost ==
    ASSUME NEW a \in Nat
    PROVE  a % QtyMod <= a
<1>1. QtyMod \in Nat \ {0} /\ a % QtyMod \in 0 .. QtyMod - 1
  BY QtyModAssumption, ModFacts DEF Qty
<1>2. CASE a < QtyMod
  <2>1. a \in 0 .. QtyMod - 1 /\ a = 0 * QtyMod + a
    BY <1>1, <1>2
  <2>2. a % QtyMod = a
    BY <2>1, ModUnique
  <2>3. QED
    BY <2>2
<1>3. CASE ~(a < QtyMod)
  <2> DEFINE r == a % QtyMod
  <2> HIDE DEF r
  <2>1. r \in 0 .. QtyMod - 1
    BY <1>1 DEF r
  <2>2. r <= a
    BY <1>1, <1>3, <2>1
  <2>3. QED
    BY <2>2 DEF r
<1>4. QED
  BY <1>2, <1>3

LedgerInv == /\ IInv
             /\ unreported \in [Timestamps \X Prices -> Int]
             /\ EveryFillTraded

LEMMA LedgerInit == FeedInit => LedgerInv
<1>1. SUFFICES ASSUME FeedInit PROVE LedgerInv
  OBVIOUS
<1>2. IInv
  BY <1>1, InitInv DEF FeedInit
<1>3. unreported = [k \in Timestamps \X Prices |-> 0] /\ DOMAIN trade_buffer = {}
  BY <1>1 DEF FeedInit, Init, EmptyBuffer
<1>4. QED
  BY <1>2, <1>3 DEF LedgerInv, EveryFillTraded, Buffered

LEMMA LedgerNext == LedgerInv /\ [FeedNext]_feedVars => LedgerInv'
<1>1. SUFFICES ASSUME LedgerInv, [FeedNext]_feedVars PROVE LedgerInv'
  OBVIOUS
<1>2. IInv'
  <2>1. [Next]_vars
    BY <1>1 DEF FeedNext, FeedTrade, FeedUpdate, Next, feedVars, vars
  <2>2. QED
    BY <1>1, <2>1, NextInv DEF LedgerInv
<1>3. \A k \in Timestamps \X Prices : Buffered(trade_buffer, k) <= unreported[k] /\ unreported[k] \in Int
  BY <1>1 DEF LedgerInv, EveryFillTraded
<1>4. ASSUME NEW k PROVE Buffered(trade_buffer, k) \in Nat /\ Buffered(trade_buffer', k) \in Nat
  <2>1. IsTradeBuffer(trade_buffer) /\ IsTradeBuffer(trade_buffer')
    BY <1>1, <1>2 DEF LedgerInv, IInv, TypeOK
  <2>2. QED
    BY <2>1, QtyModAssumption DEF IsTradeBuffer, TradeEntry, Qty, Buffered
<1>5. CASE UNCHANGED feedVars
  BY <1>1, <1>2, <1>5 DEF feedVars, LedgerInv, EveryFillTraded, Buffered
<1>6. ASSUME NEW ts \in Timestamps, NEW price \in Prices, NEW qty \in TradeQtys,
             NEW id \in TradeIds \cup {0}, FeedTrade(ts, price, qty, id)
      PROVE  LedgerInv'
  <2> DEFINE key == <<ts, price>>
  <2>1. /\ trade_buffer' = AddTrade(trade_buffer, ts, price, qty, id)
        /\ unreported' = [unreported EXCEPT ![key] = @ + qty]
    BY <1>6 DEF FeedTrade, OnTrade
  <2>2. qty \in Nat /\ key \in Timestamps \X Prices
    BY InputAssumption, QtyModAssumption DEF Qty
  <2>3. /\ DOMAIN trade_buffer' = DOMAIN trade_buffer \cup {key}
        /\ trade_buffer'[key].qty = (Buffered(trade_buffer, key) + qty) % QtyMod
        /\ \A k \in DOMAIN trade_buffer \ {key} : trade_buffer'[k] = trade_buffer[k]
    BY <2>1 DEF AddTrade, Buffered
  <2> HIDE DEF key
  <2>4. unreported' \in [Timestamps \X Prices -> Int]
    BY <1>1, <2>1, <2>2 DEF LedgerInv
  <2>5. ASSUME NEW k \in Timestamps \X Prices PROVE Buffered(trade_buffer', k) <= unreported'[k]
    <3>1. CASE k = key
      <4> DEFINE b == Buffered(trade_buffer, key)
                 u == unreported[key]
      <4>1. Buffered(trade_buffer', key) = (b + qty) % QtyMod
        BY <2>3 DEF Buffered
      <4>2. unreported'[key] = u + qty
        BY <1>1, <2>1, <2>2 DEF LedgerInv
      <4>3. b \in Nat /\ u \in Int /\ b <= u
        BY <1>3, <1>4, <2>2
      <4> HIDE DEF b, u
      <4>4. (b + qty) % QtyMod <= b + qty
        <5>1. b + qty \in Nat
          BY <2>2, <4>3
        <5>2. QED
          BY <5>1, ModAtMost
      <4>5. (b + qty) % QtyMod \in Int
        BY <2>2, <4>3, ModFacts, QtyModAssumption DEF Qty
      <4>6. (b + qty) % QtyMod <= u + qty
        BY <2>2, <4>3, <4>4, <4>5
      <4>7. QED
        BY <3>1, <4>1, <4>2, <4>6
    <3>2. CASE k # key
      <4>1. Buffered(trade_buffer', k) = Buffered(trade_buffer, k)
        BY <2>3, <3>2 DEF Buffered
      <4>2. unreported'[k] = unreported[k]
        BY <1>1, <2>1, <3>2 DEF LedgerInv
      <4>3. QED
        BY <1>3, <4>1, <4>2
    <3>3. QED
      BY <3>1, <3>2
  <2>6. QED
    BY <1>2, <2>4, <2>5 DEF LedgerInv, EveryFillTraded
<1>7. ASSUME NEW ts \in Timestamps, NEW action \in L2Action, NEW price \in Prices,
             NEW new_qty \in L2Qtys, NEW side \in Side,
             FeedUpdate(ts, action, price, new_qty, side)
      PROVE  LedgerInv'
  <2>1. /\ OnL2Update(ts, action, price, new_qty, side)
        /\ unreported' = [k \in Timestamps \X Prices |-> unreported[k] - FilledAt(out', k)]
    BY <1>1, <1>7 DEF FeedUpdate, LedgerInv
  <2>2. ASSUME NEW k \in Timestamps \X Prices
        PROVE  unreported'[k] \in Int /\ Buffered(trade_buffer', k) <= unreported'[k]
    <3> DEFINE f == FilledAt(out', k)
    <3>1. f \in Int /\ Buffered(trade_buffer', k) + f <= Buffered(trade_buffer, k)
      BY <1>1, <2>1, UpdatePays DEF LedgerInv, Buffered
    <3>2. unreported'[k] = unreported[k] - f
      BY <2>1
    <3> HIDE DEF f
    <3>3. QED
      BY <1>3, <1>4, <3>1, <3>2
  <2>3. unreported' \in [Timestamps \X Prices -> Int]
    BY <2>1, <2>2
  <2>4. QED
    BY <1>2, <2>2, <2>3 DEF LedgerInv, EveryFillTraded
<1>8. QED
  BY <1>1, <1>5, <1>6, <1>7 DEF FeedNext

(* Over every run the fills reported for a timestamp and price add up to   *)
(* at most what was traded there; the difference covers what still waits   *)
(* in the buffer, even when merging trades wraps its 32 bits.              *)
THEOREM FillsAreTraded == FeedSpec => []EveryFillTraded
<1>1. LedgerInv => EveryFillTraded
  BY DEF LedgerInv
<1>2. QED
  BY <1>1, LedgerInit, LedgerNext, PTL DEF FeedSpec
=============================================================================
