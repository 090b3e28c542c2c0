--------------------------- MODULE CorrelatorProofs -------------------------
(***************************************************************************)
(* Theorems of the correlator, for every set of prices, timestamps, trade  *)
(* ids and quantities, every width of Qty and every bound: its type        *)
(* invariant, the relation between a level's total and its queue, the      *)
(* order of the ids, the discipline of the trade buffer and time priority. *)
(***************************************************************************)
EXTENDS Correlator, ShadowBookTheorems

(* The trade buffer.                                                       *)

LEMMA AddTradeType ==
    ASSUME NEW buffer, IsTradeBuffer(buffer), NEW ts \in Timestamps,
           NEW price \in Prices, NEW qty \in Qty, NEW id \in TradeIds \cup {0}
    PROVE  IsTradeBuffer(AddTrade(buffer, ts, price, qty, id))
<1> DEFINE key == <<ts, price>>
           old == IF key \in DOMAIN buffer THEN buffer[key].qty ELSE 0
           entry == [qty |-> (old + qty) % QtyMod, trade_id |-> id]
           new == AddTrade(buffer, ts, price, qty, id)
<1>1. /\ DOMAIN buffer \subseteq Timestamps \X Prices
      /\ \A k \in DOMAIN buffer : buffer[k] \in TradeEntry
  BY DEF IsTradeBuffer
<1>2. old \in Nat /\ qty \in Nat
  BY <1>1, QtyModAssumption DEF TradeEntry, Qty
<1>3. (old + qty) % QtyMod \in Qty
  BY <1>2, ModFacts
<1>4. entry \in TradeEntry
  BY <1>3 DEF TradeEntry
<1>5. new = [k \in DOMAIN buffer \cup {key} |-> IF k = key THEN entry ELSE buffer[k]]
  BY DEF AddTrade
<1> HIDE DEF entry, new
<1>6. key \in Timestamps \X Prices
  OBVIOUS
<1> HIDE DEF key
<1>7. QED
  BY <1>1, <1>4, <1>5, <1>6 DEF IsTradeBuffer, new

LEMMA FlushTradesType ==
    ASSUME NEW buffer, IsTradeBuffer(buffer), NEW ts \in Timestamps
    PROVE  /\ IsTradeBuffer(FlushTradesBefore(buffer, ts))
           /\ \A k \in DOMAIN FlushTradesBefore(buffer, ts) : k[1] >= ts
BY DEF IsTradeBuffer, FlushTradesBefore

(* consume(): no more than asked for, and less only if nothing is left.    *)
LEMMA ConsumeTradeFacts ==
    ASSUME NEW buffer, IsTradeBuffer(buffer), NEW ts, NEW price, NEW qty \in Qty
    PROVE  LET r == ConsumeTrade(buffer, ts, price, qty)
           IN  /\ IsTradeBuffer(r.buffer)
               /\ DOMAIN r.buffer \subseteq DOMAIN buffer
               /\ r.qty \in Qty /\ r.qty <= qty
               /\ r.trade_id \in TradeIds \cup {0}
               /\ r.qty < qty => <<ts, price>> \notin DOMAIN r.buffer
<1> DEFINE key == <<ts, price>>
           entry == buffer[key]
           available == IF entry.qty < qty THEN entry.qty ELSE qty
           r == ConsumeTrade(buffer, ts, price, qty)
<1>1. CASE key \notin DOMAIN buffer
  <2>1. r = [buffer |-> buffer, qty |-> 0, trade_id |-> 0]
    BY <1>1 DEF ConsumeTrade
  <2> HIDE DEF r
  <2>2. QED
    BY <1>1, <2>1, QtyModAssumption DEF r, Qty
<1>2. CASE key \in DOMAIN buffer
  <2>1. /\ r.buffer = IF entry.qty = available
                      THEN [k \in DOMAIN buffer \ {key} |-> buffer[k]]
                      ELSE [buffer EXCEPT ![key].qty = @ - available]
        /\ r.qty = available
        /\ r.trade_id = entry.trade_id
    BY <1>2 DEF ConsumeTrade
  <2>2. entry \in TradeEntry
    BY <1>2 DEF IsTradeBuffer
  <2>3. entry.qty \in Qty /\ entry.trade_id \in TradeIds \cup {0}
    BY <2>2 DEF TradeEntry
  <2> HIDE DEF r, entry, key
  <2>4. available \in Qty /\ available <= qty /\ available <= entry.qty
    BY <2>3, QtyModAssumption DEF Qty
  <2>5. CASE entry.qty = available
    <3>1. r.buffer = [k \in DOMAIN buffer \ {key} |-> buffer[k]]
      BY <2>1, <2>5
    <3>2. IsTradeBuffer(r.buffer) /\ DOMAIN r.buffer = DOMAIN buffer \ {key}
      BY <3>1 DEF IsTradeBuffer
    <3>3. QED
      BY <2>1, <2>3, <2>4, <3>2 DEF r, key
  <2>6. CASE entry.qty # available
    <3>1. r.buffer = [buffer EXCEPT ![key] = [entry EXCEPT !.qty = @ - available]]
      BY <2>1, <2>6 DEF entry
    <3>2. entry.qty - available \in Qty
      BY <2>3, <2>4, QtyModAssumption DEF Qty
    <3>3. [entry EXCEPT !.qty = @ - available] \in TradeEntry
      BY <2>2, <3>2 DEF TradeEntry
    <3>4. IsTradeBuffer(r.buffer) /\ DOMAIN r.buffer = DOMAIN buffer
      BY <3>1, <3>3 DEF IsTradeBuffer
    <3>5. available = qty
      BY <2>6
    <3>6. QED
      BY <2>1, <2>3, <2>4, <3>4, <3>5, QtyModAssumption DEF r, Qty
  <2>7. QED
    BY <2>5, <2>6
<1>3. QED
  BY <1>1, <1>2

-----------------------------------------------------------------------------
(* The events of one consumption.                                          *)
LEMMA ConsumeEvents ==
    ASSUME NEW bk, IsShadowBook(bk), NEW price \in Prices, NEW qty \in Nat,
           NEW type \in EventType, NEW ts \in Timestamps, NEW id \in TradeIds \cup {0}
    PROVE  LET events == Consume(bk, price, qty, type, ts, id).events
           IN  /\ events \in Seq(L3Event)
               /\ \A i \in 1 .. Len(events) :
                    /\ events[i].type = type
                    /\ events[i].price = price
                    /\ events[i].exchange_ts = ts
<1> DEFINE events == Consume(bk, price, qty, type, ts, id).events
<1>1. CASE price \notin DOMAIN bk.levels
  <2>1. events = << >>
    BY <1>1 DEF Consume
  <2>2. << >> \in Seq(L3Event) /\ 1 .. Len(<< >>) = {}
    OBVIOUS
  <2>3. QED
    BY <2>1, <2>2
<1>2. CASE price \in DOMAIN bk.levels
  <2> DEFINE taken == Taken(bk.levels[price].orders, qty)
             tid == IF type = "OrderFill" THEN id ELSE 0
  <2>1. events = [i \in DOMAIN taken |->
                    [type |-> type, side |-> "Bid", order_id |-> taken[i].order_id,
                     price |-> price, qty |-> taken[i].qty, exchange_ts |-> ts,
                     trade_id |-> tid]]
    BY <1>2 DEF Consume
  <2>2. taken \in Seq(SyntheticOrder)
    BY <1>2, LevelFacts, TakenFacts
  <2>3. tid \in TradeIds \cup {0}
    OBVIOUS
  <2> HIDE DEF events, taken, tid
  <2>4. Len(taken) \in Nat /\ DOMAIN taken = 1 .. Len(taken)
    BY <2>2
  <2>5. ASSUME NEW i \in 1 .. Len(taken)
        PROVE  /\ events[i] \in L3Event
               /\ events[i].type = type
               /\ events[i].price = price
               /\ events[i].exchange_ts = ts
    <3>1. taken[i].order_id \in Nat /\ taken[i].qty \in Qty \ {0}
      BY <2>2, OrdersHaveQty DEF SyntheticOrder
    <3>2. events[i] = [type |-> type, side |-> "Bid", order_id |-> taken[i].order_id,
                       price |-> price, qty |-> taken[i].qty, exchange_ts |-> ts,
                       trade_id |-> tid]
      BY <2>1, <2>4
    <3>3. QED
      BY <2>3, <3>1, <3>2 DEF L3Event, Side
  <2>6. events \in [1 .. Len(taken) -> L3Event]
    BY <2>1, <2>4, <2>5
  <2>7. events \in Seq(L3Event) /\ Len(events) = Len(taken)
    BY <2>4, <2>6
  <2>8. QED
    BY <2>5, <2>7 DEF events
<1>3. QED
  BY <1>1, <1>2

(* process_decrease(): all of the decrease is consumed, the events are     *)
(* well formed, and a cancel leaves no trade behind at its key.            *)
THEOREM ProcessDecreaseFacts ==
    ASSUME NEW bk, IsShadowBook(bk), NEW buffer, IsTradeBuffer(buffer),
           NEW ts \in Timestamps, NEW price \in Prices, NEW d \in Qty, NEW side \in Side
    PROVE  LET r == ProcessDecrease(bk, buffer, ts, price, d, side)
           IN  /\ ConsumedTo(bk, r.book, price, d)
               /\ IsTradeBuffer(r.buffer)
               /\ DOMAIN r.buffer \subseteq DOMAIN buffer
               /\ r.events \in Seq(L3Event)
               /\ \A i \in 1 .. Len(r.events) :
                    /\ r.events[i].exchange_ts = ts
                    /\ r.events[i].price = price
                    /\ r.events[i].type = "OrderCancel" =>
                         <<ts, price>> \notin DOMAIN r.buffer
<1> DEFINE trade    == ConsumeTrade(buffer, ts, price, d)
           cancel   == d - trade.qty
           filled   == IF trade.qty > 0
                       THEN Consume(bk, price, trade.qty, "OrderFill", ts, trade.trade_id)
                       ELSE [book |-> bk, events |-> << >>]
           canceled == IF cancel > 0
                       THEN Consume(filled.book, price, cancel, "OrderCancel", ts, 0)
                       ELSE [book |-> filled.book, events |-> << >>]
           events   == filled.events \o canceled.events
           r        == ProcessDecrease(bk, buffer, ts, price, d, side)
<1>1. /\ IsTradeBuffer(trade.buffer)
      /\ DOMAIN trade.buffer \subseteq DOMAIN buffer
      /\ trade.qty \in Qty /\ trade.qty <= d
      /\ trade.trade_id \in TradeIds \cup {0}
      /\ trade.qty < d => <<ts, price>> \notin DOMAIN trade.buffer
  BY ConsumeTradeFacts
<1>2. /\ r.book = canceled.book /\ r.buffer = trade.buffer
      /\ r.events = [i \in DOMAIN events |-> [events[i] EXCEPT !.side = side]]
  BY DEF ProcessDecrease
<1> HIDE DEF r, trade
<1>3. /\ trade.qty \in Nat /\ cancel \in Nat /\ trade.qty + cancel = d
      /\ cancel > 0 => trade.qty < d
  BY <1>1, QtyModAssumption DEF Qty
<1>4. "OrderFill" \in EventType /\ "OrderCancel" \in EventType
  BY DEF EventType
<1>5. /\ ConsumedTo(bk, filled.book, price, trade.qty)
      /\ filled.events \in Seq(L3Event)
      /\ \A i \in 1 .. Len(filled.events) :
           /\ filled.events[i].type = "OrderFill"
           /\ filled.events[i].price = price
           /\ filled.events[i].exchange_ts = ts
  <2>1. CASE trade.qty > 0
    <3>1. filled = Consume(bk, price, trade.qty, "OrderFill", ts, trade.trade_id)
      BY <2>1
    <3> HIDE DEF filled
    <3>2. ConsumedTo(bk, filled.book, price, trade.qty)
      BY <1>3, <3>1, ConsumedByConsume
    <3>3. QED
      BY <1>1, <1>3, <1>4, <3>1, <3>2, ConsumeEvents
  <2>2. CASE ~(trade.qty > 0)
    <3>1. filled.book = bk /\ filled.events = << >> /\ trade.qty = 0
      BY <1>3, <2>2
    <3> HIDE DEF filled
    <3>2. ConsumedTo(bk, filled.book, price, trade.qty)
      BY <3>1, ConsumedByNothing
    <3>3. << >> \in Seq(L3Event) /\ 1 .. Len(<< >>) = {}
      OBVIOUS
    <3>4. QED
      BY <3>1, <3>2, <3>3
  <2>3. QED
    BY <2>1, <2>2
<1> HIDE DEF filled
<1>6. IsShadowBook(filled.book)
  BY <1>5 DEF ConsumedTo
<1>7. /\ ConsumedTo(filled.book, canceled.book, price, cancel)
      /\ canceled.events \in Seq(L3Event)
      /\ \A i \in 1 .. Len(canceled.events) :
           /\ trade.qty < d
           /\ canceled.events[i].price = price
           /\ canceled.events[i].exchange_ts = ts
  <2>1. CASE cancel > 0
    <3>1. canceled = Consume(filled.book, price, cancel, "OrderCancel", ts, 0)
      BY <2>1
    <3> HIDE DEF canceled, cancel
    <3>2. ConsumedTo(filled.book, canceled.book, price, cancel)
      BY <1>3, <1>6, <3>1, ConsumedByConsume
    <3>3. 0 \in TradeIds \cup {0}
      OBVIOUS
    <3>4. QED
      BY <1>3, <1>4, <1>6, <2>1, <3>1, <3>2, <3>3, ConsumeEvents
  <2>2. CASE ~(cancel > 0)
    <3>1. canceled.book = filled.book /\ canceled.events = << >> /\ cancel = 0
      BY <1>3, <2>2
    <3> HIDE DEF canceled, cancel
    <3>2. ConsumedTo(filled.book, canceled.book, price, cancel)
      BY <1>6, <3>1, ConsumedByNothing
    <3>3. << >> \in Seq(L3Event) /\ 1 .. Len(<< >>) = {}
      OBVIOUS
    <3>4. QED
      BY <3>1, <3>2, <3>3
  <2>3. QED
    BY <2>1, <2>2
<1> HIDE DEF canceled, cancel
<1>8. ConsumedTo(bk, r.book, price, d)
  <2>1. ConsumedTo(bk, canceled.book, price, trade.qty + cancel)
    BY <1>3, <1>5, <1>7, ConsumedTwice
  <2>2. QED
    BY <1>2, <1>3, <2>1
<1>9. /\ events \in Seq(L3Event)
      /\ \A i \in 1 .. Len(events) :
           /\ events[i].price = price
           /\ events[i].exchange_ts = ts
           /\ events[i].type = "OrderCancel" => trade.qty < d
  <2> DEFINE a == filled.events
             b == canceled.events
  <2>1. a \in Seq(L3Event) /\ b \in Seq(L3Event)
    BY <1>5, <1>7
  <2>2. /\ \A i \in 1 .. Len(a) : a[i].price = price /\ a[i].exchange_ts = ts
                                  /\ a[i].type = "OrderFill"
        /\ \A i \in 1 .. Len(b) : b[i].price = price /\ b[i].exchange_ts = ts
                                  /\ trade.qty < d
    BY <1>5, <1>7
  <2>3. events = a \o b
    OBVIOUS
  <2> HIDE DEF a, b, events
  <2>4. /\ events \in Seq(L3Event)
        /\ Len(a) \in Nat /\ Len(b) \in Nat /\ Len(events) = Len(a) + Len(b)
    BY <2>1, <2>3
  <2>5. ASSUME NEW i \in 1 .. Len(events)
        PROVE  /\ events[i].price = price
               /\ events[i].exchange_ts = ts
               /\ events[i].type = "OrderCancel" => trade.qty < d
    <3>1. CASE i <= Len(a)
      <4>1. i \in 1 .. Len(a) /\ events[i] = a[i]
        BY <2>1, <2>3, <2>4, <3>1
      <4>2. QED
        BY <2>2, <4>1
    <3>2. CASE ~(i <= Len(a))
      <4>1. i - Len(a) \in 1 .. Len(b) /\ events[i] = b[i - Len(a)]
        BY <2>1, <2>3, <2>4, <3>2
      <4>2. QED
        BY <2>2, <4>1
    <3>3. QED
      BY <3>1, <3>2
  <2>6. QED
    BY <2>4, <2>5
<1> HIDE DEF events
<1>10. /\ r.events \in Seq(L3Event)
       /\ \A i \in 1 .. Len(r.events) :
            /\ r.events[i].price = price
            /\ r.events[i].exchange_ts = ts
            /\ r.events[i].type = "OrderCancel" => trade.qty < d
  <2>1. Len(events) \in Nat /\ DOMAIN events = 1 .. Len(events)
    BY <1>9
  <2>2. ASSUME NEW i \in 1 .. Len(events)
        PROVE  /\ r.events[i] \in L3Event
               /\ r.events[i].price = events[i].price
               /\ r.events[i].exchange_ts = events[i].exchange_ts
               /\ r.events[i].type = events[i].type
    <3>1. events[i] \in L3Event
      BY <1>9
    <3>2. r.events[i] = [events[i] EXCEPT !.side = side]
      BY <1>2, <2>1
    <3>3. QED
      BY <3>1, <3>2 DEF L3Event
  <2>3. r.events \in [1 .. Len(events) -> L3Event]
    BY <1>2, <2>1, <2>2
  <2>4. r.events \in Seq(L3Event) /\ Len(r.events) = Len(events)
    BY <2>1, <2>3
  <2>5. QED
    BY <1>9, <2>2, <2>4
<1>11. QED
  BY <1>1, <1>2, <1>8, <1>10 DEF r
-----------------------------------------------------------------------------
(* The invariant.  Typing makes the arithmetic of a step meaningful; the   *)
(* other parts are each inductive relative to it.                          *)
IInv == /\ TypeOK
        /\ TotalIsTwiceResting
        /\ IdsInOrder
        /\ NoStaleTrades
        /\ CancelsAreUnexplained

BookTyped == /\ book \in [Side -> {book["Bid"], book["Ask"]}]
             /\ \A s \in Side : IsShadowBook(book[s])

LEMMA EmptyBookFacts ==
    /\ IsShadowBook(EmptyBook) /\ TwiceResting(EmptyBook) /\ IdsAscend(EmptyBook)
<1>1. DOMAIN EmptyBook.levels = {} /\ EmptyBook.next_order_id = 1
  BY DEF EmptyBook
<1>2. EmptyBook = [levels |-> EmptyBook.levels, next_order_id |-> 1]
  BY DEF EmptyBook
<1>3. EmptyBook.levels \in [DOMAIN EmptyBook.levels -> LevelState]
  BY DEF EmptyBook
<1>4. IsShadowBook(EmptyBook)
  BY <1>1, <1>2, <1>3 DEF IsShadowBook, IsLevels
<1>5. QED
  BY <1>1, <1>4 DEF TwiceResting, IdsAscend

LEMMA InitInv == Init => IInv
<1>1. SUFFICES ASSUME Init PROVE IInv
  OBVIOUS
<1>2. /\ book = [s \in Side |-> EmptyBook]
      /\ trade_buffer = EmptyBuffer
      /\ out = << >>
  BY <1>1 DEF Init
<1>3. \A s \in Side : book[s] = EmptyBook
  BY <1>2
<1>4. BookTyped
  BY <1>2, <1>3, EmptyBookFacts DEF BookTyped, Side
<1>5. IsTradeBuffer(trade_buffer)
  BY <1>2 DEF IsTradeBuffer, EmptyBuffer
<1>6. out \in Seq(L3Event) /\ DOMAIN out = {}
  BY <1>2
<1>7. TypeOK
  BY <1>4, <1>5, <1>6 DEF TypeOK, BookTyped
<1>8. TotalIsTwiceResting /\ IdsInOrder
  BY <1>3, EmptyBookFacts DEF TotalIsTwiceResting, IdsInOrder
<1>9. NoStaleTrades /\ CancelsAreUnexplained
  BY <1>6 DEF NoStaleTrades, CancelsAreUnexplained
<1>10. QED
  BY <1>7, <1>8, <1>9 DEF IInv

(* A step that replaces the book of one side.                              *)
LEMMA OneBookChanged ==
    ASSUME IInv, NEW side \in Side,
           book' = [book EXCEPT ![side] = book'[side]],
           IsShadowBook(book'[side]),
           TwiceResting(book'[side]),
           IdsAscend(book'[side]),
           \A p \in Prices :
               \/ PrefixConsumed(Queue(book[side], p), Queue(book'[side], p))
               \/ OneAppended(Queue(book[side], p), Queue(book'[side], p))
    PROVE  BookTyped' /\ TotalIsTwiceResting' /\ IdsInOrder' /\ KeepsTimePriority
<1>1. /\ book \in [Side -> {book["Bid"], book["Ask"]}]
      /\ \A s \in Side : IsShadowBook(book[s])
      /\ \A s \in Side : TwiceResting(book[s])
      /\ \A s \in Side : IdsAscend(book[s])
  BY DEF IInv, TypeOK, TotalIsTwiceResting, IdsInOrder
<1>2. \A s \in Side : s # side => book'[s] = book[s]
  BY <1>1
<1>3. book' \in [Side -> {book'["Bid"], book'["Ask"]}]
  BY <1>1 DEF Side
<1>4. ASSUME NEW s \in Side
      PROVE  /\ IsShadowBook(book'[s])
             /\ TwiceResting(book'[s])
             /\ IdsAscend(book'[s])
  BY <1>1, <1>2
<1>5. ASSUME NEW s \in Side, NEW p \in Prices
      PROVE  \/ PrefixConsumed(Queue(book[s], p), Queue(book'[s], p))
             \/ OneAppended(Queue(book[s], p), Queue(book'[s], p))
  <2>1. CASE s = side
    BY <2>1
  <2>2. CASE s # side
    BY <1>1, <1>2, <2>2, QueueFacts, PrefixRefl
  <2>3. QED
    BY <2>1, <2>2
<1>6. BookTyped'
  BY <1>3, <1>4 DEF BookTyped
<1>7. TotalIsTwiceResting' /\ IdsInOrder'
  BY <1>4 DEF TotalIsTwiceResting, IdsInOrder
<1>8. QED
  BY <1>5, <1>6, <1>7 DEF KeepsTimePriority

(* on_trade() touches the buffer only.                                     *)
LEMMA OnTradeStep ==
    ASSUME IInv, NEW ts \in Timestamps, NEW price \in Prices, NEW qty \in TradeQtys,
           NEW id \in TradeIds \cup {0}, OnTrade(ts, price, qty, id)
    PROVE  IInv' /\ KeepsTimePriority
<1>1. /\ trade_buffer' = AddTrade(trade_buffer, ts, price, qty, id)
      /\ out' = << >>
      /\ book' = book
  BY DEF OnTrade
<1>2. IsTradeBuffer(trade_buffer')
  BY <1>1, AddTradeType, InputAssumption DEF IInv, TypeOK
<1>3. out' \in Seq(L3Event) /\ DOMAIN out' = {}
  BY <1>1
<1>4. TypeOK'
  BY <1>1, <1>2, <1>3 DEF IInv, TypeOK
<1>5. TotalIsTwiceResting' /\ IdsInOrder'
  BY <1>1 DEF IInv, TotalIsTwiceResting, IdsInOrder
<1>6. NoStaleTrades' /\ CancelsAreUnexplained'
  BY <1>3 DEF NoStaleTrades, CancelsAreUnexplained
<1>7. KeepsTimePriority
  BY <1>1, QueueFacts, PrefixRefl DEF KeepsTimePriority, IInv, TypeOK
<1>8. QED
  BY <1>4, <1>5, <1>6, <1>7 DEF IInv

(* on_l2_update(), when the total rises: add_order() and one add event.    *)
LEMMA IncreaseStep ==
    ASSUME IInv, NEW ts \in Timestamps, NEW action \in L2Action, NEW price \in Prices,
           NEW new_qty \in L2Qtys, NEW side \in Side,
           Increase(ts, action, price, new_qty, side)
    PROVE  IInv' /\ KeepsTimePriority
<1> DEFINE old == book[side]
           r   == Apply(old, action, price, new_qty)
           new == AddOrder(r.book, price, r.delta)
           o   == [order_id |-> old.next_order_id, qty |-> r.delta]
<1>1. /\ r.delta > 0
      /\ book' = [book EXCEPT ![side] = new]
      /\ trade_buffer' = FlushTradesBefore(trade_buffer, ts)
      /\ out' = << [type |-> "OrderAdd", side |-> side,
                    order_id |-> r.book.next_order_id, price |-> price,
                    qty |-> r.delta, exchange_ts |-> ts, trade_id |-> 0] >>
  BY DEF Increase, Applied
<1>2. /\ IsShadowBook(old) /\ TwiceResting(old) /\ IdsAscend(old)
      /\ side \in DOMAIN book
  BY DEF IInv, TypeOK, TotalIsTwiceResting, IdsInOrder
<1>3. new_qty \in Qty
  BY InputAssumption
<1>4. /\ r.delta \in Qty \ {0}
      /\ o \in SyntheticOrder
      /\ IsShadowBook(new)
      /\ new.next_order_id = old.next_order_id + 1
      /\ r.book.next_order_id = old.next_order_id
      /\ DOMAIN new.levels = DOMAIN old.levels \cup {price}
      /\ \A p \in DOMAIN old.levels \ {price} : new.levels[p] = old.levels[p]
      /\ new.levels[price].orders = Append(Queue(old, price), o)
  BY <1>1, <1>2, <1>3, IncreaseAppends
<1>5. TwiceResting(new)
  BY <1>1, <1>2, <1>3, IncreaseKeepsTwice
<1>6. book'[side] = new
  BY <1>1, <1>2
<1>7. o.order_id = old.next_order_id
  OBVIOUS
<1> HIDE DEF old, r, new, o
<1>8. IdsAscend(new)
  BY <1>2, <1>4, <1>7, IdsOfAppend
<1>9. ASSUME NEW p \in Prices
      PROVE  \/ PrefixConsumed(Queue(old, p), Queue(new, p))
             \/ OneAppended(Queue(old, p), Queue(new, p))
  <2>1. Queue(old, p) \in Seq(SyntheticOrder)
    BY <1>2, QueueFacts
  <2>2. CASE p = price
    <3>1. Queue(new, p) = Append(Queue(old, p), o)
      BY <1>4, <2>2, QueueFacts
    <3>2. OneAppended(Queue(old, p), Queue(new, p))
      BY <1>4, <2>1, <3>1 DEF OneAppended
    <3>3. QED
      BY <3>2
  <2>3. CASE p # price
    <3>1. Queue(new, p) = Queue(old, p)
      BY <1>2, <1>4, <2>3, QueueFacts
    <3>2. QED
      BY <2>1, <3>1, PrefixRefl
  <2>4. QED
    BY <2>2, <2>3
<1>10. BookTyped' /\ TotalIsTwiceResting' /\ IdsInOrder' /\ KeepsTimePriority
  BY <1>1, <1>4, <1>5, <1>6, <1>8, <1>9, OneBookChanged DEF old
<1>11. /\ IsTradeBuffer(trade_buffer')
       /\ \A k \in DOMAIN trade_buffer' : k[1] >= ts
  BY <1>1, FlushTradesType DEF IInv, TypeOK
<1>12. /\ out' \in Seq(L3Event) /\ DOMAIN out' = {1}
       /\ out'[1].exchange_ts = ts /\ out'[1].type = "OrderAdd"
  <2>1. r.book.next_order_id \in Nat
    BY <1>2, <1>4 DEF IsShadowBook
  <2>2. out'[1] \in L3Event
    BY <1>1, <1>4, <2>1 DEF L3Event, EventType
  <2>3. QED
    BY <1>1, <2>2
<1>13. TypeOK'
  BY <1>10, <1>11, <1>12 DEF TypeOK, BookTyped
<1>14. NoStaleTrades' /\ CancelsAreUnexplained'
  BY <1>11, <1>12 DEF NoStaleTrades, CancelsAreUnexplained
<1>15. QED
  BY <1>10, <1>13, <1>14 DEF IInv

(* What the two other branches have in common: the decrease is consumed,   *)
(* the buffer holds nothing older than ts, and the events are those of a   *)
(* decrease.                                                               *)
Consumes(ts, action, price, new_qty, side) ==
    LET r == Apply(book[side], action, price, new_qty)
    IN  /\ r.delta <= 0
        /\ book' = [book EXCEPT ![side] = book'[side]]
        /\ ConsumedTo(r.book, book'[side], price, -r.delta)
        /\ IsTradeBuffer(trade_buffer')
        /\ \A k \in DOMAIN trade_buffer' : k[1] >= ts
        /\ out' \in Seq(L3Event)
        /\ \A i \in 1 .. Len(out') :
             /\ out'[i].exchange_ts = ts
             /\ out'[i].price = price
             /\ out'[i].type = "OrderCancel" =>
                  <<ts, price>> \notin DOMAIN trade_buffer'

LEMMA ConsumingStep ==
    ASSUME IInv, NEW ts \in Timestamps, NEW action \in L2Action, NEW price \in Prices,
           NEW new_qty \in Qty, NEW side \in Side,
           Consumes(ts, action, price, new_qty, side)
    PROVE  IInv' /\ KeepsTimePriority
<1> DEFINE old == book[side]
           new == book'[side]
           r   == Apply(old, action, price, new_qty)
<1>0. /\ r.delta <= 0
      /\ book' = [book EXCEPT ![side] = new]
      /\ ConsumedTo(r.book, new, price, -r.delta)
      /\ IsTradeBuffer(trade_buffer')
      /\ \A k \in DOMAIN trade_buffer' : k[1] >= ts
      /\ out' \in Seq(L3Event)
      /\ \A i \in 1 .. Len(out') :
           /\ out'[i].exchange_ts = ts
           /\ out'[i].price = price
           /\ out'[i].type = "OrderCancel" =>
                <<ts, price>> \notin DOMAIN trade_buffer'
  BY DEF Consumes
<1>1. IsShadowBook(old) /\ TwiceResting(old) /\ IdsAscend(old)
  BY DEF IInv, TypeOK, TotalIsTwiceResting, IdsInOrder
<1>2. TwiceResting(new)
  BY <1>0, <1>1, DecreaseKeepsTwice
<1>3. \A p \in Prices : PrefixConsumed(Queue(old, p), Queue(new, p))
  BY <1>0, <1>1, DecreaseIsPrefix
<1>4. r.book.next_order_id = old.next_order_id
  BY <1>1, ApplyKeepsCounter
<1>5. IsShadowBook(new) /\ new.next_order_id = old.next_order_id
  BY <1>0, <1>4 DEF ConsumedTo
<1>6. IdsAscend(new)
  BY <1>1, <1>3, <1>5, IdsOfPrefix
<1>7. BookTyped' /\ TotalIsTwiceResting' /\ IdsInOrder' /\ KeepsTimePriority
  BY <1>0, <1>2, <1>3, <1>5, <1>6, OneBookChanged
<1>8. TypeOK'
  BY <1>0, <1>7 DEF TypeOK, BookTyped
<1>9. DOMAIN out' = 1 .. Len(out')
  BY <1>0
<1>10. NoStaleTrades' /\ CancelsAreUnexplained'
  BY <1>0, <1>9 DEF NoStaleTrades, CancelsAreUnexplained
<1>11. QED
  BY <1>7, <1>8, <1>10 DEF IInv

(* The change of the total, as a quantity.                                 *)
LEMMA DeltaFacts ==
    ASSUME NEW bk, IsShadowBook(bk), NEW price \in Prices,
           NEW action \in L2Action, NEW new_qty \in Qty,
           Apply(bk, action, price, new_qty).delta <= 0
    PROVE  -Apply(bk, action, price, new_qty).delta \in Qty
<1> DEFINE T == LevelAt(bk.levels, price).total_qty
           r == Apply(bk, action, price, new_qty)
<1>1. T \in Qty
  BY LevelAtFacts
<1>2. r.delta = IF action = "Delete" THEN -T ELSE new_qty - T
  BY DEF Apply
<1>3. r.delta <= 0
  OBVIOUS
<1> HIDE DEF T, r
<1>4. -r.delta \in Qty
  BY <1>1, <1>2, <1>3, QtyModAssumption DEF Qty
<1>5. QED
  BY <1>4 DEF r

(* on_l2_update(), when the total falls: process_decrease().               *)
LEMMA DecreaseConsumes ==
    ASSUME IInv, NEW ts \in Timestamps, NEW action \in L2Action, NEW price \in Prices,
           NEW new_qty \in L2Qtys, NEW side \in Side,
           Decrease(ts, action, price, new_qty, side)
    PROVE  Consumes(ts, action, price, new_qty, side)
<1> DEFINE old == book[side]
           r   == Apply(old, action, price, new_qty)
           flushed == FlushTradesBefore(trade_buffer, ts)
           result  == ProcessDecrease(r.book, flushed, ts, price, -r.delta, side)
<1>1. /\ r.delta < 0
      /\ book' = [book EXCEPT ![side] = result.book]
      /\ trade_buffer' = result.buffer
      /\ out' = result.events
  BY DEF Decrease, Applied
<1>2. IsShadowBook(old) /\ side \in DOMAIN book
  BY DEF IInv, TypeOK
<1>3. new_qty \in Qty
  BY InputAssumption
<1>4. /\ r.delta <= 0 /\ -r.delta \in Qty
  <2>1. r.delta <= 0
    <3>1. r.delta \in Int
      <4>1. LevelAt(old.levels, price).total_qty \in Int
        BY <1>2, LevelAtFacts, QtyModAssumption DEF Qty
      <4>2. r.delta = IF action = "Delete"
                      THEN -LevelAt(old.levels, price).total_qty
                      ELSE new_qty - LevelAt(old.levels, price).total_qty
        BY DEF Apply
      <4>3. QED
        BY <1>3, <4>1, <4>2, QtyModAssumption DEF Qty
    <3>2. QED
      BY <1>1, <3>1
  <2>2. QED
    BY <1>2, <1>3, <2>1, DeltaFacts
<1>5. IsShadowBook(r.book)
  BY <1>2, <1>3, ApplyFacts
<1>6. IsTradeBuffer(flushed) /\ \A k \in DOMAIN flushed : k[1] >= ts
  BY FlushTradesType DEF IInv, TypeOK
<1>7. book'[side] = result.book
  BY <1>1, <1>2
<1>8. /\ ConsumedTo(r.book, result.book, price, -r.delta)
      /\ IsTradeBuffer(result.buffer)
      /\ DOMAIN result.buffer \subseteq DOMAIN flushed
      /\ result.events \in Seq(L3Event)
      /\ \A i \in 1 .. Len(result.events) :
           /\ result.events[i].exchange_ts = ts
           /\ result.events[i].price = price
           /\ result.events[i].type = "OrderCancel" =>
                <<ts, price>> \notin DOMAIN result.buffer
  <2> HIDE DEF r, flushed
  <2>1. QED
    BY <1>4, <1>5, <1>6, ProcessDecreaseFacts
<1> HIDE DEF result, flushed
<1>9. \A k \in DOMAIN trade_buffer' : k[1] >= ts
  BY <1>1, <1>6, <1>8
<1>10. book' = [book EXCEPT ![side] = book'[side]]
  BY <1>1, <1>7
<1>11. QED
  BY <1>1, <1>4, <1>7, <1>8, <1>9, <1>10 DEF Consumes, r, old

(* on_l2_update(), when the total does not change: apply() alone.          *)
LEMMA NoChangeConsumes ==
    ASSUME IInv, NEW ts \in Timestamps, NEW action \in L2Action, NEW price \in Prices,
           NEW new_qty \in L2Qtys, NEW side \in Side,
           NoChange(ts, action, price, new_qty, side)
    PROVE  Consumes(ts, action, price, new_qty, side)
<1> DEFINE old == book[side]
           r   == Apply(old, action, price, new_qty)
<1>1. /\ r.delta = 0
      /\ book' = [book EXCEPT ![side] = r.book]
      /\ trade_buffer' = FlushTradesBefore(trade_buffer, ts)
      /\ out' = << >>
  BY DEF NoChange, Applied
<1>2. IsShadowBook(old) /\ side \in DOMAIN book
  BY DEF IInv, TypeOK
<1>3. new_qty \in Qty
  BY InputAssumption
<1>4. IsShadowBook(r.book)
  BY <1>2, <1>3, ApplyFacts
<1>5. book'[side] = r.book
  BY <1>1, <1>2
<1>6. ConsumedTo(r.book, book'[side], price, -r.delta)
  <2>1. -r.delta = 0
    <3>1. r.delta \in Int /\ r.delta <= 0 /\ r.delta >= 0
      BY <1>1
    <3> HIDE DEF r
    <3>2. QED
      BY <3>1
  <2>2. ConsumedTo(r.book, r.book, price, 0)
    BY <1>4, ConsumedByNothing
  <2>3. QED
    BY <1>5, <2>1, <2>2
<1>7. IsTradeBuffer(trade_buffer') /\ \A k \in DOMAIN trade_buffer' : k[1] >= ts
  BY <1>1, FlushTradesType DEF IInv, TypeOK
<1>8. out' \in Seq(L3Event) /\ 1 .. Len(out') = {}
  BY <1>1
<1>9. r.delta <= 0
  BY <1>1
<1>10. book' = [book EXCEPT ![side] = book'[side]]
  BY <1>1, <1>5
<1> HIDE DEF r
<1>11. QED
  BY <1>6, <1>7, <1>8, <1>9, <1>10 DEF Consumes, r, old

LEMMA NextInv ==
    ASSUME IInv, [Next]_vars
    PROVE  IInv' /\ (KeepsTimePriority \/ UNCHANGED vars)
<1>1. CASE UNCHANGED vars
  BY <1>1 DEF vars, IInv, TypeOK, TotalIsTwiceResting, IdsInOrder, NoStaleTrades,
              CancelsAreUnexplained
<1>2. ASSUME NEW ts \in Timestamps, NEW price \in Prices, NEW qty \in TradeQtys,
             NEW id \in TradeIds \cup {0}, OnTrade(ts, price, qty, id)
      PROVE  IInv' /\ KeepsTimePriority
  BY <1>2, OnTradeStep
<1>3. ASSUME NEW ts \in Timestamps, NEW action \in L2Action, NEW price \in Prices,
             NEW new_qty \in L2Qtys, NEW side \in Side,
             OnL2Update(ts, action, price, new_qty, side)
      PROVE  IInv' /\ KeepsTimePriority
  <2>1. new_qty \in Qty
    BY InputAssumption
  <2>2. CASE Increase(ts, action, price, new_qty, side)
    BY <2>2, IncreaseStep
  <2>3. CASE Decrease(ts, action, price, new_qty, side)
    BY <2>1, <2>3, DecreaseConsumes, ConsumingStep
  <2>4. CASE NoChange(ts, action, price, new_qty, side)
    BY <2>1, <2>4, NoChangeConsumes, ConsumingStep
  <2>5. QED
    BY <1>3, <2>2, <2>3, <2>4 DEF OnL2Update
<1>4. QED
  BY <1>1, <1>2, <1>3 DEF Next

(* The invariant holds in every reachable state of the correlator.         *)
THEOREM Invariance == Spec => []IInv
<1>1. IInv /\ [Next]_vars => IInv'
  BY NextInv
<1>2. QED
  BY InitInv, <1>1, PTL DEF Spec

(* Every value the correlator keeps stays in its C++ type: no quantity of  *)
(* a resting order is ever zero or wraps.                                  *)
THEOREM TypeCorrect == Spec => []TypeOK
<1>1. IInv => TypeOK
  BY DEF IInv
<1>2. QED
  BY Invariance, <1>1, PTL

(* The total a level is diffed against is always twice what rests there,   *)
(* modulo the width of Qty: the double count neither heals nor drifts.     *)
THEOREM TotalsDoubled == Spec => []TotalIsTwiceResting
<1>1. IInv => TotalIsTwiceResting
  BY DEF IInv
<1>2. QED
  BY Invariance, <1>1, PTL

(* Within a book no two resting orders share an id and queues are in order *)
(* of arrival.                                                             *)
THEOREM IdsStayInOrder == Spec => []IdsInOrder
<1>1. IInv => IdsInOrder
  BY DEF IInv
<1>2. QED
  BY Invariance, <1>1, PTL

(* No trade older than the events just emitted waits in the buffer.        *)
THEOREM TradesFlushed == Spec => []NoStaleTrades
<1>1. IInv => NoStaleTrades
  BY DEF IInv
<1>2. QED
  BY Invariance, <1>1, PTL

(* A cancel is emitted only once the trade at its key is used up.          *)
THEOREM CancelsJustified == Spec => []CancelsAreUnexplained
<1>1. IInv => CancelsAreUnexplained
  BY DEF IInv
<1>2. QED
  BY Invariance, <1>1, PTL

(* No call touches an order while an older one rests at its price.         *)
THEOREM TimePriority == Spec => FIFOPriority
<1>1. IInv /\ [Next]_vars => [KeepsTimePriority]_vars
  BY NextInv
<1>2. QED
  BY Invariance, <1>1, PTL DEF Spec, FIFOPriority
=============================================================================
