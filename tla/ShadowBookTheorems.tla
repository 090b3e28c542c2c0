-------------------------- MODULE ShadowBookTheorems ------------------------
(***************************************************************************)
(* What the operations of one shadow book do, for every book, price and    *)
(* quantity: their effect level by level, and that they preserve what a    *)
(* book promises.                                                          *)
(***************************************************************************)
EXTENDS QueueTheorems

(* Numbers that differ by a multiple of the width are equal modulo it.     *)
LEMMA ModUnique ==
    ASSUME NEW a \in Int, NEW m \in Int, NEW r \in 0 .. QtyMod - 1,
           a = m * QtyMod + r
    PROVE  a % QtyMod = r
<1>1. QtyMod \in Nat \ {0}
  BY QtyModAssumption
<1>2. QED
  BY <1>1

LEMMA ModFacts ==
    ASSUME NEW a \in Int
    PROVE  /\ a % QtyMod \in Qty
           /\ \E m \in Int : a = m * QtyMod + (a % QtyMod)
<1>1. QtyMod \in Nat \ {0}
  BY QtyModAssumption
<1>2. a % QtyMod \in 0 .. QtyMod - 1 /\ a \div QtyMod \in Int
  BY <1>1
<1>3. a = (a \div QtyMod) * QtyMod + (a % QtyMod)
  BY <1>1
<1>4. QED
  BY <1>2, <1>3 DEF Qty

LEMMA ModShift ==
    ASSUME NEW a \in Int, NEW b \in Int, NEW m \in Int, a = b + m * QtyMod
    PROVE  a % QtyMod = b % QtyMod
<1>1. QtyMod \in Nat \ {0}
  BY QtyModAssumption
<1>2. PICK l \in Int : b = l * QtyMod + (b % QtyMod)
  BY ModFacts
<1>3. a = (l + m) * QtyMod + (b % QtyMod)
  BY <1>1, <1>2
<1>4. l + m \in Int /\ b % QtyMod \in 0 .. QtyMod - 1
  BY ModFacts DEF Qty
<1>5. QED
  BY <1>3, <1>4, ModUnique

(* Subtracting before or after the wrap is the same.                       *)
LEMMA ModMinus ==
    ASSUME NEW a \in Int, NEW b \in Int
    PROVE  ((a % QtyMod) - b) % QtyMod = (a - b) % QtyMod
<1>1. QtyMod \in Nat \ {0}
  BY QtyModAssumption
<1>2. PICK m \in Int : a = m * QtyMod + (a % QtyMod)
  BY ModFacts
<1>3. a % QtyMod \in Int /\ m * QtyMod \in Int
  BY <1>1
<1>4. \A r, x \in Int : a = x + r => a - b = (r - b) + x
  OBVIOUS
<1>5. a - b = ((a % QtyMod) - b) + m * QtyMod
  BY <1>2, <1>3, <1>4, Zenon
<1>6. QED
  BY <1>3, <1>5, ModShift

-----------------------------------------------------------------------------
(* Levels and maps.                                                        *)

LEMMA EmptyQueue == << >> \in Seq(SyntheticOrder) /\ Resting(<< >>) = 0
<1>1. << >> \in Seq(SyntheticOrder) /\ Len(<< >>) = 0
  OBVIOUS
<1>2. Cumulative(<< >>)[0] = 0
  BY <1>1, OrdersHaveQty, CumulativeIsPartialSums DEF PartialSums
<1>3. QED
  BY <1>1, <1>2 DEF Resting

LEMMA LevelAtFacts ==
    ASSUME NEW book, IsShadowBook(book), NEW price \in Prices
    PROVE  LET level == LevelAt(book.levels, price)
           IN  /\ level \in LevelState
               /\ level.total_qty \in Qty
               /\ level.orders \in Seq(SyntheticOrder)
               /\ Queue(book, price) = level.orders
               /\ price \in DOMAIN book.levels => level = book.levels[price]
               /\ price \notin DOMAIN book.levels =>
                    level.total_qty = 0 /\ level.orders = << >>
<1>1. 0 \in Qty
  BY QtyModAssumption DEF Qty
<1>2. LevelAt(book.levels, price) \in LevelState
  BY <1>1, EmptyQueue DEF LevelAt, LevelState, IsShadowBook, IsLevels
<1>3. QED
  BY <1>2 DEF LevelAt, LevelState, Queue

LEMMA EraseFacts ==
    ASSUME NEW levels, IsLevels(levels), NEW price \in Prices
    PROVE  /\ IsLevels(Erase(levels, price))
           /\ DOMAIN Erase(levels, price) = DOMAIN levels \ {price}
           /\ \A p \in DOMAIN levels \ {price} : Erase(levels, price)[p] = levels[p]
BY DEF Erase, IsLevels

LEMMA PutFacts ==
    ASSUME NEW levels, IsLevels(levels), NEW price \in Prices, NEW level \in LevelState
    PROVE  /\ IsLevels(Put(levels, price, level))
           /\ DOMAIN Put(levels, price, level) = DOMAIN levels \cup {price}
           /\ \A p \in DOMAIN levels \ {price} :
                Put(levels, price, level)[p] = levels[p]
           /\ Put(levels, price, level)[price] = level
BY DEF Put, IsLevels

(* `levels` is the map of the book with this level at this price.          *)
PutInto(book, price, level, levels) ==
    /\ IsLevels(levels)
    /\ DOMAIN levels = DOMAIN book.levels \cup {price}
    /\ \A p \in DOMAIN book.levels \ {price} : levels[p] = book.levels[p]
    /\ levels[price] = level

LEMMA BookPutFacts ==
    ASSUME NEW book, IsShadowBook(book), NEW price \in Prices, NEW level \in LevelState
    PROVE  PutInto(book, price, level, Put(book.levels, price, level))
<1>1. IsLevels(book.levels)
  BY DEF IsShadowBook
<1> DEFINE levels == book.levels
<1> HIDE DEF levels
<1>2. IsLevels(levels)
  BY <1>1 DEF levels
<1>3. PutInto(book, price, level, Put(levels, price, level))
  <2>1. /\ IsLevels(Put(levels, price, level))
        /\ DOMAIN Put(levels, price, level) = DOMAIN levels \cup {price}
        /\ \A p \in DOMAIN levels \ {price} :
             Put(levels, price, level)[p] = levels[p]
        /\ Put(levels, price, level)[price] = level
    BY <1>2, PutFacts, ZenonT(30)
  <2>2. QED
    BY <2>1 DEF PutInto, levels
<1>4. QED
  BY <1>3 DEF levels

LEMMA BookFacts ==
    ASSUME NEW book, IsShadowBook(book), NEW levels, IsLevels(levels)
    PROVE  /\ IsLevels(book.levels)
           /\ book.next_order_id \in Nat
           /\ [book EXCEPT !.levels = levels].levels = levels
           /\ [book EXCEPT !.levels = levels].next_order_id = book.next_order_id
           /\ IsShadowBook([book EXCEPT !.levels = levels])
<1>1. /\ book = [levels |-> book.levels, next_order_id |-> book.next_order_id]
      /\ book.next_order_id \in Nat
      /\ IsLevels(book.levels)
  BY DEF IsShadowBook
<1>2. [book EXCEPT !.levels = levels]
        = [levels |-> levels, next_order_id |-> book.next_order_id]
  BY <1>1
<1>3. QED
  BY <1>1, <1>2 DEF IsShadowBook

(* consume(), level by level: other prices keep their level; the level at  *)
(* the price survives only if more than qty rests there.                   *)
THEOREM ConsumeFacts ==
    ASSUME NEW book, IsShadowBook(book), NEW price \in Prices, NEW qty \in Nat,
           NEW type, NEW ts, NEW id
    PROVE  LET new == Consume(book, price, qty, type, ts, id).book
           IN  /\ IsShadowBook(new)
               /\ new.next_order_id = book.next_order_id
               /\ DOMAIN new.levels \subseteq DOMAIN book.levels
               /\ DOMAIN book.levels \subseteq DOMAIN new.levels \cup {price}
               /\ \A p \in DOMAIN new.levels \ {price} :
                    new.levels[p] = book.levels[p]
               /\ price \in DOMAIN new.levels =>
                    /\ qty < Resting(book.levels[price].orders)
                    /\ new.levels[price] =
                         [total_qty |-> (book.levels[price].total_qty - qty) % QtyMod,
                          orders    |-> Left(book.levels[price].orders, qty)]
               /\ price \in DOMAIN book.levels \ DOMAIN new.levels =>
                    Left(book.levels[price].orders, qty) = << >>
<1> DEFINE r == Consume(book, price, qty, type, ts, id)
           level == book.levels[price]
           left == Left(level.orders, qty)
           taken_qty == IF qty < Resting(level.orders) THEN qty
                                                       ELSE Resting(level.orders)
           total == (level.total_qty - taken_qty) % QtyMod
<1>1. CASE price \notin DOMAIN book.levels
  <2>1. r.book = book
    BY <1>1 DEF Consume
  <2>2. QED
    BY <1>1, <2>1 DEF IsShadowBook
<1>2. CASE price \in DOMAIN book.levels
  <2>1. /\ level.orders \in Seq(SyntheticOrder)
        /\ level.total_qty \in Qty
    BY <1>2, LevelAtFacts
  <2>2. /\ left \in Seq(SyntheticOrder)
        /\ left = << >> <=> Resting(level.orders) <= qty
        /\ Resting(level.orders) \in Nat
    BY <2>1, LeftFacts, RestingLeft, RestingNat, OrdersHaveQty
  <2>3. level.total_qty - taken_qty \in Int
    BY <2>1, <2>2, QtyModAssumption DEF Qty
  <2>4. total \in Qty
    BY <2>3, ModFacts
  <2>5. [total_qty |-> total, orders |-> left] \in LevelState
    BY <2>2, <2>4 DEF LevelState
  <2>6. IsLevels(book.levels) /\ book.next_order_id \in Nat
    BY DEF IsShadowBook
  <2>7. r.book = [book EXCEPT !.levels =
                    IF left = << >> THEN Erase(book.levels, price)
                    ELSE Put(book.levels, price, [total_qty |-> total, orders |-> left])]
    BY <1>2 DEF Consume, TotalLeft
  <2> HIDE DEF r, left, total
  <2>8. CASE left = << >>
    <3>1. r.book = [book EXCEPT !.levels = Erase(book.levels, price)]
      BY <2>7, <2>8
    <3>2. /\ IsLevels(Erase(book.levels, price))
          /\ DOMAIN Erase(book.levels, price) = DOMAIN book.levels \ {price}
          /\ \A p \in DOMAIN book.levels \ {price} :
               Erase(book.levels, price)[p] = book.levels[p]
      BY <2>6, EraseFacts
    <3>3. /\ r.book.levels = Erase(book.levels, price)
          /\ r.book.next_order_id = book.next_order_id
          /\ IsShadowBook(r.book)
      BY <3>1, <3>2, BookFacts
    <3>4. Left(book.levels[price].orders, qty) = << >>
      BY <2>8 DEF left
    <3>5. QED
      BY <3>2, <3>3, <3>4 DEF r
  <2>9. CASE left # << >>
    <3> DEFINE kept == [total_qty |-> total, orders |-> left]
    <3>1. r.book = [book EXCEPT !.levels = Put(book.levels, price, kept)]
      BY <2>7, <2>9
    <3>2. /\ IsLevels(Put(book.levels, price, kept))
          /\ DOMAIN Put(book.levels, price, kept) = DOMAIN book.levels \cup {price}
          /\ \A p \in DOMAIN book.levels \ {price} :
               Put(book.levels, price, kept)[p] = book.levels[p]
          /\ Put(book.levels, price, kept)[price] = kept
      <4>1. kept \in LevelState
        BY <2>5
      <4> HIDE DEF kept
      <4>2. QED
        <5>1. PutInto(book, price, kept, Put(book.levels, price, kept))
          BY <4>1, BookPutFacts
        <5>2. QED
          BY <5>1 DEF PutInto
    <3>3. /\ r.book.levels = Put(book.levels, price, kept)
          /\ r.book.next_order_id = book.next_order_id
          /\ IsShadowBook(r.book)
      BY <3>1, <3>2, BookFacts
    <3>4. qty < Resting(level.orders) /\ total = (level.total_qty - qty) % QtyMod
      BY <2>2, <2>9 DEF total
    <3>5. kept = [total_qty |-> (level.total_qty - qty) % QtyMod,
                  orders |-> Left(level.orders, qty)]
      BY <3>4 DEF left
    <3> HIDE DEF level, kept
    <3>6. QED
      BY <1>2, <3>2, <3>3, <3>4, <3>5 DEF r, level
  <2>10. QED
    BY <2>8, <2>9
<1>3. QED
  BY <1>1, <1>2

(* The books two operations on one level produce.                          *)
LEMMA PutBookFacts ==
    ASSUME NEW book, IsShadowBook(book), NEW price \in Prices, NEW level \in LevelState
    PROVE  LET new == [book EXCEPT !.levels = Put(book.levels, price, level)]
           IN  /\ IsShadowBook(new)
               /\ new.next_order_id = book.next_order_id
               /\ DOMAIN new.levels = DOMAIN book.levels \cup {price}
               /\ \A p \in DOMAIN book.levels \ {price} :
                    new.levels[p] = book.levels[p]
               /\ new.levels[price] = level
<1> DEFINE levels == Put(book.levels, price, level)
<1>2. /\ IsLevels(levels)
      /\ DOMAIN levels = DOMAIN book.levels \cup {price}
      /\ \A p \in DOMAIN book.levels \ {price} : levels[p] = book.levels[p]
      /\ levels[price] = level
  <2>1. PutInto(book, price, level, levels)
    BY BookPutFacts
  <2>2. QED
    BY <2>1 DEF PutInto
<1> HIDE DEF levels
<1>3. /\ [book EXCEPT !.levels = levels].levels = levels
      /\ [book EXCEPT !.levels = levels].next_order_id = book.next_order_id
      /\ IsShadowBook([book EXCEPT !.levels = levels])
  BY <1>2, BookFacts
<1>4. QED
  BY <1>2, <1>3 DEF levels

(* apply() at a price: New and Change overwrite the total and keep the     *)
(* queue, Delete drops both; the result is the change of the total.        *)
LEMMA ApplyFacts ==
    ASSUME NEW book, IsShadowBook(book), NEW price \in Prices,
           NEW action \in L2Action, NEW new_qty \in Qty
    PROVE  LET level == LevelAt(book.levels, price)
               r     == Apply(book, action, price, new_qty)
           IN  /\ IsShadowBook(r.book)
               /\ r.book.next_order_id = book.next_order_id
               /\ \A p \in DOMAIN book.levels \ {price} :
                    p \in DOMAIN r.book.levels /\ r.book.levels[p] = book.levels[p]
               /\ action = "Delete" =>
                    /\ r.delta = -level.total_qty
                    /\ DOMAIN r.book.levels = DOMAIN book.levels \ {price}
               /\ action # "Delete" =>
                    /\ r.delta = new_qty - level.total_qty
                    /\ DOMAIN r.book.levels = DOMAIN book.levels \cup {price}
                    /\ r.book.levels[price] =
                         [total_qty |-> new_qty, orders |-> level.orders]
<1> DEFINE level == LevelAt(book.levels, price)
           r     == Apply(book, action, price, new_qty)
           put   == [level EXCEPT !.total_qty = new_qty]
<1>1. level \in LevelState /\ level.orders \in Seq(SyntheticOrder)
  BY LevelAtFacts
<1>2. put = [total_qty |-> new_qty, orders |-> level.orders]
  BY <1>1 DEF LevelState
<1>3. put \in LevelState
  BY <1>1, <1>2 DEF LevelState
<1>4. CASE action = "Delete"
  <2>1. /\ r.book = [book EXCEPT !.levels = Erase(book.levels, price)]
        /\ r.delta = -level.total_qty
    BY <1>4 DEF Apply
  <2> HIDE DEF r
  <2>2. IsLevels(book.levels)
    BY DEF IsShadowBook
  <2>3. /\ IsLevels(Erase(book.levels, price))
        /\ DOMAIN Erase(book.levels, price) = DOMAIN book.levels \ {price}
        /\ \A p \in DOMAIN book.levels \ {price} :
             Erase(book.levels, price)[p] = book.levels[p]
    BY <2>2, EraseFacts
  <2>4. /\ r.book.levels = Erase(book.levels, price)
        /\ r.book.next_order_id = book.next_order_id
        /\ IsShadowBook(r.book)
    BY <2>1, <2>3, BookFacts
  <2>5. QED
    BY <1>4, <2>1, <2>3, <2>4 DEF r
<1>5. CASE action # "Delete"
  <2>1. /\ r.book = [book EXCEPT !.levels = Put(book.levels, price, put)]
        /\ r.delta = new_qty - level.total_qty
    BY <1>5 DEF Apply
  <2> HIDE DEF r, put
  <2>2. /\ IsShadowBook(r.book)
        /\ r.book.next_order_id = book.next_order_id
        /\ DOMAIN r.book.levels = DOMAIN book.levels \cup {price}
        /\ \A p \in DOMAIN book.levels \ {price} : r.book.levels[p] = book.levels[p]
        /\ r.book.levels[price] = put
    BY <1>3, <2>1, PutBookFacts
  <2>3. QED
    BY <1>2, <1>5, <2>1, <2>2 DEF r
<1>6. QED
  BY <1>4, <1>5

LEMMA ApplyKeepsCounter ==
    ASSUME NEW book, IsShadowBook(book), NEW price, NEW action, NEW new_qty
    PROVE  Apply(book, action, price, new_qty).book.next_order_id = book.next_order_id
<1>1. book = [levels |-> book.levels, next_order_id |-> book.next_order_id]
  BY DEF IsShadowBook
<1>2. \A l : [book EXCEPT !.levels = l].next_order_id = book.next_order_id
  BY <1>1
<1>3. CASE action = "Delete"
  <2>1. Apply(book, action, price, new_qty).book
          = [book EXCEPT !.levels = Erase(book.levels, price)]
    BY <1>3 DEF Apply
  <2>2. QED
    BY <1>2, <2>1
<1>4. CASE action # "Delete"
  <2>1. Apply(book, action, price, new_qty).book
          = [book EXCEPT !.levels =
               Put(book.levels, price,
                   [LevelAt(book.levels, price) EXCEPT !.total_qty = new_qty])]
    BY <1>4 DEF Apply
  <2>2. QED
    BY <1>2, <2>1
<1>5. QED
  BY <1>3, <1>4

(* add_order(): one more order at the back, with the next id.              *)
LEMMA AddOrderFacts ==
    ASSUME NEW book, IsShadowBook(book), NEW price \in Prices, NEW qty \in Qty \ {0}
    PROVE  LET level == LevelAt(book.levels, price)
               new   == AddOrder(book, price, qty)
               o     == [order_id |-> book.next_order_id, qty |-> qty]
           IN  /\ IsShadowBook(new)
               /\ new.next_order_id = book.next_order_id + 1
               /\ DOMAIN new.levels = DOMAIN book.levels \cup {price}
               /\ \A p \in DOMAIN book.levels \ {price} :
                    new.levels[p] = book.levels[p]
               /\ o \in SyntheticOrder
               /\ new.levels[price] =
                    [total_qty |-> (level.total_qty + qty) % QtyMod,
                     orders |-> Append(level.orders, o)]
<1> DEFINE level == LevelAt(book.levels, price)
           o     == [order_id |-> book.next_order_id, qty |-> qty]
           put   == [total_qty |-> (level.total_qty + qty) % QtyMod,
                     orders |-> Append(level.orders, o)]
           levels == Put(book.levels, price, put)
<1>1. level.orders \in Seq(SyntheticOrder) /\ level.total_qty \in Qty
  BY LevelAtFacts
<1>2. IsLevels(book.levels) /\ book.next_order_id \in Nat
  BY DEF IsShadowBook
<1>3. o \in SyntheticOrder
  BY <1>2 DEF SyntheticOrder
<1>4. level.total_qty + qty \in Int
  BY <1>1, QtyModAssumption DEF Qty
<1>5. (level.total_qty + qty) % QtyMod \in Qty
  BY <1>4, ModFacts
<1>6. put \in LevelState
  BY <1>1, <1>3, <1>5, RestingAppend DEF LevelState
<1>7. AddOrder(book, price, qty) =
        [levels |-> levels, next_order_id |-> book.next_order_id + 1]
  BY DEF AddOrder
<1> HIDE DEF put
<1>8. /\ IsLevels(levels)
      /\ DOMAIN levels = DOMAIN book.levels \cup {price}
      /\ \A p \in DOMAIN book.levels \ {price} : levels[p] = book.levels[p]
      /\ levels[price] = put
  <2>1. PutInto(book, price, put, levels)
    BY <1>6, BookPutFacts
  <2>2. QED
    BY <2>1 DEF PutInto
<1> HIDE DEF levels
<1>9. IsShadowBook(AddOrder(book, price, qty))
  BY <1>2, <1>7, <1>8 DEF IsShadowBook
<1>10. QED
  BY <1>3, <1>7, <1>8, <1>9 DEF put
-----------------------------------------------------------------------------
(* What a queue's prefix consumption keeps.                                *)

LEMMA PrefixRefl ==
    ASSUME NEW q \in Seq(SyntheticOrder)
    PROVE  PrefixConsumed(q, q)
<1>1. Len(q) \in Nat /\ \A i \in 1 .. Len(q) : q[i].qty \in Nat
  BY OrdersHaveQty DEF HasQty
<1>2. 0 \in 0 .. Len(q) /\ \A i \in Nat : 0 + i = i
  BY <1>1
<1>3. QED
  BY <1>1, <1>2 DEF PrefixConsumed

LEMMA PrefixLeft ==
    ASSUME NEW q \in Seq(SyntheticOrder), NEW qty \in Nat
    PROVE  PrefixConsumed(q, Left(q, qty))
<1> DEFINE k == FullyConsumed(q, qty)
           left == Left(q, qty)
           part == PartOfNext(q, qty)
<1>1. /\ Len(q) \in Nat /\ k \in 0 .. Len(q)
      /\ k < Len(q) => part \in Nat /\ k + 1 \in 1 .. Len(q)
  BY CutFacts
<1>2. /\ Len(left) = Len(q) - k
      /\ \A i \in 1 .. Len(q) - k : left[i].order_id = q[k + i].order_id
      /\ \A i \in 2 .. Len(q) - k : left[i] = q[k + i]
      /\ k < Len(q) => left[1].qty = q[k + 1].qty - part
  BY LeftFacts
<1>3. \A i \in 1 .. Len(q) : q[i].qty \in Nat
  BY OrdersHaveQty DEF HasQty
<1> HIDE DEF k, left, part
<1>4. ASSUME Len(left) > 0
      PROVE  left[1].order_id = q[k + 1].order_id /\ left[1].qty <= q[k + 1].qty
  <2>1. k < Len(q) /\ 1 \in 1 .. Len(q) - k
    BY <1>1, <1>2, <1>4
  <2>2. q[k + 1].qty \in Nat /\ part \in Nat
    BY <1>1, <1>3, <2>1
  <2>3. QED
    BY <1>2, <2>1, <2>2
<1>5. PrefixConsumed(q, left)
  BY <1>1, <1>2, <1>4 DEF PrefixConsumed
<1>6. QED
  BY <1>5 DEF left

LEMMA PrefixTrans ==
    ASSUME NEW a \in Seq(SyntheticOrder), NEW b \in Seq(SyntheticOrder),
           NEW c \in Seq(SyntheticOrder),
           PrefixConsumed(a, b), PrefixConsumed(b, c)
    PROVE  PrefixConsumed(a, c)
<1>1. PICK j \in 0 .. Len(a) :
        /\ Len(b) = Len(a) - j
        /\ \A i \in 2 .. Len(b) : b[i] = a[j + i]
        /\ Len(b) > 0 => b[1].order_id = a[j + 1].order_id /\ b[1].qty <= a[j + 1].qty
  BY DEF PrefixConsumed
<1>2. PICK k \in 0 .. Len(b) :
        /\ Len(c) = Len(b) - k
        /\ \A i \in 2 .. Len(c) : c[i] = b[k + i]
        /\ Len(c) > 0 => c[1].order_id = b[k + 1].order_id /\ c[1].qty <= b[k + 1].qty
  BY DEF PrefixConsumed
<1>3. /\ Len(a) \in Nat /\ Len(b) \in Nat /\ Len(c) \in Nat
      /\ \A i \in 1 .. Len(a) : a[i].qty \in Nat
      /\ \A i \in 1 .. Len(b) : b[i].qty \in Nat
      /\ \A i \in 1 .. Len(c) : c[i].qty \in Nat
  BY OrdersHaveQty DEF HasQty
<1>4. j + k \in 0 .. Len(a) /\ Len(c) = Len(a) - (j + k)
  BY <1>1, <1>2, <1>3
<1>5. ASSUME NEW i \in 2 .. Len(c) PROVE c[i] = a[(j + k) + i]
  <2>1. k + i \in 2 .. Len(b) /\ j + (k + i) = (j + k) + i
    BY <1>1, <1>2, <1>3
  <2>2. QED
    BY <1>1, <1>2, <2>1
<1>6. ASSUME Len(c) > 0
      PROVE  c[1].order_id = a[(j + k) + 1].order_id /\ c[1].qty <= a[(j + k) + 1].qty
  <2>1. CASE k = 0
    <3>1. (j + k) + 1 = j + 1 /\ k + 1 = 1 /\ Len(b) > 0 /\ j + 1 \in 1 .. Len(a)
      BY <1>1, <1>2, <1>3, <1>6, <2>1
    <3>2. c[1].qty \in Nat /\ b[1].qty \in Nat /\ a[j + 1].qty \in Nat
      BY <1>3, <1>6, <3>1
    <3>3. QED
      BY <1>1, <1>2, <1>6, <3>1, <3>2
  <2>2. CASE k # 0
    <3>1. k + 1 \in 2 .. Len(b) /\ j + (k + 1) = (j + k) + 1
      BY <1>1, <1>2, <1>3, <1>6, <2>2
    <3>2. b[k + 1] = a[(j + k) + 1]
      BY <1>1, <3>1
    <3>3. QED
      BY <1>2, <1>6, <3>2
  <2>3. QED
    BY <2>1, <2>2
<1>7. QED
  BY <1>4, <1>5, <1>6 DEF PrefixConsumed
-----------------------------------------------------------------------------
(* `new` is `old` after qty was consumed from the level at this price.     *)
ConsumedTo(old, new, price, qty) ==
    /\ IsShadowBook(new)
    /\ new.next_order_id = old.next_order_id
    /\ DOMAIN new.levels \subseteq DOMAIN old.levels
    /\ DOMAIN old.levels \subseteq DOMAIN new.levels \cup {price}
    /\ \A p \in DOMAIN new.levels \ {price} : new.levels[p] = old.levels[p]
    /\ price \in DOMAIN new.levels =>
         /\ PrefixConsumed(old.levels[price].orders, new.levels[price].orders)
         /\ Resting(new.levels[price].orders) =
              Resting(old.levels[price].orders) - qty
         /\ new.levels[price].total_qty =
              (old.levels[price].total_qty - qty) % QtyMod
    /\ price \in DOMAIN old.levels \ DOMAIN new.levels =>
         Resting(old.levels[price].orders) <= qty

LEMMA LevelFacts ==
    ASSUME NEW book, IsShadowBook(book), NEW p \in DOMAIN book.levels
    PROVE  /\ p \in Prices
           /\ book.levels[p].orders \in Seq(SyntheticOrder)
           /\ Resting(book.levels[p].orders) \in Nat
           /\ book.levels[p].total_qty \in Qty
           /\ Queue(book, p) = book.levels[p].orders
<1>1. p \in Prices /\ book.levels[p] \in LevelState
  BY DEF IsShadowBook, IsLevels
<1>2. book.levels[p].orders \in Seq(SyntheticOrder)
  BY <1>1 DEF LevelState
<1>3. QED
  BY <1>1, <1>2, RestingNat, OrdersHaveQty DEF LevelState, Queue, LevelAt

LEMMA ConsumedByConsume ==
    ASSUME NEW book, IsShadowBook(book), NEW price \in Prices, NEW qty \in Nat,
           NEW type, NEW ts, NEW id
    PROVE  ConsumedTo(book, Consume(book, price, qty, type, ts, id).book, price, qty)
<1> DEFINE new == Consume(book, price, qty, type, ts, id).book
<1>1. /\ IsShadowBook(new)
      /\ new.next_order_id = book.next_order_id
      /\ DOMAIN new.levels \subseteq DOMAIN book.levels
      /\ DOMAIN book.levels \subseteq DOMAIN new.levels \cup {price}
      /\ \A p \in DOMAIN new.levels \ {price} : new.levels[p] = book.levels[p]
      /\ price \in DOMAIN new.levels =>
           /\ qty < Resting(book.levels[price].orders)
           /\ new.levels[price] =
                [total_qty |-> (book.levels[price].total_qty - qty) % QtyMod,
                 orders    |-> Left(book.levels[price].orders, qty)]
  BY ConsumeFacts
<1>2. /\ IsShadowBook(new)
      /\ price \in DOMAIN new.levels =>
           new.levels[price] =
             [total_qty |-> (book.levels[price].total_qty - qty) % QtyMod,
              orders    |-> Left(book.levels[price].orders, qty)]
      /\ price \in DOMAIN book.levels \ DOMAIN new.levels =>
           Left(book.levels[price].orders, qty) = << >>
  BY ConsumeFacts
<1> HIDE DEF new
<1>3. ASSUME price \in DOMAIN new.levels
      PROVE  /\ PrefixConsumed(book.levels[price].orders, new.levels[price].orders)
             /\ Resting(new.levels[price].orders) =
                  Resting(book.levels[price].orders) - qty
             /\ new.levels[price].total_qty =
                  (book.levels[price].total_qty - qty) % QtyMod
  <2> DEFINE q == book.levels[price].orders
  <2>1. q \in Seq(SyntheticOrder)
    BY <1>1, <1>3, LevelFacts
  <2>2. new.levels[price].orders = Left(q, qty) /\ qty < Resting(q)
    BY <1>1, <1>3
  <2> HIDE DEF q
  <2>3. PrefixConsumed(q, Left(q, qty)) /\ Resting(Left(q, qty)) = Resting(q) - qty
    BY <2>1, <2>2, PrefixLeft, RestingLeft
  <2>4. QED
    BY <1>1, <1>3, <2>2, <2>3 DEF q
<1>4. ASSUME price \in DOMAIN book.levels \ DOMAIN new.levels
      PROVE  Resting(book.levels[price].orders) <= qty
  <2>1. book.levels[price].orders \in Seq(SyntheticOrder)
    BY <1>4, LevelFacts
  <2>2. QED
    BY <1>2, <1>4, <2>1, RestingLeft
<1>5. QED
  BY <1>1, <1>3, <1>4 DEF ConsumedTo, new

LEMMA ConsumedByNothing ==
    ASSUME NEW book, IsShadowBook(book), NEW price \in Prices
    PROVE  ConsumedTo(book, book, price, 0)
<1>1. ASSUME price \in DOMAIN book.levels
      PROVE  /\ PrefixConsumed(book.levels[price].orders, book.levels[price].orders)
             /\ Resting(book.levels[price].orders) =
                  Resting(book.levels[price].orders) - 0
             /\ book.levels[price].total_qty =
                  (book.levels[price].total_qty - 0) % QtyMod
  <2>1. /\ book.levels[price].orders \in Seq(SyntheticOrder)
        /\ Resting(book.levels[price].orders) \in Nat
        /\ book.levels[price].total_qty \in 0 .. QtyMod - 1
    BY <1>1, LevelFacts DEF Qty
  <2>2. \A t \in 0 .. QtyMod - 1 : t = (t - 0) % QtyMod
    BY QtyModAssumption
  <2>3. QED
    BY <2>1, <2>2, PrefixRefl
<1>2. QED
  BY <1>1 DEF ConsumedTo

LEMMA ConsumedTwice ==
    ASSUME NEW a, NEW b, NEW c, NEW price \in Prices, NEW q1 \in Nat, NEW q2 \in Nat,
           IsShadowBook(a),
           ConsumedTo(a, b, price, q1), ConsumedTo(b, c, price, q2)
    PROVE  ConsumedTo(a, c, price, q1 + q2)
<1>1. IsShadowBook(b) /\ IsShadowBook(c)
  BY DEF ConsumedTo
<1>2. ASSUME price \in DOMAIN c.levels
      PROVE  /\ PrefixConsumed(a.levels[price].orders, c.levels[price].orders)
             /\ Resting(c.levels[price].orders) =
                  Resting(a.levels[price].orders) - (q1 + q2)
             /\ c.levels[price].total_qty =
                  (a.levels[price].total_qty - (q1 + q2)) % QtyMod
  <2>1. price \in DOMAIN b.levels /\ price \in DOMAIN a.levels
    BY <1>2 DEF ConsumedTo
  <2> DEFINE la == a.levels[price]
             lb == b.levels[price]
             lc == c.levels[price]
  <2>2. /\ la.orders \in Seq(SyntheticOrder) /\ Resting(la.orders) \in Nat
        /\ lb.orders \in Seq(SyntheticOrder) /\ Resting(lb.orders) \in Nat
        /\ lc.orders \in Seq(SyntheticOrder) /\ Resting(lc.orders) \in Nat
        /\ la.total_qty \in Qty
    BY <1>1, <1>2, <2>1, LevelFacts
  <2>3. /\ PrefixConsumed(la.orders, lb.orders)
        /\ Resting(lb.orders) = Resting(la.orders) - q1
        /\ lb.total_qty = (la.total_qty - q1) % QtyMod
        /\ PrefixConsumed(lb.orders, lc.orders)
        /\ Resting(lc.orders) = Resting(lb.orders) - q2
        /\ lc.total_qty = (lb.total_qty - q2) % QtyMod
    BY <1>2, <2>1 DEF ConsumedTo
  <2> HIDE DEF la, lb, lc
  <2>4. PrefixConsumed(la.orders, lc.orders)
    BY <2>2, <2>3, PrefixTrans
  <2>5. Resting(lc.orders) = Resting(la.orders) - (q1 + q2)
    BY <2>2, <2>3
  <2>6. lc.total_qty = (la.total_qty - (q1 + q2)) % QtyMod
    <3>1. la.total_qty \in Int
      BY <2>2, QtyModAssumption DEF Qty
    <3>2. /\ la.total_qty - q1 \in Int
          /\ (la.total_qty - q1) - q2 = la.total_qty - (q1 + q2)
      BY <3>1
    <3>3. \A x \in Int, y \in Int : ((x % QtyMod) - y) % QtyMod = (x - y) % QtyMod
      BY ModMinus
    <3>4. q2 \in Int
      OBVIOUS
    <3>5. QED
      BY <2>3, <3>2, <3>3, <3>4, Zenon
  <2>7. QED
    BY <2>4, <2>5, <2>6 DEF la, lc
<1>3. ASSUME price \in DOMAIN a.levels \ DOMAIN c.levels
      PROVE  Resting(a.levels[price].orders) <= q1 + q2
  <2> DEFINE ra == Resting(a.levels[price].orders)
             rb == Resting(b.levels[price].orders)
  <2>1. ra \in Nat
    BY <1>3, LevelFacts
  <2>2. CASE price \in DOMAIN b.levels
    <3>1. rb = ra - q1 /\ rb <= q2
      BY <1>3, <2>2 DEF ConsumedTo
    <3> HIDE DEF ra, rb
    <3>2. QED
      BY <2>1, <3>1 DEF ra
  <2>3. CASE price \notin DOMAIN b.levels
    <3>1. ra <= q1
      BY <1>3, <2>3 DEF ConsumedTo
    <3> HIDE DEF ra
    <3>2. QED
      BY <2>1, <3>1 DEF ra
  <2>4. QED
    BY <2>2, <2>3
<1>4. QED
  BY <1>1, <1>2, <1>3 DEF ConsumedTo
-----------------------------------------------------------------------------
(* A book's promises follow from those of the book before, level by level. *)

LEMMA PrefixEmpty ==
    ASSUME NEW q \in Seq(SyntheticOrder)
    PROVE  PrefixConsumed(q, << >>)
<1>1. Len(q) \in 0 .. Len(q) /\ Len(<< >>) = Len(q) - Len(q) /\ Len(<< >>) = 0
  OBVIOUS
<1>2. QED
  BY <1>1 DEF PrefixConsumed

LEMMA TwiceAt ==
    ASSUME NEW book, IsShadowBook(book), TwiceResting(book), NEW price \in Prices
    PROVE  LET level == LevelAt(book.levels, price)
           IN  level.total_qty = (2 * Resting(level.orders)) % QtyMod
<1>1. CASE price \in DOMAIN book.levels
  BY <1>1, LevelAtFacts DEF TwiceResting
<1>2. CASE price \notin DOMAIN book.levels
  <2>1. (2 * 0) % QtyMod = 0
    BY QtyModAssumption
  <2>2. QED
    BY <1>2, <2>1, LevelAtFacts, EmptyQueue
<1>3. QED
  BY <1>1, <1>2

LEMMA TwiceOfParts ==
    ASSUME NEW old, NEW new, NEW price,
           TwiceResting(old), IsShadowBook(old), IsShadowBook(new),
           \A p \in DOMAIN new.levels \ {price} :
               p \in DOMAIN old.levels /\ new.levels[p] = old.levels[p],
           price \in DOMAIN new.levels =>
               new.levels[price].total_qty =
                   (2 * Resting(new.levels[price].orders)) % QtyMod
    PROVE  TwiceResting(new)
<1>1. SUFFICES ASSUME NEW p \in DOMAIN new.levels
               PROVE  new.levels[p].total_qty = (2 * Resting(Queue(new, p))) % QtyMod
  BY DEF TwiceResting
<1>2. Queue(new, p) = new.levels[p].orders
  BY LevelFacts
<1>3. CASE p = price
  BY <1>2, <1>3
<1>4. CASE p # price
  <2>1. p \in DOMAIN old.levels /\ new.levels[p] = old.levels[p]
    BY <1>4
  <2>2. Queue(old, p) = old.levels[p].orders
    BY <2>1, LevelFacts
  <2>3. old.levels[p].total_qty = (2 * Resting(Queue(old, p))) % QtyMod
    BY <2>1 DEF TwiceResting
  <2>4. QED
    BY <1>2, <2>1, <2>2, <2>3
<1>5. QED
  BY <1>3, <1>4

(* A call that does not increase the total: the change of total and queue  *)
(* is the same, so the total stays twice the queue.                        *)
THEOREM DecreaseKeepsTwice ==
    ASSUME NEW book, IsShadowBook(book), TwiceResting(book), NEW price \in Prices,
           NEW action \in L2Action, NEW new_qty \in Qty, NEW new,
           Apply(book, action, price, new_qty).delta <= 0,
           ConsumedTo(Apply(book, action, price, new_qty).book, new, price,
                      -Apply(book, action, price, new_qty).delta)
    PROVE  TwiceResting(new)
<1> DEFINE level == LevelAt(book.levels, price)
           r     == Apply(book, action, price, new_qty)
           T     == level.total_qty
           R     == Resting(level.orders)
<1>1. /\ IsShadowBook(r.book)
      /\ action = "Delete" => DOMAIN r.book.levels = DOMAIN book.levels \ {price}
      /\ action # "Delete" =>
           /\ r.delta = new_qty - T
           /\ DOMAIN r.book.levels = DOMAIN book.levels \cup {price}
           /\ r.book.levels[price] = [total_qty |-> new_qty, orders |-> level.orders]
      /\ \A p \in DOMAIN book.levels \ {price} : r.book.levels[p] = book.levels[p]
  BY ApplyFacts
<1>2. ConsumedTo(r.book, new, price, -r.delta)
  OBVIOUS
<1>3. T = (2 * R) % QtyMod /\ T \in Qty
  BY TwiceAt, LevelAtFacts
<1>4. R \in Nat
  BY LevelAtFacts, RestingNat, OrdersHaveQty
<1> HIDE DEF r, T, R, level
<1>5. ASSUME price \in DOMAIN new.levels
      PROVE  new.levels[price].total_qty =
               (2 * Resting(new.levels[price].orders)) % QtyMod
  <2>1. price \in DOMAIN r.book.levels
    BY <1>2, <1>5 DEF ConsumedTo
  <2>2. action # "Delete"
    BY <1>1, <2>1
  <2>3. /\ Resting(new.levels[price].orders) = R - (T - new_qty)
        /\ new.levels[price].total_qty = (new_qty - (T - new_qty)) % QtyMod
    <3>1. /\ Resting(new.levels[price].orders) =
               Resting(r.book.levels[price].orders) - (-r.delta)
          /\ new.levels[price].total_qty =
               (r.book.levels[price].total_qty - (-r.delta)) % QtyMod
      BY <1>2, <1>5 DEF ConsumedTo
    <3>2. -r.delta = T - new_qty
      BY <1>1, <1>3, <2>2, QtyModAssumption DEF Qty
    <3>3. /\ r.book.levels[price].orders = level.orders
          /\ r.book.levels[price].total_qty = new_qty
      BY <1>1, <2>2
    <3>4. QED
      BY <3>1, <3>2, <3>3 DEF R
  <2>4. PICK m \in Int : 2 * R = m * QtyMod + T
    BY <1>3, <1>4, ModFacts
  <2>5. /\ 2 * (R - (T - new_qty)) = (new_qty - (T - new_qty)) + m * QtyMod
        /\ 2 * (R - (T - new_qty)) \in Int
        /\ new_qty - (T - new_qty) \in Int
    <3>1. T \in Int /\ new_qty \in Int /\ m * QtyMod \in Int
      BY <1>3, QtyModAssumption DEF Qty
    <3>2. QED
      BY <1>4, <2>4, <3>1
  <2>6. (2 * (R - (T - new_qty))) % QtyMod = (new_qty - (T - new_qty)) % QtyMod
    BY <2>5, ModShift
  <2>7. QED
    BY <2>3, <2>6
<1>6. \A p \in DOMAIN new.levels \ {price} :
         p \in DOMAIN book.levels /\ new.levels[p] = book.levels[p]
  BY <1>1, <1>2 DEF ConsumedTo
<1>7. IsShadowBook(new)
  BY <1>2 DEF ConsumedTo
<1>8. QED
  BY <1>5, <1>6, <1>7, TwiceOfParts

(* A call that increases it: apply() wrote the new total, add_order() adds *)
(* the increase once more.                                                 *)
THEOREM IncreaseKeepsTwice ==
    ASSUME NEW book, IsShadowBook(book), TwiceResting(book), NEW price \in Prices,
           NEW action \in L2Action, NEW new_qty \in Qty,
           Apply(book, action, price, new_qty).delta > 0
    PROVE  TwiceResting(AddOrder(Apply(book, action, price, new_qty).book, price,
                                 Apply(book, action, price, new_qty).delta))
<1> DEFINE level == LevelAt(book.levels, price)
           r     == Apply(book, action, price, new_qty)
           new   == AddOrder(r.book, price, r.delta)
           T     == level.total_qty
           R     == Resting(level.orders)
           o     == [order_id |-> r.book.next_order_id, qty |-> r.delta]
<1>1. level.orders \in Seq(SyntheticOrder) /\ T \in Qty
  BY LevelAtFacts
<1>2. r.delta > 0
  OBVIOUS
<1>3. action # "Delete"
  <2>1. action = "Delete" => r.delta = -T
    BY DEF Apply
  <2> HIDE DEF r, T
  <2>2. QED
    BY <1>1, <1>2, <2>1, QtyModAssumption DEF Qty
<1>4. /\ IsShadowBook(r.book)
      /\ r.delta = new_qty - T
      /\ DOMAIN r.book.levels = DOMAIN book.levels \cup {price}
      /\ r.book.levels[price] = [total_qty |-> new_qty, orders |-> level.orders]
      /\ \A p \in DOMAIN book.levels \ {price} : r.book.levels[p] = book.levels[p]
  BY <1>3, ApplyFacts
<1>5. LevelAt(r.book.levels, price) = r.book.levels[price]
  BY <1>4, LevelAtFacts
<1>6. r.delta \in Qty \ {0}
  <2> HIDE DEF r, T
  <2>1. QED
    BY <1>1, <1>2, <1>4, QtyModAssumption DEF Qty
<1>7. /\ IsShadowBook(new)
      /\ DOMAIN new.levels = DOMAIN r.book.levels \cup {price}
      /\ \A p \in DOMAIN r.book.levels \ {price} : new.levels[p] = r.book.levels[p]
      /\ o \in SyntheticOrder
      /\ new.levels[price] = [total_qty |-> (new_qty + r.delta) % QtyMod,
                              orders |-> Append(level.orders, o)]
  <2> DEFINE grown == [total_qty |-> (LevelAt(r.book.levels, price).total_qty + r.delta) % QtyMod,
                       orders |-> Append(LevelAt(r.book.levels, price).orders, o)]
  <2>1. /\ IsShadowBook(new)
        /\ new.next_order_id = r.book.next_order_id + 1
        /\ DOMAIN new.levels = DOMAIN r.book.levels \cup {price}
        /\ \A p \in DOMAIN r.book.levels \ {price} : new.levels[p] = r.book.levels[p]
        /\ o \in SyntheticOrder
        /\ new.levels[price] = grown
    <3> HIDE DEF r
    <3>1. QED
      BY <1>4, <1>6, AddOrderFacts
  <2>2. /\ LevelAt(r.book.levels, price).total_qty = new_qty
        /\ LevelAt(r.book.levels, price).orders = level.orders
    <3> HIDE DEF r, level
    <3>1. QED
      BY <1>4, <1>5
  <2> HIDE DEF r, new, level, o
  <2>3. QED
    BY <2>1, <2>2
<1>8. T = (2 * R) % QtyMod
  BY TwiceAt
<1>9. R \in Nat
  BY <1>1, RestingNat, OrdersHaveQty
<1>10. Resting(Append(level.orders, o)) = R + r.delta
  BY <1>1, <1>7, RestingAppend
<1> HIDE DEF level, r, new, T, R, o
<1>11. (2 * (R + r.delta)) % QtyMod = (new_qty + r.delta) % QtyMod
  <2>1. PICK m \in Int : 2 * R = m * QtyMod + T
    BY <1>8, <1>9, ModFacts
  <2>2. /\ 2 * (R + r.delta) = (new_qty + r.delta) + m * QtyMod
        /\ 2 * (R + r.delta) \in Int
        /\ new_qty + r.delta \in Int
    <3>1. T \in Int /\ new_qty \in Int /\ m * QtyMod \in Int
      BY <1>1, QtyModAssumption DEF Qty
    <3>2. QED
      BY <1>4, <1>9, <2>1, <3>1
  <2>3. QED
    BY <2>2, ModShift
<1>12. new.levels[price].total_qty =
         (2 * Resting(new.levels[price].orders)) % QtyMod
  BY <1>7, <1>10, <1>11
<1>13. \A p \in DOMAIN new.levels \ {price} :
          p \in DOMAIN book.levels /\ new.levels[p] = book.levels[p]
  BY <1>4, <1>7
<1>14. TwiceResting(new)
  BY <1>7, <1>12, <1>13, TwiceOfParts
<1>15. QED
  BY <1>14 DEF new, r
-----------------------------------------------------------------------------
(* Queues of one book, before and after a call.                            *)

LEMMA QueueFacts ==
    ASSUME NEW book, IsShadowBook(book), NEW p \in Prices
    PROVE  /\ Queue(book, p) \in Seq(SyntheticOrder)
           /\ p \in DOMAIN book.levels => Queue(book, p) = book.levels[p].orders
           /\ p \notin DOMAIN book.levels => Queue(book, p) = << >>
BY LevelAtFacts

(* A call that does not increase the total drops a prefix of one queue.    *)
THEOREM DecreaseIsPrefix ==
    ASSUME NEW book, IsShadowBook(book), NEW price \in Prices,
           NEW action \in L2Action, NEW new_qty \in Qty, NEW new, NEW qty,
           ConsumedTo(Apply(book, action, price, new_qty).book, new, price, qty)
    PROVE  \A p \in Prices : PrefixConsumed(Queue(book, p), Queue(new, p))
<1> DEFINE r == Apply(book, action, price, new_qty)
           level == LevelAt(book.levels, price)
<1>1. /\ IsShadowBook(r.book)
      /\ action = "Delete" => DOMAIN r.book.levels = DOMAIN book.levels \ {price}
      /\ action # "Delete" =>
           /\ DOMAIN r.book.levels = DOMAIN book.levels \cup {price}
           /\ r.book.levels[price] = [total_qty |-> new_qty, orders |-> level.orders]
      /\ \A p \in DOMAIN book.levels \ {price} :
           p \in DOMAIN r.book.levels /\ r.book.levels[p] = book.levels[p]
  BY ApplyFacts
<1>2. ConsumedTo(r.book, new, price, qty)
  OBVIOUS
<1>3. Queue(book, price) = level.orders
  BY LevelAtFacts
<1> HIDE DEF r, level
<1>4. IsShadowBook(new)
  BY <1>2 DEF ConsumedTo
<1>5. ASSUME NEW p \in Prices PROVE PrefixConsumed(Queue(book, p), Queue(new, p))
  <2>0. Queue(book, p) \in Seq(SyntheticOrder)
    BY QueueFacts
  <2>1. CASE p \notin DOMAIN new.levels
    <3>1. Queue(new, p) = << >>
      BY <1>4, <2>1, QueueFacts
    <3>2. QED
      BY <2>0, <3>1, PrefixEmpty
  <2>2. CASE p \in DOMAIN new.levels /\ p = price
    <3>1. /\ p \in DOMAIN r.book.levels
          /\ PrefixConsumed(r.book.levels[p].orders, new.levels[p].orders)
      BY <1>2, <2>2 DEF ConsumedTo
    <3>2. r.book.levels[p].orders = Queue(book, p)
      BY <1>1, <1>3, <2>2, <3>1
    <3>3. Queue(new, p) = new.levels[p].orders
      BY <1>4, <2>2, QueueFacts
    <3>4. QED
      BY <3>1, <3>2, <3>3
  <2>3. CASE p \in DOMAIN new.levels /\ p # price
    <3>1. p \in DOMAIN book.levels /\ new.levels[p] = book.levels[p]
      BY <1>1, <1>2, <2>3 DEF ConsumedTo
    <3>2. Queue(new, p) = Queue(book, p)
      BY <1>4, <2>3, <3>1, QueueFacts
    <3>3. QED
      BY <2>0, <3>2, PrefixRefl
  <2>4. QED
    BY <2>1, <2>2, <2>3
<1>6. QED
  BY <1>5

(* A call that increases it appends one order, with the next id.           *)
THEOREM IncreaseAppends ==
    ASSUME NEW book, IsShadowBook(book), NEW price \in Prices,
           NEW action \in L2Action, NEW new_qty \in Qty,
           Apply(book, action, price, new_qty).delta > 0
    PROVE  LET r   == Apply(book, action, price, new_qty)
               new == AddOrder(r.book, price, r.delta)
               o   == [order_id |-> book.next_order_id, qty |-> r.delta]
           IN  /\ r.delta \in Qty \ {0}
               /\ o \in SyntheticOrder
               /\ IsShadowBook(new)
               /\ new.next_order_id = book.next_order_id + 1
               /\ r.book.next_order_id = book.next_order_id
               /\ DOMAIN new.levels = DOMAIN book.levels \cup {price}
               /\ \A p \in DOMAIN book.levels \ {price} :
                    new.levels[p] = book.levels[p]
               /\ new.levels[price].orders = Append(Queue(book, price), o)
<1> DEFINE level == LevelAt(book.levels, price)
           r     == Apply(book, action, price, new_qty)
           new   == AddOrder(r.book, price, r.delta)
           T     == level.total_qty
           o     == [order_id |-> r.book.next_order_id, qty |-> r.delta]
<1>1. level.orders = Queue(book, price) /\ T \in Qty
  BY LevelAtFacts
<1>2. r.delta > 0
  OBVIOUS
<1>3. action # "Delete"
  <2>1. action = "Delete" => r.delta = -T
    BY DEF Apply
  <2> HIDE DEF r, T
  <2>2. QED
    BY <1>1, <1>2, <2>1, QtyModAssumption DEF Qty
<1>4. /\ IsShadowBook(r.book)
      /\ r.book.next_order_id = book.next_order_id
      /\ r.delta = new_qty - T
      /\ DOMAIN r.book.levels = DOMAIN book.levels \cup {price}
      /\ r.book.levels[price] = [total_qty |-> new_qty, orders |-> level.orders]
      /\ \A p \in DOMAIN book.levels \ {price} : r.book.levels[p] = book.levels[p]
  BY <1>3, ApplyFacts
<1>5. LevelAt(r.book.levels, price) = r.book.levels[price]
  BY <1>4, LevelAtFacts
<1>6. r.delta \in Qty \ {0}
  <2> HIDE DEF r, T
  <2>1. QED
    BY <1>1, <1>2, <1>4, QtyModAssumption DEF Qty
<1>7. /\ IsShadowBook(new)
      /\ new.next_order_id = r.book.next_order_id + 1
      /\ DOMAIN new.levels = DOMAIN r.book.levels \cup {price}
      /\ \A p \in DOMAIN r.book.levels \ {price} : new.levels[p] = r.book.levels[p]
      /\ o \in SyntheticOrder
      /\ new.levels[price] = [total_qty |-> (new_qty + r.delta) % QtyMod,
                              orders |-> Append(level.orders, o)]
  <2> DEFINE grown == [total_qty |-> (LevelAt(r.book.levels, price).total_qty + r.delta) % QtyMod,
                       orders |-> Append(LevelAt(r.book.levels, price).orders, o)]
  <2>1. /\ IsShadowBook(new)
        /\ new.next_order_id = r.book.next_order_id + 1
        /\ DOMAIN new.levels = DOMAIN r.book.levels \cup {price}
        /\ \A p \in DOMAIN r.book.levels \ {price} : new.levels[p] = r.book.levels[p]
        /\ o \in SyntheticOrder
        /\ new.levels[price] = grown
    <3> HIDE DEF r
    <3>1. QED
      BY <1>4, <1>6, AddOrderFacts
  <2>2. /\ LevelAt(r.book.levels, price).total_qty = new_qty
        /\ LevelAt(r.book.levels, price).orders = level.orders
    <3> HIDE DEF r, level
    <3>1. QED
      BY <1>4, <1>5
  <2> HIDE DEF r, new, level, o
  <2>3. QED
    BY <2>1, <2>2
<1>8. \A p \in DOMAIN book.levels \ {price} : new.levels[p] = book.levels[p]
  BY <1>4, <1>7
<1>9. o = [order_id |-> book.next_order_id, qty |-> r.delta]
  BY <1>4
<1> HIDE DEF level, r, new, T
<1>10. QED
  BY <1>1, <1>4, <1>6, <1>7, <1>8, <1>9 DEF r, new

(* Ids stay in order when every queue of the new book is, by its ids, a    *)
(* suffix of the old one ...                                               *)
THEOREM IdsOfPrefix ==
    ASSUME NEW old, NEW new, IsShadowBook(old), IsShadowBook(new), IdsAscend(old),
           new.next_order_id = old.next_order_id,
           \A p \in Prices : PrefixConsumed(Queue(old, p), Queue(new, p))
    PROVE  IdsAscend(new)
<1>1. ASSUME NEW p \in DOMAIN new.levels
      PROVE  \E k \in Nat : \A i \in 1 .. Len(Queue(new, p)) :
               /\ p \in DOMAIN old.levels
               /\ k + i \in 1 .. Len(Queue(old, p))
               /\ Queue(new, p)[i].order_id = Queue(old, p)[k + i].order_id
  <2> DEFINE qo == Queue(old, p)
             qn == Queue(new, p)
  <2>1. p \in Prices
    BY LevelFacts
  <2>2. /\ qo \in Seq(SyntheticOrder) /\ qn \in Seq(SyntheticOrder)
        /\ p \notin DOMAIN old.levels => Len(qo) = 0
    BY <2>1, QueueFacts
  <2>3. PrefixConsumed(qo, qn)
    BY <2>1
  <2> HIDE DEF qo, qn
  <2>4. Len(qo) \in Nat /\ Len(qn) \in Nat
    BY <2>2
  <2>5. PICK k \in 0 .. Len(qo) :
          /\ Len(qn) = Len(qo) - k
          /\ \A i \in 2 .. Len(qn) : qn[i] = qo[k + i]
          /\ Len(qn) > 0 => qn[1].order_id = qo[k + 1].order_id
    BY <2>3 DEF PrefixConsumed
  <2>6. ASSUME NEW i \in 1 .. Len(qn)
        PROVE  p \in DOMAIN old.levels /\ k + i \in 1 .. Len(qo)
               /\ qn[i].order_id = qo[k + i].order_id
    <3>1. k + i \in 1 .. Len(qo) /\ Len(qo) # 0 /\ Len(qn) > 0
      BY <2>4, <2>5
    <3>2. CASE i = 1
      BY <2>2, <2>5, <3>1, <3>2
    <3>3. CASE i # 1
      <4>1. i \in 2 .. Len(qn)
        BY <3>3
      <4>2. QED
        BY <2>2, <2>5, <3>1, <4>1
    <3>4. QED
      BY <3>2, <3>3
  <2>7. k \in Nat
    BY <2>4
  <2>8. QED
    BY <2>6, <2>7 DEF qo, qn
<1>2. ASSUME NEW p \in DOMAIN new.levels, NEW i \in 1 .. Len(Queue(new, p))
      PROVE  /\ Queue(new, p)[i].order_id < new.next_order_id
             /\ \A j \in 1 .. Len(Queue(new, p)) :
                  i < j => Queue(new, p)[i].order_id < Queue(new, p)[j].order_id
             /\ \A s \in DOMAIN new.levels \ {p} : \A j \in 1 .. Len(Queue(new, s)) :
                  Queue(new, s)[j].order_id # Queue(new, p)[i].order_id
  <2>1. PICK k \in Nat : \A m \in 1 .. Len(Queue(new, p)) :
               /\ p \in DOMAIN old.levels
               /\ k + m \in 1 .. Len(Queue(old, p))
               /\ Queue(new, p)[m].order_id = Queue(old, p)[k + m].order_id
    BY <1>1
  <2>2. p \in DOMAIN old.levels /\ k + i \in 1 .. Len(Queue(old, p))
    BY <2>1
  <2>3. Queue(new, p)[i].order_id < new.next_order_id
    BY <2>1, <2>2 DEF IdsAscend
  <2>4. ASSUME NEW j \in 1 .. Len(Queue(new, p)), i < j
        PROVE  Queue(new, p)[i].order_id < Queue(new, p)[j].order_id
    <3>1. k + j \in 1 .. Len(Queue(old, p)) /\ k + i < k + j
      BY <2>1, <2>4
    <3>2. QED
      BY <2>1, <2>2, <3>1 DEF IdsAscend
  <2>5. ASSUME NEW s \in DOMAIN new.levels \ {p}, NEW j \in 1 .. Len(Queue(new, s))
        PROVE  Queue(new, s)[j].order_id # Queue(new, p)[i].order_id
    <3>1. PICK l \in Nat :
               /\ s \in DOMAIN old.levels
               /\ l + j \in 1 .. Len(Queue(old, s))
               /\ Queue(new, s)[j].order_id = Queue(old, s)[l + j].order_id
      BY <1>1
    <3>2. Queue(old, s)[l + j].order_id # Queue(old, p)[k + i].order_id
      BY <2>2, <3>1 DEF IdsAscend
    <3>3. QED
      BY <2>1, <3>1, <3>2
  <2>6. QED
    BY <2>3, <2>4, <2>5
<1>3. QED
  BY <1>2 DEF IdsAscend

(* ... and when one queue gains an order with the next id.                 *)
THEOREM IdsOfAppend ==
    ASSUME NEW old, NEW new, NEW price \in Prices, NEW o \in SyntheticOrder,
           IsShadowBook(old), IsShadowBook(new), IdsAscend(old),
           o.order_id = old.next_order_id,
           new.next_order_id = old.next_order_id + 1,
           DOMAIN new.levels = DOMAIN old.levels \cup {price},
           \A p \in DOMAIN old.levels \ {price} : new.levels[p] = old.levels[p],
           new.levels[price].orders = Append(Queue(old, price), o)
    PROVE  IdsAscend(new)
<1> DEFINE id(p, i) == Queue(new, p)[i].order_id
           n == Len(Queue(old, price))
           IsNew(p, i) == p = price /\ i = n + 1
<1>1. Queue(old, price) \in Seq(SyntheticOrder) /\ n \in Nat
  BY QueueFacts
<1>2. Queue(new, price) = Append(Queue(old, price), o)
  BY QueueFacts
<1>3. old.next_order_id \in Nat
  BY DEF IsShadowBook
<1>4. id(price, n + 1) = old.next_order_id /\ Len(Queue(new, price)) = n + 1
  BY <1>1, <1>2
<1>5. ASSUME NEW p \in DOMAIN new.levels, NEW i \in 1 .. Len(Queue(new, p)),
             ~IsNew(p, i)
      PROVE  /\ p \in DOMAIN old.levels
             /\ i \in 1 .. Len(Queue(old, p))
             /\ id(p, i) = Queue(old, p)[i].order_id
  <2>1. p \in Prices
    BY LevelFacts
  <2>2. CASE p = price
    <3>1. i \in 1 .. n
      BY <1>1, <1>4, <1>5, <2>2
    <3>2. Queue(new, p)[i] = Queue(old, p)[i]
      BY <1>1, <1>2, <2>2, <3>1
    <3>3. p \in DOMAIN old.levels
      BY <2>2, <3>1, QueueFacts
    <3>4. QED
      BY <2>2, <3>1, <3>2, <3>3
  <2>3. CASE p # price
    <3>1. p \in DOMAIN old.levels /\ new.levels[p] = old.levels[p]
      BY <2>3
    <3>2. Queue(new, p) = Queue(old, p)
      BY <2>1, <3>1, QueueFacts
    <3>3. QED
      BY <3>1, <3>2
  <2>4. QED
    BY <2>2, <2>3
<1>6. ASSUME NEW p \in DOMAIN new.levels, NEW i \in 1 .. Len(Queue(new, p)),
             ~IsNew(p, i)
      PROVE  id(p, i) \in Nat /\ id(p, i) < old.next_order_id
  <2>1. /\ p \in DOMAIN old.levels
        /\ i \in 1 .. Len(Queue(old, p))
        /\ id(p, i) = Queue(old, p)[i].order_id
    BY <1>5, <1>6
  <2>2. Queue(old, p)[i] \in SyntheticOrder
    BY <2>1, LevelFacts, OrdersHaveQty
  <2>3. Queue(old, p)[i].order_id < old.next_order_id
    BY <2>1 DEF IdsAscend
  <2>4. QED
    BY <2>1, <2>2, <2>3 DEF SyntheticOrder
<1> HIDE DEF n
<1>7. ASSUME NEW p \in DOMAIN new.levels, NEW i \in 1 .. Len(Queue(new, p))
      PROVE  id(p, i) < new.next_order_id
  <2>1. CASE IsNew(p, i)
    BY <1>3, <1>4, <2>1
  <2>2. CASE ~IsNew(p, i)
    BY <1>3, <1>6, <2>2
  <2>3. QED
    BY <2>1, <2>2
<1>8. ASSUME NEW p \in DOMAIN new.levels, NEW i \in 1 .. Len(Queue(new, p)),
             NEW j \in 1 .. Len(Queue(new, p)), i < j
      PROVE  id(p, i) < id(p, j)
  <2>1. ~IsNew(p, i)
    BY <1>1, <1>4, <1>8
  <2>2. CASE IsNew(p, j)
    BY <1>4, <1>6, <2>1, <2>2
  <2>3. CASE ~IsNew(p, j)
    <3>1. /\ p \in DOMAIN old.levels
          /\ i \in 1 .. Len(Queue(old, p)) /\ id(p, i) = Queue(old, p)[i].order_id
          /\ j \in 1 .. Len(Queue(old, p)) /\ id(p, j) = Queue(old, p)[j].order_id
      BY <1>5, <2>1, <2>3
    <3>2. QED
      BY <1>8, <3>1 DEF IdsAscend
  <2>4. QED
    BY <2>2, <2>3
<1>9. ASSUME NEW p \in DOMAIN new.levels, NEW i \in 1 .. Len(Queue(new, p)),
             NEW s \in DOMAIN new.levels \ {p}, NEW j \in 1 .. Len(Queue(new, s))
      PROVE  id(s, j) # id(p, i)
  <2>1. CASE IsNew(p, i)
    <3>1. ~IsNew(s, j)
      BY <2>1
    <3>2. QED
      BY <1>3, <1>4, <1>6, <2>1, <3>1
  <2>2. CASE IsNew(s, j)
    <3>1. ~IsNew(p, i)
      BY <2>2
    <3>2. QED
      BY <1>3, <1>4, <1>6, <2>2, <3>1
  <2>3. CASE ~IsNew(p, i) /\ ~IsNew(s, j)
    <3>1. /\ p \in DOMAIN old.levels /\ s \in DOMAIN old.levels
          /\ i \in 1 .. Len(Queue(old, p)) /\ id(p, i) = Queue(old, p)[i].order_id
          /\ j \in 1 .. Len(Queue(old, s)) /\ id(s, j) = Queue(old, s)[j].order_id
      BY <1>5, <2>3
    <3>2. QED
      BY <3>1 DEF IdsAscend
  <2>4. QED
    BY <2>1, <2>2, <2>3
<1>10. QED
  BY <1>7, <1>8, <1>9 DEF IdsAscend
=============================================================================
