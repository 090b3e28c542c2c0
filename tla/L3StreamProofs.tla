---------------------------- MODULE L3StreamProofs ---------------------------
(***************************************************************************)
(* The correlator implements the abstract event stream (L3Stream), for     *)
(* every value of the constants.  The heart of it is a queue by queue      *)
(* fact: the pieces that consume() emits, replayed one by one against the  *)
(* queue, lead to the queue that consume() leaves -- also when a fill and  *)
(* a cancel are consumed one after the other and their events are joined.  *)
(***************************************************************************)
EXTENDS CorrelatorStream, CorrelatorProofs

(* f lists the queues between `old` and `new` as the events are replayed.  *)
IsReplay(f, old, events, new) ==
    /\ f = [i \in 0 .. Len(events) |-> f[i]]
    /\ f[0] = old
    /\ f[Len(events)] = new
    /\ \A i \in 1 .. Len(events) :
         /\ Stream!NamesHead(f[i - 1], events[i])
         /\ f[i] = Stream!TakeFromHead(f[i - 1], events[i].qty)

(* The recursive definition of the abstract specification computes it.     *)
LEMMA ReplayComputes ==
    ASSUME NEW f, NEW old, NEW events, NEW new, Len(events) \in Nat,
           IsReplay(f, old, events, new)
    PROVE  Stream!Replays(old, events, new)
<1> DEFINE n == Len(events)
           Rec(c) == [i \in 0 .. n |-> IF i = 0 THEN old
                        ELSE Stream!TakeFromHead(c[i - 1], events[i].qty)]
           C == CHOOSE c : c = Rec(c)
<1>0. /\ n \in Nat
      /\ f = [i \in 0 .. n |-> f[i]]
      /\ f[0] = old /\ f[n] = new
      /\ \A i \in 1 .. n : /\ Stream!NamesHead(f[i - 1], events[i])
                          /\ f[i] = Stream!TakeFromHead(f[i - 1], events[i].qty)
  BY DEF IsReplay
<1>1. f = Rec(f)
  <2>1. ASSUME NEW i \in 0 .. n
        PROVE  f[i] = IF i = 0 THEN old
                      ELSE Stream!TakeFromHead(f[i - 1], events[i].qty)
    <3>1. i = 0 \/ i \in 1 .. n
      BY <1>0
    <3>2. QED
      BY <1>0, <3>1, Zenon
  <2>2. [i \in 0 .. n |-> f[i]] = Rec(f)
    BY <2>1, Zenon
  <2>3. QED
    BY <1>0, <2>2, Zenon
<1>2. C = Rec(C)
  BY <1>1, Zenon
<1>3. Stream!Replay(old, events) = C
  BY Zenon DEF Stream!Replay
<1> HIDE DEF C
<1>4. C[0] = old /\ \A i \in 1 .. n : C[i] = Stream!TakeFromHead(C[i - 1], events[i].qty)
  BY <1>2
<1>5. \A i \in 0 .. n : C[i] = f[i]
  <2> DEFINE S == {m \in Nat : m <= n => C[m] = f[m]}
  <2>1. 0 \in S
    BY <1>0, <1>4
  <2>2. ASSUME NEW m \in S PROVE m + 1 \in S
    <3>1. SUFFICES ASSUME m + 1 <= n PROVE C[m + 1] = f[m + 1]
      OBVIOUS
    <3>2. m \in Nat /\ C[m] = f[m] /\ m + 1 \in 1 .. n /\ (m + 1) - 1 = m
      BY <1>0, <3>1
    <3>3. QED
      BY <1>0, <1>4, <3>2
  <2>3. S = Nat
    <3> HIDE DEF S
    <3>1. S \in SUBSET Nat
      BY DEF S
    <3>2. QED
      BY <2>1, <2>2, <3>1, NatInductionOnSet
  <2>4. QED
    BY <2>3
<1>6. \A i \in 1 .. n : i \in 0 .. n /\ i - 1 \in 0 .. n
  OBVIOUS
<1>7. \A i \in 1 .. n : Stream!NamesHead(C[i - 1], events[i])
  BY <1>0, <1>5, <1>6
<1>8. new = C[n]
  BY <1>0, <1>5
<1>9. QED
  BY <1>3, <1>7, <1>8 DEF Stream!Replays

(* Only the ids and the quantities of the events matter.                   *)
LEMMA ReplayOfSamePieces ==
    ASSUME NEW f, NEW old, NEW events, NEW new, NEW other,
           IsReplay(f, old, events, new), Len(events) \in Nat, Len(other) = Len(events),
           \A i \in 1 .. Len(events) : /\ other[i].order_id = events[i].order_id
                                       /\ other[i].qty = events[i].qty
    PROVE  IsReplay(f, old, other, new)
BY DEF IsReplay, Stream!NamesHead

(* Two replays, one after the other.                                       *)
LEMMA ReplayOfConcat ==
    ASSUME NEW f, NEW g, NEW a, NEW b, NEW c, NEW T, NEW e \in Seq(T), NEW d \in Seq(T),
           IsReplay(f, a, e, b), IsReplay(g, b, d, c)
    PROVE  \E h : IsReplay(h, a, e \o d, c)
<1> DEFINE m == Len(e)
           n == Len(d)
           h == [i \in 0 .. m + n |-> IF i <= m THEN f[i] ELSE g[i - m]]
<1>1. /\ m \in Nat /\ n \in Nat /\ Len(e \o d) = m + n
      /\ \A i \in 1 .. m : (e \o d)[i] = e[i]
      /\ \A i \in m + 1 .. m + n : (e \o d)[i] = d[i - m]
  OBVIOUS
<1>2. \A i \in 0 .. m : h[i] = f[i]
  BY <1>1
<1>3. \A i \in m .. m + n : h[i] = g[i - m]
  <2>1. f[m] = g[0]
    BY DEF IsReplay
  <2>2. ASSUME NEW i \in m .. m + n PROVE h[i] = g[i - m]
    <3>1. CASE i = m
      BY <1>1, <1>2, <2>1, <3>1
    <3>2. CASE i # m
      BY <1>1, <3>2
    <3>3. QED
      BY <3>1, <3>2
  <2>3. QED
    BY <2>2
<1>4. h = [i \in 0 .. m + n |-> h[i]]
  OBVIOUS
<1> HIDE DEF h
<1>5. h[0] = a /\ h[m + n] = c
  <2>1. f[0] = a /\ g[n] = c
    BY DEF IsReplay
  <2>2. 0 \in 0 .. m /\ m + n \in m .. m + n /\ (m + n) - m = n
    BY <1>1
  <2>3. QED
    BY <1>2, <1>3, <2>1, <2>2
<1>6. ASSUME NEW i \in 1 .. m + n
      PROVE  /\ Stream!NamesHead(h[i - 1], (e \o d)[i])
             /\ h[i] = Stream!TakeFromHead(h[i - 1], (e \o d)[i].qty)
  <2>1. CASE i <= m
    <3>1. i \in 1 .. m /\ i \in 0 .. m /\ i - 1 \in 0 .. m
      BY <1>1, <2>1
    <3>2. h[i] = f[i] /\ h[i - 1] = f[i - 1] /\ (e \o d)[i] = e[i]
      BY <1>1, <1>2, <3>1
    <3>3. QED
      BY <3>1, <3>2 DEF IsReplay
  <2>2. CASE ~(i <= m)
    <3>1. /\ i \in m + 1 .. m + n /\ i \in m .. m + n /\ i - 1 \in m .. m + n
          /\ i - m \in 1 .. n /\ (i - 1) - m = (i - m) - 1
      BY <1>1, <2>2
    <3>2. h[i] = g[i - m] /\ h[i - 1] = g[(i - m) - 1] /\ (e \o d)[i] = d[i - m]
      BY <1>1, <1>3, <3>1
    <3>3. QED
      BY <3>1, <3>2 DEF IsReplay
  <2>3. QED
    BY <2>1, <2>2
<1>7. QED
  <2>1. IsReplay(h, a, e \o d, c)
    BY <1>1, <1>4, <1>5, <1>6 DEF IsReplay
  <2>2. QED
    BY <2>1

-----------------------------------------------------------------------------
(* What is left of a queue when its first i orders are gone.               *)
Behind(orders, i) == [j \in 1 .. Len(orders) - i |-> orders[i + j]]

LEMMA BehindFacts ==
    ASSUME NEW orders \in Seq(SyntheticOrder), NEW i \in 0 .. Len(orders)
    PROVE  /\ Behind(orders, i) \in Seq(SyntheticOrder)
           /\ Len(Behind(orders, i)) = Len(orders) - i
           /\ \A j \in 1 .. Len(orders) - i : Behind(orders, i)[j] = orders[i + j]
           /\ Behind(orders, 0) = orders
           /\ i < Len(orders) => Tail(Behind(orders, i)) = Behind(orders, i + 1)
<1> DEFINE n == Len(orders)
           b == Behind(orders, i)
<1>1. n \in Nat /\ \A j \in 1 .. n : orders[j] \in SyntheticOrder
  OBVIOUS
<1>2. b = [j \in 1 .. n - i |-> orders[i + j]]
  BY DEF Behind
<1> HIDE DEF b
<1>3. /\ n - i \in Nat
      /\ \A j \in 1 .. n - i : i + j \in 1 .. n
  BY <1>1
<1>4. b \in [1 .. n - i -> SyntheticOrder]
  BY <1>1, <1>2, <1>3
<1>5. b \in Seq(SyntheticOrder) /\ Len(b) = n - i
  BY <1>3, <1>4
<1>6. Behind(orders, 0) = orders
  BY DEF Behind
<1>7. ASSUME i < n PROVE Tail(b) = Behind(orders, i + 1)
  <2>1. /\ Tail(b) \in Seq(SyntheticOrder)
        /\ Len(Tail(b)) = n - (i + 1)
        /\ \A j \in 1 .. n - (i + 1) : Tail(b)[j] = b[j + 1]
    BY <1>3, <1>5, <1>7
  <2>2. \A j \in 1 .. n - (i + 1) : b[j + 1] = orders[(i + 1) + j]
    BY <1>1, <1>2
  <2> DEFINE t == Tail(b)
  <2>3. t = [j \in 1 .. n - (i + 1) |-> t[j]]
    <3>1. t \in Seq(SyntheticOrder) /\ Len(t) = n - (i + 1)
      BY <2>1
    <3> HIDE DEF t
    <3>2. QED
      BY <3>1
  <2>4. QED
    BY <2>1, <2>2, <2>3 DEF Behind
<1>8. QED
  BY <1>2, <1>5, <1>6, <1>7 DEF b

(* Taking some, but not all, of the order at the head.                     *)
LEMMA ReducedHead ==
    ASSUME NEW q \in Seq(SyntheticOrder), q # << >>, NEW m \in Nat, m < q[1].qty
    PROVE  [q EXCEPT ![1].qty = @ - m] =
             [j \in 1 .. Len(q) |-> IF j = 1 THEN [q[1] EXCEPT !.qty = @ - m] ELSE q[j]]
OBVIOUS

(* When no order is split, what is left is the rest of the queue.          *)
LEMMA LeftOfWholes ==
    ASSUME NEW orders \in Seq(SyntheticOrder), NEW qty \in Nat,
           PartOfNext(orders, qty) = 0
    PROVE  Left(orders, qty) = Behind(orders, FullyConsumed(orders, qty))
<1> DEFINE k == FullyConsumed(orders, qty)
           n == Len(orders)
           part == PartOfNext(orders, qty)
           left == Left(orders, qty)
<1>1. n \in Nat /\ k \in 0 .. n
  BY CutFacts
<1>2. left = [i \in 1 .. n - k |-> IF i = 1 THEN [orders[k + 1] EXCEPT !.qty = @ - part]
                                            ELSE orders[k + i]]
  BY Zenon DEF Left
<1>3. \A i \in 1 .. n : orders[i] \in SyntheticOrder
  OBVIOUS
<1> HIDE DEF left, k, part, n
<1>4. ASSUME NEW i \in 1 .. n - k PROVE left[i] = orders[k + i]
  <2>1. CASE i = 1
    <3>1. k + 1 \in 1 .. n
      BY <1>1, <2>1
    <3>2. orders[k + 1] \in SyntheticOrder
      BY <1>3, <3>1
    <3>3. [orders[k + 1] EXCEPT !.qty = @ - 0] = orders[k + 1]
      BY <3>2, QtyModAssumption DEF SyntheticOrder, Qty
    <3>4. QED
      BY <1>2, <2>1, <3>3 DEF part
  <2>2. CASE i # 1
    BY <1>2, <2>2
  <2>3. QED
    BY <2>1, <2>2
<1>5. left = [i \in 1 .. n - k |-> left[i]]
  BY <1>2
<1>6. QED
  BY <1>4, <1>5 DEF Behind, n, k, left

(* The pieces of Taken, replayed, lead from the queue to what Left leaves. *)
LEMMA TakenReplays ==
    ASSUME NEW orders \in Seq(SyntheticOrder), NEW qty \in Nat
    PROVE  \E f : IsReplay(f, orders, Taken(orders, qty), Left(orders, qty))
<1> DEFINE k == FullyConsumed(orders, qty)
           n == Len(orders)
           part == PartOfNext(orders, qty)
           m == IF part > 0 THEN k + 1 ELSE k
           taken == Taken(orders, qty)
           left == Left(orders, qty)
           f == [i \in 0 .. m |-> IF i <= k THEN Behind(orders, i) ELSE left]
<1>1. /\ n \in Nat /\ k \in 0 .. n
      /\ part \in Nat
      /\ k < n => part < orders[k + 1].qty
      /\ k = n => part = 0
  <2> DEFINE c == Cumulative(orders)
  <2>1. /\ n \in Nat /\ k \in 0 .. n
        /\ k < n => part \in Nat /\ part < orders[k + 1].qty
        /\ k = n => part = 0
    BY CutFacts
  <2> HIDE DEF k, n, part
  <2>2. QED
    BY <2>1
<1>2. \A i \in 1 .. n : orders[i] \in SyntheticOrder /\ orders[i].qty \in Nat \ {0}
  BY OrdersHaveQty
<1>3. taken = [i \in 1 .. m |-> IF i <= k THEN orders[i]
                                          ELSE [orders[i] EXCEPT !.qty = part]]
  BY Zenon DEF Taken
<1>4. left = [i \in 1 .. n - k |-> IF i = 1 THEN [orders[k + 1] EXCEPT !.qty = @ - part]
                                            ELSE orders[k + i]]
  BY Zenon DEF Left
<1>5. /\ taken \in Seq(SyntheticOrder) /\ left \in Seq(SyntheticOrder)
  BY TakenFacts, LeftFacts
<1> HIDE DEF taken, left, k, n, part
<1>6. m \in 0 .. n /\ m \in Nat /\ Len(taken) = m
  BY <1>1, <1>3
<1>7. part = 0 => left = Behind(orders, k)
  BY LeftOfWholes DEF left, k, part
<1>8. f[0] = orders
  BY <1>1, <1>6, BehindFacts DEF n
<1>9. f[m] = left
  BY <1>1, <1>6, <1>7
<1>10. ASSUME NEW i \in 1 .. m
       PROVE  /\ Stream!NamesHead(f[i - 1], taken[i])
              /\ f[i] = Stream!TakeFromHead(f[i - 1], taken[i].qty)
  <2> DEFINE q == f[i - 1]
  <2>1. /\ q = Behind(orders, i - 1) /\ i \in 1 .. n /\ i - 1 \in 0 .. n /\ i - 1 < n
    BY <1>1, <1>6
  <2> HIDE DEF q, f
  <2>2. /\ q \in Seq(SyntheticOrder) /\ Len(q) = n - (i - 1)
        /\ \A j \in 1 .. n - (i - 1) : q[j] = orders[(i - 1) + j]
        /\ Tail(q) = Behind(orders, (i - 1) + 1)
    <3>1. i - 1 \in 0 .. Len(orders) /\ i - 1 < Len(orders)
      BY <2>1 DEF n
    <3>2. QED
      BY <2>1, <3>1, BehindFacts DEF n
  <2>3. q # << >> /\ q[1] = orders[i] /\ orders[i] \in SyntheticOrder
    <3>1. 1 \in 1 .. n - (i - 1) /\ (i - 1) + 1 = i
      BY <1>1, <2>1
    <3>2. QED
      BY <1>2, <2>1, <2>2, <3>1
  <2>4. orders[i].qty \in Nat \ {0}
    BY <1>2, <2>1
  <2>5. CASE i <= k
    <3>1. taken[i] = orders[i] /\ f[i] = Behind(orders, i)
      BY <1>3, <2>5 DEF f
    <3>2. f[i] = Tail(q)
      BY <2>1, <2>2, <3>1
    <3>3. Stream!TakeFromHead(q, taken[i].qty) = Tail(q)
      BY <2>3, <3>1 DEF Stream!TakeFromHead
    <3>4. Stream!NamesHead(q, taken[i])
      BY <2>3, <2>4, <3>1 DEF Stream!NamesHead
    <3>5. QED
      BY <3>2, <3>3, <3>4 DEF q
  <2>6. CASE ~(i <= k)
    <3>1. i = k + 1 /\ m = k + 1 /\ part > 0 /\ k < n
      BY <1>1, <1>6, <2>6
    <3>2. f[i] = left /\ part < orders[i].qty
      BY <1>1, <3>1 DEF f
    <3>3. taken[i] = [orders[i] EXCEPT !.qty = part]
      BY <1>1, <1>3, <2>6
    <3>4. taken[i].order_id = orders[i].order_id /\ taken[i].qty = part
      BY <2>3, <3>3 DEF SyntheticOrder
    <3>5. Stream!NamesHead(q, taken[i])
      BY <1>1, <2>3, <2>4, <3>1, <3>2, <3>4 DEF Stream!NamesHead
    <3>6. Stream!TakeFromHead(q, taken[i].qty) = [q EXCEPT ![1].qty = @ - part]
      BY <1>1, <2>3, <2>4, <3>2, <3>4 DEF Stream!TakeFromHead
    <3>7. [q EXCEPT ![1].qty = @ - part] =
            [j \in 1 .. Len(q) |-> IF j = 1 THEN [q[1] EXCEPT !.qty = @ - part] ELSE q[j]]
      BY <1>1, <2>2, <2>3, <3>2, ReducedHead
    <3>8. left = [j \in 1 .. Len(q) |->
                    IF j = 1 THEN [q[1] EXCEPT !.qty = @ - part] ELSE q[j]]
      <4>1. Len(q) = n - k /\ q[1] = orders[k + 1]
        BY <1>1, <2>2, <2>3, <3>1
      <4>2. \A j \in 1 .. n - k : q[j] = orders[k + j]
        BY <1>1, <2>2, <3>1
      <4>3. QED
        BY <1>4, <4>1, <4>2
    <3>9. QED
      BY <3>2, <3>5, <3>6, <3>7, <3>8 DEF q
  <2>7. QED
    BY <2>5, <2>6
<1>11. f = [i \in 0 .. m |-> f[i]]
  OBVIOUS
<1> HIDE DEF f
<1>12. IsReplay(f, orders, taken, left)
  BY <1>6, <1>8, <1>9, <1>10, <1>11 DEF IsReplay
<1>13. QED
  BY <1>12 DEF taken, left

-----------------------------------------------------------------------------
(* The events of consume() lead from the queue it finds to the queue it    *)
(* leaves, whether or not the price has a level and the level survives.    *)
LEMMA NothingReplays ==
    ASSUME NEW q
    PROVE  \E f : IsReplay(f, q, << >>, q)
<1> DEFINE f == [i \in 0 .. 0 |-> q]
<1>1. /\ Len(<< >>) = 0 /\ f[0] = q /\ f = [i \in 0 .. 0 |-> f[i]]
      /\ 1 .. 0 = {}
  OBVIOUS
<1> HIDE DEF f
<1>2. IsReplay(f, q, << >>, q)
  BY <1>1 DEF IsReplay
<1>3. QED
  BY <1>2

LEMMA ConsumeReplays ==
    ASSUME NEW bk, IsShadowBook(bk), NEW price \in Prices, NEW qty \in Nat,
           NEW type, NEW ts, NEW id
    PROVE  LET r == Consume(bk, price, qty, type, ts, id)
           IN  \E f : IsReplay(f, Queue(bk, price), r.events, Queue(r.book, price))
<1> DEFINE r == Consume(bk, price, qty, type, ts, id)
           new == r.book
<1>1. /\ IsShadowBook(new)
      /\ price \in DOMAIN new.levels =>
           new.levels[price] =
             [total_qty |-> (bk.levels[price].total_qty - qty) % QtyMod,
              orders    |-> Left(bk.levels[price].orders, qty)]
      /\ price \in DOMAIN bk.levels \ DOMAIN new.levels =>
           Left(bk.levels[price].orders, qty) = << >>
  BY ConsumeFacts
<1>2. CASE price \notin DOMAIN bk.levels
  <2>1. r = [book |-> bk, events |-> << >>]
    BY <1>2 DEF Consume
  <2>2. r.book = bk /\ r.events = << >>
    BY <2>1
  <2> HIDE DEF r
  <2>3. QED
    BY <2>2, NothingReplays DEF r
<1>3. CASE price \in DOMAIN bk.levels
  <2> DEFINE orders == bk.levels[price].orders
             taken == Taken(orders, qty)
             tid == IF type = "OrderFill" THEN id ELSE 0
  <2>1. r.events = [i \in DOMAIN taken |->
                     [type |-> type, side |-> "Bid", order_id |-> taken[i].order_id,
                      price |-> price, qty |-> taken[i].qty, exchange_ts |-> ts,
                      trade_id |-> tid]]
    BY <1>3 DEF Consume
  <2>2. orders \in Seq(SyntheticOrder) /\ Queue(bk, price) = orders
    BY <1>3, LevelFacts
  <2>3. taken \in Seq(SyntheticOrder)
    BY <2>2, TakenFacts
  <2>4. PICK f : IsReplay(f, orders, taken, Left(orders, qty))
    BY <2>2, TakenReplays
  <2>5. Queue(new, price) = Left(orders, qty)
    <3> HIDE DEF new
    <3>1. price \in DOMAIN new.levels => new.levels[price].orders = Left(orders, qty)
      BY <1>1
    <3>2. QED
      BY <1>1, <1>3, <3>1, QueueFacts
  <2> HIDE DEF r, taken, orders, tid
  <2>6. /\ Len(taken) \in Nat /\ DOMAIN taken = 1 .. Len(taken)
    BY <2>3
  <2>7. /\ Len(r.events) = Len(taken)
        /\ \A i \in 1 .. Len(taken) : /\ r.events[i].order_id = taken[i].order_id
                                      /\ r.events[i].qty = taken[i].qty
    BY <2>1, <2>6
  <2>8. IsReplay(f, orders, r.events, Left(orders, qty))
    BY <2>4, <2>6, <2>7, ReplayOfSamePieces
  <2>9. QED
    BY <2>2, <2>5, <2>8 DEF r
<1>4. QED
  BY <1>2, <1>3

-----------------------------------------------------------------------------
(* The events of one consumption, seen as a stream: all of one type.       *)
OfType(events, type, price) ==
    /\ events \in Seq(L3Event)
    /\ \A i \in 1 .. Len(events) : events[i].type = type /\ events[i].price = price

LEMMA NothingOfType ==
    ASSUME NEW type, NEW price
    PROVE  OfType(<< >>, type, price)
<1>1. << >> \in Seq(L3Event) /\ 1 .. Len(<< >>) = {}
  OBVIOUS
<1>2. QED
  BY <1>1 DEF OfType

(* Fills followed by cancels, stamped with a side.                         *)
Stamp(events, side) == [i \in DOMAIN events |-> [events[i] EXCEPT !.side = side]]

LEMMA StampedEvents ==
    ASSUME NEW fills, NEW cancels, NEW price, NEW side \in Side, NEW stamped,
           OfType(fills, "OrderFill", price), OfType(cancels, "OrderCancel", price),
           stamped = Stamp(fills \o cancels, side)
    PROVE  /\ fills \o cancels \in Seq(L3Event)
           /\ Len(stamped) = Len(fills \o cancels)
           /\ \A i \in 1 .. Len(stamped) :
                /\ stamped[i].type \in {"OrderFill", "OrderCancel"}
                /\ stamped[i].side = side /\ stamped[i].price = price
                /\ stamped[i].order_id = (fills \o cancels)[i].order_id
                /\ stamped[i].qty = (fills \o cancels)[i].qty
           /\ \A i \in 1 .. Len(stamped), j \in 1 .. Len(stamped) :
                i < j /\ stamped[i].type = "OrderCancel" => stamped[j].type = "OrderCancel"
<1> DEFINE events == fills \o cancels
           m == Len(fills)
           n == Len(cancels)
<1>1. /\ fills \in Seq(L3Event) /\ cancels \in Seq(L3Event)
      /\ m \in Nat /\ n \in Nat
      /\ \A i \in 1 .. m : fills[i].type = "OrderFill" /\ fills[i].price = price
      /\ \A i \in 1 .. n : cancels[i].type = "OrderCancel" /\ cancels[i].price = price
  BY DEF OfType
<1>2. /\ events \in Seq(L3Event) /\ Len(events) = m + n
      /\ DOMAIN events = 1 .. m + n
      /\ \A i \in 1 .. m : events[i] = fills[i]
      /\ \A i \in m + 1 .. m + n : events[i] = cancels[i - m]
  BY <1>1
<1> HIDE DEF events, m, n
<1> DEFINE N == m + n
<1>3. N \in Nat /\ stamped = [i \in 1 .. N |-> [events[i] EXCEPT !.side = side]]
  BY <1>1, <1>2 DEF events, Stamp
<1> HIDE DEF N
<1>4. Len(stamped) = m + n
  BY <1>3 DEF N
<1>5. ASSUME NEW i \in 1 .. m + n
      PROVE  /\ stamped[i].type = events[i].type /\ stamped[i].price = events[i].price
             /\ stamped[i].order_id = events[i].order_id
             /\ stamped[i].qty = events[i].qty /\ stamped[i].side = side
  <2>1. events[i] \in L3Event
    BY <1>2
  <2>2. stamped[i] = [events[i] EXCEPT !.side = side]
    BY <1>3 DEF N
  <2>3. QED
    BY <2>1, <2>2 DEF L3Event
<1>6. ASSUME NEW i \in 1 .. m + n
      PROVE  /\ events[i].price = price
             /\ i <= m => events[i].type = "OrderFill"
             /\ ~(i <= m) => events[i].type = "OrderCancel"
  <2>1. CASE i <= m
    BY <1>1, <1>2, <2>1
  <2>2. CASE ~(i <= m)
    <3>1. i \in m + 1 .. m + n /\ i - m \in 1 .. n
      BY <1>1, <2>2
    <3>2. QED
      BY <1>1, <1>2, <2>2, <3>1
  <2>3. QED
    BY <2>1, <2>2
<1>7. ASSUME NEW i \in 1 .. m + n, NEW j \in 1 .. m + n, i < j,
             stamped[i].type = "OrderCancel"
      PROVE  stamped[j].type = "OrderCancel"
  <2>1. ~(i <= m)
    BY <1>5, <1>6, <1>7
  <2>2. ~(j <= m)
    BY <1>1, <1>7, <2>1
  <2>3. QED
    BY <1>5, <1>6, <2>2
<1>8. \A i \in 1 .. m + n : stamped[i].type \in {"OrderFill", "OrderCancel"}
  BY <1>5, <1>6
<1>9. \A i \in 1 .. m + n :
         /\ stamped[i].side = side /\ stamped[i].price = price
         /\ stamped[i].order_id = events[i].order_id
         /\ stamped[i].qty = events[i].qty
  BY <1>5, <1>6
<1>10. events \in Seq(L3Event) /\ Len(events) = m + n
  BY <1>2
<1>11. QED
  BY <1>4, <1>7, <1>8, <1>9, <1>10 DEF events

(* process_decrease() as a stream: fills, then cancels, that lead from the *)
(* queue it finds to the queue it leaves.                                  *)
LEMMA DecreaseReplays ==
    ASSUME NEW bk, IsShadowBook(bk), NEW buffer, IsTradeBuffer(buffer),
           NEW ts \in Timestamps, NEW price \in Prices, NEW d \in Qty, NEW side \in Side
    PROVE  LET r == ProcessDecrease(bk, buffer, ts, price, d, side)
           IN  /\ \E f : IsReplay(f, Queue(bk, price), r.events, Queue(r.book, price))
               /\ \A i \in 1 .. Len(r.events) :
                    /\ r.events[i].type \in {"OrderFill", "OrderCancel"}
                    /\ r.events[i].side = side /\ r.events[i].price = price
               /\ \A i \in 1 .. Len(r.events), j \in 1 .. Len(r.events) :
                    i < j /\ r.events[i].type = "OrderCancel" =>
                        r.events[j].type = "OrderCancel"
<1> DEFINE trade    == ConsumeTrade(buffer, ts, price, d)
           cancel   == d - trade.qty
           filled   == IF trade.qty > 0
                       THEN Consume(bk, price, trade.qty, "OrderFill", ts, trade.trade_id)
                       ELSE [book |-> bk, events |-> << >>]
           canceled == IF cancel > 0
                       THEN Consume(filled.book, price, cancel, "OrderCancel", ts, 0)
                       ELSE [book |-> filled.book, events |-> << >>]
           r        == ProcessDecrease(bk, buffer, ts, price, d, side)
<1>1. /\ trade.qty \in Qty /\ trade.qty <= d
      /\ trade.trade_id \in TradeIds \cup {0}
  BY ConsumeTradeFacts
<1>2. /\ r.book = canceled.book
      /\ r.events = [i \in DOMAIN (filled.events \o canceled.events) |->
                       [(filled.events \o canceled.events)[i] EXCEPT !.side = side]]
  BY DEF ProcessDecrease
<1> HIDE DEF r, trade
<1>3. trade.qty \in Nat /\ cancel \in Nat
  BY <1>1, QtyModAssumption DEF Qty
<1>4. "OrderFill" \in EventType /\ "OrderCancel" \in EventType
  BY DEF EventType
<1>5. /\ IsShadowBook(filled.book)
      /\ OfType(filled.events, "OrderFill", price)
      /\ \E f : IsReplay(f, Queue(bk, price), filled.events, Queue(filled.book, price))
  <2>1. CASE trade.qty > 0
    <3>1. filled = Consume(bk, price, trade.qty, "OrderFill", ts, trade.trade_id)
      BY <2>1
    <3> HIDE DEF filled
    <3>2. IsShadowBook(filled.book)
      BY <1>3, <3>1, ConsumeFacts
    <3>3. OfType(filled.events, "OrderFill", price)
      BY <1>1, <1>3, <1>4, <3>1, ConsumeEvents DEF OfType
    <3>4. \E f : IsReplay(f, Queue(bk, price), filled.events, Queue(filled.book, price))
      BY <1>3, <3>1, ConsumeReplays
    <3>5. QED
      BY <3>2, <3>3, <3>4
  <2>2. CASE ~(trade.qty > 0)
    <3>1. filled.book = bk /\ filled.events = << >>
      BY <2>2
    <3> HIDE DEF filled
    <3>2. QED
      BY <3>1, NothingOfType, NothingReplays
  <2>3. QED
    BY <2>1, <2>2
<1> HIDE DEF filled
<1>6. /\ OfType(canceled.events, "OrderCancel", price)
      /\ \E f : IsReplay(f, Queue(filled.book, price), canceled.events,
                         Queue(canceled.book, price))
  <2>1. CASE cancel > 0
    <3>1. canceled = Consume(filled.book, price, cancel, "OrderCancel", ts, 0)
      BY <2>1
    <3> HIDE DEF canceled, cancel
    <3>2. 0 \in TradeIds \cup {0}
      OBVIOUS
    <3>3. OfType(canceled.events, "OrderCancel", price)
      BY <1>3, <1>4, <1>5, <3>1, <3>2, ConsumeEvents DEF OfType
    <3>4. \E f : IsReplay(f, Queue(filled.book, price), canceled.events,
                         Queue(canceled.book, price))
      BY <1>3, <1>5, <3>1, ConsumeReplays
    <3>5. QED
      BY <3>3, <3>4
  <2>2. CASE ~(cancel > 0)
    <3>1. canceled.book = filled.book /\ canceled.events = << >>
      BY <2>2
    <3> HIDE DEF canceled, cancel
    <3>2. QED
      BY <3>1, NothingOfType, NothingReplays
  <2>3. QED
    BY <2>1, <2>2
<1> DEFINE fills   == filled.events
           cancels == canceled.events
<1>7. fills \in Seq(L3Event) /\ cancels \in Seq(L3Event)
  BY <1>5, <1>6 DEF OfType
<1>8. \E f : IsReplay(f, Queue(bk, price), fills \o cancels, Queue(canceled.book, price))
  <2> HIDE DEF canceled
  <2>1. PICK f : IsReplay(f, Queue(bk, price), fills, Queue(filled.book, price))
    BY <1>5
  <2>2. PICK g : IsReplay(g, Queue(filled.book, price), cancels,
                          Queue(canceled.book, price))
    BY <1>6
  <2> HIDE DEF fills, cancels
  <2>3. QED
    BY <1>7, <2>1, <2>2, ReplayOfConcat
<1>9. /\ fills \o cancels \in Seq(L3Event)
      /\ Len(r.events) = Len(fills \o cancels)
      /\ \A i \in 1 .. Len(r.events) :
           /\ r.events[i].type \in {"OrderFill", "OrderCancel"}
           /\ r.events[i].side = side /\ r.events[i].price = price
           /\ r.events[i].order_id = (fills \o cancels)[i].order_id
           /\ r.events[i].qty = (fills \o cancels)[i].qty
      /\ \A i \in 1 .. Len(r.events), j \in 1 .. Len(r.events) :
           i < j /\ r.events[i].type = "OrderCancel" => r.events[j].type = "OrderCancel"
  <2>1. OfType(fills, "OrderFill", price) /\ OfType(cancels, "OrderCancel", price)
    BY <1>5, <1>6
  <2>2. r.events = Stamp(fills \o cancels, side)
    BY <1>2 DEF Stamp
  <2> HIDE DEF fills, cancels
  <2>3. QED
    BY <2>1, <2>2, StampedEvents
<1>10. \E f : IsReplay(f, Queue(bk, price), r.events, Queue(r.book, price))
  <2>1. PICK f : IsReplay(f, Queue(bk, price), fills \o cancels,
                          Queue(canceled.book, price))
    BY <1>8
  <2> HIDE DEF fills, cancels, canceled
  <2>2. Len(fills \o cancels) \in Nat
    BY <1>9
  <2>3. IsReplay(f, Queue(bk, price), r.events, Queue(canceled.book, price))
    BY <1>9, <2>1, <2>2, ReplayOfSamePieces
  <2>4. QED
    BY <1>2, <2>3
<1>11. QED
  BY <1>9, <1>10 DEF r

-----------------------------------------------------------------------------
(* The two kinds of step of on_l2_update(), in terms of queues and events: *)
(* one queue of one book changes, and ...                                  *)
OneQueue(side, price) ==
    /\ book' = [book EXCEPT ![side] = book'[side]]
    /\ IsShadowBook(book'[side])
    /\ \A p \in Prices \ {price} : Queue(book'[side], p) = Queue(book[side], p)

(* ... it gets one order more, the one of the only event, or               *)
Adding(side, price) ==
    /\ OneQueue(side, price)
    /\ book'[side].next_order_id = book[side].next_order_id + 1
    /\ out' \in Seq(L3Event) /\ Len(out') = 1
    /\ out'[1].type = "OrderAdd" /\ out'[1].side = side /\ out'[1].price = price
    /\ out'[1].order_id = book[side].next_order_id
    /\ Queue(book'[side], price) =
         Append(Queue(book[side], price),
                [order_id |-> out'[1].order_id, qty |-> out'[1].qty])

(* ... the events replayed lead from the old queue to the new one; without *)
(* any event the level can disappear.                                      *)
Replaying(side, price) ==
    /\ OneQueue(side, price)
    /\ book'[side].next_order_id = book[side].next_order_id
    /\ out' \in Seq(L3Event)
    /\ \A i \in 1 .. Len(out') : /\ out'[i].type \in {"OrderFill", "OrderCancel"}
                                 /\ out'[i].side = side /\ out'[i].price = price
    /\ \A i \in 1 .. Len(out'), j \in 1 .. Len(out') :
         i < j /\ out'[i].type = "OrderCancel" => out'[j].type = "OrderCancel"
    /\ \/ \E f : IsReplay(f, Queue(book[side], price), out', Queue(book'[side], price))
       \/ out' = << >> /\ price \notin DOMAIN book'[side].levels

(* A Delete does only that, nothing else does.                             *)
QueueTold(action, side, price) ==
    IF action = "Delete"
    THEN out' = << >> /\ Queue(book'[side], price) = << >>
    ELSE \E f : IsReplay(f, Queue(book[side], price), out', Queue(book'[side], price))

(* A Delete never adds an order: the total cannot grow.                    *)
LEMMA DeleteNeverAdds ==
    ASSUME IInv, NEW ts \in Timestamps, NEW price \in Prices, NEW new_qty \in L2Qtys,
           NEW side \in Side
    PROVE  ~Increase(ts, "Delete", price, new_qty, side)
<1> DEFINE total == LevelAt(book[side].levels, price).total_qty
           delta == Applied("Delete", price, new_qty, side).delta
<1>1. IsShadowBook(book[side])
  BY DEF IInv, TypeOK
<1>2. total \in Qty
  BY <1>1, LevelAtFacts
<1>3. delta = -total
  BY DEF Applied, Apply
<1> HIDE DEF total, delta
<1>4. ~(delta > 0)
  BY <1>2, <1>3, QtyModAssumption DEF Qty
<1>5. QED
  BY <1>4 DEF Increase, delta

LEMMA IncreaseAdds ==
    ASSUME IInv, NEW ts \in Timestamps, NEW action \in L2Action, NEW price \in Prices,
           NEW new_qty \in L2Qtys, NEW side \in Side,
           Increase(ts, action, price, new_qty, side)
    PROVE  Adding(side, price)
<1> DEFINE old == book[side]
           r   == Apply(old, action, price, new_qty)
           new == AddOrder(r.book, price, r.delta)
           o   == [order_id |-> old.next_order_id, qty |-> r.delta]
           ev  == [type |-> "OrderAdd", side |-> side,
                   order_id |-> r.book.next_order_id, price |-> price,
                   qty |-> r.delta, exchange_ts |-> ts, trade_id |-> 0]
<1>1. /\ r.delta > 0
      /\ book' = [book EXCEPT ![side] = new]
      /\ out' = <<ev>>
  BY DEF Increase, Applied
<1>2. IsShadowBook(old) /\ side \in DOMAIN book
  BY DEF IInv, TypeOK
<1>3. new_qty \in Qty
  BY InputAssumption
<1>4. /\ IsShadowBook(new)
      /\ new.next_order_id = old.next_order_id + 1
      /\ r.book.next_order_id = old.next_order_id
      /\ DOMAIN new.levels = DOMAIN old.levels \cup {price}
      /\ \A p \in DOMAIN old.levels \ {price} : new.levels[p] = old.levels[p]
      /\ new.levels[price].orders = Append(Queue(old, price), o)
  BY <1>1, <1>2, <1>3, IncreaseAppends
<1>5. book'[side] = new
  BY <1>1, <1>2
<1>6. /\ ev.type = "OrderAdd" /\ ev.side = side /\ ev.price = price
      /\ ev.order_id = old.next_order_id /\ ev.qty = r.delta
  BY <1>4
<1>7. o = [order_id |-> ev.order_id, qty |-> ev.qty]
  BY <1>6
<1>8. out' \in Seq(L3Event)
  BY IncreaseStep DEF IInv, TypeOK
<1> HIDE DEF old, r, new, o, ev
<1>9. /\ Queue(new, price) = Append(Queue(old, price), o)
      /\ \A p \in Prices \ {price} : Queue(new, p) = Queue(old, p)
  BY <1>2, <1>4, QueueFacts
<1>10. Len(out') = 1 /\ out'[1] = ev
  BY <1>1
<1>11. OneQueue(side, price)
  BY <1>1, <1>4, <1>5, <1>9 DEF OneQueue, old
<1>12. QED
  BY <1>4, <1>5, <1>6, <1>7, <1>8, <1>9, <1>10, <1>11 DEF Adding, old

(* Both branches that do not add replay their events against the queue     *)
(* that apply() left: the old one, or none after a Delete.                 *)
LEMMA ReplayAfterApply ==
    ASSUME IInv, NEW ts \in Timestamps, NEW action \in L2Action, NEW price \in Prices,
           NEW new_qty \in L2Qtys, NEW side \in Side,
           Consumes(ts, action, price, new_qty, side),
           \E f : IsReplay(f, Queue(Apply(book[side], action, price, new_qty).book, price),
                           out', Queue(book'[side], price)),
           \A i \in 1 .. Len(out') : /\ out'[i].type \in {"OrderFill", "OrderCancel"}
                                     /\ out'[i].side = side /\ out'[i].price = price,
           \A i \in 1 .. Len(out'), j \in 1 .. Len(out') :
             i < j /\ out'[i].type = "OrderCancel" => out'[j].type = "OrderCancel"
    PROVE  Replaying(side, price) /\ QueueTold(action, side, price)
<1> DEFINE old == book[side]
           new == book'[side]
           mid == Apply(old, action, price, new_qty).book
<1>1. /\ book' = [book EXCEPT ![side] = new]
      /\ out' \in Seq(L3Event)
      /\ IsShadowBook(new)
      /\ new.next_order_id = mid.next_order_id
      /\ DOMAIN new.levels \subseteq DOMAIN mid.levels
      /\ DOMAIN mid.levels \subseteq DOMAIN new.levels \cup {price}
      /\ \A p \in DOMAIN new.levels \ {price} : new.levels[p] = mid.levels[p]
  BY DEF Consumes, ConsumedTo
<1>2. IsShadowBook(old)
  BY DEF IInv, TypeOK
<1>3. new_qty \in Qty
  BY InputAssumption
<1>4. /\ IsShadowBook(mid)
      /\ mid.next_order_id = old.next_order_id
      /\ \A p \in DOMAIN old.levels \ {price} :
           p \in DOMAIN mid.levels /\ mid.levels[p] = old.levels[p]
      /\ action = "Delete" => DOMAIN mid.levels = DOMAIN old.levels \ {price}
      /\ action # "Delete" =>
           /\ DOMAIN mid.levels = DOMAIN old.levels \cup {price}
           /\ mid.levels[price].orders = Queue(old, price)
  <2>1. /\ IsShadowBook(mid)
        /\ mid.next_order_id = old.next_order_id
        /\ \A p \in DOMAIN old.levels \ {price} :
             p \in DOMAIN mid.levels /\ mid.levels[p] = old.levels[p]
        /\ action = "Delete" => DOMAIN mid.levels = DOMAIN old.levels \ {price}
        /\ action # "Delete" =>
             /\ DOMAIN mid.levels = DOMAIN old.levels \cup {price}
             /\ mid.levels[price] =
                  [total_qty |-> new_qty, orders |-> LevelAt(old.levels, price).orders]
    BY <1>2, <1>3, ApplyFacts
  <2> HIDE DEF mid, old
  <2>2. QED
    BY <2>1 DEF Queue
<1>5. PICK f : IsReplay(f, Queue(mid, price), out', Queue(new, price))
  OBVIOUS
<1> HIDE DEF old, new, mid
<1>6. ASSUME NEW p \in Prices \ {price} PROVE Queue(new, p) = Queue(old, p)
  <2>1. p \in DOMAIN old.levels <=> p \in DOMAIN mid.levels
    BY <1>4
  <2>2. p \in DOMAIN mid.levels <=> p \in DOMAIN new.levels
    BY <1>1
  <2>3. CASE p \in DOMAIN old.levels
    <3>1. new.levels[p] = old.levels[p]
      BY <1>1, <1>4, <2>1, <2>2, <2>3
    <3>2. QED
      BY <1>1, <1>2, <2>1, <2>2, <2>3, <3>1, QueueFacts
  <2>4. CASE p \notin DOMAIN old.levels
    BY <1>1, <1>2, <2>1, <2>2, <2>4, QueueFacts
  <2>5. QED
    BY <2>3, <2>4
<1>7. CASE action # "Delete"
  <2>1. Queue(mid, price) = Queue(old, price)
    BY <1>4, <1>7, QueueFacts
  <2>2. \E g : IsReplay(g, Queue(old, price), out', Queue(new, price))
    BY <1>5, <2>1
  <2>3. Replaying(side, price)
    BY <1>1, <1>4, <1>6, <2>2 DEF Replaying, OneQueue, old, new
  <2>4. QED
    BY <1>7, <2>2, <2>3 DEF QueueTold, old, new
<1>8. CASE action = "Delete"
  <2>1. price \notin DOMAIN mid.levels /\ Queue(mid, price) = << >>
    BY <1>4, <1>8, QueueFacts
  <2>2. out' = << >>
    <3>1. SUFFICES ASSUME Len(out') # 0 PROVE FALSE
      BY <1>1
    <3>2. 1 \in 1 .. Len(out') /\ 1 - 1 = 0
      BY <1>1, <3>1
    <3>3. Stream!NamesHead(f[0], out'[1]) /\ f[0] = << >>
      BY <1>5, <2>1, <3>2 DEF IsReplay
    <3>4. QED
      BY <3>3 DEF Stream!NamesHead
  <2>3. price \notin DOMAIN new.levels
    BY <1>1, <2>1
  <2>4. Queue(new, price) = << >>
    BY <1>1, <2>3, QueueFacts
  <2>5. Replaying(side, price)
    BY <1>1, <1>4, <1>6, <2>2, <2>3 DEF Replaying, OneQueue, old, new
  <2>6. QED
    BY <1>8, <2>2, <2>4, <2>5 DEF QueueTold, new
<1>9. QED
  BY <1>7, <1>8

LEMMA DecreaseIsReplay ==
    ASSUME IInv, NEW ts \in Timestamps, NEW action \in L2Action, NEW price \in Prices,
           NEW new_qty \in L2Qtys, NEW side \in Side,
           Decrease(ts, action, price, new_qty, side)
    PROVE  Replaying(side, price) /\ QueueTold(action, side, price)
<1> DEFINE old == book[side]
           r   == Apply(old, action, price, new_qty)
           flushed == FlushTradesBefore(trade_buffer, ts)
           d       == -r.delta
           result  == ProcessDecrease(r.book, flushed, ts, price, d, side)
<1>1. Consumes(ts, action, price, new_qty, side)
  BY DecreaseConsumes
<1>2. /\ r.delta < 0
      /\ book' = [book EXCEPT ![side] = result.book]
      /\ out' = result.events
  BY DEF Decrease, Applied
<1>3. IsShadowBook(old) /\ side \in DOMAIN book
  BY DEF IInv, TypeOK
<1>4. new_qty \in Qty
  BY InputAssumption
<1>5. d \in Qty
  <2>1. r.delta <= 0
    BY <1>1 DEF Consumes
  <2>2. QED
    BY <1>3, <1>4, <2>1, DeltaFacts
<1>6. IsShadowBook(r.book)
  BY <1>3, <1>4, ApplyFacts
<1>7. IsTradeBuffer(flushed)
  BY FlushTradesType DEF IInv, TypeOK
<1>8. book'[side] = result.book
  BY <1>2, <1>3
<1> DEFINE mid == r.book
<1> HIDE DEF d, flushed, mid
<1>9. /\ \E f : IsReplay(f, Queue(mid, price), result.events, Queue(result.book, price))
      /\ \A i \in 1 .. Len(result.events) :
           /\ result.events[i].type \in {"OrderFill", "OrderCancel"}
           /\ result.events[i].side = side /\ result.events[i].price = price
      /\ \A i \in 1 .. Len(result.events), j \in 1 .. Len(result.events) :
           i < j /\ result.events[i].type = "OrderCancel" =>
               result.events[j].type = "OrderCancel"
  <2>1. IsShadowBook(mid) /\ result = ProcessDecrease(mid, flushed, ts, price, d, side)
    BY <1>6 DEF mid
  <2> HIDE DEF result
  <2>2. QED
    BY <1>5, <1>7, <2>1, DecreaseReplays
<1> HIDE DEF result
<1>10. /\ \E f : IsReplay(f, Queue(mid, price), out', Queue(book'[side], price))
       /\ \A i \in 1 .. Len(out') :
            /\ out'[i].type \in {"OrderFill", "OrderCancel"}
            /\ out'[i].side = side /\ out'[i].price = price
       /\ \A i \in 1 .. Len(out'), j \in 1 .. Len(out') :
            i < j /\ out'[i].type = "OrderCancel" => out'[j].type = "OrderCancel"
  BY <1>2, <1>8, <1>9
<1>11. QED
  BY <1>1, <1>10, ReplayAfterApply DEF mid

LEMMA NoChangeIsReplay ==
    ASSUME IInv, NEW ts \in Timestamps, NEW action \in L2Action, NEW price \in Prices,
           NEW new_qty \in L2Qtys, NEW side \in Side,
           NoChange(ts, action, price, new_qty, side)
    PROVE  Replaying(side, price) /\ QueueTold(action, side, price)
<1> DEFINE mid == Apply(book[side], action, price, new_qty).book
<1>1. Consumes(ts, action, price, new_qty, side)
  BY NoChangeConsumes
<1>2. book' = [book EXCEPT ![side] = mid] /\ out' = << >>
  BY DEF NoChange, Applied
<1>3. book'[side] = mid
  BY <1>2 DEF IInv, TypeOK
<1>4. 1 .. Len(out') = {}
  BY <1>2
<1>5. \E f : IsReplay(f, Queue(mid, price), out', Queue(book'[side], price))
  BY <1>2, <1>3, NothingReplays
<1>6. QED
  BY <1>1, <1>4, <1>5, ReplayAfterApply

-----------------------------------------------------------------------------
(* The same steps in the abstract specification.                           *)

LEMMA EventsHaveQty ==
    ASSUME NEW events \in Seq(L3Event)
    PROVE  HasQty(events) /\ \A i \in 1 .. Len(events) : events[i].qty \in Qty \ {0}
<1>1. /\ Len(events) \in Nat
      /\ \A i \in 1 .. Len(events) : events[i] \in L3Event
      /\ events = [i \in 1 .. Len(events) |-> events[i]]
  OBVIOUS
<1>2. \A ev \in L3Event : ev.qty \in Qty \ {0} /\ ev.qty \in Nat
  BY QtyModAssumption DEF L3Event, Qty
<1>3. QED
  BY <1>1, <1>2 DEF HasQty

LEMMA OneEvent ==
    ASSUME NEW events \in Seq(L3Event), Len(events) = 1
    PROVE  /\ events[1] \in L3Event
           /\ events[1].qty \in Qty /\ events[1].qty > 0
           /\ Resting(events) = events[1].qty
<1>1. events[1] \in L3Event
  OBVIOUS
<1>2. events[1].qty \in Qty /\ events[1].qty > 0 /\ events[1].qty \in Nat
  BY <1>1, QtyModAssumption DEF L3Event, Qty
<1>3. HasQty(events)
  BY EventsHaveQty
<1> DEFINE c == Cumulative(events)
<1>4. c[0] = 0 /\ \A i \in 1 .. 1 : c[i] = c[i - 1] + events[i].qty
  BY <1>3, CumulativeIsPartialSums DEF PartialSums
<1>5. Resting(events) = c[1]
  BY DEF Resting
<1> HIDE DEF c
<1>6. c[1] = events[1].qty
  BY <1>2, <1>4
<1>7. QED
  BY <1>1, <1>2, <1>5, <1>6

LEMMA QueuesAfter ==
    ASSUME IInv, NEW side \in Side, NEW price \in Prices, OneQueue(side, price)
    PROVE  /\ Queues' = [Queues EXCEPT ![side][price] = Queue(book'[side], price)]
           /\ \A s \in Side, p \in Prices : Queues[s][p] = Queue(book[s], p)
           /\ Queues'[side][price] = Queue(book'[side], price)
           /\ \A s \in Side, p \in Prices :
                s # side \/ p # price => Queue(book'[s], p) = Queue(book[s], p)
           /\ \A s \in Side : s # side => book'[s] = book[s]
<1>1. book \in [Side -> {book["Bid"], book["Ask"]}]
  BY DEF IInv, TypeOK
<1>2. /\ book' = [book EXCEPT ![side] = book'[side]]
      /\ \A p \in Prices \ {price} : Queue(book'[side], p) = Queue(book[side], p)
  BY DEF OneQueue
<1>3. \A s \in Side : s # side => book'[s] = book[s]
  BY <1>1, <1>2
<1>4. \A s \in Side, p \in Prices :
        s # side \/ p # price => Queue(book'[s], p) = Queue(book[s], p)
  BY <1>2, <1>3
<1>5. \A s \in Side, p \in Prices : Queues[s][p] = Queue(book[s], p)
  BY DEF Queues
<1>6. Queues' = [s \in Side |-> [p \in Prices |-> Queue(book'[s], p)]]
  BY DEF Queues
<1>7. [Queues EXCEPT ![side][price] = Queue(book'[side], price)] =
        [s \in Side |-> [p \in Prices |->
           IF s = side /\ p = price THEN Queue(book'[side], price) ELSE Queue(book[s], p)]]
  BY DEF Queues
<1>8. \A s \in Side, p \in Prices :
        Queue(book'[s], p) =
          IF s = side /\ p = price THEN Queue(book'[side], price) ELSE Queue(book[s], p)
  BY <1>4
<1>9. Queues' = [Queues EXCEPT ![side][price] = Queue(book'[side], price)]
  BY <1>6, <1>7, <1>8
<1>10. Queues'[side][price] = Queue(book'[side], price)
  BY <1>6
<1>11. QED
  BY <1>3, <1>4, <1>5, <1>9, <1>10

LEMMA AddingIsAdd ==
    ASSUME IInv, NEW side \in Side, NEW price \in Prices, Adding(side, price)
    PROVE  Stream!Add(side, price)
<1>1. /\ OneQueue(side, price)
      /\ book'[side].next_order_id = book[side].next_order_id + 1
      /\ out' \in Seq(L3Event) /\ Len(out') = 1
      /\ out'[1].type = "OrderAdd" /\ out'[1].side = side /\ out'[1].price = price
      /\ out'[1].order_id = book[side].next_order_id
      /\ Queue(book'[side], price) =
           Append(Queue(book[side], price),
                  [order_id |-> out'[1].order_id, qty |-> out'[1].qty])
  BY DEF Adding
<1> DEFINE o == [order_id |-> out'[1].order_id, qty |-> out'[1].qty]
<1>2. /\ Queues' = [Queues EXCEPT ![side][price] = Queue(book'[side], price)]
      /\ Queues[side][price] = Queue(book[side], price)
      /\ \A s \in Side : s # side => book'[s] = book[s]
  BY <1>1, QueuesAfter
<1>3. Queues' = [Queues EXCEPT ![side][price] = Append(@, o)]
  <2>1. Queue(book'[side], price) = Append(Queues[side][price], o)
    BY <1>1, <1>2
  <2> HIDE DEF o
  <2>2. QED
    BY <1>2, <2>1
<1>4. NextIds' = [NextIds EXCEPT ![side] = @ + 1]
  <2>1. NextIds' = [s \in Side |-> book'[s].next_order_id]
    BY DEF NextIds
  <2>2. [NextIds EXCEPT ![side] = @ + 1] =
          [s \in Side |-> IF s = side THEN book[side].next_order_id + 1
                                      ELSE book[s].next_order_id]
    BY DEF NextIds
  <2>3. \A s \in Side : book'[s].next_order_id =
          IF s = side THEN book[side].next_order_id + 1 ELSE book[s].next_order_id
    BY <1>1, <1>2
  <2>4. QED
    BY <2>1, <2>2, <2>3
<1>5. out'[1].order_id = NextIds[side] /\ out'[1].qty > 0
  BY <1>1, OneEvent DEF NextIds
<1>6. QED
  BY <1>1, <1>3, <1>4, <1>5 DEF Stream!Add

LEMMA ReplayingIsStream ==
    ASSUME IInv, NEW side \in Side, NEW price \in Prices, Replaying(side, price)
    PROVE  Stream!Take(side, price) \/ Stream!Drop(side, price) \/ Stream!Quiet
<1>1. /\ OneQueue(side, price)
      /\ book'[side].next_order_id = book[side].next_order_id
      /\ IsShadowBook(book'[side])
      /\ out' \in Seq(L3Event)
      /\ \A i \in 1 .. Len(out') : /\ out'[i].type \in {"OrderFill", "OrderCancel"}
                                   /\ out'[i].side = side /\ out'[i].price = price
      /\ \A i \in 1 .. Len(out'), j \in 1 .. Len(out') :
           i < j /\ out'[i].type = "OrderCancel" => out'[j].type = "OrderCancel"
  BY DEF Replaying, OneQueue
<1>2. /\ Queues' = [Queues EXCEPT ![side][price] = Queue(book'[side], price)]
      /\ Queues[side][price] = Queue(book[side], price)
      /\ Queues'[side][price] = Queue(book'[side], price)
      /\ \A s \in Side : s # side => book'[s] = book[s]
  BY <1>1, QueuesAfter
<1>3. Queues' = [Queues EXCEPT ![side][price] = Queues'[side][price]]
  BY <1>2
<1>4. NextIds' = NextIds
  <2>1. \A s \in Side : book'[s].next_order_id = book[s].next_order_id
    BY <1>1, <1>2
  <2>2. QED
    BY <2>1 DEF NextIds
<1>5. CASE out' = << >> /\ price \notin DOMAIN book'[side].levels
  <2>1. Queue(book'[side], price) = << >>
    BY <1>1, <1>5, QueueFacts
  <2>2. Stream!Drop(side, price)
    BY <1>2, <1>4, <1>5, <2>1 DEF Stream!Drop
  <2>3. QED
    BY <2>2
<1>6. CASE \E f : IsReplay(f, Queue(book[side], price), out', Queue(book'[side], price))
  <2>1. PICK f : IsReplay(f, Queue(book[side], price), out', Queue(book'[side], price))
    BY <1>6
  <2>2. CASE out' = << >>
    <3>1. Queue(book'[side], price) = Queue(book[side], price)
      BY <2>1, <2>2 DEF IsReplay
    <3>2. \A s \in Side, p \in Prices : Queue(book'[s], p) = Queue(book[s], p)
      BY <1>1, <3>1, QueuesAfter
    <3>3. Queues' = Queues
      BY <3>2 DEF Queues
    <3>4. QED
      BY <1>4, <2>2, <3>3 DEF Stream!Quiet
  <2>3. CASE out' # << >>
    <3>1. Len(out') \in Nat
      BY <1>1
    <3>2. Stream!Replays(Queue(book[side], price), out', Queue(book'[side], price))
      BY <2>1, <3>1, ReplayComputes
    <3>3. Stream!Replays(Queues[side][price], out', Queues'[side][price])
      BY <1>2, <3>2
    <3>4. Stream!Take(side, price)
      BY <1>1, <1>3, <1>4, <2>3, <3>3 DEF Stream!Take
    <3>5. QED
      BY <3>4
  <2>4. QED
    BY <2>2, <2>3
<1>7. QED
  BY <1>5, <1>6 DEF Replaying

LEMMA StepRefines ==
    ASSUME IInv, [Next]_vars
    PROVE  [Stream!Next]_<<Queues, NextIds, out>>
<1>1. CASE UNCHANGED vars
  BY <1>1 DEF vars, Queues, NextIds
<1>2. ASSUME NEW ts \in Timestamps, NEW price \in Prices, NEW qty \in TradeQtys,
             NEW id \in TradeIds \cup {0}, OnTrade(ts, price, qty, id)
      PROVE  Stream!Quiet
  <2>1. out' = << >> /\ book' = book
    BY <1>2 DEF OnTrade
  <2>2. QED
    BY <2>1 DEF Stream!Quiet, Queues, NextIds
<1>3. ASSUME NEW ts \in Timestamps, NEW action \in L2Action, NEW price \in Prices,
             NEW new_qty \in L2Qtys, NEW side \in Side,
             OnL2Update(ts, action, price, new_qty, side)
      PROVE  Stream!Next
  <2>0. Stream!Side = Side
    BY DEF Stream!Side, Side
  <2>1. CASE Increase(ts, action, price, new_qty, side)
    <3>1. Stream!Add(side, price)
      BY <2>1, IncreaseAdds, AddingIsAdd
    <3>2. QED
      BY <2>0, <3>1 DEF Stream!Next
  <2>2. CASE \/ Decrease(ts, action, price, new_qty, side)
             \/ NoChange(ts, action, price, new_qty, side)
    <3>1. Replaying(side, price)
      BY <2>2, DecreaseIsReplay, NoChangeIsReplay
    <3>2. Stream!Take(side, price) \/ Stream!Drop(side, price) \/ Stream!Quiet
      BY <3>1, ReplayingIsStream
    <3>3. QED
      BY <2>0, <3>2 DEF Stream!Next
  <2>3. QED
    BY <1>3, <2>1, <2>2 DEF OnL2Update
<1>4. QED
  BY <1>1, <1>2, <1>3 DEF Next, Stream!Next

LEMMA InitRefines ==
    ASSUME Init
    PROVE  Stream!Init
<1>1. book = [s \in Side |-> EmptyBook] /\ out = << >>
  BY DEF Init
<1>2. \A s \in Side : book[s] = EmptyBook
  BY <1>1
<1>3. \A s \in Side, p \in Prices : Queue(book[s], p) = << >>
  <2>1. DOMAIN EmptyBook.levels = {}
    BY DEF EmptyBook
  <2>2. QED
    BY <1>2, <2>1, EmptyBookFacts, QueueFacts
<1>4. \A s \in Side : book[s].next_order_id = 1
  BY <1>2 DEF EmptyBook
<1>5. Stream!Side = Side
  BY DEF Stream!Side, Side
<1>6. Queues = [s \in Stream!Side |-> [p \in Prices |-> << >>]]
  BY <1>3, <1>5 DEF Queues
<1>7. NextIds = [s \in Stream!Side |-> 1]
  BY <1>4, <1>5 DEF NextIds
<1>8. QED
  BY <1>1, <1>6, <1>7 DEF Stream!Init

(* The correlator implements the abstract stream: whoever replays the      *)
(* batches in order holds the queues of the books, order by order, except  *)
(* for the levels that a Delete drops without an event.                    *)
THEOREM StreamRefined == Spec => ImplementsStream
<1>1. Init => Stream!Init
  BY InitRefines
<1>2. IInv /\ [Next]_vars => [Stream!Next]_<<Queues, NextIds, out>>
  BY StepRefines
<1>3. QED
  BY Invariance, <1>1, <1>2, PTL DEF Spec, ImplementsStream, Stream!Spec

-----------------------------------------------------------------------------
(* What a replay adds up to: the volume that leaves the queue is the       *)
(* volume of the events.                                                   *)

LEMMA TakeIsLeft ==
    ASSUME NEW q \in Seq(SyntheticOrder), q # << >>, NEW d \in 1 .. q[1].qty
    PROVE  Stream!TakeFromHead(q, d) = Left(q, d)
<1> DEFINE k == FullyConsumed(q, d)
           n == Len(q)
           c == Cumulative(q)
           part == PartOfNext(q, d)
           left == Left(q, d)
<1>1. n \in Nat \ {0} /\ q[1] \in SyntheticOrder
  OBVIOUS
<1>2. /\ HasQty(q)
      /\ \A i \in 1 .. n : q[i].qty \in Nat \ {0}
  BY OrdersHaveQty
<1>3. d \in Nat \ {0} /\ d <= q[1].qty
  BY <1>1, <1>2
<1>4. /\ c \in [0 .. n -> Nat] /\ c[0] = 0
      /\ \A i \in 1 .. n : c[i] = c[i - 1] + q[i].qty
      /\ k \in 0 .. n
      /\ c[k] <= d
      /\ k < n => d < c[k + 1]
  BY <1>2, <1>3, CumulativeIsPartialSums, FullyConsumedFacts DEF PartialSums
<1>5. part = IF k < n THEN d - c[k] ELSE 0
  BY DEF PartOfNext
<1>6. left = [i \in 1 .. n - k |-> IF i = 1 THEN [q[k + 1] EXCEPT !.qty = @ - part]
                                            ELSE q[k + i]]
  BY Zenon DEF Left
<1>7. part = 0 => left = Behind(q, k)
  BY <1>3, LeftOfWholes
<1>8. \A i \in 0 .. n, j \in 0 .. n : i <= j => c[i] <= c[j]
  BY <1>2, CumulativeMonotone
<1>9. 0 \in 0 .. n /\ 0 < n /\ Tail(Behind(q, 0)) = Behind(q, 0 + 1) /\ Behind(q, 0) = q
  <2>1. 0 \in 0 .. n /\ 0 < n
    BY <1>1
  <2>2. QED
    BY <2>1, BehindFacts
<1>10. d < q[1].qty =>
         [q EXCEPT ![1].qty = @ - d] =
           [j \in 1 .. n |-> IF j = 1 THEN [q[1] EXCEPT !.qty = @ - d] ELSE q[j]]
  BY <1>3, ReducedHead
<1> HIDE DEF k, n, c, part, left
<1>11. c[1] = q[1].qty
  <2>1. 1 \in 1 .. n /\ 1 - 1 = 0
    BY <1>1
  <2>2. q[1].qty \in Nat
    BY <1>2, <2>1
  <2>3. QED
    BY <1>4, <2>1, <2>2
<1>12. CASE d = q[1].qty
  <2>1. k # 0
    BY <1>1, <1>4, <1>11, <1>12
  <2>2. ~(k >= 2)
    <3>1. SUFFICES ASSUME k >= 2 PROVE FALSE
      OBVIOUS
    <3>2. 2 \in 1 .. n /\ 2 \in 0 .. n /\ 2 - 1 = 1 /\ 1 \in 0 .. n
      BY <1>1, <1>4, <3>1
    <3>3. c[2] = c[1] + q[2].qty /\ q[2].qty \in Nat \ {0}
      BY <1>2, <1>4, <3>2
    <3>4. c[2] <= c[k] /\ c[k] \in Nat /\ c[1] \in Nat /\ c[2] \in Nat
      BY <1>4, <1>8, <3>1, <3>2
    <3>5. QED
      BY <1>3, <1>4, <1>11, <1>12, <3>3, <3>4
  <2>3. k = 1
    BY <1>1, <1>4, <2>1, <2>2
  <2>4. part = 0
    BY <1>3, <1>5, <1>11, <1>12, <2>3
  <2>5. left = Tail(q)
    BY <1>7, <1>9, <2>3, <2>4
  <2>6. QED
    BY <1>12, <2>5 DEF Stream!TakeFromHead, left
<1>13. CASE d # q[1].qty
  <2>1. d < q[1].qty
    BY <1>1, <1>2, <1>3, <1>13
  <2>2. k = 0
    <3>1. SUFFICES ASSUME k # 0 PROVE FALSE
      OBVIOUS
    <3>2. 1 \in 0 .. n /\ 1 <= k
      BY <1>1, <1>4, <3>1
    <3>3. c[1] <= c[k] /\ c[1] \in Nat /\ c[k] \in Nat
      BY <1>4, <1>8, <3>2
    <3>4. QED
      BY <1>3, <1>4, <1>11, <2>1, <3>3
  <2>3. part = d
    BY <1>1, <1>3, <1>4, <1>5, <2>2
  <2>4. left = [j \in 1 .. n |-> IF j = 1 THEN [q[1] EXCEPT !.qty = @ - d] ELSE q[j]]
    <3>1. n - 0 = n /\ 0 + 1 = 1 /\ \A j \in 1 .. n : 0 + j = j
      BY <1>1
    <3>2. QED
      BY <1>6, <2>2, <2>3, <3>1
  <2>5. Stream!TakeFromHead(q, d) = [q EXCEPT ![1].qty = @ - d]
    BY <1>13 DEF Stream!TakeFromHead
  <2>6. QED
    BY <1>10, <2>1, <2>4, <2>5 DEF left
<1>14. QED
  BY <1>12, <1>13

LEMMA TakeVolume ==
    ASSUME NEW q \in Seq(SyntheticOrder), NEW ev, Stream!NamesHead(q, ev)
    PROVE  /\ Stream!TakeFromHead(q, ev.qty) \in Seq(SyntheticOrder)
           /\ Resting(q) = Resting(Stream!TakeFromHead(q, ev.qty)) + ev.qty
<1> DEFINE d == ev.qty
           n == Len(q)
           c == Cumulative(q)
<1>1. q # << >> /\ d \in 1 .. q[1].qty
  BY DEF Stream!NamesHead
<1>2. HasQty(q) /\ q[1].qty \in Nat
  BY <1>1, OrdersHaveQty
<1>3. d \in Nat /\ d <= q[1].qty
  BY <1>1, <1>2
<1> HIDE DEF d
<1>4. Stream!TakeFromHead(q, d) = Left(q, d)
  BY <1>1, TakeIsLeft
<1>5. /\ Left(q, d) \in Seq(SyntheticOrder)
      /\ Resting(Left(q, d)) = IF d < Resting(q) THEN Resting(q) - d ELSE 0
  BY <1>3, LeftFacts, RestingLeft
<1>6. d <= Resting(q) /\ Resting(q) \in Nat
  <2>1. n \in Nat \ {0} /\ 1 \in 1 .. n /\ 1 \in 0 .. n /\ n \in 0 .. n /\ 1 - 1 = 0
    BY <1>1
  <2>2. c \in [0 .. n -> Nat] /\ c[0] = 0 /\ c[1] = c[0] + q[1].qty
    BY <1>2, <2>1, CumulativeIsPartialSums DEF PartialSums
  <2>3. c[1] <= c[n]
    BY <1>2, <2>1, CumulativeMonotone
  <2>4. Resting(q) = c[n]
    BY DEF Resting
  <2> HIDE DEF c, n
  <2>5. QED
    BY <1>2, <1>3, <2>1, <2>2, <2>3, <2>4
<1>7. QED
  BY <1>3, <1>4, <1>5, <1>6 DEF d

LEMMA ReplayVolume ==
    ASSUME NEW f, NEW old \in Seq(SyntheticOrder), NEW events, NEW new,
           HasQty(events), IsReplay(f, old, events, new)
    PROVE  /\ new \in Seq(SyntheticOrder)
           /\ Resting(old) = Resting(new) + Resting(events)
<1> DEFINE n == Len(events)
           c == Cumulative(events)
           R == Resting(old)
           S == {m \in Nat : m <= n => /\ f[m] \in Seq(SyntheticOrder)
                                       /\ R = Resting(f[m]) + c[m]}
<1>1. /\ n \in Nat
      /\ f[0] = old /\ f[n] = new
      /\ \A i \in 1 .. n : /\ Stream!NamesHead(f[i - 1], events[i])
                          /\ f[i] = Stream!TakeFromHead(f[i - 1], events[i].qty)
  BY DEF HasQty, IsReplay
<1>2. /\ c \in [0 .. n -> Nat] /\ c[0] = 0
      /\ \A i \in 1 .. n : c[i] = c[i - 1] + events[i].qty /\ events[i].qty \in Nat
  BY CumulativeIsPartialSums DEF PartialSums, HasQty
<1>3. R \in Nat /\ Resting(events) = c[n]
  BY OrdersHaveQty, RestingNat DEF Resting
<1> HIDE DEF n, c, R
<1>4. 0 \in S
  BY <1>1, <1>2, <1>3 DEF R
<1>5. ASSUME NEW m \in S PROVE m + 1 \in S
  <2>1. SUFFICES ASSUME m + 1 <= n
                 PROVE  /\ f[m + 1] \in Seq(SyntheticOrder)
                        /\ R = Resting(f[m + 1]) + c[m + 1]
    OBVIOUS
  <2>2. /\ m \in Nat /\ m + 1 \in 1 .. n /\ (m + 1) - 1 = m
        /\ f[m] \in Seq(SyntheticOrder) /\ R = Resting(f[m]) + c[m]
    BY <1>1, <2>1
  <2>3. /\ Stream!NamesHead(f[m], events[m + 1])
        /\ f[m + 1] = Stream!TakeFromHead(f[m], events[m + 1].qty)
        /\ c[m + 1] = c[m] + events[m + 1].qty /\ events[m + 1].qty \in Nat
    BY <1>1, <1>2, <2>2
  <2>4. /\ f[m + 1] \in Seq(SyntheticOrder)
        /\ Resting(f[m]) = Resting(f[m + 1]) + events[m + 1].qty
    BY <2>2, <2>3, TakeVolume
  <2>5. Resting(f[m + 1]) \in Nat /\ c[m] \in Nat
    <3>1. HasQty(f[m + 1])
      BY <2>4, OrdersHaveQty
    <3>2. m \in 0 .. n
      BY <1>1, <2>1, <2>2
    <3>3. QED
      BY <1>2, <3>1, <3>2, RestingNat
  <2>6. QED
    BY <2>2, <2>3, <2>4, <2>5
<1>6. S = Nat
  <2> HIDE DEF S
  <2>1. S \in SUBSET Nat
    BY DEF S
  <2>2. QED
    BY <1>4, <1>5, <2>1, NatInductionOnSet
<1>7. n \in S /\ n <= n
  BY <1>1, <1>6
<1>8. f[n] \in Seq(SyntheticOrder) /\ R = Resting(f[n]) + c[n]
  BY <1>7
<1>9. QED
  BY <1>1, <1>3, <1>8 DEF R

LEMMA StepExplainsVolume ==
    ASSUME IInv, [Next]_vars
    PROVE  BatchExplainsVolume \/ UNCHANGED vars
<1>1. ASSUME NEW ts \in Timestamps, NEW price \in Prices, NEW qty \in TradeQtys,
             NEW id \in TradeIds \cup {0}, OnTrade(ts, price, qty, id)
      PROVE  BatchExplainsVolume
  BY <1>1 DEF OnTrade, BatchExplainsVolume, VolumeTold
<1>2. ASSUME NEW side \in Side, NEW price \in Prices, Adding(side, price)
      PROVE  BatchExplainsVolume
  <2> DEFINE o == [order_id |-> out'[1].order_id, qty |-> out'[1].qty]
  <2>1. /\ out' \in Seq(L3Event) /\ Len(out') = 1
        /\ out'[1].type = "OrderAdd" /\ out'[1].side = side /\ out'[1].price = price
        /\ Queue(book'[side], price) = Append(Queue(book[side], price), o)
        /\ OneQueue(side, price)
    BY <1>2 DEF Adding
  <2>2. \A s \in Side, p \in Prices :
          s # side \/ p # price => Queue(book'[s], p) = Queue(book[s], p)
    BY <2>1, QueuesAfter
  <2>3. Queue(book[side], price) \in Seq(SyntheticOrder)
    BY QueueFacts DEF IInv, TypeOK
  <2>4. out'[1] \in L3Event /\ Resting(out') = out'[1].qty
    BY <2>1, OneEvent
  <2>5. o \in SyntheticOrder
    BY <2>4 DEF L3Event, SyntheticOrder
  <2>6. Resting(Queue(book'[side], price)) = Resting(Queue(book[side], price)) + o.qty
    BY <2>1, <2>3, <2>5, RestingAppend
  <2>7. o.qty = out'[1].qty
    OBVIOUS
  <2> HIDE DEF o
  <2>8. out' # << >>
    <3>1. Len(out') # 0
      BY <2>1
    <3>2. Len(<< >>) = 0
      OBVIOUS
    <3>3. QED
      BY <3>1, <3>2, Zenon
  <2>9. QED
    BY <2>1, <2>2, <2>4, <2>6, <2>7, <2>8 DEF BatchExplainsVolume, VolumeTold
<1>3. ASSUME NEW side \in Side, NEW price \in Prices, Replaying(side, price)
      PROVE  BatchExplainsVolume
  <2>1. /\ OneQueue(side, price)
        /\ out' \in Seq(L3Event)
        /\ \A i \in 1 .. Len(out') : /\ out'[i].type \in {"OrderFill", "OrderCancel"}
                                     /\ out'[i].side = side /\ out'[i].price = price
    BY <1>3 DEF Replaying
  <2>2. \A s \in Side, p \in Prices :
          s # side \/ p # price => Queue(book'[s], p) = Queue(book[s], p)
    BY <2>1, QueuesAfter
  <2>3. out' # << >> => /\ out'[1].type # "OrderAdd"
                        /\ out'[1].side = side /\ out'[1].price = price
    <3>1. out' # << >> => 1 \in 1 .. Len(out')
      BY <2>1
    <3>2. QED
      BY <2>1, <3>1
  <2>4. CASE out' = << >> /\ price \notin DOMAIN book'[side].levels
    BY <2>2, <2>4 DEF BatchExplainsVolume, LevelVanishes
  <2>5. CASE \E f : IsReplay(f, Queue(book[side], price), out', Queue(book'[side], price))
    <3>1. PICK f : IsReplay(f, Queue(book[side], price), out', Queue(book'[side], price))
      BY <2>5
    <3>2. Queue(book[side], price) \in Seq(SyntheticOrder)
      BY QueueFacts DEF IInv, TypeOK
    <3>3. HasQty(out')
      BY <2>1, EventsHaveQty
    <3>4. Resting(Queue(book[side], price)) =
            Resting(Queue(book'[side], price)) + Resting(out')
      BY <3>1, <3>2, <3>3, ReplayVolume
    <3>5. out' = << >> => Queue(book'[side], price) = Queue(book[side], price)
      BY <3>1 DEF IsReplay
    <3>6. QED
      BY <2>2, <2>3, <3>4, <3>5 DEF BatchExplainsVolume, VolumeTold
  <2>6. QED
    BY <1>3, <2>4, <2>5 DEF Replaying
<1>4. ASSUME NEW ts \in Timestamps, NEW action \in L2Action, NEW price \in Prices,
             NEW new_qty \in L2Qtys, NEW side \in Side,
             OnL2Update(ts, action, price, new_qty, side)
      PROVE  BatchExplainsVolume
  BY <1>2, <1>3, <1>4, IncreaseAdds, DecreaseIsReplay, NoChangeIsReplay DEF OnL2Update
<1>5. QED
  BY <1>1, <1>4 DEF Next

(* The events of a call add up to the change of resting volume at their    *)
(* price and no other volume changes; or there are no events, and at most  *)
(* one queue changed, by disappearing with its level.                      *)
THEOREM VolumeIsExplained == Spec => VolumeExplained
<1>1. IInv /\ [Next]_vars => [BatchExplainsVolume]_vars
  BY StepExplainsVolume
<1>2. QED
  BY Invariance, <1>1, PTL DEF Spec, VolumeExplained

-----------------------------------------------------------------------------
(* Fills are paid for by the buffered trade.                               *)

(* consume() emits no more than it was asked to take, with the given id.   *)
LEMMA ConsumeAtMost ==
    ASSUME NEW bk, IsShadowBook(bk), NEW price \in Prices, NEW qty \in Nat,
           NEW ts \in Timestamps, NEW id \in TradeIds \cup {0}
    PROVE  LET events == Consume(bk, price, qty, "OrderFill", ts, id).events
           IN  /\ Resting(events) \in Nat /\ Resting(events) <= qty
               /\ \A i \in 1 .. Len(events) : events[i].trade_id = id
<1> DEFINE events == Consume(bk, price, qty, "OrderFill", ts, id).events
<1>1. events \in Seq(L3Event)
  BY ConsumeEvents DEF EventType
<1>2. HasQty(events) /\ Resting(events) \in Nat
  BY <1>1, EventsHaveQty, RestingNat
<1>3. CASE price \notin DOMAIN bk.levels
  <2>1. events = << >>
    BY <1>3 DEF Consume
  <2>2. Resting(<< >>) = 0 /\ 1 .. Len(<< >>) = {}
    BY EmptyQueue
  <2>3. QED
    BY <2>1, <2>2
<1>4. CASE price \in DOMAIN bk.levels
  <2> DEFINE orders == bk.levels[price].orders
             taken  == Taken(orders, qty)
  <2>1. events = [i \in DOMAIN taken |->
                    [type |-> "OrderFill", side |-> "Bid", order_id |-> taken[i].order_id,
                     price |-> price, qty |-> taken[i].qty, exchange_ts |-> ts,
                     trade_id |-> id]]
    BY <1>4 DEF Consume
  <2>2. orders \in Seq(SyntheticOrder) /\ Resting(orders) \in Nat
    BY <1>4, LevelFacts
  <2>3. /\ taken \in Seq(SyntheticOrder)
        /\ Resting(taken) = IF qty < Resting(orders) THEN qty ELSE Resting(orders)
    BY <2>2, TakenFacts
  <2> HIDE DEF events, taken, orders
  <2>4. Len(taken) \in Nat /\ DOMAIN taken = 1 .. Len(taken)
    BY <2>3
  <2>5. /\ Len(events) = Len(taken)
        /\ \A i \in 1 .. Len(taken) : events[i].qty = taken[i].qty
        /\ \A i \in 1 .. Len(taken) : events[i].trade_id = id
    BY <2>1, <2>4
  <2>6. PartialSums(Cumulative(taken), events, Len(events))
    <3>1. PartialSums(Cumulative(taken), taken, Len(taken))
      BY <2>3, OrdersHaveQty, CumulativeIsPartialSums
    <3>2. QED
      BY <2>5, <3>1 DEF PartialSums
  <2>7. Resting(events) = Resting(taken)
    BY <1>2, <2>5, <2>6, RestingIsLastSum DEF Resting, events
  <2>8. Resting(taken) <= qty
    BY <2>2, <2>3
  <2>9. QED
    BY <1>2, <2>5, <2>7, <2>8 DEF events
<1>5. QED
  BY <1>3, <1>4

(* The fills of a stamped batch are the first part of it.                  *)
LEMMA FilledOfStamped ==
    ASSUME NEW fills, NEW cancels, NEW price, NEW side \in Side, NEW stamped,
           OfType(fills, "OrderFill", price), OfType(cancels, "OrderCancel", price),
           stamped = Stamp(fills \o cancels, side)
    PROVE  /\ FilledQty(stamped) = Resting(fills)
           /\ \A i \in 1 .. Len(stamped) :
                stamped[i].type = "OrderFill" =>
                    i \in 1 .. Len(fills) /\ stamped[i].trade_id = fills[i].trade_id
<1> DEFINE events == fills \o cancels
           m == Len(fills)
           n == Len(cancels)
           N == m + n
<1>1. /\ fills \in Seq(L3Event) /\ cancels \in Seq(L3Event)
      /\ m \in Nat /\ n \in Nat /\ N \in Nat
      /\ \A i \in 1 .. m : fills[i].type = "OrderFill" /\ fills[i] \in L3Event
      /\ \A i \in 1 .. n : cancels[i].type = "OrderCancel" /\ cancels[i] \in L3Event
  BY DEF OfType
<1>2. /\ DOMAIN events = 1 .. N
      /\ \A i \in 1 .. m : events[i] = fills[i]
      /\ \A i \in m + 1 .. N : events[i] = cancels[i - m]
  BY <1>1
<1> HIDE DEF events
<1>3. stamped = [i \in 1 .. N |-> [events[i] EXCEPT !.side = side]]
  BY <1>1, <1>2 DEF events, Stamp
<1>4. ASSUME NEW i \in 1 .. m
      PROVE  /\ stamped[i].type = "OrderFill" /\ stamped[i].qty = fills[i].qty
             /\ stamped[i].trade_id = fills[i].trade_id
  <2>1. i \in 1 .. N
    BY <1>1
  <2>2. stamped[i] = [fills[i] EXCEPT !.side = side] /\ fills[i] \in L3Event
    BY <1>1, <1>2, <1>3, <2>1
  <2>3. QED
    BY <1>1, <2>2 DEF L3Event
<1>5. ASSUME NEW i \in m + 1 .. N
      PROVE  stamped[i].type = "OrderCancel"
  <2>1. i \in 1 .. N /\ i - m \in 1 .. n
    BY <1>1
  <2>2. stamped[i] = [cancels[i - m] EXCEPT !.side = side] /\ cancels[i - m] \in L3Event
    <3> DEFINE ev == cancels[i - m]
    <3>1. ev \in L3Event /\ events[i] = ev
      BY <1>1, <1>2, <2>1
    <3> HIDE DEF ev
    <3>2. stamped[i] = [ev EXCEPT !.side = side]
      BY <1>3, <2>1, <3>1
    <3>3. QED
      BY <3>1, <3>2 DEF ev
  <2>3. QED
    BY <1>1, <2>1, <2>2 DEF L3Event
<1> DEFINE amount(i) == IF stamped[i].type = "OrderFill" THEN stamped[i].qty ELSE 0
           paid == [i \in 1 .. Len(stamped) |-> [qty |-> amount(i)]]
           c == Cumulative(fills)
           g == [i \in 0 .. N |-> IF i <= m THEN c[i] ELSE c[m]]
<1>6. Len(stamped) = N
  BY <1>1, <1>3
<1>7. /\ \A i \in 1 .. m : fills[i].qty \in Nat
      /\ PartialSums(c, fills, m)
  <2>1. HasQty(fills)
    BY <1>1, EventsHaveQty
  <2>2. QED
    BY <2>1, CumulativeIsPartialSums DEF HasQty
<1> HIDE DEF N, m, n, c
<1>8. \A i \in 1 .. N : i \in 1 .. m \/ i \in m + 1 .. N
  BY <1>1
<1>9. /\ \A i \in 1 .. m : amount(i) = fills[i].qty
      /\ \A i \in m + 1 .. N : amount(i) = 0
  BY <1>4, <1>5
<1>10. \A i \in 1 .. N : amount(i) \in Nat
  BY <1>7, <1>8, <1>9
<1> HIDE DEF amount
<1>11. /\ Len(paid) = N /\ HasQty(paid)
       /\ \A i \in 1 .. N : paid[i].qty = amount(i)
  BY <1>1, <1>6, <1>10 DEF HasQty
<1>12. FilledQty(stamped) = Resting(paid)
  BY DEF FilledQty, amount
<1> HIDE DEF paid
<1>13. PartialSums(g, paid, N)
  <2>1. /\ c \in [0 .. m -> Nat] /\ c[0] = 0
        /\ \A i \in 1 .. m : c[i] = c[i - 1] + fills[i].qty
    BY <1>7 DEF PartialSums
  <2>2. m \in Nat /\ N \in Nat /\ m <= N
    BY <1>1 DEF N
  <2>3. g \in [0 .. N -> Nat] /\ g[0] = 0
    BY <2>1, <2>2
  <2>4. ASSUME NEW i \in 1 .. N PROVE g[i] = g[i - 1] + paid[i].qty
    <3>1. CASE i \in 1 .. m
      <4>1. g[i] = c[i] /\ g[i - 1] = c[i - 1]
        BY <2>2, <3>1
      <4>2. QED
        BY <1>9, <1>11, <2>1, <3>1, <4>1
    <3>2. CASE i \in m + 1 .. N
      <4>1. g[i] = c[m] /\ g[i - 1] = c[m] /\ c[m] \in Nat
        BY <2>1, <2>2, <3>2
      <4>2. QED
        BY <1>9, <1>11, <3>2, <4>1
    <3>3. QED
      BY <1>8, <3>1, <3>2
  <2> HIDE DEF g
  <2>5. QED
    BY <2>3, <2>4 DEF PartialSums
<1>14. Resting(paid) = g[N] /\ Resting(fills) = c[m]
  BY <1>11, <1>13, RestingIsLastSum DEF Resting, c, m
<1>15. g[N] = c[m]
  BY <1>1 DEF N
<1>16. \A i \in 1 .. Len(stamped) :
         stamped[i].type = "OrderFill" =>
             i \in 1 .. m /\ stamped[i].trade_id = fills[i].trade_id
  BY <1>4, <1>5, <1>6, <1>8
<1>17. QED
  BY <1>12, <1>14, <1>15, <1>16 DEF m

(* What TradeBuffer::consume() takes it leaves no longer behind.           *)
LEMMA ConsumeTradePays ==
    ASSUME NEW buffer, IsTradeBuffer(buffer), NEW ts, NEW price, NEW qty \in Qty
    PROVE  LET r   == ConsumeTrade(buffer, ts, price, qty)
               key == <<ts, price>>
           IN  r.qty > 0 =>
                 /\ key \in DOMAIN buffer
                 /\ r.trade_id = buffer[key].trade_id
                 /\ r.qty + (IF key \in DOMAIN r.buffer THEN r.buffer[key].qty ELSE 0)
                      = buffer[key].qty
<1> DEFINE key == <<ts, price>>
           entry == buffer[key]
           available == IF entry.qty < qty THEN entry.qty ELSE qty
           r == ConsumeTrade(buffer, ts, price, qty)
<1>1. CASE key \notin DOMAIN buffer
  <2>1. r = [buffer |-> buffer, qty |-> 0, trade_id |-> 0]
    BY <1>1 DEF ConsumeTrade
  <2>2. r.qty = 0
    BY <2>1
  <2> HIDE DEF r
  <2>3. QED
    BY <2>2 DEF r
<1>2. CASE key \in DOMAIN buffer
  <2>1. /\ r.buffer = IF entry.qty = available
                      THEN [k \in DOMAIN buffer \ {key} |-> buffer[k]]
                      ELSE [buffer EXCEPT ![key].qty = @ - available]
        /\ r.qty = available
        /\ r.trade_id = entry.trade_id
    BY <1>2 DEF ConsumeTrade
  <2>2. entry \in TradeEntry
    BY <1>2 DEF IsTradeBuffer
  <2>3. entry.qty \in Nat /\ available \in Nat /\ available <= entry.qty
    BY <2>2, QtyModAssumption DEF TradeEntry, Qty
  <2>4. CASE entry.qty = available
    <3>1. key \notin DOMAIN r.buffer
      BY <2>1, <2>4
    <3> HIDE DEF r, available
    <3>2. QED
      BY <1>2, <2>1, <2>3, <2>4, <3>1 DEF r
  <2>5. CASE entry.qty # available
    <3>1. r.buffer = [buffer EXCEPT ![key] = [entry EXCEPT !.qty = @ - available]]
      BY <2>1, <2>5
    <3> HIDE DEF r, available, key
    <3>2. key \in DOMAIN r.buffer /\ r.buffer[key] = [entry EXCEPT !.qty = @ - available]
      BY <1>2, <3>1
    <3>3. r.buffer[key].qty = entry.qty - available
      BY <2>2, <3>2 DEF TradeEntry
    <3>4. available + (entry.qty - available) = entry.qty
      BY <2>3
    <3>5. QED
      BY <1>2, <2>1, <3>2, <3>3, <3>4 DEF r, key
  <2>6. QED
    BY <2>4, <2>5
<1>3. QED
  BY <1>1, <1>2

(* process_decrease() as far as fills and the buffer are concerned.        *)
LEMMA DecreasePays ==
    ASSUME NEW bk, IsShadowBook(bk), NEW buffer, IsTradeBuffer(buffer),
           NEW ts \in Timestamps, NEW price \in Prices, NEW d \in Qty, NEW side \in Side
    PROVE  LET r   == ProcessDecrease(bk, buffer, ts, price, d, side)
               key == <<ts, price>>
           IN  \A i \in 1 .. Len(r.events) :
                 r.events[i].type = "OrderFill" =>
                   /\ key \in DOMAIN buffer
                   /\ FilledQty(r.events) +
                        (IF key \in DOMAIN r.buffer THEN r.buffer[key].qty ELSE 0)
                          <= buffer[key].qty
                   /\ r.events[i].trade_id = buffer[key].trade_id
<1> DEFINE key == <<ts, price>>
           trade    == ConsumeTrade(buffer, ts, price, d)
           cancel   == d - trade.qty
           filled   == IF trade.qty > 0
                       THEN Consume(bk, price, trade.qty, "OrderFill", ts, trade.trade_id)
                       ELSE [book |-> bk, events |-> << >>]
           canceled == IF cancel > 0
                       THEN Consume(filled.book, price, cancel, "OrderCancel", ts, 0)
                       ELSE [book |-> filled.book, events |-> << >>]
           r        == ProcessDecrease(bk, buffer, ts, price, d, side)
<1>1. /\ trade.qty \in Qty /\ trade.qty <= d
      /\ trade.trade_id \in TradeIds \cup {0}
      /\ IsTradeBuffer(trade.buffer)
  BY ConsumeTradeFacts
<1>2. /\ r.buffer = trade.buffer
      /\ r.events = Stamp(filled.events \o canceled.events, side)
  BY DEF ProcessDecrease, Stamp
<1>3. trade.qty > 0 =>
        /\ key \in DOMAIN buffer
        /\ trade.trade_id = buffer[key].trade_id
        /\ trade.qty + (IF key \in DOMAIN trade.buffer THEN trade.buffer[key].qty ELSE 0)
             = buffer[key].qty
  BY ConsumeTradePays
<1> HIDE DEF r, trade
<1>4. trade.qty \in Nat /\ cancel \in Nat
  BY <1>1, QtyModAssumption DEF Qty
<1>5. "OrderFill" \in EventType /\ "OrderCancel" \in EventType
  BY DEF EventType
<1>6. /\ IsShadowBook(filled.book)
      /\ OfType(filled.events, "OrderFill", price)
      /\ Resting(filled.events) \in Nat /\ Resting(filled.events) <= trade.qty
      /\ \A i \in 1 .. Len(filled.events) :
           trade.qty > 0 /\ filled.events[i].trade_id = trade.trade_id
  <2>1. CASE trade.qty > 0
    <3>1. filled = Consume(bk, price, trade.qty, "OrderFill", ts, trade.trade_id)
      BY <2>1
    <3> HIDE DEF filled
    <3>2. IsShadowBook(filled.book)
      BY <1>4, <3>1, ConsumeFacts
    <3>3. OfType(filled.events, "OrderFill", price)
      BY <1>1, <1>4, <1>5, <3>1, ConsumeEvents DEF OfType
    <3>4. /\ Resting(filled.events) \in Nat /\ Resting(filled.events) <= trade.qty
          /\ \A i \in 1 .. Len(filled.events) : filled.events[i].trade_id = trade.trade_id
      BY <1>1, <1>4, <3>1, ConsumeAtMost
    <3>5. QED
      BY <2>1, <3>2, <3>3, <3>4
  <2>2. CASE ~(trade.qty > 0)
    <3>1. filled.book = bk /\ filled.events = << >>
      BY <2>2
    <3> HIDE DEF filled
    <3>2. Resting(<< >>) = 0 /\ 1 .. Len(<< >>) = {} /\ 0 <= trade.qty
      BY <1>4, EmptyQueue
    <3>3. QED
      BY <3>1, <3>2, NothingOfType
  <2>3. QED
    BY <2>1, <2>2
<1> HIDE DEF filled
<1>7. OfType(canceled.events, "OrderCancel", price)
  <2>1. CASE cancel > 0
    <3>1. canceled = Consume(filled.book, price, cancel, "OrderCancel", ts, 0)
      BY <2>1
    <3> HIDE DEF canceled, cancel
    <3>2. 0 \in TradeIds \cup {0}
      OBVIOUS
    <3>3. QED
      BY <1>4, <1>5, <1>6, <3>1, <3>2, ConsumeEvents DEF OfType
  <2>2. CASE ~(cancel > 0)
    <3>1. canceled.events = << >>
      BY <2>2
    <3>2. QED
      BY <3>1, NothingOfType
  <2>3. QED
    BY <2>1, <2>2
<1> DEFINE fills == filled.events
           left  == IF key \in DOMAIN trade.buffer THEN trade.buffer[key].qty ELSE 0
<1>8. /\ FilledQty(r.events) = Resting(fills)
      /\ \A i \in 1 .. Len(r.events) :
           r.events[i].type = "OrderFill" =>
               i \in 1 .. Len(fills) /\ r.events[i].trade_id = fills[i].trade_id
  <2> DEFINE cancels == canceled.events
  <2>1. /\ OfType(fills, "OrderFill", price) /\ OfType(cancels, "OrderCancel", price)
        /\ r.events = Stamp(fills \o cancels, side)
    BY <1>2, <1>6, <1>7
  <2> HIDE DEF fills, cancels
  <2>2. QED
    BY <2>1, FilledOfStamped
<1>9. left \in Nat
  <2> HIDE DEF key
  <2>1. \A k \in DOMAIN trade.buffer : trade.buffer[k].qty \in Nat
    BY <1>1, QtyModAssumption DEF IsTradeBuffer, TradeEntry, Qty
  <2>2. QED
    BY <2>1
<1>10. SUFFICES ASSUME NEW i \in 1 .. Len(r.events), r.events[i].type = "OrderFill"
                PROVE  /\ key \in DOMAIN buffer
                       /\ FilledQty(r.events) + left <= buffer[key].qty
                       /\ r.events[i].trade_id = buffer[key].trade_id
  BY <1>2 DEF r
<1>11. /\ trade.qty > 0
       /\ r.events[i].trade_id = trade.trade_id
  BY <1>6, <1>8, <1>10
<1>12. FilledQty(r.events) \in Nat /\ FilledQty(r.events) <= trade.qty
  BY <1>6, <1>8
<1> HIDE DEF fills, left, key, cancel, canceled
<1>13. key \in DOMAIN buffer /\ trade.qty + left = buffer[key].qty
  BY <1>3, <1>11 DEF left
<1>14. FilledQty(r.events) + left <= buffer[key].qty
  BY <1>4, <1>9, <1>12, <1>13
<1>15. QED
  BY <1>3, <1>11, <1>13, <1>14

LEMMA StepPaysForFills ==
    ASSUME IInv, Next
    PROVE  TradesPayForFills
<1>1. ASSUME out' = << >> PROVE TradesPayForFills
  <2>1. 1 .. Len(out') = {}
    BY <1>1
  <2>2. QED
    BY <2>1 DEF TradesPayForFills
<1>2. ASSUME NEW ts \in Timestamps, NEW action \in L2Action, NEW price \in Prices,
             NEW new_qty \in L2Qtys, NEW side \in Side,
             Increase(ts, action, price, new_qty, side)
      PROVE  TradesPayForFills
  <2>1. Len(out') = 1 /\ out'[1].type = "OrderAdd"
    BY <1>2, IncreaseAdds DEF Adding
  <2>2. \A i \in 1 .. Len(out') : i = 1
    BY <2>1
  <2>3. QED
    BY <2>1, <2>2 DEF TradesPayForFills
<1>3. ASSUME NEW ts \in Timestamps, NEW action \in L2Action, NEW price \in Prices,
             NEW new_qty \in L2Qtys, NEW side \in Side,
             Decrease(ts, action, price, new_qty, side)
      PROVE  TradesPayForFills
  <2> DEFINE old == book[side]
             r   == Apply(old, action, price, new_qty)
             flushed == FlushTradesBefore(trade_buffer, ts)
             d       == -r.delta
             mid     == r.book
             result  == ProcessDecrease(mid, flushed, ts, price, d, side)
             key     == <<ts, price>>
  <2>1. /\ r.delta < 0
        /\ trade_buffer' = result.buffer
        /\ out' = result.events
    BY <1>3 DEF Decrease, Applied
  <2>2. Consumes(ts, action, price, new_qty, side)
    BY <1>3, DecreaseConsumes
  <2>3. IsShadowBook(old) /\ new_qty \in Qty /\ IsTradeBuffer(flushed)
    BY InputAssumption, FlushTradesType DEF IInv, TypeOK
  <2>4. IsShadowBook(mid)
    BY <2>3, ApplyFacts
  <2>5. d \in Qty
    <3>1. r.delta <= 0
      BY <2>2 DEF Consumes
    <3>2. QED
      BY <2>3, <3>1, DeltaFacts
  <2>6. \A i \in 1 .. Len(out') : out'[i].exchange_ts = ts /\ out'[i].price = price
    BY <2>2 DEF Consumes
  <2>7. key \in DOMAIN flushed => key \in DOMAIN trade_buffer
                                 /\ flushed[key] = trade_buffer[key]
    BY DEF FlushTradesBefore
  <2> HIDE DEF mid, flushed, d
  <2>8. \A i \in 1 .. Len(result.events) :
          result.events[i].type = "OrderFill" =>
            /\ key \in DOMAIN flushed
            /\ FilledQty(result.events) +
                 (IF key \in DOMAIN result.buffer THEN result.buffer[key].qty ELSE 0)
                   <= flushed[key].qty
            /\ result.events[i].trade_id = flushed[key].trade_id
    BY <2>3, <2>4, <2>5, DecreasePays
  <2> HIDE DEF result
  <2>9. \A i \in 1 .. Len(out') :
          out'[i].type = "OrderFill" =>
            /\ key \in DOMAIN trade_buffer
            /\ FilledQty(out') +
                 (IF key \in DOMAIN trade_buffer' THEN trade_buffer'[key].qty ELSE 0)
                   <= trade_buffer[key].qty
            /\ out'[i].trade_id = trade_buffer[key].trade_id
    <3> HIDE DEF key
    <3>1. QED
      BY <2>1, <2>7, <2>8
  <2>10. QED
    BY <2>6, <2>9 DEF TradesPayForFills
<1>4. ASSUME NEW ts \in Timestamps, NEW action \in L2Action, NEW price \in Prices,
             NEW new_qty \in L2Qtys, NEW side \in Side,
             OnL2Update(ts, action, price, new_qty, side)
      PROVE  TradesPayForFills
  BY <1>1, <1>2, <1>3, <1>4 DEF OnL2Update, NoChange
<1>5. ASSUME NEW ts \in Timestamps, NEW price \in Prices, NEW qty \in TradeQtys,
             NEW id \in TradeIds \cup {0}, OnTrade(ts, price, qty, id)
      PROVE  TradesPayForFills
  BY <1>1, <1>5 DEF OnTrade
<1>6. QED
  BY <1>4, <1>5 DEF Next

(* No call reports more as filled than it takes, in that very call, out of *)
(* the buffered trade of the same timestamp and price.                     *)
THEOREM FillsArePaid == Spec => FillsConsumeTrades
<1>1. IInv /\ [Next]_vars => [TradesPayForFills]_vars
  BY StepPaysForFills
<1>2. QED
  BY Invariance, <1>1, PTL DEF Spec, FillsConsumeTrades
=============================================================================
