-------------------------- MODULE ConsumeLoopProofs -------------------------
(***************************************************************************)
(* The while loop of consume() computes the closed form of ShadowBook, for *)
(* every queue and every quantity.  The argument: after any number of      *)
(* iterations the loop has emitted and left what the closed form gives for *)
(* the quantity spent so far, and while something remains to be spent the  *)
(* cut lies between two orders.                                            *)
(***************************************************************************)
EXTENDS ConsumeLoop, QueueTheorems

(* The cut is the only place where the sums pass the quantity.             *)
LEMMA CutUnique ==
    ASSUME NEW orders \in Seq(SyntheticOrder), NEW qty \in Nat, NEW k \in 0 .. Len(orders),
           Cumulative(orders)[k] <= qty,
           k < Len(orders) => qty < Cumulative(orders)[k + 1]
    PROVE  FullyConsumed(orders, qty) = k
<1> DEFINE c == Cumulative(orders)
           m == FullyConsumed(orders, qty)
           n == Len(orders)
<1>1. /\ n \in Nat /\ m \in 0 .. n /\ c \in [0 .. n -> Nat]
      /\ c[m] <= qty
      /\ m < n => qty < c[m + 1]
  BY OrdersHaveQty, FullyConsumedFacts, CutFacts
<1>2. \A i \in 0 .. n, j \in 0 .. n : i <= j => c[i] <= c[j]
  BY OrdersHaveQty, CumulativeMonotone
<1>3. k \in 0 .. n /\ c[k] <= qty /\ (k < n => qty < c[k + 1])
  OBVIOUS
<1> HIDE DEF c, m, n
<1>4. ~(m < k)
  <2>1. SUFFICES ASSUME m < k PROVE FALSE
    OBVIOUS
  <2>2. m < n /\ m + 1 \in 0 .. n /\ m + 1 <= k
    BY <1>1, <1>3, <2>1
  <2>3. c[m + 1] <= c[k] /\ c[m + 1] \in Nat /\ c[k] \in Nat
    BY <1>1, <1>2, <1>3, <2>2
  <2>4. QED
    BY <1>1, <1>3, <2>2, <2>3
<1>5. ~(k < m)
  <2>1. SUFFICES ASSUME k < m PROVE FALSE
    OBVIOUS
  <2>2. k < n /\ k + 1 \in 0 .. n /\ k + 1 <= m
    BY <1>1, <1>3, <2>1
  <2>3. c[k + 1] <= c[m] /\ c[k + 1] \in Nat /\ c[m] \in Nat
    BY <1>1, <1>2, <1>3, <2>2
  <2>4. QED
    BY <1>1, <1>3, <2>2, <2>3
<1>6. m = k
  BY <1>1, <1>3, <1>4, <1>5
<1>7. QED
  BY <1>6 DEF m

(* A quantity that is spent between two orders: what was taken is the      *)
(* orders before the cut, what is left those behind it.                    *)
BetweenOrders(orders, spent) ==
    spent <= Resting(orders) /\ PartOfNext(orders, spent) = 0

LEMMA BoundaryFacts ==
    ASSUME NEW orders \in Seq(SyntheticOrder), NEW spent \in Nat,
           BetweenOrders(orders, spent)
    PROVE  LET k == FullyConsumed(orders, spent)
           IN  /\ k \in 0 .. Len(orders)
               /\ Cumulative(orders)[k] = spent
               /\ Taken(orders, spent) = [i \in 1 .. k |-> orders[i]]
               /\ Left(orders, spent) = [i \in 1 .. Len(orders) - k |-> orders[k + i]]
<1> DEFINE c == Cumulative(orders)
           k == FullyConsumed(orders, spent)
           n == Len(orders)
           part == PartOfNext(orders, spent)
<1>1. /\ n \in Nat /\ k \in 0 .. n /\ c \in [0 .. n -> Nat]
      /\ c[k] <= spent
      /\ k < n => part = spent - c[k]
  BY CutFacts
<1>2. part = 0 /\ spent <= c[n]
  BY DEF BetweenOrders, Resting
<1>3. Taken(orders, spent) = [i \in 1 .. (IF part > 0 THEN k + 1 ELSE k) |->
                                IF i <= k THEN orders[i]
                                ELSE [orders[i] EXCEPT !.qty = part]]
  BY Zenon DEF Taken
<1>4. Left(orders, spent) = [i \in 1 .. n - k |->
                               IF i = 1 THEN [orders[k + 1] EXCEPT !.qty = @ - part]
                               ELSE orders[k + i]]
  BY Zenon DEF Left
<1>5. \A i \in 1 .. n : orders[i] \in SyntheticOrder /\ orders[i].qty \in Nat
  BY OrdersHaveQty DEF HasQty
<1> HIDE DEF c, k, n, part
<1>6. c[k] = spent
  <2>1. c[k] \in Nat /\ c[n] \in Nat
    BY <1>1
  <2>2. QED
    BY <1>1, <1>2, <2>1
<1>7. Taken(orders, spent) = [i \in 1 .. k |-> orders[i]]
  BY <1>1, <1>2, <1>3
<1>8. ASSUME NEW i \in 1 .. n - k, i = 1
      PROVE  [orders[k + 1] EXCEPT !.qty = @ - part] = orders[k + i]
  <2>1. orders[k + 1] \in SyntheticOrder /\ orders[k + 1].qty \in Nat
    BY <1>1, <1>5, <1>8
  <2>2. orders[k + 1].qty - part = orders[k + 1].qty
    BY <1>2, <2>1
  <2>3. QED
    BY <1>8, <2>1, <2>2 DEF SyntheticOrder
<1>9. Left(orders, spent) = [i \in 1 .. n - k |-> orders[k + i]]
  BY <1>4, <1>8
<1>10. QED
  BY <1>1, <1>6, <1>7, <1>9 DEF c, k, n

(* The closed form of a quantity, where the cut is known.                  *)
LEMMA CutAt ==
    ASSUME NEW orders \in Seq(SyntheticOrder), NEW k \in 0 .. Len(orders), NEW r \in Nat,
           k < Len(orders) => r < orders[k + 1].qty,
           k = Len(orders) => r = 0
    PROVE  LET qty == Cumulative(orders)[k] + r
           IN  /\ FullyConsumed(orders, qty) = k
               /\ PartOfNext(orders, qty) = r
               /\ qty \in Nat /\ qty <= Resting(orders)
<1> DEFINE c == Cumulative(orders)
           n == Len(orders)
           qty == c[k] + r
<1>1. /\ n \in Nat /\ c \in [0 .. n -> Nat]
      /\ \A i \in 1 .. n : c[i] = c[i - 1] + orders[i].qty
  BY OrdersHaveQty, CumulativeIsPartialSums DEF PartialSums
<1>2. \A i \in 0 .. n, j \in 0 .. n : i <= j => c[i] <= c[j]
  BY OrdersHaveQty, CumulativeMonotone
<1>3. \A i \in 1 .. n : orders[i].qty \in Nat
  BY OrdersHaveQty
<1>4. k \in 0 .. n /\ (k < n => r < orders[k + 1].qty) /\ (k = n => r = 0)
  OBVIOUS
<1> HIDE DEF c, n
<1>5. qty \in Nat /\ c[k] <= qty /\ c[k] \in Nat
  BY <1>1, <1>4
<1>6. ASSUME k < n PROVE qty < c[k + 1] /\ c[k + 1] <= c[n] /\ c[k + 1] \in Nat
  <2>1. k + 1 \in 1 .. n /\ (k + 1) - 1 = k /\ k + 1 \in 0 .. n /\ n \in 0 .. n /\ k + 1 <= n
    BY <1>1, <1>4, <1>6
  <2>2. c[k + 1] = c[k] + orders[k + 1].qty
    BY <1>1, <2>1
  <2>3. c[k + 1] \in Nat /\ c[k + 1] <= c[n]
    BY <1>1, <1>2, <2>1
  <2>4. r < orders[k + 1].qty /\ orders[k + 1].qty \in Nat
    BY <1>3, <1>4, <1>6, <2>1
  <2>5. qty = c[k] + r
    OBVIOUS
  <2> HIDE DEF qty
  <2>6. qty < c[k + 1]
    BY <1>5, <2>2, <2>4, <2>5
  <2>7. QED
    BY <2>3, <2>6
<1>7. qty <= c[n]
  <2>1. CASE k = n
    BY <1>4, <1>5, <2>1
  <2>2. CASE k < n
    <3>1. c[n] \in Nat
      BY <1>1
    <3>2. QED
      BY <1>5, <1>6, <2>2, <3>1
  <2>3. QED
    BY <1>1, <1>4, <2>1, <2>2
<1> HIDE DEF qty
<1>8. FullyConsumed(orders, qty) = k
  BY <1>4, <1>5, <1>6, CutUnique DEF c, n
<1>9. PartOfNext(orders, qty) = IF k < n THEN qty - c[k] ELSE 0
  BY <1>8 DEF PartOfNext, c, n
<1>10. PartOfNext(orders, qty) = r
  BY <1>1, <1>4, <1>5, <1>9 DEF qty
<1>11. QED
  BY <1>5, <1>7, <1>8, <1>10 DEF qty, c, n, Resting
-----------------------------------------------------------------------------
(* One more iteration, in closed form.  Popping the head of what is left   *)
(* moves the cut behind it ...                                             *)
LEMMA NextPopped ==
    ASSUME NEW orders \in Seq(SyntheticOrder), NEW spent \in Nat,
           BetweenOrders(orders, spent), Left(orders, spent) # << >>
    PROVE  LET front == Head(Left(orders, spent))
               more  == spent + front.qty
           IN  /\ front \in SyntheticOrder
               /\ more \in Nat /\ BetweenOrders(orders, more)
               /\ Taken(orders, more) = Append(Taken(orders, spent), front)
               /\ Left(orders, more) = Tail(Left(orders, spent))
<1> DEFINE k == FullyConsumed(orders, spent)
           n == Len(orders)
           c == Cumulative(orders)
           front == Head(Left(orders, spent))
           more == spent + front.qty
<1>1. /\ k \in 0 .. n /\ n \in Nat
      /\ c[k] = spent
      /\ Taken(orders, spent) = [i \in 1 .. k |-> orders[i]]
      /\ Left(orders, spent) = [i \in 1 .. n - k |-> orders[k + i]]
  BY BoundaryFacts
<1>2. \A i \in 1 .. n : orders[i] \in SyntheticOrder /\ orders[i].qty \in Nat \ {0}
  BY OrdersHaveQty
<1>3. \A i \in 1 .. n : c[i] = c[i - 1] + orders[i].qty
  BY CutFacts
<1>4. ASSUME NEW j \in 0 .. n
      PROVE  /\ FullyConsumed(orders, c[j]) = j
             /\ c[j] \in Nat /\ BetweenOrders(orders, c[j])
  <2>1. j < n => j + 1 \in 1 .. n
    BY <1>1, <1>4
  <2>2. c[j] \in Nat
    BY <1>4, CutFacts
  <2>3. c[j] + 0 = c[j]
    BY <2>2
  <2>4. (j < n => 0 < orders[j + 1].qty) /\ 0 \in Nat
    BY <1>2, <2>1
  <2> HIDE DEF c
  <2>5. /\ FullyConsumed(orders, c[j] + 0) = j
        /\ PartOfNext(orders, c[j] + 0) = 0
        /\ c[j] + 0 <= Resting(orders)
    BY <1>4, <2>4, CutAt DEF c
  <2>6. QED
    BY <2>2, <2>3, <2>5 DEF BetweenOrders
<1> HIDE DEF k, n, c
<1>5. k < n /\ k + 1 \in 1 .. n /\ (k + 1) - 1 = k
  <2>1. Left(orders, spent) \in Seq(SyntheticOrder) /\ Len(Left(orders, spent)) = n - k
    BY LeftFacts DEF k, n
  <2>2. Len(Left(orders, spent)) # 0
    BY <2>1
  <2>3. QED
    BY <1>1, <2>1, <2>2
<1>6. front = orders[k + 1]
  BY <1>1, <1>5
<1>7. more = c[k + 1]
  BY <1>1, <1>3, <1>5, <1>6
<1> HIDE DEF front, more
<1>8. /\ FullyConsumed(orders, more) = k + 1
      /\ more \in Nat /\ BetweenOrders(orders, more)
  BY <1>4, <1>5, <1>7
<1>9. /\ Taken(orders, more) = [i \in 1 .. k + 1 |-> orders[i]]
      /\ Left(orders, more) = [i \in 1 .. n - (k + 1) |-> orders[(k + 1) + i]]
  BY <1>8, BoundaryFacts DEF n
<1>10. Taken(orders, more) = Append(Taken(orders, spent), front)
  <2>1. Taken(orders, spent) \in Seq(SyntheticOrder) /\ Len(Taken(orders, spent)) = k
    BY <1>1, <1>2
  <2>2. QED
    BY <1>1, <1>5, <1>6, <1>9, <2>1
<1>11. Left(orders, more) = Tail(Left(orders, spent))
  BY <1>1, <1>2, <1>5, <1>9
<1>12. QED
  BY <1>2, <1>5, <1>6, <1>8, <1>10, <1>11 DEF front, more

(* ... and taking less than the head reduces it where it is.               *)
Piece(order, r)      == [order EXCEPT !.qty = r]
HeadReduced(left, r) == [left EXCEPT ![1].qty = @ - r]

LEMMA NextReduced ==
    ASSUME NEW orders \in Seq(SyntheticOrder), NEW spent \in Nat,
           BetweenOrders(orders, spent), Left(orders, spent) # << >>,
           NEW r \in Nat \ {0}, r < Head(Left(orders, spent)).qty
    PROVE  LET left == Left(orders, spent)
               more == spent + r
           IN  /\ more \in Nat /\ more <= Resting(orders)
               /\ Taken(orders, more) =
                     Append(Taken(orders, spent), Piece(Head(left), r))
               /\ Left(orders, more) = HeadReduced(left, r)
<1> DEFINE k == FullyConsumed(orders, spent)
           n == Len(orders)
           c == Cumulative(orders)
           left == Left(orders, spent)
           more == spent + r
<1>1. /\ k \in 0 .. n /\ n \in Nat
      /\ c[k] = spent
      /\ Taken(orders, spent) = [i \in 1 .. k |-> orders[i]]
      /\ left = [i \in 1 .. n - k |-> orders[k + i]]
  BY BoundaryFacts
<1>2. \A i \in 1 .. n : orders[i] \in SyntheticOrder /\ orders[i].qty \in Nat \ {0}
  BY OrdersHaveQty
<1>3. k < n /\ k + 1 \in 1 .. n /\ 1 \in 1 .. n - k
  <2>1. Left(orders, spent) \in Seq(SyntheticOrder) /\ Len(Left(orders, spent)) = n - k
    BY LeftFacts
  <2>2. Len(Left(orders, spent)) # 0
    BY <2>1
  <2>3. QED
    BY <1>1, <2>1, <2>2
<1>4. Head(left) = orders[k + 1] /\ left[1] = orders[k + 1] /\ r < orders[k + 1].qty
  BY <1>1, <1>3
<1>0. ASSUME NEW o \in SyntheticOrder, NEW q \in Nat, 0 < q, q < o.qty
      PROVE  /\ [o EXCEPT !.qty = q] \in SyntheticOrder
             /\ [o EXCEPT !.qty = q].order_id = o.order_id
  BY <1>0, QtyModAssumption DEF SyntheticOrder, Qty
<1>5. /\ FullyConsumed(orders, more) = k
      /\ PartOfNext(orders, more) = r
      /\ more \in Nat /\ more <= Resting(orders)
  <2>1. r < orders[k + 1].qty /\ r \in Nat
    BY <1>4
  <2> HIDE DEF k
  <2>2. QED
    BY <1>1, <1>3, <2>1, CutAt
<1>6. Taken(orders, more) = [i \in 1 .. (IF r > 0 THEN k + 1 ELSE k) |->
                               IF i <= k THEN orders[i] ELSE [orders[i] EXCEPT !.qty = r]]
  BY <1>5, Zenon DEF Taken
<1>7. Left(orders, more) = [i \in 1 .. n - k |->
                              IF i = 1 THEN [orders[k + 1] EXCEPT !.qty = @ - r]
                              ELSE orders[k + i]]
  BY <1>5, Zenon DEF Left
<1> HIDE DEF k, n, c, left, more
<1>8. Taken(orders, more) = Append(Taken(orders, spent), [Head(left) EXCEPT !.qty = r])
  <2> DEFINE piece == [orders[k + 1] EXCEPT !.qty = r]
             taken == Taken(orders, spent)
  <2>1. piece \in SyntheticOrder
    <3>1. orders[k + 1] \in SyntheticOrder /\ r \in Nat \ {0} /\ r < orders[k + 1].qty
      BY <1>2, <1>3, <1>4
    <3>2. QED
      BY <3>1, <1>0
  <2>2. taken \in Seq(SyntheticOrder) /\ Len(taken) = k /\ \A i \in 1 .. k : taken[i] = orders[i]
    BY <1>1, <1>2
  <2>3. Taken(orders, more) = [i \in 1 .. k + 1 |-> IF i <= k THEN orders[i] ELSE piece]
    <3>1. \A i \in 1 .. k + 1 : ~(i <= k) => i = k + 1
      BY <1>1
    <3>2. (IF r > 0 THEN k + 1 ELSE k) = k + 1
      OBVIOUS
    <3>3. QED
      BY <1>6, <3>1, <3>2
  <2> HIDE DEF piece, taken
  <2>4. Taken(orders, more) = Append(taken, piece)
    <3>1. Taken(orders, more) = [i \in 1 .. k + 1 |-> IF i <= k THEN taken[i] ELSE piece]
      BY <1>1, <2>2, <2>3
    <3>2. /\ Append(taken, piece) \in Seq(SyntheticOrder)
          /\ Len(Append(taken, piece)) = k + 1
          /\ \A i \in 1 .. k + 1 :
               Append(taken, piece)[i] = IF i <= k THEN taken[i] ELSE piece
      BY <1>1, <2>1, <2>2
    <3> DEFINE longer == Append(taken, piece)
    <3>3. longer = [i \in 1 .. Len(longer) |-> longer[i]]
      BY <3>2, OrdersHaveQty DEF HasQty
    <3> HIDE DEF longer
    <3>4. longer = [i \in 1 .. k + 1 |-> IF i <= k THEN taken[i] ELSE piece]
      BY <3>2, <3>3 DEF longer
    <3>5. QED
      BY <3>1, <3>4 DEF longer
  <2>5. QED
    BY <1>4, <2>4 DEF piece, taken
<1>9. Left(orders, more) = [left EXCEPT ![1].qty = @ - r]
  BY <1>1, <1>3, <1>4, <1>7
<1>10. QED
  BY <1>5, <1>8, <1>9 DEF left, more, Piece, HeadReduced

(* A quantity that covers the whole queue takes all of it.                 *)
LEMMA TakenAll ==
    ASSUME NEW orders \in Seq(SyntheticOrder), NEW qty \in Nat, Resting(orders) <= qty
    PROVE  Taken(orders, qty) = orders /\ Left(orders, qty) = << >>
<1> DEFINE n == Len(orders)
<1>1. n \in 0 .. n /\ orders = [i \in 1 .. n |-> orders[i]]
  BY OrdersHaveQty DEF HasQty
<1>2. FullyConsumed(orders, qty) = n
  BY <1>1, CutUnique DEF Resting
<1>3. PartOfNext(orders, qty) = 0
  BY <1>2, CutFacts
<1>4. Taken(orders, qty) = [i \in 1 .. n |-> IF i <= n THEN orders[i]
                                             ELSE [orders[i] EXCEPT !.qty = 0]]
  BY <1>2, <1>3 DEF Taken
<1>5. Taken(orders, qty) = [i \in 1 .. n |-> orders[i]]
  BY <1>1, <1>4
<1>6. QED
  BY <1>1, <1>5, RestingLeft

-----------------------------------------------------------------------------
(* The invariant of the loop.                                              *)
Spent == qty0 - remaining

LoopInv ==
    /\ orders0 \in Seq(SyntheticOrder)
    /\ qty0 \in Nat /\ remaining \in Nat /\ remaining <= qty0
    /\ Spent <= Resting(orders0)
    /\ events = Taken(orders0, Spent)
    /\ queue = Left(orders0, Spent)
    /\ remaining > 0 => BetweenOrders(orders0, Spent)

LEMMA LoopInitInv == LoopInit => LoopInv
<1> SUFFICES ASSUME LoopInit PROVE LoopInv
  OBVIOUS
<1>1. orders0 \in Seq(SyntheticOrder)
  <2>0. PICK n \in 0 .. MaxOrders : \E q \in [1 .. n -> Qty \ {0}] :
          orders0 = [i \in 1 .. n |-> [order_id |-> i, qty |-> q[i]]]
    BY DEF LoopInit, Queues
  <2>1. PICK q \in [1 .. n -> Qty \ {0}] :
          orders0 = [i \in 1 .. n |-> [order_id |-> i, qty |-> q[i]]]
    BY <2>0
  <2>2. \A i \in 1 .. n : [order_id |-> i, qty |-> q[i]] \in SyntheticOrder
    BY <2>1 DEF SyntheticOrder
  <2>3. n \in Nat
    BY <2>1, LoopBoundAssumption
  <2>4. orders0 \in [1 .. n -> SyntheticOrder]
    BY <2>1, <2>2
  <2>5. QED
    BY <2>3, <2>4
<1>2. qty0 \in Nat /\ remaining = qty0 /\ Spent = 0
  BY LoopBoundAssumption, QtyModAssumption DEF LoopInit, Spent, Qty
<1>3. /\ Len(orders0) \in Nat /\ Cumulative(orders0)[0] = 0
      /\ orders0 = [i \in 1 .. Len(orders0) |-> orders0[i]]
      /\ 0 < Len(orders0) => 0 < orders0[1].qty
  <2>1. HasQty(orders0) /\ \A i \in 1 .. Len(orders0) : orders0[i].qty \in Nat \ {0}
    BY <1>1, OrdersHaveQty
  <2>2. PartialSums(Cumulative(orders0), orders0, Len(orders0))
    BY <2>1, CumulativeIsPartialSums
  <2>3. QED
    BY <2>1, <2>2 DEF HasQty, PartialSums
<1>4. FullyConsumed(orders0, 0) = 0 /\ BetweenOrders(orders0, 0)
  <2> DEFINE c == Cumulative(orders0)
  <2>1. 0 \in 0 .. Len(orders0) /\ 0 \in Nat /\ (0 < Len(orders0) => 0 < orders0[0 + 1].qty)
    BY <1>3
  <2>2. /\ FullyConsumed(orders0, c[0] + 0) = 0
        /\ PartOfNext(orders0, c[0] + 0) = 0
        /\ c[0] + 0 <= Resting(orders0)
    BY <1>1, <2>1, CutAt
  <2>3. c[0] + 0 = 0
    BY <1>3
  <2> HIDE DEF c
  <2>4. QED
    BY <2>2, <2>3 DEF BetweenOrders
<1>5. /\ Taken(orders0, 0) = [i \in 1 .. 0 |-> orders0[i]]
      /\ Left(orders0, 0) = [i \in 1 .. Len(orders0) - 0 |-> orders0[0 + i]]
  BY <1>1, <1>4, BoundaryFacts
<1>6. Taken(orders0, 0) = << >>
  BY <1>5
<1>7. Left(orders0, 0) = orders0
  BY <1>3, <1>5
<1>8. 0 <= Resting(orders0)
  BY <1>4 DEF BetweenOrders
<1>9. QED
  BY <1>1, <1>2, <1>4, <1>6, <1>7, <1>8 DEF LoopInv, LoopInit

LEMMA PopFrontInv == LoopInv /\ PopFront => LoopInv'
<1> SUFFICES ASSUME LoopInv, PopFront PROVE LoopInv'
  OBVIOUS
<1> DEFINE front == Head(Left(orders0, Spent))
           more  == Spent + front.qty
<1>1. /\ orders0 \in Seq(SyntheticOrder) /\ Spent \in Nat /\ remaining \in Nat
      /\ BetweenOrders(orders0, Spent) /\ Left(orders0, Spent) # << >>
      /\ queue = Left(orders0, Spent) /\ events = Taken(orders0, Spent)
      /\ front.qty <= remaining /\ front = Head(queue)
      /\ qty0 \in Nat /\ remaining <= qty0 /\ Spent = qty0 - remaining
  BY DEF LoopInv, PopFront, Looping, FrontFits, Spent
<1>2. /\ front \in SyntheticOrder
      /\ more \in Nat /\ BetweenOrders(orders0, more)
      /\ Taken(orders0, more) = Append(events, front)
      /\ Left(orders0, more) = Tail(queue)
  BY <1>1, NextPopped
<1>3. front.qty \in Nat
  BY <1>2, QtyModAssumption DEF SyntheticOrder, Qty
<1>4. /\ remaining' = remaining - front.qty
      /\ events' = Append(events, front) /\ queue' = Tail(queue)
      /\ orders0' = orders0 /\ qty0' = qty0
  BY <1>1 DEF PopFront
<1> HIDE DEF front
<1>5. Spent' = more /\ remaining' \in Nat /\ remaining' <= qty0' /\ qty0' \in Nat
  <2>1. Spent' = qty0' - remaining'
    BY DEF Spent
  <2>2. qty0 - (remaining - front.qty) = (qty0 - remaining) + front.qty
    BY <1>1, <1>3
  <2>3. qty0' - remaining' = more
    BY <1>1, <1>4, <2>2
  <2>4. remaining - front.qty \in Nat /\ remaining - front.qty <= qty0
    BY <1>1, <1>3
  <2>5. QED
    BY <1>1, <1>4, <2>1, <2>3, <2>4
<1>6. more <= Resting(orders0)
  BY <1>2 DEF BetweenOrders
<1> HIDE DEF more
<1>7. QED
  BY <1>1, <1>2, <1>4, <1>5, <1>6 DEF LoopInv

LEMMA ReduceFrontInv == LoopInv /\ ReduceFront => LoopInv'
<1> SUFFICES ASSUME LoopInv, ReduceFront PROVE LoopInv'
  OBVIOUS
<1> DEFINE more == Spent + remaining
<1>1. /\ orders0 \in Seq(SyntheticOrder) /\ Spent \in Nat /\ remaining \in Nat \ {0}
      /\ BetweenOrders(orders0, Spent) /\ Left(orders0, Spent) # << >>
      /\ queue = Left(orders0, Spent) /\ events = Taken(orders0, Spent)
      /\ ~(Head(queue).qty <= remaining)
  BY DEF LoopInv, ReduceFront, Looping, FrontFits, Spent
<1>2. Head(queue).qty \in Nat
  <2>1. Head(Left(orders0, Spent)) \in SyntheticOrder
    BY <1>1, NextPopped
  <2>2. QED
    BY <1>1, <2>1, QtyModAssumption DEF SyntheticOrder, Qty
<1>3. remaining < Head(Left(orders0, Spent)).qty
  BY <1>1, <1>2
<1>4. /\ more \in Nat /\ more <= Resting(orders0)
      /\ Taken(orders0, more) = Append(events, Piece(Head(queue), remaining))
      /\ Left(orders0, more) = HeadReduced(queue, remaining)
  <2>1. /\ more \in Nat /\ more <= Resting(orders0)
        /\ Taken(orders0, more) = Append(Taken(orders0, Spent),
                                       Piece(Head(Left(orders0, Spent)), remaining))
        /\ Left(orders0, more) = HeadReduced(Left(orders0, Spent), remaining)
    BY <1>1, <1>3, NextReduced
  <2> HIDE DEF more
  <2>2. Taken(orders0, more) = Append(events, Piece(Head(queue), remaining))
    BY <1>1, <2>1
  <2>3. Left(orders0, more) = HeadReduced(queue, remaining)
    BY <1>1, <2>1
  <2>4. QED
    BY <2>1, <2>2, <2>3
<1>5. Spent' = more /\ remaining' = 0 /\ qty0' = qty0 /\ qty0 \in Nat /\ orders0' = orders0
  BY <1>1 DEF Spent, LoopInv, ReduceFront
<1> HIDE DEF more
<1>6. events' = Taken(orders0, more) /\ queue' = Left(orders0, more)
  BY <1>4 DEF ReduceFront, Piece, HeadReduced
<1>7. QED
  BY <1>1, <1>4, <1>5, <1>6 DEF LoopInv

(* The loop keeps its invariant.                                           *)
THEOREM LoopInvariance == LoopSpec => []LoopInv
<1>1. LoopInv /\ [LoopNext]_loopVars => LoopInv'
  <2>1. LoopInv /\ UNCHANGED loopVars => LoopInv'
    BY DEF LoopInv, loopVars, Spent
  <2>2. QED
    BY <2>1, PopFrontInv, ReduceFrontInv DEF LoopNext
<1>2. QED
  BY <1>1, LoopInitInv, PTL DEF LoopSpec

(* Whatever the loop has done, no volume is lost or invented.              *)
THEOREM LoopConserves == LoopSpec => []VolumeConserved
<1>1. LoopInv => VolumeConserved
  <2> SUFFICES ASSUME LoopInv PROVE VolumeConserved
    OBVIOUS
  <2>1. /\ orders0 \in Seq(SyntheticOrder) /\ Spent \in Nat /\ Spent <= Resting(orders0)
        /\ qty0 \in Nat /\ remaining \in Nat /\ Spent = qty0 - remaining
        /\ events = Taken(orders0, Spent) /\ queue = Left(orders0, Spent)
    BY DEF LoopInv, Spent
  <2>2. Resting(orders0) \in Nat
    BY <2>1, OrdersHaveQty, RestingNat
  <2>3. Resting(events) = IF Spent < Resting(orders0) THEN Spent ELSE Resting(orders0)
    BY <2>1, TakenFacts
  <2>4. Resting(queue) = IF Spent < Resting(orders0) THEN Resting(orders0) - Spent ELSE 0
    BY <2>1, RestingLeft
  <2>5. QED
    BY <2>1, <2>2, <2>3, <2>4 DEF VolumeConserved
<1>2. QED
  BY <1>1, LoopInvariance, PTL

(* For every queue and every quantity, the loop ends in the closed form    *)
(* that the correlator's model is built from.                              *)
THEOREM LoopIsClosedForm == LoopSpec => []ComputesClosedForm
<1>1. LoopInv => ComputesClosedForm
  <2> SUFFICES ASSUME LoopInv, ~Looping PROVE ComputesClosedForm
    BY DEF ComputesClosedForm
  <2>1. /\ orders0 \in Seq(SyntheticOrder) /\ Spent \in Nat /\ Spent <= Resting(orders0)
        /\ qty0 \in Nat /\ remaining \in Nat /\ Spent = qty0 - remaining
        /\ events = Taken(orders0, Spent) /\ queue = Left(orders0, Spent)
        /\ remaining = 0 \/ queue = << >>
    BY DEF LoopInv, Spent, Looping
  <2>2. Resting(orders0) \in Nat
    BY <2>1, OrdersHaveQty, RestingNat
  <2>3. /\ events = Taken(orders0, qty0)
        /\ queue = Left(orders0, qty0)
        /\ Spent = IF qty0 < Resting(orders0) THEN qty0 ELSE Resting(orders0)
    <3>1. CASE remaining = 0
      <4>1. Spent = qty0
        BY <2>1, <3>1
      <4>2. QED
        BY <2>1, <2>2, <4>1
    <3>2. CASE queue = << >>
      <4>1. Resting(orders0) <= Spent
        BY <2>1, <3>2, RestingLeft
      <4>2. Spent = Resting(orders0) /\ Resting(orders0) <= qty0
        BY <2>1, <2>2, <4>1
      <4>3. Taken(orders0, Spent) = orders0 /\ Left(orders0, Spent) = << >>
        BY <2>1, <4>1, TakenAll
      <4>4. Taken(orders0, qty0) = orders0 /\ Left(orders0, qty0) = << >>
        BY <2>1, <4>2, TakenAll
      <4>5. QED
        BY <2>1, <2>2, <4>2, <4>3, <4>4
    <3>3. QED
      BY <2>1, <3>1, <3>2
  <2>4. ASSUME NEW total \in Qty
        PROVE  (total - (qty0 - remaining)) % QtyMod =
                 TotalLeft([total_qty |-> total, orders |-> orders0], qty0)
    BY <2>1, <2>3 DEF TotalLeft
  <2>5. QED
    BY <2>3, <2>4 DEF ComputesClosedForm
<1>2. QED
  BY <1>1, LoopInvariance, PTL
=============================================================================
