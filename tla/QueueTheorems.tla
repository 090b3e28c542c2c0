---------------------------- MODULE QueueTheorems ---------------------------
(***************************************************************************)
(* Facts about the queue operators of ShadowBook, for every queue and      *)
(* every quantity: the recursive sum is well defined, the closed form of   *)
(* the consume loop exists, and what it takes and leaves adds up.          *)
(*                                                                         *)
(* Induction over the naturals is used in the form "a set of naturals      *)
(* that holds 0 and is closed under successor is Nat", derived from the    *)
(* library's statement that < is well founded on Nat.                      *)
(***************************************************************************)
EXTENDS ShadowBook, WellFoundedInduction, TLAPS

LessThan == {ss \in Nat \X Nat : ss[1] < ss[2]}

(* < has no infinite descent on Nat, with the relation spelled out.        *)
LEMMA LessThanWellFounded == IsWellFoundedOn(LessThan, Nat)
<1>1. LessThan = OpToRel(<, Nat)
  BY Zenon DEF LessThan, OpToRel
<1>2. QED
  BY <1>1, NatLessThanWellFounded, Zenon

(* A nonempty set of naturals has a least element.                         *)
LEMMA LeastNatural ==
    ASSUME NEW S \in SUBSET Nat, S # {}
    PROVE  \E m \in S : \A k \in S : m <= k
<1>1. PICK m \in S : \A k \in S : ~(<<k, m>> \in LessThan)
  BY LessThanWellFounded, WFMin, Zenon
<1>2. \A k \in S : ~(k < m)
  BY <1>1 DEF LessThan
<1>3. \A k \in S : m <= k
  BY <1>2
<1>4. QED
  BY <1>3, Zenon

(* Induction, on a set instead of a predicate.                             *)
LEMMA NatInductionOnSet ==
    ASSUME NEW S \in SUBSET Nat, 0 \in S, \A n \in S : n + 1 \in S
    PROVE  S = Nat
<1>1. SUFFICES ASSUME Nat \ S # {} PROVE FALSE
  OBVIOUS
<1>2. PICK m \in Nat \ S : \A k \in Nat \ S : m <= k
  BY <1>1, LeastNatural
<1>3. m # 0 /\ m - 1 \in Nat
  OBVIOUS
<1>4. m - 1 \in S
  BY <1>2, <1>3
<1>5. QED
  BY <1>3, <1>4

-----------------------------------------------------------------------------
(* Queues of anything that has a quantity.                                 *)
HasQty(orders) == /\ orders = [i \in 1 .. Len(orders) |-> orders[i]]
                  /\ Len(orders) \in Nat
                  /\ \A i \in 1 .. Len(orders) : orders[i].qty \in Nat

(* f satisfies the recursion of the partial sums up to n.                  *)
Accumulates(f, orders, n) ==
    /\ f[0] = 0
    /\ \A i \in 1 .. n : f[i] = f[i - 1] + orders[i].qty

(* f is the sequence of partial sums of the first n quantities.            *)
PartialSums(f, orders, n) ==
    /\ f \in [0 .. n -> Nat]
    /\ f[0] = 0
    /\ \A i \in 1 .. n : f[i] = f[i - 1] + orders[i].qty

LEMMA PartialSumsExist ==
    ASSUME NEW orders, HasQty(orders), NEW n \in 0 .. Len(orders)
    PROVE  \E f : PartialSums(f, orders, n)
<1> DEFINE S == {m \in Nat : m <= Len(orders) => \E f : PartialSums(f, orders, m)}
<1>1. 0 \in S
  <2>1. PartialSums([i \in 0 .. 0 |-> 0], orders, 0)
    BY DEF PartialSums
  <2>2. QED
    BY <2>1
<1>2. ASSUME NEW m \in S PROVE m + 1 \in S
  <2>1. SUFFICES ASSUME m + 1 <= Len(orders)
                 PROVE  \E f : PartialSums(f, orders, m + 1)
    OBVIOUS
  <2>2. PICK f : PartialSums(f, orders, m)
    BY <2>1 DEF HasQty
  <2>3. orders[m + 1].qty \in Nat
    BY <2>1 DEF HasQty
  <2> DEFINE g == [i \in 0 .. m + 1 |-> IF i = m + 1 THEN f[m] + orders[m + 1].qty
                                                  ELSE f[i]]
  <2>4. f[m] \in Nat
    BY <2>2 DEF PartialSums
  <2>5. g \in [0 .. m + 1 -> Nat]
    BY <2>2, <2>3, <2>4 DEF PartialSums
  <2>6. ASSUME NEW i \in 1 .. m + 1 PROVE g[i] = g[i - 1] + orders[i].qty
    <3>1. CASE i = m + 1
      <4>1. g[i] = f[m] + orders[i].qty /\ g[i - 1] = f[m]
        BY <3>1
      <4>2. QED
        BY <4>1
    <3>2. CASE i # m + 1
      <4>1. i \in 1 .. m /\ g[i] = f[i] /\ g[i - 1] = f[i - 1]
        BY <3>2
      <4>2. QED
        BY <4>1, <2>2 DEF PartialSums
    <3>3. QED
      BY <3>1, <3>2
  <2>7. g[0] = 0
    BY <2>2 DEF PartialSums
  <2> HIDE DEF g
  <2>8. PartialSums(g, orders, m + 1)
    BY <2>5, <2>6, <2>7 DEF PartialSums
  <2>9. QED
    BY <2>8
<1>3. S = Nat
  <2> HIDE DEF S
  <2>1. S \in SUBSET Nat
    BY DEF S
  <2>2. QED
    BY <1>1, <1>2, <2>1, NatInductionOnSet
<1>4. QED
  BY <1>3 DEF HasQty

(* Two sequences of partial sums of the same queue agree.                  *)
LEMMA PartialSumsUnique ==
    ASSUME NEW orders, HasQty(orders), NEW n \in 0 .. Len(orders), NEW f, NEW g,
           Accumulates(f, orders, n), Accumulates(g, orders, n)
    PROVE  \A i \in 0 .. n : f[i] = g[i]
<1> DEFINE S == {m \in Nat : m <= n => f[m] = g[m]}
<1>1. 0 \in S
  BY DEF Accumulates
<1>2. ASSUME NEW m \in S PROVE m + 1 \in S
  BY DEF HasQty, Accumulates
<1>3. S = Nat
  <2> HIDE DEF S
  <2>1. S \in SUBSET Nat
    BY DEF S
  <2>2. QED
    BY <1>1, <1>2, <2>1, NatInductionOnSet
<1>4. QED
  BY <1>3 DEF HasQty

(* Cumulative, defined by recursion, satisfies its recursion.              *)
THEOREM CumulativeIsPartialSums ==
    ASSUME NEW orders, HasQty(orders)
    PROVE  PartialSums(Cumulative(orders), orders, Len(orders))
<1> DEFINE Rec(c) == [i \in 0 .. Len(orders) |->
                        IF i = 0 THEN 0 ELSE c[i - 1] + orders[i].qty]
<1> DEFINE C == CHOOSE c : c = Rec(c)
<1>1. PICK f : PartialSums(f, orders, Len(orders))
  BY PartialSumsExist DEF HasQty
<1>2. f = Rec(f)
  BY <1>1 DEF PartialSums, HasQty
<1>3. C = Rec(C)
  BY <1>2, Zenon
<1>4. Cumulative(orders) = C
  BY Zenon DEF Cumulative
<1> HIDE DEF C
<1>5. /\ C = [i \in 0 .. Len(orders) |-> C[i]]
      /\ C[0] = 0
      /\ \A i \in 1 .. Len(orders) : C[i] = C[i - 1] + orders[i].qty
  BY <1>3 DEF HasQty
<1>6. \A i \in 0 .. Len(orders) : f[i] = C[i]
  <2>1. Len(orders) \in 0 .. Len(orders)
    BY DEF HasQty
  <2>2. Accumulates(f, orders, Len(orders)) /\ Accumulates(C, orders, Len(orders))
    BY <1>1, <1>5 DEF PartialSums, Accumulates
  <2>3. QED
    BY <2>1, <2>2, PartialSumsUnique
<1>7. C \in [0 .. Len(orders) -> Nat]
  BY <1>1, <1>5, <1>6 DEF PartialSums
<1>8. QED
  BY <1>4, <1>5, <1>7 DEF PartialSums

(* A queue of orders is a queue of quantities, all of them positive.       *)
LEMMA OrdersHaveQty ==
    ASSUME NEW orders \in Seq(SyntheticOrder)
    PROVE  /\ HasQty(orders)
           /\ \A i \in 1 .. Len(orders) : orders[i] \in SyntheticOrder
           /\ \A i \in 1 .. Len(orders) : orders[i].qty \in Nat \ {0}
           /\ \A i \in 1 .. Len(orders) : orders[i].qty < QtyMod
<1>1. /\ Len(orders) \in Nat
      /\ \A i \in 1 .. Len(orders) : orders[i] \in SyntheticOrder
      /\ orders = [i \in 1 .. Len(orders) |-> orders[i]]
  OBVIOUS
<1>2. \A o \in SyntheticOrder : o.qty \in Nat \ {0} /\ o.qty < QtyMod
  BY QtyModAssumption DEF SyntheticOrder, Qty
<1>3. QED
  BY <1>1, <1>2 DEF HasQty

(* Partial sums never decrease.                                            *)
LEMMA CumulativeMonotone ==
    ASSUME NEW orders, HasQty(orders),
           NEW i \in 0 .. Len(orders), NEW j \in 0 .. Len(orders), i <= j
    PROVE  Cumulative(orders)[i] <= Cumulative(orders)[j]
<1> DEFINE c == Cumulative(orders)
<1>1. /\ c \in [0 .. Len(orders) -> Nat]
      /\ \A m \in 1 .. Len(orders) : c[m] = c[m - 1] + orders[m].qty
  BY CumulativeIsPartialSums DEF PartialSums
<1> HIDE DEF c
<1> DEFINE S == {m \in Nat : i + m <= Len(orders) => c[i] <= c[i + m]}
<1>2. 0 \in S
  BY <1>1 DEF HasQty
<1>3. ASSUME NEW m \in S PROVE m + 1 \in S
  <2>1. SUFFICES ASSUME i + (m + 1) <= Len(orders) PROVE c[i] <= c[i + (m + 1)]
    OBVIOUS
  <2>2. /\ i + m \in 0 .. Len(orders) /\ i + (m + 1) \in 1 .. Len(orders)
        /\ (i + (m + 1)) - 1 = i + m
    BY <2>1 DEF HasQty
  <2>3. c[i + (m + 1)] = c[i + m] + orders[i + (m + 1)].qty
    BY <1>1, <2>2
  <2>4. c[i] <= c[i + m]
    BY <2>2 DEF HasQty
  <2>5. orders[i + (m + 1)].qty \in Nat /\ c[i] \in Nat /\ c[i + m] \in Nat
    BY <1>1, <2>2 DEF HasQty
  <2>6. QED
    BY <2>3, <2>4, <2>5
<1>4. S = Nat
  <2> HIDE DEF S
  <2>1. S \in SUBSET Nat
    BY DEF S
  <2>2. QED
    BY <1>2, <1>3, <2>1, NatInductionOnSet
<1>5. /\ j - i \in Nat /\ i + (j - i) = j
      /\ i + (j - i) <= Len(orders)
  BY DEF HasQty
<1>6. j - i \in S
  BY <1>4, <1>5
<1>7. c[i] <= c[i + (j - i)]
  BY <1>5, <1>6
<1>8. QED
  BY <1>5, <1>7 DEF c

(* Any sequence of partial sums is the recursive one.                      *)
LEMMA RestingIsLastSum ==
    ASSUME NEW orders, HasQty(orders), NEW f, PartialSums(f, orders, Len(orders))
    PROVE  Resting(orders) = f[Len(orders)]
<1>1. PartialSums(Cumulative(orders), orders, Len(orders))
  BY CumulativeIsPartialSums
<1>2. Len(orders) \in 0 .. Len(orders)
  BY DEF HasQty
<1> DEFINE c == Cumulative(orders)
           n == Len(orders)
<1>3. Accumulates(c, orders, n) /\ Accumulates(f, orders, n)
  BY <1>1 DEF PartialSums, Accumulates
<1> HIDE DEF c, n
<1>4. n \in 0 .. Len(orders)
  BY <1>2 DEF n
<1>5. \A i \in 0 .. n : c[i] = f[i]
  BY <1>3, <1>4, PartialSumsUnique
<1>6. QED
  BY <1>2, <1>5 DEF Resting, c, n

LEMMA RestingNat ==
    ASSUME NEW orders, HasQty(orders)
    PROVE  Resting(orders) \in Nat
BY CumulativeIsPartialSums DEF PartialSums, Resting, HasQty

(* The end of the consume loop exists: how many orders are fully consumed. *)
THEOREM FullyConsumedFacts ==
    ASSUME NEW orders, HasQty(orders), NEW qty \in Nat
    PROVE  LET c == Cumulative(orders)
               k == FullyConsumed(orders, qty)
           IN  /\ k \in 0 .. Len(orders)
               /\ c[k] <= qty
               /\ k < Len(orders) => qty < c[k + 1]
<1> DEFINE c == Cumulative(orders)
           Stop(k) == c[k] <= qty /\ (k < Len(orders) => qty < c[k + 1])
           S == {k \in 0 .. Len(orders) : k < Len(orders) => qty < c[k + 1]}
<1>1. /\ c \in [0 .. Len(orders) -> Nat]
      /\ c[0] = 0
      /\ Len(orders) \in Nat
  BY CumulativeIsPartialSums DEF PartialSums, HasQty
<1> HIDE DEF c
<1>2. S \in SUBSET Nat /\ S # {}
  BY <1>1
<1>3. PICK k \in S : \A m \in S : k <= m
  BY <1>2, LeastNatural
<1>4. c[k] <= qty
  <2>1. CASE k = 0
    BY <1>1, <2>1
  <2>2. CASE k # 0
    <3>1. /\ k - 1 \in 0 .. Len(orders) /\ k - 1 < Len(orders)
          /\ (k - 1) + 1 = k /\ ~(k <= k - 1)
      BY <1>1, <2>2
    <3>2. k - 1 \notin S
      BY <1>3, <3>1
    <3>3. ~(qty < c[k])
      BY <3>1, <3>2
    <3>4. c[k] \in Nat
      BY <1>1
    <3>5. QED
      BY <3>3, <3>4
  <2>3. QED
    BY <2>1, <2>2
<1>5. \E m \in 0 .. Len(orders) : Stop(m)
  BY <1>3, <1>4
<1>6. LET m == CHOOSE m \in 0 .. Len(orders) : Stop(m)
      IN  m \in 0 .. Len(orders) /\ Stop(m)
  BY <1>5, Zenon
<1>7. QED
  BY <1>6, Zenon DEF FullyConsumed, c

-----------------------------------------------------------------------------
(* What the consume loop leaves and takes.                                 *)

(* The recursion of the sums and the cut, in one place.                    *)
LEMMA CutFacts ==
    ASSUME NEW orders \in Seq(SyntheticOrder), NEW qty \in Nat
    PROVE  LET c == Cumulative(orders)
               k == FullyConsumed(orders, qty)
               n == Len(orders)
               part == PartOfNext(orders, qty)
           IN  /\ n \in Nat /\ k \in 0 .. n
               /\ c \in [0 .. n -> Nat]
               /\ c[0] = 0
               /\ \A i \in 1 .. n : c[i] = c[i - 1] + orders[i].qty
               /\ c[k] <= qty
               /\ k < n => /\ k + 1 \in 1 .. n
                           /\ c[k + 1] = c[k] + orders[k + 1].qty
                           /\ part = qty - c[k]
                           /\ part \in Nat
                           /\ part < orders[k + 1].qty
                           /\ \A i \in 1 .. n - k : qty < c[k + i]
               /\ k = n => part = 0
<1> DEFINE c == Cumulative(orders)
           k == FullyConsumed(orders, qty)
           n == Len(orders)
<1>1. /\ n \in Nat
      /\ c \in [0 .. n -> Nat]
      /\ c[0] = 0
      /\ \A i \in 1 .. n : c[i] = c[i - 1] + orders[i].qty
  BY OrdersHaveQty, CumulativeIsPartialSums DEF PartialSums
<1>2. k \in 0 .. n /\ c[k] <= qty /\ (k < n => qty < c[k + 1])
  BY OrdersHaveQty, FullyConsumedFacts
<1>3. \A i \in 0 .. n, j \in 0 .. n : i <= j => c[i] <= c[j]
  BY OrdersHaveQty, CumulativeMonotone
<1>4. PartOfNext(orders, qty) = IF k < n THEN qty - c[k] ELSE 0
  BY DEF PartOfNext
<1>5. \A i \in 1 .. n : orders[i].qty \in Nat
  BY OrdersHaveQty DEF HasQty
<1> HIDE DEF c, k, n
<1>6. ASSUME k < n
      PROVE  /\ k + 1 \in 1 .. n
             /\ c[k + 1] = c[k] + orders[k + 1].qty
             /\ \A i \in 1 .. n - k : qty < c[k + i]
  <2>1. k + 1 \in 1 .. n /\ (k + 1) - 1 = k
    BY <1>1, <1>2, <1>6
  <2>2. c[k + 1] = c[k] + orders[k + 1].qty
    BY <1>1, <2>1
  <2>3. ASSUME NEW i \in 1 .. n - k PROVE qty < c[k + i]
    <3>1. k + i \in 0 .. n /\ k + 1 <= k + i /\ k + 1 \in 0 .. n
      BY <1>1, <1>2
    <3>2. c[k + 1] <= c[k + i]
      BY <1>3, <3>1
    <3>3. c[k + 1] \in Nat /\ c[k + i] \in Nat
      BY <1>1, <3>1
    <3>4. QED
      BY <1>2, <1>6, <3>2, <3>3
  <2>4. QED
    BY <2>1, <2>2, <2>3
<1>7. ASSUME k < n
      PROVE  qty - c[k] \in Nat /\ qty - c[k] < orders[k + 1].qty
  <2>1. c[k] \in Nat /\ orders[k + 1].qty \in Nat
    BY <1>1, <1>2, <1>5, <1>6, <1>7
  <2>2. QED
    BY <1>2, <1>6, <1>7, <2>1
<1>8. QED
  BY <1>1, <1>2, <1>4, <1>6, <1>7 DEF c, k, n

(* The queue that is left is the tail of the queue, its head reduced but   *)
(* never to zero.                                                          *)
LEMMA LeftFacts ==
    ASSUME NEW orders \in Seq(SyntheticOrder), NEW qty \in Nat
    PROVE  LET k == FullyConsumed(orders, qty)
               n == Len(orders)
               left == Left(orders, qty)
           IN  /\ left \in Seq(SyntheticOrder)
               /\ Len(left) = n - k
               /\ \A i \in 1 .. n - k : left[i].order_id = orders[k + i].order_id
               /\ \A i \in 2 .. n - k : left[i] = orders[k + i]
               /\ k < n => left[1].qty = orders[k + 1].qty - PartOfNext(orders, qty)
<1> DEFINE k == FullyConsumed(orders, qty)
           n == Len(orders)
           part == PartOfNext(orders, qty)
           left == Left(orders, qty)
<1>1. /\ n \in Nat /\ k \in 0 .. n
      /\ k < n => /\ part \in Nat /\ part < orders[k + 1].qty
  BY CutFacts
<1>2. /\ \A i \in 1 .. n : orders[i] \in SyntheticOrder
  BY OrdersHaveQty
<1>3. left = [i \in 1 .. n - k |->
               IF i = 1 THEN [orders[k + 1] EXCEPT !.qty = @ - part] ELSE orders[k + i]]
  BY Zenon DEF Left
<1> HIDE DEF k, n, part, left
<1>4. ASSUME NEW i \in 1 .. n - k
      PROVE  /\ k + i \in 1 .. n /\ k + 1 \in 1 .. n /\ k < n
  BY <1>1
<1>5. ASSUME NEW o \in SyntheticOrder, NEW m \in Nat, m < o.qty
      PROVE  /\ [o EXCEPT !.qty = @ - m] \in SyntheticOrder
             /\ [o EXCEPT !.qty = @ - m].order_id = o.order_id
             /\ [o EXCEPT !.qty = @ - m].qty = o.qty - m
  <2>1. /\ o.order_id \in Nat /\ o.qty \in Qty \ {0}
        /\ o = [order_id |-> o.order_id, qty |-> o.qty]
    BY DEF SyntheticOrder
  <2>2. [o EXCEPT !.qty = @ - m] = [order_id |-> o.order_id, qty |-> o.qty - m]
    BY <2>1
  <2>3. o.qty - m \in Qty \ {0}
    BY <1>5, <2>1, QtyModAssumption DEF Qty
  <2>4. QED
    BY <2>1, <2>2, <2>3 DEF SyntheticOrder
<1>6. ASSUME NEW i \in 1 .. n - k
      PROVE  /\ left[i] \in SyntheticOrder
             /\ left[i].order_id = orders[k + i].order_id
             /\ i # 1 => left[i] = orders[k + i]
             /\ i = 1 => left[i].qty = orders[k + 1].qty - part
  <2>1. CASE i = 1
    <3>1. left[i] = [orders[k + 1] EXCEPT !.qty = @ - part]
      BY <1>3, <2>1
    <3>2. orders[k + 1] \in SyntheticOrder /\ part \in Nat /\ part < orders[k + 1].qty
      BY <1>1, <1>2, <1>4
    <3>3. QED
      BY <1>5, <2>1, <3>1, <3>2
  <2>2. CASE i # 1
    BY <1>2, <1>3, <1>4, <2>2
  <2>3. QED
    BY <2>1, <2>2
<1>7. n - k \in Nat
  BY <1>1
<1>8. left \in [1 .. n - k -> SyntheticOrder]
  BY <1>3, <1>6
<1>9. left \in Seq(SyntheticOrder) /\ Len(left) = n - k
  BY <1>7, <1>8
<1>10. k < n => 1 \in 1 .. n - k
  BY <1>1
<1>11. \A i \in 2 .. n - k : i \in 1 .. n - k /\ i # 1
  BY <1>1
<1>12. QED
  BY <1>6, <1>9, <1>10, <1>11 DEF k, n, part, left

(* Consuming qty takes exactly qty out of the queue, or all of it.         *)
THEOREM RestingLeft ==
    ASSUME NEW orders \in Seq(SyntheticOrder), NEW qty \in Nat
    PROVE  /\ Left(orders, qty) = << >> <=> Resting(orders) <= qty
           /\ Resting(Left(orders, qty)) =
                IF qty < Resting(orders) THEN Resting(orders) - qty ELSE 0
<1> DEFINE k == FullyConsumed(orders, qty)
           n == Len(orders)
           c == Cumulative(orders)
           part == PartOfNext(orders, qty)
           left == Left(orders, qty)
<1>1. /\ n \in Nat /\ k \in 0 .. n
      /\ c \in [0 .. n -> Nat]
      /\ \A i \in 1 .. n : c[i] = c[i - 1] + orders[i].qty
      /\ c[k] <= qty
      /\ k < n => /\ c[k + 1] = c[k] + orders[k + 1].qty
                  /\ part = qty - c[k]
                  /\ \A i \in 1 .. n - k : qty < c[k + i]
  BY CutFacts
<1>2. /\ left \in Seq(SyntheticOrder)
      /\ Len(left) = n - k
      /\ \A i \in 2 .. n - k : left[i] = orders[k + i]
      /\ k < n => left[1].qty = orders[k + 1].qty - part
  BY LeftFacts
<1>3. \A i \in 1 .. n : orders[i].qty \in Nat
  BY OrdersHaveQty DEF HasQty
<1>4. HasQty(left)
  BY <1>2, OrdersHaveQty
<1>5. Resting(orders) = c[n]
  BY DEF Resting
<1> DEFINE f == [i \in 0 .. n - k |-> IF i = 0 THEN 0 ELSE c[k + i] - qty]
<1> HIDE DEF k, n, c, part, left
<1>6. f \in [0 .. n - k -> Nat]
  <2>1. ASSUME NEW i \in 0 .. n - k, i # 0 PROVE c[k + i] - qty \in Nat
    <3>1. i \in 1 .. n - k /\ k + i \in 0 .. n /\ k < n
      BY <1>1, <2>1
    <3>2. c[k + i] \in Nat /\ qty < c[k + i]
      BY <1>1, <3>1
    <3>3. QED
      BY <3>2
  <2>2. QED
    BY <2>1
<1>7. ASSUME NEW i \in 1 .. n - k PROVE f[i] = f[i - 1] + left[i].qty
  <2>1. /\ k < n /\ k + i \in 1 .. n /\ k + 1 \in 1 .. n /\ i \in 0 .. n - k
        /\ i - 1 \in 0 .. n - k /\ (k + i) - 1 = k + (i - 1) /\ k + (i - 1) \in 0 .. n
    BY <1>1
  <2>2. f[i] = c[k + i] - qty
    BY <2>1
  <2>3. CASE i = 1
    <3>0. f[0] = 0
      BY <1>1
    <3>1. left[1].qty = orders[k + 1].qty - (qty - c[k]) /\ f[i - 1] = 0
      <4> HIDE DEF f
      <4>1. i - 1 = 0
        BY <2>3
      <4>2. QED
        BY <1>1, <1>2, <2>1, <3>0, <4>1
    <3>2. f[i] = (c[k] + orders[k + 1].qty) - qty
      BY <1>1, <2>1, <2>2, <2>3
    <3>3. c[k] \in Nat /\ orders[k + 1].qty \in Nat
      BY <1>1, <1>3, <2>1
    <3> HIDE DEF f
    <3>4. QED
      BY <2>3, <3>1, <3>2, <3>3
  <2>4. CASE i # 1
    <3>1. i \in 2 .. n - k
      BY <2>4
    <3>2. left[i].qty = orders[k + i].qty
      BY <1>2, <3>1
    <3>3. f[i - 1] = c[k + (i - 1)] - qty
      BY <2>1, <2>4
    <3>4. c[k + i] = c[k + (i - 1)] + orders[k + i].qty
      BY <1>1, <2>1
    <3>5. c[k + (i - 1)] \in Nat /\ orders[k + i].qty \in Nat
      BY <1>1, <1>3, <2>1
    <3> HIDE DEF f
    <3>6. QED
      BY <2>2, <3>2, <3>3, <3>4, <3>5
  <2>5. QED
    BY <2>3, <2>4
<1>8. n - k \in Nat /\ f[0] = 0 /\ f[n - k] = IF k < n THEN c[n] - qty ELSE 0
  <2>1. n - k \in Nat /\ 0 \in 0 .. n - k /\ n - k \in 0 .. n - k /\ k + (n - k) = n
    BY <1>1
  <2>2. k < n <=> n - k # 0
    BY <1>1
  <2>3. QED
    BY <2>1, <2>2
<1> HIDE DEF f
<1>9. PartialSums(f, left, Len(left))
  BY <1>2, <1>6, <1>7, <1>8 DEF PartialSums
<1>10. Resting(left) = IF k < n THEN c[n] - qty ELSE 0
  BY <1>2, <1>4, <1>8, <1>9, RestingIsLastSum
<1>11. k < n <=> qty < c[n]
  <2>1. CASE k < n
    <3>1. n - k \in 1 .. n - k /\ k + (n - k) = n
      BY <1>1, <2>1
    <3>2. QED
      BY <1>1, <2>1, <3>1
  <2>2. CASE k = n
    BY <1>1, <2>2
  <2>3. QED
    BY <1>1, <2>1, <2>2
<1>12. c[n] \in Nat
  BY <1>1
<1>13. left = << >> <=> c[n] <= qty
  BY <1>1, <1>2, <1>11, <1>12
<1>14. QED
  BY <1>5, <1>10, <1>11, <1>13 DEF left

(* Adding an order adds its quantity.                                      *)
THEOREM RestingAppend ==
    ASSUME NEW orders \in Seq(SyntheticOrder), NEW o \in SyntheticOrder
    PROVE  /\ Append(orders, o) \in Seq(SyntheticOrder)
           /\ Resting(Append(orders, o)) = Resting(orders) + o.qty
<1> DEFINE n == Len(orders)
           c == Cumulative(orders)
           new == Append(orders, o)
           f == [i \in 0 .. n + 1 |-> IF i = n + 1 THEN c[n] + o.qty ELSE c[i]]
<1>1. /\ n \in Nat
      /\ c \in [0 .. n -> Nat]
      /\ c[0] = 0
      /\ \A i \in 1 .. n : c[i] = c[i - 1] + orders[i].qty
  BY OrdersHaveQty, CumulativeIsPartialSums DEF PartialSums, HasQty
<1>2. /\ new \in Seq(SyntheticOrder)
      /\ Len(new) = n + 1
      /\ \A i \in 1 .. n : new[i] = orders[i]
      /\ new[n + 1] = o
  OBVIOUS
<1>3. o.qty \in Nat
  BY QtyModAssumption DEF SyntheticOrder, Qty
<1>4. HasQty(new)
  BY <1>2, OrdersHaveQty
<1>5. Resting(orders) = c[n]
  BY DEF Resting
<1> HIDE DEF n, c, new
<1>6. f \in [0 .. n + 1 -> Nat]
  BY <1>1, <1>3
<1>7. f[0] = 0 /\ f[n + 1] = c[n] + o.qty
  BY <1>1
<1>8. ASSUME NEW i \in 1 .. n + 1 PROVE f[i] = f[i - 1] + new[i].qty
  <2>1. CASE i = n + 1
    <3>1. i - 1 = n /\ f[i - 1] = c[n] /\ f[i] = c[n] + o.qty
      BY <1>1, <2>1
    <3>2. QED
      BY <1>2, <2>1, <3>1
  <2>2. CASE i # n + 1
    <3>1. i \in 1 .. n /\ f[i] = c[i] /\ f[i - 1] = c[i - 1]
      BY <1>1, <2>2
    <3>2. QED
      BY <1>1, <1>2, <3>1
  <2>3. QED
    BY <2>1, <2>2
<1> HIDE DEF f
<1>9. PartialSums(f, new, Len(new))
  BY <1>2, <1>6, <1>7, <1>8 DEF PartialSums
<1>10. Resting(new) = f[n + 1]
  BY <1>2, <1>4, <1>9, RestingIsLastSum
<1>11. QED
  BY <1>2, <1>5, <1>7, <1>10 DEF new

(* What is taken: orders of the queue, from its front, in order, each with *)
(* a positive quantity, adding up to qty or to the whole queue.            *)
THEOREM TakenFacts ==
    ASSUME NEW orders \in Seq(SyntheticOrder), NEW qty \in Nat
    PROVE  LET taken == Taken(orders, qty)
           IN  /\ taken \in Seq(SyntheticOrder)
               /\ Len(taken) <= Len(orders)
               /\ \A i \in 1 .. Len(taken) : taken[i].order_id = orders[i].order_id
               /\ Resting(taken) = IF qty < Resting(orders) THEN qty
                                                            ELSE Resting(orders)
<1> DEFINE k == FullyConsumed(orders, qty)
           n == Len(orders)
           c == Cumulative(orders)
           part == PartOfNext(orders, qty)
           m == IF part > 0 THEN k + 1 ELSE k
           taken == Taken(orders, qty)
           f == [i \in 0 .. m |-> IF i <= k THEN c[i] ELSE qty]
<1>1. /\ n \in Nat /\ k \in 0 .. n
      /\ c \in [0 .. n -> Nat]
      /\ c[0] = 0
      /\ \A i \in 1 .. n : c[i] = c[i - 1] + orders[i].qty
      /\ c[k] <= qty
      /\ k < n => /\ k + 1 \in 1 .. n
                  /\ c[k + 1] = c[k] + orders[k + 1].qty
                  /\ part = qty - c[k]
                  /\ part \in Nat
                  /\ part < orders[k + 1].qty
                  /\ \A i \in 1 .. n - k : qty < c[k + i]
      /\ k = n => part = 0
  BY CutFacts
<1>2. taken = [i \in 1 .. m |-> IF i <= k THEN orders[i]
                                ELSE [orders[i] EXCEPT !.qty = part]]
  BY Zenon DEF Taken
<1>3. \A i \in 1 .. n : orders[i] \in SyntheticOrder /\ orders[i].qty \in Nat
  BY OrdersHaveQty DEF HasQty
<1>4. Resting(orders) = c[n]
  BY DEF Resting
<1> HIDE DEF k, n, c, part, taken
<1>5. /\ m \in 0 .. n /\ m \in Nat
      /\ m = IF part > 0 THEN k + 1 ELSE k
      /\ m # k => m = k + 1 /\ part > 0 /\ k < n
  BY <1>1
<1>6. ASSUME NEW o \in SyntheticOrder, NEW q \in Nat, 0 < q, q < o.qty
      PROVE  /\ [o EXCEPT !.qty = q] \in SyntheticOrder
             /\ [o EXCEPT !.qty = q].order_id = o.order_id
             /\ [o EXCEPT !.qty = q].qty = q
  BY <1>6, QtyModAssumption DEF SyntheticOrder, Qty
<1> HIDE DEF m
<1>7. ASSUME NEW i \in 1 .. m
      PROVE  /\ taken[i] \in SyntheticOrder
             /\ taken[i].order_id = orders[i].order_id
             /\ i <= k => taken[i].qty = orders[i].qty
             /\ ~(i <= k) => taken[i].qty = part
  <2>1. CASE i <= k
    <3>1. taken[i] = orders[i] /\ i \in 1 .. n
      BY <1>1, <1>2, <2>1
    <3>2. QED
      BY <1>3, <2>1, <3>1
  <2>2. CASE ~(i <= k)
    <3>1. i = k + 1 /\ k < n /\ part > 0 /\ i \in 1 .. n
      BY <1>1, <1>5, <2>2
    <3>2. taken[i] = [orders[i] EXCEPT !.qty = part]
      BY <1>2, <2>2
    <3>3. part \in Nat /\ part < orders[i].qty /\ orders[i] \in SyntheticOrder
      BY <1>1, <1>3, <3>1
    <3>4. QED
      BY <1>6, <2>2, <3>1, <3>2, <3>3
  <2>3. QED
    BY <2>1, <2>2
<1>8. taken \in Seq(SyntheticOrder) /\ Len(taken) = m
  <2>1. taken \in [1 .. m -> SyntheticOrder]
    BY <1>2, <1>7
  <2>2. QED
    BY <1>5, <2>1
<1>9. f \in [0 .. m -> Nat]
  BY <1>1, <1>5
<1>10. f[0] = 0 /\ f[m] = IF m = k THEN c[k] ELSE qty
  BY <1>1, <1>5
<1>11. ASSUME NEW i \in 1 .. m PROVE f[i] = f[i - 1] + taken[i].qty
  <2>1. i \in 0 .. m /\ i - 1 \in 0 .. m
    BY <1>5
  <2>2. CASE i <= k
    <3>1. f[i] = c[i] /\ f[i - 1] = c[i - 1]
      BY <1>1, <2>1, <2>2
    <3>2. i \in 1 .. n
      BY <1>1, <2>2
    <3>3. QED
      BY <1>1, <1>7, <2>2, <3>1, <3>2
  <2>3. CASE ~(i <= k)
    <3>1. i = k + 1 /\ k < n /\ i - 1 = k
      BY <1>1, <1>5, <2>3
    <3>2. f[i] = qty
      BY <2>1, <2>3
    <3>3. f[i - 1] = c[k]
      BY <1>1, <2>1, <3>1
    <3>4. taken[i].qty = qty - c[k] /\ c[k] \in Nat
      BY <1>1, <1>7, <2>3, <3>1
    <3> HIDE DEF f
    <3>5. QED
      BY <3>2, <3>3, <3>4
  <2>4. QED
    BY <2>2, <2>3
<1> HIDE DEF f
<1>12. HasQty(taken)
  BY <1>8, OrdersHaveQty
<1>13. PartialSums(f, taken, Len(taken))
  BY <1>8, <1>9, <1>10, <1>11 DEF PartialSums
<1>14. Resting(taken) = IF m = k THEN c[k] ELSE qty
  BY <1>8, <1>10, <1>12, <1>13, RestingIsLastSum
<1>15. IF qty < c[n] THEN Resting(taken) = qty ELSE Resting(taken) = c[n]
  <2>1. CASE k = n
    <3>1. m = k /\ c[n] \in Nat /\ c[n] <= qty
      BY <1>1, <1>5, <2>1
    <3>2. QED
      BY <1>14, <2>1, <3>1
  <2>2. CASE k < n
    <3>1. n - k \in 1 .. n - k /\ k + (n - k) = n
      BY <1>1, <2>2
    <3>2. qty < c[n]
      BY <1>1, <2>2, <3>1
    <3>3. m = k => c[k] = qty
      <4>1. c[k] \in Nat
        BY <1>1
      <4>2. QED
        BY <1>1, <1>5, <2>2, <4>1
    <3>4. QED
      BY <1>14, <3>2, <3>3
  <2>3. QED
    BY <1>1, <2>1, <2>2
<1>16. Len(taken) <= Len(orders)
  BY <1>5, <1>8 DEF n
<1>17. QED
  BY <1>4, <1>7, <1>8, <1>15, <1>16 DEF taken
=============================================================================
