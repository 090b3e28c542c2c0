------------------------ MODULE MarketDataHandlerProofs -----------------------
(***************************************************************************)
(* The order tracker and the two shadow books, for every value of the      *)
(* constants: the tracker counts every order the books issue, and as long  *)
(* as no order id was issued twice it holds exactly what rests in the      *)
(* books, so that no fill or cancel ever surprises it.                     *)
(***************************************************************************)
EXTENDS MarketDataHandler, L3StreamProofs

(* f lists the states of the tracker as it is told the events one by one.  *)
Tells(f, tr, events, n) ==
    /\ f = [i \in 0 .. n |-> f[i]]
    /\ f[0] = tr
    /\ \A i \in 1 .. n : f[i] = OnEvent(f[i - 1], events[i])

LEMMA TellsExist ==
    ASSUME NEW tr, NEW events, Len(events) \in Nat, NEW n \in 0 .. Len(events)
    PROVE  \E f : Tells(f, tr, events, n)
<1> DEFINE S == {m \in Nat : m <= Len(events) => \E f : Tells(f, tr, events, m)}
<1>1. 0 \in S
  <2> DEFINE f == [i \in 0 .. 0 |-> tr]
  <2>1. f[0] = tr /\ f = [i \in 0 .. 0 |-> f[i]] /\ 1 .. 0 = {}
    OBVIOUS
  <2> HIDE DEF f
  <2>2. Tells(f, tr, events, 0)
    BY <2>1 DEF Tells
  <2>3. QED
    BY <2>2
<1>2. ASSUME NEW m \in S PROVE m + 1 \in S
  <2>1. SUFFICES ASSUME m + 1 <= Len(events)
                 PROVE  \E f : Tells(f, tr, events, m + 1)
    OBVIOUS
  <2>2. PICK f : Tells(f, tr, events, m)
    BY <2>1
  <2> DEFINE new == OnEvent(f[m], events[m + 1])
             g == [i \in 0 .. m + 1 |-> IF i = m + 1 THEN new ELSE f[i]]
  <2> HIDE DEF new
  <2>3. g = [i \in 0 .. m + 1 |-> g[i]]
    OBVIOUS
  <2>4. ASSUME NEW i \in 1 .. m + 1 PROVE g[i] = OnEvent(g[i - 1], events[i])
    <3>1. CASE i = m + 1
      <4>1. g[i] = new /\ g[i - 1] = f[m]
        BY <3>1
      <4>2. QED
        BY <3>1, <4>1 DEF new
    <3>2. CASE i # m + 1
      <4>1. i \in 1 .. m /\ g[i] = f[i] /\ g[i - 1] = f[i - 1]
        BY <3>2
      <4>2. QED
        BY <4>1, <2>2 DEF Tells
    <3>3. QED
      BY <3>1, <3>2
  <2>5. g[0] = tr
    BY <2>2 DEF Tells
  <2> HIDE DEF g
  <2>6. Tells(g, tr, events, m + 1)
    BY <2>3, <2>4, <2>5 DEF Tells
  <2>7. QED
    BY <2>6
<1>3. S = Nat
  <2> HIDE DEF S
  <2>1. S \in SUBSET Nat
    BY DEF S
  <2>2. QED
    BY <1>1, <1>2, <2>1, NatInductionOnSet
<1>4. QED
  BY <1>3

(* OnEvents, defined by recursion, is the last of them.                    *)
LEMMA OnEventsIsLast ==
    ASSUME NEW tr, NEW events, Len(events) \in Nat
    PROVE  \E f : /\ Tells(f, tr, events, Len(events))
                  /\ OnEvents(tr, events) = f[Len(events)]
<1> DEFINE n == Len(events)
           Rec(c) == [i \in 0 .. n |-> IF i = 0 THEN tr ELSE OnEvent(c[i - 1], events[i])]
           C == CHOOSE c : c = Rec(c)
<1>1. PICK f : Tells(f, tr, events, n)
  <2>1. Len(events) \in 0 .. Len(events)
    OBVIOUS
  <2>2. QED
    BY <2>1, TellsExist
<1>2. f = Rec(f)
  <2>1. ASSUME NEW i \in 0 .. n
        PROVE  f[i] = IF i = 0 THEN tr ELSE OnEvent(f[i - 1], events[i])
    <3>1. i = 0 \/ i \in 1 .. n
      OBVIOUS
    <3>2. QED
      BY <1>1, <3>1, Zenon DEF Tells
  <2>2. [i \in 0 .. n |-> f[i]] = Rec(f)
    BY <2>1, Zenon
  <2>3. QED
    BY <1>1, <2>2, Zenon DEF Tells
<1>3. C = Rec(C)
  BY <1>2, Zenon
<1>4. OnEvents(tr, events) = C[n]
  BY Zenon DEF OnEvents
<1> HIDE DEF C
<1>5. C = [i \in 0 .. n |-> C[i]]
  <2>1. C = [i \in 0 .. n |-> IF i = 0 THEN tr ELSE OnEvent(C[i - 1], events[i])]
    BY <1>3
  <2>2. \A i \in 0 .. n : C[i] = IF i = 0 THEN tr ELSE OnEvent(C[i - 1], events[i])
    BY <2>1, Zenon
  <2>3. QED
    BY <2>1, <2>2, Zenon
<1>6. C[0] = tr
  BY <1>3
<1>7. ASSUME NEW i \in 1 .. n PROVE C[i] = OnEvent(C[i - 1], events[i])
  <2>1. i \in 0 .. n /\ i # 0
    OBVIOUS
  <2>2. QED
    BY <1>3, <2>1, Zenon
<1>8. Tells(C, tr, events, n)
  BY <1>5, <1>6, <1>7 DEF Tells
<1>9. QED
  BY <1>4, <1>8

(* Without events the tracker does not move.                               *)
LEMMA NothingTold ==
    ASSUME NEW tr
    PROVE  OnEvents(tr, << >>) = tr
<1>1. Len(<< >>) = 0
  OBVIOUS
<1>2. PICK f : Tells(f, tr, << >>, 0) /\ OnEvents(tr, << >>) = f[0]
  BY <1>1, OnEventsIsLast
<1>3. QED
  BY <1>2 DEF Tells

-----------------------------------------------------------------------------
(* One event.                                                              *)
LiveOrder == [price : Prices, qty : Qty \ {0}, side : Side]

IsTracker(tr) ==
    /\ tr = [live_orders |-> tr.live_orders, stats |-> tr.stats]
    /\ tr.stats \in TrackerStats
    /\ tr.live_orders \in [DOMAIN tr.live_orders -> LiveOrder]

LEMMA AddTold ==
    ASSUME NEW tr, IsTracker(tr), NEW ev \in L3Event, ev.type = "OrderAdd"
    PROVE  LET new == OnEvent(tr, ev)
               id  == ev.order_id
           IN  /\ IsTracker(new)
               /\ new.stats.total_adds + new.stats.duplicate_add =
                    tr.stats.total_adds + tr.stats.duplicate_add + 1
               /\ DOMAIN new.live_orders = DOMAIN tr.live_orders \cup {id}
               /\ id \in DOMAIN tr.live_orders =>
                    new.stats.duplicate_add = tr.stats.duplicate_add + 1
               /\ id \notin DOMAIN tr.live_orders =>
                    new.stats.duplicate_add = tr.stats.duplicate_add
               /\ new.stats.duplicate_add = 0 =>
                    /\ id \notin DOMAIN tr.live_orders
                    /\ tr.stats.duplicate_add = 0
                    /\ new.stats.unknown_order_id = tr.stats.unknown_order_id
                    /\ new.stats.qty_exceed = tr.stats.qty_exceed
                    /\ new.live_orders[id] =
                         [price |-> ev.price, qty |-> ev.qty, side |-> ev.side]
                    /\ \A x \in DOMAIN tr.live_orders :
                         new.live_orders[x] = tr.live_orders[x]
<1> DEFINE new  == OnEvent(tr, ev)
           id   == ev.order_id
           live == tr.live_orders
           o    == [price |-> ev.price, qty |-> ev.qty, side |-> ev.side]
<1>1. new = HandleAdd(tr, ev)
  BY DEF OnEvent
<1>2. o \in LiveOrder
  BY DEF L3Event, LiveOrder
<1>3. /\ tr.stats \in TrackerStats
      /\ live \in [DOMAIN live -> LiveOrder]
      /\ tr = [live_orders |-> live, stats |-> tr.stats]
  BY DEF IsTracker
<1>4. CASE id \in DOMAIN live
  <2>1. new = [live_orders |-> live,
               stats |-> [tr.stats EXCEPT !.duplicate_add = @ + 1]]
    BY <1>1, <1>3, <1>4 DEF HandleAdd
  <2>2. new.live_orders = live /\ new.stats = [tr.stats EXCEPT !.duplicate_add = @ + 1]
    BY <2>1
  <2>3. /\ new.stats \in TrackerStats
        /\ new.stats.total_adds = tr.stats.total_adds
        /\ new.stats.duplicate_add = tr.stats.duplicate_add + 1
        /\ tr.stats.duplicate_add \in Nat /\ tr.stats.total_adds \in Nat
    BY <1>3, <2>2 DEF TrackerStats
  <2>4. new = [live_orders |-> new.live_orders, stats |-> new.stats]
    BY <2>1
  <2> HIDE DEF new
  <2>5. QED
    BY <1>3, <1>4, <2>2, <2>3, <2>4 DEF IsTracker, new
<1>5. CASE id \notin DOMAIN live
  <2> DEFINE more == [x \in DOMAIN live \cup {id} |-> IF x = id THEN o ELSE live[x]]
  <2>1. new = [live_orders |-> more, stats |-> [tr.stats EXCEPT !.total_adds = @ + 1]]
    BY <1>1, <1>3, <1>5 DEF HandleAdd
  <2>2. new.live_orders = more /\ new.stats = [tr.stats EXCEPT !.total_adds = @ + 1]
    BY <2>1
  <2>3. /\ new.stats \in TrackerStats
        /\ new.stats.total_adds = tr.stats.total_adds + 1
        /\ new.stats.duplicate_add = tr.stats.duplicate_add
        /\ new.stats.unknown_order_id = tr.stats.unknown_order_id
        /\ new.stats.qty_exceed = tr.stats.qty_exceed
        /\ tr.stats.duplicate_add \in Nat /\ tr.stats.total_adds \in Nat
    BY <1>3, <2>2 DEF TrackerStats
  <2>4. new = [live_orders |-> new.live_orders, stats |-> new.stats]
    BY <2>1
  <2>5. /\ DOMAIN more = DOMAIN live \cup {id}
        /\ more[id] = o
        /\ \A x \in DOMAIN live : more[x] = live[x]
    BY <1>5
  <2>6. more \in [DOMAIN more -> LiveOrder]
    BY <1>2, <1>3
  <2> HIDE DEF new, more
  <2>7. IsTracker(new)
    BY <2>2, <2>3, <2>4, <2>6 DEF IsTracker
  <2>8. QED
    BY <1>5, <2>2, <2>3, <2>5, <2>7 DEF new
<1>6. QED
  BY <1>4, <1>5

(* A fill or a cancel of a live order, of no more than it has left.        *)
LEMMA ReduceTold ==
    ASSUME NEW tr, IsTracker(tr), NEW ev \in L3Event, ev.type # "OrderAdd"
    PROVE  LET new == OnEvent(tr, ev)
               id  == ev.order_id
           IN  /\ IsTracker(new)
               /\ new.stats.total_adds = tr.stats.total_adds
               /\ new.stats.duplicate_add = tr.stats.duplicate_add
               /\ DOMAIN new.live_orders \subseteq DOMAIN tr.live_orders
               /\ id \in DOMAIN tr.live_orders /\ ev.qty <= tr.live_orders[id].qty =>
                    /\ new.stats.unknown_order_id = tr.stats.unknown_order_id
                    /\ new.stats.qty_exceed = tr.stats.qty_exceed
                    /\ new.live_orders =
                         Reduced(tr.live_orders, id, tr.live_orders[id].qty - ev.qty)
<1> DEFINE new  == OnEvent(tr, ev)
           id   == ev.order_id
           live == tr.live_orders
<1>1. new = HandleReduce(tr, ev)
  BY DEF OnEvent
<1>2. /\ tr.stats \in TrackerStats
      /\ live \in [DOMAIN live -> LiveOrder]
      /\ tr = [live_orders |-> live, stats |-> tr.stats]
  BY DEF IsTracker
<1>3. CASE id \notin DOMAIN live
  <2>1. new = [live_orders |-> live,
               stats |-> [tr.stats EXCEPT !.unknown_order_id = @ + 1]]
    BY <1>1, <1>2, <1>3 DEF HandleReduce
  <2>2. new.live_orders = live /\ new.stats = [tr.stats EXCEPT !.unknown_order_id = @ + 1]
    BY <2>1
  <2>3. /\ new.stats \in TrackerStats
        /\ new.stats.total_adds = tr.stats.total_adds
        /\ new.stats.duplicate_add = tr.stats.duplicate_add
    BY <1>2, <2>2 DEF TrackerStats
  <2>4. new = [live_orders |-> new.live_orders, stats |-> new.stats]
    BY <2>1
  <2> HIDE DEF new
  <2>5. QED
    BY <1>2, <1>3, <2>2, <2>3, <2>4 DEF IsTracker, new
<1>4. CASE id \in DOMAIN live
  <2> DEFINE ex    == Exceeds(live, ev)
             left  == IF ex THEN 0 ELSE live[id].qty - ev.qty
             count == IF ev.type = "OrderCancel" THEN "total_cancels" ELSE "total_fills"
             more  == IF ex THEN tr.stats.qty_exceed + 1 ELSE tr.stats.qty_exceed
             mid   == [tr.stats EXCEPT !.qty_exceed = more]
             stats == [mid EXCEPT ![count] = @ + 1]
  <2>1. /\ live[id] \in LiveOrder /\ live[id].qty \in Qty \ {0} /\ live[id].qty \in Nat
        /\ ev.qty \in Qty \ {0} /\ ev.qty \in Nat
    BY <1>2, <1>4, QtyModAssumption DEF L3Event, LiveOrder, Qty
  <2>2. new = [live_orders |-> Reduced(live, id, left), stats |-> stats]
    <3>1. new = [tr EXCEPT !.live_orders      = Reduced(live, id, left),
                           !.stats.qty_exceed = more,
                           !.stats[count]     = tr.stats[count] + 1]
      BY <1>1, <1>4, Zenon DEF HandleReduce
    <3>2. count \in {"total_cancels", "total_fills"}
      OBVIOUS
    <3> HIDE DEF ex, left, count, new, more
    <3>3. mid[count] = tr.stats[count]
      BY <1>2, <3>2 DEF TrackerStats
    <3> DEFINE r1 == [tr EXCEPT !.live_orders = Reduced(live, id, left)]
               r2 == [r1 EXCEPT !.stats.qty_exceed = more]
    <3>4. new = [r2 EXCEPT !.stats[count] = tr.stats[count] + 1]
      BY <3>1
    <3>5. r1 = [live_orders |-> Reduced(live, id, left), stats |-> tr.stats]
      BY <1>2
    <3> HIDE DEF r1
    <3>6. r2 = [live_orders |-> Reduced(live, id, left), stats |-> mid]
      BY <3>5
    <3> HIDE DEF r2, mid
    <3>7. QED
      BY <3>3, <3>4, <3>6
  <2>3. /\ stats \in TrackerStats
        /\ stats.total_adds = tr.stats.total_adds
        /\ stats.duplicate_add = tr.stats.duplicate_add
        /\ stats.unknown_order_id = tr.stats.unknown_order_id
        /\ ~ex => stats.qty_exceed = tr.stats.qty_exceed
    <3> HIDE DEF ex
    <3>1. more \in Nat /\ (~ex => more = tr.stats.qty_exceed)
      BY <1>2 DEF TrackerStats
    <3> HIDE DEF more
    <3>2. /\ mid \in TrackerStats /\ mid.qty_exceed = more
          /\ mid.total_adds = tr.stats.total_adds
          /\ mid.duplicate_add = tr.stats.duplicate_add
          /\ mid.unknown_order_id = tr.stats.unknown_order_id
      BY <1>2, <3>1 DEF TrackerStats
    <3> HIDE DEF mid
    <3>3. count = "total_cancels" \/ count = "total_fills"
      OBVIOUS
    <3> HIDE DEF count
    <3>4. CASE count = "total_cancels"
      BY <3>1, <3>2, <3>4 DEF TrackerStats
    <3>5. CASE count = "total_fills"
      BY <3>1, <3>2, <3>5 DEF TrackerStats
    <3>6. QED
      BY <3>3, <3>4, <3>5
  <2>4. left \in Qty /\ (ev.qty <= live[id].qty => ~ex /\ left = live[id].qty - ev.qty)
    BY <2>1, QtyModAssumption DEF Exceeds, Qty
  <2> HIDE DEF left, ex, count, stats, more, mid
  <2>5. Reduced(live, id, left) \in [DOMAIN Reduced(live, id, left) -> LiveOrder]
    <3>1. CASE left = 0
      BY <1>2, <3>1 DEF Reduced
    <3>2. CASE left # 0
      <4>1. [live[id] EXCEPT !.qty = left] \in LiveOrder
        BY <2>1, <2>4, <3>2 DEF LiveOrder
      <4>2. Reduced(live, id, left) =
              [live EXCEPT ![id] = [live[id] EXCEPT !.qty = left]]
        BY <1>4, <3>2 DEF Reduced
      <4>3. QED
        BY <1>2, <1>4, <4>1, <4>2
    <3>3. QED
      BY <3>1, <3>2
  <2>6. new.live_orders = Reduced(live, id, left) /\ new.stats = stats
    BY <2>2
  <2>7. new = [live_orders |-> new.live_orders, stats |-> new.stats]
    BY <2>2
  <2> HIDE DEF new
  <2>8. IsTracker(new)
    BY <2>3, <2>5, <2>6, <2>7 DEF IsTracker
  <2>9. DOMAIN Reduced(live, id, left) \subseteq DOMAIN live
    <3>1. CASE left = 0
      BY <3>1 DEF Reduced
    <3>2. CASE left # 0
      BY <3>2 DEF Reduced
    <3>3. QED
      BY <3>1, <3>2
  <2>10. QED
    BY <2>3, <2>4, <2>6, <2>8, <2>9 DEF new
<1>5. QED
  BY <1>3, <1>4

-----------------------------------------------------------------------------
(* A queue and the tracker's view of it: every order of the queue is live  *)
(* with its remaining quantity.                                            *)
Ascending(q) ==
    \A i \in 1 .. Len(q), j \in 1 .. Len(q) : i < j => q[i].order_id < q[j].order_id

Named(q) == {q[j].order_id : j \in 1 .. Len(q)}

Holds(live, q, s, p) ==
    \A j \in 1 .. Len(q) :
        /\ q[j].order_id \in DOMAIN live
        /\ live[q[j].order_id] = [price |-> p, qty |-> q[j].qty, side |-> s]

(* From tracker tr and queue q to tracker tr2 and queue q2: no anomaly, no *)
(* other order touched, and what the queue lost the tracker dropped.       *)
Follows(tr, q, tr2, q2, s, p) ==
    /\ IsTracker(tr2)
    /\ tr2.stats.total_adds = tr.stats.total_adds
    /\ tr2.stats.duplicate_add = tr.stats.duplicate_add
    /\ tr2.stats.unknown_order_id = tr.stats.unknown_order_id
    /\ tr2.stats.qty_exceed = tr.stats.qty_exceed
    /\ q2 \in Seq(SyntheticOrder) /\ Ascending(q2)
    /\ Holds(tr2.live_orders, q2, s, p)
    /\ Named(q2) \subseteq Named(q)
    /\ DOMAIN tr2.live_orders \subseteq DOMAIN tr.live_orders
    /\ \A id \in DOMAIN tr.live_orders \ Named(q) :
         id \in DOMAIN tr2.live_orders /\ tr2.live_orders[id] = tr.live_orders[id]
    /\ DOMAIN tr2.live_orders \cap Named(q) \subseteq Named(q2)

LEMMA FollowsItself ==
    ASSUME NEW tr, IsTracker(tr), NEW q \in Seq(SyntheticOrder), Ascending(q),
           NEW s, NEW p, Holds(tr.live_orders, q, s, p)
    PROVE  Follows(tr, q, tr, q, s, p)
BY DEF Follows

LEMMA FollowsOn ==
    ASSUME NEW tr, NEW q, NEW t1, NEW q1, NEW t2, NEW q2, NEW s, NEW p,
           Follows(tr, q, t1, q1, s, p), Follows(t1, q1, t2, q2, s, p)
    PROVE  Follows(tr, q, t2, q2, s, p)
<1>1. /\ IsTracker(t2)
      /\ t2.stats.total_adds = tr.stats.total_adds
      /\ t2.stats.duplicate_add = tr.stats.duplicate_add
      /\ t2.stats.unknown_order_id = tr.stats.unknown_order_id
      /\ t2.stats.qty_exceed = tr.stats.qty_exceed
      /\ q2 \in Seq(SyntheticOrder) /\ Ascending(q2)
      /\ Holds(t2.live_orders, q2, s, p)
  BY DEF Follows
<1> DEFINE d == DOMAIN tr.live_orders
           d1 == DOMAIN t1.live_orders
           d2 == DOMAIN t2.live_orders
<1>2. /\ Named(q1) \subseteq Named(q) /\ Named(q2) \subseteq Named(q1)
      /\ d1 \subseteq d /\ d2 \subseteq d1
      /\ d1 \cap Named(q) \subseteq Named(q1) /\ d2 \cap Named(q1) \subseteq Named(q2)
      /\ \A id \in d \ Named(q) : id \in d1 /\ t1.live_orders[id] = tr.live_orders[id]
      /\ \A id \in d1 \ Named(q1) : id \in d2 /\ t2.live_orders[id] = t1.live_orders[id]
  BY DEF Follows
<1> HIDE DEF d, d1, d2
<1>3. /\ Named(q2) \subseteq Named(q) /\ d2 \subseteq d
      /\ d2 \cap Named(q) \subseteq Named(q2)
      /\ \A id \in d \ Named(q) : id \in d2 /\ t2.live_orders[id] = tr.live_orders[id]
  BY <1>2
<1>4. QED
  BY <1>1, <1>3 DEF Follows, d, d2

(* The tracker takes the same piece from the same order.                   *)
LEMMA TakeFollows ==
    ASSUME NEW tr, IsTracker(tr), NEW q \in Seq(SyntheticOrder), Ascending(q),
           NEW s, NEW p, Holds(tr.live_orders, q, s, p),
           NEW ev \in L3Event, ev.type # "OrderAdd", Stream!NamesHead(q, ev)
    PROVE  Follows(tr, q, OnEvent(tr, ev), Stream!TakeFromHead(q, ev.qty), s, p)
<1> DEFINE live == tr.live_orders
           id   == ev.order_id
           new  == OnEvent(tr, ev)
           q2   == Stream!TakeFromHead(q, ev.qty)
           n    == Len(q)
<1>1. /\ q # << >> /\ id = q[1].order_id /\ ev.qty \in 1 .. q[1].qty
      /\ n \in Nat /\ 1 \in 1 .. n
      /\ \A j \in 1 .. n : q[j] \in SyntheticOrder
  BY DEF Stream!NamesHead
<1>2. \A j \in 1 .. n : q[j].order_id \in Nat /\ q[j].qty \in Nat \ {0}
  BY <1>1, OrdersHaveQty DEF SyntheticOrder
<1>3. id \in DOMAIN live /\ live[id] = [price |-> p, qty |-> q[1].qty, side |-> s]
  BY <1>1 DEF Holds
<1>4. live[id].qty = q[1].qty /\ ev.qty <= live[id].qty /\ ev.qty \in Nat
  BY <1>1, <1>2, <1>3
<1>5. /\ IsTracker(new)
      /\ new.stats.total_adds = tr.stats.total_adds
      /\ new.stats.duplicate_add = tr.stats.duplicate_add
      /\ new.stats.unknown_order_id = tr.stats.unknown_order_id
      /\ new.stats.qty_exceed = tr.stats.qty_exceed
      /\ new.live_orders = Reduced(live, id, q[1].qty - ev.qty)
  BY <1>3, <1>4, ReduceTold
<1>6. live = [x \in DOMAIN live |-> live[x]]
  BY DEF IsTracker
<1>7. q2 \in Seq(SyntheticOrder)
  BY TakeVolume
<1>8. \A i \in 1 .. n, j \in 1 .. n : i < j => q[i].order_id < q[j].order_id
  BY DEF Ascending
<1>9. \A j \in 2 .. n : q[j].order_id # id
  BY <1>1, <1>2, <1>8
<1>10. Named(q) = {q[j].order_id : j \in 1 .. n}
  BY DEF Named
<1> HIDE DEF new
<1>11. CASE ev.qty = q[1].qty
  <2>1. q2 = Tail(q)
    BY <1>11 DEF Stream!TakeFromHead
  <2>2. Len(q2) = n - 1 /\ \A j \in 1 .. n - 1 : q2[j] = q[j + 1]
    BY <1>1, <2>1
  <2>3. q[1].qty - ev.qty = 0
    BY <1>1, <1>2, <1>11
  <2>4. new.live_orders = [x \in DOMAIN live \ {id} |-> live[x]]
    BY <1>5, <2>3 DEF Reduced
  <2> HIDE DEF q2, live, id, n
  <2>5. /\ DOMAIN new.live_orders = DOMAIN live \ {id}
        /\ \A x \in DOMAIN live \ {id} : new.live_orders[x] = live[x]
    BY <2>4
  <2>6. Ascending(q2)
    <3>1. SUFFICES ASSUME NEW i \in 1 .. n - 1, NEW j \in 1 .. n - 1, i < j
                   PROVE  q[i + 1].order_id < q[j + 1].order_id
      BY <2>2 DEF Ascending
    <3>2. i + 1 \in 1 .. n /\ j + 1 \in 1 .. n /\ i + 1 < j + 1
      BY <1>1, <3>1
    <3>3. QED
      BY <1>8, <3>2
  <2>7. Holds(new.live_orders, q2, s, p)
    <3>1. SUFFICES ASSUME NEW j \in 1 .. n - 1
                   PROVE  /\ q[j + 1].order_id \in DOMAIN new.live_orders
                          /\ new.live_orders[q[j + 1].order_id] =
                               [price |-> p, qty |-> q[j + 1].qty, side |-> s]
      BY <2>2 DEF Holds
    <3>2. j + 1 \in 1 .. n /\ j + 1 \in 2 .. n
      BY <1>1
    <3>3. /\ q[j + 1].order_id \in DOMAIN live
          /\ live[q[j + 1].order_id] = [price |-> p, qty |-> q[j + 1].qty, side |-> s]
      BY <3>2 DEF Holds, live, n
    <3>4. QED
      BY <1>9, <2>5, <3>2, <3>3
  <2>8. Named(q2) = Named(q) \ {id}
    <3>1. Named(q2) = {q[j + 1].order_id : j \in 1 .. n - 1}
      BY <2>2 DEF Named
    <3>2. \A j \in 1 .. n - 1 : j + 1 \in 2 .. n
      BY <1>1
    <3>3. \A j \in 1 .. n : j # 1 => j - 1 \in 1 .. n - 1 /\ (j - 1) + 1 = j /\ j \in 2 .. n
      BY <1>1
    <3>4. \A x : x \in Named(q) /\ x # id => x \in Named(q2)
      BY <1>1, <1>10, <3>1, <3>3
    <3>5. \A x \in Named(q2) : x \in Named(q) /\ x # id
      BY <1>1, <1>9, <1>10, <3>1, <3>2
    <3>6. QED
      BY <3>4, <3>5
  <2>9. id \in Named(q)
    BY <1>1, <1>10
  <2>10. QED
    BY <1>5, <1>7, <2>5, <2>6, <2>7, <2>8, <2>9 DEF Follows, q2, live, new
<1>12. CASE ev.qty # q[1].qty
  <2> DEFINE m == q[1].qty - ev.qty
  <2>1. /\ q2 = [q EXCEPT ![1].qty = @ - ev.qty]
        /\ ev.qty < q[1].qty /\ m \in Nat \ {0}
    BY <1>1, <1>2, <1>12 DEF Stream!TakeFromHead
  <2>2. /\ Len(q2) = n
        /\ \A j \in 1 .. n : q2[j].order_id = q[j].order_id
        /\ \A j \in 2 .. n : q2[j] = q[j]
        /\ q2[1].qty = m
    <3>1. q2 = [j \in 1 .. n |-> IF j = 1 THEN [q[1] EXCEPT !.qty = @ - ev.qty] ELSE q[j]]
      BY <1>1, <1>4, <2>1, ReducedHead
    <3> HIDE DEF q2
    <3>2. Len(q2) = n
      BY <1>1, <1>7, <3>1
    <3>3. q2[1] = [q[1] EXCEPT !.qty = @ - ev.qty] /\ q[1] \in SyntheticOrder
      BY <1>1, <3>1
    <3>4. q2[1].order_id = q[1].order_id /\ q2[1].qty = m
      BY <3>3 DEF SyntheticOrder
    <3>5. \A j \in 2 .. n : q2[j] = q[j]
      BY <1>1, <3>1
    <3>6. \A j \in 1 .. n : j = 1 \/ j \in 2 .. n
      BY <1>1
    <3>7. QED
      BY <3>2, <3>4, <3>5, <3>6
  <2>3. new.live_orders = [live EXCEPT ![id].qty = m]
    BY <1>5, <2>1 DEF Reduced
  <2>4. /\ DOMAIN new.live_orders = DOMAIN live
        /\ new.live_orders[id] = [price |-> p, qty |-> m, side |-> s]
        /\ \A x \in DOMAIN live : x # id => new.live_orders[x] = live[x]
    <3>1. new.live_orders = [live EXCEPT ![id] = [live[id] EXCEPT !.qty = m]]
      BY <2>3
    <3>2. [live[id] EXCEPT !.qty = m] = [price |-> p, qty |-> m, side |-> s]
      BY <1>3
    <3> HIDE DEF m, live, id
    <3>3. QED
      BY <1>3, <1>6, <3>1, <3>2
  <2> HIDE DEF q2, live, id, n, m
  <2>5. Ascending(q2)
    BY <1>8, <2>2 DEF Ascending
  <2>6. Holds(new.live_orders, q2, s, p)
    <3>1. SUFFICES ASSUME NEW j \in 1 .. n
                   PROVE  /\ q[j].order_id \in DOMAIN new.live_orders
                          /\ new.live_orders[q[j].order_id] =
                               [price |-> p, qty |-> q2[j].qty, side |-> s]
      BY <2>2 DEF Holds
    <3>2. /\ q[j].order_id \in DOMAIN live
          /\ live[q[j].order_id] = [price |-> p, qty |-> q[j].qty, side |-> s]
      BY DEF Holds, live, n
    <3>3. CASE j = 1
      BY <1>1, <2>2, <2>4, <3>2, <3>3
    <3>4. CASE j # 1
      <4>1. j \in 2 .. n
        BY <1>1, <3>4
      <4>2. QED
        BY <1>9, <2>2, <2>4, <3>2, <4>1
    <3>5. QED
      BY <3>3, <3>4
  <2>7. Named(q2) = Named(q)
    BY <2>2 DEF Named, n
  <2>8. id \in Named(q)
    BY <1>1, <1>10
  <2>9. QED
    BY <1>5, <1>7, <2>4, <2>5, <2>6, <2>7, <2>8 DEF Follows, q2, live, new
<1>13. QED
  BY <1>11, <1>12

(* The whole batch.                                                        *)
LEMMA ReplayFollows ==
    ASSUME NEW tr, IsTracker(tr), NEW q \in Seq(SyntheticOrder), Ascending(q),
           NEW s, NEW p, Holds(tr.live_orders, q, s, p),
           NEW events \in Seq(L3Event),
           \A i \in 1 .. Len(events) : events[i].type # "OrderAdd",
           NEW f, NEW q2, IsReplay(f, q, events, q2)
    PROVE  Follows(tr, q, OnEvents(tr, events), q2, s, p)
<1> DEFINE n == Len(events)
<1>1. n \in Nat /\ \A i \in 1 .. n : events[i] \in L3Event
  OBVIOUS
<1>2. PICK g : Tells(g, tr, events, n) /\ OnEvents(tr, events) = g[n]
  BY <1>1, OnEventsIsLast
<1>3. /\ g[0] = tr
      /\ \A i \in 1 .. n : g[i] = OnEvent(g[i - 1], events[i])
  BY <1>2 DEF Tells
<1>4. /\ f[0] = q /\ f[n] = q2
      /\ \A i \in 1 .. n : /\ Stream!NamesHead(f[i - 1], events[i])
                           /\ f[i] = Stream!TakeFromHead(f[i - 1], events[i].qty)
  BY DEF IsReplay
<1> DEFINE S == {m \in Nat : m <= n => Follows(tr, q, g[m], f[m], s, p)}
<1>5. 0 \in S
  BY <1>3, <1>4, FollowsItself
<1>6. ASSUME NEW m \in S PROVE m + 1 \in S
  <2>1. SUFFICES ASSUME m + 1 <= n PROVE Follows(tr, q, g[m + 1], f[m + 1], s, p)
    OBVIOUS
  <2>2. m + 1 \in 1 .. n /\ (m + 1) - 1 = m /\ Follows(tr, q, g[m], f[m], s, p)
    BY <1>1, <2>1
  <2>3. /\ g[m + 1] = OnEvent(g[m], events[m + 1])
        /\ Stream!NamesHead(f[m], events[m + 1])
        /\ f[m + 1] = Stream!TakeFromHead(f[m], events[m + 1].qty)
        /\ events[m + 1] \in L3Event /\ events[m + 1].type # "OrderAdd"
    BY <1>1, <1>3, <1>4, <2>2
  <2>4. /\ IsTracker(g[m]) /\ f[m] \in Seq(SyntheticOrder) /\ Ascending(f[m])
        /\ Holds(g[m].live_orders, f[m], s, p)
    BY <2>2 DEF Follows
  <2>5. Follows(g[m], f[m], g[m + 1], f[m + 1], s, p)
    BY <2>3, <2>4, TakeFollows
  <2>6. QED
    BY <2>2, <2>5, FollowsOn
<1>7. S = Nat
  <2> HIDE DEF S
  <2>1. S \in SUBSET Nat
    BY DEF S
  <2>2. QED
    BY <1>5, <1>6, <2>1, NatInductionOnSet
<1>8. QED
  BY <1>1, <1>2, <1>4, <1>7

(* Whatever the ids: fills and cancels leave the two add counters alone    *)
(* and make no order live.                                                 *)
LEMMA ReducesCountNoAdd ==
    ASSUME NEW tr, IsTracker(tr), NEW events \in Seq(L3Event),
           \A i \in 1 .. Len(events) : events[i].type # "OrderAdd"
    PROVE  LET new == OnEvents(tr, events)
           IN  /\ IsTracker(new)
               /\ new.stats.total_adds = tr.stats.total_adds
               /\ new.stats.duplicate_add = tr.stats.duplicate_add
               /\ DOMAIN new.live_orders \subseteq DOMAIN tr.live_orders
<1> DEFINE n == Len(events)
<1>1. n \in Nat /\ \A i \in 1 .. n : events[i] \in L3Event
  OBVIOUS
<1>2. PICK g : Tells(g, tr, events, n) /\ OnEvents(tr, events) = g[n]
  BY <1>1, OnEventsIsLast
<1>3. /\ g[0] = tr
      /\ \A i \in 1 .. n : g[i] = OnEvent(g[i - 1], events[i])
  BY <1>2 DEF Tells
<1> DEFINE Kept(m) == /\ IsTracker(g[m])
                      /\ g[m].stats.total_adds = tr.stats.total_adds
                      /\ g[m].stats.duplicate_add = tr.stats.duplicate_add
                      /\ DOMAIN g[m].live_orders \subseteq DOMAIN tr.live_orders
           S == {m \in Nat : m <= n => Kept(m)}
<1>4. 0 \in S
  BY <1>3
<1>5. ASSUME NEW m \in S PROVE m + 1 \in S
  <2>1. SUFFICES ASSUME m + 1 <= n PROVE Kept(m + 1)
    OBVIOUS
  <2>2. m + 1 \in 1 .. n /\ (m + 1) - 1 = m /\ Kept(m)
    BY <1>1, <2>1
  <2>3. /\ g[m + 1] = OnEvent(g[m], events[m + 1])
        /\ events[m + 1] \in L3Event /\ events[m + 1].type # "OrderAdd"
    BY <1>1, <1>3, <2>2
  <2>4. LET new == OnEvent(g[m], events[m + 1])
        IN  /\ IsTracker(new)
            /\ new.stats.total_adds = g[m].stats.total_adds
            /\ new.stats.duplicate_add = g[m].stats.duplicate_add
            /\ DOMAIN new.live_orders \subseteq DOMAIN g[m].live_orders
    BY <2>2, <2>3, ReduceTold
  <2>5. QED
    BY <2>2, <2>3, <2>4
<1>6. S = Nat
  <2> HIDE DEF S
  <2>1. S \in SUBSET Nat
    BY DEF S
  <2>2. QED
    BY <1>4, <1>5, <2>1, NatInductionOnSet
<1>7. QED
  BY <1>1, <1>2, <1>6

-----------------------------------------------------------------------------
(* One add, told on its own.                                               *)
LEMMA OneTold ==
    ASSUME NEW tr, NEW events \in Seq(L3Event), Len(events) = 1
    PROVE  OnEvents(tr, events) = OnEvent(tr, events[1])
<1>1. PICK f : Tells(f, tr, events, 1) /\ OnEvents(tr, events) = f[1]
  <2>1. Len(events) \in Nat
    OBVIOUS
  <2>2. QED
    BY <2>1, OnEventsIsLast
<1>2. 1 \in 1 .. 1 /\ 1 - 1 = 0
  OBVIOUS
<1>3. f[1] = OnEvent(f[0], events[1]) /\ f[0] = tr
  BY <1>1, <1>2 DEF Tells
<1>4. QED
  BY <1>1, <1>3

(* A step of the handler is a step of the correlator, whose events the     *)
(* tracker is then told, or a step that changes neither.                   *)
Steady == UNCHANGED <<book, trade_buffer, out, tracker, lost>>

Traded == /\ out' = << >> /\ UNCHANGED <<book, tracker, lost>>

Updated(action, side, price) ==
    /\ tracker' = OnEvents(tracker, out')
    /\ lost' = IF action = "Delete" THEN lost \cup RestingIds(book[side], price) ELSE lost
    /\ \/ action # "Delete" /\ Adding(side, price)
       \/ Replaying(side, price) /\ QueueTold(action, side, price)

LEMMA HandlerStep ==
    ASSUME IInv, msg_ts \in Timestamps, [MDNext]_mdVars
    PROVE  /\ IInv' /\ msg_ts' \in Timestamps
           /\ \/ Steady
              \/ Traded
              \/ \E action \in L2Action, side \in Side, price \in Prices :
                    Updated(action, side, price)
<1>1. CASE Steady /\ msg_ts' \in Timestamps
  <2>1. UNCHANGED vars
    BY <1>1 DEF Steady, vars
  <2>2. QED
    BY <1>1, <2>1, NextInv
<1>2. ASSUME NEW ts \in Timestamps, NEW price \in FeedPrices, NEW amount \in TradedQtys,
             NEW id \in TradeIds \cup {0}, TradeElement(ts, price, amount, id)
      PROVE  IInv' /\ msg_ts' \in Timestamps /\ Traded
  <2> PICK qty \in ToQty(amount) : OnTrade(ts, ToPrice(price), qty, id)
    BY <1>2 DEF TradeElement
  <2>1. ToPrice(price) \in Prices /\ qty \in TradeQtys
    BY FeedAssumption
  <2>2. OnTrade(ts, ToPrice(price), qty, id)
    OBVIOUS
  <2>3. IInv'
    BY <2>1, <2>2, OnTradeStep
  <2>4. out' = << >> /\ book' = book
    BY <2>2 DEF OnTrade
  <2>5. tracker' = tracker /\ lost' = lost /\ msg_ts' = msg_ts
    BY <1>2, <2>4, NothingTold DEF TradeElement, DeliverEvents
  <2>6. QED
    BY <2>3, <2>4, <2>5 DEF Traded
<1>3. ASSUME NEW action \in L2Action, NEW price \in FeedPrices, NEW amount \in FeedQtys,
             LevelElement(action, price, amount)
      PROVE  /\ IInv' /\ msg_ts' \in Timestamps
             /\ Updated(action, SideOf(parsing), ToPrice(price))
             /\ SideOf(parsing) \in Side /\ ToPrice(price) \in Prices
  <2> DEFINE key == ToPrice(price)
             side == SideOf(parsing)
  <2> PICK new_qty \in ToQty(amount) : OnL2Update(msg_ts, action, key, new_qty, side)
    BY <1>3 DEF LevelElement
  <2>1. key \in Prices /\ new_qty \in L2Qtys /\ side \in Side
    BY FeedAssumption DEF SideOf, Side
  <2>2. /\ OnL2Update(msg_ts, action, key, new_qty, side)
        /\ tracker' = OnEvents(tracker, out')
        /\ lost' = IF action = "Delete" THEN lost \cup RestingIds(book[side], key) ELSE lost
        /\ msg_ts' = msg_ts
    BY <1>3 DEF LevelElement, DeliverEvents
  <2> HIDE DEF key, side
  <2>3. Next
    BY <2>1, <2>2 DEF Next
  <2>4. IInv'
    BY <2>3, NextInv
  <2>5. CASE Increase(msg_ts, action, key, new_qty, side)
    <3>1. Adding(side, key) /\ action # "Delete"
      BY <2>1, <2>5, IncreaseAdds, DeleteNeverAdds
    <3>2. QED
      BY <2>1, <2>2, <2>4, <3>1 DEF Updated, key, side
  <2>6. CASE \/ Decrease(msg_ts, action, key, new_qty, side)
             \/ NoChange(msg_ts, action, key, new_qty, side)
    <3>1. Replaying(side, key) /\ QueueTold(action, side, key)
      BY <2>1, <2>6, DecreaseIsReplay, NoChangeIsReplay
    <3>2. QED
      BY <2>1, <2>2, <2>4, <3>1 DEF Updated, key, side
  <2>7. QED
    BY <2>2, <2>5, <2>6 DEF OnL2Update
<1>4. CASE UNCHANGED mdVars
  BY <1>1, <1>4 DEF mdVars, Steady
<1>5. CASE BeginTrades \/ NonNumericTradeId \/ EndBids \/ EndMessage
  BY <1>1, <1>5 DEF BeginTrades, NonNumericTradeId, EndBids, EndMessage, Steady
<1>6. CASE \E ts \in Timestamps : BeginBook(ts)
  BY <1>1, <1>6 DEF BeginBook, Steady
<1>7. QED
  BY <1>2, <1>3, <1>4, <1>5, <1>6 DEF MDNext

-----------------------------------------------------------------------------
(* The invariant.  That the anomaly counters stay at zero follows only     *)
(* from what the tracker holds, and that it holds it only while nothing    *)
(* was added twice: so the three are proved together.                      *)
Told == \A s \in Side, p \in Prices : Holds(tracker.live_orders, Queue(book[s], p), s, p)

NothingElse ==
    \A id \in DOMAIN tracker.live_orders :
        \/ id \in lost
        \/ \E s \in Side, p \in Prices : id \in Named(Queue(book[s], p))

(* What a Delete dropped stays live, and no resting order has its id: so   *)
(* no later event can remove it.                                           *)
LostStay ==
    /\ lost \subseteq DOMAIN tracker.live_orders
    /\ \A s \in Side, p \in Prices : Named(Queue(book[s], p)) \cap lost = {}

Clean == tracker.stats.duplicate_add = 0 =>
             /\ tracker.stats.unknown_order_id = 0
             /\ tracker.stats.qty_exceed = 0
             /\ Told
             /\ NothingElse
             /\ LostStay

HandlerInv == /\ IInv
              /\ msg_ts \in Timestamps
              /\ IsTracker(tracker)
              /\ EveryAddCounted
              /\ Clean

LEMMA BooksAre ==
    ASSUME IInv
    PROVE  /\ \A s \in Side : /\ IsShadowBook(book[s])
                              /\ book[s].next_order_id \in Nat
           /\ \A s \in Side, p \in Prices : /\ Queue(book[s], p) \in Seq(SyntheticOrder)
                                            /\ Ascending(Queue(book[s], p))
<1>1. \A s \in Side : IsShadowBook(book[s]) /\ IdsAscend(book[s])
  BY DEF IInv, TypeOK, IdsInOrder
<1>2. \A s \in Side : book[s].next_order_id \in Nat
  BY <1>1, BookFacts DEF IsShadowBook
<1>3. ASSUME NEW s \in Side, NEW p \in Prices
      PROVE  Queue(book[s], p) \in Seq(SyntheticOrder) /\ Ascending(Queue(book[s], p))
  <2>1. /\ Queue(book[s], p) \in Seq(SyntheticOrder)
        /\ p \notin DOMAIN book[s].levels => Queue(book[s], p) = << >>
    BY <1>1, QueueFacts
  <2>2. CASE p \in DOMAIN book[s].levels
    BY <1>1, <2>1, <2>2 DEF IdsAscend, Ascending
  <2>3. CASE p \notin DOMAIN book[s].levels
    BY <2>1, <2>3 DEF Ascending
  <2>4. QED
    BY <2>1, <2>2, <2>3
<1>4. QED
  BY <1>1, <1>2, <1>3

LEMMA RestingIdsAreNamed ==
    ASSUME NEW bk, NEW p, Queue(bk, p) \in Seq(SyntheticOrder)
    PROVE  RestingIds(bk, p) = Named(Queue(bk, p))
<1>1. DOMAIN Queue(bk, p) = 1 .. Len(Queue(bk, p))
  OBVIOUS
<1>2. QED
  BY <1>1 DEF RestingIds, Named, Range

LEMMA HandlerInit == MDInit => HandlerInv
<1>1. SUFFICES ASSUME MDInit PROVE HandlerInv
  OBVIOUS
<1>2. IInv /\ msg_ts \in Timestamps /\ tracker = EmptyTracker
  BY <1>1, InitInv DEF MDInit
<1>3. /\ DOMAIN tracker.live_orders = {}
      /\ tracker.stats = [total_adds |-> 0, total_cancels |-> 0, total_fills |-> 0,
                          unknown_order_id |-> 0, qty_exceed |-> 0, duplicate_add |-> 0]
      /\ tracker.live_orders = [id \in {} |-> [price |-> 0, qty |-> 0, side |-> "Bid"]]
      /\ tracker = [live_orders |-> tracker.live_orders, stats |-> tracker.stats]
  BY <1>2 DEF EmptyTracker
<1>4. IsTracker(tracker)
  <2>1. tracker.stats \in TrackerStats
    BY <1>3 DEF TrackerStats
  <2>2. tracker.live_orders \in [DOMAIN tracker.live_orders -> LiveOrder]
    BY <1>3
  <2>3. QED
    BY <1>3, <2>1, <2>2 DEF IsTracker
<1>5. \A s \in Side : book[s] = EmptyBook
  BY <1>1 DEF MDInit, Init
<1>6. book["Bid"].next_order_id = 1 /\ book["Ask"].next_order_id = 1
  BY <1>5 DEF EmptyBook, Side
<1>7. EveryAddCounted
  BY <1>3, <1>6 DEF EveryAddCounted
<1>8. Told
  <2>1. \A s \in Side, p \in Prices : Queue(book[s], p) = << >>
    <3>1. DOMAIN EmptyBook.levels = {}
      BY DEF EmptyBook
    <3>2. QED
      BY <1>5, <3>1, EmptyBookFacts, QueueFacts
  <2>2. Len(<< >>) = 0
    OBVIOUS
  <2>3. QED
    BY <2>1, <2>2 DEF Told, Holds
<1>9. NothingElse
  BY <1>3 DEF NothingElse
<1>10. LostStay
  BY <1>1 DEF LostStay, MDInit
<1>11. QED
  BY <1>2, <1>3, <1>4, <1>7, <1>8, <1>9, <1>10 DEF HandlerInv, Clean

(* One queue changes; the orders of all others are live as before.         *)
LEMMA OthersStayTold ==
    ASSUME IInv, Told, NEW side \in Side, NEW price \in Prices, OneQueue(side, price),
           \A s \in Side, p \in Prices : \A j \in 1 .. Len(Queue(book[s], p)) :
              (s # side \/ p # price) =>
                LET id == Queue(book[s], p)[j].order_id
                IN  /\ id \in DOMAIN tracker'.live_orders
                    /\ tracker'.live_orders[id] = tracker.live_orders[id],
           Holds(tracker'.live_orders, Queue(book'[side], price), side, price)
    PROVE  Told'
<1>1. SUFFICES ASSUME NEW s \in Side, NEW p \in Prices, s # side \/ p # price
               PROVE  Holds(tracker'.live_orders, Queue(book'[s], p), s, p)
  BY DEF Told
<1>2. Queue(book'[s], p) = Queue(book[s], p)
  BY <1>1, QueuesAfter
<1>3. Holds(tracker.live_orders, Queue(book[s], p), s, p)
  BY DEF Told
<1>4. QED
  BY <1>1, <1>2, <1>3 DEF Holds

LEMMA AddingKeeps ==
    ASSUME HandlerInv, NEW action, NEW side \in Side, NEW price \in Prices,
           Updated(action, side, price), action # "Delete", Adding(side, price)
    PROVE  IsTracker(tracker') /\ EveryAddCounted' /\ Clean'
<1> DEFINE q   == Queue(book[side], price)
           ev  == out'[1]
           id  == ev.order_id
           o   == [order_id |-> id, qty |-> ev.qty]
           new == Queue(book'[side], price)
<1>1. /\ OneQueue(side, price)
      /\ book'[side].next_order_id = book[side].next_order_id + 1
      /\ out' \in Seq(L3Event) /\ Len(out') = 1
      /\ ev.type = "OrderAdd" /\ ev.side = side /\ ev.price = price
      /\ new = Append(q, o)
  BY DEF Adding
<1>2. ev \in L3Event
  BY <1>1, OneEvent
<1>3. tracker' = OnEvent(tracker, ev)
  BY <1>1, OneTold DEF Updated
<1>4. /\ IsTracker(tracker')
      /\ tracker'.stats.total_adds + tracker'.stats.duplicate_add =
           tracker.stats.total_adds + tracker.stats.duplicate_add + 1
      /\ tracker'.stats.duplicate_add = 0 =>
           /\ id \notin DOMAIN tracker.live_orders
           /\ tracker.stats.duplicate_add = 0
           /\ tracker'.stats.unknown_order_id = tracker.stats.unknown_order_id
           /\ tracker'.stats.qty_exceed = tracker.stats.qty_exceed
           /\ DOMAIN tracker'.live_orders = DOMAIN tracker.live_orders \cup {id}
           /\ tracker'.live_orders[id] = [price |-> ev.price, qty |-> ev.qty, side |-> ev.side]
           /\ \A x \in DOMAIN tracker.live_orders :
                tracker'.live_orders[x] = tracker.live_orders[x]
  BY <1>1, <1>2, <1>3, AddTold DEF HandlerInv
<1>5. EveryAddCounted'
  <2>1. \A s \in Side : s # side => book'[s] = book[s]
    BY <1>1, QueuesAfter DEF HandlerInv
  <2>2. book["Bid"].next_order_id \in Nat /\ book["Ask"].next_order_id \in Nat
    BY BooksAre DEF HandlerInv, Side
  <2>3. side = "Bid" \/ side = "Ask"
    BY DEF Side
  <2>4. (book'["Bid"].next_order_id - 1) + (book'["Ask"].next_order_id - 1) =
          (book["Bid"].next_order_id - 1) + (book["Ask"].next_order_id - 1) + 1
    <3>1. CASE side = "Bid"
      <4>1. book'["Ask"] = book["Ask"]
        BY <2>1, <3>1 DEF Side
      <4>2. book'["Bid"].next_order_id = book["Bid"].next_order_id + 1
        BY <1>1, <3>1
      <4>3. QED
        BY <2>2, <4>1, <4>2
    <3>2. CASE side = "Ask"
      <4>1. book'["Bid"] = book["Bid"]
        BY <2>1, <3>2 DEF Side
      <4>2. book'["Ask"].next_order_id = book["Ask"].next_order_id + 1
        BY <1>1, <3>2
      <4>3. QED
        BY <2>2, <4>1, <4>2
    <3>3. QED
      BY <2>3, <3>1, <3>2
  <2>5. QED
    BY <1>4, <2>4 DEF HandlerInv, EveryAddCounted
<1>6. ASSUME tracker'.stats.duplicate_add = 0
      PROVE  /\ tracker'.stats.unknown_order_id = 0 /\ tracker'.stats.qty_exceed = 0
             /\ Told' /\ NothingElse' /\ LostStay'
  <2>1. /\ Told /\ NothingElse /\ LostStay
        /\ tracker'.stats.unknown_order_id = 0 /\ tracker'.stats.qty_exceed = 0
    BY <1>4, <1>6 DEF HandlerInv, Clean
  <2>2. \A s \in Side, p \in Prices : Holds(tracker.live_orders, Queue(book[s], p), s, p)
    BY <2>1 DEF Told
  <2>3. \A s \in Side, p \in Prices : \A j \in 1 .. Len(Queue(book[s], p)) :
          LET x == Queue(book[s], p)[j].order_id
          IN  /\ x \in DOMAIN tracker'.live_orders
              /\ tracker'.live_orders[x] = tracker.live_orders[x]
    BY <1>4, <1>6, <2>2 DEF Holds
  <2>4. /\ q \in Seq(SyntheticOrder) /\ Len(q) \in Nat
        /\ Len(new) = Len(q) + 1 /\ new[Len(q) + 1] = o
        /\ \A j \in 1 .. Len(q) : new[j] = q[j]
    BY <1>1, BooksAre DEF HandlerInv
  <2>5. Holds(tracker'.live_orders, new, side, price)
    <3>1. Holds(tracker.live_orders, q, side, price)
      BY <2>2
    <3>2. ASSUME NEW j \in 1 .. Len(q) + 1
          PROVE  /\ new[j].order_id \in DOMAIN tracker'.live_orders
                 /\ tracker'.live_orders[new[j].order_id] =
                      [price |-> price, qty |-> new[j].qty, side |-> side]
      <4>1. CASE j \in 1 .. Len(q)
        <5>1. /\ q[j].order_id \in DOMAIN tracker.live_orders
              /\ tracker.live_orders[q[j].order_id] =
                   [price |-> price, qty |-> q[j].qty, side |-> side]
          BY <3>1, <4>1 DEF Holds
        <5>2. /\ q[j].order_id \in DOMAIN tracker'.live_orders
              /\ tracker'.live_orders[q[j].order_id] = tracker.live_orders[q[j].order_id]
          BY <2>3, <4>1
        <5>3. QED
          BY <2>4, <4>1, <5>1, <5>2
      <4>2. CASE j = Len(q) + 1
        <5>1. new[j].order_id = id /\ new[j].qty = ev.qty
          BY <2>4, <4>2
        <5>2. QED
          BY <1>1, <1>4, <1>6, <5>1
      <4>3. QED
        BY <2>4, <4>1, <4>2
    <3>3. QED
      BY <2>4, <3>2 DEF Holds
  <2>6. Told'
    <3>1. \A s \in Side, p \in Prices : \A j \in 1 .. Len(Queue(book[s], p)) :
            (s # side \/ p # price) =>
              LET x == Queue(book[s], p)[j].order_id
              IN  /\ x \in DOMAIN tracker'.live_orders
                  /\ tracker'.live_orders[x] = tracker.live_orders[x]
      BY <2>3
    <3>2. QED
      BY <1>1, <2>1, <2>5, <3>1, OthersStayTold DEF HandlerInv
  <2>7. NothingElse'
    <3>1. SUFFICES ASSUME NEW x \in DOMAIN tracker'.live_orders
                   PROVE  \/ x \in lost'
                          \/ \E s \in Side, p \in Prices : x \in Named(Queue(book'[s], p))
      BY DEF NothingElse
    <3>2. CASE x = id
      <4>1. x \in Named(new)
        BY <2>4, <3>2 DEF Named
      <4>2. QED
        BY <4>1
    <3>3. CASE x \in DOMAIN tracker.live_orders /\ x \in lost
      BY <3>3 DEF Updated
    <3>4. ASSUME x \in DOMAIN tracker.live_orders,
                 NEW s \in Side, NEW p \in Prices, x \in Named(Queue(book[s], p))
          PROVE  x \in Named(Queue(book'[s], p))
      <4>1. CASE s = side /\ p = price
        BY <2>4, <3>4, <4>1 DEF Named
      <4>2. CASE s # side \/ p # price
        <5>1. Queue(book'[s], p) = Queue(book[s], p)
          BY <1>1, <4>2, QueuesAfter DEF HandlerInv
        <5>2. QED
          BY <3>4, <5>1
      <4>3. QED
        BY <4>1, <4>2
    <3>5. QED
      BY <1>4, <1>6, <2>1, <3>2, <3>3, <3>4 DEF NothingElse
  <2>8. LostStay'
    <3>1. lost' = lost
      BY DEF Updated
    <3>2. Named(new) \subseteq Named(q) \cup {id}
      BY <2>4 DEF Named
    <3>3. id \notin lost
      BY <1>4, <1>6, <2>1 DEF LostStay
    <3>4. \A s \in Side, p \in Prices :
            (s # side \/ p # price) => Queue(book'[s], p) = Queue(book[s], p)
      BY <1>1, QueuesAfter DEF HandlerInv
    <3>5. lost \subseteq DOMAIN tracker'.live_orders
      BY <1>4, <1>6, <2>1 DEF LostStay
    <3>6. ASSUME NEW s \in Side, NEW p \in Prices
          PROVE  Named(Queue(book'[s], p)) \cap lost = {}
      <4>1. Named(Queue(book[s], p)) \cap lost = {}
        BY <2>1 DEF LostStay
      <4>2. CASE s = side /\ p = price
        BY <3>2, <3>3, <4>1, <4>2
      <4>3. CASE s # side \/ p # price
        BY <3>4, <4>1, <4>3
      <4>4. QED
        BY <4>2, <4>3
    <3>7. QED
      BY <3>1, <3>5, <3>6 DEF LostStay
  <2>9. QED
    BY <2>1, <2>6, <2>7, <2>8
<1>7. QED
  BY <1>4, <1>5, <1>6 DEF Clean

(* Two orders of different queues have different ids, because the tracker  *)
(* holds one order per id.                                                 *)
LEMMA NoSharedId ==
    ASSUME Told, NEW s \in Side, NEW p \in Prices, NEW side \in Side, NEW price \in Prices,
           s # side \/ p # price, NEW j \in 1 .. Len(Queue(book[s], p))
    PROVE  Queue(book[s], p)[j].order_id \notin Named(Queue(book[side], price))
<1>1. SUFFICES ASSUME NEW k \in 1 .. Len(Queue(book[side], price)),
                      Queue(book[s], p)[j].order_id = Queue(book[side], price)[k].order_id
               PROVE  FALSE
  BY DEF Named
<1> DEFINE x == Queue(book[s], p)[j].order_id
           o1 == [price |-> p, qty |-> Queue(book[s], p)[j].qty, side |-> s]
           o2 == [price |-> price, qty |-> Queue(book[side], price)[k].qty, side |-> side]
<1>2. tracker.live_orders[x] = o1
  BY DEF Told, Holds
<1>3. tracker.live_orders[x] = o2
  BY <1>1 DEF Told, Holds
<1>4. o1.price = p /\ o1.side = s /\ o2.price = price /\ o2.side = side
  OBVIOUS
<1> HIDE DEF o1, o2
<1>5. QED
  BY <1>1, <1>2, <1>3, <1>4

LEMMA ReplayingKeeps ==
    ASSUME HandlerInv, NEW action, NEW side \in Side, NEW price \in Prices,
           Updated(action, side, price), Replaying(side, price),
           QueueTold(action, side, price)
    PROVE  IsTracker(tracker') /\ EveryAddCounted' /\ Clean'
<1> DEFINE q   == Queue(book[side], price)
           new == Queue(book'[side], price)
<1>1. /\ OneQueue(side, price) /\ IsShadowBook(book'[side])
      /\ book'[side].next_order_id = book[side].next_order_id
      /\ out' \in Seq(L3Event)
      /\ \A i \in 1 .. Len(out') : out'[i].type # "OrderAdd"
  BY DEF Replaying, OneQueue
<1>2. /\ tracker' = OnEvents(tracker, out')
      /\ lost \subseteq lost'
      /\ lost' = IF action = "Delete" THEN lost \cup RestingIds(book[side], price) ELSE lost
  BY DEF Updated
<1>3. /\ IsTracker(tracker')
      /\ tracker'.stats.total_adds = tracker.stats.total_adds
      /\ tracker'.stats.duplicate_add = tracker.stats.duplicate_add
  BY <1>1, <1>2, ReducesCountNoAdd DEF HandlerInv
<1>4. \A s \in Side : s # side => book'[s] = book[s]
  BY <1>1, QueuesAfter DEF HandlerInv
<1>5. EveryAddCounted'
  <2>1. \A s \in Side : book'[s].next_order_id = book[s].next_order_id
    BY <1>1, <1>4
  <2>2. QED
    BY <1>3, <2>1 DEF HandlerInv, EveryAddCounted, Side
<1>6. q \in Seq(SyntheticOrder) /\ Ascending(q)
  BY BooksAre DEF HandlerInv
<1>7. ASSUME Told, NothingElse, LostStay, tracker.stats.unknown_order_id = 0,
             tracker.stats.qty_exceed = 0
      PROVE  /\ tracker'.stats.unknown_order_id = 0 /\ tracker'.stats.qty_exceed = 0
             /\ Told' /\ NothingElse' /\ LostStay'
  <2>1. Holds(tracker.live_orders, q, side, price)
    BY <1>7 DEF Told
  <2>0. \A s \in Side, p \in Prices :
          (s # side \/ p # price) => Queue(book'[s], p) = Queue(book[s], p)
    BY <1>1, QueuesAfter DEF HandlerInv
  <2>2. CASE action # "Delete"
    <3>1. PICK f : IsReplay(f, q, out', new)
      BY <2>2 DEF QueueTold
    <3>2. Follows(tracker, q, tracker', new, side, price)
      BY <1>1, <1>2, <1>6, <2>1, <3>1, ReplayFollows DEF HandlerInv
    <3>3. /\ tracker'.stats.unknown_order_id = 0 /\ tracker'.stats.qty_exceed = 0
          /\ Holds(tracker'.live_orders, new, side, price)
          /\ DOMAIN tracker'.live_orders \subseteq DOMAIN tracker.live_orders
          /\ \A id \in DOMAIN tracker.live_orders \ Named(q) :
               /\ id \in DOMAIN tracker'.live_orders
               /\ tracker'.live_orders[id] = tracker.live_orders[id]
          /\ DOMAIN tracker'.live_orders \cap Named(q) \subseteq Named(new)
          /\ Named(new) \subseteq Named(q)
      BY <1>7, <3>2 DEF Follows
    <3>4. ASSUME NEW s \in Side, NEW p \in Prices, s # side \/ p # price,
                 NEW j \in 1 .. Len(Queue(book[s], p))
          PROVE  LET id == Queue(book[s], p)[j].order_id
                 IN  /\ id \in DOMAIN tracker'.live_orders
                     /\ tracker'.live_orders[id] = tracker.live_orders[id]
      <4>1. Queue(book[s], p)[j].order_id \in DOMAIN tracker.live_orders
        BY <1>7 DEF Told, Holds
      <4>2. Queue(book[s], p)[j].order_id \notin Named(q)
        BY <1>7, <3>4, NoSharedId
      <4>3. QED
        BY <3>3, <4>1, <4>2
    <3>5. Told'
      <4>1. \A s \in Side, p \in Prices : \A j \in 1 .. Len(Queue(book[s], p)) :
              (s # side \/ p # price) =>
                LET id == Queue(book[s], p)[j].order_id
                IN  /\ id \in DOMAIN tracker'.live_orders
                    /\ tracker'.live_orders[id] = tracker.live_orders[id]
        BY <3>4
      <4>2. Holds(tracker'.live_orders, new, side, price) /\ IInv
        BY <3>3 DEF HandlerInv
      <4>3. QED
        BY <1>1, <1>7, <4>1, <4>2, OthersStayTold
    <3>6. NothingElse'
      <4>1. SUFFICES ASSUME NEW x \in DOMAIN tracker'.live_orders
                     PROVE  \/ x \in lost'
                            \/ \E s \in Side, p \in Prices : x \in Named(Queue(book'[s], p))
        BY DEF NothingElse
      <4>2. CASE x \in lost
        BY <1>2, <4>2
      <4>3. ASSUME NEW s \in Side, NEW p \in Prices, x \in Named(Queue(book[s], p))
            PROVE  x \in Named(Queue(book'[s], p))
        <5>1. CASE s = side /\ p = price
          BY <3>3, <4>1, <4>3, <5>1
        <5>2. CASE s # side \/ p # price
          <6>1. Queue(book'[s], p) = Queue(book[s], p)
            BY <1>1, <5>2, QueuesAfter DEF HandlerInv
          <6>2. QED
            BY <4>3, <6>1
        <5>3. QED
          BY <5>1, <5>2
      <4>4. x \in DOMAIN tracker.live_orders
        BY <3>3, <4>1
      <4>5. QED
        BY <1>7, <4>2, <4>3, <4>4 DEF NothingElse
    <3>7. LostStay'
      <4>1. lost' = lost
        BY <1>2, <2>2
      <4>2. lost \subseteq DOMAIN tracker'.live_orders
        BY <1>7, <3>3 DEF LostStay
      <4>3. ASSUME NEW s \in Side, NEW p \in Prices
            PROVE  Named(Queue(book'[s], p)) \cap lost = {}
        <5>1. Named(Queue(book[s], p)) \cap lost = {}
          BY <1>7 DEF LostStay
        <5>2. CASE s = side /\ p = price
          BY <3>3, <5>1, <5>2
        <5>3. CASE s # side \/ p # price
          BY <2>0, <5>1, <5>3
        <5>4. QED
          BY <5>2, <5>3
      <4>4. QED
        BY <4>1, <4>2, <4>3 DEF LostStay
    <3>8. QED
      BY <3>3, <3>5, <3>6, <3>7
  <2>3. CASE action = "Delete"
    <3>1. out' = << >>
      BY <2>3 DEF QueueTold
    <3>2. tracker' = tracker
      BY <1>2, <3>1, NothingTold
    <3>3. new = << >> /\ Len(<< >>) = 0
      BY <2>3 DEF QueueTold
    <3>4. Holds(tracker'.live_orders, new, side, price)
      BY <3>3 DEF Holds
    <3>5. \A s \in Side, p \in Prices : \A j \in 1 .. Len(Queue(book[s], p)) :
            Queue(book[s], p)[j].order_id \in DOMAIN tracker.live_orders
      BY <1>7 DEF Told, Holds
    <3>6. Told'
      BY <1>1, <1>7, <3>2, <3>4, <3>5, OthersStayTold DEF HandlerInv
    <3>7. NothingElse'
      <4>1. RestingIds(book[side], price) = Named(q)
        BY <1>6, RestingIdsAreNamed
      <4>2. ASSUME NEW x \in DOMAIN tracker.live_orders,
                   NEW s \in Side, NEW p \in Prices, x \in Named(Queue(book[s], p))
            PROVE  x \in lost' \/ x \in Named(Queue(book'[s], p))
        BY <1>2, <2>0, <2>3, <4>1, <4>2
      <4>3. QED
        BY <1>2, <1>7, <3>2, <4>2 DEF NothingElse
    <3>8. LostStay'
      <4>1. lost' = lost \cup Named(q)
        BY <1>2, <1>6, <2>3, RestingIdsAreNamed
      <4>2. Named(q) \subseteq DOMAIN tracker.live_orders
        BY <2>1 DEF Named, Holds
      <4>3. lost' \subseteq DOMAIN tracker'.live_orders
        BY <1>7, <3>2, <4>1, <4>2 DEF LostStay
      <4>4. ASSUME NEW s \in Side, NEW p \in Prices
            PROVE  Named(Queue(book'[s], p)) \cap lost' = {}
        <5>1. CASE s = side /\ p = price
          <6>1. Named(new) = {}
            BY <3>3 DEF Named
          <6>2. QED
            BY <5>1, <6>1
        <5>2. CASE s # side \/ p # price
          <6>1. Named(Queue(book[s], p)) \cap lost = {}
            BY <1>7 DEF LostStay
          <6>2. Named(Queue(book[s], p)) \cap Named(q) = {}
            BY <1>7, <5>2, NoSharedId DEF Named
          <6>3. QED
            BY <2>0, <4>1, <5>2, <6>1, <6>2
        <5>3. QED
          BY <5>1, <5>2
      <4>5. QED
        BY <4>3, <4>4 DEF LostStay
    <3>9. QED
      BY <1>7, <3>2, <3>6, <3>7, <3>8
  <2>4. QED
    BY <2>2, <2>3
<1>8. Clean'
  BY <1>3, <1>7 DEF HandlerInv, Clean
<1>9. QED
  BY <1>3, <1>5, <1>8

LEMMA HandlerNext == HandlerInv /\ [MDNext]_mdVars => HandlerInv'
<1>1. SUFFICES ASSUME HandlerInv, [MDNext]_mdVars PROVE HandlerInv'
  OBVIOUS
<1>2. /\ IInv' /\ msg_ts' \in Timestamps
      /\ \/ Steady
         \/ Traded
         \/ \E action \in L2Action, side \in Side, price \in Prices :
               Updated(action, side, price)
  BY <1>1, HandlerStep DEF HandlerInv
<1>3. CASE UNCHANGED <<book, tracker, lost>>
  <2>1. IsTracker(tracker') /\ EveryAddCounted'
    BY <1>1, <1>3 DEF HandlerInv, EveryAddCounted
  <2>2. Told' = Told /\ NothingElse' = NothingElse /\ LostStay' = LostStay
    BY <1>3 DEF Told, NothingElse, LostStay
  <2>3. Clean'
    BY <1>1, <1>3, <2>2 DEF HandlerInv, Clean
  <2>4. QED
    BY <1>2, <2>1, <2>3 DEF HandlerInv
<1>4. ASSUME NEW action \in L2Action, NEW side \in Side, NEW price \in Prices,
             Updated(action, side, price)
      PROVE  HandlerInv'
  <2>1. IsTracker(tracker') /\ EveryAddCounted' /\ Clean'
    <3>1. CASE action # "Delete" /\ Adding(side, price)
      BY <1>1, <1>4, <3>1, AddingKeeps
    <3>2. CASE Replaying(side, price) /\ QueueTold(action, side, price)
      BY <1>1, <1>4, <3>2, ReplayingKeeps
    <3>3. QED
      BY <1>4, <3>1, <3>2 DEF Updated
  <2>2. QED
    BY <1>2, <2>1 DEF HandlerInv
<1>5. QED
  BY <1>2, <1>3, <1>4 DEF Steady, Traded

(* The invariant holds in every reachable state of the handler.            *)
THEOREM HandlerInvariance == MDSpec => []HandlerInv
<1>1. QED
  BY HandlerInit, HandlerNext, PTL DEF MDSpec

-----------------------------------------------------------------------------
(* The tracker misses no order: every order id the two books issue reaches *)
(* handle_add() and is counted, as an add or as a duplicate.               *)
THEOREM AddsAreCounted == MDSpec => []EveryAddCounted
<1>1. HandlerInv => EveryAddCounted
  BY DEF HandlerInv
<1>2. QED
  BY <1>1, HandlerInvariance, PTL

(* Without an order id issued twice, no fill or cancel names an order the  *)
(* tracker does not know or takes more than the order has left.            *)
THEOREM NoOtherAnomaly == MDSpec => []AnomaliesNeedDuplicate
<1>1. HandlerInv => AnomaliesNeedDuplicate
  BY DEF HandlerInv, Clean, AnomaliesNeedDuplicate
<1>2. QED
  BY <1>1, HandlerInvariance, PTL

(* Without an order id issued twice, the tracker holds every order of the  *)
(* two books with its price, side and remaining quantity, and beyond those *)
(* exactly the orders that a Delete ever dropped without an event.         *)
THEOREM TrackerMirrors == MDSpec => []TrackerMirrorsBooks
<1>1. ASSUME HandlerInv, tracker.stats.duplicate_add = 0
      PROVE  /\ \A s \in Side, p \in Prices : \A o \in Range(Queue(book[s], p)) :
                   IsLive(o.order_id, s, p, o.qty)
             /\ DOMAIN tracker.live_orders =
                   lost \cup UNION {RestingIds(book[s], p) : s \in Side, p \in Prices}
  <2>1. Told /\ NothingElse /\ LostStay
    BY <1>1 DEF HandlerInv, Clean
  <2>2. \A s \in Side, p \in Prices : Queue(book[s], p) \in Seq(SyntheticOrder)
    BY <1>1, BooksAre DEF HandlerInv
  <2>3. ASSUME NEW s \in Side, NEW p \in Prices, NEW o \in Range(Queue(book[s], p))
        PROVE  IsLive(o.order_id, s, p, o.qty)
    <3> DEFINE q == Queue(book[s], p)
    <3>1. DOMAIN q = 1 .. Len(q)
      BY <2>2
    <3>2. PICK j \in 1 .. Len(q) : o = q[j]
      BY <2>3, <3>1 DEF Range
    <3>3. Holds(tracker.live_orders, q, s, p)
      BY <2>1 DEF Told
    <3>4. QED
      BY <3>2, <3>3 DEF Holds, IsLive
  <2>4. \A s \in Side, p \in Prices : RestingIds(book[s], p) = Named(Queue(book[s], p))
    BY <2>2, RestingIdsAreNamed
  <2>5. \A s \in Side, p \in Prices : Named(Queue(book[s], p)) \subseteq DOMAIN tracker.live_orders
    BY <2>1 DEF Told, Holds, Named
  <2>6. QED
    BY <2>1, <2>3, <2>4, <2>5 DEF NothingElse, LostStay
<1>2. HandlerInv => TrackerMirrorsBooks
  BY <1>1 DEF TrackerMirrorsBooks
<1>3. QED
  BY <1>2, HandlerInvariance, PTL

-----------------------------------------------------------------------------
(* How many duplicates there can be.  An order the tracker still holds has *)
(* an id that some side is past; when a side issues a live id, it is the   *)
(* other side that is past it, so the smaller counter grows with every     *)
(* duplicate.                                                              *)
LiveIssued == \A id \in DOMAIN tracker.live_orders :
                  id \in Nat /\ \E s \in Side : id < book[s].next_order_id

FewDuplicates == LiveIssued /\ DuplicatesAcrossSides

LEMMA FewDuplicatesInit == MDInit => FewDuplicates
<1>1. SUFFICES ASSUME MDInit PROVE FewDuplicates
  OBVIOUS
<1>2. tracker.stats.duplicate_add = 0 /\ DOMAIN tracker.live_orders = {}
  BY <1>1 DEF MDInit, EmptyTracker
<1>3. \A s \in Side : book[s].next_order_id = 1
  BY <1>1 DEF MDInit, Init, EmptyBook
<1>4. QED
  BY <1>2, <1>3 DEF FewDuplicates, LiveIssued, DuplicatesAcrossSides

LEMMA FewDuplicatesNext ==
    HandlerInv /\ FewDuplicates /\ [MDNext]_mdVars => FewDuplicates'
<1>1. SUFFICES ASSUME HandlerInv, FewDuplicates, [MDNext]_mdVars PROVE FewDuplicates'
  OBVIOUS
<1> DEFINE live == DOMAIN tracker.live_orders
           dups == tracker.stats.duplicate_add
           next == [s \in Side |-> book[s].next_order_id]
           live2 == DOMAIN tracker'.live_orders
           dups2 == tracker'.stats.duplicate_add
           next2 == [s \in Side |-> book'[s].next_order_id]
<1>2. /\ \A s \in Side : next[s] \in Nat
      /\ \A id \in live : id \in Nat /\ \E s \in Side : id < next[s]
      /\ \A s \in Side : dups <= next[s] - 1
      /\ dups \in Nat
  <2>1. \A s \in Side : next[s] \in Nat
    BY <1>1, BooksAre DEF HandlerInv
  <2>2. dups \in Nat
    BY <1>1 DEF HandlerInv, IsTracker, TrackerStats
  <2>3. QED
    BY <1>1, <2>1, <2>2 DEF FewDuplicates, LiveIssued, DuplicatesAcrossSides
<1>3. \/ UNCHANGED <<book, tracker>>
      \/ \E action \in L2Action, side \in Side, price \in Prices :
            Updated(action, side, price)
  BY <1>1, HandlerStep DEF HandlerInv, Steady, Traded
<1>4. CASE UNCHANGED <<book, tracker>>
  BY <1>1, <1>4 DEF FewDuplicates, LiveIssued, DuplicatesAcrossSides
<1>5. ASSUME NEW side \in Side, NEW price \in Prices, Adding(side, price),
             tracker' = OnEvents(tracker, out')
      PROVE  FewDuplicates'
  <2> DEFINE id == next[side]
  <2>1. /\ OneQueue(side, price) /\ next2[side] = next[side] + 1
        /\ out' \in Seq(L3Event) /\ Len(out') = 1
        /\ out'[1].type = "OrderAdd" /\ out'[1].order_id = id
    BY <1>5 DEF Adding
  <2>2. tracker' = OnEvent(tracker, out'[1]) /\ out'[1] \in L3Event
    BY <1>5, <2>1, OneTold, OneEvent
  <2>3. /\ live2 = live \cup {id}
        /\ id \in live => dups2 = dups + 1
        /\ id \notin live => dups2 = dups
    <3> DEFINE ev  == out'[1]
               new == OnEvent(tracker, ev)
    <3>1. IsTracker(tracker) /\ ev \in L3Event /\ ev.type = "OrderAdd"
      BY <1>1, <2>1, <2>2 DEF HandlerInv
    <3>2. ev.order_id = id /\ tracker' = new
      BY <2>1, <2>2
    <3> HIDE DEF id, ev
    <3>3. /\ DOMAIN new.live_orders = live \cup {ev.order_id}
          /\ ev.order_id \in live => new.stats.duplicate_add = dups + 1
          /\ ev.order_id \notin live => new.stats.duplicate_add = dups
      BY <3>1, AddTold
    <3> HIDE DEF new
    <3>4. QED
      BY <3>2, <3>3
  <2>4. \A s \in Side : s # side => next2[s] = next[s]
    BY <1>1, <2>1, QueuesAfter DEF HandlerInv
  <2> HIDE DEF next, dups, live, next2, dups2, live2
  <2>5. \A s \in Side : next2[s] \in Nat /\ next[s] <= next2[s]
    BY <1>2, <2>1, <2>4
  <2>6. ASSUME NEW x \in live2 PROVE x \in Nat /\ \E s \in Side : x < next2[s]
    <3>1. CASE x = id
      BY <1>2, <2>1, <3>1
    <3>2. CASE x # id
      <4>1. x \in live
        BY <2>3, <2>6, <3>2
      <4>2. x \in Nat
        BY <1>2, <4>1
      <4>3. PICK s \in Side : x < next[s]
        BY <1>2, <4>1
      <4>4. QED
        BY <1>2, <2>5, <4>2, <4>3
    <3>3. QED
      BY <3>1, <3>2
  <2>7. ASSUME NEW s \in Side PROVE dups2 <= next2[s] - 1
    <3>1. CASE id \notin live
      BY <1>2, <2>3, <2>5, <3>1
    <3>2. CASE id \in live
      <4>1. PICK other \in Side : id < next[other]
        BY <1>2, <3>2
      <4>2. other # side
        BY <1>2, <4>1
      <4>3. s = side \/ s = other
        BY <4>2 DEF Side
      <4>4. QED
        BY <1>2, <2>1, <2>3, <2>4, <3>2, <4>1, <4>2, <4>3
    <3>3. QED
      BY <3>1, <3>2
  <2>8. QED
    BY <2>6, <2>7 DEF FewDuplicates, LiveIssued, DuplicatesAcrossSides,
           next2, dups2, live2
<1>6. ASSUME NEW side \in Side, NEW price \in Prices, Replaying(side, price),
             tracker' = OnEvents(tracker, out')
      PROVE  FewDuplicates'
  <2>1. /\ OneQueue(side, price) /\ next2[side] = next[side]
        /\ out' \in Seq(L3Event)
        /\ \A i \in 1 .. Len(out') : out'[i].type # "OrderAdd"
    BY <1>6 DEF Replaying, OneQueue
  <2>2. dups2 = dups /\ live2 \subseteq live
    BY <1>1, <1>6, <2>1, ReducesCountNoAdd DEF HandlerInv
  <2>3. \A s \in Side : next2[s] = next[s]
    <3>1. \A s \in Side : s # side => book'[s] = book[s]
      BY <1>1, <2>1, QueuesAfter DEF HandlerInv
    <3>2. QED
      BY <2>1, <3>1
  <2> HIDE DEF next, dups, live, next2, dups2, live2
  <2>4. QED
    BY <1>2, <2>2, <2>3 DEF FewDuplicates, LiveIssued, DuplicatesAcrossSides,
           next2, dups2, live2
<1>7. QED
  BY <1>3, <1>4, <1>5, <1>6 DEF Updated

(* A duplicate id is always one side catching up with the other: the       *)
(* tracker counts at most as many duplicates as either book has issued     *)
(* orders.                                                                 *)
THEOREM DuplicatesBounded == MDSpec => []DuplicatesAcrossSides
<1>1. MDSpec => []FewDuplicates
  BY FewDuplicatesInit, FewDuplicatesNext, HandlerInvariance, PTL DEF MDSpec
<1>2. FewDuplicates => DuplicatesAcrossSides
  BY DEF FewDuplicates
<1>3. QED
  BY <1>1, <1>2, PTL

-----------------------------------------------------------------------------
(* Whatever messages the feed sends and wherever in a message an error     *)
(* stops it, the handler drives the correlator through calls the           *)
(* correlator's own specification allows: each element is one on_trade()   *)
(* or on_l2_update() with arguments of its types, everything else leaves   *)
(* it alone.  So all that is proved of Correlator holds in the handler.    *)
THEOREM HandlerRunsCorrelator == MDSpec => Spec
<1>1. MDInit => Init
  BY DEF MDInit
<1>2. ASSUME msg_ts \in Timestamps, [MDNext]_mdVars
      PROVE  [Next]_vars
  <2>1. ASSUME NEW ts \in Timestamps, NEW price \in FeedPrices, NEW amount \in TradedQtys,
               NEW id \in TradeIds \cup {0}, TradeElement(ts, price, amount, id)
        PROVE  Next
    <3> PICK qty \in ToQty(amount) : OnTrade(ts, ToPrice(price), qty, id)
      BY <2>1 DEF TradeElement
    <3>1. ToPrice(price) \in Prices /\ qty \in TradeQtys
      BY FeedAssumption
    <3>2. QED
      BY <3>1 DEF Next
  <2>2. ASSUME NEW action \in L2Action, NEW price \in FeedPrices, NEW amount \in FeedQtys,
               LevelElement(action, price, amount)
        PROVE  Next
    <3> PICK qty \in ToQty(amount) :
               OnL2Update(msg_ts, action, ToPrice(price), qty, SideOf(parsing))
      BY <2>2 DEF LevelElement
    <3>1. ToPrice(price) \in Prices /\ qty \in L2Qtys /\ SideOf(parsing) \in Side
      BY FeedAssumption DEF SideOf, Side
    <3>2. QED
      BY <1>2, <3>1 DEF Next
  <2>3. CASE \/ BeginTrades \/ NonNumericTradeId \/ EndBids \/ EndMessage
             \/ \E ts \in Timestamps : BeginBook(ts)
             \/ UNCHANGED mdVars
    BY <2>3 DEF BeginTrades, NonNumericTradeId, EndBids, EndMessage, BeginBook,
       mdVars, vars
  <2>4. QED
    BY <1>2, <2>1, <2>2, <2>3 DEF MDNext
<1>3. HandlerInv => msg_ts \in Timestamps
  BY DEF HandlerInv
<1>4. msg_ts \in Timestamps /\ [MDNext]_mdVars => [Next]_vars
  BY <1>2
<1>5. QED
  BY <1>1, <1>3, <1>4, HandlerInvariance, PTL DEF MDSpec, Spec

(* The two steps composed: the feed handler as a whole implements the      *)
(* abstract event stream, across messages, partial messages included.      *)
THEOREM HandlerStreams == MDSpec => ImplementsStream
<1>1. QED
  BY HandlerRunsCorrelator, StreamRefined

(* Within the handler, too, an order id never rests twice in one book and  *)
(* queues stay in order of arrival; only across the two sides can an id    *)
(* repeat.                                                                 *)
THEOREM HandlerIdsInOrder == MDSpec => []IdsInOrder
<1>1. QED
  BY HandlerRunsCorrelator, IdsStayInOrder
=============================================================================
