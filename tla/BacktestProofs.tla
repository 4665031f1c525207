---------------------------- MODULE BacktestProofs ----------------------------
(* Proofs about the event loop, for every strategy, every set of quotes, prices *)
(* and amounts, both fill modes and streams of any length.                      *)
(*                                                                              *)
(* The inductive invariant is Inv: the invariant of the order manager and the   *)
(* types, with what Backtest.run relies on without checking it: which locals    *)
(* are alive where (Scope), that no order is younger than the event (Ages), and *)
(* what the part of the list already visited by the matcher looks like          *)
(* (Visited).  From it follow that orders wait for the next event, that the     *)
(* matcher misses no order and serves earlier ones first, and, with the lemmas  *)
(* about SumTo proved here, that a print's volume is conserved.                 *)
(*                                                                              *)
(* The accounts kept of a fill rest on it too: the fills log ties up with the   *)
(* order records (Conservation), the strategy is told of fills once and in      *)
(* time, since what it was told and what it has still to be told are all that   *)
(* rested and was filled (Told), and the recorder differs from the log by       *)
(* nothing (Recording) as long as the book has a mid (BookKnown).               *)
EXTENDS Backtest, OrderManagerProofs, WellFoundedInduction

Scope ==
    /\ pc \in Idle => fills = NoFills /\ market_fills = NoFills
    /\ pc \in {"match", "log"} => market_fills = NoFills
    /\ pc # "match" => resting = {}
    /\ pc \notin {"notify", "in_on_fill", "raised"} => to_notify = {}
    /\ pc \notin Idle => n > 0

Ages ==
    /\ \A id \in DOMAIN orders : orders[id].ts <= n
    /\ \A id \in resting : orders[id].ts < n
    /\ NextEventLatency

Visited ==
    pc = "match" =>
       /\ resting \cap DOMAIN fills = {}
       /\ \A id \in Active :
             orders[id].ts < n /\ id \notin resting /\ Crosses(orders[id]) => Exhausted

Inv == /\ OrderInv
       /\ LoopTypeOK
       /\ Scope
       /\ Ages
       /\ Visited

--------------------------------------------------------------------------------
(* Functions from ids to quantities.                                            *)

\* A quantity of every id of its domain.
Quantities(totals) == totals \in [DOMAIN totals -> Nat]

LEMMA AtNat ==
    ASSUME NEW totals, Quantities(totals), NEW id
    PROVE  At(totals, id) \in Nat
  BY DEF Quantities, At

LEMMA NoFillsFacts ==
    Quantities(NoFills) /\ DOMAIN NoFills = {} /\ \A id : At(NoFills, id) = 0
  BY DEF NoFills, Quantities, At

LEMMA PutFacts ==
    ASSUME NEW totals, Quantities(totals), NEW key, NEW value \in Nat
    PROVE  /\ Quantities(Put(totals, key, value))
           /\ DOMAIN Put(totals, key, value) = DOMAIN totals \cup {key}
           /\ At(Put(totals, key, value), key) = value
           /\ \A id : id # key => At(Put(totals, key, value), id) = At(totals, id)
  BY DEF Quantities, Put, At

LEMMA AddedFacts ==
    ASSUME NEW totals, Quantities(totals), NEW fs, Quantities(fs)
    PROVE  /\ Quantities(Added(totals, fs))
           /\ DOMAIN Added(totals, fs) = DOMAIN totals \cup DOMAIN fs
           /\ \A id : At(Added(totals, fs), id) = At(totals, id) + At(fs, id)
<1>1. DOMAIN Added(totals, fs) = DOMAIN totals \cup DOMAIN fs
  BY DEF Added
<1>2. \A id \in DOMAIN totals \cup DOMAIN fs :
         Added(totals, fs)[id] = At(totals, id) + At(fs, id)
  BY DEF Added, At
<1>3. Added(totals, fs) = [id \in DOMAIN totals \cup DOMAIN fs |->
                              At(totals, id) + At(fs, id)]
  BY DEF Added, At
<1>4. \A id : At(totals, id) \in Nat /\ At(fs, id) \in Nat
  BY AtNat
<1>5. Quantities(Added(totals, fs))
  BY <1>1, <1>3, <1>4 DEF Quantities
<1>6. ASSUME NEW id
      PROVE  At(Added(totals, fs), id) = At(totals, id) + At(fs, id)
  <2>1. CASE id \in DOMAIN totals \cup DOMAIN fs
    BY <2>1, <1>1, <1>2 DEF At
  <2>2. CASE id \notin DOMAIN totals \cup DOMAIN fs
    BY <2>2, <1>1 DEF At
  <2> QED
    BY <2>1, <2>2
<1> QED
  BY <1>1, <1>5, <1>6

--------------------------------------------------------------------------------
(* Sums over the orders.  Each lemma looks at the least number for which it     *)
(* would fail.                                                                  *)

\* A set of natural numbers has a least element.
LEMMA LeastNumber ==
    ASSUME NEW T \in SUBSET Nat, T # {}
    PROVE  \E i \in T : \A j \in T : i <= j
<1> DEFINE R == {pair \in Nat \X Nat : pair[1] < pair[2]}
<1>1. IsWellFoundedOn(R, Nat)
  BY NatLessThanWellFounded DEF OpToRel
<1>2. \A i, j \in Nat : ~(<<j, i>> \in R) => i <= j
  OBVIOUS
<1> HIDE DEF R
<1>3. PICK i \in T : \A j \in T : ~(<<j, i>> \in R)
  BY <1>1, WFMin
<1> QED
  BY <1>2, <1>3

\* f holds the sums of a quantity up to id.
Sums(f, totals, id) ==
    /\ f \in [0 .. id -> Int]
    /\ f[0] = 0
    /\ \A i \in 1 .. id : f[i] = f[i - 1] + At(totals, i)

LEMMA SumsUnique ==
    ASSUME NEW totals, NEW m \in Nat, NEW k \in Nat, NEW f, NEW g,
           Sums(f, totals, m), Sums(g, totals, k), NEW i \in 0 .. m, i <= k
    PROVE  f[i] = g[i]
<1> SUFFICES ASSUME f[i] # g[i] PROVE FALSE
  OBVIOUS
<1> DEFINE T == {j \in 0 .. i : f[j] # g[j]}
<1>1. T \in SUBSET Nat /\ i \in T
  OBVIOUS
<1>2. PICK j \in T : \A l \in T : j <= l
  <2> HIDE DEF T
  <2> QED
    BY <1>1, LeastNumber
<1>3. j \in 0 .. i /\ f[j] # g[j]
  BY <1>2
<1>4. j # 0
  BY <1>3 DEF Sums
<1>5. f[j - 1] = g[j - 1]
  <2>1. j - 1 \in 0 .. i /\ ~(j <= j - 1)
    BY <1>3, <1>4
  <2> QED
    BY <1>2, <2>1
<1>6. j \in 1 .. m /\ j \in 1 .. k
  BY <1>3, <1>4
<1> QED
  BY <1>3, <1>5, <1>6 DEF Sums

LEMMA SumsExist ==
    ASSUME NEW totals, \A i : At(totals, i) \in Int, NEW id \in Nat
    PROVE  \E f : Sums(f, totals, id)
<1> SUFFICES ASSUME ~\E f : Sums(f, totals, id) PROVE FALSE
  OBVIOUS
<1> DEFINE T == {k \in Nat : ~\E f : Sums(f, totals, k)}
<1>1. PICK k \in T : \A l \in T : k <= l
  <2>1. T \in SUBSET Nat /\ id \in T
    OBVIOUS
  <2> HIDE DEF T
  <2> QED
    BY <2>1, LeastNumber
<1>2. k \in Nat /\ ~\E f : Sums(f, totals, k)
  BY <1>1
<1>3. k # 0
  <2>1. Sums([i \in 0 .. 0 |-> 0], totals, 0)
    BY DEF Sums
  <2> QED
    BY <1>2, <2>1
<1>4. k - 1 \in Nat /\ k - 1 \notin T
  BY <1>1, <1>2, <1>3
<1>5. PICK f : Sums(f, totals, k - 1)
  BY <1>4
<1> DEFINE g == [i \in 0 .. k |-> IF i = k THEN f[k - 1] + At(totals, k) ELSE f[i]]
<1>6. f \in [0 .. (k - 1) -> Int] /\ At(totals, k) \in Int
  BY <1>5 DEF Sums
<1>7. g \in [0 .. k -> Int]
  BY <1>2, <1>3, <1>6
<1>8. g[0] = 0
  BY <1>2, <1>3, <1>5 DEF Sums
<1>9. ASSUME NEW i \in 1 .. k
      PROVE  g[i] = g[i - 1] + At(totals, i)
  <2>1. g[i - 1] = f[i - 1]
    BY <1>2
  <2>2. i # k => g[i] = f[i] /\ i \in 1 .. (k - 1)
    BY <1>2
  <2> QED
    BY <1>5, <2>1, <2>2 DEF Sums
<1>10. Sums(g, totals, k)
  BY <1>7, <1>8, <1>9 DEF Sums
<1> QED
  BY <1>2, <1>10

\* The sum is computed order by order.
LEMMA SumToFacts ==
    ASSUME NEW totals, \A i : At(totals, i) \in Int
    PROVE  /\ SumTo(totals, 0) = 0
           /\ \A id \in Nat : /\ SumTo(totals, id) \in Int
                              /\ SumTo(totals, id + 1) = SumTo(totals, id) + At(totals, id + 1)
<1> DEFINE S(id) == CHOOSE f : Sums(f, totals, id)
           F == [i \in Nat |-> S(i)[i]]
<1>1. \A id \in Nat : Sums(S(id), totals, id)
  BY SumsExist
<1> HIDE DEF S
<1>2. F[0] = 0 /\ \A i \in Nat : F[i] \in Int
  BY <1>1 DEF Sums
<1>3. ASSUME NEW i \in Nat, i # 0
      PROVE  F[i] = F[i - 1] + At(totals, i)
  <2>1. i \in 1 .. i /\ i - 1 \in Nat /\ i - 1 <= i /\ i - 1 \in 0 .. (i - 1)
    BY <1>3
  <2>2. S(i)[i] = S(i)[i - 1] + At(totals, i)
    BY <1>1, <2>1 DEF Sums
  <2>3. S(i - 1)[i - 1] = S(i)[i - 1]
    BY <1>1, <2>1, SumsUnique
  <2> QED
    BY <2>1, <2>2, <2>3
<1>4. F = [i \in Nat |-> IF i = 0 THEN 0 ELSE F[i - 1] + At(totals, i)]
  BY <1>2, <1>3
<1> HIDE DEF F
<1> DEFINE sum[i \in Nat] == IF i = 0 THEN 0 ELSE sum[i - 1] + At(totals, i)
<1>5. sum = [i \in Nat |-> IF i = 0 THEN 0 ELSE sum[i - 1] + At(totals, i)]
  BY <1>4
<1>6. \A id : SumTo(totals, id) = sum[id]
  BY DEF SumTo
<1> HIDE DEF sum
<1>7. sum[0] = 0 /\ \A i \in Nat : sum[i + 1] = sum[i] + At(totals, i + 1)
  BY <1>5
<1>8. \A i \in Nat : sum[i] = F[i]
  <2> SUFFICES ASSUME NEW i \in Nat, sum[i] # F[i] PROVE FALSE
    OBVIOUS
  <2> DEFINE T == {j \in Nat : sum[j] # F[j]}
  <2>1. PICK j \in T : \A l \in T : j <= l
    <3>1. T \in SUBSET Nat /\ i \in T
      OBVIOUS
    <3> HIDE DEF T
    <3> QED
      BY <3>1, LeastNumber
  <2>2. j \in Nat /\ sum[j] # F[j]
    BY <2>1
  <2>3. j # 0
    BY <1>2, <1>7, <2>2
  <2>4. j - 1 \in Nat /\ sum[j - 1] = F[j - 1]
    BY <2>1, <2>2, <2>3
  <2> QED
    BY <1>3, <1>5, <2>2, <2>3, <2>4
<1> QED
  BY <1>2, <1>6, <1>7, <1>8

\* The sum of a sum.
LEMMA SumToPlus ==
    ASSUME NEW a, NEW b, NEW c, NEW last \in Nat,
           \A i : At(a, i) \in Int /\ At(b, i) \in Int /\ At(c, i) \in Int,
           \A i \in 1 .. last : At(c, i) = At(a, i) + At(b, i)
    PROVE  SumTo(c, last) = SumTo(a, last) + SumTo(b, last)
<1> DEFINE Wrong == {k \in 0 .. last : SumTo(c, k) # SumTo(a, k) + SumTo(b, k)}
<1> SUFFICES ASSUME Wrong # {} PROVE FALSE
  OBVIOUS
<1>1. PICK k \in Wrong : \A l \in Wrong : k <= l
  <2>1. Wrong \in SUBSET Nat
    OBVIOUS
  <2> HIDE DEF Wrong
  <2> QED
    BY <2>1, LeastNumber
<1>2. k \in 0 .. last /\ SumTo(c, k) # SumTo(a, k) + SumTo(b, k)
  BY <1>1
<1>3. k # 0
  BY <1>2, SumToFacts
<1>4. k - 1 \in 0 .. last /\ k - 1 \in Nat /\ k \in 1 .. last
  BY <1>2, <1>3
<1>5. SumTo(c, k - 1) = SumTo(a, k - 1) + SumTo(b, k - 1)
  <2>1. k - 1 \notin Wrong
    BY <1>1, <1>2
  <2> QED
    BY <1>4, <2>1
<1>6. /\ SumTo(a, (k - 1) + 1) = SumTo(a, k - 1) + At(a, (k - 1) + 1)
      /\ SumTo(b, (k - 1) + 1) = SumTo(b, k - 1) + At(b, (k - 1) + 1)
      /\ SumTo(c, (k - 1) + 1) = SumTo(c, k - 1) + At(c, (k - 1) + 1)
      /\ SumTo(a, k - 1) \in Int /\ SumTo(b, k - 1) \in Int
  BY <1>4, SumToFacts
<1>7. (k - 1) + 1 = k
  BY <1>4
<1>8. At(c, k) = At(a, k) + At(b, k) /\ At(a, k) \in Int /\ At(b, k) \in Int
  BY <1>4
<1> QED
  BY <1>2, <1>5, <1>6, <1>7, <1>8

\* Nothing comes to nothing.
LEMMA SumToNothing ==
    ASSUME NEW a, NEW last \in Nat, \A i : At(a, i) \in Int, \A i \in 1 .. last : At(a, i) = 0
    PROVE  SumTo(a, last) = 0
<1>1. SumTo(a, last) = SumTo(a, last) + SumTo(a, last)
  BY SumToPlus
<1>2. SumTo(a, last) \in Int
  BY SumToFacts
<1>3. \A sum \in Int : sum = sum + sum => sum = 0
  OBVIOUS
<1> QED
  BY <1>1, <1>2, <1>3

\* Quantities that are the same come to the same.
LEMMA SumToSame ==
    ASSUME NEW a, NEW b, NEW last \in Nat,
           \A i : At(a, i) \in Int /\ At(b, i) \in Int,
           \A i \in 1 .. last : At(a, i) = At(b, i)
    PROVE  SumTo(a, last) = SumTo(b, last)
<1> DEFINE none == [i \in {} |-> 0]
<1>1. \A i : At(none, i) = 0
  BY DEF At
<1> HIDE DEF none
<1>2. SumTo(none, last) = 0
  BY <1>1, SumToNothing
<1>3. SumTo(a, last) = SumTo(b, last) + SumTo(none, last)
  BY <1>1, SumToPlus
<1>4. SumTo(b, last) \in Int
  BY SumToFacts
<1> QED
  BY <1>2, <1>3, <1>4

\* One quantity alone.
LEMMA SumToSingle ==
    ASSUME NEW a, NEW last \in Nat, \A i : At(a, i) \in Int,
           NEW id \in 1 .. last, \A i \in 1 .. last : i # id => At(a, i) = 0
    PROVE  SumTo(a, last) = At(a, id)
<1>1. \A k \in Nat : SumTo(a, k) \in Int
  BY SumToFacts
<1>2. id - 1 \in Nat /\ \A i \in 1 .. (id - 1) : At(a, i) = 0
  OBVIOUS
<1>3. SumTo(a, id - 1) = 0
  BY <1>2, SumToNothing
<1>4. SumTo(a, (id - 1) + 1) = SumTo(a, id - 1) + At(a, (id - 1) + 1)
  BY <1>2, SumToFacts
<1>5. (id - 1) + 1 = id /\ At(a, id) \in Int
  BY <1>2
<1>6. SumTo(a, id) = At(a, id)
  BY <1>3, <1>4, <1>5
<1> DEFINE Wrong == {k \in id .. last : SumTo(a, k) # At(a, id)}
<1> SUFFICES ASSUME Wrong # {} PROVE FALSE
  OBVIOUS
<1>7. PICK k \in Wrong : \A l \in Wrong : k <= l
  <2>1. Wrong \in SUBSET Nat
    OBVIOUS
  <2> HIDE DEF Wrong
  <2> QED
    BY <2>1, LeastNumber
<1>8. k \in id .. last /\ SumTo(a, k) # At(a, id)
  BY <1>7
<1>9. k # id
  BY <1>6, <1>8
<1>10. k - 1 \in id .. last /\ k - 1 \in Nat /\ k \in 1 .. last
  BY <1>8, <1>9
<1>11. SumTo(a, k - 1) = At(a, id)
  <2>1. k - 1 \notin Wrong
    BY <1>7, <1>8
  <2> QED
    BY <1>10, <2>1
<1>12. SumTo(a, (k - 1) + 1) = SumTo(a, k - 1) + At(a, (k - 1) + 1)
  BY <1>10, SumToFacts
<1>13. (k - 1) + 1 = k /\ At(a, k) = 0
  BY <1>9, <1>10
<1> QED
  BY <1>5, <1>8, <1>11, <1>12, <1>13

--------------------------------------------------------------------------------
(* What the steps of the loop do to the orders.                                 *)

\* A fill takes a positive part of what is left of the order.
LEMMA FillSizeRange ==
    ASSUME Inv, pc = "match", ~Exhausted, NEW id \in resting, IsActive(orders[id])
    PROVE  FillSize(orders[id]) \in 1 .. RemainingSize(orders[id])
<1>1. id \in DOMAIN orders
  BY DEF Inv, LoopTypeOK, Idle
<1>2. orders[id] \in OrderType /\ Coherent(orders[id])
  BY <1>1, InvRecords DEF Inv
<1>3. RemainingSize(orders[id]) \in Int /\ RemainingSize(orders[id]) > 0
  BY <1>2 DEF OrderType, Coherent, IsActive, RemainingSize
<1>4. remaining_amount \in Nat
  BY DEF Inv, LoopTypeOK, Idle
<1>5. CASE CountsVolume
  <2>1. remaining_amount > 0
    BY <1>4, <1>5 DEF Exhausted
  <2> QED
    BY <1>3, <1>4, <1>5, <2>1 DEF FillSize, Smaller
<1>6. CASE ~CountsVolume
  BY <1>3, <1>6 DEF FillSize
<1> QED
  BY <1>5, <1>6

\* A fill adds its size to the order, leaves the others alone, is a step of the
\* manager, and leaves the order active only when the volume is used up.
LEMMA MatchFillOrders ==
    ASSUME Inv, pc = "match", ~Exhausted, NEW id \in resting, MatchFill(id),
           UNCHANGED <<pc, event, book>>
    PROVE  /\ OrderNext
           /\ DOMAIN orders' = DOMAIN orders
           /\ orders'[id].filled_size = orders[id].filled_size + FillSize(orders[id])
           /\ \A i \in DOMAIN orders : i # id => orders'[i] = orders[i]
           /\ remaining_amount' \in Nat
           /\ IsActive(orders'[id]) => Exhausted'
<1> DEFINE o == orders[id]
           q == FillSize(orders[id])
<1>1. /\ id \in DOMAIN orders /\ o \in OrderType /\ Coherent(o) /\ IsActive(o)
      /\ id \in Active
  BY InvRecords DEF Inv, LoopTypeOK, MatchFill, Active, Idle, VolumeLeft
<1>2. q \in 1 .. RemainingSize(o)
  BY <1>1, FillSizeRange
<1>3. /\ o.size \in Int /\ o.filled_size \in Int /\ q \in Int /\ q >= 1
      /\ RemainingSize(o) = o.size - o.filled_size
      /\ q <= o.size - o.filled_size
  BY <1>1, <1>2 DEF OrderType, RemainingSize
<1>4. remaining_amount \in Nat
  BY DEF Inv, LoopTypeOK, Idle
<1>5. CASE CountsVolume
  <2>1. PartialFill(id, q)
    BY <1>5 DEF MatchFill, VolumeLeft
  <2>2. OrderNext
    BY <1>1, <1>2, <2>1 DEF OrderNext
  <2>3. /\ DOMAIN orders' = DOMAIN orders
        /\ \A i \in DOMAIN orders : i # id => orders'[i] = orders[i]
        /\ orders'[id].filled_size = o.filled_size + q
        /\ orders'[id].status = IF o.size - (o.filled_size + q) <= 0
                                  THEN "FILLED" ELSE "PARTIALLY_FILLED"
    BY <1>1, <2>1 DEF PartialFill, OrderType
  <2>4. remaining_amount' = remaining_amount - q
    BY <1>5 DEF MatchFill, VolumeLeft
  <2>5. q = Smaller(RemainingSize(o), remaining_amount)
    BY <1>5 DEF FillSize
  <2>6. remaining_amount' \in Nat
    BY <1>3, <1>4, <2>4, <2>5 DEF Smaller
  <2>7. ASSUME IsActive(orders'[id])
        PROVE  Exhausted'
    <3>1. o.size - (o.filled_size + q) > 0
      BY <1>3, <2>3, <2>7 DEF IsActive
    <3>2. q = remaining_amount
      BY <1>3, <1>4, <2>5, <3>1 DEF Smaller
    <3> QED
      BY <1>4, <1>5, <2>4, <3>2 DEF Exhausted, CountsVolume
  <2> QED
    BY <2>2, <2>3, <2>6, <2>7
<1>6. CASE ~CountsVolume
  <2>1. FullFill(id)
    BY <1>6 DEF MatchFill, VolumeLeft
  <2>2. OrderNext
    BY <1>1, <2>1 DEF OrderNext
  <2>3. q = o.size - o.filled_size
    BY <1>3, <1>6 DEF FillSize
  <2>4. /\ DOMAIN orders' = DOMAIN orders
        /\ \A i \in DOMAIN orders : i # id => orders'[i] = orders[i]
        /\ orders'[id].filled_size = o.size
        /\ orders'[id].status = "FILLED"
    BY <1>1, <2>1 DEF FullFill, OrderType
  <2>5. remaining_amount' = remaining_amount
    BY <1>6 DEF MatchFill, VolumeLeft
  <2> QED
    BY <1>3, <1>4, <2>2, <2>3, <2>4, <2>5 DEF IsActive
<1> QED
  BY <1>5, <1>6

\* A market order is entered at a price of the book.
LEMMA MarketOrderNext ==
    ASSUME Inv, NEW side \in Sides, NEW size \in Sizes, CtxMarketOrder(side, size)
    PROVE  \E price \in Prices : ExecuteMarketOrder(side, price, size, n)
<1> DEFINE level == IF side = "BUY" THEN book.ask ELSE book.bid
<1>1. level \in Prices
  BY DEF Inv, LoopTypeOK, CtxMarketOrder, MarketPrices, Idle
<1>2. ExecuteMarketOrder(side, level, size, n)
  BY DEF CtxMarketOrder
<1> QED
  BY <1>1, <1>2

\* Every step of the loop or of the strategy is a step of the order manager or
\* leaves the orders alone.
LEMMA OrdersNext ==
    ASSUME Inv, [Next]_vars
    PROVE  [OrderNext]_ordervars
<1>1. n \in Times
  BY DEF Inv, LoopTypeOK, Idle
<1>2. CASE StrategyCall
  <2>1. ASSUME NEW side \in Sides, NEW price \in Prices, NEW size \in Sizes,
               CtxPlace(side, price, size)
        PROVE  OrderNext
    BY <1>1, <2>1 DEF CtxPlace, OrderNext
  <2>2. ASSUME NEW id \in DOMAIN orders, CtxCancel(id)
        PROVE  OrderNext
    BY <2>2 DEF CtxCancel, OrderNext
  <2>3. ASSUME CtxCancelAll
        PROVE  OrderNext
    BY <2>3 DEF CtxCancelAll, OrderNext
  <2>4. ASSUME NEW side \in Sides, NEW size \in Sizes, CtxMarketOrder(side, size)
        PROVE  OrderNext
    BY <1>1, <2>4, MarketOrderNext DEF OrderNext
  <2> QED
    BY <1>2, <2>1, <2>2, <2>3, <2>4 DEF StrategyCall
<1>3. ASSUME NEW id \in resting, MatchOrder(id)
      PROVE  [OrderNext]_ordervars
  <2>1. CASE MatchFill(id)
    BY <1>3, <2>1, MatchFillOrders DEF MatchOrder, Unvisited
  <2>2. CASE MatchSkip(id)
    BY <2>2 DEF MatchSkip, ordervars
  <2> QED
    BY <1>3, <2>1, <2>2 DEF MatchOrder, Unvisited
<1>4. CASE Loop \/ NotifyFill \/ Return \/ Raise
  BY <1>3, <1>4 DEF Loop, Receive, Work, NotifyFill, TakeSnapshot, TakeTrade, StartEvent,
     EndOfStream, StreamFails, EndMatch, RecordFills, CallOnFill, CallOnEvent, Return,
     Raise, CollectMarketFills, ordervars, MatchList, AllNotified, Applied
<1>5. CASE UNCHANGED vars
  BY <1>5 DEF vars, ordervars
<1> QED
  BY <1>2, <1>4, <1>5 DEF Next, Strategy

\* So the manager's invariant holds after it and every order takes a step of its own.
LEMMA OrdersAfter ==
    ASSUME Inv, [Next]_vars
    PROVE  OrderInv' /\ OrdersStep /\ DOMAIN orders \subseteq DOMAIN orders'
<1>1. OrderInv' /\ OrdersStep
  BY OrdersNext, OrderNextStep DEF Inv
<1> QED
  BY <1>1 DEF OrdersStep

--------------------------------------------------------------------------------
(* The invariant is inductive: one lemma per action.                            *)

LoopInv == LoopTypeOK /\ Scope /\ Ages /\ Visited

\* The event is taken: nothing is visited and everything on the list is older.
LEMMA StartEventStep ==
    ASSUME Inv, NEW e \in Snapshots \cup Trades, StartEvent(e),
           book'.bid \in MarketPrices \cup {None}, book'.ask \in MarketPrices \cup {None},
           remaining_amount' \in Nat
    PROVE  LoopInv'
<1>1. /\ StartEvent(e) /\ pc = "next" /\ pc' = "match" /\ UNCHANGED <<orders, next_id>>
      /\ fills = NoFills /\ market_fills = NoFills /\ to_notify = {}
      /\ UNCHANGED <<fills, market_fills, to_notify, calls, logged, recorded, notified,
                     mark>>
  BY DEF StartEvent, Inv, Scope, MatchList, Idle
<1>2. /\ n \in Nat /\ n' = n + 1 /\ n' \in Times /\ event' = e /\ e # NoEvent
  BY <1>1, OrderAssumption
     DEF StartEvent, Inv, LoopTypeOK, Times, Snapshots, Trades, NoEvent, MatchList, Idle
<1>3. /\ book'.bid \in MarketPrices \cup {None} /\ book'.ask \in MarketPrices \cup {None}
      /\ remaining_amount' \in Nat
  OBVIOUS
<1>4. resting' = Active /\ Active \subseteq DOMAIN orders
  BY <1>1 DEF StartEvent, Active, MatchList
<1>5. LoopTypeOK'
  BY <1>1, <1>2, <1>3, <1>4 DEF Inv, LoopTypeOK, PerOrder, Idle
<1>6. Scope'
  BY <1>1, <1>2 DEF Scope, Idle
<1>7. Ages'
  <2>1. \A id \in DOMAIN orders : orders[id].ts \in Int /\ orders[id].ts <= n
    BY InvRecords, OrderAssumption DEF Inv, Ages, OrderType, Times
  <2>2. DOMAIN fills' = {} /\ DOMAIN market_fills' = {}
    BY <1>1, NoFillsFacts
  <2> QED
    BY <1>1, <1>2, <1>4, <2>1, <2>2 DEF Ages, NextEventLatency
<1>8. Visited'
  BY <1>1, <1>4, NoFillsFacts DEF Visited, Active
<1> QED
  BY <1>5, <1>6, <1>7, <1>8 DEF LoopInv

\* Steps that move on in the loop and leave the orders and the fills alone.
LEMMA EndOfStreamStep ==
    ASSUME Inv, EndOfStream
    PROVE  LoopInv'
<1>1. mark' \in Int \cup {None}
  BY BacktestAssumption DEF EndOfStream, Mid, Inv, LoopTypeOK, MarketPrices,
     Idle
<1>2. LoopTypeOK'
  BY <1>1 DEF EndOfStream, Inv, LoopTypeOK, PerOrder, Idle
<1>3. Scope' /\ Ages' /\ Visited'
  BY DEF EndOfStream, Inv, Scope, Ages, NextEventLatency, Visited, Idle
<1> QED
  BY <1>2, <1>3 DEF LoopInv

LEMMA StreamFailsStep ==
    ASSUME Inv, StreamFails
    PROVE  LoopInv'
<1>1. LoopTypeOK'
  BY DEF StreamFails, Inv, LoopTypeOK, Idle, PerOrder
<1>2. Scope' /\ Ages' /\ Visited'
  BY DEF StreamFails, Inv, Scope, Ages, NextEventLatency, Visited, Idle
<1> QED
  BY <1>1, <1>2 DEF LoopInv

LEMMA EndMatchStep ==
    ASSUME Inv, EndMatch
    PROVE  LoopInv'
<1>1. LoopTypeOK'
  BY DEF EndMatch, Inv, LoopTypeOK, PerOrder, Idle
<1>2. Scope' /\ Ages' /\ Visited'
  BY DEF EndMatch, Inv, Scope, Ages, NextEventLatency, Visited, Idle
<1> QED
  BY <1>1, <1>2 DEF LoopInv

LEMMA CallOnEventStep ==
    ASSUME Inv, CallOnEvent
    PROVE  LoopInv'
<1>1. LoopTypeOK'
  BY BacktestAssumption DEF CallOnEvent, Inv, LoopTypeOK, PerOrder, AllNotified, Idle
<1>2. Scope' /\ Ages' /\ Visited'
  BY DEF CallOnEvent, Inv, Scope, Ages, NextEventLatency, Visited, AllNotified, Idle
<1> QED
  BY <1>1, <1>2 DEF LoopInv

LEMMA ReturnStep ==
    ASSUME Inv, Return
    PROVE  LoopInv'
<1>1. LoopTypeOK'
  BY BacktestAssumption DEF Return, InCallback, Inv, LoopTypeOK, PerOrder, Idle
<1>2. Scope' /\ Ages' /\ Visited'
  BY DEF Return, InCallback, Inv, Scope, Ages, NextEventLatency, Visited, Idle
<1> QED
  BY <1>1, <1>2 DEF LoopInv

LEMMA RaiseStep ==
    ASSUME Inv, Raise
    PROVE  LoopInv'
<1>1. LoopTypeOK'
  BY DEF Raise, InCallback, Inv, LoopTypeOK, PerOrder, Idle
<1>2. Scope' /\ Ages' /\ Visited'
  BY DEF Raise, InCallback, Inv, Scope, Ages, NextEventLatency, Visited, Idle
<1> QED
  BY <1>1, <1>2 DEF LoopInv

\* Logging keeps the totals and the mark typed.
LEMMA LogAndRecordTypes ==
    ASSUME Inv, NEW fs, PerOrder(fs), LogAndRecord(fs), UNCHANGED orders
    PROVE  PerOrder(logged)' /\ PerOrder(recorded)' /\ mark' \in Int \cup {None}
<1>1. mark' \in Int \cup {None}
  BY BacktestAssumption DEF LogAndRecord, Mid, Inv, LoopTypeOK, MarketPrices, Idle
<1>2. /\ Quantities(fs) /\ Quantities(logged) /\ Quantities(recorded)
      /\ DOMAIN fs \subseteq DOMAIN orders
      /\ DOMAIN logged \subseteq DOMAIN orders /\ DOMAIN recorded \subseteq DOMAIN orders
  BY DEF Inv, LoopTypeOK, PerOrder, Quantities, Idle
<1>3. /\ PerOrder(Added(logged, fs))
      /\ PerOrder(Added(recorded, fs))
  BY <1>2, AddedFacts DEF PerOrder, Quantities
<1>4. PerOrder(logged)' /\ PerOrder(recorded)'
  BY <1>2, <1>3 DEF LogAndRecord, PerOrder, Quantities
<1> QED
  BY <1>1, <1>4

LEMMA RecordFillsStep ==
    ASSUME Inv, RecordFills
    PROVE  LoopInv'
<1>1. PerOrder(logged)' /\ PerOrder(recorded)' /\ mark' \in Int \cup {None}
  BY LogAndRecordTypes DEF RecordFills, Inv, LoopTypeOK, Idle
<1>2. LoopTypeOK'
  BY <1>1 DEF RecordFills, Inv, LoopTypeOK, PerOrder, Idle
<1>3. Scope' /\ Ages' /\ Visited'
  BY DEF RecordFills, Inv, Scope, Ages, NextEventLatency, Visited, Idle
<1> QED
  BY <1>2, <1>3 DEF LoopInv

LEMMA CollectStep ==
    ASSUME Inv, CollectMarketFills
    PROVE  LoopInv'
<1>1. PerOrder(logged)' /\ PerOrder(recorded)' /\ mark' \in Int \cup {None}
  BY LogAndRecordTypes DEF CollectMarketFills, Inv, LoopTypeOK, Idle
<1>2. PerOrder(fills)' /\ PerOrder(market_fills)' /\ DOMAIN fills' = {}
      /\ DOMAIN market_fills' = {}
  BY NoFillsFacts DEF CollectMarketFills, PerOrder, Quantities
<1>3. LoopTypeOK'
  BY <1>1, <1>2 DEF CollectMarketFills, Inv, LoopTypeOK, PerOrder, Scope, Idle
<1>4. Scope' /\ Ages' /\ Visited'
  BY <1>2 DEF CollectMarketFills, Inv, Scope, Ages, NextEventLatency, Visited, Idle
<1> QED
  BY <1>3, <1>4 DEF LoopInv

LEMMA CallOnFillStep ==
    ASSUME Inv, NEW id \in to_notify, CallOnFill(id)
    PROVE  LoopInv'
<1>1. id \in DOMAIN fills /\ id \in DOMAIN orders /\ fills[id] \in Nat
  BY DEF Inv, LoopTypeOK, PerOrder, Idle
<1>2. Quantities([i \in {id} |-> fills[i]]) /\ Quantities(notified)
      /\ DOMAIN notified \subseteq DOMAIN orders
  BY <1>1 DEF Quantities, Inv, LoopTypeOK, PerOrder, Idle
<1>3. PerOrder(notified)'
  <2> DEFINE due == [i \in {id} |-> fills[i]]
  <2>1. notified' = Added(notified, due) /\ DOMAIN due = {id} /\ UNCHANGED orders
    BY DEF CallOnFill
  <2> HIDE DEF due
  <2>2. /\ Quantities(Added(notified, due))
        /\ DOMAIN Added(notified, due) = DOMAIN notified \cup {id}
    BY <1>2, <2>1, AddedFacts DEF due
  <2> QED
    BY <1>1, <1>2, <2>1, <2>2 DEF PerOrder, Quantities
<1>4. LoopTypeOK'
  <2>1. PerOrder(fills)' /\ PerOrder(market_fills)' /\ PerOrder(logged)' /\ PerOrder(recorded)'
    BY DEF CallOnFill, Inv, LoopTypeOK, PerOrder, Idle
  <2>2. to_notify' \subseteq DOMAIN fills' /\ calls' \in 0 .. MaxCalls
    BY BacktestAssumption DEF CallOnFill, Inv, LoopTypeOK, Idle
  <2> QED
    BY <1>3, <2>1, <2>2 DEF CallOnFill, Inv, LoopTypeOK, Idle
<1>5. Scope' /\ Ages' /\ Visited'
  BY DEF CallOnFill, Inv, Scope, Ages, NextEventLatency, Visited, Idle
<1> QED
  BY <1>4, <1>5 DEF LoopInv

\* The matcher passes over an order, or fills it: it leaves the list either way,
\* and is still active at a crossed price only if the volume is used up.
LEMMA MatchOrderStep ==
    ASSUME Inv, NEW id \in resting, MatchOrder(id)
    PROVE  LoopInv'
<1>1. /\ pc = "match" /\ ~Exhausted /\ resting' = resting \ {id}
      /\ id \in DOMAIN orders /\ orders[id].ts < n /\ id \notin DOMAIN fills
      /\ market_fills = NoFills
      /\ UNCHANGED <<pc, n, event, book, to_notify, market_fills, calls, logged,
                     recorded, notified, mark>>
  BY DEF MatchOrder, Inv, LoopTypeOK, Ages, Visited, Scope, Unvisited, Idle
<1>2. CASE MatchSkip(id)
  <2>1. LoopTypeOK'
    BY <1>1, <1>2 DEF MatchSkip, Inv, LoopTypeOK, PerOrder, Idle
  <2>2. Scope'
    BY <1>1, <1>2 DEF MatchSkip, Inv, Scope, Idle
  <2>3. Ages'
    BY <1>1, <1>2 DEF MatchSkip, Inv, Ages, NextEventLatency
  <2>4. Visited'
    BY <1>1, <1>2 DEF MatchSkip, Inv, Visited, Active, Crosses, TradeCrosses,
       QuoteCrosses, Exhausted, CountsVolume
  <2> QED
    BY <2>1, <2>2, <2>3, <2>4 DEF LoopInv
<1>3. CASE MatchFill(id)
  <2> DEFINE q == FillSize(orders[id])
  <2>1. /\ DOMAIN orders' = DOMAIN orders
        /\ \A i \in DOMAIN orders : i # id => orders'[i] = orders[i]
        /\ remaining_amount' \in Nat
        /\ IsActive(orders'[id]) => Exhausted'
    BY <1>1, <1>3, MatchFillOrders
  <2>2. IsActive(orders[id]) /\ fills' = Put(fills, id, q)
    BY <1>3 DEF MatchFill, VolumeLeft
  <2>3. q \in Nat
    <3>1. q \in 1 .. RemainingSize(orders[id])
      BY <1>1, <2>2, FillSizeRange
    <3>2. RemainingSize(orders[id]) \in Int
      BY <1>1, InvRecords DEF Inv, OrderType, RemainingSize
    <3> QED
      BY <3>1, <3>2
  <2>4. Quantities(fills) /\ DOMAIN fills \subseteq DOMAIN orders
    BY DEF Inv, LoopTypeOK, PerOrder, Quantities, Idle
  <2> HIDE DEF q
  <2>5. Quantities(fills') /\ DOMAIN fills' = DOMAIN fills \cup {id}
    BY <2>2, <2>3, <2>4, PutFacts
  <2>6. LoopTypeOK'
    BY <1>1, <2>1, <2>4, <2>5 DEF Inv, LoopTypeOK, PerOrder, Quantities, Idle
  <2>7. Scope'
    BY <1>1 DEF Inv, Scope, Idle
  <2>8. OrdersStep
    BY <1>1, <1>3, MatchFillOrders, OrderNextStep DEF Inv
  <2>9. \A i \in DOMAIN orders : orders'[i].ts = orders[i].ts
    BY <2>8 DEF OrdersStep, OrderStep
  <2>10. Ages'
    BY <1>1, <2>1, <2>4, <2>5, <2>9 DEF Inv, Ages, NextEventLatency, LoopTypeOK,
       PerOrder, Idle
  <2>11. Visited'
    <3>1. resting' \cap DOMAIN fills' = {}
      BY <1>1, <2>5 DEF Inv, Visited
    <3>2. ASSUME NEW i \in Active', orders'[i].ts < n', i \notin resting',
                 Crosses(orders[i])'
          PROVE  Exhausted'
      <4>1. CASE i = id
        BY <2>1, <3>2, <4>1 DEF Active
      <4>2. CASE i # id
        <5>1. i \in DOMAIN orders /\ orders'[i] = orders[i] /\ i \in Active
          BY <2>1, <3>2, <4>2 DEF Active
        <5>2. i \notin resting /\ orders[i].ts < n /\ Crosses(orders[i])
          BY <1>1, <3>2, <4>2, <5>1 DEF Crosses, TradeCrosses, QuoteCrosses
        <5> QED
          BY <1>1, <5>1, <5>2 DEF Inv, Visited
      <4> QED
        BY <4>1, <4>2
    <3> QED
      BY <3>1, <3>2 DEF Visited
  <2> QED
    BY <2>6, <2>7, <2>10, <2>11 DEF LoopInv
<1> QED
  BY <1>2, <1>3 DEF MatchOrder, Unvisited

\* An order the context enters is as old as the event.
LEMMA InsertAges ==
    ASSUME Inv, NEW o \in OrderType, o.ts = n, Insert(o), OrdersStep
    PROVE  /\ DOMAIN orders' = DOMAIN orders \cup {next_id}
           /\ next_id \notin DOMAIN orders
           /\ orders'[next_id] = o
           /\ \A id \in DOMAIN orders' : orders'[id].ts <= n
<1>1. /\ DOMAIN orders' = DOMAIN orders \cup {next_id}
      /\ next_id \notin DOMAIN orders
      /\ orders'[next_id] = o
  BY InsertFacts DEF Inv, OrderInv
<1>2. \A id \in DOMAIN orders : orders'[id].ts <= n
  BY DEF Inv, Ages, OrdersStep, OrderStep
<1>3. n <= n
  BY OrderAssumption DEF Inv, LoopTypeOK, Times, Idle
<1> QED
  BY <1>1, <1>2, <1>3

\* A call of the context keeps everything of the loop but its market fills.
LEMMA ContextCallStep ==
    ASSUME Inv, ContextCall, OrdersStep,
           \A id \in DOMAIN orders' : orders'[id].ts <= n,
           PerOrder(market_fills)', \A id \in DOMAIN market_fills' : orders'[id].ts = n
    PROVE  LoopInv'
<1>1. DOMAIN orders \subseteq DOMAIN orders'
      /\ \A id \in DOMAIN orders : orders'[id].ts = orders[id].ts
  BY DEF OrdersStep, OrderStep
<1>2. /\ pc \in {"in_on_fill", "in_on_event"}
      /\ UNCHANGED <<pc, n, event, book, resting, remaining_amount, fills, to_notify,
                   logged, recorded, notified, mark>>
  BY DEF ContextCall, InCallback
<1>3. PerOrder(fills)' /\ PerOrder(logged)' /\ PerOrder(recorded)' /\ PerOrder(notified)'
  BY <1>1, <1>2 DEF Inv, LoopTypeOK, PerOrder, Idle
<1>4. calls' \in 0 .. MaxCalls
  BY BacktestAssumption DEF ContextCall, Inv, LoopTypeOK, Idle
<1>5. resting = {}
  BY <1>2 DEF Inv, Scope, Idle
<1>6. LoopTypeOK'
  BY <1>2, <1>3, <1>4, <1>5 DEF Inv, LoopTypeOK, Idle
<1>7. Scope'
  BY <1>2 DEF Inv, Scope, Idle
<1>8. \A id \in DOMAIN fills : orders'[id].ts < n
  BY <1>1 DEF Inv, LoopTypeOK, PerOrder, Ages, NextEventLatency, Idle
<1>9. Ages'
  BY <1>2, <1>5, <1>8 DEF Ages, NextEventLatency
<1>10. Visited'
  BY <1>2 DEF Visited
<1> QED
  BY <1>6, <1>7, <1>9, <1>10 DEF LoopInv

LEMMA StrategyCallStep ==
    ASSUME Inv, StrategyCall
    PROVE  LoopInv'
<1>1. OrdersStep
  BY OrdersAfter DEF Next, Strategy
<1>2. n \in Times /\ n \in Int
  BY OrderAssumption DEF Inv, LoopTypeOK, Times, Idle
<1>3. /\ DOMAIN orders \subseteq DOMAIN orders'
      /\ \A id \in DOMAIN orders : orders'[id].ts = orders[id].ts /\ orders[id].ts <= n
  BY <1>1 DEF OrdersStep, OrderStep, Inv, Ages
<1>4. DOMAIN market_fills \subseteq DOMAIN orders /\ Quantities(market_fills)
      /\ \A id \in DOMAIN market_fills : orders[id].ts = n
  BY DEF Inv, LoopTypeOK, PerOrder, Quantities, Ages, NextEventLatency, Idle
<1>5. ASSUME UNCHANGED market_fills
      PROVE  PerOrder(market_fills)' /\ \A id \in DOMAIN market_fills' : orders'[id].ts = n
  BY <1>3, <1>4, <1>5 DEF PerOrder, Quantities
<1>6. ASSUME NEW side \in Sides, NEW price \in Prices, NEW size \in Sizes,
             CtxPlace(side, price, size)
      PROVE  LoopInv'
  <2> DEFINE o == NewOrder(side, price, size, n)
  <2>1. /\ ContextCall /\ Insert(o) /\ UNCHANGED market_fills
        /\ price \in Int /\ size \in Int /\ size > 0 /\ price > 0
    BY <1>6, OrderAssumption DEF CtxPlace, Place
  <2>2. o \in OrderType
    BY <1>2, <2>1, NewOrderFacts
  <2>3. o.ts = n
    BY DEF NewOrder
  <2> HIDE DEF o
  <2> QED
    BY <1>1, <1>5, <2>1, <2>2, <2>3, InsertAges, ContextCallStep
<1>7. ASSUME NEW id \in DOMAIN orders, CtxCancel(id)
      PROVE  LoopInv'
  <2>1. ContextCall /\ DOMAIN orders' = DOMAIN orders /\ UNCHANGED market_fills
    BY <1>7 DEF CtxCancel, Cancel
  <2> QED
    BY <1>1, <1>3, <1>5, <2>1, ContextCallStep
<1>8. ASSUME CtxCancelAll
      PROVE  LoopInv'
  <2>1. ContextCall /\ DOMAIN orders' = DOMAIN orders /\ UNCHANGED market_fills
    BY <1>8 DEF CtxCancelAll, CancelAll
  <2> QED
    BY <1>1, <1>3, <1>5, <2>1, ContextCallStep
<1>9. ASSUME NEW side \in Sides, NEW size \in Sizes, CtxMarketOrder(side, size)
      PROVE  LoopInv'
  <2>1. PICK price \in Prices : ExecuteMarketOrder(side, price, size, n)
    BY <1>9, MarketOrderNext
  <2>2. PICK o : /\ o = [NewOrder(side, price, size, n) EXCEPT
                           !.filled_size = size, !.status = "FILLED"]
                 /\ Insert(o)
    BY <2>1 DEF ExecuteMarketOrder
  <2>3. price \in Int /\ size \in Int /\ size > 0 /\ price > 0
    BY <2>1, OrderAssumption DEF ExecuteMarketOrder
  <2>4. o \in OrderType
    BY <1>2, <2>2, <2>3, MarketOrderFacts
  <2>5. o.ts = n
    BY <2>2 DEF NewOrder
  <2>6. /\ DOMAIN orders' = DOMAIN orders \cup {next_id}
        /\ orders'[next_id] = o
        /\ \A id \in DOMAIN orders' : orders'[id].ts <= n
    BY <1>1, <2>2, <2>4, <2>5, InsertAges
  <2>7. ContextCall /\ market_fills' = Put(market_fills, next_id, size)
    BY <1>9 DEF CtxMarketOrder
  <2>8. /\ DOMAIN market_fills' = DOMAIN market_fills \cup {next_id}
        /\ Quantities(market_fills')
    <3>1. size \in Nat
      BY <2>3
    <3> QED
      BY <1>4, <2>7, <3>1, PutFacts
  <2>9. PerOrder(market_fills)' /\ \A id \in DOMAIN market_fills' : orders'[id].ts = n
    BY <1>3, <1>4, <2>5, <2>6, <2>8 DEF PerOrder, Quantities
  <2> QED
    BY <1>1, <2>6, <2>7, <2>9, ContextCallStep
<1> QED
  BY <1>6, <1>7, <1>8, <1>9 DEF StrategyCall

LEMMA InvStep ==
    ASSUME Inv, [Next]_vars
    PROVE  Inv'
<1>1. OrderInv'
  BY OrdersAfter
<1>2. LoopInv'
  <2>1. CASE StrategyCall
    BY <2>1, StrategyCallStep
  <2>2. CASE Loop \/ NotifyFill \/ Return \/ Raise
    <3>1. ASSUME NEW e \in Snapshots, TakeSnapshot(e)
          PROVE  LoopInv'
      <4>1. StartEvent(e)
        BY <3>1 DEF TakeSnapshot, Applied
      <4>2. /\ book'.bid \in MarketPrices \cup {None} /\ book'.ask \in MarketPrices \cup {None}
            /\ remaining_amount' \in Nat
        BY <3>1, BacktestAssumption DEF TakeSnapshot, Snapshots, Inv, LoopTypeOK, Idle,
           Applied
      <4> QED
        BY <4>1, <4>2, StartEventStep
    <3>2. ASSUME NEW e \in Trades, TakeTrade(e)
          PROVE  LoopInv'
      <4>1. StartEvent(e)
        BY <3>2 DEF TakeTrade
      <4>2. /\ book'.bid \in MarketPrices \cup {None} /\ book'.ask \in MarketPrices \cup {None}
            /\ remaining_amount' \in Nat
        BY <3>2, BacktestAssumption DEF TakeTrade, Trades, Inv, LoopTypeOK, Idle
      <4> QED
        BY <4>1, <4>2, StartEventStep
    <3> QED
      BY <2>2, <3>1, <3>2, EndOfStreamStep, StreamFailsStep, MatchOrderStep,
         EndMatchStep, RecordFillsStep, CallOnFillStep, CallOnEventStep, ReturnStep,
         RaiseStep, CollectStep
         DEF Loop, Receive, Work, NotifyFill
  <2>3. CASE UNCHANGED vars
    BY <2>3 DEF vars, loopvars, Inv, LoopInv, LoopTypeOK, PerOrder, Scope, Ages,
       NextEventLatency, Visited, Active, Crosses, TradeCrosses, QuoteCrosses, Exhausted,
       CountsVolume, Idle
  <2> QED
    BY <2>1, <2>2, <2>3 DEF Next, Strategy
<1> QED
  BY <1>1, <1>2 DEF Inv, LoopInv

LEMMA InitInv == Init => Inv
<1> SUFFICES ASSUME Init PROVE Inv
  OBVIOUS
<1>1. OrderInv /\ DOMAIN orders = {}
  BY OrderInitInv DEF Init, OrderInit
<1>2. PerOrder(NoFills)
  BY NoFillsFacts DEF PerOrder, Quantities
<1>3. 0 \in Times /\ 0 \in 0 .. MaxCalls
  BY OrderAssumption, BacktestAssumption DEF Times
<1>4. LoopTypeOK
  BY <1>2, <1>3 DEF Init, LoopTypeOK, Idle
<1>5. Scope /\ Ages /\ Visited
  BY <1>1, NoFillsFacts DEF Init, Scope, Ages, NextEventLatency, Visited, Idle
<1> QED
  BY <1>1, <1>4, <1>5 DEF Inv

--------------------------------------------------------------------------------
\* The inductive invariant of the event loop.
THEOREM LoopInvariance == Spec => []Inv
<1>1. Init => Inv
  BY InitInv
<1>2. Inv /\ [Next]_vars => Inv'
  BY InvStep
<1> QED
  BY <1>1, <1>2, PTL DEF Spec

\* Every variable of Backtest.run keeps its type: no total of an order that was
\* never placed, no negative volume, no fill of an unknown order.
THEOREM LoopTypeCorrect == Spec => []LoopTypeOK
  BY LoopInvariance, PTL DEF Inv

\* The loop with any strategy drives the manager only through its operations.
THEOREM BacktestImplementsManager == Spec => OrderSpec
<1>1. Init => OrderInit
  BY DEF Init
<1>2. Inv /\ [Next]_vars => [OrderNext]_ordervars
  BY OrdersNext
<1> QED
  BY <1>1, <1>2, LoopInvariance, PTL DEF Spec, OrderSpec

\* So what is proved of the manager holds in every backtest.
THEOREM BacktestOrdersCoherent == Spec => []StatusCoherence
  BY BacktestImplementsManager, OrdersCoherent, PTL

THEOREM BacktestImplementsLedger == Spec => LedgerSpec
  BY BacktestImplementsManager, ManagerImplementsLedger, PTL

\* Latency: no order is matched against the event it was placed in response to.
THEOREM OrdersWaitForNextEvent == Spec => []NextEventLatency
  BY LoopInvariance, PTL DEF Inv, Ages

--------------------------------------------------------------------------------
(* Matching (execution/matcher.py): it misses no order (MatchingComplete) and   *)
(* serves earlier orders first (TimePriority).  That holds because it serves    *)
(* them by their ids alone (IdPriority), which is inductive with one more fact: *)
(* while the list is being walked, every order filled so far is older than      *)
(* every order still to visit (InOrderOfIds).                                   *)

InOrderOfIds ==
    pc = "match" => \A done \in DOMAIN fills : \A next \in resting : done < next

\* Ids are integers, and a filled order's id is one.
LEMMA IdsAreIntegers ==
    ASSUME Inv
    PROVE  /\ \A id \in DOMAIN orders : id \in Int
           /\ DOMAIN fills \subseteq DOMAIN orders /\ resting \subseteq DOMAIN orders
  BY InvRecords DEF Inv, LoopTypeOK, PerOrder, Idle

\* Two orders of the list, in the order of their ids.
LEMMA FirstPrecedes ==
    ASSUME Inv, NEW id \in resting, FirstOf(id, resting), NEW next \in resting \ {id}
    PROVE  id < next
<1>1. id \in Int /\ next \in Int
  BY IdsAreIntegers
<1> QED
  BY <1>1 DEF FirstOf

LEMMA InOrderStep ==
    ASSUME Inv, InOrderOfIds, [Next]_vars
    PROVE  InOrderOfIds'
<1>1. CASE pc' # "match"
  BY <1>1 DEF InOrderOfIds
<1>2. ASSUME NEW e \in Snapshots \cup Trades, StartEvent(e)
      PROVE  InOrderOfIds'
  BY <1>2, NoFillsFacts DEF StartEvent, InOrderOfIds, Inv, Scope, MatchList, Idle
<1>3. ASSUME NEW id \in resting, MatchOrder(id)
      PROVE  InOrderOfIds'
  <2>1. /\ pc = "match" /\ resting' = resting \ {id} /\ FirstOf(id, resting)
        /\ DOMAIN fills' = DOMAIN fills \/ DOMAIN fills' = DOMAIN fills \cup {id}
    BY <1>3 DEF MatchOrder, MatchSkip, MatchFill, Put, Unvisited, VolumeLeft
  <2>2. \A next \in resting' : id < next
    BY <2>1, FirstPrecedes
  <2> QED
    BY <2>1, <2>2 DEF InOrderOfIds
<1>4. CASE UNCHANGED vars
  BY <1>4 DEF vars, loopvars, InOrderOfIds
<1>5. CASE StrategyCall
  BY <1>1, <1>5 DEF StrategyCall, CtxPlace, CtxCancel, CtxCancelAll, CtxMarketOrder,
     ContextCall, InCallback
<1> QED
  BY <1>1, <1>2, <1>3, <1>4, <1>5 DEF Next, Loop, Receive, Work, NotifyFill, Strategy,
     TakeSnapshot, TakeTrade, EndOfStream, StreamFails, EndMatch, RecordFills,
     CallOnFill, CallOnEvent, Return, Raise, InCallback, CollectMarketFills, AllNotified,
     Applied

\* Whatever their prices and sides, no order is passed by one of a greater id.
IdPriority ==
    pc \in {"match", "log"} =>
       \A later \in DOMAIN fills : \A earlier \in DOMAIN orders :
          /\ earlier < later
          /\ orders[earlier].ts < n
          /\ Crosses(orders[earlier])
          => ~IsActive(orders[earlier])

\* Steps that keep the orders, the fills and what crosses.
LEMMA PriorityKept ==
    ASSUME IdPriority, pc \in {"match", "log"}, UNCHANGED <<orders, fills, n, event, book>>
    PROVE  IdPriority'
  BY DEF IdPriority, Crosses, TradeCrosses, QuoteCrosses

LEMMA PriorityStep ==
    ASSUME Inv, InOrderOfIds, IdPriority, [Next]_vars
    PROVE  IdPriority'
<1>1. CASE pc' \notin {"match", "log"}
  BY <1>1 DEF IdPriority
<1>2. ASSUME NEW e \in Snapshots \cup Trades, StartEvent(e)
      PROVE  IdPriority'
  BY <1>2, NoFillsFacts DEF StartEvent, IdPriority, Inv, Scope, MatchList, Idle
<1>3. ASSUME NEW id \in resting, MatchOrder(id)
      PROVE  IdPriority'
  <2>1. /\ pc = "match" /\ pc' = pc /\ ~Exhausted /\ id \in DOMAIN orders
        /\ FirstOf(id, resting) /\ UNCHANGED <<n, event, book>>
    BY <1>3 DEF MatchOrder, Inv, LoopTypeOK, Unvisited, Idle
  <2>2. CASE MatchSkip(id)
    BY <2>1, <2>2, PriorityKept DEF MatchSkip
  <2>3. CASE MatchFill(id)
    <3>1. /\ DOMAIN orders' = DOMAIN orders
          /\ \A i \in DOMAIN orders : i # id => orders'[i] = orders[i]
      BY <2>1, <2>3, MatchFillOrders
    <3>2. DOMAIN fills' = DOMAIN fills \cup {id}
      BY <2>3 DEF MatchFill, Put, VolumeLeft
    <3>3. ASSUME NEW later \in DOMAIN fills', NEW earlier \in DOMAIN orders',
                 earlier < later, orders'[earlier].ts < n', Crosses(orders[earlier])'
          PROVE  ~IsActive(orders'[earlier])
      <4>1. earlier \in DOMAIN orders /\ earlier \in Int /\ later \in Int /\ id \in Int
        BY <2>1, <3>1, <3>2, <3>3, IdsAreIntegers
      <4>2. earlier # id
        <5>1. CASE later = id
          BY <3>3, <4>1, <5>1
        <5>2. CASE later \in DOMAIN fills
          <6>1. later < id
            BY <2>1, <5>2 DEF InOrderOfIds
          <6> QED
            BY <3>3, <4>1, <6>1
        <5> QED
          BY <3>2, <5>1, <5>2
      <4>3. orders'[earlier] = orders[earlier] /\ orders[earlier].ts < n
        BY <2>1, <3>1, <3>3, <4>1, <4>2
      <4>4. Crosses(orders[earlier])
        BY <2>1, <3>3, <4>3 DEF Crosses, TradeCrosses, QuoteCrosses
      <4>5. CASE later \in DOMAIN fills
        BY <2>1, <3>3, <4>1, <4>3, <4>4, <4>5 DEF IdPriority
      <4>6. CASE later = id
        <5>1. earlier \notin resting
          BY <2>1, <3>3, <4>1, <4>6 DEF FirstOf
        <5>2. ~IsActive(orders[earlier])
          BY <2>1, <4>1, <4>3, <4>4, <5>1 DEF Inv, Visited, Active
        <5> QED
          BY <4>3, <5>2
      <4> QED
        BY <3>2, <4>5, <4>6
    <3> QED
      BY <3>3 DEF IdPriority
  <2> QED
    BY <1>3, <2>2, <2>3 DEF MatchOrder, Unvisited
<1>4. CASE EndMatch
  BY <1>4, PriorityKept DEF EndMatch
<1>5. CASE StrategyCall
  BY <1>1, <1>5 DEF StrategyCall, CtxPlace, CtxCancel, CtxCancelAll, CtxMarketOrder,
     ContextCall, InCallback
<1>6. CASE UNCHANGED vars
  BY <1>6 DEF vars, loopvars, IdPriority, Crosses, TradeCrosses, QuoteCrosses
<1> QED
  BY <1>1, <1>2, <1>3, <1>4, <1>5, <1>6 DEF Next, Loop, Receive, Work, NotifyFill,
     Strategy, TakeSnapshot, TakeTrade, EndOfStream, StreamFails, RecordFills,
     CallOnFill, CallOnEvent, Return, Raise, InCallback, CollectMarketFills, AllNotified,
     Applied

--------------------------------------------------------------------------------
(* Completeness: nothing of the list is left to visit when the matcher ends, and *)
(* from then on orders older than the event only stop being active.             *)

Matched == {"log", "notify", "in_on_fill", "in_on_event", "collect"}

\* What a callback leaves active of the orders older than the event was active
\* before it, on the same terms.
LEMMA OlderOrders ==
    ASSUME Inv, StrategyCall, NEW id \in Active', orders'[id].ts < n
    PROVE  /\ id \in Active /\ orders[id].ts < n
           /\ orders'[id].price = orders[id].price /\ orders'[id].side = orders[id].side
<1>1. OrdersStep
  BY OrdersAfter DEF Next, Strategy
<1>2. n \in Int
  BY OrderAssumption DEF Inv, LoopTypeOK, Times, Idle
<1>3. id \in DOMAIN orders
  <2>1. ASSUME NEW o, o.ts = n, Insert(o), id \notin DOMAIN orders
        PROVE  FALSE
    <3>1. orders'[id].ts = n
      BY <2>1 DEF Insert, Put, Active
    <3> QED
      BY <1>2, <3>1
  <2>2. ASSUME NEW side \in Sides, NEW price \in Prices, NEW size \in Sizes,
               CtxPlace(side, price, size), id \notin DOMAIN orders
        PROVE  FALSE
    BY <2>1, <2>2 DEF CtxPlace, Place, NewOrder
  <2>3. ASSUME NEW side \in Sides, NEW size \in Sizes, CtxMarketOrder(side, size),
               id \notin DOMAIN orders
        PROVE  FALSE
    <3>1. PICK price \in Prices : ExecuteMarketOrder(side, price, size, n)
      BY <2>3, MarketOrderNext
    <3> QED
      BY <2>1, <2>3, <3>1 DEF ExecuteMarketOrder, NewOrder
  <2>4. CASE DOMAIN orders' = DOMAIN orders
    BY <2>4 DEF Active
  <2> QED
    BY <2>2, <2>3, <2>4 DEF StrategyCall, CtxCancel, Cancel, CtxCancelAll, CancelAll
<1>4. OrderStep(orders[id], orders'[id])
  BY <1>1, <1>3 DEF OrdersStep
<1>5. IsActive(orders'[id])
  BY DEF Active
<1> QED
  BY <1>3, <1>4, <1>5 DEF OrderStep, Active

LEMMA CompleteStep ==
    ASSUME Inv, MatchingComplete, [Next]_vars
    PROVE  MatchingComplete'
<1>1. CASE pc' \notin Matched
  BY <1>1 DEF Matched, MatchingComplete
<1>2. CASE EndMatch
  <2>1. /\ pc = "match" /\ UNCHANGED <<orders, n, event, book, remaining_amount>>
        /\ resting = {} \/ Exhausted
    BY <1>2 DEF EndMatch
  <2>2. event.kind = "snapshot" => ~Exhausted
    BY DEF Exhausted, CountsVolume
  <2>3. ASSUME NEW id \in Active, orders[id].ts < n
        PROVE  /\ Crosses(orders[id]) => Exhausted
               /\ event.kind = "snapshot" => ~QuoteCrosses(orders[id])
    BY <2>1, <2>2, <2>3 DEF Inv, Visited, Crosses
  <2> QED
    BY <2>1, <2>3 DEF MatchingComplete, Active, Crosses, TradeCrosses, QuoteCrosses,
       Exhausted, CountsVolume
<1>3. CASE /\ pc \in Matched /\ pc' # "log"
           /\ UNCHANGED <<orders, n, event, book>>
  BY <1>3 DEF Matched, MatchingComplete, Active, QuoteCrosses
<1>4. CASE StrategyCall
  <2>1. /\ pc \in {"in_on_fill", "in_on_event"} /\ UNCHANGED <<pc, n, event, book>>
    BY <1>4 DEF StrategyCall, CtxPlace, CtxCancel, CtxCancelAll, CtxMarketOrder,
       ContextCall, InCallback
  <2>2. ASSUME NEW id \in Active', orders'[id].ts < n, event.kind = "snapshot"
        PROVE  ~QuoteCrosses(orders[id])'
    <3>1. /\ id \in Active /\ orders[id].ts < n
          /\ orders'[id].price = orders[id].price /\ orders'[id].side = orders[id].side
      BY <1>4, <2>2, OlderOrders
    <3>2. ~QuoteCrosses(orders[id])
      BY <2>1, <2>2, <3>1 DEF MatchingComplete
    <3> QED
      BY <2>1, <3>1, <3>2 DEF QuoteCrosses
  <2> QED
    BY <2>1, <2>2 DEF MatchingComplete
<1>5. CASE UNCHANGED vars
  BY <1>5 DEF vars, loopvars, MatchingComplete, Active, Crosses, TradeCrosses,
     QuoteCrosses, Exhausted, CountsVolume
<1>6. CASE RecordFills \/ NotifyFill \/ CallOnEvent \/ Return
  BY <1>3, <1>6 DEF RecordFills, NotifyFill, CallOnFill, CallOnEvent, Return, InCallback,
     Matched, AllNotified
<1>7. CASE (\E e \in Snapshots \cup Trades : StartEvent(e)) \/ EndOfStream \/ StreamFails
             \/ (\E id \in resting : MatchOrder(id)) \/ Raise \/ CollectMarketFills
  BY <1>1, <1>7 DEF StartEvent, EndOfStream, StreamFails, MatchOrder, Raise,
     CollectMarketFills, Matched, MatchList, Unvisited
<1> QED
  BY <1>2, <1>4, <1>5, <1>6, <1>7 DEF Next, Loop, Receive, Work, Strategy, TakeSnapshot,
     TakeTrade, Applied

\* The matcher misses no order (matcher.py:55-105): with the volume of the
\* print not used up, no older order is left active at a price the event crosses.
THEOREM NoOrderMissed == Spec => []MatchingComplete
<1>1. Init => MatchingComplete
  BY DEF Init, MatchingComplete
<1>2. Inv /\ MatchingComplete /\ [Next]_vars => MatchingComplete'
  BY CompleteStep
<1> QED
  BY <1>1, <1>2, LoopInvariance, PTL DEF Spec

\* Earlier orders first (matcher.py:30, 68): whatever the volume of a print, no
\* order is passed by a later one of its side at a price that is no better.
THEOREM EarlierOrdersFirst == Spec => []TimePriority
<1>1. Init => InOrderOfIds /\ IdPriority
  BY DEF Init, InOrderOfIds, IdPriority
<1>2. Inv /\ (InOrderOfIds /\ IdPriority) /\ [Next]_vars => (InOrderOfIds /\ IdPriority)'
  BY InOrderStep, PriorityStep
<1>3. IdPriority => TimePriority
  BY DEF IdPriority, TimePriority
<1> QED
  BY <1>1, <1>2, <1>3, LoopInvariance, PTL DEF Spec

--------------------------------------------------------------------------------
(* The volume of a print.                                                       *)

LEMMA FillsTyped ==
    ASSUME Inv
    PROVE  /\ Quantities(fills) /\ DOMAIN fills \subseteq DOMAIN orders
           /\ next_id - 1 \in Nat /\ DOMAIN orders = 1 .. (next_id - 1)
           /\ \A id : At(fills, id) \in Int
<1>1. Quantities(fills) /\ DOMAIN fills \subseteq DOMAIN orders
  BY DEF Inv, LoopTypeOK, PerOrder, Quantities, Idle
<1>2. next_id - 1 \in Nat /\ DOMAIN orders = 1 .. (next_id - 1)
  BY InvRecords DEF Inv
<1>3. \A id : At(fills, id) \in Int
  BY <1>1, AtNat
<1> QED
  BY <1>1, <1>2, <1>3

LEMMA VolumeStep ==
    ASSUME Inv, VolumeBound, [Next]_vars
    PROVE  VolumeBound'
<1>1. CASE pc' \notin {"match", "log"}
  BY <1>1 DEF VolumeBound
<1>2. CASE pc \in {"match", "log"} /\ UNCHANGED <<event, fills, next_id, remaining_amount>>
  BY <1>2 DEF VolumeBound, CountsVolume, SumTo, At
<1>3. ASSUME NEW e \in Trades, TakeTrade(e)
      PROVE  VolumeBound'
  <2>1. fills' = NoFills /\ remaining_amount' = e.amount /\ event' = e /\ UNCHANGED next_id
    BY <1>3 DEF TakeTrade, StartEvent, MatchList, Inv, Scope, Idle
  <2>2. e.amount \in Nat
    BY BacktestAssumption DEF Trades
  <2>3. SumTo(NoFills, next_id - 1) = 0
    BY FillsTyped, NoFillsFacts, SumToNothing
  <2>4. SumTo(fills, next_id - 1)' = 0
    BY <2>1, <2>3 DEF SumTo, At, NoFills
  <2> QED
    BY <2>1, <2>2, <2>4 DEF VolumeBound
<1>4. ASSUME NEW e \in Snapshots, TakeSnapshot(e)
      PROVE  VolumeBound'
  BY <1>4 DEF TakeSnapshot, StartEvent, MatchList, Applied, Snapshots, VolumeBound, CountsVolume
<1>5. ASSUME NEW id \in resting, MatchOrder(id), MatchFill(id)
      PROVE  VolumeBound'
  <2> DEFINE size == FillSize(orders[id])
             single == [i \in {id} |-> size]
  <2>1. /\ pc = "match" /\ ~Exhausted /\ pc' = pc /\ IsActive(orders[id])
        /\ fills' = Put(fills, id, size) /\ remaining_amount' = VolumeLeft(size)
        /\ UNCHANGED <<event, next_id>>
    BY <1>5 DEF MatchOrder, MatchFill, PartialFill, FullFill, Unvisited
  <2>2. id \in 1 .. (next_id - 1) /\ id \notin DOMAIN fills
    BY <2>1, FillsTyped DEF Inv, LoopTypeOK, Visited, Idle
  <2>3. size \in Nat
    <3>1. size \in 1 .. RemainingSize(orders[id]) /\ orders[id] \in OrderType
      BY <2>1, <2>2, FillSizeRange, FillsTyped, InvRecords DEF Inv
    <3>2. RemainingSize(orders[id]) \in Int
      BY <3>1 DEF RemainingSize, OrderType
    <3> QED
      BY <3>1, <3>2
  <2> HIDE DEF size
  <2>4. /\ \A i : At(single, i) = IF i = id THEN size ELSE 0
        /\ At(single, id) = size
    BY DEF At
  <2> HIDE DEF single
  <2>5. SumTo(single, next_id - 1) = size
    BY <2>2, <2>3, <2>4, FillsTyped, SumToSingle
  <2>6. \A i : /\ At(Put(fills, id, size), i) \in Int
               /\ At(Put(fills, id, size), i) = At(fills, i) + At(single, i)
    <3>1. /\ At(Put(fills, id, size), id) = size
          /\ \A i : i # id => At(Put(fills, id, size), i) = At(fills, i)
      BY DEF Put, At
    <3>2. At(fills, id) = 0
      BY <2>2 DEF At
    <3> QED
      BY <2>3, <2>4, <3>1, <3>2, FillsTyped
  <2>7. SumTo(Put(fills, id, size), next_id - 1)
           = SumTo(fills, next_id - 1) + SumTo(single, next_id - 1)
    BY <2>3, <2>4, <2>6, FillsTyped, SumToPlus
  <2>8. SumTo(fills, next_id - 1)' = SumTo(Put(fills, id, size), next_id - 1)
    BY <2>1 DEF SumTo, At
  <2>9. SumTo(fills, next_id - 1) \in Int /\ remaining_amount \in Nat
    BY FillsTyped, SumToFacts DEF Inv, LoopTypeOK, Idle
  <2>10. CASE CountsVolume
    <3>1. remaining_amount' = remaining_amount - size
      BY <2>1, <2>10 DEF VolumeLeft
    <3>2. size <= remaining_amount
      <4>1. orders[id] \in OrderType
        BY <2>2, FillsTyped, InvRecords DEF Inv
      <4>2. RemainingSize(orders[id]) \in Int
        BY <4>1 DEF RemainingSize, OrderType
      <4>3. size = Smaller(RemainingSize(orders[id]), remaining_amount)
        BY <2>10 DEF size, FillSize
      <4> QED
        BY <2>9, <4>2, <4>3 DEF Smaller
    <3>3. SumTo(fills, next_id - 1)' = SumTo(fills, next_id - 1) + size
      BY <2>5, <2>7, <2>8
    <3>4. SumTo(fills, next_id - 1) + remaining_amount = event.amount
      BY <2>1, <2>10 DEF VolumeBound
    <3>5. \A sum, amount, r, s \in Int : sum + r = amount => (sum + s) + (r - s) = amount
      OBVIOUS
    <3>6. event.amount \in Int
      BY <2>9, <3>4
    <3>7. (SumTo(fills, next_id - 1) + size) + (remaining_amount - size) = event.amount
      BY <2>3, <2>9, <3>4, <3>5, <3>6
    <3>8. remaining_amount' >= 0
      BY <2>3, <2>9, <3>1, <3>2
    <3> QED
      BY <2>1, <3>1, <3>3, <3>7, <3>8 DEF VolumeBound
  <2>11. CASE ~CountsVolume
    BY <2>1, <2>11 DEF VolumeBound, CountsVolume
  <2> QED
    BY <2>10, <2>11
<1>6. ASSUME NEW id \in resting, MatchOrder(id)
      PROVE  VolumeBound'
  BY <1>2, <1>5, <1>6 DEF MatchOrder, MatchSkip, Unvisited
<1>7. CASE EndMatch
  BY <1>2, <1>7 DEF EndMatch
<1>8. CASE StrategyCall
  BY <1>1, <1>8 DEF StrategyCall, CtxPlace, CtxCancel, CtxCancelAll, CtxMarketOrder,
     ContextCall, InCallback
<1>9. CASE UNCHANGED vars
  BY <1>1, <1>2, <1>9 DEF vars, loopvars
<1> QED
  BY <1>1, <1>3, <1>4, <1>6, <1>7, <1>8, <1>9 DEF Next, Loop, Receive, Work, NotifyFill,
     Strategy, EndOfStream, StreamFails, RecordFills, CallOnFill, CallOnEvent, Return, Raise,
     CollectMarketFills, AllNotified, InCallback

\* Of a print's amount nothing is used twice and nothing is lost, however many
\* orders share it.
THEOREM VolumeConserved == Spec => []VolumeBound
<1>1. Init => VolumeBound
  BY DEF Init, VolumeBound
<1>2. Inv /\ VolumeBound /\ [Next]_vars => VolumeBound'
  BY VolumeStep
<1> QED
  BY <1>1, <1>2, LoopInvariance, PTL DEF Spec

--------------------------------------------------------------------------------
(* What is booked of a fill: the log, the order, the strategy, the recorder.   *)

\* A fill of a resting order that is not logged yet.
Unlogged(id) == IF pc \in {"match", "log"} THEN At(fills, id) ELSE 0

\* Everything known of an order's fills outside its record.
Accounted(id) == At(logged, id) + At(market_fills, id) + Unlogged(id)

LEMMA ConservationMeans ==
    Conservation <=> /\ DOMAIN logged \subseteq DOMAIN orders
                     /\ \A id \in DOMAIN orders : orders[id].filled_size = Accounted(id)
  BY DEF Conservation, Accounted, Unlogged

LEMMA TotalsTyped ==
    ASSUME Inv
    PROVE  /\ Quantities(fills) /\ Quantities(market_fills)
           /\ Quantities(logged) /\ Quantities(recorded)
           /\ DOMAIN fills \subseteq DOMAIN orders
           /\ DOMAIN market_fills \subseteq DOMAIN orders
           /\ \A id : /\ At(fills, id) \in Nat /\ At(market_fills, id) \in Nat
                      /\ At(logged, id) \in Nat /\ At(recorded, id) \in Nat
<1>1. /\ Quantities(fills) /\ Quantities(market_fills)
      /\ Quantities(logged) /\ Quantities(recorded)
      /\ DOMAIN fills \subseteq DOMAIN orders
      /\ DOMAIN market_fills \subseteq DOMAIN orders
  BY DEF Inv, LoopTypeOK, PerOrder, Quantities, Idle
<1> QED
  BY <1>1, AtNat

\* Steps that leave the records and the log alone.
LEMMA QuietStep ==
    ASSUME Conservation, UNCHANGED <<orders, logged, market_fills>>,
           \A id \in DOMAIN orders : Unlogged(id)' = Unlogged(id)
    PROVE  Conservation'
<1>1. \A id \in DOMAIN orders : Accounted(id)' = Accounted(id)
  BY DEF Accounted
<1>2. \A id \in DOMAIN orders' : orders'[id].filled_size = Accounted(id)'
  BY <1>1, ConservationMeans
<1> QED
  BY <1>2, ConservationMeans DEF Conservation, Accounted, Unlogged

LEMMA LoopConserves ==
    ASSUME Inv, Conservation,
           \/ \E e \in Snapshots : TakeSnapshot(e)
           \/ \E e \in Trades : TakeTrade(e)
           \/ EndOfStream \/ StreamFails \/ EndMatch \/ CallOnEvent \/ NotifyFill \/ Return \/ Raise
    PROVE  Conservation'
<1>1. UNCHANGED <<orders, logged, market_fills, fills>>
  BY DEF TakeSnapshot, TakeTrade, StartEvent, EndOfStream, StreamFails, EndMatch,
     CallOnEvent, NotifyFill, CallOnFill, Return, Raise, MatchList, AllNotified, Applied
<1>2. \/ fills = NoFills
      \/ pc \in {"match", "log"} /\ pc' \in {"match", "log"}
      \/ pc \notin {"match", "log"} /\ pc' \notin {"match", "log"}
  <2>1. pc \in Idle => fills = NoFills
    BY DEF Inv, Scope, Idle
  <2>2. CASE pc = "next"
    BY <2>1, <2>2 DEF Idle
  <2>3. CASE EndMatch
    BY <2>3 DEF EndMatch
  <2>4. CASE CallOnEvent \/ NotifyFill \/ Return \/ Raise
    BY <2>4 DEF CallOnEvent, NotifyFill, CallOnFill, Return, Raise, InCallback,
       AllNotified
  <2> QED
    BY <2>2, <2>3, <2>4 DEF TakeSnapshot, TakeTrade, StartEvent, EndOfStream,
       StreamFails, MatchList, Applied
<1>3. \A id \in DOMAIN orders : Unlogged(id)' = Unlogged(id)
  BY <1>1, <1>2, NoFillsFacts DEF Unlogged, At
<1> QED
  BY <1>1, <1>3, QuietStep

LEMMA MatchConserves ==
    ASSUME Inv, Conservation, NEW id \in resting, MatchOrder(id)
    PROVE  Conservation'
<1>1. /\ pc = "match" /\ pc' = "match" /\ ~Exhausted /\ id \in DOMAIN orders
      /\ id \notin DOMAIN fills /\ UNCHANGED <<logged, market_fills, pc, event, book>>
  BY DEF MatchOrder, Inv, LoopTypeOK, Visited, Unvisited, Idle
<1>2. CASE MatchSkip(id)
  BY <1>1, <1>2, QuietStep DEF MatchSkip, Unlogged
<1>3. CASE MatchFill(id)
  <2> DEFINE q == FillSize(orders[id])
  <2>1. /\ DOMAIN orders' = DOMAIN orders
        /\ orders'[id].filled_size = orders[id].filled_size + q
        /\ \A i \in DOMAIN orders : i # id => orders'[i] = orders[i]
    BY <1>1, <1>3, MatchFillOrders
  <2>2. IsActive(orders[id]) /\ fills' = Put(fills, id, q)
    BY <1>3 DEF MatchFill, VolumeLeft
  <2>3. q \in Nat
    <3>1. q \in 1 .. RemainingSize(orders[id])
      BY <1>1, <2>2, FillSizeRange
    <3>2. RemainingSize(orders[id]) \in Int
      BY <1>1, InvRecords DEF Inv, OrderType, RemainingSize
    <3> QED
      BY <3>1, <3>2
  <2> HIDE DEF q
  <2>4. /\ At(fills', id) = q
        /\ \A i : i # id => At(fills', i) = At(fills, i)
    <3>1. Quantities(fills)
      BY TotalsTyped
    <3>2. /\ At(Put(fills, id, q), id) = q
          /\ \A i : i # id => At(Put(fills, id, q), i) = At(fills, i)
      BY DEF Put, At
    <3> QED
      BY <2>2, <3>2
  <2>5. At(fills, id) = 0
    BY <1>1 DEF At
  <2>6. ASSUME NEW i \in DOMAIN orders
        PROVE  orders'[i].filled_size = At(logged', i) + At(market_fills', i) + At(fills', i)
    <3>1. orders[i].filled_size = At(logged, i) + At(market_fills, i) + At(fills, i)
      BY <1>1 DEF Conservation
    <3>2. CASE i = id
      <4>1. At(logged, id) \in Nat /\ At(market_fills, id) \in Nat
        BY TotalsTyped
      <4> QED
        BY <1>1, <2>1, <2>3, <2>4, <2>5, <3>1, <3>2, <4>1
    <3>3. CASE i # id
      BY <1>1, <2>1, <2>4, <3>1, <3>3
    <3> QED
      BY <3>2, <3>3
  <2> QED
    BY <1>1, <2>1, <2>6 DEF Conservation, At
<1> QED
  BY <1>2, <1>3 DEF MatchOrder, Unvisited

LEMMA LogConserves ==
    ASSUME Inv, Conservation, RecordFills
    PROVE  Conservation'
<1>1. /\ pc = "log" /\ pc' = "notify" /\ logged' = Added(logged, fills)
      /\ UNCHANGED <<orders, market_fills>>
  BY DEF RecordFills, LogAndRecord
<1>2. /\ DOMAIN logged' = DOMAIN logged \cup DOMAIN fills
      /\ \A id : At(logged', id) = At(logged, id) + At(fills, id)
  BY <1>1, TotalsTyped, AddedFacts
<1>3. ASSUME NEW id \in DOMAIN orders
      PROVE  orders[id].filled_size = At(logged', id) + At(market_fills', id)
  <2>1. orders[id].filled_size = At(logged, id) + At(market_fills, id) + At(fills, id)
    BY <1>1 DEF Conservation
  <2>2. At(logged, id) \in Nat /\ At(market_fills, id) \in Nat /\ At(fills, id) \in Nat
    BY TotalsTyped
  <2> QED
    BY <1>1, <1>2, <2>1, <2>2
<1>4. DOMAIN logged' \subseteq DOMAIN orders
  BY <1>2, TotalsTyped DEF Conservation
<1>5. \A id : At(logged', id) + At(market_fills', id) \in Nat
  BY <1>1, <1>2, TotalsTyped
<1> QED
  BY <1>1, <1>3, <1>4, <1>5 DEF Conservation, At

LEMMA CollectConserves ==
    ASSUME Inv, Conservation, CollectMarketFills
    PROVE  Conservation'
<1>1. /\ pc = "collect" /\ pc' = "next" /\ logged' = Added(logged, market_fills)
      /\ market_fills' = NoFills /\ UNCHANGED orders
  BY DEF CollectMarketFills, LogAndRecord
<1>2. /\ DOMAIN logged' = DOMAIN logged \cup DOMAIN market_fills
      /\ \A id : At(logged', id) = At(logged, id) + At(market_fills, id)
  BY <1>1, TotalsTyped, AddedFacts
<1>3. \A id \in DOMAIN orders : orders[id].filled_size = At(logged', id)
  BY <1>1, <1>2, TotalsTyped DEF Conservation
<1>4. DOMAIN logged' \subseteq DOMAIN orders
  BY <1>2, TotalsTyped DEF Conservation
<1>5. \A id : At(market_fills', id) = 0 /\ At(logged', id) \in Nat
  BY <1>1, <1>2, NoFillsFacts, TotalsTyped
<1> QED
  BY <1>1, <1>3, <1>4, <1>5 DEF Conservation, At

\* The next id has no fill anywhere.
LEMMA FreshId ==
    ASSUME Inv, Conservation
    PROVE  At(logged, next_id) = 0 /\ At(market_fills, next_id) = 0
<1>1. next_id \notin DOMAIN orders
  BY InvRecords DEF Inv
<1> QED
  BY <1>1, TotalsTyped DEF Conservation, At

\* An order entered by the context, with its fill if it has one.
LEMMA InsertConserves ==
    ASSUME Inv, Conservation, ContextCall, NEW o \in OrderType, Insert(o),
           o.filled_size \in Nat,
           At(market_fills', next_id) = o.filled_size,
           \A id : id # next_id => At(market_fills', id) = At(market_fills, id)
    PROVE  Conservation'
<1>1. /\ DOMAIN orders' = DOMAIN orders \cup {next_id} /\ next_id \notin DOMAIN orders
      /\ orders'[next_id] = o
      /\ \A id \in DOMAIN orders : orders'[id] = orders[id]
  BY InsertFacts DEF Inv, OrderInv, Insert, Put
<1>2. /\ pc' \notin {"match", "log"} /\ pc \notin {"match", "log"} /\ UNCHANGED <<logged, fills>>
  BY DEF ContextCall, InCallback
<1>3. ASSUME NEW id \in DOMAIN orders'
      PROVE  orders'[id].filled_size = At(logged', id) + At(market_fills', id)
  <2>1. CASE id = next_id
    BY <1>1, <1>2, <2>1, FreshId
  <2>2. CASE id # next_id
    <3>1. orders[id].filled_size = At(logged, id) + At(market_fills, id) + 0
      BY <1>1, <1>2, <2>2 DEF Conservation
    <3> QED
      BY <1>1, <1>2, <2>2, <3>1, TotalsTyped
  <2> QED
    BY <2>1, <2>2
<1>4. \A id : At(logged', id) + At(market_fills', id) \in Nat
  BY <1>2, FreshId, TotalsTyped
<1>5. DOMAIN logged' \subseteq DOMAIN orders'
  BY <1>1, <1>2 DEF Conservation
<1> QED
  BY <1>2, <1>3, <1>4, <1>5 DEF Conservation, At

\* Cancelling takes back no fill.
LEMMA CancelConserves ==
    ASSUME Inv, Conservation, ContextCall, UNCHANGED market_fills,
           DOMAIN orders' = DOMAIN orders,
           \A id \in DOMAIN orders : orders'[id].filled_size = orders[id].filled_size
    PROVE  Conservation'
  BY DEF Conservation, ContextCall, InCallback, At

LEMMA StrategyConserves ==
    ASSUME Inv, Conservation, StrategyCall
    PROVE  Conservation'
<1>1. n \in Times
  BY DEF Inv, LoopTypeOK, Idle
<1>2. ASSUME NEW side \in Sides, NEW price \in Prices, NEW size \in Sizes,
             CtxPlace(side, price, size)
      PROVE  Conservation'
  <2> DEFINE o == NewOrder(side, price, size, n)
  <2>1. /\ ContextCall /\ Insert(o) /\ UNCHANGED market_fills
        /\ price \in Int /\ size \in Int /\ size > 0 /\ price > 0
    BY <1>2, OrderAssumption DEF CtxPlace, Place
  <2>2. o \in OrderType /\ o.filled_size = 0
    BY <1>1, <2>1, NewOrderFacts DEF NewOrder
  <2>3. /\ At(market_fills', next_id) = o.filled_size
        /\ \A id : At(market_fills', id) = At(market_fills, id)
    BY <2>1, <2>2, FreshId
  <2> HIDE DEF o
  <2> QED
    BY <2>1, <2>2, <2>3, InsertConserves
<1>3. ASSUME NEW id \in DOMAIN orders, CtxCancel(id)
      PROVE  Conservation'
  <2>1. ContextCall /\ UNCHANGED market_fills
        /\ orders' = [orders EXCEPT ![id].status = "CANCELLED"]
    BY <1>3 DEF CtxCancel, Cancel
  <2>2. /\ DOMAIN orders' = DOMAIN orders
        /\ \A i \in DOMAIN orders : orders'[i].filled_size = orders[i].filled_size
    BY <2>1, InvRecords DEF Inv, OrderType
  <2> QED
    BY <2>1, <2>2, CancelConserves
<1>4. ASSUME CtxCancelAll
      PROVE  Conservation'
  <2>1. ContextCall /\ UNCHANGED market_fills /\ DOMAIN orders' = DOMAIN orders
    BY <1>4 DEF CtxCancelAll, CancelAll
  <2>2. \A i \in DOMAIN orders : orders'[i].filled_size = orders[i].filled_size
    BY <1>4, InvRecords DEF CtxCancelAll, CancelAll, Inv, OrderType
  <2> QED
    BY <2>1, <2>2, CancelConserves
<1>5. ASSUME NEW side \in Sides, NEW size \in Sizes, CtxMarketOrder(side, size)
      PROVE  Conservation'
  <2>1. PICK price \in Prices : ExecuteMarketOrder(side, price, size, n)
    BY <1>5, MarketOrderNext
  <2>2. PICK o : /\ o = [NewOrder(side, price, size, n) EXCEPT
                           !.filled_size = size, !.status = "FILLED"]
                 /\ Insert(o)
    BY <2>1 DEF ExecuteMarketOrder
  <2>3. price \in Int /\ size \in Int /\ size > 0 /\ price > 0
    BY <2>1, OrderAssumption DEF ExecuteMarketOrder
  <2>4. o \in OrderType
    BY <1>1, <2>2, <2>3, MarketOrderFacts
  <2>5. o.filled_size = size
    BY <2>2 DEF NewOrder
  <2>6. ContextCall /\ market_fills' = Put(market_fills, next_id, o.filled_size)
    BY <1>5, <2>5 DEF CtxMarketOrder
  <2>7. o.filled_size \in Nat
    BY <2>3, <2>5
  <2>8. /\ At(market_fills', next_id) = o.filled_size
        /\ \A id : id # next_id => At(market_fills', id) = At(market_fills, id)
    <3>1. Quantities(market_fills)
      BY TotalsTyped
    <3>2. /\ At(Put(market_fills, next_id, o.filled_size), next_id) = o.filled_size
          /\ \A id : id # next_id =>
                At(Put(market_fills, next_id, o.filled_size), id) = At(market_fills, id)
      BY DEF Put, At
    <3> QED
      BY <2>6, <3>2
  <2> QED
    BY <2>2, <2>4, <2>6, <2>7, <2>8, InsertConserves
<1> QED
  BY <1>2, <1>3, <1>4, <1>5 DEF StrategyCall

--------------------------------------------------------------------------------
\* What an order says was filled is what the log says, fill by fill, in every
\* backtest (backtest.py:70-102, matcher.py:107-133, context.py:132-148).
THEOREM FillsConserved == Spec => []Conservation
<1>1. Init => Conservation
  BY NoFillsFacts DEF Init, OrderInit, Conservation
<1>2. Inv /\ Conservation /\ [Next]_vars => Conservation'
  <2> SUFFICES ASSUME Inv, Conservation, [Next]_vars
               PROVE  Conservation'
    OBVIOUS
  <2>1. CASE UNCHANGED vars
    BY <2>1 DEF vars, loopvars, Conservation, At
  <2> QED
    BY <2>1, LoopConserves, MatchConserves, LogConserves, CollectConserves, StrategyConserves
       DEF Next, Loop, Receive, Work, Strategy
<1> QED
  BY <1>1, <1>2, LoopInvariance, PTL DEF Spec

--------------------------------------------------------------------------------
(* The fills the strategy is told of.  Told is what makes FillsNotified          *)
(* inductive: an order that is active, or filled on this event, was told of in   *)
(* full but for the fill of it that is still due; of the others (filled by a     *)
(* market order, or cancelled) never too much was told.                          *)

\* The fill of an order its strategy is still to be told of on this event.
Due(id) == IF pc \in {"match", "log"} \/ id \in to_notify THEN At(fills, id) ELSE 0

Announced(id) == At(notified, id) + Due(id)

\* The orders whose fills must all reach on_fill.
Followed(id) == id \in DOMAIN fills \/ IsActive(orders[id])

Told ==
    \A id \in DOMAIN orders :
       /\ Announced(id) <= orders[id].filled_size
       /\ Followed(id) => Announced(id) = orders[id].filled_size

LEMMA NotifiedTyped ==
    ASSUME Inv
    PROVE  /\ Quantities(notified) /\ DOMAIN notified \subseteq DOMAIN orders
           /\ to_notify \subseteq DOMAIN fills
           /\ \A id : At(notified, id) \in Nat /\ Due(id) \in Nat
<1>1. /\ Quantities(notified) /\ DOMAIN notified \subseteq DOMAIN orders
      /\ to_notify \subseteq DOMAIN fills
  BY DEF Inv, LoopTypeOK, PerOrder, Quantities, Idle
<1> QED
  BY <1>1, AtNat, TotalsTyped DEF Due

\* A step makes due what it fills, and tells of what was due; only of an active
\* order, and it makes none active.
Tells ==
    /\ DOMAIN orders' = DOMAIN orders
    /\ \A id \in DOMAIN orders :
          /\ IsActive(orders[id]) \/ (Announced(id)' = Announced(id) /\ orders'[id] = orders[id])
          /\ Announced(id) = orders[id].filled_size => Announced(id)' = orders'[id].filled_size
          /\ Followed(id)' => Followed(id)

LEMMA QuietTells ==
    ASSUME UNCHANGED orders,
           \A id \in DOMAIN orders :
              Announced(id)' = Announced(id) /\ (Followed(id)' => Followed(id))
    PROVE  Tells
  BY DEF Tells

LEMMA LoopTells ==
    ASSUME Inv,
           \/ \E e \in Snapshots : TakeSnapshot(e)
           \/ \E e \in Trades : TakeTrade(e)
           \/ EndOfStream \/ StreamFails \/ EndMatch \/ RecordFills \/ CallOnEvent
           \/ Return \/ Raise \/ CollectMarketFills
    PROVE  Tells
<1>1. UNCHANGED <<orders, notified>>
  BY DEF TakeSnapshot, TakeTrade, StartEvent, EndOfStream, StreamFails, EndMatch,
     RecordFills, CallOnEvent, Return, Raise, CollectMarketFills, MatchList,
     AllNotified, Applied
<1>2. ASSUME NEW id \in DOMAIN orders
      PROVE  Due(id)' = Due(id)
  <2>1. CASE pc = "next"
    <3>1. fills = NoFills /\ to_notify = {}
      BY <2>1 DEF Inv, Scope, Idle
    <3>2. UNCHANGED <<fills, to_notify>>
      BY <2>1 DEF TakeSnapshot, TakeTrade, StartEvent, EndOfStream, StreamFails, EndMatch,
         RecordFills, CallOnEvent, Return, Raise, CollectMarketFills, InCallback,
         MatchList, AllNotified, Applied
    <3> QED
      BY <3>1, <3>2, NoFillsFacts DEF Due
  <2>2. CASE EndMatch
    BY <2>2 DEF EndMatch, Due, At
  <2>3. CASE RecordFills
    BY <2>3, NotifiedTyped DEF RecordFills, Due, At
  <2>4. CASE CallOnEvent \/ Return \/ Raise
    BY <2>4 DEF CallOnEvent, Return, Raise, InCallback, AllNotified, Due, At
  <2>5. CASE CollectMarketFills
    <3>1. pc = "collect" /\ pc' = "next" /\ to_notify = {} /\ to_notify' = {}
      BY <2>5 DEF CollectMarketFills, Inv, Scope, Idle
    <3> QED
      BY <3>1 DEF Due
  <2> QED
    BY <2>1, <2>2, <2>3, <2>4, <2>5 DEF TakeSnapshot, TakeTrade, StartEvent, EndOfStream,
       StreamFails, MatchList, Applied
<1>3. DOMAIN fills' \subseteq DOMAIN fills
  BY NoFillsFacts DEF TakeSnapshot, TakeTrade, StartEvent, EndOfStream, StreamFails,
     EndMatch, RecordFills, CallOnEvent, Return, Raise, CollectMarketFills, MatchList,
     AllNotified, Applied
<1>4. \A id \in DOMAIN orders :
         Announced(id)' = Announced(id) /\ (Followed(id)' => Followed(id))
  BY <1>1, <1>2, <1>3 DEF Announced, Followed, At
<1> QED
  BY <1>1, <1>4, QuietTells

\* on_fill: what was due of the order is told, and no longer due.
LEMMA OnFillTells ==
    ASSUME Inv, NEW id \in to_notify, CallOnFill(id)
    PROVE  Tells
<1> DEFINE fill == [i \in {id} |-> fills[i]]
<1>1. /\ pc = "notify" /\ pc' = "in_on_fill" /\ to_notify' = to_notify \ {id}
      /\ notified' = Added(notified, fill) /\ UNCHANGED <<orders, fills>>
  BY DEF CallOnFill
<1>2. id \in DOMAIN fills /\ fills[id] \in Nat
  BY DEF Inv, LoopTypeOK, PerOrder, Idle
<1>3. /\ Quantities(fill)
      /\ At(fill, id) = At(fills, id) /\ \A i : i # id => At(fill, i) = 0
  BY <1>2 DEF Quantities, At
<1> HIDE DEF fill
<1>4. \A i : At(notified', i) = At(notified, i) + At(fill, i)
  <2>1. Quantities(notified)
    BY NotifiedTyped
  <2>2. \A i : At(Added(notified, fill), i) = At(notified, i) + At(fill, i)
    BY <1>3, <2>1, AddedFacts
  <2> QED
    BY <1>1, <2>2
<1>5. ASSUME NEW i \in DOMAIN orders
      PROVE  Announced(i)' = Announced(i)
  <2>1. At(notified, i) \in Nat /\ At(fills, i) \in Nat /\ Due(i) \in Nat
    BY NotifiedTyped, TotalsTyped
  <2>2. CASE i = id
    <3>1. Due(i) = At(fills, i) /\ Due(i)' = 0
      BY <1>1, <2>2 DEF Due
    <3> QED
      BY <1>3, <1>4, <2>1, <2>2, <3>1 DEF Announced, At
  <2>3. CASE i # id
    <3>1. Due(i)' = Due(i)
      BY <1>1, <2>3 DEF Due, At
    <3> QED
      BY <1>3, <1>4, <2>1, <2>3, <3>1 DEF Announced, At
  <2> QED
    BY <2>2, <2>3
<1>6. \A i \in DOMAIN orders : Followed(i)' => Followed(i)
  BY <1>1 DEF Followed
<1> QED
  BY <1>1, <1>5, <1>6, QuietTells

\* Matching: what is filled of an order becomes due.
LEMMA MatchTells ==
    ASSUME Inv, NEW id \in resting, MatchOrder(id)
    PROVE  Tells
<1>1. /\ pc = "match" /\ pc' = "match" /\ ~Exhausted /\ id \in DOMAIN orders
      /\ id \notin DOMAIN fills /\ UNCHANGED <<notified, to_notify, pc, event, book>>
  BY DEF MatchOrder, Inv, LoopTypeOK, Visited, Unvisited, Idle
<1>2. CASE MatchSkip(id)
  <2>1. UNCHANGED <<orders, fills>>
    BY <1>2 DEF MatchSkip
  <2> QED
    BY <1>1, <2>1, QuietTells DEF Announced, Followed, Due, At
<1>3. CASE MatchFill(id)
  <2> DEFINE q == FillSize(orders[id])
  <2>1. /\ DOMAIN orders' = DOMAIN orders
        /\ orders'[id].filled_size = orders[id].filled_size + q
        /\ \A i \in DOMAIN orders : i # id => orders'[i] = orders[i]
    BY <1>1, <1>3, MatchFillOrders
  <2>2. IsActive(orders[id]) /\ fills' = Put(fills, id, q)
    BY <1>3 DEF MatchFill, VolumeLeft
  <2>3. q \in Nat
    <3>1. q \in 1 .. RemainingSize(orders[id])
      BY <1>1, <2>2, FillSizeRange
    <3>2. RemainingSize(orders[id]) \in Int
      BY <1>1, InvRecords DEF Inv, OrderType, RemainingSize
    <3> QED
      BY <3>1, <3>2
  <2> HIDE DEF q
  <2>4. /\ At(Put(fills, id, q), id) = q
        /\ \A i : i # id => At(Put(fills, id, q), i) = At(fills, i)
        /\ DOMAIN Put(fills, id, q) = DOMAIN fills \cup {id}
    BY DEF Put, At
  <2>5. At(fills, id) = 0
    BY <1>1 DEF At
  <2>6. \A i : Due(i) = At(fills, i) /\ Due(i)' = At(fills', i)
    BY <1>1 DEF Due, At
  <2>7. \A i : Announced(i) = At(notified, i) + At(fills, i)
               /\ Announced(i)' = At(notified, i) + At(fills', i)
    BY <1>1, <2>6 DEF Announced, At
  <2>8. ASSUME NEW i \in DOMAIN orders
        PROVE  /\ IsActive(orders[i]) \/ (Announced(i)' = Announced(i) /\ orders'[i] = orders[i])
               /\ Announced(i) = orders[i].filled_size => Announced(i)' = orders'[i].filled_size
               /\ Followed(i)' => Followed(i)
    <3>1. CASE i = id
      <4>1. At(notified, id) \in Nat
        BY NotifiedTyped
      <4>2. Announced(id) = At(notified, id) /\ Announced(id)' = At(notified, id) + q
        BY <2>2, <2>4, <2>5, <2>7, <4>1
      <4>3. Announced(id) = orders[id].filled_size => Announced(id)' = orders'[id].filled_size
        BY <2>1, <4>2
      <4> QED
        BY <2>2, <3>1, <4>3 DEF Followed
    <3>2. CASE i # id
      <4>1. Announced(i)' = Announced(i) /\ orders'[i] = orders[i]
        BY <2>1, <2>2, <2>4, <2>7, <3>2
      <4>2. Followed(i)' => Followed(i)
        BY <2>1, <2>2, <2>4, <3>2 DEF Followed
      <4> QED
        BY <4>1, <4>2
    <3> QED
      BY <3>1, <3>2
  <2> QED
    BY <2>1, <2>8 DEF Tells
<1> QED
  BY <1>2, <1>3 DEF MatchOrder, Unvisited

\* What the engine does by itself, and what on_fill is given.
LEMMA EngineTells ==
    ASSUME Inv, Loop \/ NotifyFill \/ Return \/ Raise
    PROVE  Tells
  BY LoopTells, OnFillTells, MatchTells DEF Loop, Receive, Work, NotifyFill

\* What a call of the strategy may do to the records: fills are kept, no order
\* is revived, and an order it enters rests unfilled or is done.
LEMMA CallRecords ==
    ASSUME Inv, StrategyCall
    PROVE  /\ ContextCall
           /\ DOMAIN orders \subseteq DOMAIN orders'
           /\ \A id \in DOMAIN orders :
                 /\ orders'[id].filled_size = orders[id].filled_size
                 /\ IsActive(orders'[id]) => IsActive(orders[id])
           /\ \A id \in DOMAIN orders' \ DOMAIN orders :
                 /\ orders'[id].filled_size \in Nat
                 /\ IsActive(orders'[id]) => orders'[id].filled_size = 0
<1>1. n \in Times
  BY DEF Inv, LoopTypeOK, Idle
<1>2. ASSUME NEW o \in OrderType, Insert(o), o.filled_size \in Nat,
             IsActive(o) => o.filled_size = 0
      PROVE  /\ DOMAIN orders \subseteq DOMAIN orders'
             /\ \A id \in DOMAIN orders : orders'[id] = orders[id]
             /\ \A id \in DOMAIN orders' \ DOMAIN orders : orders'[id] = o
  BY <1>2, InsertFacts DEF Inv, OrderInv
<1>3. ASSUME NEW side \in Sides, NEW price \in Prices, NEW size \in Sizes,
             CtxPlace(side, price, size)
      PROVE  /\ ContextCall
             /\ \E o \in OrderType : /\ Insert(o) /\ o.filled_size \in Nat
                                     /\ IsActive(o) => o.filled_size = 0
  <2> DEFINE o == NewOrder(side, price, size, n)
  <2>1. /\ ContextCall /\ Insert(o)
        /\ price \in Int /\ size \in Int /\ size > 0 /\ price > 0
    BY <1>3, OrderAssumption DEF CtxPlace, Place
  <2>2. o \in OrderType /\ o.filled_size = 0
    BY <1>1, <2>1, NewOrderFacts DEF NewOrder
  <2> HIDE DEF o
  <2> QED
    BY <2>1, <2>2
<1>4. ASSUME NEW side \in Sides, NEW size \in Sizes, CtxMarketOrder(side, size)
      PROVE  /\ ContextCall
             /\ \E o \in OrderType : /\ Insert(o) /\ o.filled_size \in Nat
                                     /\ IsActive(o) => o.filled_size = 0
  <2>1. PICK price \in Prices : ExecuteMarketOrder(side, price, size, n)
    BY <1>4, MarketOrderNext
  <2>2. PICK o : /\ o = [NewOrder(side, price, size, n) EXCEPT
                           !.filled_size = size, !.status = "FILLED"]
                 /\ Insert(o)
    BY <2>1 DEF ExecuteMarketOrder
  <2>3. price \in Int /\ size \in Int /\ size > 0 /\ price > 0
    BY <2>1, OrderAssumption DEF ExecuteMarketOrder
  <2>4. o \in OrderType
    BY <1>1, <2>2, <2>3, MarketOrderFacts
  <2>5. o.filled_size = size /\ o.status = "FILLED"
    BY <2>2 DEF NewOrder
  <2>6. ~IsActive(o) /\ o.filled_size \in Nat
    BY <2>3, <2>5 DEF IsActive
  <2>7. ContextCall
    BY <1>4 DEF CtxMarketOrder
  <2> QED
    BY <2>2, <2>4, <2>6, <2>7
<1>5. ASSUME NEW id \in DOMAIN orders, CtxCancel(id)
      PROVE  /\ ContextCall /\ DOMAIN orders' = DOMAIN orders
             /\ \A i \in DOMAIN orders :
                   /\ orders'[i].filled_size = orders[i].filled_size
                   /\ IsActive(orders'[i]) => IsActive(orders[i])
  <2>1. /\ ContextCall /\ IsActive(orders[id])
        /\ orders' = [orders EXCEPT ![id].status = "CANCELLED"]
    BY <1>5 DEF CtxCancel, Cancel
  <2> QED
    BY <2>1, InvRecords DEF Inv, OrderType
<1>6. ASSUME CtxCancelAll
      PROVE  /\ ContextCall /\ DOMAIN orders' = DOMAIN orders
             /\ \A i \in DOMAIN orders :
                   /\ orders'[i].filled_size = orders[i].filled_size
                   /\ IsActive(orders'[i]) => IsActive(orders[i])
  <2>1. ContextCall /\ DOMAIN orders' = DOMAIN orders
    BY <1>6 DEF CtxCancelAll, CancelAll
  <2>2. \A i \in DOMAIN orders : orders'[i].filled_size = orders[i].filled_size
    BY <1>6, InvRecords DEF CtxCancelAll, CancelAll, Inv, OrderType
  <2>3. \A i \in DOMAIN orders : IsActive(orders'[i]) => IsActive(orders[i])
    BY <1>6 DEF CtxCancelAll, CancelAll, Active
  <2> QED
    BY <2>1, <2>2, <2>3
<1>7. CASE \E o \in OrderType : /\ Insert(o) /\ o.filled_size \in Nat
                                /\ IsActive(o) => o.filled_size = 0
  BY <1>2, <1>3, <1>4, <1>5, <1>6, <1>7 DEF StrategyCall
<1> QED
  BY <1>3, <1>4, <1>5, <1>6, <1>7 DEF StrategyCall

LEMMA CallTells ==
    ASSUME Inv, Told, StrategyCall
    PROVE  Told'
<1>1. /\ pc' = pc /\ pc \notin {"match", "log"} /\ UNCHANGED <<fills, to_notify, notified>>
  BY CallRecords DEF ContextCall, InCallback
<1>2. \A id : Announced(id)' = Announced(id)
  BY <1>1 DEF Announced, Due, At
<1>3. ASSUME NEW id \in DOMAIN orders
      PROVE  /\ Announced(id)' <= orders'[id].filled_size
             /\ Followed(id)' => Announced(id)' = orders'[id].filled_size
  <2>1. Followed(id)' => Followed(id)
    BY <1>1, CallRecords DEF Followed
  <2> QED
    BY <1>2, <2>1, CallRecords DEF Told
<1>4. ASSUME NEW id \in DOMAIN orders' \ DOMAIN orders
      PROVE  /\ Announced(id)' <= orders'[id].filled_size
             /\ Followed(id)' => Announced(id)' = orders'[id].filled_size
  <2>1. id \notin DOMAIN fills /\ id \notin to_notify /\ id \notin DOMAIN notified
    BY NotifiedTyped, TotalsTyped
  <2>2. Announced(id)' = 0
    BY <1>1, <1>2, <2>1 DEF Announced, Due, At
  <2>3. Followed(id)' => IsActive(orders'[id])
    BY <1>1, <2>1 DEF Followed
  <2> QED
    BY <2>2, <2>3, CallRecords
<1> QED
  BY <1>3, <1>4 DEF Told

\* By the time on_event is called the strategy was told of every fill of every
\* order filled on this event, once (backtest.py:92-97).
THEOREM FillsReported == Spec => []FillsNotified
<1>1. Init => Told
  BY DEF Init, OrderInit, Told
<1>2. Inv /\ Told /\ [Next]_vars => Told'
  <2> SUFFICES ASSUME Inv, Told, [Next]_vars
               PROVE  Told'
    OBVIOUS
  <2>1. CASE UNCHANGED vars
    BY <2>1 DEF vars, loopvars, Told, Announced, Due, Followed, At
  <2>2. CASE Tells
    <3>1. \A id \in DOMAIN orders : orders[id].filled_size \in Int
      BY InvRecords DEF Inv, OrderType
    <3>2. ASSUME NEW id \in DOMAIN orders
          PROVE  /\ Announced(id)' <= orders'[id].filled_size
                 /\ Followed(id)' => Announced(id)' = orders'[id].filled_size
      <4>1. CASE IsActive(orders[id])
        <5>1. Announced(id)' = orders'[id].filled_size
          BY <2>2, <4>1 DEF Told, Tells, Followed
        <5>2. id \in DOMAIN orders' /\ OrderTypeOK'
          BY <2>2, InvStep DEF Inv, OrderInv, Tells
        <5>3. orders'[id].filled_size \in Int
          BY <5>2 DEF OrderTypeOK, OrderType
        <5> QED
          BY <5>1, <5>3
      <4>2. CASE ~IsActive(orders[id])
        BY <2>2, <4>2 DEF Told, Tells
      <4> QED
        BY <4>1, <4>2
    <3> QED
      BY <2>2, <3>2 DEF Told, Tells
  <2> QED
    BY <2>1, <2>2, EngineTells, CallTells DEF Next, Strategy
<1>3. Inv /\ Told => FillsNotified
  <2> SUFFICES ASSUME Inv, Told
               PROVE  FillsNotified
    OBVIOUS
  <2>1. ASSUME NEW id \in DOMAIN notified
        PROVE  id \in DOMAIN orders /\ notified[id] <= orders[id].filled_size
    <3>1. id \in DOMAIN orders /\ notified[id] = At(notified, id)
      BY <2>1, NotifiedTyped DEF At
    <3>2. At(notified, id) \in Nat /\ Due(id) \in Nat /\ orders[id].filled_size \in Int
      BY <3>1, NotifiedTyped, InvRecords DEF Inv, OrderType
    <3>3. At(notified, id) + Due(id) <= orders[id].filled_size
      BY <3>1 DEF Told, Announced
    <3> QED
      BY <3>1, <3>2, <3>3
  <2>2. ASSUME NEW id \in DOMAIN orders, pc \in {"in_on_event", "collect"} \cup Idle,
               Followed(id)
        PROVE  At(notified, id) = orders[id].filled_size
    <3>1. Due(id) = 0
      BY <2>2, NoFillsFacts DEF Due, Inv, Scope, Idle
    <3>2. At(notified, id) \in Nat
      BY NotifiedTyped
    <3> QED
      BY <2>2, <3>1, <3>2 DEF Told, Announced
  <2>3. pc \in {"in_on_event", "collect"} =>
           \A id \in DOMAIN fills : At(notified, id) = orders[id].filled_size
    BY <2>2, TotalsTyped DEF Followed
  <2>4. pc \in Idle =>
           \A id \in DOMAIN orders :
              orders[id].status = "PARTIALLY_FILLED"
                 => At(notified, id) = orders[id].filled_size
    BY <2>2 DEF Followed, IsActive
  <2> QED
    BY <2>1, <2>3, <2>4 DEF FillsNotified
<1> QED
  BY <1>1, <1>2, <1>3, LoopInvariance, PTL DEF Spec

--------------------------------------------------------------------------------
(* The fills the recorder is fed.                                               *)

\* The book has both sides by the first event.
BookKnown == n > 0 => book.bid # None /\ book.ask # None

\* No fill passes the recorder by.
Recording ==
    /\ recorded = logged
    /\ pc = "done" /\ n > 0 => mark = Mid

\* A book with both sides has a mid.
LEMMA MidKnown ==
    ASSUME Inv, book.bid # None, book.ask # None
    PROVE  /\ Mid \in Int /\ Mid # None
           /\ book.bid \in Int /\ book.ask \in Int /\ Mid = (book.bid + book.ask) \div 2
<1>1. book.bid \in Int /\ book.ask \in Int
  BY OrderAssumption DEF Inv, LoopTypeOK, MarketPrices, Idle
<1>2. Mid = (book.bid + book.ask) \div 2
  BY DEF Mid
<1>3. Mid \in Int
  BY <1>1, <1>2
<1> QED
  BY <1>1, <1>2, <1>3, BacktestAssumption

\* As long as the book is known, what is logged is recorded, whatever the book was.
LEMMA RecordingStep ==
    ASSUME Inv, BookKnown, Recording, [Next]_vars
    PROVE  Recording'
<1>1. /\ n \in Nat /\ (pc \notin Idle => n > 0)
      /\ n > 0 => Mid # None
  BY OrderAssumption, MidKnown DEF Inv, LoopTypeOK, Scope, Times, Idle, BookKnown
<1>2. CASE \E e \in Snapshots \cup Trades : StartEvent(e)
  BY <1>2 DEF StartEvent, MatchList, Recording
<1>3. CASE EndOfStream
  <2>1. UNCHANGED <<n, book, logged, recorded>>
        /\ mark' = IF Mid = None THEN mark ELSE Mid
    BY <1>3 DEF EndOfStream
  <2>2. n > 0 => mark' = Mid
    BY <1>1, <2>1
  <2>3. Mid' = Mid
    BY <2>1 DEF Mid
  <2> QED
    BY <2>1, <2>2, <2>3 DEF Recording
<1>4. ASSUME NEW fs, LogAndRecord(fs), pc \notin Idle, pc' # "done"
      PROVE  Recording'
  BY <1>1, <1>4 DEF LogAndRecord, Recording
<1>5. CASE RecordFills
  <2>1. LogAndRecord(fills) /\ pc \notin Idle /\ pc' # "done"
    BY <1>5 DEF RecordFills, Idle
  <2> QED
    BY <2>1, <1>4
<1>6. CASE CollectMarketFills
  <2>1. LogAndRecord(market_fills) /\ pc \notin Idle /\ pc' # "done"
    BY <1>6 DEF CollectMarketFills, Idle
  <2> QED
    BY <2>1, <1>4
<1>7. CASE StrategyCall
  <2>1. UNCHANGED <<logged, recorded, pc>> /\ pc # "done"
    BY <1>7, CallRecords DEF ContextCall, InCallback
  <2> QED
    BY <2>1 DEF Recording
<1>8. CASE StreamFails \/ (\E id \in resting : MatchOrder(id)) \/ EndMatch \/ NotifyFill
           \/ CallOnEvent \/ Return \/ Raise
  <2>1. UNCHANGED <<logged, recorded>> /\ pc' # "done"
    BY <1>8 DEF StreamFails, MatchOrder, EndMatch, NotifyFill, CallOnFill, CallOnEvent,
       Return, Raise, Unvisited, AllNotified
  <2> QED
    BY <2>1 DEF Recording
<1>9. CASE UNCHANGED vars
  BY <1>9 DEF vars, loopvars, Recording, Mid
<1> QED
  BY <1>2, <1>3, <1>5, <1>6, <1>7, <1>8, <1>9
     DEF Next, Loop, Receive, Work, Strategy, TakeSnapshot, TakeTrade, Applied

\* Of two-sided snapshots the first to come makes the book known for good.
LEMMA BookKnownStep ==
    ASSUME TwoSided, SnapshotFirst, Inv, BookKnown, [Next]_vars
    PROVE  BookKnown'
<1>1. n \in Nat
  BY OrderAssumption DEF Inv, LoopTypeOK, Times, Idle
<1>2. ASSUME NEW e \in Snapshots, TakeSnapshot(e)
      PROVE  BookKnown'
  BY <1>2 DEF TakeSnapshot, StartEvent, MatchList, Applied, Snapshots, TwoSided, BookKnown
<1>3. ASSUME NEW e \in Trades, TakeTrade(e)
      PROVE  BookKnown'
  BY <1>3 DEF TakeTrade, StartEvent, MatchList, BookKnown
<1>4. CASE UNCHANGED <<n, book>>
  BY <1>4 DEF BookKnown
<1>5. CASE StrategyCall
  BY <1>4, <1>5, CallRecords DEF ContextCall
<1> QED
  BY <1>2, <1>3, <1>4, <1>5 DEF Next, Loop, Receive, Work, NotifyFill, Strategy, vars,
     loopvars, EndOfStream, StreamFails, MatchOrder, EndMatch, RecordFills, CallOnFill,
     CallOnEvent, Return, Raise, CollectMarketFills, Unvisited, AllNotified

\* When every snapshot has both sides and the first event is one, the recorder
\* is fed every fill the log lists, and the run ends marked at its last mid
\* (backtest.py:75-115, recorder.py).
THEOREM RecorderAccounts == Spec => []RecorderComplete
<1>1. CASE TwoSided /\ SnapshotFirst
  <2>1. Init => BookKnown /\ Recording
    BY DEF Init, BookKnown, Recording
  <2>2. Inv /\ BookKnown /\ Recording /\ [Next]_vars => BookKnown' /\ Recording'
    BY <1>1, BookKnownStep, RecordingStep
  <2>3. Recording => RecorderComplete
    BY DEF Recording, RecorderComplete
  <2> QED
    BY <2>1, <2>2, <2>3, LoopInvariance, PTL DEF Spec
<1>2. CASE ~(TwoSided /\ SnapshotFirst)
  <2>1. RecorderComplete
    BY <1>2 DEF RecorderComplete
  <2> QED
    BY <2>1, PTL
<1> QED
  BY <1>1, <1>2
================================================================================
