------------------------ MODULE AvellanedaStoikovProofs ------------------------
(* Proofs about the inventory-aware market maker, for every set of quotes and   *)
(* parameters and streams of any length: it is a strategy of Backtest, loses no *)
(* quote, counts its inventory right and leans its quotes against it.           *)
(*                                                                              *)
(* To the invariants of the loop (Inv) and of the quotes (QuoteInv) the         *)
(* strategy adds two parts.  Books: as it sends no market orders, what it was   *)
(* told, or is about to be told, of an order is all that was filled of it       *)
(* (AllTold), and its inventory is the signed sum of that (Counting).  Leans:   *)
(* its quotes are around the reservation price, while it places them (Quoting)  *)
(* and as long as they rest (Anchored), which is where a fresh one would be     *)
(* whenever on_event has returned from a snapshot (Near).                       *)
EXTENDS AvellanedaStoikov, TwoSidedQuotesProofs

\* Any positive price may be asked for: the reservation price is unbounded.
AnyPrice == Nat \ {0} \subseteq Prices

AllTold == \A id \in DOMAIN orders : Announced(id) = orders[id].filled_size

Counting == inventory = Signed(notified)

Books ==
    /\ market_fills = NoFills
    /\ pc = "raised" => to_notify = {}
    /\ AllTold
    /\ Counting

\* Where the handler may put its reservation price.
Centres == {ReservationPrice(risk) : risk \in RiskOf(mid_history)}

Memory ==
    /\ mid_history \in Seq(Int)
    /\ last_reservation \in Int \cup {None}
    /\ last_reservation # None \/ todo # <<>> => Len(mid_history) >= 2

Quoting ==
    todo # <<>> =>
       /\ Mid # None
       /\ reservation \in Centres
       /\ quote["BUY"] + quote["SELL"] = 2 * reservation

Anchored ==
    todo = <<>> =>
       IF last_reservation = None
         THEN own = NoQuote
         ELSE /\ own["BUY"] # None /\ own["SELL"] # None
              /\ orders[own["BUY"]].price + orders[own["SELL"]].price = 2 * last_reservation

Near ==
    pc = "collect" /\ event.kind = "snapshot" /\ Mid # None /\ last_reservation # None =>
       \E centre \in Centres : Distance(centre, last_reservation) <= RepostThreshold

Leans == Memory /\ Quoting /\ Anchored /\ Near

ASInv == Inv /\ QuoteInv /\ Books /\ Leans

--------------------------------------------------------------------------------
(* What quantities come to, bought less sold.                                   *)

By(os, totals) ==
    [id \in DOMAIN totals |-> IF os[id].side = "BUY" THEN totals[id] ELSE -totals[id]]

LEMMA ByFacts ==
    ASSUME NEW os, NEW totals, Quantities(totals)
    PROVE  \A id : /\ At(By(os, totals), id)
                        = IF os[id].side = "BUY" THEN At(totals, id) ELSE -At(totals, id)
                   /\ At(By(os, totals), id) \in Int
<1>1. \A id \in DOMAIN totals : totals[id] \in Nat
  BY DEF Quantities
<1> QED
  BY <1>1 DEF By, At

LEMMA SignedAlike ==
    ASSUME Inv, NEW a, Quantities(a), NEW b, Quantities(b),
           \A id \in DOMAIN orders : At(a, id) = At(b, id)
    PROVE  Signed(a) = Signed(b) /\ Signed(a) \in Int
<1>1. next_id - 1 \in Nat /\ DOMAIN orders = 1 .. (next_id - 1)
  BY FillsTyped
<1>2. \A id : At(By(orders, a), id) \in Int /\ At(By(orders, b), id) \in Int
  BY ByFacts
<1>3. \A id \in 1 .. (next_id - 1) : At(By(orders, a), id) = At(By(orders, b), id)
  BY <1>1, ByFacts
<1>4. SumTo(By(orders, a), next_id - 1) = SumTo(By(orders, b), next_id - 1)
  BY <1>1, <1>2, <1>3, SumToSame
<1>5. SumTo(By(orders, a), next_id - 1) \in Int
  BY <1>1, <1>2, SumToFacts
<1> QED
  BY <1>4, <1>5 DEF Signed, By

\* Steps that tell the strategy nothing; a new order has no fill it was told of.
LEMMA CountKept ==
    ASSUME Inv, notified' = notified, next_id' \in {next_id, next_id + 1},
           \A id \in DOMAIN orders : orders'[id].side = orders[id].side
    PROVE  Signed(notified)' = Signed(notified)
<1> DEFINE before == By(orders, notified)
           after  == By(orders', notified)
<1>1. /\ Signed(notified) = SumTo(before, next_id - 1)
      /\ Signed(notified)' = SumTo(after, next_id' - 1)
  BY DEF Signed, By, SumTo, At
<1>2. /\ next_id - 1 \in Nat /\ next_id \in Int /\ DOMAIN orders = 1 .. (next_id - 1)
      /\ DOMAIN notified \subseteq DOMAIN orders
  BY FillsTyped, NotifiedTyped DEF Inv, OrderInv, OrderTypeOK
<1>3. Quantities(notified)
  BY NotifiedTyped
<1>4. \A id : /\ At(before, id) \in Int /\ At(after, id) \in Int
              /\ id \notin DOMAIN notified => At(after, id) = 0
  BY <1>3, ByFacts DEF At
<1>5. \A id \in 1 .. (next_id - 1) : At(before, id) = At(after, id)
  BY <1>2, <1>3, ByFacts
<1> HIDE DEF before, after
<1>6. SumTo(before, next_id - 1) = SumTo(after, next_id - 1)
  BY <1>2, <1>4, <1>5, SumToSame
<1>7. SumTo(after, (next_id - 1) + 1) = SumTo(after, next_id - 1) + At(after, (next_id - 1) + 1)
  BY <1>2, <1>4, SumToFacts
<1>8. SumTo(after, next_id - 1) \in Int
  BY <1>2, <1>4, SumToFacts
<1>9. (next_id - 1) + 1 = next_id /\ (next_id + 1) - 1 = next_id
  BY <1>2
<1>10. At(after, next_id) = 0
  BY <1>2, <1>4
<1>11. SumTo(after, next_id) = SumTo(after, next_id - 1)
  BY <1>7, <1>8, <1>9, <1>10
<1> QED
  BY <1>1, <1>6, <1>9, <1>11

\* on_fill adds what it is given.
LEMMA CountFill ==
    ASSUME Inv, NEW id \in to_notify, CallOnFill(id)
    PROVE  /\ Signed(notified)' = Signed(notified)
                + (IF orders[id].side = "BUY" THEN fills[id] ELSE -fills[id])
           /\ Signed(notified) \in Int /\ fills[id] \in Nat
<1> DEFINE fill   == [i \in {id} |-> fills[i]]
           before == By(orders, notified)
           more   == By(orders, fill)
           after  == By(orders, Added(notified, fill))
<1>1. UNCHANGED <<orders, next_id>> /\ notified' = Added(notified, fill)
  BY DEF CallOnFill
<1>2. id \in DOMAIN fills /\ fills[id] \in Nat /\ id \in DOMAIN orders
  BY DEF Inv, LoopTypeOK, PerOrder, Idle
<1>3. next_id - 1 \in Nat /\ id \in 1 .. (next_id - 1)
  BY <1>2, FillsTyped
<1>4. Quantities(fill) /\ \A i : At(fill, i) = IF i = id THEN fills[id] ELSE 0
  BY <1>2 DEF Quantities, At
<1>5. /\ Signed(notified) = SumTo(before, next_id - 1)
      /\ Signed(notified)' = SumTo(after, next_id - 1)
  BY <1>1 DEF Signed, By, SumTo, At
<1> HIDE DEF fill
<1>6. Quantities(notified)
  BY NotifiedTyped
<1>7. /\ Quantities(Added(notified, fill))
      /\ \A i : At(Added(notified, fill), i) = At(notified, i) + At(fill, i)
  BY <1>4, <1>6, AddedFacts
<1>8. \A i : At(before, i) \in Int /\ At(more, i) \in Int /\ At(after, i) \in Int
  BY <1>4, <1>6, <1>7, ByFacts
<1>9. ASSUME NEW i
      PROVE  At(after, i) = At(before, i) + At(more, i)
  <2>1. At(notified, i) \in Nat /\ At(fill, i) \in Nat
    BY <1>4, <1>6, AtNat
  <2>2. /\ At(before, i) = IF orders[i].side = "BUY" THEN At(notified, i) ELSE -At(notified, i)
        /\ At(more, i) = IF orders[i].side = "BUY" THEN At(fill, i) ELSE -At(fill, i)
        /\ At(after, i) = IF orders[i].side = "BUY" THEN At(Added(notified, fill), i)
                                                    ELSE -At(Added(notified, fill), i)
    BY <1>4, <1>6, <1>7, ByFacts
  <2> QED
    BY <1>7, <2>1, <2>2
<1>10. /\ At(more, id) = IF orders[id].side = "BUY" THEN fills[id] ELSE -fills[id]
       /\ \A i : i # id => At(more, i) = 0
  BY <1>4, ByFacts
<1> HIDE DEF before, more, after
<1>11. SumTo(more, next_id - 1) = At(more, id)
  BY <1>3, <1>8, <1>10, SumToSingle
<1>12. SumTo(after, next_id - 1) = SumTo(before, next_id - 1) + SumTo(more, next_id - 1)
  BY <1>3, <1>8, <1>9, SumToPlus
<1>13. SumTo(before, next_id - 1) \in Int
  BY <1>3, <1>8, SumToFacts
<1> QED
  BY <1>2, <1>5, <1>10, <1>11, <1>12, <1>13

--------------------------------------------------------------------------------
(* What the strategy was told, and its inventory.                               *)

LEMMA BooksAfter ==
    ASSUME Inv, Books, market_fills' = NoFills, pc' = "raised" => to_notify' = {},
           AllTold', inventory' = Signed(notified)'
    PROVE  Books'
  BY DEF Books, Counting

LEMMA EngineBooks ==
    ASSUME Inv, Books, Loop \/ NotifyFill \/ Return, pc' # "raised",
           inventory' = Signed(notified)'
    PROVE  Books'
<1>1. market_fills' = NoFills
  BY DEF Books, NoFills, Loop, Receive, Work, NotifyFill, TakeSnapshot, TakeTrade,
     StartEvent, EndOfStream, StreamFails, MatchOrder, EndMatch, RecordFills, CallOnFill,
     CallOnEvent, Return, CollectMarketFills, MatchList, Applied, AllNotified, Unvisited
<1>2. AllTold'
  BY EngineTells DEF Books, AllTold, Tells
<1> QED
  BY <1>1, <1>2, BooksAfter

\* The loop, but for the calls of on_fill, does not touch what was told.
LEMMA QuietBooks ==
    ASSUME Inv, Books, Loop \/ Return, pc' # "raised", UNCHANGED inventory
    PROVE  Books'
<1>1. notified' = notified /\ next_id' = next_id
  BY DEF Loop, Receive, Work, TakeSnapshot, TakeTrade, StartEvent, EndOfStream, StreamFails,
     MatchOrder, MatchFill, MatchSkip, FullFill, PartialFill, EndMatch, RecordFills,
     CallOnEvent, Return, CollectMarketFills, MatchList, Applied, AllNotified, Unvisited,
     VolumeLeft
<1>2. \A id \in DOMAIN orders : orders'[id].side = orders[id].side
  BY LoopOrders
<1>3. Signed(notified)' = Signed(notified)
  BY <1>1, <1>2, CountKept
<1> QED
  BY <1>3, EngineBooks DEF Books, Counting

LEMMA OnFillBooks ==
    ASSUME Inv, Books, NEW id \in to_notify, OnFill(id)
    PROVE  Books'
<1>1. CallOnFill(id) /\ pc' # "raised"
  BY DEF OnFill, CallOnFill
<1>2. /\ Signed(notified)' = Signed(notified)
            + (IF orders[id].side = "BUY" THEN fills[id] ELSE -fills[id])
      /\ Signed(notified) \in Int /\ fills[id] \in Nat
  BY <1>1, CountFill
<1>3. inventory' = IF orders[id].side = "BUY" THEN Signed(notified) + fills[id]
                                              ELSE Signed(notified) - fills[id]
  BY DEF OnFill, Counted, Books, Counting
<1>4. inventory' = Signed(notified)'
  BY <1>2, <1>3
<1> QED
  BY <1>1, <1>4, EngineBooks DEF NotifyFill

\* The calls of the handler fill nothing.
LEMMA QuoteCallRecords ==
    ASSUME Inv, QuoteInv, QuoteInv', QuoteStep
    PROVE  /\ UNCHANGED <<fills, to_notify, notified, market_fills, logged, recorded>>
           /\ {pc, pc'} \subseteq {"in_on_event", "raised"}
           /\ pc' = pc \/ pc = "in_on_event"
           /\ next_id' \in {next_id, next_id + 1}
           /\ DOMAIN orders \subseteq DOMAIN orders'
           /\ \A id \in DOMAIN orders :
                 /\ orders'[id].side = orders[id].side
                 /\ orders'[id].filled_size = orders[id].filled_size
           /\ \A id \in DOMAIN orders' \ DOMAIN orders : orders'[id].filled_size = 0
<1>1. PICK side \in Sides : CancelQuote(side) \/ PlaceQuote(side) \/ CallRaises
  BY DEF QuoteStep, Sides
<1>2. /\ UNCHANGED <<fills, to_notify, notified, market_fills, logged, recorded>>
      /\ pc' = pc \/ pc = "in_on_event"
  <2>1. todo # <<>>
    BY <1>1 DEF CancelQuote, PlaceQuote, CallRaises
  <2>2. pc = "in_on_event" \/ pc = "raised"
    BY <2>1 DEF QuoteInv, Replacing
  <2> QED
    BY <1>1, <2>2 DEF CancelQuote, CtxCancel, PlaceQuote, CtxPlace, CallRaises, Raise,
       ContextCall, InCallback, vars, loopvars
<1>3. pc \in {"in_on_event", "raised"}
  BY <1>1 DEF CancelQuote, PlaceQuote, CallRaises, QuoteInv, Replacing
<1>4. pc' \in {"in_on_event", "raised"}
  BY <1>1, <1>3 DEF CancelQuote, CtxCancel, PlaceQuote, CtxPlace, CallRaises, Raise,
     ContextCall, vars, loopvars
<1>5. \A id \in DOMAIN orders : orders[id] \in OrderType
  BY InvRecords DEF Inv
<1>6. CASE UNCHANGED <<orders, next_id>>
  BY <1>2, <1>3, <1>4, <1>6
<1>7. ASSUME NEW id \in DOMAIN orders, Cancel(id)
      PROVE  /\ next_id' = next_id /\ DOMAIN orders' = DOMAIN orders
             /\ \A i \in DOMAIN orders :
                   /\ orders'[i].side = orders[i].side
                   /\ orders'[i].filled_size = orders[i].filled_size
  <2>1. orders' = [orders EXCEPT ![id].status = "CANCELLED"] /\ next_id' = next_id
    BY <1>7 DEF Cancel
  <2> QED
    BY <1>5, <2>1 DEF OrderType
<1>8. ASSUME NEW o, Insert(o), o.filled_size = 0
      PROVE  /\ next_id' = next_id + 1 /\ DOMAIN orders' = DOMAIN orders \cup {next_id}
             /\ \A i \in DOMAIN orders : orders'[i] = orders[i]
             /\ orders'[next_id].filled_size = 0
  <2>1. next_id \notin DOMAIN orders
    BY InvRecords DEF Inv
  <2> QED
    BY <1>8, <2>1 DEF Insert, Put
<1>9. \/ UNCHANGED <<orders, next_id>>
      \/ \E id \in DOMAIN orders : Cancel(id)
      \/ \E o : Insert(o) /\ o.filled_size = 0
  <2>1. CASE CancelQuote(side)
    BY <2>1 DEF CancelQuote, CtxCancel, Cancel, vars
  <2>2. CASE PlaceQuote(side)
    <3>1. NewOrder(side, quote[side], QuoteSize, n).filled_size = 0
      BY DEF NewOrder
    <3>2. Insert(NewOrder(side, quote[side], QuoteSize, n))
      BY <2>2 DEF PlaceQuote, CtxPlace, Place
    <3> QED
      BY <3>1, <3>2
  <2>3. CASE CallRaises
    BY <2>3 DEF CallRaises, Raise
  <2> QED
    BY <1>1, <2>1, <2>2, <2>3
<1>10. CASE \E id \in DOMAIN orders : Cancel(id)
  BY <1>2, <1>3, <1>4, <1>7, <1>10
<1>11. CASE \E o : Insert(o) /\ o.filled_size = 0
  BY <1>2, <1>3, <1>4, <1>8, <1>11
<1> QED
  BY <1>6, <1>9, <1>10, <1>11

LEMMA QuoteCallBooks ==
    ASSUME Inv, QuoteInv, QuoteInv', Books, QuoteStep, UNCHANGED inventory
    PROVE  Books'
<1>1. market_fills' = NoFills
  BY QuoteCallRecords DEF Books, NoFills
<1>2. pc' = "raised" => to_notify' = {}
  BY QuoteCallRecords DEF Books, Inv, Scope
<1>3. ASSUME NEW id \in DOMAIN orders'
      PROVE  Announced(id)' = orders'[id].filled_size
  <2>1. Announced(id)' = Announced(id)
    BY QuoteCallRecords DEF Announced, Due, At
  <2>2. CASE id \in DOMAIN orders
    BY <2>1, <2>2, QuoteCallRecords DEF Books, AllTold
  <2>3. CASE id \notin DOMAIN orders
    <3>1. Announced(id) = 0
      BY <2>3, QuoteCallRecords, NotifiedTyped, TotalsTyped DEF Announced, Due, At
    <3> QED
      BY <1>3, <2>1, <2>3, <3>1, QuoteCallRecords
  <2> QED
    BY <2>2, <2>3
<1>4. AllTold'
  BY <1>3 DEF AllTold
<1>5. Signed(notified)' = Signed(notified)
  BY QuoteCallRecords, CountKept
<1> QED
  BY <1>1, <1>2, <1>4, <1>5, BooksAfter DEF Books, Counting

\* Outside the matching of an event, inventory and records say the same.
LEMMA InventoryIsPosition ==
    ASSUME Inv, QuoteInv, Books, pc \in {"in_on_event", "collect"} \/ todo # <<>>
    PROVE  inventory = Position /\ inventory \in Int
<1> DEFINE filled == [id \in DOMAIN orders |-> orders[id].filled_size]
<1>1. to_notify = {} /\ pc \notin {"match", "log"}
  BY DEF Inv, Scope, Books, QuoteInv, Replacing
<1>2. ASSUME NEW id \in DOMAIN orders
      PROVE  At(notified, id) = At(filled, id)
  <2>1. At(notified, id) \in Nat
    BY NotifiedTyped
  <2> QED
    BY <1>1, <2>1 DEF Books, AllTold, Announced, Due, At
<1>3. Quantities(filled)
  <2>1. \A id \in DOMAIN orders : orders[id].filled_size \in Nat
    BY InvRecords DEF Inv, OrderType, Coherent
  <2> QED
    BY <2>1 DEF Quantities
<1>4. Position = Signed(filled)
  BY DEF Position
<1> HIDE DEF filled
<1>5. Signed(notified) = Signed(filled) /\ Signed(notified) \in Int
  BY <1>2, <1>3, NotifiedTyped, SignedAlike
<1> QED
  BY <1>4, <1>5 DEF Books, Counting

--------------------------------------------------------------------------------
(* Where the quotes are.                                                        *)

LEMMA MidFacts ==
    ASSUME Inv, Mid # None
    PROVE  Mid \in Int
<1>1. book.bid # None /\ book.ask # None
  BY DEF Mid
<1> QED
  BY <1>1, MidKnown

LEMMA AppendedFacts ==
    ASSUME NEW window \in Seq(Int), NEW max, NEW entry \in Int
    PROVE  /\ Appended(window, max, entry) \in Seq(Int)
           /\ Len(window) >= 2 => Len(Appended(window, max, entry)) >= 2
<1> DEFINE all == Append(window, entry)
<1>1. all \in Seq(Int) /\ Len(all) = Len(window) + 1 /\ Len(window) \in Nat
  BY AppendProperties, LenProperties
<1>2. all # <<>>
  BY <1>1, EmptySeq
<1>3. Tail(all) \in Seq(Int) /\ Len(Tail(all)) = Len(window)
  <2> HIDE DEF all
  <2> QED
    BY <1>1, <1>2, HeadTailProperties
<1>4. Appended(window, max, entry) = all \/ Appended(window, max, entry) = Tail(all)
  BY DEF Appended
<1> HIDE DEF all
<1>5. CASE Appended(window, max, entry) = all
  BY <1>1, <1>5
<1>6. CASE Appended(window, max, entry) = Tail(all)
  BY <1>3, <1>6
<1> QED
  BY <1>4, <1>5, <1>6

\* The inventory component is not negative, and zero only after a steady mid.
LEMMA RiskFacts ==
    ASSUME NEW mids, NEW risk \in RiskOf(mids)
    PROVE  risk \in Nat /\ (~Steady(mids) => risk > 0)
  BY StoikovAssumption DEF RiskOf

LEMMA CentreFacts ==
    ASSUME inventory \in Int, Mid \in Int, NEW centre \in Centres
    PROVE  /\ centre \in Int
           /\ inventory > 0 => centre <= Mid /\ (~Steady(mid_history) => centre < Mid)
           /\ inventory < 0 => centre >= Mid /\ (~Steady(mid_history) => centre > Mid)
<1>1. PICK risk \in RiskOf(mid_history) : centre = Mid - inventory * risk
  BY DEF Centres, ReservationPrice
<1>2. risk \in Nat /\ (~Steady(mid_history) => risk > 0)
  BY RiskFacts
<1>3. \A a, r \in Int : /\ a > 0 /\ r >= 0 => a * r >= 0
                        /\ a > 0 /\ r > 0 => a * r > 0
                        /\ a < 0 /\ r >= 0 => a * r <= 0
                        /\ a < 0 /\ r > 0 => a * r < 0
  OBVIOUS
<1>4. inventory * risk \in Int
  BY <1>2
<1>5. /\ inventory > 0 => inventory * risk >= 0
                          /\ (~Steady(mid_history) => inventory * risk > 0)
      /\ inventory < 0 => inventory * risk <= 0
                          /\ (~Steady(mid_history) => inventory * risk < 0)
  BY <1>2, <1>3
<1> QED
  BY <1>1, <1>4, <1>5

\* The engine and on_fill leave the quotes where they are.
LEMMA QuietLeans ==
    ASSUME Inv, QuoteInv, Leans, todo = <<>>, pc' # "collect", Loop \/ NotifyFill \/ Return,
           UNCHANGED <<own, quote, todo, mid_history, last_reservation, reservation>>
    PROVE  Leans'
<1>1. Memory'
  BY DEF Leans, Memory
<1>2. ASSUME last_reservation # None, NEW side \in Sides
      PROVE  own[side] # None => orders'[own[side]].price = orders[own[side]].price
  BY LoopOrders DEF QuoteInv, Tracking, OfSide
<1>3. Anchored'
  BY <1>2 DEF Leans, Anchored, NoQuote, Sides
<1> QED
  BY <1>1, <1>3 DEF Leans, Quoting, Near

\* An event without a mid, or a trade: the quotes are kept.
LEMMA PassLeans ==
    ASSUME Inv, QuoteInv, Leans, Deciding, Return,
           Mid = None \/ event.kind = "trade",
           UNCHANGED <<own, quote, todo, mid_history, last_reservation, reservation>>
    PROVE  Leans'
<1>1. Memory'
  BY DEF Leans, Memory
<1>2. UNCHANGED <<orders, event, book>> /\ todo = <<>>
  BY DEF Return, Deciding
<1>3. Anchored'
  BY <1>2 DEF Leans, Anchored, NoQuote
<1>4. ~(event'.kind = "snapshot" /\ Mid' # None)
  BY <1>2 DEF Mid
<1> QED
  BY <1>1, <1>2, <1>3, <1>4 DEF Leans, Quoting, Near

LEMMA OnMidFacts ==
    ASSUME Inv, Leans, OnMid
    PROVE  /\ Mid # None /\ Mid \in Int /\ todo = <<>> /\ pc = "in_on_event"
           /\ event.kind = "snapshot"
           /\ mid_history' \in Seq(Int)
           /\ last_reservation # None => Len(mid_history') >= 2
           /\ UNCHANGED <<inventory, trade_deltas, last_reservation>>
<1>1. /\ Mid # None /\ todo = <<>> /\ pc = "in_on_event" /\ event.kind = "snapshot"
      /\ mid_history' = Appended(mid_history, SigmaWindow, Mid)
      /\ UNCHANGED <<inventory, trade_deltas, last_reservation>>
  BY DEF OnMid, Deciding
<1>2. Mid \in Int
  BY <1>1, MidFacts
<1>3. /\ mid_history' \in Seq(Int)
      /\ Len(mid_history) >= 2 => Len(mid_history') >= 2
  BY <1>1, <1>2, AppendedFacts DEF Leans, Memory
<1> QED
  BY <1>1, <1>2, <1>3 DEF Leans, Memory

\* A quote is kept when a fresh one would be near it.
LEMMA KeepQuotesStep ==
    ASSUME Inv, QuoteInv, Books, Leans, KeepQuotes
    PROVE  Leans' /\ Return
<1>1. /\ OnMid /\ Return /\ UNCHANGED <<own, quote, todo, reservation, orders, event, book>>
  BY DEF KeepQuotes, Return, quotevars
<1>2. /\ Mid # None /\ Mid \in Int /\ todo = <<>> /\ pc = "in_on_event"
      /\ mid_history' \in Seq(Int)
      /\ last_reservation # None => Len(mid_history') >= 2
      /\ UNCHANGED <<inventory, last_reservation>>
  BY <1>1, OnMidFacts
<1>3. Mid' = Mid /\ inventory \in Int
  BY <1>1, <1>2, InventoryIsPosition DEF Mid
<1>4. Memory'
  BY <1>1, <1>2 DEF Leans, Memory
<1>5. Anchored' /\ Quoting'
  <2>1. Anchored'
    BY <1>1, <1>2 DEF Leans, Anchored, NoQuote
  <2>2. Quoting'
    BY <1>1, <1>2 DEF Quoting
  <2> QED
    BY <2>1, <2>2
<1>6. ASSUME last_reservation # None
      PROVE  \E centre \in Centres' : Distance(centre, last_reservation) <= RepostThreshold
  <2>1. PICK risk \in RiskOf(mid_history') : ~Moved(ReservationPrice(risk))
    BY <1>2, <1>6 DEF KeepQuotes
  <2> DEFINE centre == Mid - inventory * risk
  <2>2. ~(Distance(centre, last_reservation) > RepostThreshold)
    BY <1>6, <2>1 DEF Moved, ReservationPrice
  <2>3. centre \in Centres'
    BY <1>2, <1>3 DEF Centres, ReservationPrice
  <2>4. centre \in Int
    BY <1>2, <1>3, RiskFacts
  <2>5. Distance(centre, last_reservation) \in Int /\ RepostThreshold \in Int
    <3> HIDE DEF centre
    <3> QED
      BY <1>6, <2>4, StoikovAssumption DEF Distance, Leans, Memory
  <2>6. Distance(centre, last_reservation) <= RepostThreshold
    <3> HIDE DEF centre
    <3> QED
      BY <2>2, <2>5
  <2> QED
    BY <2>3, <2>6
<1>7. Near'
  BY <1>2, <1>6 DEF Near, Distance
<1> QED
  BY <1>1, <1>4, <1>5, <1>7 DEF Leans

\* The handler takes a reservation price and puts its quotes around it.
LEMMA ReplaceQuotesStep ==
    ASSUME Inv, QuoteInv, Books, Leans, ReplaceQuotes
    PROVE  QuoteInv' /\ Leans' /\ UNCHANGED vars /\ UNCHANGED inventory
<1>1. PICK risk \in RiskOf(mid_history'), arrival \in ArrivalOf(trade_deltas) :
         LET half == (risk + arrival) \div 2 IN
            /\ reservation' = ReservationPrice(risk)
            /\ Moved(reservation')
            /\ Requote([side \in Sides |-> IF side = "BUY" THEN reservation' - half
                                                           ELSE reservation' + half])
  BY DEF ReplaceQuotes
<1> DEFINE half   == (risk + arrival) \div 2
           prices == [side \in Sides |-> IF side = "BUY" THEN reservation' - half
                                                         ELSE reservation' + half]
<1>2. /\ OnMid /\ Len(mid_history') >= 2 /\ reservation' = Mid - inventory * risk
      /\ Requote(prices) /\ Deciding
  BY <1>1 DEF ReplaceQuotes, OnMid, ReservationPrice
<1>3. /\ Mid # None /\ Mid \in Int /\ todo = <<>> /\ pc = "in_on_event"
      /\ mid_history' \in Seq(Int)
      /\ UNCHANGED <<inventory, last_reservation>>
  BY <1>2, OnMidFacts
<1>4. quote' = prices /\ UNCHANGED vars /\ UNCHANGED <<pc, book, event>>
  BY <1>2 DEF Requote, vars, loopvars
<1>5. Mid' = Mid /\ inventory \in Int
  BY <1>3, <1>4, InventoryIsPosition DEF Mid
<1>6. risk \in Nat /\ arrival \in Nat
  BY RiskFacts, StoikovAssumption DEF ArrivalOf
<1>7. half \in Int
  BY <1>6
<1>8. reservation' \in Int
  <2>1. inventory * risk \in Int
    BY <1>5, <1>6
  <2> QED
    BY <1>2, <1>3, <2>1
<1> HIDE DEF half
<1>9. /\ prices \in [Sides -> Int]
      /\ prices["BUY"] = reservation' - half /\ prices["SELL"] = reservation' + half
  BY <1>7, <1>8 DEF Sides
<1>10. prices["BUY"] + prices["SELL"] = 2 * reservation'
  BY <1>7, <1>8, <1>9
<1> HIDE DEF prices
<1>11. QuoteInv' /\ todo' # <<>>
  BY <1>2, <1>9, RequoteStep
<1>12. reservation' \in Centres'
  BY <1>2, <1>3, <1>5 DEF Centres, ReservationPrice
<1>13. Quoting'
  BY <1>3, <1>4, <1>5, <1>10, <1>12 DEF Quoting
<1>14. Memory'
  BY <1>2, <1>3 DEF Leans, Memory
<1>15. Anchored' /\ Near'
  BY <1>3, <1>4, <1>11 DEF Anchored, Near
<1> QED
  BY <1>3, <1>4, <1>11, <1>13, <1>14, <1>15 DEF Leans

LEMMA QuotesAskable ==
    ASSUME AnyPrice, QuoteInv
    PROVE  Askable
  BY DEF AnyPrice, Askable, QuoteInv, Replacing

LEMMA QuoteCallStep ==
    ASSUME AnyPrice, Inv, QuoteInv, Leans, QuoteStep, UNCHANGED asvars
    PROVE  QuoteInv' /\ Leans' /\ (UNCHANGED vars \/ Strategy)
<1>1. todo # <<>>
  BY DEF QuoteStep, CancelQuote, PlaceQuote, CallRaises
<1> DEFINE Advanced == /\ QuoteInv' /\ todo' # <<>> /\ quote' = quote
                       /\ UNCHANGED vars \/ Strategy
                       /\ UNCHANGED book /\ (UNCHANGED pc \/ pc' = "raised")
<1>2. Advanced
  <2>1. ASSUME NEW side \in Sides, CancelQuote(side)
        PROVE  Advanced
    <3>1. UNCHANGED vars => UNCHANGED <<pc, book>>
      BY DEF vars, loopvars
    <3> QED
      BY <2>1, <3>1, CancelQuoteStep
  <2>2. ASSUME NEW side \in Sides, PlaceQuote(side)
        PROVE  Advanced
    BY <2>2, PlaceQuoteStep, QuotesAskable
  <2>3. ASSUME CallRaises
        PROVE  Advanced
    BY <2>3, CallRaisesStep
  <2> QED
    BY <2>1, <2>2, <2>3 DEF QuoteStep
<1>3. UNCHANGED <<inventory, mid_history, last_reservation, reservation>> /\ Mid' = Mid
  BY <1>2 DEF asvars, Mid
<1>4. Centres' = Centres
  BY <1>3 DEF Centres, ReservationPrice
<1>5. Quoting'
  BY <1>1, <1>2, <1>3, <1>4 DEF Leans, Quoting
<1>6. Memory'
  BY <1>1, <1>2, <1>3 DEF Leans, Memory
<1>7. pc' # "collect"
  BY <1>1, <1>2 DEF QuoteInv, Replacing
<1>8. Anchored' /\ Near'
  BY <1>2, <1>7 DEF Anchored, Near
<1> QED
  BY <1>2, <1>5, <1>6, <1>8 DEF Leans

LEMMA FinishQuotesStep ==
    ASSUME Inv, QuoteInv, Books, Leans, FinishQuotes
    PROVE  QuoteInv' /\ Leans' /\ Return /\ UNCHANGED inventory
<1>1. QuoteInv' /\ Turn = 5 /\ todo' = <<>> /\ Return
  BY EndQuotesStep DEF FinishQuotes
<1>2. /\ todo # <<>> /\ last_reservation' = reservation
      /\ UNCHANGED <<own, orders, book, inventory, mid_history>>
  BY DEF FinishQuotes, EndQuotes, Return
<1>3. /\ Mid # None /\ Mid \in Int /\ reservation \in Centres
      /\ quote["BUY"] + quote["SELL"] = 2 * reservation
  BY <1>2, MidFacts DEF Leans, Quoting
<1>4. inventory \in Int
  BY <1>2, InventoryIsPosition
<1>5. reservation \in Int /\ reservation # None
  BY <1>3, <1>4, CentreFacts, BacktestAssumption
<1>6. ASSUME NEW side \in Sides
      PROVE  own[side] # None /\ orders[own[side]].price = quote[side]
  <2>1. own[side] \in Active /\ orders[own[side]].price = quote[side]
    BY <1>1, <1>2 DEF QuoteInv, Replaced, PlaceTurn
  <2> QED
    BY <2>1, OwnFacts DEF Active
<1>7. Anchored'
  BY <1>2, <1>3, <1>5, <1>6 DEF Anchored, Sides
<1>8. Centres' = Centres
  BY <1>2 DEF Centres, ReservationPrice, Mid
<1>9. Distance(reservation, reservation) <= RepostThreshold
  BY <1>5, StoikovAssumption DEF Distance
<1>10. Near'
  BY <1>2, <1>3, <1>8, <1>9 DEF Near, Distance
<1>11. Memory'
  BY <1>2, <1>5 DEF Leans, Memory
<1> QED
  BY <1>1, <1>2, <1>7, <1>10, <1>11 DEF Leans, Quoting

--------------------------------------------------------------------------------
LEMMA StillBooks ==
    ASSUME Inv, Books, UNCHANGED vars, UNCHANGED inventory
    PROVE  Books'
<1>1. UNCHANGED <<orders, next_id, pc, fills, to_notify, notified, market_fills>>
  BY DEF vars, loopvars
<1>2. Signed(notified)' = Signed(notified)
  BY <1>1, CountKept
<1>3. AllTold'
  BY <1>1 DEF Books, AllTold, Announced, Due, At
<1> QED
  BY <1>1, <1>2, <1>3, BooksAfter DEF Books, Counting, NoFills

LEMMA ASInvStep ==
    ASSUME AnyPrice, ASInv, [ASNext]_allvars
    PROVE  ASInv' /\ [Next]_vars
<1> DEFINE Good == QuoteInv' /\ Books' /\ Leans' /\ [Next]_vars
<1> SUFFICES Good
  BY InvStep DEF ASInv
<1>1. CASE Loop /\ UNCHANGED <<quotevars, asvars>>
  <2>1. pc \notin {"in_on_event", "raised"} /\ pc' # "collect"
    BY <1>1 DEF Loop, Receive, Work, TakeSnapshot, TakeTrade, StartEvent,
       EndOfStream, StreamFails, MatchOrder, EndMatch, RecordFills, CallOnEvent,
       CollectMarketFills, MatchList, Applied, AllNotified, Unvisited
  <2>2. todo = <<>> /\ UNCHANGED quotevars
        /\ UNCHANGED <<own, quote, todo, inventory, mid_history, last_reservation, reservation>>
    BY <1>1, <2>1 DEF ASInv, QuoteInv, Replacing, quotevars, asvars
  <2>3. QuoteInv' /\ pc' # "raised"
    BY <1>1, <2>2, QuietQuotes DEF ASInv
  <2>4. Books'
    BY <1>1, <2>2, <2>3, QuietBooks DEF ASInv
  <2>5. Leans'
    BY <1>1, <2>1, <2>2, QuietLeans DEF ASInv
  <2> QED
    BY <1>1, <2>3, <2>4, <2>5 DEF Next
<1>2. ASSUME NEW id \in to_notify, OnFill(id)
      PROVE  Good
  <2>1. NotifyFill /\ pc = "notify" /\ pc' # "collect" /\ UNCHANGED quotevars
        /\ UNCHANGED <<own, quote, todo, mid_history, last_reservation, reservation>>
    BY <1>2 DEF OnFill, CallOnFill, NotifyFill, quotevars
  <2>2. todo = <<>>
    BY <2>1 DEF ASInv, QuoteInv, Replacing
  <2>3. QuoteInv'
    BY <2>1, <2>2, QuietQuotes DEF ASInv
  <2>4. Books'
    BY <1>2, OnFillBooks DEF ASInv
  <2>5. Leans'
    BY <2>1, <2>2, QuietLeans DEF ASInv
  <2> QED
    BY <2>1, <2>3, <2>4, <2>5 DEF Next
<1>3. CASE pc = "in_on_fill" /\ Return /\ UNCHANGED <<quotevars, asvars>>
  <2>1. todo = <<>> /\ pc' # "collect" /\ UNCHANGED quotevars
        /\ UNCHANGED <<own, quote, todo, inventory, mid_history, last_reservation, reservation>>
    BY <1>3 DEF ASInv, QuoteInv, Replacing, quotevars, asvars, Return
  <2>2. QuoteInv' /\ pc' # "raised"
    BY <1>3, <2>1, QuietQuotes DEF ASInv
  <2>3. Books'
    BY <1>3, <2>1, <2>2, QuietBooks DEF ASInv
  <2>4. Leans'
    BY <1>3, <2>1, QuietLeans DEF ASInv
  <2> QED
    BY <1>3, <2>2, <2>3, <2>4 DEF Next, Strategy
<1>4. CASE IgnoreEvent \/ OnTrade
  <2>1. /\ Deciding /\ Return /\ (Mid = None \/ event.kind = "trade")
        /\ UNCHANGED quotevars
        /\ UNCHANGED <<own, quote, todo, inventory, mid_history, last_reservation, reservation>>
    BY <1>4 DEF IgnoreEvent, OnTrade, quotevars, asvars
  <2>2. QuoteInv' /\ pc' # "raised"
    BY <2>1, QuietQuotes DEF ASInv, Deciding
  <2>3. Books'
    BY <2>1, <2>2, QuietBooks DEF ASInv
  <2>4. Leans'
    BY <2>1, PassLeans DEF ASInv
  <2> QED
    BY <2>1, <2>2, <2>3, <2>4 DEF Next, Strategy
<1>5. CASE KeepQuotes
  <2>1. Leans' /\ Return
    BY <1>5, KeepQuotesStep DEF ASInv
  <2>2. Deciding /\ UNCHANGED quotevars /\ UNCHANGED inventory
    BY <1>5 DEF KeepQuotes, OnMid
  <2>3. QuoteInv' /\ pc' # "raised"
    BY <2>1, <2>2, QuietQuotes DEF ASInv, Deciding
  <2>4. Books'
    BY <2>1, <2>2, <2>3, QuietBooks DEF ASInv
  <2> QED
    BY <2>1, <2>3, <2>4 DEF Next, Strategy
<1>6. CASE ReplaceQuotes
  BY <1>6, ReplaceQuotesStep, StillBooks DEF ASInv
<1>7. CASE QuoteStep /\ UNCHANGED asvars
  <2>1. QuoteInv' /\ Leans' /\ (UNCHANGED vars \/ Strategy)
    BY <1>7, QuoteCallStep DEF ASInv
  <2>2. Books'
    BY <1>7, <2>1, QuoteCallBooks DEF ASInv, asvars
  <2> QED
    BY <2>1, <2>2 DEF Next
<1>8. CASE FinishQuotes
  <2>1. QuoteInv' /\ Leans' /\ Return /\ UNCHANGED inventory
    BY <1>8, FinishQuotesStep DEF ASInv
  <2>2. pc' # "raised"
    BY <2>1 DEF Return
  <2>3. Books'
    BY <2>1, <2>2, QuietBooks DEF ASInv
  <2> QED
    BY <2>1, <2>3 DEF Next, Strategy
<1>9. CASE UNCHANGED allvars
  <2>1. /\ UNCHANGED vars /\ UNCHANGED quotevars /\ UNCHANGED <<orders, pc, book, event>>
        /\ UNCHANGED <<own, quote, todo, inventory, mid_history, last_reservation, reservation>>
    BY <1>9 DEF allvars, vars, loopvars, quotevars, asvars
  <2>2. Mid' = Mid /\ Centres' = Centres
    BY <2>1 DEF Mid, Centres, ReservationPrice
  <2>3. Memory' /\ Quoting'
    BY <2>1, <2>2 DEF ASInv, Leans, Memory, Quoting
  <2>4. Anchored' /\ Near'
    BY <2>1, <2>2 DEF ASInv, Leans, Anchored, Near, NoQuote, Distance
  <2> QED
    BY <2>1, <2>3, <2>4, StillQuotes, StillBooks DEF ASInv, Leans
<1> QED
  BY <1>1, <1>2, <1>3, <1>4, <1>5, <1>6, <1>7, <1>8, <1>9 DEF ASNext

LEMMA ASInvInit == ASInit => ASInv
<1> SUFFICES ASSUME ASInit
             PROVE  ASInv
  OBVIOUS
<1>1. /\ Inv /\ own = NoQuote /\ quote = NoQuote /\ todo = <<>> /\ inventory = 0
      /\ mid_history = <<>> /\ last_reservation = None
      /\ pc = "next" /\ Active = {} /\ DOMAIN orders = {}
      /\ notified = NoFills /\ market_fills = NoFills /\ next_id = 1
  BY InitInv DEF ASInit, QuoteInit, NoQuote, Init, OrderInit, Active
<1>2. QuoteInv
  <2>1. todo = SubSeq(Calls, 6, 5)
    BY <1>1, SubSeqEmpty
  <2>2. Tracking
    BY <1>1 DEF Tracking, NoQuote
  <2> QED
    BY <1>1, <2>1, <2>2 DEF QuoteInv, Remaining, Replacing, Replaced, Rejected
<1>3. Counting
  <2>1. \A id : At(By(orders, notified), id) = 0
    BY <1>1 DEF By, At, NoFills
  <2>2. SumTo(By(orders, notified), next_id - 1) = 0
    BY <1>1, <2>1, SumToNothing
  <2> QED
    BY <1>1, <2>2 DEF Counting, Signed, By
<1>4. Memory
  BY <1>1, EmptySeq DEF Memory
<1> QED
  BY <1>1, <1>2, <1>3, <1>4 DEF ASInv, Books, AllTold, Leans, Quoting, Anchored, Near

--------------------------------------------------------------------------------
(* What the recorder is fed: with two-sided quotes there is a mid before there  *)
(* is an order, although the stream may start with trades.                      *)

Recorded ==
    /\ \A id : At(recorded, id) = At(logged, id)
    /\ Mid = None => DOMAIN orders = {}

LEMMA RecordedStep ==
    ASSUME TwoSided, Inv, Recorded, [Next]_vars, DOMAIN orders' = DOMAIN orders \/ Mid # None
    PROVE  Recorded'
<1>1. ASSUME NEW fs, Quantities(fs), DOMAIN fs \subseteq DOMAIN orders, LogAndRecord(fs)
      PROVE  \A id : At(recorded', id) = At(logged', id)
  <2>1. \A id : /\ At(Added(logged, fs), id) = At(logged, id) + At(fs, id)
                /\ At(Added(recorded, fs), id) = At(recorded, id) + At(fs, id)
    BY <1>1, TotalsTyped, AddedFacts
  <2>2. CASE Mid = None
    <3>1. \A id : At(fs, id) = 0 /\ At(logged, id) \in Nat
      BY <1>1, <2>2, TotalsTyped DEF Recorded, At
    <3>2. recorded' = recorded /\ logged' = Added(logged, fs)
      BY <1>1, <2>2 DEF LogAndRecord
    <3> QED
      BY <2>1, <3>1, <3>2 DEF Recorded
  <2>3. CASE Mid # None
    BY <1>1, <2>1, <2>3 DEF LogAndRecord, Recorded
  <2> QED
    BY <2>2, <2>3
<1>2. ASSUME UNCHANGED <<logged, recorded>>
      PROVE  \A id : At(recorded', id) = At(logged', id)
  BY <1>2 DEF Recorded, At
<1>3. ASSUME RecordFills \/ CollectMarketFills
      PROVE  \A id : At(recorded', id) = At(logged', id)
  BY <1>1, <1>3, TotalsTyped DEF RecordFills, CollectMarketFills
<1>4. ASSUME StrategyCall
      PROVE  \A id : At(recorded', id) = At(logged', id)
  BY <1>2, <1>4, CallRecords DEF ContextCall
<1>5. \A id : At(recorded', id) = At(logged', id)
  BY <1>2, <1>3, <1>4 DEF Next, Loop, Receive, Work, NotifyFill, Strategy, TakeSnapshot,
     TakeTrade, StartEvent, EndOfStream, StreamFails, MatchOrder, EndMatch, CallOnFill,
     CallOnEvent, Return, Raise, MatchList, AllNotified, Unvisited, Applied, vars, loopvars,
     Recorded
<1>6. ASSUME NEW e \in Snapshots, TakeSnapshot(e)
      PROVE  Mid' # None
  <2>1. PICK q \in Quotes : book' = [bid |-> q.bid, ask |-> q.ask]
    BY <1>6 DEF TakeSnapshot, Snapshots, Applied
  <2>2. q.bid # None /\ q.ask # None /\ q.bid \in Int /\ q.ask \in Int
    BY BacktestAssumption, OrderAssumption DEF TwoSided, MarketPrices
  <2>3. Mid' = (q.bid + q.ask) \div 2
    BY <2>1, <2>2 DEF Mid
  <2>4. (q.bid + q.ask) \div 2 \in Int
    BY <2>2
  <2> QED
    BY <2>3, <2>4, BacktestAssumption
<1>7. CASE UNCHANGED book
  <2>1. Mid' = Mid
    BY <1>7 DEF Mid
  <2> QED
    BY <1>5, <2>1 DEF Recorded
<1>8. CASE \E e \in Snapshots : TakeSnapshot(e)
  BY <1>5, <1>6, <1>8 DEF Recorded
<1>9. CASE StrategyCall
  BY <1>7, <1>9, CallRecords DEF ContextCall
<1> QED
  BY <1>7, <1>8, <1>9 DEF Next, Loop, Receive, Work, NotifyFill, Strategy, TakeTrade,
     StartEvent, EndOfStream, StreamFails, MatchOrder, EndMatch, RecordFills, CallOnFill,
     CallOnEvent, Return, Raise, CollectMarketFills, MatchList, AllNotified, Unvisited,
     vars, loopvars

\* An order is entered only when there is a mid.
LEMMA OrdersNeedMid ==
    ASSUME ASInv, [ASNext]_allvars
    PROVE  DOMAIN orders' = DOMAIN orders \/ Mid # None
<1>1. CASE Loop \/ NotifyFill \/ Return
  BY <1>1, LoopOrders DEF ASInv
<1>2. CASE QuoteStep \/ ReplaceQuotes
  BY <1>2 DEF QuoteStep, CancelQuote, PlaceQuote, CallRaises, ReplaceQuotes, OnMid,
     ASInv, Leans, Quoting
<1>3. CASE UNCHANGED allvars
  BY <1>3 DEF allvars, vars
<1> QED
  BY <1>1, <1>2, <1>3 DEF ASNext, OnFill, NotifyFill, IgnoreEvent, OnTrade, KeepQuotes,
     FinishQuotes, EndQuotes

--------------------------------------------------------------------------------
LEMMA ASInvariance ==
    ASSUME AnyPrice
    PROVE  ASSpec => []ASInv
<1>1. ASInv /\ [ASNext]_allvars => ASInv'
  BY ASInvStep
<1> QED
  BY <1>1, ASInvInit, PTL DEF ASSpec

\* A run of the strategy is a run of Backtest: all that is proved of Backtest
\* holds of it (avellaneda_stoikov.py uses the context and nothing else).
THEOREM StoikovIsAStrategy ==
    ASSUME AnyPrice
    PROVE  ASSpec => BacktestSpec
<1>1. ASInit => Init
  BY DEF ASInit
<1>2. ASInv /\ [ASNext]_allvars => [Next]_vars
  BY ASInvStep
<1> QED
  BY <1>1, <1>2, ASInvariance, PTL DEF ASSpec, BacktestSpec, Spec

\* No quote is lost (avellaneda_stoikov.py:185-194): an active order is the one
\* remembered for its side, and what is remembered was never cancelled.
THEOREM StoikovLosesNoQuote ==
    ASSUME AnyPrice
    PROVE  ASSpec => []QuotesTracked
<1>1. ASInv => QuotesTracked
  BY QuotesAreTracked DEF ASInv
<1> QED
  BY <1>1, ASInvariance, PTL

\* No cancel ends a run here either (avellaneda_stoikov.py:185-194): an exception
\* of a call leaves run only for a price that is not positive.
THEOREM StoikovRaisesExplained ==
    ASSUME AnyPrice
    PROVE  ASSpec => []RaisesOnPriceOnly
<1>1. ASInv => RaisesOnPriceOnly
  BY RaisesAreExplained DEF ASInv
<1> QED
  BY <1>1, ASInvariance, PTL

\* The inventory counted in on_fill, what the orders say was filled and what the
\* recorder was fed are one position (avellaneda_stoikov.py:101-104, recorder.py),
\* when every snapshot has both sides.
THEOREM InventoryIsRight ==
    ASSUME AnyPrice, TwoSided
    PROVE  ASSpec => []InventoryAgrees
<1>1. ASInit => Recorded
  BY NoFillsFacts DEF ASInit, Init, OrderInit, Recorded
<1>2. ASInv /\ Recorded /\ [ASNext]_allvars => Recorded'
  BY ASInvStep, RecordedStep, OrdersNeedMid DEF ASInv
<1>3. ASSUME ASInv, Recorded, Conservation, pc = "in_on_event"
      PROVE  inventory = Position /\ inventory = Signed(recorded)
  <2> DEFINE filled == [id \in DOMAIN orders |-> orders[id].filled_size]
  <2>1. inventory = Position
    BY <1>3, InventoryIsPosition DEF ASInv
  <2>2. ASSUME NEW id \in DOMAIN orders
        PROVE  At(recorded, id) = At(filled, id)
    <3>1. /\ orders[id].filled_size = At(logged, id) + At(market_fills, id) + 0
          /\ market_fills = NoFills /\ At(logged, id) \in Nat
      BY <1>3, TotalsTyped DEF Conservation, ASInv, Books
    <3>2. orders[id].filled_size = At(recorded, id)
      BY <1>3, <3>1, NoFillsFacts DEF Recorded
    <3> QED
      BY <3>2 DEF At
  <2>3. Quantities(filled)
    <3>1. \A id \in DOMAIN orders : orders[id].filled_size \in Nat
      BY <1>3, InvRecords DEF ASInv, Inv, OrderType, Coherent
    <3> QED
      BY <3>1 DEF Quantities
  <2>4. Position = Signed(filled)
    BY DEF Position
  <2> HIDE DEF filled
  <2>5. Signed(filled) = Signed(recorded)
    BY <1>3, <2>2, <2>3, TotalsTyped, SignedAlike DEF ASInv
  <2> QED
    BY <2>1, <2>4, <2>5
<1>4. ASInv /\ Recorded /\ Conservation => InventoryAgrees
  BY <1>3 DEF InventoryAgrees
<1>5. ASSpec => Spec
  BY StoikovIsAStrategy DEF BacktestSpec
<1> QED
  BY <1>1, <1>2, <1>4, <1>5, ASInvariance, FillsConserved, PTL DEF ASSpec

\* Quotes lean against the position, when they are placed and as long as they
\* rest (avellaneda_stoikov.py:128-145), when every snapshot has both sides.
THEOREM QuotesLeanAgainstPosition ==
    ASSUME AnyPrice, TwoSided
    PROVE  ASSpec => []QuotesLean
<1>1. ASInit => Recorded
  BY NoFillsFacts DEF ASInit, Init, OrderInit, Recorded
<1>2. ASInv /\ Recorded /\ [ASNext]_allvars => Recorded'
  BY ASInvStep, RecordedStep, OrdersNeedMid DEF ASInv
<1>3. ASSUME ASInv, quote["BUY"] # None
      PROVE  Lean(quote["BUY"] + quote["SELL"], 0, ~Steady(mid_history))
  <2>1. todo # <<>>
    BY <1>3 DEF ASInv, QuoteInv, Replacing, NoQuote, Sides
  <2>2. /\ Mid \in Int /\ reservation \in Centres
        /\ quote["BUY"] + quote["SELL"] = 2 * reservation
    BY <1>3, <2>1, MidFacts DEF ASInv, Leans, Quoting
  <2>3. inventory = Position /\ inventory \in Int
    BY <1>3, <2>1, InventoryIsPosition DEF ASInv
  <2>4. /\ reservation \in Int
        /\ Position > 0 => reservation <= Mid /\ (~Steady(mid_history) => reservation < Mid)
        /\ Position < 0 => reservation >= Mid /\ (~Steady(mid_history) => reservation > Mid)
    BY <2>2, <2>3, CentreFacts
  <2> QED
    BY <2>2, <2>4 DEF Lean
<1>4. ASSUME ASInv, Recorded, pc = "collect", event.kind = "snapshot",
             NEW buy \in Active, NEW sell \in Active,
             orders[buy].side = "BUY", orders[sell].side = "SELL"
      PROVE  Lean(orders[buy].price + orders[sell].price, RepostThreshold, FALSE)
  <2>1. Mid # None /\ Mid \in Int
    BY <1>4, MidFacts DEF ASInv, Recorded, Active
  <2>2. /\ todo = <<>> /\ own["BUY"] = buy /\ own["SELL"] = sell
        /\ buy # None
    BY <1>4, OwnFacts DEF ASInv, QuoteInv, Replacing
  <2>3. /\ last_reservation \in Int /\ last_reservation # None
        /\ orders[buy].price + orders[sell].price = 2 * last_reservation
    <3>1. last_reservation # None
      BY <1>4, <2>2 DEF ASInv, Leans, Anchored, NoQuote, Sides
    <3> QED
      BY <1>4, <2>2, <3>1 DEF ASInv, Leans, Anchored, Memory
  <2>4. PICK centre \in Centres : Distance(centre, last_reservation) <= RepostThreshold
    BY <1>4, <2>1, <2>3 DEF ASInv, Leans, Near
  <2>5. inventory = Position /\ inventory \in Int
    BY <1>4, InventoryIsPosition DEF ASInv
  <2>6. /\ centre \in Int
        /\ Position > 0 => centre <= Mid
        /\ Position < 0 => centre >= Mid
    BY <2>1, <2>5, CentreFacts
  <2>7. RepostThreshold \in Int
    BY StoikovAssumption
  <2>8. /\ Position > 0 => last_reservation <= Mid + RepostThreshold
        /\ Position < 0 => last_reservation >= Mid - RepostThreshold
    BY <2>1, <2>3, <2>4, <2>6, <2>7 DEF Distance
  <2> QED
    BY <2>1, <2>3, <2>7, <2>8 DEF Lean
<1>5. ASInv /\ Recorded => QuotesLean
  BY <1>3, <1>4 DEF QuotesLean
<1> QED
  BY <1>1, <1>2, <1>5, ASInvariance, PTL DEF ASSpec
================================================================================
