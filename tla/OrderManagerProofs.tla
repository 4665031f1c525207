-------------------------- MODULE OrderManagerProofs --------------------------
(* Proofs about the order manager, for every set of prices and sizes and for    *)
(* any number of orders.  The inductive invariant is OrderInv: the ids in use   *)
(* are 1 .. next_id - 1, and every record is coherent.                          *)
EXTENDS OrderManager, TLAPS

OrderInv == OrderTypeOK /\ StatusCoherence

\* One record is coherent: the body of StatusCoherence.
Coherent(o) ==
    /\ o.size > 0 /\ o.price > 0
    /\ 0 <= o.filled_size /\ o.filled_size <= o.size
    /\ o.status = "FILLED" <=> o.filled_size = o.size
    /\ o.status = "NEW" => o.filled_size = 0
    /\ o.status = "PARTIALLY_FILLED" => o.filled_size > 0

\* What inserting a record does to the dict: one new key, the old ones as before.
LEMMA InsertFacts ==
    ASSUME OrderTypeOK, NEW o \in OrderType, Insert(o)
    PROVE  /\ next_id' = next_id + 1
           /\ next_id' \in Nat \ {0}
           /\ orders' \in [1 .. (next_id' - 1) -> OrderType]
           /\ DOMAIN orders' = DOMAIN orders \cup {next_id}
           /\ next_id \notin DOMAIN orders
           /\ orders'[next_id] = o
           /\ \A id \in DOMAIN orders : orders'[id] = orders[id]
<1>1. /\ next_id \in Nat \ {0}
      /\ DOMAIN orders = 1 .. (next_id - 1)
      /\ \A id \in DOMAIN orders : orders[id] \in OrderType
      /\ next_id' = next_id + 1
  BY DEF OrderTypeOK, Insert
<1>2. orders' = [k \in DOMAIN orders \cup {next_id} |->
                   IF k = next_id THEN o ELSE orders[k]]
  BY DEF Insert, Put
<1>3. DOMAIN orders' = 1 .. (next_id' - 1)
  BY <1>1, <1>2
<1> QED
  BY <1>1, <1>2, <1>3

\* A new resting order is typed and coherent.
LEMMA NewOrderFacts ==
    ASSUME NEW side \in Sides, NEW price \in Int, NEW size \in Int, NEW ts \in Times,
           size > 0, price > 0
    PROVE  /\ NewOrder(side, price, size, ts) \in OrderType
           /\ Coherent(NewOrder(side, price, size, ts))
<1> DEFINE o == NewOrder(side, price, size, ts)
<1>1. /\ o.size = size /\ o.price = price /\ o.filled_size = 0 /\ o.status = "NEW"
      /\ o \in OrderType
  BY DEF NewOrder, OrderType, Statuses
<1> HIDE DEF o
<1>2. Coherent(o)
  BY <1>1 DEF Coherent
<1> QED
  BY <1>1, <1>2 DEF o

\* A market order's record, filled at once, is typed and coherent.
LEMMA MarketOrderFacts ==
    ASSUME NEW side \in Sides, NEW price \in Int, NEW size \in Int, NEW ts \in Times,
           size > 0, price > 0,
           NEW o, o = [NewOrder(side, price, size, ts) EXCEPT
                         !.filled_size = size, !.status = "FILLED"]
    PROVE  o \in OrderType /\ Coherent(o)
<1>1. o = [side |-> side, price |-> price, size |-> size, ts |-> ts,
           status |-> "FILLED", filled_size |-> size]
  BY DEF NewOrder
<1>2. o.size = size /\ o.price = price /\ o.filled_size = size /\ o.status = "FILLED"
  BY DEF NewOrder
<1>3. o \in OrderType
  BY <1>1 DEF OrderType, Statuses
<1>4. Coherent(o)
  BY <1>2 DEF Coherent
<1> QED
  BY <1>3, <1>4

\* What the steps do to one order that is already there: n is what becomes of o.
OrderStep(o, n) ==
    /\ n \in OrderType /\ Coherent(n)
    /\ n.side = o.side /\ n.price = o.price /\ n.size = o.size /\ n.ts = o.ts
    /\ n.filled_size >= o.filled_size
    /\ ~IsActive(o) => n = o

\* Only status and filled_size of an active order change: what that needs to be
\* a step of the order.
LEMMA FieldsStep ==
    ASSUME NEW o \in OrderType, Coherent(o), IsActive(o),
           NEW status \in Statuses, NEW filled_size \in Int,
           o.filled_size <= filled_size, filled_size <= o.size,
           status = "FILLED" <=> filled_size = o.size,
           status # "NEW",
           status = "PARTIALLY_FILLED" => filled_size > 0
    PROVE  OrderStep(o, [o EXCEPT !.filled_size = filled_size, !.status = status])
<1> DEFINE n == [o EXCEPT !.filled_size = filled_size, !.status = status]
<1>1. n \in OrderType
  BY DEF OrderType
<1>2. /\ n.side = o.side /\ n.price = o.price /\ n.size = o.size /\ n.ts = o.ts
      /\ n.filled_size = filled_size /\ n.status = status
  BY DEF OrderType
<1>3. o.size \in Int /\ o.filled_size \in Int /\ o.price \in Int
  BY DEF OrderType
<1> HIDE DEF n
<1>4. Coherent(n)
  BY <1>2, <1>3 DEF Coherent
<1>5. OrderStep(o, n)
  BY <1>1, <1>2, <1>3, <1>4 DEF OrderStep
<1> QED
  BY <1>5 DEF n

\* A cancelled order is coherent and keeps its fills.
LEMMA CancelStep ==
    ASSUME NEW o \in OrderType, Coherent(o), IsActive(o)
    PROVE  OrderStep(o, [o EXCEPT !.status = "CANCELLED"])
<1>1. [o EXCEPT !.status = "CANCELLED"]
        = [o EXCEPT !.filled_size = o.filled_size, !.status = "CANCELLED"]
  BY DEF OrderType
<1>2. o.filled_size \in Int /\ o.size \in Int /\ o.filled_size # o.size
      /\ o.filled_size <= o.size
  BY DEF OrderType, Coherent, IsActive
<1>3. PICK status, filled_size : status = "CANCELLED" /\ filled_size = o.filled_size
  OBVIOUS
<1>4. /\ status \in Statuses /\ status # "NEW"
      /\ status = "PARTIALLY_FILLED" => filled_size > 0
      /\ status = "FILLED" <=> filled_size = o.size
      /\ filled_size \in Int /\ o.filled_size <= filled_size /\ filled_size <= o.size
  BY <1>2, <1>3 DEF Statuses
<1>5. OrderStep(o, [o EXCEPT !.filled_size = filled_size, !.status = status])
  BY <1>4, FieldsStep
<1> QED
  BY <1>1, <1>3, <1>5

\* A full fill leaves a coherent order.
LEMMA FullFillStep ==
    ASSUME NEW o \in OrderType, Coherent(o), IsActive(o)
    PROVE  OrderStep(o, [o EXCEPT !.filled_size = o.size, !.status = "FILLED"])
<1>1. o.filled_size \in Int /\ o.size \in Int /\ o.filled_size <= o.size
  BY DEF OrderType, Coherent
<1>2. PICK status, filled_size : status = "FILLED" /\ filled_size = o.size
  OBVIOUS
<1>3. /\ status \in Statuses /\ status # "NEW" /\ status # "PARTIALLY_FILLED"
      /\ status = "FILLED" <=> filled_size = o.size
      /\ filled_size \in Int /\ o.filled_size <= filled_size /\ filled_size <= o.size
  BY <1>1, <1>2 DEF Statuses
<1>4. OrderStep(o, [o EXCEPT !.filled_size = filled_size, !.status = status])
  BY <1>3, FieldsStep
<1> QED
  BY <1>2, <1>4

\* A partial fill of at most the remaining size leaves a coherent order.
LEMMA PartialFillStep ==
    ASSUME NEW o \in OrderType, Coherent(o), IsActive(o),
           NEW q \in 1 .. RemainingSize(o)
    PROVE  OrderStep(o, [o EXCEPT !.filled_size = o.filled_size + q,
                                  !.status = IF o.size - (o.filled_size + q) <= 0
                                               THEN "FILLED" ELSE "PARTIALLY_FILLED"])
<1> DEFINE status == IF o.size - (o.filled_size + q) <= 0
                       THEN "FILLED" ELSE "PARTIALLY_FILLED"
<1>1. /\ o.filled_size \in Int /\ o.size \in Int /\ 0 <= o.filled_size
      /\ q \in Int /\ 1 <= q /\ q <= o.size - o.filled_size
  BY DEF OrderType, Coherent, RemainingSize
<1>2. /\ status \in Statuses /\ status # "NEW"
      /\ status = "FILLED" <=> o.filled_size + q = o.size
  BY <1>1 DEF Statuses
<1>3. o.filled_size + q \in Int /\ o.filled_size + q > 0
      /\ o.filled_size <= o.filled_size + q /\ o.filled_size + q <= o.size
  BY <1>1
<1> HIDE DEF status
<1>4. OrderStep(o, [o EXCEPT !.filled_size = o.filled_size + q, !.status = status])
  BY <1>2, <1>3, FieldsStep
<1> QED
  BY <1>4 DEF status

--------------------------------------------------------------------------------
\* A step on the dict: no order is lost and each takes a step of its own.
OrdersStep ==
    \A id \in DOMAIN orders :
       id \in DOMAIN orders' /\ OrderStep(orders[id], orders'[id])

\* The invariant in terms of single records.
LEMMA InvRecords ==
    OrderInv <=> /\ next_id \in Nat \ {0}
                 /\ orders \in [1 .. (next_id - 1) -> OrderType]
                 /\ \A id \in DOMAIN orders : Coherent(orders[id])
  BY DEF OrderInv, OrderTypeOK, StatusCoherence, Coherent

\* Doing nothing is a step of a coherent order.
LEMMA StutterStep ==
    ASSUME NEW o \in OrderType, Coherent(o)
    PROVE  OrderStep(o, o)
  BY DEF OrderStep, OrderType

\* One order takes a step, the others stay.
LEMMA OneOrderStep ==
    ASSUME OrderInv, NEW id \in DOMAIN orders, NEW o, OrderStep(orders[id], o),
           orders' = [orders EXCEPT ![id] = o], UNCHANGED next_id
    PROVE  OrderInv' /\ OrdersStep
<1>1. /\ next_id \in Nat \ {0}
      /\ orders \in [1 .. (next_id - 1) -> OrderType]
      /\ \A i \in DOMAIN orders : orders[i] \in OrderType /\ Coherent(orders[i])
  BY InvRecords
<1>2. o \in OrderType /\ Coherent(o)
  BY DEF OrderStep
<1>3. \A i \in DOMAIN orders : OrderStep(orders[i], orders'[i])
  BY <1>1, StutterStep
<1>4. DOMAIN orders' = DOMAIN orders
  OBVIOUS
<1>5. orders' \in [1 .. (next_id' - 1) -> OrderType]
  BY <1>1, <1>2
<1>6. \A i \in DOMAIN orders' : Coherent(orders'[i])
  BY <1>1, <1>2, <1>4
<1>7. OrderInv'
  BY <1>1, <1>5, <1>6 DEF OrderInv, OrderTypeOK, StatusCoherence, Coherent
<1> QED
  BY <1>3, <1>4, <1>7 DEF OrdersStep

\* A coherent record is inserted, the others stay.
LEMMA InsertStep ==
    ASSUME OrderInv, NEW o \in OrderType, Coherent(o), Insert(o)
    PROVE  OrderInv' /\ OrdersStep
<1>1. \A i \in DOMAIN orders : orders[i] \in OrderType /\ Coherent(orders[i])
  BY InvRecords
<1>2. /\ next_id' \in Nat \ {0}
      /\ orders' \in [1 .. (next_id' - 1) -> OrderType]
      /\ DOMAIN orders' = DOMAIN orders \cup {next_id}
      /\ orders'[next_id] = o
      /\ \A id \in DOMAIN orders : orders'[id] = orders[id]
  BY InsertFacts DEF OrderInv
<1>3. \A i \in DOMAIN orders' : Coherent(orders'[i])
  BY <1>1, <1>2
<1>4. OrderInv'
  BY <1>2, <1>3 DEF OrderInv, OrderTypeOK, StatusCoherence, Coherent
<1>5. OrdersStep
  BY <1>1, <1>2, StutterStep DEF OrdersStep
<1> QED
  BY <1>4, <1>5

\* Every step of the manager preserves the invariant and is a step of each order.
LEMMA OrderNextStep ==
    ASSUME OrderInv, [OrderNext]_ordervars
    PROVE  OrderInv' /\ OrdersStep
<1>1. /\ next_id \in Nat \ {0}
      /\ orders \in [1 .. (next_id - 1) -> OrderType]
      /\ \A i \in DOMAIN orders : orders[i] \in OrderType /\ Coherent(orders[i])
  BY InvRecords
<1>2. CASE UNCHANGED ordervars
  <2>1. OrdersStep
    BY <1>1, <1>2, StutterStep DEF OrdersStep, ordervars
  <2>2. OrderInv'
    BY <1>2 DEF OrderInv, OrderTypeOK, StatusCoherence, ordervars
  <2> QED
    BY <2>1, <2>2
<1>3. ASSUME NEW side \in Sides, NEW price \in Prices, NEW size \in Sizes,
             NEW ts \in Times, Place(side, price, size, ts)
      PROVE  OrderInv' /\ OrdersStep
  <2>1. price \in Int /\ size \in Int
    BY OrderAssumption
  <2> QED
    BY <1>3, <2>1, NewOrderFacts, InsertStep DEF Place
<1>4. ASSUME NEW side \in Sides, NEW price \in Prices, NEW size \in Sizes,
             NEW ts \in Times, ExecuteMarketOrder(side, price, size, ts)
      PROVE  OrderInv' /\ OrdersStep
  <2>1. price \in Int /\ size \in Int
    BY OrderAssumption
  <2>2. PICK o : /\ o = [NewOrder(side, price, size, ts) EXCEPT
                           !.filled_size = size, !.status = "FILLED"]
                 /\ Insert(o)
    BY <1>4 DEF ExecuteMarketOrder
  <2>3. o \in OrderType /\ Coherent(o)
    BY <1>4, <2>1, <2>2, MarketOrderFacts DEF ExecuteMarketOrder
  <2> QED
    BY <2>2, <2>3, InsertStep
<1>5. ASSUME NEW id \in DOMAIN orders, Cancel(id)
      PROVE  OrderInv' /\ OrdersStep
  <2>1. OrderStep(orders[id], [orders[id] EXCEPT !.status = "CANCELLED"])
    BY <1>1, <1>5, CancelStep DEF Cancel
  <2>2. orders' = [orders EXCEPT ![id] = [orders[id] EXCEPT !.status = "CANCELLED"]]
    BY <1>5 DEF Cancel
  <2> QED
    BY <1>5, <2>1, <2>2, OneOrderStep DEF Cancel
<1>6. ASSUME CancelAll
      PROVE  OrderInv' /\ OrdersStep
  <2>1. \A i \in DOMAIN orders : OrderStep(orders[i], orders'[i])
    BY <1>1, <1>6, CancelStep, StutterStep DEF CancelAll, Active
  <2>2. DOMAIN orders' = DOMAIN orders /\ next_id' = next_id
    BY <1>6 DEF CancelAll
  <2>3. \A i \in DOMAIN orders' : orders'[i] \in OrderType /\ Coherent(orders'[i])
    BY <2>1, <2>2 DEF OrderStep
  <2>4. orders' \in [1 .. (next_id' - 1) -> OrderType]
    BY <1>1, <1>6, <2>2, <2>3 DEF CancelAll
  <2>5. OrderInv'
    BY <1>1, <2>2, <2>3, <2>4 DEF OrderInv, OrderTypeOK, StatusCoherence, Coherent
  <2> QED
    BY <2>1, <2>2, <2>5 DEF OrdersStep
<1>7. ASSUME NEW id \in Active, FullFill(id)
      PROVE  OrderInv' /\ OrdersStep
  <2>1. id \in DOMAIN orders /\ IsActive(orders[id])
    BY DEF Active
  <2>2. OrderStep(orders[id], [orders[id] EXCEPT !.filled_size = orders[id].size,
                                                 !.status = "FILLED"])
    BY <1>1, <2>1, FullFillStep
  <2>3. orders' = [orders EXCEPT ![id] =
                     [orders[id] EXCEPT !.filled_size = orders[id].size,
                                        !.status = "FILLED"]]
    BY <1>7 DEF FullFill
  <2> QED
    BY <1>7, <2>1, <2>2, <2>3, OneOrderStep DEF FullFill
<1>8. ASSUME NEW id \in Active, NEW q \in 1 .. RemainingSize(orders[id]),
             PartialFill(id, q)
      PROVE  OrderInv' /\ OrdersStep
  <2> DEFINE o == [orders[id] EXCEPT
                     !.filled_size = orders[id].filled_size + q,
                     !.status = IF orders[id].size - (orders[id].filled_size + q) <= 0
                                  THEN "FILLED" ELSE "PARTIALLY_FILLED"]
  <2>1. id \in DOMAIN orders /\ IsActive(orders[id])
    BY DEF Active
  <2>2. OrderStep(orders[id], o)
    BY <1>1, <2>1, PartialFillStep
  <2>3. orders' = [orders EXCEPT ![id] = o]
    BY <1>8 DEF PartialFill
  <2> QED
    BY <1>8, <2>1, <2>2, <2>3, OneOrderStep DEF PartialFill
<1> QED
  BY <1>2, <1>3, <1>4, <1>5, <1>6, <1>7, <1>8 DEF OrderNext

LEMMA OrderInitInv == OrderInit => OrderInv
  BY DEF OrderInit, OrderInv, OrderTypeOK, StatusCoherence

--------------------------------------------------------------------------------
\* The invariant of the manager (orders/manager.py) under every sequence of its
\* operations.
THEOREM OrderInvariance == OrderSpec => []OrderInv
<1>1. OrderInit => OrderInv
  BY OrderInitInv
<1>2. OrderInv /\ [OrderNext]_ordervars => OrderInv'
  BY OrderNextStep
<1> QED
  BY <1>1, <1>2, PTL DEF OrderSpec

\* The ids in use are always exactly those handed out (manager.py:44-46).
THEOREM OrderTypeCorrect == OrderSpec => []OrderTypeOK
  BY OrderInvariance, PTL DEF OrderInv

\* Status and filled_size of every order agree (order.py:27-33, matcher.py:107-133,
\* context.py:138-139).
THEOREM OrdersCoherent == OrderSpec => []StatusCoherence
  BY OrderInvariance, PTL DEF OrderInv

\* No order is forgotten, revived or rewritten (order.py:3-4, manager.py:27-29).
THEOREM OrdersProgress == OrderSpec => OrdersOnlyProgress
<1>1. OrderInv /\ [OrderNext]_ordervars =>
        [\A id \in DOMAIN orders :
          /\ id \in DOMAIN orders'
          /\ LET o == orders[id]  n == orders'[id] IN
                /\ n.side = o.side /\ n.price = o.price
                /\ n.size = o.size /\ n.ts = o.ts
                /\ n.filled_size >= o.filled_size
                /\ ~IsActive(o) => n = o]_ordervars
  BY OrderNextStep DEF OrdersStep, OrderStep
<1> QED
  BY <1>1, OrderInvariance, PTL DEF OrderSpec, OrdersOnlyProgress

--------------------------------------------------------------------------------
(* The manager implements the ledger: one lemma per operation, on the view.     *)

LEMMA InsertView ==
    ASSUME OrderInv, NEW o \in OrderType, Insert(o)
    PROVE  /\ next_id \in 1 .. MaxOrders
           /\ next_id \notin DOMAIN LedgerView
           /\ LedgerView' = [i \in DOMAIN LedgerView \cup {next_id} |->
                              IF i = next_id THEN LedgerEntry(o) ELSE LedgerView[i]]
<1>1. /\ DOMAIN orders' = DOMAIN orders \cup {next_id}
      /\ next_id \notin DOMAIN orders
      /\ orders'[next_id] = o
      /\ \A id \in DOMAIN orders : orders'[id] = orders[id]
  BY InsertFacts DEF OrderInv
<1>2. next_id \in 1 .. MaxOrders
  BY OrderAssumption DEF OrderInv, OrderTypeOK, Insert
<1>3. DOMAIN LedgerView = DOMAIN orders
      /\ \A i \in DOMAIN orders : LedgerView[i] = LedgerEntry(orders[i])
  BY DEF LedgerView
<1>4. LedgerView' = [i \in DOMAIN orders' |-> LedgerEntry(orders'[i])]
  BY DEF LedgerView, LedgerEntry, IsActive
<1> QED
  BY <1>1, <1>2, <1>3, <1>4

\* A resting order is entered with nothing executed.
LEMMA PlaceView ==
    ASSUME OrderInv, NEW side \in Sides, NEW price \in Prices, NEW size \in Sizes,
           NEW ts \in Times, Place(side, price, size, ts)
    PROVE  Ledger!Next
<1> DEFINE o == NewOrder(side, price, size, ts)
           terms == [side |-> side, price |-> price, size |-> size, ts |-> ts]
<1>1. price \in Int /\ size \in Int /\ size > 0 /\ price > 0 /\ Insert(o)
  BY OrderAssumption DEF Place
<1>2. o \in OrderType
  BY <1>1, NewOrderFacts
<1>3. LedgerEntry(o) = [terms |-> terms, executed |-> 0, open |-> TRUE]
  BY DEF LedgerEntry, IsActive, NewOrder
<1>4. Ledger!Enter(next_id, terms, FALSE)
  BY <1>1, <1>2, <1>3, InsertView DEF Ledger!Enter
<1>5. terms \in [side : Sides, price : Prices, size : Sizes, ts : Times]
      /\ terms.size > 0
  BY <1>1
<1> QED
  BY <1>1, <1>2, <1>4, <1>5, InsertView DEF Ledger!Next

\* A market order is entered with everything executed.
LEMMA MarketOrderView ==
    ASSUME OrderInv, NEW side \in Sides, NEW price \in Prices, NEW size \in Sizes,
           NEW ts \in Times, ExecuteMarketOrder(side, price, size, ts)
    PROVE  Ledger!Next
<1> DEFINE terms == [side |-> side, price |-> price, size |-> size, ts |-> ts]
<1>1. price \in Int /\ size \in Int /\ size > 0 /\ price > 0
  BY OrderAssumption DEF ExecuteMarketOrder
<1>2. PICK o : /\ o = [NewOrder(side, price, size, ts) EXCEPT
                         !.filled_size = size, !.status = "FILLED"]
               /\ Insert(o)
  BY DEF ExecuteMarketOrder
<1>3. o \in OrderType
  BY <1>1, <1>2, MarketOrderFacts
<1>4. LedgerEntry(o) = [terms |-> terms, executed |-> size, open |-> FALSE]
  <2>1. /\ o.side = side /\ o.price = price /\ o.size = size /\ o.ts = ts
        /\ o.filled_size = size /\ o.status = "FILLED"
    BY <1>2 DEF NewOrder
  <2>2. IsActive(o) = FALSE
    BY <2>1 DEF IsActive
  <2> QED
    BY <2>1, <2>2 DEF LedgerEntry
<1>5. Ledger!Enter(next_id, terms, TRUE)
  BY <1>2, <1>3, <1>4, InsertView DEF Ledger!Enter
<1>6. terms \in [side : Sides, price : Prices, size : Sizes, ts : Times]
      /\ terms.size > 0
  BY <1>1
<1> QED
  BY <1>2, <1>3, <1>5, <1>6, InsertView DEF Ledger!Next

\* Cancelled orders are withdrawn, one or all.
LEMMA CancelView ==
    ASSUME OrderInv, NEW ids \in SUBSET Active, ids # {},
           orders' = [i \in DOMAIN orders |->
                        IF i \in ids THEN [orders[i] EXCEPT !.status = "CANCELLED"]
                                     ELSE orders[i]]
    PROVE  Ledger!Next
<1>1. /\ \A i \in DOMAIN orders : orders[i] \in OrderType
      /\ ids \subseteq DOMAIN orders
      /\ \A i \in ids : IsActive(orders[i])
  BY InvRecords DEF Active
<1>2. \A i \in ids : LedgerEntry(orders'[i]) =
                       [terms |-> LedgerEntry(orders[i]).terms,
                        executed |-> LedgerEntry(orders[i]).executed, open |-> FALSE]
  <2> TAKE i \in ids
  <2>1. orders'[i] = [orders[i] EXCEPT !.status = "CANCELLED"]
    BY <1>1
  <2>2. /\ orders'[i].side = orders[i].side /\ orders'[i].price = orders[i].price
        /\ orders'[i].size = orders[i].size /\ orders'[i].ts = orders[i].ts
        /\ orders'[i].filled_size = orders[i].filled_size
        /\ orders'[i].status = "CANCELLED"
    BY <1>1, <2>1 DEF OrderType
  <2>3. IsActive(orders'[i]) = FALSE
    BY <2>2 DEF IsActive
  <2> QED
    BY <2>2, <2>3 DEF LedgerEntry
<1>3. DOMAIN LedgerView = DOMAIN orders
      /\ \A i \in DOMAIN orders : LedgerView[i] = LedgerEntry(orders[i])
  BY DEF LedgerView
<1>4. LedgerView' = [i \in DOMAIN orders' |-> LedgerEntry(orders'[i])]
  BY DEF LedgerView, LedgerEntry, IsActive
<1>5. \A i \in ids : LedgerView[i].open
  BY <1>1, <1>3 DEF LedgerEntry
<1>6. Ledger!Withdraw(ids)
  BY <1>1, <1>2, <1>3, <1>4, <1>5 DEF Ledger!Withdraw
<1> QED
  BY <1>1, <1>3, <1>6 DEF Ledger!Next

\* A fill, full or partial, executes a positive part of what is open.
LEMMA FillView ==
    ASSUME OrderInv, NEW id \in Active, NEW q \in 1 .. RemainingSize(orders[id]),
           NEW status \in {"FILLED", "PARTIALLY_FILLED"},
           status = "FILLED" <=> orders[id].filled_size + q >= orders[id].size,
           orders' = [orders EXCEPT ![id] =
                        [orders[id] EXCEPT !.filled_size = orders[id].filled_size + q,
                                           !.status = status]]
    PROVE  Ledger!Next
<1> DEFINE o == orders[id]
           p == [o EXCEPT !.filled_size = o.filled_size + q, !.status = status]
           e == LedgerEntry(o)
<1>1. /\ id \in DOMAIN orders
      /\ o \in OrderType /\ IsActive(o)
  BY InvRecords DEF Active
<1>2. /\ o.size \in Int /\ o.filled_size \in Int /\ q \in Int
      /\ e.terms.size = o.size /\ e.executed = o.filled_size /\ e.open
  BY <1>1 DEF OrderType, LedgerEntry, RemainingSize
<1>3. /\ p.side = o.side /\ p.price = o.price /\ p.size = o.size /\ p.ts = o.ts
      /\ p.filled_size = o.filled_size + q /\ p.status = status
  BY <1>1 DEF OrderType
<1>4. IsActive(p) = (o.filled_size + q < o.size)
  BY <1>2, <1>3 DEF IsActive
<1>5. LedgerEntry(p) = [terms    |-> e.terms,
                        executed |-> e.executed + q,
                        open     |-> e.executed + q < e.terms.size]
  <2>1. LedgerEntry(p) = [terms |-> e.terms, executed |-> e.executed + q,
                          open |-> IsActive(p)]
    BY <1>2, <1>3 DEF LedgerEntry
  <2>2. IsActive(p) = (e.executed + q < e.terms.size)
    BY <1>2, <1>4
  <2> QED
    BY <2>1, <2>2, Zenon
<1>6. /\ DOMAIN LedgerView = DOMAIN orders
      /\ \A i \in DOMAIN orders : LedgerView[i] = LedgerEntry(orders[i])
  BY DEF LedgerView
<1>7. LedgerView' = [i \in DOMAIN orders' |-> LedgerEntry(orders'[i])]
  BY DEF LedgerView, LedgerEntry, IsActive
<1>8. LedgerView' = [LedgerView EXCEPT ![id] = LedgerEntry(p)]
  BY <1>1, <1>6, <1>7
<1>9. q \in 1 .. (LedgerView[id].terms.size - LedgerView[id].executed)
  BY <1>1, <1>2, <1>6 DEF RemainingSize
<1>10. Ledger!Execute(id, q)
  BY <1>1, <1>2, <1>5, <1>6, <1>8, <1>9 DEF Ledger!Execute
<1> QED
  BY <1>1, <1>6, <1>9, <1>10 DEF Ledger!Next

\* Every step of the manager is a step of the ledger or leaves it as it is.
LEMMA StepRefines ==
    ASSUME OrderInv, [OrderNext]_ordervars
    PROVE  [Ledger!Next]_LedgerView
<1>1. \A i \in DOMAIN orders : orders[i] \in OrderType /\ Coherent(orders[i])
  BY InvRecords
<1>2. CASE UNCHANGED ordervars
  BY <1>2 DEF ordervars, LedgerView, LedgerEntry, IsActive
<1>3. ASSUME NEW side \in Sides, NEW price \in Prices, NEW size \in Sizes,
             NEW ts \in Times,
             Place(side, price, size, ts) \/ ExecuteMarketOrder(side, price, size, ts)
      PROVE  Ledger!Next
  BY <1>3, PlaceView, MarketOrderView
<1>4. ASSUME NEW id \in DOMAIN orders, Cancel(id)
      PROVE  Ledger!Next
  <2>1. orders' = [i \in DOMAIN orders |->
                     IF i \in {id} THEN [orders[i] EXCEPT !.status = "CANCELLED"]
                                   ELSE orders[i]]
    BY <1>4 DEF Cancel
  <2>2. {id} \in SUBSET Active
    BY <1>4 DEF Cancel, Active
  <2> QED
    BY <2>1, <2>2, CancelView
<1>5. ASSUME CancelAll
      PROVE  Ledger!Next
  BY <1>5, CancelView DEF CancelAll
<1>6. ASSUME NEW id \in Active, FullFill(id)
      PROVE  Ledger!Next
  <2> DEFINE o == orders[id]
             q == RemainingSize(o)
  <2>1. /\ id \in DOMAIN orders /\ o \in OrderType /\ Coherent(o) /\ IsActive(o)
        /\ o.size \in Int /\ o.filled_size \in Int
    BY <1>1 DEF Active, OrderType
  <2>2. q \in 1 .. q /\ o.filled_size + q = o.size /\ q \in Int
    BY <2>1 DEF Coherent, IsActive, RemainingSize
  <2>3. orders' = [orders EXCEPT ![id] =
                     [o EXCEPT !.filled_size = o.size, !.status = "FILLED"]]
    BY <1>6 DEF FullFill
  <2>4. PICK status : status = "FILLED"
    OBVIOUS
  <2> HIDE DEF q
  <2>5. orders' = [orders EXCEPT ![id] =
                     [o EXCEPT !.filled_size = o.filled_size + q, !.status = status]]
    BY <2>2, <2>3, <2>4
  <2>6. /\ status \in {"FILLED", "PARTIALLY_FILLED"}
        /\ status = "FILLED" <=> o.filled_size + q >= o.size
    BY <2>1, <2>2, <2>4
  <2>7. q \in 1 .. RemainingSize(orders[id])
    BY <2>2 DEF q
  <2> QED
    BY <2>5, <2>6, <2>7, FillView
<1>7. ASSUME NEW id \in Active, NEW q \in 1 .. RemainingSize(orders[id]),
             PartialFill(id, q)
      PROVE  Ledger!Next
  <2> DEFINE status == IF orders[id].size - (orders[id].filled_size + q) <= 0
                         THEN "FILLED" ELSE "PARTIALLY_FILLED"
  <2>1. /\ id \in DOMAIN orders /\ orders[id] \in OrderType
        /\ orders[id].size \in Int /\ orders[id].filled_size \in Int /\ q \in Int
    BY <1>1 DEF Active, OrderType
  <2>2. orders' = [orders EXCEPT ![id] =
                     [orders[id] EXCEPT !.filled_size = orders[id].filled_size + q,
                                        !.status = status]]
    BY <1>7 DEF PartialFill
  <2>3. /\ status \in {"FILLED", "PARTIALLY_FILLED"}
        /\ status = "FILLED" <=> orders[id].filled_size + q >= orders[id].size
    BY <2>1
  <2> HIDE DEF status
  <2> QED
    BY <2>2, <2>3, FillView
<1> QED
  BY <1>2, <1>3, <1>4, <1>5, <1>6, <1>7 DEF OrderNext

\* The order manager implements the abstract ledger: whatever the writers do, an
\* order's terms stand, executions add up and a closed order stays closed.
THEOREM ManagerImplementsLedger == OrderSpec => LedgerSpec
<1>1. OrderInit => Ledger!Init
  BY DEF OrderInit, Ledger!Init, LedgerView
<1>2. OrderInv /\ [OrderNext]_ordervars => [Ledger!Next]_LedgerView
  BY StepRefines
<1> QED
  BY <1>1, <1>2, OrderInvariance, PTL DEF OrderSpec, LedgerSpec, Ledger!Spec
================================================================================
