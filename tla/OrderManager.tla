----------------------------- MODULE OrderManager -----------------------------
(* The order manager (orders/manager.py), the Order record (orders/order.py)    *)
(* and every place that writes to an Order: OrderManager.cancel, the matcher's  *)
(* _full_fill and _partial_fill (execution/matcher.py) and the market-order     *)
(* path of EngineContext (engine/context.py), which bypass the manager and      *)
(* assign status and filled_size directly.                                      *)
(*                                                                              *)
(* Data abstraction.  Prices and sizes are integers (ticks and lots): the code   *)
(* compares and subtracts them.  A timestamp is the position of the event that  *)
(* was being processed, which is non-decreasing as timestamps are and tells     *)
(* events of equal timestamp apart.                                             *)
EXTENDS Integers

CONSTANTS
    Prices,       \* prices a strategy may ask for, valid (> 0) or not
    Sizes,        \* sizes a strategy may ask for, valid (> 0) or not
    MaxOrders,    \* bound: orders placed in one behaviour
    MaxEvents     \* bound: events of the stream

ASSUME OrderAssumption ==
    /\ Prices \subseteq Int
    /\ Sizes \subseteq Int
    /\ MaxOrders \in Nat
    /\ MaxEvents \in Nat

VARIABLES
    orders,       \* OrderManager._orders, a dict from id to Order; its
                  \* insertion order is the order of the ids
    next_id       \* OrderManager._next_id

ordervars == <<orders, next_id>>

\* dict[key] = value
Put(dict, key, value) ==
    [k \in DOMAIN dict \cup {key} |-> IF k = key THEN value ELSE dict[k]]

Sides    == {"BUY", "SELL"}
Statuses == {"NEW", "PARTIALLY_FILLED", "FILLED", "CANCELLED"}
Times    == 0 .. MaxEvents

OrderType == [side : Sides, price : Int, size : Int, ts : Times,
              status : Statuses, filled_size : Int]

NewOrder(side, price, size, ts) ==
    [side |-> side, price |-> price, size |-> size, ts |-> ts,
     status |-> "NEW", filled_size |-> 0]

IsActive(order) == order.status \in {"NEW", "PARTIALLY_FILLED"}

RemainingSize(order) == order.size - order.filled_size

\* The ids OrderManager.active() yields, in ascending order.
Active == {id \in DOMAIN orders : IsActive(orders[id])}

--------------------------------------------------------------------------------
OrderInit == orders = [id \in {} |-> {}] /\ next_id = 1

\* Faulty variants (names ending in _Bad): each is a slip a change of the code
\* could make.  With one put in place of the definition after it, a property of
\* this development is violated; nothing else uses them.

Insert_Bad(order) ==               \* the id counter is not advanced
    /\ next_id <= MaxOrders
    /\ orders' = Put(orders, next_id, order)
    /\ UNCHANGED next_id

\* Register an order under the next id.
Insert(order) ==
    /\ next_id <= MaxOrders
    /\ orders' = Put(orders, next_id, order)
    /\ next_id' = next_id + 1

\* place: a size or a price that is not positive raises ValueError before
\* anything changes, so it is no step.
Place(side, price, size, ts) ==
    /\ size > 0
    /\ price > 0
    /\ Insert(NewOrder(side, price, size, ts))

Cancel_Bad(id) ==                  \* the is_active check is dropped
    /\ id \in DOMAIN orders
    /\ orders' = [orders EXCEPT ![id].status = "CANCELLED"]
    /\ UNCHANGED next_id

\* cancel: UnknownOrderError and OrderAlreadyDoneError are raised before
\* anything changes, so they are no step.
Cancel(id) ==
    /\ id \in DOMAIN orders
    /\ IsActive(orders[id])
    /\ orders' = [orders EXCEPT ![id].status = "CANCELLED"]
    /\ UNCHANGED next_id

\* EngineContext.cancel_all: cancel every active order; no call of cancel
\* can fail, for the list of active orders was taken a moment before.
CancelAll ==
    /\ Active # {}
    /\ orders' = [id \in DOMAIN orders |->
                    IF id \in Active
                      THEN [orders[id] EXCEPT !.status = "CANCELLED"]
                      ELSE orders[id]]
    /\ UNCHANGED next_id

\* MatchingEngine._full_fill on an active order.
FullFill(id) ==
    /\ orders' = [orders EXCEPT ![id].filled_size = orders[id].size,
                                ![id].status = "FILLED"]
    /\ UNCHANGED next_id

PartialFill_Bad(id, fill_size) ==  \* an order with nothing left stays active
    /\ orders' = [orders EXCEPT ![id].filled_size = @ + fill_size,
                                ![id].status = "PARTIALLY_FILLED"]
    /\ UNCHANGED next_id

PartialFill_BadSum(id, fill_size) ==  \* filled_size is set, not increased
    /\ orders' = [orders EXCEPT
                    ![id].filled_size = fill_size,
                    ![id].status = IF orders[id].size - fill_size <= 0
                                     THEN "FILLED" ELSE "PARTIALLY_FILLED"]
    /\ UNCHANGED next_id

\* MatchingEngine._partial_fill on an active order.
PartialFill(id, fill_size) ==
    /\ orders' = [orders EXCEPT
                    ![id].filled_size = @ + fill_size,
                    ![id].status =
                        IF orders[id].size - (orders[id].filled_size + fill_size) <= 0
                          THEN "FILLED" ELSE "PARTIALLY_FILLED"]
    /\ UNCHANGED next_id

\* EngineContext._execute_market_order: place, then fill at once and in full.
ExecuteMarketOrder(side, price, size, ts) ==
    /\ size > 0
    /\ price > 0
    /\ Insert([NewOrder(side, price, size, ts) EXCEPT
                 !.filled_size = size, !.status = "FILLED"])

\* The steps the rest of the system takes on orders: fills only of active
\* orders, of a positive quantity that is still open.
OrderNext ==
    \/ \E side \in Sides, price \in Prices, size \in Sizes, ts \in Times :
          \/ Place(side, price, size, ts)
          \/ ExecuteMarketOrder(side, price, size, ts)
    \/ \E id \in DOMAIN orders : Cancel(id)
    \/ CancelAll
    \/ \E id \in Active :
          \/ FullFill(id)
          \/ \E fill_size \in 1 .. RemainingSize(orders[id]) :
                PartialFill(id, fill_size)

OrderSpec == OrderInit /\ [][OrderNext]_ordervars

--------------------------------------------------------------------------------
\* Type invariant of the manager's state: the ids in use are those handed out.
OrderTypeOK ==
    /\ next_id \in Nat \ {0}
    /\ orders \in [1 .. (next_id - 1) -> OrderType]

\* Four writers assign status and filled_size separately; whatever their order,
\* a reader of either field must be able to trust the other: an order is FILLED
\* exactly when its whole size is filled, PARTIALLY_FILLED strictly between,
\* NEW with nothing filled, and a CANCELLED order still had something open.
StatusCoherence ==
    \A id \in DOMAIN orders :
       LET o == orders[id] IN
          /\ o.size > 0 /\ o.price > 0
          /\ 0 <= o.filled_size /\ o.filled_size <= o.size
          /\ o.status = "FILLED" <=> o.filled_size = o.size
          /\ o.status = "NEW" => o.filled_size = 0
          /\ o.status = "PARTIALLY_FILLED" => o.filled_size > 0

\* No sequence of calls revives an order, changes what was asked for, takes back
\* a fill or forgets an order (manager.get answers "regardless of status").
OrdersOnlyProgress ==
    [][\A id \in DOMAIN orders :
          /\ id \in DOMAIN orders'
          /\ LET o == orders[id]  n == orders'[id] IN
                /\ n.side = o.side /\ n.price = o.price
                /\ n.size = o.size /\ n.ts = o.ts
                /\ n.filled_size >= o.filled_size
                /\ ~IsActive(o) => n = o]_ordervars

\* The manager implements the abstract ledger: an order's terms are what was
\* asked for, and it is open while it is active.
LedgerEntry(order) ==
    [terms    |-> [side |-> order.side, price |-> order.price,
                   size |-> order.size, ts |-> order.ts],
     executed |-> order.filled_size,
     open     |-> IsActive(order)]

LedgerView == [id \in DOMAIN orders |-> LedgerEntry(orders[id])]

Ledger == INSTANCE OrderLedger WITH
    LedgerIds <- 1 .. MaxOrders,
    Terms     <- [side : Sides, price : Prices, size : Sizes, ts : Times],
    ledger    <- LedgerView

LedgerSpec == Ledger!Spec
================================================================================
