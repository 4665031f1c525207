------------------------------- MODULE Backtest -------------------------------
(* The event loop of the backtester: Backtest.run (engine/backtest.py), the     *)
(* matcher it calls (execution/matcher.py), the book (orderbook/book.py), the   *)
(* recorder it feeds (metrics/recorder.py) and the context (engine/context.py)  *)
(* through which a strategy acts from inside its callbacks.                     *)
(*                                                                              *)
(* The strategy is any strategy: in a callback it makes any calls on the        *)
(* context, returns, or lets an exception escape.  It calls the context only    *)
(* from inside the callback that was given it, and does not assign to an Order  *)
(* it was returned.  Modules that model a given strategy restrict these choices.*)
(*                                                                              *)
(* Data abstraction.  Of the book only the best levels are kept, all that is    *)
(* read of it.  A list of fills holds at most one fill of an order, in the      *)
(* order of their ids, and is a function from id to size; the fills log and     *)
(* what the recorder was fed are the totals per order.  The timestamp handed to *)
(* the recorder with a mark (last_ts) is left out.  Locals that are dead at the *)
(* end of an iteration are reset.  A recorder and a strategy are attached, as   *)
(* __main__.run_backtest does.                                                  *)
EXTENDS OrderManager

CONSTANTS
    None,             \* Python's None: no level on a side, no mid
    Quotes,           \* best levels a snapshot may carry: [bid, ask]
    TradePrices,      \* prices of trade prints
    Amounts,          \* amounts of trade prints
    PartialFills,     \* MatchingEngine.partial_fills_enabled
    SnapshotFirst,    \* TRUE: the stream starts with a snapshot
    MaxCalls          \* bound: successful context calls in one callback

MarketPrices == {p \in Prices : p > 0}

ASSUME BacktestAssumption ==
    /\ None \notin Int
    /\ Quotes \subseteq [bid : MarketPrices \cup {None}, ask : MarketPrices \cup {None}]
    /\ \A q \in Quotes : q.bid # None /\ q.ask # None => q.bid < q.ask
    /\ TradePrices \subseteq MarketPrices
    /\ Amounts \subseteq Nat
    /\ PartialFills \in BOOLEAN
    /\ SnapshotFirst \in BOOLEAN
    /\ MaxCalls \in Nat

\* Prices are counted in units in which every mid is whole.
ASSUME MidAssumption ==
    \A q \in Quotes : q.bid # None /\ q.ask # None => (q.bid + q.ask) % 2 = 0

VARIABLES
    pc,               \* where Backtest.run is
    n,                \* events taken from the stream so far
    event,            \* the event being processed
    book,             \* best levels of the OrderBook
    resting,          \* ids of list(om.active()) the matcher has still to visit
    remaining_amount, \* on_trade: volume of the print not yet used
    fills,            \* fills of resting orders on this event
    to_notify,        \* ids of fills whose on_fill callback is still due
    market_fills,     \* EngineContext._market_fills
    calls,            \* context calls made in the current callback
    logged,           \* fills_log, as the total logged per order
    recorded,         \* fills fed to the recorder, as the total per order
    notified,         \* fills passed to strategy.on_fill, as the total per order
    mark              \* mid of the recorder's last mark-to-market

loopvars == <<pc, n, event, book, resting, remaining_amount, fills, to_notify,
              market_fills, calls, logged, recorded, notified, mark>>
vars == <<orders, next_id, loopvars>>

NoFills == [id \in {} |-> 0]
NoEvent == [kind |-> "none"]

Snapshots == {[kind |-> "snapshot", bid |-> q.bid, ask |-> q.ask] : q \in Quotes}
Trades    == [kind : {"trade"}, side : Sides, price : TradePrices, amount : Amounts]

Idle       == {"next", "done", "failed"}
InCallback == pc \in {"in_on_fill", "in_on_event"}

\* OrderBook.mid: None unless both sides have a level.
Mid == IF book.bid = None \/ book.ask = None
         THEN None ELSE (book.bid + book.ask) \div 2

Init ==
    /\ OrderInit
    /\ pc = "next"
    /\ n = 0
    /\ event = NoEvent
    /\ book = [bid |-> None, ask |-> None]
    /\ resting = {}
    /\ remaining_amount = 0
    /\ fills = NoFills
    /\ to_notify = {}
    /\ market_fills = NoFills
    /\ calls = 0
    /\ logged = NoFills
    /\ recorded = NoFills
    /\ notified = NoFills
    /\ mark = None

--------------------------------------------------------------------------------
(* Taking the next event.                                                       *)

MatchList_Bad == {id \in Active : orders[id].ts < n}   \* orders of the event before are passed over

\* list(om.active())
MatchList == Active

\* The part of an iteration both kinds of event share: the list of active
\* orders is taken before any order is matched or any callback runs.
StartEvent(e) ==
    /\ pc = "next"
    /\ n < MaxEvents
    /\ n' = n + 1
    /\ event' = e
    /\ resting' = MatchList
    /\ pc' = "match"
    /\ UNCHANGED <<orders, next_id, fills, to_notify, market_fills, calls,
                   logged, recorded, notified, mark>>

Applied_Bad(e) ==                  \* a level already there is kept
    [bid |-> IF book.bid = None THEN e.bid ELSE book.bid, ask |-> e.ask]

\* OrderBook.apply: nothing of the old book is kept.
Applied(e) == [bid |-> e.bid, ask |-> e.ask]

\* A LobSnapshot replaces the book, then is matched as a quote.
TakeSnapshot(e) ==
    /\ StartEvent(e)
    /\ book' = Applied(e)
    /\ UNCHANGED remaining_amount

\* A Trade leaves the book alone.
TakeTrade(e) ==
    /\ SnapshotFirst => n > 0
    /\ StartEvent(e)
    /\ remaining_amount' = e.amount
    /\ UNCHANGED book

\* The stream ends: a last mark-to-market if there is a mid, and run returns.
EndOfStream ==
    /\ pc = "next"
    /\ pc' = "done"
    /\ mark' = IF Mid = None THEN mark ELSE Mid
    /\ UNCHANGED <<orders, next_id, n, event, book, resting, remaining_amount,
                   fills, to_notify, market_fills, calls, logged, recorded,
                   notified>>

\* The iterator raises, on a row that does not parse: the exception leaves run
\* without a last mark, and the log is lost with it.
StreamFails ==
    /\ pc = "next"
    /\ pc' = "failed"
    /\ UNCHANGED <<orders, next_id, n, event, book, resting, remaining_amount,
                   fills, to_notify, market_fills, calls, logged, recorded,
                   notified, mark>>

--------------------------------------------------------------------------------
(* Matching (execution/matcher.py): one step per order of the list.             *)

TradeCrosses(order) ==
    IF order.side = "BUY"
      THEN event.side = "SELL" /\ event.price <= order.price
      ELSE event.side = "BUY" /\ event.price >= order.price

QuoteCrosses(order) ==
    IF order.side = "BUY"
      THEN book.ask # None /\ book.ask < order.price
      ELSE book.bid # None /\ book.bid > order.price

Crosses(order) ==
    IF event.kind = "snapshot" THEN QuoteCrosses(order) ELSE TradeCrosses(order)

\* Volume is counted only for trades and only in partial-fill mode.
CountsVolume == PartialFills /\ event.kind = "trade"
Exhausted    == CountsVolume /\ remaining_amount <= 0

FirstOf_Bad(id, ids) ==            \* the newest order first
    id \in ids /\ \A other \in ids : id >= other

\* The next id in iteration order.
FirstOf(id, ids) == id \in ids /\ \A other \in ids : id <= other

Smaller(a, b) == IF a <= b THEN a ELSE b

FillSize_Bad(order) ==             \* the print's volume is ignored
    RemainingSize(order)

FillSize(order) ==
    IF CountsVolume THEN Smaller(RemainingSize(order), remaining_amount)
                    ELSE RemainingSize(order)

VolumeLeft_Bad(size) == remaining_amount   \* the volume used is not taken off

VolumeLeft(size) == IF CountsVolume THEN remaining_amount - size ELSE remaining_amount

MatchFill(id) ==
    LET size == FillSize(orders[id]) IN
       /\ IsActive(orders[id]) /\ Crosses(orders[id])
       /\ IF CountsVolume THEN PartialFill(id, size) ELSE FullFill(id)
       /\ fills' = Put(fills, id, size)
       /\ remaining_amount' = VolumeLeft(size)

MatchSkip(id) ==
    /\ ~(IsActive(orders[id]) /\ Crosses(orders[id]))
    /\ UNCHANGED <<orders, next_id, fills, remaining_amount>>

Unvisited(id) == resting \ {id}

MatchOrder(id) ==
    /\ pc = "match"
    /\ ~Exhausted
    /\ FirstOf(id, resting)
    /\ MatchFill(id) \/ MatchSkip(id)
    /\ resting' = Unvisited(id)
    /\ UNCHANGED <<pc, n, event, book, to_notify, market_fills, calls, logged,
                   recorded, notified, mark>>

\* The list is used up, or the print's volume is (break).
EndMatch ==
    /\ pc = "match"
    /\ resting = {} \/ Exhausted
    /\ pc' = "log"
    /\ resting' = {}
    /\ UNCHANGED <<orders, next_id, n, event, book, remaining_amount, fills,
                   to_notify, market_fills, calls, logged, recorded, notified,
                   mark>>

--------------------------------------------------------------------------------
(* The log, the recorder and the callbacks.                                     *)

Added_Bad(totals, fs) ==           \* a later fill of an order replaces the earlier
    [id \in DOMAIN totals \cup DOMAIN fs |->
        IF id \in DOMAIN fs THEN fs[id] ELSE totals[id]]

\* The fills fs added to the totals per order.
Added(totals, fs) ==
    [id \in DOMAIN totals \cup DOMAIN fs |->
        (IF id \in DOMAIN totals THEN totals[id] ELSE 0)
            + (IF id \in DOMAIN fs THEN fs[id] ELSE 0)]

LogAndRecord_Bad(fs) ==            \* the mid of the last mark is asked for
    /\ logged' = Added(logged, fs)
    /\ recorded' = IF mark = None THEN recorded ELSE Added(recorded, fs)
    /\ mark' = IF Mid = None \/ DOMAIN fs = {} THEN mark ELSE Mid

\* fills_log.extend(fs), then recorder.on_fill per fill, unless there is no mid.
LogAndRecord(fs) ==
    /\ logged' = Added(logged, fs)
    /\ recorded' = IF Mid = None THEN recorded ELSE Added(recorded, fs)
    /\ mark' = IF Mid = None \/ DOMAIN fs = {} THEN mark ELSE Mid

RecordFills ==
    /\ pc = "log"
    /\ LogAndRecord(fills)
    /\ to_notify' = DOMAIN fills
    /\ remaining_amount' = 0
    /\ pc' = "notify"
    /\ UNCHANGED <<orders, next_id, n, event, book, resting, fills, market_fills,
                   calls, notified>>

\* strategy.on_fill is called with the next fill.
CallOnFill(id) ==
    /\ pc = "notify"
    /\ FirstOf(id, to_notify)
    /\ to_notify' = to_notify \ {id}
    /\ notified' = Added(notified, [i \in {id} |-> fills[i]])
    /\ calls' = 0
    /\ pc' = "in_on_fill"
    /\ UNCHANGED <<orders, next_id, n, event, book, resting, remaining_amount,
                   fills, market_fills, logged, recorded, mark>>

AllNotified_Bad == TRUE            \* on_event does not wait for every on_fill

AllNotified == to_notify = {}

\* Every fill was delivered: strategy.on_event is called.
CallOnEvent ==
    /\ pc = "notify"
    /\ AllNotified
    /\ calls' = 0
    /\ pc' = "in_on_event"
    /\ UNCHANGED <<orders, next_id, n, event, book, resting, remaining_amount,
                   fills, to_notify, market_fills, logged, recorded, notified,
                   mark>>

Return_Bad ==                      \* the event is matched again after on_event
    /\ InCallback
    /\ pc' = IF pc = "in_on_fill" THEN "notify"
             ELSE IF fills = NoFills THEN "match" ELSE "collect"
    /\ resting' = IF pc = "in_on_event" THEN Active ELSE resting
    /\ calls' = 0
    /\ UNCHANGED <<orders, next_id, n, event, book, remaining_amount, fills,
                   to_notify, market_fills, logged, recorded, notified, mark>>

\* The callback returns to run.
Return ==
    /\ InCallback
    /\ pc' = IF pc = "in_on_fill" THEN "notify" ELSE "collect"
    /\ calls' = 0
    /\ UNCHANGED <<orders, next_id, n, event, book, resting, remaining_amount,
                   fills, to_notify, market_fills, logged, recorded, notified,
                   mark>>

\* An exception the strategy does not catch (its own, or one of place or cancel)
\* leaves run: the log is a local of run and is lost with it.
Raise ==
    /\ InCallback
    /\ pc' = "raised"
    /\ UNCHANGED <<orders, next_id, n, event, book, resting, remaining_amount,
                   fills, to_notify, market_fills, calls, logged, recorded,
                   notified, mark>>

\* Market-order fills are logged and recorded after the callbacks; the
\* iteration ends.
CollectMarketFills ==
    /\ pc = "collect"
    /\ LogAndRecord(market_fills)
    /\ pc' = "next"
    /\ event' = NoEvent
    /\ fills' = NoFills
    /\ market_fills' = NoFills
    /\ UNCHANGED <<orders, next_id, n, book, resting, remaining_amount, to_notify,
                   calls, notified>>

--------------------------------------------------------------------------------
(* What a strategy does through the context, from inside a callback.  A call    *)
(* that fails and whose exception is caught changes nothing and is no step.     *)

ContextCall ==
    /\ InCallback
    /\ calls < MaxCalls
    /\ calls' = calls + 1
    /\ UNCHANGED <<pc, n, event, book, resting, remaining_amount, fills, to_notify,
                   logged, recorded, notified, mark>>

CtxPlace(side, price, size) ==
    ContextCall /\ Place(side, price, size, n) /\ UNCHANGED market_fills

CtxCancel(id) ==
    ContextCall /\ Cancel(id) /\ UNCHANGED market_fills

CtxCancelAll_Bad ==                \* orders that are done are cancelled too
    /\ ContextCall
    /\ orders' = [id \in DOMAIN orders |-> [orders[id] EXCEPT !.status = "CANCELLED"]]
    /\ UNCHANGED <<next_id, market_fills>>

CtxCancelAll ==
    ContextCall /\ CancelAll /\ UNCHANGED market_fills

\* market_buy and market_sell: at the best opposite level; None, and no order,
\* when there is none.
CtxMarketOrder(side, size) ==
    LET level == IF side = "BUY" THEN book.ask ELSE book.bid IN
       /\ level # None
       /\ ContextCall
       /\ ExecuteMarketOrder(side, level, size, n)
       /\ market_fills' = Put(market_fills, next_id, size)

StrategyCall ==
    \/ \E side \in Sides, price \in Prices, size \in Sizes : CtxPlace(side, price, size)
    \/ \E id \in DOMAIN orders : CtxCancel(id)
    \/ CtxCancelAll
    \/ \E side \in Sides, size \in Sizes : CtxMarketOrder(side, size)

--------------------------------------------------------------------------------
\* What Backtest.run does by itself: what it takes from the stream, and what it
\* makes of it.
Receive ==
    \/ \E e \in Snapshots : TakeSnapshot(e)
    \/ \E e \in Trades : TakeTrade(e)
    \/ EndOfStream
    \/ StreamFails

Work ==
    \/ \E id \in resting : MatchOrder(id)
    \/ EndMatch
    \/ RecordFills
    \/ CallOnEvent
    \/ CollectMarketFills

Loop == Receive \/ Work

NotifyFill == \E id \in to_notify : CallOnFill(id)

Strategy == StrategyCall \/ Return \/ Raise

Next == Loop \/ NotifyFill \/ Strategy

Spec == Init /\ [][Next]_vars

\* One thread runs everything and a callback makes finitely many calls, so the
\* program always takes its next step.
FairSpec == Spec /\ WF_vars(Next)

--------------------------------------------------------------------------------
(* Properties.                                                                  *)

At(totals, id) == IF id \in DOMAIN totals THEN totals[id] ELSE 0

\* The sum of a quantity per order, over the ids up to last.
SumTo(totals, last) ==
    LET sum[id \in Nat] == IF id = 0 THEN 0 ELSE sum[id - 1] + At(totals, id) IN sum[last]

\* What quantities per order come to, bought less sold.
Signed(totals) ==
    SumTo([id \in DOMAIN totals |-> IF orders[id].side = "BUY" THEN totals[id] ELSE -totals[id]],
          next_id - 1)

\* The position the orders add up to.
Position == Signed([id \in DOMAIN orders |-> orders[id].filled_size])

\* A quantity per order, for some of the orders placed.
PerOrder(totals) ==
    DOMAIN totals \subseteq DOMAIN orders /\ totals \in [DOMAIN totals -> Nat]

\* Type invariant of the event loop.
LoopTypeOK ==
    /\ pc \in {"next", "match", "log", "notify", "in_on_fill", "in_on_event",
               "collect", "done", "raised", "failed"}
    /\ n \in Times
    /\ event \in Snapshots \cup Trades \cup {NoEvent}
    /\ pc \in Idle <=> event = NoEvent
    /\ book.bid \in MarketPrices \cup {None} /\ book.ask \in MarketPrices \cup {None}
    /\ remaining_amount \in Nat
    /\ resting \subseteq DOMAIN orders
    /\ to_notify \subseteq DOMAIN fills
    /\ PerOrder(fills) /\ PerOrder(market_fills)
    /\ PerOrder(logged) /\ PerOrder(recorded) /\ PerOrder(notified)
    /\ calls \in 0 .. MaxCalls
    /\ mark \in Int \cup {None}

\* The fills log and the order records are kept by different code and tie up
\* fill by fill: what an order says was filled is what the log says, plus the
\* fills of this event that are matched or executed but not yet logged.
Conservation ==
    /\ DOMAIN logged \subseteq DOMAIN orders
    /\ \A id \in DOMAIN orders :
          orders[id].filled_size =
              At(logged, id) + At(market_fills, id)
                  + (IF pc \in {"match", "log"} THEN At(fills, id) ELSE 0)

\* Latency (backtest.py:18): an order placed in response to event E is matched
\* from E+1 on, though it is active while callbacks of E still run; only a
\* market order is filled within the event that placed it.
NextEventLatency ==
    /\ \A id \in DOMAIN fills : orders[id].ts < n
    /\ \A id \in DOMAIN market_fills : orders[id].ts = n

\* Matching is complete: no order that rested before the event is left active at
\* a price the event crosses, unless the print's volume was used up.  For a
\* quote the strategy can rely on it in every callback of that event.
MatchingComplete ==
    \A id \in Active :
       orders[id].ts < n =>
          /\ pc = "log" => (Crosses(orders[id]) => Exhausted)
          /\ event.kind = "snapshot"
               /\ pc \in {"log", "notify", "in_on_fill", "in_on_event", "collect"}
               => ~QuoteCrosses(orders[id])

\* Of two orders on one side, a is at a better price than b.
Better(a, b) == IF a.side = "BUY" THEN a.price > b.price ELSE a.price < b.price

\* Time priority among equals, the part of "price-time priority" (matcher.py:30)
\* that iteration order can give: when the volume of a print runs out, an order
\* is never passed by a later one of its side whose price is no better.  What
\* happens when price and time disagree is PricePriority, in MCBacktest.
TimePriority ==
    pc \in {"match", "log"} =>
       \A later \in DOMAIN fills : \A earlier \in DOMAIN orders :
          /\ earlier < later
          /\ orders[earlier].ts < n
          /\ orders[earlier].side = orders[later].side
          /\ ~Better(orders[later], orders[earlier])
          /\ Crosses(orders[earlier])
          => ~IsActive(orders[earlier])

\* The fills of one print never use more than its amount, however many orders
\* share it (matcher.py:65-75), and nothing of it is lost between them.
VolumeBound ==
    pc \in {"match", "log"} /\ CountsVolume =>
       /\ remaining_amount >= 0
       /\ SumTo(fills, next_id - 1) + remaining_amount = event.amount

\* on_fill before on_event (backtest.py:92): by the time on_event is called the
\* strategy was told, once, of everything that was ever filled of every order
\* that was filled on this event, and never of more than was filled.
FillsNotified ==
    /\ \A id \in DOMAIN notified : id \in DOMAIN orders
                                     /\ notified[id] <= orders[id].filled_size
    /\ pc \in {"in_on_event", "collect"} =>
          \A id \in DOMAIN fills : At(notified, id) = orders[id].filled_size
    /\ pc \in Idle =>
          \A id \in DOMAIN orders :
             orders[id].status = "PARTIALLY_FILLED"
                => At(notified, id) = orders[id].filled_size

\* Under two-sided quotes and a stream that starts with a snapshot the recorder
\* and the fills log hold the same fills whenever run is between events or has
\* returned, so the report accounts for every fill it lists; and a finished run
\* is marked at the last mid.
TwoSided == \A q \in Quotes : q.bid # None /\ q.ask # None

RecorderComplete ==
    TwoSided /\ SnapshotFirst =>
       /\ pc \in Idle => recorded = logged
       /\ pc = "done" /\ n > 0 => mark = Mid

\* Every run of a finite stream ends: it returns the log, or an exception of the
\* strategy or of the stream ends it.
Termination == <>(pc \in {"done", "raised", "failed"})

\* A fill of a resting order reaches the strategy's on_fill unless an exception
\* of an earlier callback ends the run first.
FillsReachStrategy ==
    \A id \in 1 .. MaxOrders :
       (pc = "log" /\ id \in DOMAIN fills)
           ~> (pc = "raised" \/ (pc = "in_on_fill" /\ id \notin to_notify
                                   /\ id \in DOMAIN fills))
================================================================================
