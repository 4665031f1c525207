---------------------------- MODULE TwoSidedQuotes ----------------------------
(* What the two market makers have in common: they keep one quote per side and, *)
(* inside on_event, replace both.  _cancel_safely cancels the buy and the sell  *)
(* it remembers, forgiving orders already done; then a buy and a sell are       *)
(* placed.  Every call on the context is a step, so that an exception of one    *)
(* leaves the effects of those before it.  When to quote, and where, is the     *)
(* business of NaiveMarketMaker and AvellanedaStoikov.                          *)
EXTENDS Backtest, Sequences

CONSTANTS
    QuoteSize         \* _size

ASSUME QuoteAssumption == QuoteSize \in Sizes /\ QuoteSize > 0

VARIABLES
    own,              \* _buy_id and _sell_id, by side
    quote,            \* price to quote on each side, a local of the handler
    todo              \* calls the handler has still to make; <<>> outside it

quotevars == <<own, quote, todo>>

NoQuote == [side \in Sides |-> None]

Calls == << <<"cancel", "BUY">>, <<"cancel", "SELL">>,
            <<"place", "BUY">>, <<"place", "SELL">>, <<"return">> >>

QuoteInit ==
    /\ own = [side \in Sides |-> None]
    /\ quote = NoQuote
    /\ todo = <<>>

\* on_event was called and nothing is decided yet.
Deciding == pc = "in_on_event" /\ todo = <<>>

\* The handler decides to replace its quotes.
Requote(prices) ==
    /\ quote' = prices
    /\ todo' = Calls
    /\ UNCHANGED <<own, vars>>

\* The exception of OrderManager.cancel(id), if any.
CancelError(id) ==
    IF id \notin DOMAIN orders THEN "UnknownOrderError"
    ELSE IF ~IsActive(orders[id]) THEN "OrderAlreadyDoneError"
    ELSE "none"

Forgiven_Bad == {}                 \* nothing is caught

\* What _cancel_safely catches.
Forgiven == {"OrderAlreadyDoneError"}

Skipped_Bad(side) ==               \* a partially filled quote is left in the book
    own[side] = None \/ orders[own[side]].status # "NEW"

\* There is nothing to cancel on this side, or nothing any more.
Skipped(side) == own[side] = None \/ CancelError(own[side]) \in Forgiven

\* One turn of _cancel_safely.
CancelQuote(side) ==
    /\ todo # <<>> /\ Head(todo) = <<"cancel", side>>
    /\ IF Skipped(side) THEN UNCHANGED vars ELSE CtxCancel(own[side])
    /\ own' = [own EXCEPT ![side] = None]
    /\ todo' = Tail(todo)
    /\ UNCHANGED quote

Remembered_Bad(side) ==            \* the id of the buy is kept for both sides
    own' = [own EXCEPT !["BUY"] = next_id]

Remembered(side) == own' = [own EXCEPT ![side] = next_id]

PlaceQuote_BadPrice(side) ==       \* the price is not checked
    /\ todo # <<>> /\ Head(todo) = <<"place", side>>
    /\ ContextCall
    /\ Insert(NewOrder(side, quote[side], QuoteSize, n))
    /\ Remembered(side)
    /\ todo' = Tail(todo)
    /\ UNCHANGED <<market_fills, quote>>

\* One of the two calls of ctx.place.
PlaceQuote(side) ==
    /\ todo # <<>> /\ Head(todo) = <<"place", side>>
    /\ CtxPlace(side, quote[side], QuoteSize)
    /\ Remembered(side)
    /\ todo' = Tail(todo)
    /\ UNCHANGED quote

\* A call that raises what nothing catches: a cancel, or a place at a price that
\* is not positive.
Escapes(call) ==
    \/ \E side \in Sides : /\ call = <<"cancel", side>>
                          /\ own[side] # None
                          /\ CancelError(own[side]) \notin Forgiven \cup {"none"}
    \/ \E side \in Sides : call = <<"place", side>> /\ quote[side] <= 0

\* The exception leaves the handler, and run, where the call was made.
CallRaises ==
    /\ todo # <<>>
    /\ Escapes(Head(todo))
    /\ Raise
    /\ UNCHANGED quotevars

\* The handler returns after its last call.
EndQuotes ==
    /\ todo = << <<"return">> >>
    /\ Return
    /\ quote' = NoQuote
    /\ todo' = <<>>
    /\ UNCHANGED own

QuoteStep ==
    \/ \E side \in Sides : CancelQuote(side) \/ PlaceQuote(side)
    \/ CallRaises

OfSide(side) == {id \in DOMAIN orders : orders[id].side = side}

--------------------------------------------------------------------------------
\* No quote is lost: whenever the handler is not replacing its quotes, every
\* active order is the one it remembers for its side, so that at most one order
\* per side is exposed; and what it remembers was placed and never cancelled,
\* so that cancelling it can only meet OrderAlreadyDoneError.
QuotesTracked ==
    /\ todo = <<>> =>
          /\ \A id \in Active : own[orders[id].side] = id
          /\ \A side \in Sides : own[side] # None => orders[own[side]].status # "CANCELLED"
    /\ \A side \in Sides : own[side] # None => own[side] \in OfSide(side)

\* An exception of a call leaves run only because a price to quote was not
\* positive, never because of a cancel (market_maker.py:78-81): whatever was
\* filled or cancelled since, the order remembered is known to the manager, and
\* if it is done that is forgiven.  And when run is left nothing rests in the
\* book at a price that was to be replaced.
RaisesOnPriceOnly ==
    pc = "raised" =>
       /\ \E side \in Sides : quote[side] # None /\ quote[side] <= 0
       /\ \A id \in Active : orders[id].ts = n
================================================================================
