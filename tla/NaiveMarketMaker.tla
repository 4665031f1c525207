--------------------------- MODULE NaiveMarketMaker ---------------------------
(* The backtest with strategies/market_maker.py: quotes around the mid, at      *)
(* HalfSpread on each side, replaced when the mid has moved by more than        *)
(* RepostThreshold.  on_fill is the base class's, which does nothing.           *)
EXTENDS TwoSidedQuotes

CONSTANTS
    HalfSpread,       \* _half_spread
    RepostThreshold   \* _repost_threshold

\* A fresh quote on each side of the mid.
Around(mid) ==
    [side \in Sides |-> IF side = "BUY" THEN mid - HalfSpread ELSE mid + HalfSpread]

ASSUME NaiveAssumption == HalfSpread \in Nat /\ RepostThreshold \in Nat

\* Prices holds every price the strategy can ask for.
ASSUME AroundAssumption ==
    \A q \in Quotes, side \in Sides :
       q.bid # None /\ q.ask # None =>
          LET price == Around((q.bid + q.ask) \div 2)[side] IN price > 0 => price \in Prices

VARIABLE
    last_quoted_mid   \* _last_quoted_mid

mmvars == <<vars, quotevars, last_quoted_mid>>

Distance(a, b) == IF a < b THEN b - a ELSE a - b

MMInit == Init /\ QuoteInit /\ last_quoted_mid = None

Moved_Bad ==                       \* a fall of the mid is not noticed
    IF last_quoted_mid = None THEN TRUE ELSE Mid - last_quoted_mid > RepostThreshold

Moved ==
    IF last_quoted_mid = None THEN TRUE
                              ELSE Distance(Mid, last_quoted_mid) > RepostThreshold

MustQuote == Mid # None /\ Moved

\* The early returns of on_event.
KeepQuotes ==
    /\ Deciding
    /\ ~MustQuote
    /\ Return
    /\ UNCHANGED <<quotevars, last_quoted_mid>>

ReplaceQuotes ==
    /\ Deciding
    /\ MustQuote
    /\ Requote(Around(Mid))
    /\ UNCHANGED last_quoted_mid

FinishQuotes ==
    /\ EndQuotes
    /\ last_quoted_mid' = Mid

MMNext ==
    \/ (Loop \/ NotifyFill) /\ UNCHANGED <<quotevars, last_quoted_mid>>
    \/ pc = "in_on_fill" /\ Return /\ UNCHANGED <<quotevars, last_quoted_mid>>
    \/ KeepQuotes
    \/ ReplaceQuotes
    \/ QuoteStep /\ UNCHANGED last_quoted_mid
    \/ FinishQuotes

MMSpec == MMInit /\ [][MMNext]_mmvars

\* The program is one thread, which goes on as long as it has anything to do.
FairMMSpec == MMSpec /\ WF_mmvars(MMNext)

--------------------------------------------------------------------------------
\* Quotes follow the book: when on_event has returned and there is a mid, an
\* order still active rests within RepostThreshold of where a fresh quote would
\* be.  (Without a mid quotes stay where they are, market_maker.py:59.)
QuotesFollowMid ==
    pc = "collect" /\ Mid # None =>
       \A id \in Active :
          Distance(orders[id].price, Around(Mid)[orders[id].side]) <= RepostThreshold

\* The limitation the module's docstring admits (market_maker.py:9), and no
\* more than it: with a mid, a side is without a quote only because the last
\* quote on it was filled since the mid last moved.
UnquotedOnlyIfFilled ==
    pc = "collect" /\ Mid # None =>
       \A side \in Sides :
          /\ own[side] # None
          /\ own[side] \in Active \/ orders[own[side]].status = "FILLED"

\* Whatever this strategy does, a strategy may do: its runs are runs of Backtest.
BacktestSpec == Spec
================================================================================
