------------------------ MODULE NaiveMarketMakerProofs ------------------------
(* Proofs about the naive market maker, for every half spread and threshold,    *)
(* every set of quotes and streams of any length: it is a strategy of Backtest, *)
(* loses no quote, and keeps its quotes near the mid.                           *)
(*                                                                              *)
(* To the invariant of the loop (Inv) and that of the quotes (QuoteInv) the     *)
(* strategy adds where its quotes are: around the mid of last_quoted_mid        *)
(* (Anchored), while it quotes around the mid of the book (Quoting), and when   *)
(* on_event has returned the two are near each other (Near).                    *)
EXTENDS NaiveMarketMaker, TwoSidedQuotesProofs

\* A two-sided book is one of the quotes of the stream.
BookQuoted ==
    book.bid # None /\ book.ask # None => [bid |-> book.bid, ask |-> book.ask] \in Quotes

Anchored ==
    /\ last_quoted_mid \in Int \cup {None}
    /\ todo = <<>> =>
          IF last_quoted_mid = None
            THEN own = NoQuote
            ELSE \A side \in Sides :
                    /\ own[side] # None
                    /\ orders[own[side]].price = Around(last_quoted_mid)[side]

Quoting == todo # <<>> => Mid # None /\ quote = Around(Mid)

Near ==
    pc = "collect" /\ Mid # None =>
       last_quoted_mid # None /\ Distance(Mid, last_quoted_mid) <= RepostThreshold

MMInv == Inv /\ QuoteInv /\ BookQuoted /\ Anchored /\ Quoting /\ Near

--------------------------------------------------------------------------------
LEMMA AroundFacts ==
    ASSUME NEW mid \in Int
    PROVE  /\ Around(mid) \in [Sides -> Int]
           /\ Around(mid)["BUY"] = mid - HalfSpread
           /\ Around(mid)["SELL"] = mid + HalfSpread
  BY NaiveAssumption DEF Around, Sides

\* There is a mid exactly when the book is two-sided.
LEMMA MidFacts ==
    ASSUME Inv, Mid # None
    PROVE  /\ book.bid # None /\ book.ask # None
           /\ Mid = (book.bid + book.ask) \div 2 /\ Mid \in Int
<1>1. /\ book.bid # None /\ book.ask # None
      /\ Mid = (book.bid + book.ask) \div 2
  BY DEF Mid
<1>2. book.bid \in Int /\ book.ask \in Int
  BY <1>1, OrderAssumption DEF Inv, LoopTypeOK, MarketPrices, Idle
<1>3. (book.bid + book.ask) \div 2 \in Int
  BY <1>2
<1> QED
  BY <1>1, <1>3

LEMMA BookQuotedStep ==
    ASSUME Inv, BookQuoted, [Next]_vars
    PROVE  BookQuoted'
<1>1. CASE UNCHANGED book
  BY <1>1 DEF BookQuoted
<1>2. ASSUME NEW e \in Snapshots, TakeSnapshot(e)
      PROVE  BookQuoted'
  <2>1. PICK q \in Quotes : book'.bid = q.bid /\ book'.ask = q.ask
    BY <1>2 DEF Snapshots, TakeSnapshot, Applied
  <2>2. [bid |-> q.bid, ask |-> q.ask] = q
    BY BacktestAssumption
  <2> QED
    BY <2>1, <2>2 DEF BookQuoted
<1>3. CASE StrategyCall
  BY <1>1, <1>3, CallRecords DEF ContextCall
<1> QED
  BY <1>1, <1>2, <1>3 DEF Next, Loop, Receive, Work, NotifyFill, Strategy, vars, loopvars,
     TakeTrade, StartEvent, EndOfStream, StreamFails, MatchOrder, EndMatch, RecordFills,
     CallOnFill, CallOnEvent, Return, Raise, CollectMarketFills, Unvisited, AllNotified,
     MatchList

\* Prices holds what the strategy asks for.
LEMMA QuotesAskable ==
    ASSUME MMInv
    PROVE  Askable
<1> SUFFICES ASSUME todo # <<>>, NEW side \in Sides, quote[side] > 0
             PROVE  quote[side] \in Prices
  BY DEF Askable
<1>1. Mid # None /\ quote = Around(Mid)
  BY DEF MMInv, Quoting
<1>2. /\ book.bid # None /\ book.ask # None /\ Mid = (book.bid + book.ask) \div 2
      /\ [bid |-> book.bid, ask |-> book.ask] \in Quotes
  BY <1>1, MidFacts DEF MMInv, BookQuoted
<1> DEFINE q == [bid |-> book.bid, ask |-> book.ask]
<1>3. Around((q.bid + q.ask) \div 2)[side] > 0
         => Around((q.bid + q.ask) \div 2)[side] \in Prices
  BY <1>2, AroundAssumption
<1>4. (q.bid + q.ask) \div 2 = Mid
  BY <1>2
<1> QED
  BY <1>1, <1>3, <1>4

--------------------------------------------------------------------------------
(* One lemma per action.                                                        *)

\* The loop fills orders, and does not touch what the strategy remembers.
LEMMA QuietMMStep ==
    ASSUME MMInv, todo = <<>>, pc' # "collect", Loop \/ NotifyFill \/ Return,
           UNCHANGED <<quotevars, last_quoted_mid>>
    PROVE  QuoteInv' /\ Anchored' /\ Quoting' /\ Near'
<1>1. UNCHANGED <<own, quote, todo, last_quoted_mid>>
  BY DEF quotevars
<1>2. QuoteInv'
  BY QuietQuotes DEF MMInv
<1>3. ASSUME last_quoted_mid # None, NEW side \in Sides
      PROVE  orders'[own[side]].price = orders[own[side]].price
  <2>1. own[side] \in DOMAIN orders
    BY <1>3 DEF MMInv, Anchored, QuoteInv, Tracking, OfSide
  <2> QED
    BY <2>1, LoopOrders DEF MMInv
<1>4. Anchored'
  BY <1>1, <1>3 DEF MMInv, Anchored, NoQuote, Around
<1> QED
  BY <1>1, <1>2, <1>4 DEF Quoting, Near

LEMMA KeepQuotesStep ==
    ASSUME MMInv, KeepQuotes
    PROVE  /\ QuoteInv' /\ Anchored' /\ Quoting' /\ Near'
           /\ Strategy
<1>1. /\ Return /\ todo = <<>> /\ UNCHANGED <<own, quote, todo, last_quoted_mid, orders, book>>
      /\ UNCHANGED quotevars
      /\ ~MustQuote
  BY DEF KeepQuotes, Deciding, Return, quotevars
<1>2. QuoteInv'
  BY <1>1, QuietQuotes DEF MMInv
<1>3. Anchored' /\ Quoting'
  <2>1. Anchored'
    BY <1>1 DEF MMInv, Anchored, NoQuote, Around
  <2>2. Quoting'
    BY <1>1 DEF Quoting
  <2> QED
    BY <2>1, <2>2
<1>4. Near'
  <2>1. ASSUME Mid' # None
        PROVE  last_quoted_mid # None /\ Distance(Mid, last_quoted_mid) <= RepostThreshold
    <3>1. Mid # None /\ ~Moved
      BY <1>1, <2>1 DEF MustQuote, Mid
    <3>2. last_quoted_mid # None /\ ~(Distance(Mid, last_quoted_mid) > RepostThreshold)
      BY <3>1 DEF Moved
    <3>3. Distance(Mid, last_quoted_mid) \in Int /\ RepostThreshold \in Int
      BY <3>1, <3>2, MidFacts, NaiveAssumption DEF MMInv, Anchored, Distance
    <3> QED
      BY <3>2, <3>3
  <2> QED
    BY <1>1, <2>1 DEF Near, Mid, Distance
<1> QED
  BY <1>1, <1>2, <1>3, <1>4 DEF Strategy

LEMMA ReplaceQuotesStep ==
    ASSUME MMInv, ReplaceQuotes
    PROVE  QuoteInv' /\ Anchored' /\ Quoting' /\ Near' /\ UNCHANGED vars
<1>1. /\ Deciding /\ Mid # None /\ Requote(Around(Mid)) /\ UNCHANGED vars
      /\ UNCHANGED <<last_quoted_mid, book, pc>> /\ pc = "in_on_event"
      /\ quote' = Around(Mid)
  BY DEF ReplaceQuotes, MustQuote, Requote, Deciding, vars, loopvars
<1>2. Around(Mid) \in [Sides -> Int]
  BY <1>1, MidFacts, AroundFacts DEF MMInv
<1>3. QuoteInv' /\ todo' # <<>>
  BY <1>1, <1>2, RequoteStep DEF MMInv
<1>4. Quoting'
  BY <1>1 DEF Quoting, Mid, Around
<1> QED
  BY <1>1, <1>3, <1>4 DEF MMInv, Anchored, Near

LEMMA QuoteCallStep ==
    ASSUME MMInv, QuoteStep, UNCHANGED last_quoted_mid
    PROVE  /\ QuoteInv' /\ Anchored' /\ Quoting' /\ Near'
           /\ UNCHANGED vars \/ Strategy
<1>1. todo # <<>>
  BY DEF QuoteStep, CancelQuote, PlaceQuote, CallRaises
<1>2. pc # "collect"
  BY <1>1 DEF MMInv, QuoteInv, Replacing
<1> DEFINE Advanced == /\ QuoteInv' /\ todo' # <<>> /\ quote' = quote
                       /\ UNCHANGED vars \/ Strategy
                       /\ UNCHANGED book /\ (UNCHANGED pc \/ pc' = "raised")
<1>3. Advanced
  <2>1. ASSUME NEW side \in Sides, CancelQuote(side)
        PROVE  Advanced
    <3>1. UNCHANGED vars => UNCHANGED <<pc, book>>
      BY DEF vars, loopvars
    <3> QED
      BY <2>1, <3>1, CancelQuoteStep DEF MMInv
  <2>2. ASSUME NEW side \in Sides, PlaceQuote(side)
        PROVE  Advanced
    BY <2>2, PlaceQuoteStep, QuotesAskable DEF MMInv
  <2>3. ASSUME CallRaises
        PROVE  Advanced
    BY <2>3, CallRaisesStep DEF MMInv
  <2> QED
    BY <2>1, <2>2, <2>3 DEF QuoteStep
<1>4. Quoting'
  BY <1>1, <1>3 DEF MMInv, Quoting, Mid, Around
<1> QED
  BY <1>2, <1>3, <1>4 DEF MMInv, Anchored, Near

LEMMA FinishQuotesStep ==
    ASSUME MMInv, FinishQuotes
    PROVE  QuoteInv' /\ Anchored' /\ Quoting' /\ Near' /\ Strategy
<1>1. QuoteInv' /\ Turn = 5 /\ todo' = <<>> /\ Return
  BY EndQuotesStep DEF MMInv, FinishQuotes
<1>2. /\ todo # <<>> /\ last_quoted_mid' = Mid /\ UNCHANGED <<own, orders, book>>
  BY DEF FinishQuotes, EndQuotes, Return
<1>3. Mid # None /\ Mid \in Int /\ quote = Around(Mid)
  BY <1>2, MidFacts DEF MMInv, Quoting
<1>4. ASSUME NEW side \in Sides
      PROVE  own[side] # None /\ orders[own[side]].price = Around(Mid)[side]
  <2>1. own[side] \in Active /\ orders[own[side]].price = quote[side]
    BY <1>1, <1>2 DEF MMInv, QuoteInv, Replaced, PlaceTurn
  <2> QED
    BY <1>3, <2>1, OwnFacts DEF MMInv, Active
<1>5. Anchored'
  BY <1>2, <1>3, <1>4 DEF Anchored, Around
<1>6. Mid' = Mid
  BY <1>2 DEF Mid
<1>7. Distance(Mid, Mid) <= RepostThreshold
  BY <1>3, NaiveAssumption DEF Distance
<1>8. Near'
  BY <1>2, <1>3, <1>6, <1>7 DEF Near, Distance
<1> QED
  BY <1>1, <1>5, <1>8 DEF Quoting, Strategy

--------------------------------------------------------------------------------
LEMMA MMInvStep ==
    ASSUME MMInv, [MMNext]_mmvars
    PROVE  MMInv' /\ [Next]_vars
<1>1. CASE (Loop \/ NotifyFill) /\ UNCHANGED <<quotevars, last_quoted_mid>>
  <2>1. pc \notin {"in_on_event", "raised"} /\ pc' # "collect"
    BY <1>1 DEF Loop, Receive, Work, NotifyFill, TakeSnapshot, TakeTrade, StartEvent,
       EndOfStream, StreamFails, MatchOrder, EndMatch, RecordFills, CallOnFill, CallOnEvent,
       CollectMarketFills, MatchList, Applied, AllNotified, Unvisited
  <2>2. todo = <<>>
    BY <2>1 DEF MMInv, QuoteInv, Replacing
  <2>3. QuoteInv' /\ Anchored' /\ Quoting' /\ Near'
    BY <1>1, <2>1, <2>2, QuietMMStep
  <2> QED
    BY <1>1, <2>3, InvStep, BookQuotedStep DEF MMInv, Next
<1>2. CASE pc = "in_on_fill" /\ Return /\ UNCHANGED <<quotevars, last_quoted_mid>>
  <2>1. todo = <<>> /\ pc' # "collect"
    BY <1>2 DEF MMInv, QuoteInv, Replacing, Return
  <2>2. QuoteInv' /\ Anchored' /\ Quoting' /\ Near'
    BY <1>2, <2>1, QuietMMStep
  <2> QED
    BY <1>2, <2>2, InvStep, BookQuotedStep DEF MMInv, Next, Strategy
<1>3. CASE KeepQuotes
  BY <1>3, KeepQuotesStep, InvStep, BookQuotedStep DEF MMInv, Next
<1>4. CASE ReplaceQuotes
  BY <1>4, ReplaceQuotesStep, InvStep, BookQuotedStep DEF MMInv
<1>5. CASE QuoteStep /\ UNCHANGED last_quoted_mid
  BY <1>5, QuoteCallStep, InvStep, BookQuotedStep DEF MMInv, Next
<1>6. CASE FinishQuotes
  BY <1>6, FinishQuotesStep, InvStep, BookQuotedStep DEF MMInv, Next
<1>7. CASE UNCHANGED mmvars
  <2>1. /\ UNCHANGED vars /\ UNCHANGED quotevars /\ UNCHANGED <<orders, pc, n, book>>
        /\ UNCHANGED <<own, quote, todo, last_quoted_mid>>
    BY <1>7 DEF mmvars, vars, loopvars, quotevars
  <2>2. QuoteInv'
    BY <2>1, StillQuotes DEF MMInv
  <2>3. Anchored' /\ Quoting' /\ Near'
    <3>1. Anchored'
      BY <2>1 DEF MMInv, Anchored, NoQuote, Around
    <3>2. Quoting' /\ Near'
      BY <2>1 DEF MMInv, Quoting, Near, Mid, Around, Distance
    <3> QED
      BY <3>1, <3>2
  <2> QED
    BY <2>1, <2>2, <2>3, InvStep, BookQuotedStep DEF MMInv
<1> QED
  BY <1>1, <1>2, <1>3, <1>4, <1>5, <1>6, <1>7 DEF MMNext

LEMMA MMInvInit == MMInit => MMInv
<1> SUFFICES ASSUME MMInit
             PROVE  MMInv
  OBVIOUS
<1>1. /\ Inv /\ own = NoQuote /\ quote = NoQuote /\ todo = <<>> /\ last_quoted_mid = None
      /\ book.bid = None /\ pc = "next" /\ Active = {}
  BY InitInv DEF MMInit, QuoteInit, NoQuote, Init, OrderInit, Active
<1>2. QuoteInv
  <2>1. todo = SubSeq(Calls, 6, 5)
    BY <1>1, SubSeqEmpty
  <2>2. Tracking
    BY <1>1 DEF Tracking, NoQuote
  <2> QED
    BY <1>1, <2>1, <2>2 DEF QuoteInv, Remaining, Replacing, Replaced, Rejected
<1> QED
  BY <1>1, <1>2 DEF MMInv, BookQuoted, Anchored, Quoting, Near

LEMMA MMInvariance == MMSpec => []MMInv
  BY MMInvInit, MMInvStep, PTL DEF MMSpec

\* A run of the market maker is a run of Backtest: it calls the context only in
\* callbacks, at prices and sizes it may ask for, so that all that is proved of
\* Backtest holds of it.
THEOREM MarketMakerIsAStrategy == MMSpec => BacktestSpec
<1>1. MMInit => Init
  BY DEF MMInit
<1> QED
  BY <1>1, MMInvariance, MMInvStep, PTL DEF MMSpec, BacktestSpec, Spec

\* No quote is lost (market_maker.py:68-82): an active order is the one
\* remembered for its side, and what is remembered was never cancelled.
THEOREM NoQuoteLost == MMSpec => []QuotesTracked
  BY MMInvariance, QuotesAreTracked, PTL DEF MMInv

\* No cancel ends a run (market_maker.py:73-82): what the handler has placed or
\* remembered it may cancel at any time, and only a price that is not positive
\* lets an exception of a call leave run, with no stale quote in the book.
THEOREM RaisesExplained == MMSpec => []RaisesOnPriceOnly
<1>1. MMInv => RaisesOnPriceOnly
  BY RaisesAreExplained DEF MMInv
<1> QED
  BY <1>1, MMInvariance, PTL

\* An active quote rests near where a fresh one would (market_maker.py:58-71).
THEOREM QuotesAreNear == MMSpec => []QuotesFollowMid
<1>1. ASSUME MMInv, pc = "collect", Mid # None, NEW id \in Active
      PROVE  Distance(orders[id].price, Around(Mid)[orders[id].side]) <= RepostThreshold
  <2> DEFINE side == orders[id].side
             last == last_quoted_mid
  <2>1. todo = <<>> /\ last # None /\ Distance(Mid, last) <= RepostThreshold
    BY <1>1 DEF MMInv, QuoteInv, Replacing, Near
  <2>2. side \in Sides /\ own[side] = id
    BY <1>1, OwnFacts DEF MMInv
  <2>3. last \in Int /\ Mid \in Int
    BY <1>1, <2>1, MidFacts DEF MMInv, Anchored
  <2>4. orders[id].price = Around(last)[side]
    BY <1>1, <2>1, <2>2 DEF MMInv, Anchored
  <2>5. Distance(Around(last)[side], Around(Mid)[side]) <= RepostThreshold
    <3>1. HalfSpread \in Int /\ RepostThreshold \in Int
      BY NaiveAssumption
    <3>2. \A a, b, s, t \in Int :
             (IF a < b THEN b - a ELSE a - b) <= t =>
                /\ (IF b - s < a - s THEN (a - s) - (b - s) ELSE (b - s) - (a - s)) <= t
                /\ (IF b + s < a + s THEN (a + s) - (b + s) ELSE (b + s) - (a + s)) <= t
      OBVIOUS
    <3>3. /\ Distance(last - HalfSpread, Mid - HalfSpread) <= RepostThreshold
          /\ Distance(last + HalfSpread, Mid + HalfSpread) <= RepostThreshold
      BY <2>1, <2>3, <3>1, <3>2 DEF Distance
    <3> QED
      BY <2>2, <2>3, <3>3, AroundFacts DEF Sides
  <2> QED
    BY <2>4, <2>5
<1>2. MMInv => QuotesFollowMid
  BY <1>1 DEF QuotesFollowMid
<1> QED
  BY <1>2, MMInvariance, PTL

\* The module's docstring (market_maker.py:9): a side goes without a quote only
\* because its last one was filled.
THEOREM OnlyFillsUnquote == MMSpec => []UnquotedOnlyIfFilled
<1>1. ASSUME MMInv, pc = "collect", Mid # None, NEW side \in Sides
      PROVE  own[side] # None /\ (own[side] \in Active \/ orders[own[side]].status = "FILLED")
  <2>1. own[side] # None
    BY <1>1 DEF MMInv, QuoteInv, Replacing, Near, Anchored
  <2>2. own[side] \in DOMAIN orders /\ orders[own[side]].status # "CANCELLED"
    BY <1>1, <2>1 DEF MMInv, QuoteInv, Tracking, OfSide
  <2>3. orders[own[side]].status \in Statuses
    BY <1>1, <2>2, InvRecords DEF MMInv, Inv, OrderType
  <2> QED
    BY <2>1, <2>2, <2>3 DEF Active, IsActive, Statuses
<1>2. MMInv => UnquotedOnlyIfFilled
  BY <1>1 DEF UnquotedOnlyIfFilled
<1> QED
  BY <1>2, MMInvariance, PTL
================================================================================
