------------------------- MODULE TwoSidedQuotesProofs -------------------------
(* Proofs about the quotes both market makers keep, whatever makes them decide  *)
(* to replace them: the modules of the two strategies use these lemmas for      *)
(* their own specifications.                                                    *)
(*                                                                              *)
(* The inductive invariant is QuoteInv.  It says at which call of the handler   *)
(* the program is (Turn), that an active order is always the one remembered for *)
(* its side (Tracking), what the calls made so far have done (Replaced), and    *)
(* where the handler can have raised (Rejected).                                *)
EXTENDS TwoSidedQuotes, BacktestProofs, SequenceTheorems

CancelTurn(side) == IF side = "BUY" THEN 1 ELSE 2
PlaceTurn(side)  == IF side = "BUY" THEN 3 ELSE 4

\* Position in Calls of the next call; 6 when none is left.
Turn == 6 - Len(todo)

Remaining == \E turn \in 1 .. 6 : todo = SubSeq(Calls, turn, 5)

\* The handler's locals live as long as it has calls to make.
Replacing ==
    IF todo = <<>> THEN quote = NoQuote
                   ELSE pc \in {"in_on_event", "raised"} /\ quote \in [Sides -> Int]

Tracking ==
    /\ own \in [Sides -> Int \cup {None}]
    /\ \A id \in Active : own[orders[id].side] = id
    /\ \A side \in Sides :
          own[side] # None => own[side] \in OfSide(side) /\ orders[own[side]].status # "CANCELLED"

\* Between its two calls a side has no quote; after them a fresh one.
Replaced ==
    todo # <<>> =>
       \A side \in Sides :
          /\ CancelTurn(side) < Turn /\ Turn <= PlaceTurn(side) => own[side] = None
          /\ PlaceTurn(side) < Turn => /\ own[side] \in Active
                                       /\ orders[own[side]].ts = n
                                       /\ orders[own[side]].price = quote[side]

Rejected ==
    pc = "raised" => \E side \in Sides : Turn = PlaceTurn(side) /\ quote[side] <= 0

QuoteInv == Remaining /\ Replacing /\ Tracking /\ Replaced /\ Rejected

--------------------------------------------------------------------------------
(* The calls of the handler, in order.                                          *)

LEMMA CallsFacts ==
    /\ Calls \in Seq({Calls[i] : i \in 1 .. 5}) /\ Len(Calls) = 5
    /\ \A side \in Sides : Calls[CancelTurn(side)] = <<"cancel", side>>
    /\ \A side \in Sides : Calls[PlaceTurn(side)] = <<"place", side>>
    /\ Calls[5] = <<"return">>
<1>1. Len(Calls) = 5 /\ DOMAIN Calls = 1 .. 5
  BY DEF Calls
<1>2. /\ Calls[1] = <<"cancel", "BUY">> /\ Calls[2] = <<"cancel", "SELL">>
      /\ Calls[3] = <<"place", "BUY">> /\ Calls[4] = <<"place", "SELL">>
      /\ Calls[5] = <<"return">>
  BY DEF Calls
<1>3. Calls = [i \in 1 .. 5 |-> Calls[i]]
  BY <1>1 DEF Calls
<1>4. Calls \in Seq({Calls[i] : i \in 1 .. 5})
  BY <1>1, <1>3, SeqDef
<1> QED
  BY <1>1, <1>2, <1>4 DEF Sides, CancelTurn, PlaceTurn

\* No two calls are the same.
LEMMA CallsDiffer ==
    ASSUME NEW i \in 1 .. 5, NEW side \in Sides
    PROVE  /\ Calls[i] = <<"cancel", side>> => i = CancelTurn(side)
           /\ Calls[i] = <<"place", side>> => i = PlaceTurn(side)
           /\ Calls[i] = <<"return">> => i = 5
<1>1. /\ Calls[1] = <<"cancel", "BUY">> /\ Calls[2] = <<"cancel", "SELL">>
      /\ Calls[3] = <<"place", "BUY">> /\ Calls[4] = <<"place", "SELL">>
      /\ Calls[5] = <<"return">>
  BY DEF Calls
<1>2. i = 1 \/ i = 2 \/ i = 3 \/ i = 4 \/ i = 5
  OBVIOUS
<1>3. \A t : <<"return">> # <<t, "BUY">> /\ <<"return">> # <<t, "SELL">>
  <2>1. \A t, s : Len(<<"return">>) # Len(<<t, s>>)
    OBVIOUS
  <2> QED
    BY <2>1
<1>4. \A t, s, u, v : <<t, s>> = <<u, v>> => t = u /\ s = v
  OBVIOUS
<1> QED
  BY <1>1, <1>2, <1>3, <1>4 DEF Sides, CancelTurn, PlaceTurn

\* While calls are left, the next one is that of the turn; after it, the next turn.
LEMMA TurnFacts ==
    ASSUME Remaining
    PROVE  /\ Turn \in 1 .. 6
           /\ todo = <<>> <=> Turn = 6
           /\ todo # <<>> => /\ Turn \in 1 .. 5
                             /\ Head(todo) = Calls[Turn]
                             /\ todo' = Tail(todo) => Remaining' /\ Turn' = Turn + 1
<1>1. PICK turn \in 1 .. 6 : todo = SubSeq(Calls, turn, 5)
  BY DEF Remaining
<1>2. Calls \in Seq({Calls[i] : i \in 1 .. 5}) /\ Len(Calls) = 5
  BY CallsFacts
<1>3. \A m \in 1 .. 6 : Len(SubSeq(Calls, m, 5)) = 6 - m
  <2>1. ASSUME NEW m \in 1 .. 6
        PROVE  Len(SubSeq(Calls, m, 5)) = 6 - m
    <3>1. Len(SubSeq(Calls, m, 5)) = IF m <= 5 THEN 5 - m + 1 ELSE 0
      BY <1>2, SubSeqProperties
    <3> QED
      BY <3>1
  <2> QED
    BY <2>1
<1>4. Turn = turn
  BY <1>1, <1>3 DEF Turn
<1>5. turn = 6 => todo = <<>>
  BY <1>1, SubSeqEmpty
<1>6. todo = <<>> => Turn = 6
  BY DEF Turn
<1>7. ASSUME turn # 6
      PROVE  /\ Head(todo) = Calls[turn]
             /\ Tail(todo) = SubSeq(Calls, turn + 1, 5)
  BY <1>1, <1>2, <1>7, HeadTailOfSubSeq
<1>8. ASSUME turn # 6, todo' = Tail(todo)
      PROVE  Remaining' /\ Turn' = turn + 1
  <2>1. todo' = SubSeq(Calls, turn + 1, 5) /\ turn + 1 \in 1 .. 6
    BY <1>7, <1>8
  <2>2. Calls' = Calls
    BY DEF Calls
  <2>3. Remaining'
    BY <2>1, <2>2 DEF Remaining
  <2>4. Len(todo') = 6 - (turn + 1)
    BY <1>3, <2>1
  <2> QED
    BY <2>3, <2>4 DEF Turn
<1>9. Turn \in 1 .. 6 /\ (todo = <<>> <=> Turn = 6)
  BY <1>4, <1>5, <1>6
<1>10. CASE Turn = 6
  BY <1>9, <1>10
<1>11. CASE Turn # 6
  <2>1. Turn \in 1 .. 5 /\ turn # 6
    BY <1>4, <1>9, <1>11
  <2> QED
    BY <1>4, <1>7, <1>8, <1>9, <2>1
<1> QED
  BY <1>10, <1>11

\* The handler starts with all its calls.
LEMMA FirstTurn ==
    ASSUME todo' = Calls
    PROVE  Remaining' /\ Turn' = 1 /\ todo' # <<>>
<1>1. Calls \in Seq({Calls[i] : i \in 1 .. 5}) /\ Len(Calls) = 5
  BY CallsFacts
<1>2. todo' = SubSeq(Calls, 1, 5)
  BY <1>1, SubSeqFull
<1>3. Remaining'
  BY <1>2 DEF Remaining, Calls
<1> QED
  BY <1>1, <1>3 DEF Turn

--------------------------------------------------------------------------------
(* Steps that are not calls of the handler.                                     *)

\* The loop fills orders and cancels none; it keeps what was asked for.
LEMMA LoopOrders ==
    ASSUME Inv, Loop \/ NotifyFill \/ Return
    PROVE  /\ DOMAIN orders' = DOMAIN orders
           /\ \A id \in DOMAIN orders :
                 /\ orders'[id].side = orders[id].side
                 /\ orders'[id].price = orders[id].price
                 /\ IsActive(orders'[id]) => IsActive(orders[id])
                 /\ orders'[id].status = "CANCELLED" => orders[id].status = "CANCELLED"
<1>1. CASE UNCHANGED orders
  BY <1>1
<1>2. ASSUME NEW id \in resting, MatchFill(id)
      PROVE  /\ DOMAIN orders' = DOMAIN orders
             /\ \A i \in DOMAIN orders :
                   /\ orders'[i].side = orders[i].side
                   /\ orders'[i].price = orders[i].price
                   /\ IsActive(orders'[i]) => IsActive(orders[i])
                   /\ orders'[i].status = "CANCELLED" => orders[i].status = "CANCELLED"
  <2>1. /\ IsActive(orders[id])
        /\ \A i \in DOMAIN orders : orders[i] \in OrderType
        /\ DOMAIN orders = 1 .. (next_id - 1)
    BY <1>2, InvRecords DEF MatchFill, Inv, VolumeLeft
  <2>2. PICK filled_size, status :
           /\ orders' = [orders EXCEPT ![id].filled_size = filled_size, ![id].status = status]
           /\ status \in {"FILLED", "PARTIALLY_FILLED"}
    <3>1. CASE CountsVolume
      BY <1>2, <3>1 DEF MatchFill, PartialFill, VolumeLeft
    <3>2. CASE ~CountsVolume
      BY <1>2, <3>2 DEF MatchFill, FullFill, VolumeLeft
    <3> QED
      BY <3>1, <3>2
  <2>3. /\ DOMAIN orders' = DOMAIN orders
        /\ \A i \in DOMAIN orders :
              /\ orders'[i].side = orders[i].side
              /\ orders'[i].price = orders[i].price
              /\ i # id => orders'[i].status = orders[i].status
        /\ id \in DOMAIN orders => orders'[id].status = status
    BY <2>1, <2>2 DEF OrderType
  <2> QED
    BY <2>1, <2>2, <2>3 DEF IsActive
<1>3. ASSUME NEW id \in resting, MatchOrder(id)
      PROVE  UNCHANGED orders \/ MatchFill(id)
  BY <1>3 DEF MatchOrder, MatchSkip, Unvisited
<1> QED
  BY <1>1, <1>2, <1>3 DEF Loop, Receive, Work, NotifyFill, TakeSnapshot, TakeTrade,
     StartEvent, EndOfStream, StreamFails, EndMatch, RecordFills, CallOnFill, CallOnEvent,
     Return, CollectMarketFills, MatchList, Applied, AllNotified

\* Outside the handler quotes are remembered through every step of the loop.
LEMMA QuietQuotes ==
    ASSUME Inv, QuoteInv, todo = <<>>, UNCHANGED quotevars, Loop \/ NotifyFill \/ Return
    PROVE  QuoteInv' /\ pc' # "raised"
<1>1. UNCHANGED <<own, quote, todo>>
  BY DEF quotevars
<1>2. pc' # "raised"
  BY DEF Loop, Receive, Work, NotifyFill, TakeSnapshot, TakeTrade, StartEvent, EndOfStream,
     StreamFails, MatchOrder, EndMatch, RecordFills, CallOnFill, CallOnEvent, Return,
     CollectMarketFills, MatchList, Applied, AllNotified, Unvisited
<1>3. Active' \subseteq Active
  BY LoopOrders DEF Active
<1>4. Tracking'
  <2>1. \A id \in Active' : own'[orders'[id].side] = id
    BY <1>1, <1>3, LoopOrders DEF Active, QuoteInv, Tracking
  <2>2. ASSUME NEW side \in Sides, own'[side] # None
        PROVE  own'[side] \in OfSide(side)' /\ orders'[own'[side]].status # "CANCELLED"
    <3>1. own[side] \in OfSide(side) /\ orders[own[side]].status # "CANCELLED"
      BY <1>1, <2>2 DEF QuoteInv, Tracking
    <3> QED
      BY <1>1, <3>1, LoopOrders DEF OfSide
  <2> QED
    BY <1>1, <2>1, <2>2 DEF QuoteInv, Tracking
<1>5. Remaining'
  BY <1>1 DEF QuoteInv, Remaining, Calls
<1>6. Replacing' /\ Replaced'
  BY <1>1 DEF QuoteInv, Replacing, Replaced, NoQuote
<1> QED
  BY <1>2, <1>4, <1>5, <1>6 DEF QuoteInv, Rejected

\* Nothing changes.
LEMMA StillQuotes ==
    ASSUME QuoteInv, UNCHANGED vars, UNCHANGED quotevars
    PROVE  QuoteInv'
<1>1. UNCHANGED <<orders, pc, n, own, quote, todo>>
  BY DEF vars, loopvars, quotevars
<1>2. Remaining' /\ Replacing'
  BY <1>1 DEF QuoteInv, Remaining, Replacing, Calls, NoQuote
<1>3. Tracking'
  BY <1>1 DEF QuoteInv, Tracking, Active, OfSide
<1>4. Replaced' /\ Rejected'
  BY <1>1 DEF QuoteInv, Replaced, Rejected, Turn, Active
<1> QED
  BY <1>2, <1>3, <1>4 DEF QuoteInv

\* Nor is anything lost when the handler decides to replace its quotes.
LEMMA RequoteStep ==
    ASSUME Inv, QuoteInv, Deciding, NEW prices \in [Sides -> Int], Requote(prices)
    PROVE  QuoteInv' /\ todo' # <<>>
<1>1. /\ UNCHANGED <<own, orders, pc, n>> /\ quote' = prices /\ todo' = Calls
      /\ pc = "in_on_event"
  BY DEF Requote, Deciding, vars, loopvars
<1>2. Remaining' /\ Turn' = 1 /\ todo' # <<>>
  BY <1>1, FirstTurn
<1>3. Tracking'
  BY <1>1 DEF QuoteInv, Tracking, Active, OfSide
<1>4. Replaced'
  BY <1>2 DEF Replaced, CancelTurn, PlaceTurn
<1> QED
  BY <1>1, <1>2, <1>3, <1>4 DEF QuoteInv, Replacing, Rejected

\* The last call done, the handler returns.
LEMMA EndQuotesStep ==
    ASSUME Inv, QuoteInv, EndQuotes
    PROVE  QuoteInv' /\ Turn = 5 /\ todo' = <<>> /\ Return
<1>1. /\ todo # <<>> /\ Head(todo) = <<"return">> /\ Return
      /\ todo' = <<>> /\ quote' = NoQuote /\ UNCHANGED <<own, orders, n>>
      /\ pc' # "raised"
  BY DEF EndQuotes, Return
<1>2. Turn = 5
  BY <1>1, TurnFacts, CallsDiffer DEF QuoteInv, Sides
<1>3. Remaining'
  <2>1. todo' = SubSeq(Calls, 6, 5)
    BY <1>1, SubSeqEmpty
  <2> QED
    BY <2>1 DEF Remaining, Calls
<1>4. Tracking'
  BY <1>1 DEF QuoteInv, Tracking, Active, OfSide
<1> QED
  BY <1>1, <1>2, <1>3, <1>4 DEF QuoteInv, Replacing, Replaced, Rejected, NoQuote
--------------------------------------------------------------------------------
(* The calls of the handler.                                                    *)

LEMMA OwnFacts ==
    ASSUME Inv, QuoteInv
    PROVE  /\ DOMAIN own = Sides
           /\ \A id \in DOMAIN orders : id \in Int /\ id # None /\ orders[id].side \in Sides
           /\ \A id \in Active : id \in DOMAIN orders /\ own[orders[id].side] = id
           /\ None \notin Int
<1>1. \A id \in DOMAIN orders : id \in Int /\ orders[id] \in OrderType
  BY InvRecords DEF Inv
<1>2. \A id \in DOMAIN orders : id \in Int /\ id # None /\ orders[id].side \in Sides
  BY <1>1, BacktestAssumption DEF OrderType
<1>3. \A id \in Active : id \in DOMAIN orders /\ own[orders[id].side] = id
  BY DEF QuoteInv, Tracking, Active
<1> QED
  BY <1>2, <1>3, BacktestAssumption DEF QuoteInv, Tracking

LEMMA CancelQuoteStep ==
    ASSUME Inv, QuoteInv, NEW side \in Sides, CancelQuote(side)
    PROVE  /\ QuoteInv' /\ todo' # <<>> /\ quote' = quote
           /\ UNCHANGED vars \/ (Strategy /\ UNCHANGED <<pc, n, event, book>>)
<1>1. /\ todo # <<>> /\ Head(todo) = <<"cancel", side>> /\ todo' = Tail(todo)
      /\ own' = [own EXCEPT ![side] = None] /\ quote' = quote
      /\ UNCHANGED orders \/ CtxCancel(own[side])
      /\ UNCHANGED <<pc, n, event, book>>
  BY DEF CancelQuote, CtxCancel, ContextCall, vars, loopvars
<1>2. Turn = CancelTurn(side) /\ Turn' = Turn + 1 /\ Remaining'
  BY <1>1, TurnFacts, CallsDiffer DEF QuoteInv
<1>3. Turn \in 1 .. 2 /\ Turn' \in 2 .. 3 /\ todo' # <<>>
  <2>1. Turn' # 6
    BY <1>2 DEF CancelTurn
  <2>2. todo' # <<>>
    BY <2>1 DEF Turn
  <2> QED
    BY <1>2, <2>2 DEF CancelTurn
<1>4. pc = "in_on_event" /\ pc' = "in_on_event"
  BY <1>1, <1>3 DEF QuoteInv, Replacing, Rejected, PlaceTurn
<1>5. UNCHANGED vars \/ Strategy
  BY DEF CancelQuote, CtxCancel, Cancel, Strategy, StrategyCall
<1>6. /\ DOMAIN orders' = DOMAIN orders
      /\ \A id \in DOMAIN orders :
            /\ orders'[id].side = orders[id].side
            /\ own[side] # id => orders'[id] = orders[id]
      /\ own[side] \in DOMAIN orders => ~IsActive(orders'[own[side]])
  <2>1. CASE Skipped(side)
    BY <2>1, OwnFacts DEF CancelQuote, Skipped, CancelError, Forgiven, vars
  <2>2. CASE ~Skipped(side)
    <3>1. /\ own[side] \in DOMAIN orders
          /\ orders' = [orders EXCEPT ![own[side]].status = "CANCELLED"]
      BY <2>2 DEF CancelQuote, CtxCancel, Cancel
    <3>2. orders[own[side]] \in OrderType
      BY <3>1, InvRecords DEF Inv
    <3>3. /\ orders'[own[side]].side = orders[own[side]].side
          /\ orders'[own[side]].status = "CANCELLED"
      BY <3>1, <3>2 DEF OrderType
    <3> QED
      BY <3>1, <3>3 DEF IsActive
  <2> QED
    BY <2>1, <2>2
<1>7. \A id \in Active' : id \in Active /\ orders'[id] = orders[id] /\ orders[id].side # side
  BY <1>6, OwnFacts DEF Active
<1>8. \A s \in Sides : own'[s] = IF s = side THEN None ELSE own[s]
  BY <1>1, OwnFacts
<1>9. Tracking'
  <2>1. own' \in [Sides -> Int \cup {None}]
    BY <1>1 DEF QuoteInv, Tracking
  <2>2. \A id \in Active' : own'[orders'[id].side] = id
    BY <1>7, <1>8, OwnFacts
  <2>3. ASSUME NEW s \in Sides, own'[s] # None
        PROVE  own'[s] \in OfSide(s)' /\ orders'[own'[s]].status # "CANCELLED"
    <3>1. s # side /\ own'[s] = own[s]
      BY <1>8, <2>3
    <3>2. own[s] \in OfSide(s) /\ orders[own[s]].status # "CANCELLED"
      BY <2>3, <3>1 DEF QuoteInv, Tracking
    <3>3. own[s] # own[side]
      BY <2>3, <3>1, <3>2 DEF QuoteInv, Tracking, OfSide
    <3> QED
      BY <1>6, <3>1, <3>2, <3>3 DEF OfSide
  <2> QED
    BY <2>1, <2>2, <2>3 DEF Tracking
<1>10. Replaced'
  <2>1. \A s \in Sides : CancelTurn(s) < Turn' => own'[s] = None
    BY <1>1, <1>2, <1>8 DEF QuoteInv, Replaced, CancelTurn, PlaceTurn, Sides
  <2>2. \A s \in Sides : ~(PlaceTurn(s) < Turn')
    BY <1>3 DEF PlaceTurn
  <2> QED
    BY <2>1, <2>2 DEF Replaced
<1>11. Replacing' /\ Rejected'
  BY <1>1, <1>3, <1>4 DEF QuoteInv, Replacing, Rejected
<1> QED
  BY <1>1, <1>2, <1>3, <1>5, <1>9, <1>10, <1>11 DEF QuoteInv

\* Prices holds what the handler asks for.
Askable == todo # <<>> => \A side \in Sides : quote[side] > 0 => quote[side] \in Prices

LEMMA PlaceQuoteStep ==
    ASSUME Inv, QuoteInv, Askable, NEW side \in Sides, PlaceQuote(side)
    PROVE  /\ QuoteInv' /\ todo' # <<>> /\ quote' = quote
           /\ Strategy /\ UNCHANGED <<pc, n, event, book>>
<1> DEFINE o == NewOrder(side, quote[side], QuoteSize, n)
<1>1. /\ todo # <<>> /\ Head(todo) = <<"place", side>> /\ todo' = Tail(todo)
      /\ own' = [own EXCEPT ![side] = next_id] /\ quote' = quote
      /\ CtxPlace(side, quote[side], QuoteSize)
      /\ UNCHANGED <<pc, n, event, book>> /\ InCallback
  BY DEF PlaceQuote, CtxPlace, ContextCall, Remembered
<1>2. Turn = PlaceTurn(side) /\ Turn' = Turn + 1 /\ Remaining'
  BY <1>1, TurnFacts, CallsDiffer DEF QuoteInv
<1>3. Turn \in 3 .. 4 /\ Turn' \in 4 .. 5 /\ todo' # <<>>
  <2>1. Turn' # 6
    BY <1>2 DEF PlaceTurn
  <2>2. todo' # <<>>
    BY <2>1 DEF Turn
  <2> QED
    BY <1>2, <2>2 DEF PlaceTurn
<1>4. /\ pc = "in_on_event" /\ pc' = "in_on_event" /\ quote \in [Sides -> Int]
  BY <1>1 DEF QuoteInv, Replacing, InCallback
<1>5. quote[side] \in Int /\ quote[side] > 0 /\ QuoteSize \in Int /\ QuoteSize > 0
  BY <1>1, <1>4, QuoteAssumption, OrderAssumption DEF CtxPlace, Place
<1>6. Strategy
  BY <1>1, <1>5, QuoteAssumption DEF Askable, Strategy, StrategyCall
<1>7. n \in Times
  BY DEF Inv, LoopTypeOK, Idle
<1>8. o \in OrderType
  BY <1>5, <1>7, NewOrderFacts
<1>9. o.side = side /\ o.price = quote[side] /\ o.ts = n /\ o.status = "NEW"
  BY DEF NewOrder
<1>10. Insert(o)
  BY <1>1 DEF CtxPlace, Place
<1> HIDE DEF o
<1>11. /\ DOMAIN orders' = DOMAIN orders \cup {next_id}
       /\ next_id \notin DOMAIN orders /\ orders'[next_id] = o
       /\ \A id \in DOMAIN orders : orders'[id] = orders[id]
       /\ next_id \in Int
  <2>1. OrderTypeOK /\ next_id \in Int
    BY DEF Inv, OrderInv, OrderTypeOK
  <2> QED
    BY <1>8, <1>10, <2>1, InsertFacts
<1>12. own[side] = None
  BY <1>1, <1>2 DEF QuoteInv, Replaced, CancelTurn, PlaceTurn
<1>13. \A s \in Sides : own'[s] = IF s = side THEN next_id ELSE own[s]
  BY <1>1, OwnFacts
<1>14. next_id \in Active' /\ \A id \in Active' : id = next_id \/ id \in Active
  BY <1>9, <1>11 DEF Active, IsActive
<1>15. Tracking'
  <2>1. own' \in [Sides -> Int \cup {None}]
    BY <1>1, <1>11 DEF QuoteInv, Tracking
  <2>2. ASSUME NEW id \in Active
        PROVE  orders'[id] = orders[id] /\ orders[id].side # side
    BY <1>11, <1>12, OwnFacts
  <2>3. \A id \in Active' : own'[orders'[id].side] = id
    BY <1>9, <1>11, <1>13, <1>14, <2>2, OwnFacts
  <2>4. ASSUME NEW s \in Sides, own'[s] # None
        PROVE  own'[s] \in OfSide(s)' /\ orders'[own'[s]].status # "CANCELLED"
    <3>1. CASE s = side
      BY <1>9, <1>11, <1>13, <3>1 DEF OfSide
    <3>2. CASE s # side
      BY <1>11, <1>13, <2>4, <3>2 DEF QuoteInv, Tracking, OfSide
    <3> QED
      BY <3>1, <3>2
  <2> QED
    BY <2>1, <2>3, <2>4 DEF Tracking
<1>16. Replaced'
  <2>1. ASSUME NEW s \in Sides, s # side
        PROVE  /\ CancelTurn(s) < Turn' /\ Turn' <= PlaceTurn(s) => own'[s] = None
               /\ PlaceTurn(s) < Turn' => /\ own'[s] \in Active'
                                          /\ orders'[own'[s]].ts = n'
                                          /\ orders'[own'[s]].price = quote'[s]
    <3>1. own'[s] = own[s]
      BY <1>13, <2>1
    <3>2. CASE side = "BUY"
      BY <1>1, <1>2, <2>1, <3>1, <3>2 DEF QuoteInv, Replaced, CancelTurn, PlaceTurn, Sides
    <3>3. CASE side = "SELL"
      <4>1. /\ own[s] \in Active /\ orders[own[s]].ts = n /\ orders[own[s]].price = quote[s]
            /\ Turn' = 5 /\ PlaceTurn(s) = 3
        BY <1>1, <1>2, <2>1, <3>3 DEF QuoteInv, Replaced, PlaceTurn, Sides
      <4>2. own[s] \in Active' /\ orders'[own[s]] = orders[own[s]]
        BY <1>11, <4>1 DEF Active
      <4> QED
        BY <1>1, <3>1, <4>1, <4>2
    <3> QED
      BY <3>2, <3>3 DEF Sides
  <2>2. ~(Turn' <= PlaceTurn(side))
    BY <1>2, <1>3
  <2>3. /\ own'[side] \in Active' /\ orders'[own'[side]].ts = n'
        /\ orders'[own'[side]].price = quote'[side]
    BY <1>1, <1>9, <1>11, <1>13, <1>14
  <2> QED
    BY <2>1, <2>2, <2>3 DEF Replaced
<1>17. Replacing' /\ Rejected'
  BY <1>1, <1>3, <1>4 DEF QuoteInv, Replacing, Rejected
<1> QED
  BY <1>1, <1>2, <1>3, <1>6, <1>15, <1>16, <1>17 DEF QuoteInv

\* No cancel raises what is not forgiven: the order remembered is known.
LEMMA CancelsDoNotEscape ==
    ASSUME QuoteInv, NEW side \in Sides, own[side] # None
    PROVE  CancelError(own[side]) \in Forgiven \cup {"none"}
<1>1. own[side] \in DOMAIN orders
  BY DEF QuoteInv, Tracking, OfSide
<1> QED
  BY <1>1 DEF CancelError, Forgiven

LEMMA CallRaisesStep ==
    ASSUME Inv, QuoteInv, CallRaises
    PROVE  /\ QuoteInv' /\ todo' # <<>> /\ quote' = quote
           /\ Strategy /\ pc' = "raised" /\ UNCHANGED <<n, event, book>>
<1>1. /\ todo # <<>> /\ Raise /\ pc' = "raised" /\ UNCHANGED <<n, event, book, orders>>
      /\ UNCHANGED <<own, quote, todo>>
  BY DEF CallRaises, Raise, quotevars
<1>2. PICK side \in Sides : Turn = PlaceTurn(side) /\ Turn' = Turn /\ quote[side] <= 0
  <2>1. PICK side \in Sides : Head(todo) = <<"place", side>> /\ quote[side] <= 0
    BY CancelsDoNotEscape DEF CallRaises, Escapes
  <2> QED
    BY <1>1, <2>1, TurnFacts, CallsDiffer DEF QuoteInv, Turn
<1>3. Remaining' /\ Tracking' /\ Replaced'
  <2>1. Remaining'
    BY <1>1 DEF QuoteInv, Remaining, Calls
  <2>2. Tracking'
    BY <1>1 DEF QuoteInv, Tracking, Active, OfSide
  <2>3. Replaced'
    BY <1>1, <1>2 DEF QuoteInv, Replaced, Active
  <2> QED
    BY <2>1, <2>2, <2>3
<1>4. Replacing' /\ Rejected'
  BY <1>1, <1>2 DEF QuoteInv, Replacing, Rejected
<1> QED
  BY <1>1, <1>3, <1>4 DEF QuoteInv, Strategy

--------------------------------------------------------------------------------
(* What the invariant says of the properties both strategies have.              *)

LEMMA QuotesAreTracked == QuoteInv => QuotesTracked
  BY DEF QuoteInv, Tracking, QuotesTracked

\* When place raises, what the handler has placed is all there is in the book.
LEMMA RaisesAreExplained ==
    ASSUME Inv, QuoteInv
    PROVE  RaisesOnPriceOnly
<1> SUFFICES ASSUME pc = "raised"
             PROVE  /\ \E side \in Sides : quote[side] # None /\ quote[side] <= 0
                    /\ \A id \in Active : orders[id].ts = n
  BY DEF RaisesOnPriceOnly
<1>1. PICK side \in Sides : Turn = PlaceTurn(side) /\ quote[side] <= 0
  BY DEF QuoteInv, Rejected
<1>2. todo # <<>>
  BY <1>1, TurnFacts DEF QuoteInv, PlaceTurn
<1>3. quote[side] # None
  BY <1>2, OwnFacts DEF QuoteInv, Replacing
<1>4. ASSUME NEW id \in Active
      PROVE  orders[id].ts = n
  <2>1. own[orders[id].side] = id /\ id # None /\ orders[id].side \in Sides
    BY OwnFacts
  <2>2. PlaceTurn(orders[id].side) < Turn
    BY <1>1, <1>2, <2>1 DEF QuoteInv, Replaced, CancelTurn, PlaceTurn, Sides
  <2> QED
    BY <1>2, <2>1, <2>2 DEF QuoteInv, Replaced
<1> QED
  BY <1>1, <1>3, <1>4
================================================================================
