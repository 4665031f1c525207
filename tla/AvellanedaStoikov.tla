-------------------------- MODULE AvellanedaStoikov ---------------------------
(* The backtest with strategies/avellaneda_stoikov.py: two quotes around a      *)
(* reservation price that leans against the inventory the strategy counts in    *)
(* on_fill.                                                                     *)
(*                                                                              *)
(* Data abstraction.  The inventory component gamma * sigma^2 * dt, for a       *)
(* positive dt, is an even number: 0 when the mid moved by the same amount      *)
(* throughout the window, else any of Risks.  The arrival component of the      *)
(* spread is an even number too: ConfiguredArrival for the configured k, any of *)
(* Arrivals for an estimated k.                                                 *)
EXTENDS TwoSidedQuotes, Functions

CONSTANTS
    Risks,            \* positive values of gamma * sigma^2 * dt
    Arrivals,         \* values of (2 / gamma) * ln(1 + gamma / k), k estimated
    ConfiguredArrival,\* its value for the parameter k
    SigmaWindow,      \* _sigma_window
    KWindow,          \* _k_window
    RepostThreshold   \* _repost_threshold

ASSUME StoikovAssumption ==
    /\ \A i \in Risks \cup Arrivals \cup {ConfiguredArrival} : i \in Nat \ {0} /\ i % 2 = 0
    /\ SigmaWindow \in Nat
    /\ KWindow \in Nat
    /\ RepostThreshold \in Nat

VARIABLES
    inventory,        \* _inventory
    mid_history,      \* _mid_history, a deque of at most SigmaWindow mids
    trade_deltas,     \* _trade_deltas, a deque of at most KWindow distances
    last_reservation, \* _last_reservation
    reservation       \* the handler's local, alive while it quotes

asvars == <<inventory, mid_history, trade_deltas, last_reservation, reservation>>

Distance(a, b) == IF a < b THEN b - a ELSE a - b

ASInit ==
    /\ Init
    /\ QuoteInit
    /\ inventory = 0
    /\ mid_history = <<>>
    /\ trade_deltas = <<>>
    /\ last_reservation = None
    /\ reservation = None

Counted_Bad(id) == orders[id].size     \* the order's whole size is counted

Counted(id) == fills[id]

\* on_fill counts the fill it is given.
OnFill(id) ==
    /\ CallOnFill(id)
    /\ inventory' = IF orders[id].side = "BUY" THEN inventory + Counted(id)
                                               ELSE inventory - Counted(id)
    /\ UNCHANGED <<quotevars, mid_history, trade_deltas, last_reservation, reservation>>

\* deque.append: the oldest entry makes room when the deque is full.
Appended(window, max, entry) ==
    LET all == Append(window, entry) IN
       IF Len(all) > max THEN Tail(all) ELSE all

\* sigma = 0: all changes of the mid are equal.
Steady(mids) ==
    \A i, j \in 2 .. Len(mids) : mids[i] - mids[i - 1] = mids[j] - mids[j - 1]

RiskOf(mids) == IF Steady(mids) THEN {0} ELSE Risks

\* k is estimated from two trades on, unless all were at the mid.
ArrivalOf(deltas) ==
    IF Len(deltas) < 2 \/ Range(deltas) = {0} THEN {ConfiguredArrival} ELSE Arrivals

Moved(price) ==
    IF last_reservation = None THEN TRUE
                               ELSE Distance(price, last_reservation) > RepostThreshold

\* Without a mid both handlers do nothing.
IgnoreEvent ==
    /\ Deciding
    /\ Mid = None
    /\ Return
    /\ UNCHANGED <<quotevars, asvars>>

OnTrade ==
    /\ Deciding
    /\ event.kind = "trade" /\ Mid # None
    /\ trade_deltas' = Appended(trade_deltas, KWindow, Distance(event.price, Mid))
    /\ Return
    /\ UNCHANGED <<quotevars, inventory, mid_history, last_reservation, reservation>>

OnMid ==
    /\ Deciding
    /\ event.kind = "snapshot" /\ Mid # None
    /\ mid_history' = Appended(mid_history, SigmaWindow, Mid)
    /\ UNCHANGED <<inventory, trade_deltas, last_reservation>>

ReservationPrice_Bad(risk) == Mid + inventory * risk      \* leans the wrong way

ReservationPrice(risk) == Mid - inventory * risk

\* Too few mids to estimate sigma, or the reservation price has hardly moved.
KeepQuotes ==
    /\ OnMid
    /\ Len(mid_history') >= 2
          => \E risk \in RiskOf(mid_history') : ~Moved(ReservationPrice(risk))
    /\ Return
    /\ UNCHANGED <<quotevars, reservation>>

ReplaceQuotes ==
    /\ OnMid
    /\ Len(mid_history') >= 2
    /\ \E risk \in RiskOf(mid_history'), arrival \in ArrivalOf(trade_deltas) :
          LET half == (risk + arrival) \div 2 IN
             /\ reservation' = ReservationPrice(risk)
             /\ Moved(reservation')
             /\ Requote([side \in Sides |-> IF side = "BUY" THEN reservation' - half
                                                            ELSE reservation' + half])

FinishQuotes ==
    /\ EndQuotes
    /\ last_reservation' = reservation
    /\ reservation' = None
    /\ UNCHANGED <<inventory, mid_history, trade_deltas>>

ASNext ==
    \/ Loop /\ UNCHANGED <<quotevars, asvars>>
    \/ \E id \in to_notify : OnFill(id)
    \/ pc = "in_on_fill" /\ Return /\ UNCHANGED <<quotevars, asvars>>
    \/ IgnoreEvent
    \/ OnTrade
    \/ KeepQuotes
    \/ ReplaceQuotes
    \/ QuoteStep /\ UNCHANGED asvars
    \/ FinishQuotes

allvars == <<vars, quotevars, asvars>>

ASSpec == ASInit /\ [][ASNext]_allvars

\* The program is one thread, which goes on as long as it has anything to do.
FairASSpec == ASSpec /\ WF_allvars(ASNext)

--------------------------------------------------------------------------------
\* Three accounts of one position agree whenever the strategy is asked for
\* quotes: its own count of on_fill calls, what its orders say was filled, and
\* what the recorder reports as ctx.position.  They are kept by different code
\* from different fields, and quotes lean on the first while the report and the
\* PnL rest on the last.
InventoryAgrees ==
    pc = "in_on_event" =>
       /\ inventory = Position
       /\ inventory = Signed(recorded)

\* Quotes lean against the position the orders add up to, on either side of it
\* and after any sequence of partial fills and reposts: when the handler decides,
\* strictly unless the mid was steady; and when it has let its quotes rest, they
\* lean up to RepostThreshold, although the position or the mid may have changed
\* since they were placed.
Lean(centre2, slack, strictly) ==     \* twice the centre, as prices are whole
    /\ Position > 0 => centre2 <= 2 * (Mid + slack) /\ (strictly => centre2 # 2 * Mid)
    /\ Position < 0 => centre2 >= 2 * (Mid - slack) /\ (strictly => centre2 # 2 * Mid)

QuotesLean ==
    /\ quote["BUY"] # None =>
          Lean(quote["BUY"] + quote["SELL"], 0, ~Steady(mid_history))
    /\ pc = "collect" /\ event.kind = "snapshot" =>
          \A buy, sell \in Active :
             orders[buy].side = "BUY" /\ orders[sell].side = "SELL" =>
                Lean(orders[buy].price + orders[sell].price, RepostThreshold, FALSE)

\* Whatever this strategy does, a strategy may do: its runs are runs of Backtest.
BacktestSpec == Spec
================================================================================
