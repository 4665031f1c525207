-------------------------------- MODULE Metrics --------------------------------
(* The recorder and its three trackers (metrics/recorder.py, pnl.py,            *)
(* inventory.py, turnover.py), fed fill by fill as Backtest.run feeds them, and *)
(* the statistics the report derives from the snapshots (reporting/report.py).  *)
(*                                                                              *)
(* Data abstraction.  Prices, mids and sizes are integers; an average entry     *)
(* price is the exact rational, where the code has a float.  The ratio the      *)
(* report calls Sharpe is left out.                                             *)
EXTENDS Integers, Sequences, SequencesExt

CONSTANTS
    Prices,           \* prices of fills
    Sizes,            \* sizes of fills
    Mids,             \* mids the recorder is given
    MaxSnapshots      \* bound: snapshots of a run

ASSUME MetricsAssumption ==
    /\ Prices \subseteq Nat \ {0}
    /\ Sizes \subseteq Nat \ {0}
    /\ Mids \subseteq Nat \ {0}
    /\ MaxSnapshots \in Nat

VARIABLES
    fed,              \* fills given to the recorder so far
    mid,              \* mid it was last given
    position,         \* PnLTracker._position
    avg_entry_price,  \* PnLTracker._avg_entry_price
    realized_pnl,     \* PnLTracker._realized_pnl
    unrealized_pnl,   \* PnLTracker._unrealized_pnl
    inventory,        \* InventoryTracker._position
    peak_long,        \* InventoryTracker._peak_long
    peak_short,       \* InventoryTracker._peak_short
    turnover,         \* TurnoverTracker: [notional, fill_count]
    snapshots         \* MetricsRecorder._snapshots

pnlvars   == <<position, avg_entry_price, realized_pnl>>
trackvars == <<inventory, peak_long, peak_short, turnover>>
vars == <<fed, mid, pnlvars, unrealized_pnl, trackvars, snapshots>>

Fills == [side : {"BUY", "SELL"}, price : Prices, size : Sizes]

--------------------------------------------------------------------------------
(* Rational numbers, in lowest terms.                                           *)

Abs(i) == IF i < 0 THEN -i ELSE i

Larger(a, b) == IF a < b THEN b ELSE a

Ratio(num, den) ==
    LET common == {d \in 1 .. den : num % d = 0 /\ den % d = 0}
        gcd == Max(common)
    IN  [num |-> num \div gcd, den |-> den \div gcd]

Whole(i)    == [num |-> i, den |-> 1]
Plus(a, b)  == Ratio(a.num * b.den + b.num * a.den, a.den * b.den)
Minus(a, b) == Plus(a, [num |-> -b.num, den |-> b.den])
Scaled(i, a) == Ratio(i * a.num, a.den)
Below(a, b) == a.num * b.den < b.num * a.den
Zero        == Whole(0)

--------------------------------------------------------------------------------
(* PnLTracker.                                                                  *)

Signed(fill) == IF fill.side = "BUY" THEN fill.size ELSE -fill.size

SameSign(a, b) == (a > 0 /\ b > 0) \/ (a < 0 /\ b < 0)

\* Quantity of the fill that closes part of the position.
Closed(fill) ==
    IF position = 0 \/ SameSign(position, Signed(fill)) THEN 0
    ELSE IF fill.size < Abs(position) THEN fill.size ELSE Abs(position)

RealizedAfter(fill) ==
    LET gain == IF position > 0 THEN Minus(Whole(fill.price), avg_entry_price)
                                ELSE Minus(avg_entry_price, Whole(fill.price))
    IN  Plus(realized_pnl, Scaled(Closed(fill), gain))

Blended_Bad(fill) == Whole(fill.price)       \* the new price replaces the average

\* The average over a position that the fill makes larger.
Blended(fill) ==
    LET cost == Plus(Scaled(Abs(position), avg_entry_price), Whole(fill.price * fill.size))
    IN  Ratio(cost.num, cost.den * (Abs(position) + fill.size))

Reduced_Bad(after) == position # 0           \* a flip through zero keeps the old basis

Reduced(after) == SameSign(after, position)

\* The cost basis: fresh from flat or after a flip, blended when the position
\* grows, kept when it shrinks, cleared when it closes.
EntryAfter(fill) ==
    LET after == position + Signed(fill) IN
       IF after = 0 THEN Zero
       ELSE IF SameSign(position, Signed(fill)) THEN Blended(fill)
       ELSE IF Reduced(after) THEN avg_entry_price
       ELSE Whole(fill.price)

\* mark_to_market
MarkToMarket(m) ==
    unrealized_pnl' =
       IF position' = 0 THEN Zero
       ELSE IF position' > 0
         THEN Scaled(position', Minus(Whole(m), avg_entry_price'))
         ELSE Scaled(-position', Minus(avg_entry_price', Whole(m)))

--------------------------------------------------------------------------------
(* MetricsRecorder.                                                             *)

\* _take_snapshot
TakeSnapshot ==
    snapshots' = Append(snapshots,
       [realized   |-> realized_pnl',
        unrealized |-> unrealized_pnl',
        total      |-> Plus(realized_pnl', unrealized_pnl'),
        inventory  |-> inventory',
        turnover   |-> turnover'.notional,
        fill_count |-> turnover'.fill_count])

Init ==
    /\ fed = <<>>
    /\ mid = 0
    /\ position = 0
    /\ avg_entry_price = Zero
    /\ realized_pnl = Zero
    /\ unrealized_pnl = Zero
    /\ inventory = 0
    /\ peak_long = 0
    /\ peak_short = 0
    /\ turnover = [notional |-> 0, fill_count |-> 0]
    /\ snapshots = <<>>

TrackInventory_Bad(fill) ==        \* the peak is taken before the fill is added
    /\ inventory' = inventory + Signed(fill)
    /\ peak_long' = Larger(peak_long, inventory)
    /\ peak_short' = Larger(peak_short, -inventory)

\* InventoryTracker.on_fill
TrackInventory(fill) ==
    /\ inventory' = inventory + Signed(fill)
    /\ peak_long' = Larger(peak_long, inventory')
    /\ peak_short' = Larger(peak_short, -inventory')

\* TurnoverTracker.on_fill
TrackTurnover(fill) ==
    turnover' = [notional   |-> turnover.notional + fill.price * fill.size,
                 fill_count |-> turnover.fill_count + 1]

\* MetricsRecorder.on_fill: every tracker, then a snapshot.
OnFill(fill, m) ==
    /\ Len(snapshots) < MaxSnapshots
    /\ fed' = Append(fed, fill)
    /\ mid' = m
    /\ position' = position + Signed(fill)
    /\ realized_pnl' = RealizedAfter(fill)
    /\ avg_entry_price' = EntryAfter(fill)
    /\ MarkToMarket(m)
    /\ TrackInventory(fill)
    /\ TrackTurnover(fill)
    /\ TakeSnapshot

\* MetricsRecorder.snapshot: the position is marked and recorded without a fill.
Snapshot(m) ==
    /\ Len(snapshots) < MaxSnapshots
    /\ mid' = m
    /\ UNCHANGED <<fed, pnlvars, trackvars>>
    /\ MarkToMarket(m)
    /\ TakeSnapshot

Next ==
    \/ \E fill \in Fills, m \in Mids : OnFill(fill, m)
    \/ \E m \in Mids : Snapshot(m)

Spec == Init /\ [][Next]_vars

--------------------------------------------------------------------------------
(* compute_summary (reporting/report.py).                                       *)

Turn_Bad(acc, s) ==                \* the peak is never raised
    LET drop == Minus(acc.peak, s.total)
    IN  [acc EXCEPT !.max_dd = IF Below(@, drop) THEN drop ELSE @]

\* One turn of the loop: the running peak of the total and the largest drop
\* below it.
Turn(acc, s) ==
    LET peak == IF Below(acc.peak, s.total) THEN s.total ELSE acc.peak
        drop == Minus(peak, s.total)
    IN  [peak |-> peak, max_dd |-> IF Below(acc.max_dd, drop) THEN drop ELSE acc.max_dd]

\* The loop; the code starts the peak below every number, so that the first
\* total becomes it.
MaxDrawdown(snaps) ==
    LET loop[i \in 0 .. Len(snaps)] ==
           IF i = 0 THEN [peak |-> snaps[1].total, max_dd |-> Zero]
                    ELSE Turn(loop[i - 1], snaps[i])
    IN  IF snaps = <<>> THEN Zero ELSE loop[Len(snaps)].max_dd

SumOf(values) ==
    LET sum[i \in 0 .. Len(values)] == IF i = 0 THEN 0 ELSE sum[i - 1] + values[i]
    IN  sum[Len(values)]

AbsInventories(snaps) == [i \in DOMAIN snaps |-> Abs(snaps[i].inventory)]

PeakAbsInventory(snaps) ==
    IF snaps = <<>> THEN 0 ELSE Max(Range(AbsInventories(snaps)))

AvgAbsInventory(snaps) ==
    IF snaps = <<>> THEN Zero
                    ELSE Ratio(SumOf(AbsInventories(snaps)), Len(snaps))

\* What the report says of the whole run is the last snapshot.
Final(snaps) ==
    IF snaps = <<>>
      THEN [realized |-> Zero, unrealized |-> Zero, total |-> Zero,
            turnover |-> 0, fill_count |-> 0]
      ELSE [field \in {"realized", "unrealized", "total", "turnover", "fill_count"} |->
               Last(snaps)[field]]

--------------------------------------------------------------------------------
(* Properties.                                                                  *)

\* What all fills come to: shares, cash and notional.
Bought == SumOf([i \in DOMAIN fed |-> Signed(fed[i])])
Cash   == SumOf([i \in DOMAIN fed |-> -(Signed(fed[i]) * fed[i].price)])
Traded == SumOf([i \in DOMAIN fed |-> fed[i].price * fed[i].size])

\* Average-cost accounting invents no money: through any sequence of opening,
\* adding, reducing and flipping fills, the realized and unrealized PnL together
\* are the cash paid and received plus the position at the mid.
TotalIsCashPlusStock ==
    Plus(realized_pnl, unrealized_pnl) = Whole(Cash + position * mid)

\* The average entry price is an average of entries: it never leaves the range
\* of the prices paid (received) by fills on the position's own side.
EntryIsAnAverage ==
    LET entries == {fed[i].price : i \in {j \in DOMAIN fed : SameSign(Signed(fed[j]), position)}} IN
       /\ position # 0 =>
             /\ \E price \in entries : ~Below(avg_entry_price, Whole(price))
             /\ \E price \in entries : ~Below(Whole(price), avg_entry_price)
       /\ position = 0 => avg_entry_price = Zero /\ unrealized_pnl = Zero

\* The position is kept twice, by the PnL and the inventory tracker, and its peak
\* twice, by the tracker as it goes and by the report from the snapshots.  They
\* agree, and with the fills; and what the report says of the whole run is what
\* all its fills come to.
TrackersAgree ==
    /\ position = Bought /\ inventory = position
    /\ PeakAbsInventory(snapshots) = Larger(peak_long, peak_short)
    /\ ~Below(Whole(PeakAbsInventory(snapshots)), AvgAbsInventory(snapshots))
    /\ LET final == Final(snapshots) IN
          /\ final.total = Plus(realized_pnl, unrealized_pnl)
          /\ final.fill_count = Len(fed)
          /\ final.turnover = Traded

\* The drawdown of the one-pass loop is the largest drop from any snapshot to a
\* later one.
DrawdownIsLargestDrop ==
    LET drops == UNION {{Minus(snapshots[i].total, snapshots[j].total) :
                            j \in i .. Len(snapshots)} : i \in DOMAIN snapshots}
        dd == MaxDrawdown(snapshots)
    IN  snapshots # <<>> => dd \in drops /\ \A drop \in drops : ~Below(dd, drop)
================================================================================
