------------------------------ MODULE MCBacktest ------------------------------
(* Small instances of the event loop under every strategy.                      *)
EXTENDS Backtest

\* metrics.md:78: a metric snapshot is recorded after every fill.  The code
\* skips the recorder when the book has no mid, and a trade before the first
\* snapshot, or a one-sided book, is enough for that.
EveryFillRecorded == pc \in Idle => recorded = logged

\* matcher.py:30: orders share a print's volume by price-time priority.  They are
\* matched in the order they were placed, whatever their prices: when the volume
\* runs out, an order at a better price is left behind by one at a worse price.
PricePriority ==
    pc = "log" =>
       \A filled \in DOMAIN fills : \A id \in Active :
          /\ orders[id].ts < n
          /\ orders[id].side = orders[filled].side
          /\ Crosses(orders[id])
          => ~Better(orders[id], orders[filled])

\* context.py:159: ctx.position is the current net inventory.  It is what the
\* recorder has seen, and market orders of this event are not yet in it.
CtxPosition == Signed(recorded)

PositionCurrent == InCallback => CtxPosition = Position

\* Quotes for TLC: two-sided, or with a side missing.
MCQuotes    == {[bid |-> 2, ask |-> 4], [bid |-> 4, ask |-> 6]}
MCSomeSides == {[bid |-> 2, ask |-> 4], [bid |-> 4, ask |-> None],
                [bid |-> None, ask |-> 6]}
================================================================================
