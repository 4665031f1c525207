# A TLA+ model of the hft_backtest engine

`hft_backtest` replays a recorded stream of order-book snapshots and trades
through a simulated exchange: a strategy places limit and market orders, a
matcher decides which of them fill, and metrics and a report say what the
strategy would have earned. It is a single-threaded program, so what is hard
about it is not threads but *re-entrancy and order*: strategies act on the
engine from inside its callbacks, several pieces of code write to the same
`Order`, a fill is booked in five places (the order, the fills log, the
recorder, the strategy, the report) by different code at different moments, and
some of these steps may be skipped or cut short.

This directory holds the specification of that engine, the instances TLC checks
and the theorems TLAPS proves. Paths below are relative to `src/hft_backtest/`
of the repository unless they start with `docs/`, `data/README` or `README`.

## 1. Inventory

| Component | State | Operations | What makes it correct |
|---|---|---|---|
| Order manager (`orders/manager.py`, `order.py`, `status.py`) | `_orders`: id -> Order, `_next_id` | `place`, `cancel`, `active`, `get` | ids are never reused; status and filled size agree; a done order stays done |
| Matching engine (`execution/matcher.py`) | none; writes to the orders it is given | `on_trade`, `on_quote`, in full-fill or partial-fill mode | every order that crosses fills and no other; the volume of a print is shared, not exceeded; of equals, the earlier order first |
| Order book (`orderbook/book.py`, `data/events.py`) | levels of the last snapshot | `apply`, `best_bid`, `best_ask`, `mid` | a snapshot replaces the whole book |
| Loop (`engine/backtest.py`) | local fills log, `last_ts`, the book | `run`: per event match, log, record, `on_fill`, `on_event`, collect market fills | each fill is booked once everywhere; an order placed at event E is matched from E+1; a run ends |
| Context (`engine/context.py`) | `_market_fills` | `place`, `cancel`, `cancel_all`, `market_buy`, `market_sell`, `position` | calls made in a callback do not disturb the event in progress |
| Naive market maker (`strategies/market_maker.py`) | one id per side, last quoted mid | `on_event` | no quote is lost; quotes follow the mid |
| Avellaneda-Stoikov (`strategies/avellaneda_stoikov.py`) | ids, inventory, mid and trade windows, last reservation price | `on_fill`, `on_snapshot`, `on_trade` | its inventory is the real one; quotes lean against it, when made and while they rest |
| Event stream and loaders (`data/event_stream.py`, `data/loaders.py`) | two open files, one row held of each | iteration, through `heapq.merge` | every row once; sorted input gives sorted output; snapshot first on ties |
| Recorder and trackers (`metrics/`) | position twice, entry price, PnL, peaks, turnover, snapshots | `on_fill`, `snapshot` | PnL balances with the cash flows; the trackers agree |
| Report (`reporting/report.py`) | the files of the output directory | `compute_summary`, `generate_report` | statistics are what they are named after; the files on disk belong together |
| Configuration, registry, command line (`engine/config.py`, `strategies/registry.py`, `__main__.py`) | none | load, validate, look up, wire, run, report | nothing on disk changes unless a configuration passed every check and its run returned |
| Sample script (`scripts/make_sample.py`) | none | cuts both files at one time | a backtest of the sample is the first part of one of the whole |

### How they interact

`__main__.run_backtest` wires everything and calls `Backtest.run`, which pulls
events from the stream. Per event, in this order: a snapshot replaces the book;
`list(om.active())` is taken; the matcher walks it and writes to the orders; its
fills are appended to the log and, **if the book has a mid**, given to the
recorder; `strategy.on_fill` is called per fill; `strategy.on_event` is called
(which dispatches to `on_snapshot` or `on_trade`); market orders executed in any
of these callbacks are collected, logged and recorded. From inside a callback
the strategy calls the context, which calls the manager or, for a market order,
fills an order on the spot. After the last event the recorder takes a final
mark-to-market.

### What is hard

* *Re-entrancy.* Orders are added and cancelled while the engine is in the
  middle of an event. Only the list taken at its start keeps a new order from
  being matched at once.
* *Several writers.* `filled_size` and `status` are assigned in four places.
* *Several books for one fill.* Order, log, recorder, strategy and report are
  fed on two paths (resting and market orders), one of them conditional.
* *Partial failure.* A strategy exception, a rejected price, a row that does not
  parse, each between two steps that belong together.
* *Reading ahead.* The merge holds a row of each file, so a later snapshot has
  been read while a trade is processed, and an error in one file is met one event
  late, with a row of the other file held.
* *Files of several runs in one directory.* The report is four files, overwritten
  one after the other.
* *Order.* Iteration order of a dict decides who gets the last of a print's
  volume; the position of a source among the arguments of `merge` decides ties.

There is no concurrency, no network, and nothing that is read back after a
restart, hence no module about them. `PROJECT.json` lists the hazards at their
lines, with the properties that would notice.

## 2. Modules

    OrderLedger            what any order book-keeping promises
       ^ implemented by
    OrderManager           orders and everything that writes to them
       ^ extended by
    Backtest               the loop, the matcher, the book, the context; any strategy
       ^ extended by
    TwoSidedQuotes         cancel and replace one quote per side
       ^ extended by
    NaiveMarketMaker, AvellanedaStoikov      what two strategies decide

    EventStream            the merge that produces the events
    Replay                 Backtest and EventStream composed: a backtest of files
    Sample                 make_sample.py, over the files of EventStream
    Metrics                the trackers and the report's statistics
    CommandLine            main, over successive invocations

The modules with proofs, each extending the module it is about (`A <- B`: B also
extends A and cites what A proves):

    OrderManagerProofs <- BacktestProofs <- ReplayProofs, TwoSidedQuotesProofs
    TwoSidedQuotesProofs <- NaiveMarketMakerProofs, AvellanedaStoikovProofs
    CommandLineProofs
    MetricsProofs

| Module | Models | Correspondence |
|---|---|---|
| `OrderLedger` | nothing in particular: abstract | enter, execute, withdraw |
| `OrderManager` | `orders/`, the writers in `matcher.py` and `context.py` | `Place`, `Cancel`, `CancelAll`, `FullFill`, `PartialFill`, `ExecuteMarketOrder` are the methods of these names |
| `Backtest` | `engine/backtest.py`, `execution/matcher.py`, `orderbook/book.py`, `engine/context.py` | `pc` is where `run` stands; see below |
| `TwoSidedQuotes` | `_cancel_safely` and the two `place` calls, the same in both strategies | `todo` is the list of calls the handler has still to make; `CancelQuote` and `PlaceQuote` are those that return, `CallRaises` one whose exception nothing catches |
| `NaiveMarketMaker` | `on_event` | `KeepQuotes` are its early returns, `ReplaceQuotes` the decision, `FinishQuotes` its end |
| `AvellanedaStoikov` | `on_fill`, `on_snapshot`, `on_trade` | the same, with the windows of mids and of trade distances |
| `EventStream` | `EventStream.__iter__`, both loaders, `heapq.merge` (library) | `Pull` is `next` on a loader, which finds a row (`Hold`), the end (`Exhaust`) or an error (`Fail`); `Yield` is an event handed to `run` |
| `Replay` | `run_backtest`'s wiring of the two | `ReadAhead` is the generator at work while `run` waits for an event; `NextSnapshot`, `NextTrade`, `StreamEnds` and `StreamRaises` are a step of the stream and one of the loop at once |
| `Sample` | `make_sample.py` | operators only: the script keeps no state |
| `Metrics` | `MetricsRecorder`, `PnLTracker`, `InventoryTracker`, `TurnoverTracker`, `compute_summary` | `OnFill` and `Snapshot` are the recorder's two entry points |
| `CommandLine` | `main`, `run_backtest`, `load_config`, `validate`, `build_strategy`, `generate_report` | `stage` is the function an invocation is in; `LoadConfig`, `Validate`, `BuildStrategy`, `WriteFile` are those functions |

The steps of `Backtest.run` as actions, with `pc` before and after:

| Action | `pc` | Code (`engine/backtest.py`) |
|---|---|---|
| `TakeSnapshot`, `TakeTrade` | next -> match | lines 66-72: book, list of active orders |
| `MatchOrder(id)` | match | one turn of the loop of `on_trade` / `on_quote` |
| `EndMatch` | match -> log | the loop ends, or `break` |
| `RecordFills` | log -> notify | log, then recorder if there is a mid |
| `CallOnFill(id)`, then calls, `Return` or `Raise` | notify -> in_on_fill -> notify | lines 92-94 |
| `CallOnEvent`, then calls, `Return` or `Raise` | notify -> in_on_event -> collect | lines 96-97 |
| `CollectMarketFills` | collect -> next | lines 99-107: market fills |
| `EndOfStream` | next -> done | lines 111-117 |
| `StreamFails` | next -> failed | line 66: the iterator raises |

A strategy in `Backtest` is *any* strategy: inside a callback it makes any calls
with any arguments in the model's sets, returns, or lets an exception escape.
What a strategy can never do in the model is make calls outside a callback (on a
context it kept, say), assign to an `Order` it was returned, or keep `run` in a
callback for ever. Python prevents none of these; neither strategy of the
repository does any, and the theorems about "any strategy" are about those that do
not.

### Data abstraction

* Prices and sizes are integers: the code only compares, adds, subtracts and
  takes minima of them. Floats are exact here; rounding is out of the model.
  Invalid (non-positive) prices and sizes are in the sets, so that the guards
  of `place` are exercised. A mid is a whole number (`MidAssumption`).
* A timestamp on an order is the position of the event in the stream. It is
  monotonic as timestamps are and, unlike them, tells events of the same
  timestamp apart, which "matched from the next event on" is about. `last_ts`, the
  timestamp the final mark is recorded with, is left out; only the report's
  pictures use the timestamps of marks.
* Of the book only the best level of each side is kept; nothing reads more.
* The list of fills of an event and the fills log are functions from order id to
  size, since an order fills at most once per event; the log and what the
  recorder and the strategy were told are totals per order. A fill's price is
  the order's price, so it is not kept a second time.
* Locals that are dead at the end of an iteration are reset, to keep states that
  behave alike equal.
* In `AvellanedaStoikov` the magnitude of `gamma * sigma^2 * dt` and the logarithm
  in the spread are choices from small sets. Kept is what decides about them: the
  first is zero exactly on a steady mid, the second is the one of the configured
  `k` until two trades away from the mid have been seen. Both are even numbers, so
  that half a spread is whole. `dt` is taken to be positive: the constructor checks
  `gamma`, `k` and `size` (`avellaneda_stoikov.py:79-84`) and not `dt`, and with a
  `dt` below zero quotes would lean with the position.
* In `Metrics` the average entry price is an exact rational in lowest terms.
* A file of `EventStream` is what iterating over it does: timestamps, and `Bad`
  where the loader raises. A file may be unsorted. Row `r` of the snapshot file
  carries the quote `QuoteAt[r]` in `Replay`. `Windows` is the set of `--seconds`
  that `Sample` is asked about.
* In `CommandLine` a configuration is the set of the things wrong with it, each
  with the exception it raises, in the order the code looks for them; a file on
  disk is the number of the invocation that wrote it; `Backtest.run` returns, with
  or without metric snapshots, or raises.

Calls that raise before changing anything (`place` with a bad price, `cancel` of
an order that is done) are no steps in `Backtest`, unless the exception escapes,
which is `Raise`. In the strategies every call is a step: `CancelError` names the
exception of a cancel, `Forgiven` what `_cancel_safely` catches, and any other
exception leaves the run by `CallRaises`.

### Names ending in `_Bad`

A module may hold faulty variants of its operators, each right before the one it
imitates, each a slip a change of the code could make: a check dropped, a reset
forgotten, the wrong end of a list. Replacing the operator by its variant makes
the property named with it in `PROJECT.json` fail, which is how we know that the
property says something. Nothing else refers to them.

## 3. Runs

All finish within a minute on two workers.

| Run | Instance | What it shows |
|---|---|---|
| `order_manager` | 3 orders, prices {0,2}, sizes {0,1,3}; 66 thousand states | Any sequence of the manager's operations keeps `StatusCoherence` and `OrdersOnlyProgress` and implements `OrderLedger` |
| `backtest` | 2 orders, 3 events, 2 calls per callback, partial fills; 890 thousand states | Conservation, latency, completeness, priority among equals, notification, recorder, volume, under any strategy |
| `backtest_live` | 3 orders of size 1, one-sided books, full fills, any first event, fairness | The loop uses the manager only through its operations; every fill reaches `on_fill` |
| `replay` | all pairs of 25 files of up to 3 rows, with ties, bad rows and unsorted rows; one order, one call per callback, fairness; 700 thousand states | The stream's order, completeness and stop at a bad row, in a whole backtest; the book a trade meets; what a run that returns has covered; the sample; every run ends |
| `command_line` | 3 invocations, every configuration; 26 thousand states | Nothing is touched without a run; report and charts belong together |
| `naive_market_maker` | 5 events on 5 books, one of them one-sided, one too low to quote, fairness | No quote is lost, quotes follow the mid, no exception of a cancel escapes, a run fails only on a bad price and otherwise ends, and the strategy is one that `Backtest` allows |
| `avellaneda_stoikov` | 6 events on 3 books, windows of 3 mids and 2 trades, fairness; 280 thousand states | Its inventory is that of the orders and of the recorder; quotes lean against it; a run fails only on a bad price; every run ends |
| `metrics` | 4 snapshots, prices {2,5}, sizes 1..3, mids {3,4}; 400 thousand states | PnL equals cash plus stock; the entry price is an average of entries; trackers agree; the drawdown is the largest drop |

**Why the bounds are enough.** Two orders are what priority, sharing a print and
double booking need; a third adds only one more of the same, and the manager,
where three may interact (`cancel_all`), is run with three. Three events let an
order be placed, filled in part, and filled again or cancelled. Sizes 1 and 3
against amounts 1 and 2 give every relation between what an order wants and what
a print has left, 0 the empty print (and the size that is refused). Two calls per
callback allow place-then-cancel and place-then-market-order. Prices lie at,
inside and outside of both books. For quotes, five events are one to quote and
up to four in which the quote is filled in parts, reposted or passed; the windows
of Avellaneda-Stoikov fill with three and drop a mid with the fourth. Files of two
rows give every tie and every order of ends and errors, three let the merge be a
row ahead in both files. Of three invocations the first may leave a whole report,
the second break it, and the third meet what both left. Four
snapshots in `metrics` open, add, flip and close a position. The proofs of
section 5 remove the bounds for the properties they cover.

Deadlock is not checked: `run` returns and stops there; the bounds stop the others.
Whether the loop can get stuck half-way is what `Termination` asks. It also guards
the bounds: it fails if one of them ever stops a strategy in the middle of a
handler. An exception of a call is no such stop, it ends the run; which exceptions
do is what `RaisesOnPriceOnly` is about.

**Fairness.** `FairSpec` of `Backtest`, `FairReplaySpec`, `FairMMSpec` and
`FairASSpec` are weak fairness of the whole next-state relation: one thread runs
the program, and it always takes its next step. For the callbacks of an arbitrary
strategy this assumes that it makes finitely many calls (`MaxCalls`) and returns or
raises. Nothing finer is assumed, in particular no fairness towards any order, fill
or source.

### Where the code and its documentation disagree

Each of these runs checks one statement the repository makes and finds a
behaviour of the code against it.

| Run | Statement | What the code does |
|---|---|---|
| `unrecorded` | `docs/metrics.md:78`: a snapshot is taken after every fill | `backtest.py:78` and `:105` skip the recorder when the book has no mid at that moment and never make up for it. A trade that fills an order while a side of the book is empty is in the log and missing from position, PnL and report from then on. |
| `stale_position` | `context.py:159`: current net inventory | `ctx.position` does not include the market orders of the callback it is asked in. |
| `price_priority` | `matcher.py:30`: a print is shared by price-time priority | `on_trade` (`matcher.py:68`) serves orders in the order they were placed and compares no prices: an older order takes what is left of the print from a newer one of its side at a better price. `TimePriority` is the part that does hold, of prices that are no better. |
| `stale_charts` | `docs/performance_report.md:5-13`, `README.md:28-30`, `report.py:3-9`: a run produces the report and three charts | A run without metric snapshots writes `report.md` alone (`report.py:175`, as `test_reporting.py:149` expects) and leaves the charts it finds, so that a reader sees those of an earlier run beside this one's report, which links to them. The run allows a chart to be missing, or to be broken by a write that failed; it finds one that is another run's. |

Smaller disagreements met on the way, without a run: `docs/performance_report.md:25`
says of the Sharpe-like ratio that negative means the strategy lost money, but
with a spread of zero `report.py:81` gives `+inf` for a loss too, as after one losing
fill and the final mark; `README.md:138` promises
`on_fill` "after each fill on our orders", it is called for fills of resting orders
only (as `base.py:29` says) and never for those of market orders; `manager.py:67` says `active` yields orders with status NEW, it yields partially filled ones too;
the life cycle of `docs/execution_model.md:72-74` has no way from
PARTIALLY_FILLED to CANCELLED, which `cancel` takes; `context.py:59` announces
negative ids for market orders, they get ordinary ones;
`docs/execution_model.md:65` gives the fill size as the minimum of the
remaining size and the trade's amount, the code takes what earlier orders left
of that amount; `config.py:51` promises a `ConfigError` for what escapes as
`ValueError`, `AttributeError`, `KeyError`, `TypeError` or `yaml.YAMLError`
(`CommandLine` marks which), and `config.py:97` takes the string `"false"` for
true; `context.py:173` calls the unrealized PnL current, it is marked at the mid of the
last fill; one-sided books are accepted everywhere and used by the tests, but `LobLoader` never produces one.

`InOrder` is about sorted files, as `data/README.md:39` promises them. Neither
loader checks it; an unsorted file silently gives an unsorted stream, of which
`EachRowOnce` and `NothingAfterBad` still hold. A bad row also withholds the row
of the *other* file that was held at that moment, even if it is earlier: this is
what `heapq.merge` does, and why `EachRowOnce` says nothing of rows held.

## 4. The properties

* **`StatusCoherence`, `OrdersOnlyProgress`, `LedgerSpec`**: the two fields that
  four writers assign never contradict each other; no order is revived,
  rewritten or forgotten; seen from outside the manager is a ledger.
* **`Conservation`**: an order's `filled_size` is what the log says plus what is
  matched or executed and not logged yet, at every step. It fails if a fill is
  booked twice, dropped, or booked on the wrong path.
* **`NextEventLatency`**: fills of this event are of orders from before it,
  market fills of orders from this event.
* **`MatchingComplete`**: what crossed and is still active must have met a print
  that was used up; on a snapshot a strategy may rely on it in every callback.
* **`TimePriority`**: when volume runs out, no order is passed by a later one of its
  side whose price is no better. What happens when the later price is better is
  `price_priority`.
* **`VolumeBound`**: fills of a print plus what is left of it is its amount.
* **`FillsNotified`, `FillsReachStrategy`**: before `on_event` the strategy was
  told exactly what was filled; and it is told, unless an exception ends the run.
* **`RecorderComplete`**: with two-sided books and a snapshot first, log and
  recorder hold the same fills; `unrecorded` shows that both conditions matter.
* **`Termination`**: every run ends, by returning, by an exception of the strategy or
  by one of the stream.
* **`QuotesTracked`**: a quote is never orphaned: all active orders are the ones
  the strategy remembers.
* **`RaisesOnPriceOnly`**: the id remembered may have been filled since, and to cancel
  it then raises. No exception of a cancel escapes; one that does escape is of a
  price that is not positive, and then no stale quote rests.
* **`QuotesFollowMid`, `UnquotedOnlyIfFilled`**: the quotes are where they should
  be, and a side is empty only because its quote was filled, the limitation
  `market_maker.py:9` admits, and no other.
* **`InventoryAgrees`, `QuotesLean`**: three accounts of the position agree when
  quotes are made, and the quotes lean against it: strictly when they are made (on
  a mid that was not steady), up to the threshold as long as they rest.
* **`InOrder`, `EachRowOnce`, `NothingAfterBad`**: the stream, checked while the
  loop consumes it.
* **`BookIsCurrent`**: a trade is matched, and its callbacks run, against the last
  snapshot at or before its own time, although the merge has read the next one.
* **`ReportComplete`**: a run that returns covered both files and, if there was a
  book from the start, its report accounts for every fill and is marked at the
  last snapshot of the file.
* **`SampleIsHead`**: the sample is the first seconds of the merged stream, for every
  window in `Windows`.
* **`OnlyARunLeavesATrace`, `ReportIsNewest`, `DoneIsWhole`**: what is on disk
  after any sequence of invocations that fail at any place. `DoneIsWhole` is about what
  an invocation that ends well had to write; charts it did not write are the
  matter of `stale_charts`.
* **`TotalIsCashPlusStock`, `EntryIsAnAverage`, `TrackersAgree`,
  `DrawdownIsLargestDrop`**: the metrics against definitions that do not follow
  the code's case analysis.
* **`OrderSpec`, `BacktestSpec`**: the loop is a user of the manager and the
  strategies are users of the loop, so what holds of the general one holds of
  the special one.

## 5. What is proved

TLAPS checks the following for every value of the constants allowed by the named
`ASSUME`s: any sets of prices, sizes, quotes and amounts, both fill modes, any
number of orders, calls and events, any strategy, files of any length, any number
of invocations, fills and snapshots. TLC evaluates the assumptions in every run.
Every property of section 4 is proved but those listed at the end.

**Orders** (`OrderManagerProofs`). The inductive invariant `OrderInv` is
`OrderTypeOK` and `StatusCoherence` together. Neither is inductive alone: a fill
keeps the fields coherent because the order was active and hence, by coherence,
had something open; a new order cannot overwrite an old one because ids in use
are below `next_id`. Lemmas reduce a step of the manager to a step of one record
(`OrderStep`), from which follow `OrderTypeCorrect`, `OrdersCoherent`,
`OrdersProgress` and the refinement `ManagerImplementsLedger`.

**Loop and matcher** (`BacktestProofs`). `Inv` adds to `OrderInv` the types and
three facts that `Backtest.run` relies on and never checks: which locals are empty
where (`Scope`), that nothing on the list is as young as the event (`Ages`), and
that an order visited by the matcher and still active and crossed means the volume
is used up (`Visited`). From it:

* `LoopTypeCorrect` and `OrdersWaitForNextEvent`;
* `BacktestImplementsManager`: every step is a step of the manager or leaves it
  alone, which carries all the order theorems over to backtests
  (`BacktestOrdersCoherent`, `BacktestImplementsLedger`);
* `NoOrderMissed`: `MatchingComplete` is `Visited` at the end of the list, carried
  through the callbacks, where older orders only stop being active;
* `EarlierOrdersFirst`: orders are served by their ids alone, whatever their prices and
  sides (`IdPriority`), of which `TimePriority` is a part. It needs one more invariant,
  that orders filled so far are older than those still to visit (`InOrderOfIds`);
* `VolumeConserved`: each fill adds to the sum what the matcher takes off the
  volume. That a sum of many orders' fills changes by the one that changed is
  a statement about a recursive function, for every number of orders; it is proved
  by least counterexample (`LeastNumber`, from the well-foundedness of `<`).

**Fills** (`BacktestProofs`, last section). `FillsConserved` proves `Conservation` on top of
`Inv`. Each step needs something of `Inv`: the matcher may overwrite its entry
for an order only because it fills none twice (`Visited`), a new event starts with
empty fills (`Scope`), and a market order's id has no fill yet (`OrderInv`).
`FillsReported` needs
`Told`: what the strategy was told of an order and what it has still to be told is
what was filled of it, for every order of this event's fills and every active one;
a step keeps it because whatever makes an order active or filled (`Tells`) also
puts it on the list of fills to tell. Orders executed on the market are on neither
list, which is why the property is not about all orders. `RecorderAccounts` is
`Recording`, that recorder and log are equal, and it is inductive only with
`BookKnown`: after the first event both sides of the book are there, so `run` always
finds a mid.

**Data path** (`ReplayProofs`). `StreamInv` splits the rows of each file into
emitted and pending; for sorted files every emitted row precedes every pending one
(`Split`), which is what makes the next row yielded fit (`StreamInOrder`).
`StreamComplete` and `StreamStopsAtBad` follow without assuming sorted files, and
`SampleIsTheHead`, of any window, because in a sorted file the rows up to its end are
a first part of the file. `ReplayImplementsStream` and `ReplayImplementsBacktest`: a step
of the composition is a step of each component or leaves it alone, so every theorem
above holds of backtests of files. `TradesMeetCurrentBook` needs one more
invariant, `Joined`: the book is that of the last snapshot emitted and the trade in
progress is the last event emitted. That the last snapshot emitted is the last at or
before the trade's time is `Split`: rows still pending are later, and on a tie the
snapshot went first. `ReportIsComplete` puts the two components together: rows
emitted and events processed are counted alike (`Counted`), so a run that returns
has covered the files, and with snapshots first no trade comes before a book
(`Led`), so that the argument of `RecorderAccounts` applies to these files.

**Quotes** (`TwoSidedQuotesProofs`, lemmas for both strategies). `QuoteInv` follows
the handler through its four calls: which is next (`Turn`), that an active order is
the one remembered for its side (`Tracking`), what the calls made have left
(`Replaced`) and where a run was left by an exception (`Rejected`). `CancelsDoNotEscape`
says that a call of a handler can only raise for its price: what it cancels is
known to the manager by `Tracking`, and forgiven if done. `Tracking` survives a
cancel that is skipped since the order was done, and the gap between cancel and
place since `Replaced` says that nothing is active on that side then.

**Naive market maker** (`NaiveMarketMakerProofs`). With `QuoteInv` come
`NoQuoteLost`, `RaisesExplained` and `OnlyFillsUnquote`. `QuotesAreNear` needs
where the quotes are: around `last_quoted_mid` when no calls are due (`Anchored`),
which is within the threshold of the mid when `on_event` has returned (`Near`).
`MarketMakerIsAStrategy` says that its backtests are among those of `Backtest`, from
`AroundAssumption`: every price it may ask for is in `Prices`.

**Avellaneda-Stoikov** (`AvellanedaStoikovProofs`). The same refinement and
`QuotesTracked` and `RaisesOnPriceOnly` (`StoikovIsAStrategy`, `StoikovLosesNoQuote`,
`StoikovRaisesExplained`) are proved under the
hypothesis `AnyPrice`, that `Prices` holds every positive number: the reservation
price follows the inventory, which is unbounded, and in the code any positive price
is accepted. `Books` says that, as the strategy sends no market orders, what it was
told or is about to be told of an order is all that was filled of it, and that its
inventory is the signed sum of what it was told; with `Recording` this gives
`InventoryIsRight`, the agreement with orders and recorder. `Leans` says that quotes
rest around `last_reservation`, and where a fresh reservation price would be;
`QuotesLeanAgainstPosition` follows, since that price is the mid less the
inventory times a factor that is not negative, and zero only on a steady mid. Both
have the further hypothesis `TwoSided`, that every snapshot has both sides, as
`LobLoader` produces them: without it the recorder misses fills (run `unrecorded`).

**Command line** (`CommandLineProofs`). `Inv` says which checks a configuration has
passed at which stage (`Passed`), where the directory is still as found
(`Untouched`), which files are written while a report is (`Writing`) and that ages
on disk only fall along the order of writing (`Aged`). It gives
`FailuresLeaveNoTrace`, `ReportStaysNewest` and `DoneReportIsWhole`.

**Metrics** (`MetricsProofs`). The model's numbers are rationals in lowest terms,
and its properties are equations between them. `Is(a, n, d)` says that `a` is `n / d`
for some denominator that need not be the lowest; numbers have one in common
(`CommonDenominator`), over which sums, differences, multiples and comparisons are
those of the numerators. The greatest common divisor of `Ratio` enters twice only:
what it returns is the number (`RatioIs`), and a whole number comes out whole
(`RatioWhole`), which is what makes the equation of `TotalIsCashPlusStock` one of
values and not of fractions.

* `ProfitIsCashPlusStock`. The property itself is not inductive: a fill changes the
  realized PnL and the entry price, and the unrealized PnL is computed anew. The
  invariant is `Balanced`, that realized PnL less position times entry price is the
  cash that changed hands, with `Marked`, that the unrealized PnL is the position
  marked at the last mid. A fill keeps `Balanced` in each of the five cases of
  `pnl.py` (`Opened`, `Grown`, `Shrunk`, and `ClosedAll` for closing and for
  flipping), each an identity of polynomials over the common denominator; for the
  blended entry price that denominator is multiplied by the new size of the
  position.
* `EntryStaysAnAverage`: a blended price is between the old average and the new
  price (`BlendedBetween`), and prices on a side stay in the range as long as the
  position stays on it (`EntriesAfter`).
* `TrackersStayAgreed`: by `ReportInv`, that the trackers hold what the fills come
  to, that the peak is the largest recorded inventory (`Peaked`: the code keeps one
  per direction and the report finds one over both), and that the last snapshot is
  of the present. `SumBounded` puts the average below the peak.
* `DrawdownStaysLargestDrop` needs only the types: `DrawdownFound` is about any
  sequence of snapshots. After `k` turns the loop holds the largest total so far and
  the largest drop so far (`FoundAfter`), and a turn extends both (`TurnFacts`).

The loops are recursive functions; that one is what its definition says
(`LoopExists`, `SumLoop`, `DrawdownLoop`), that two that take the same turns end
alike (`SameTurns`) and that a turn at a time reaches the end (`CountUp`) are all
proved by least counterexample.

### Model-checked only

* Liveness (`Termination`, `FillsReachStrategy`): the prover does not handle
  fairness and ENABLED.
* What TLC finds violated (section 3) is of course no theorem.

## 6. Not modelled, and the plan

Not modelled: CSV and YAML parsing beyond "it parses or raises"; argument parsing;
the registration of strategies on import; the rounding of floats, including the
comparison of a float position with zero (`pnl.py:51`); the Sharpe-like ratio of the
report; the values of the numeric
estimates of Avellaneda-Stoikov; the text and the pictures of the report. `Backtest`
without a strategy or a recorder (both are optional in the class, and always
attached by the command line). `EngineContext`'s views of PnL, which read what
`Metrics` computes. The script that cuts samples assumes files that parse and have
a row, and so does `Sample`.

Order of work, most important first. All of it is done.

1. `OrderLedger`, `OrderManager`: orders, and the refinement between them.
2. `Backtest`: the loop under any strategy.
3. `EventStream`; 4. the strategies; 5. `Metrics`.
6. Proofs: orders, loop, conservation, matching, stream.
7. `Replay` and its proofs, `Sample`, `CommandLine`, the rest of
   Avellaneda-Stoikov and of the report.
8. Proofs of `FillsNotified`, `RecorderComplete`, `ReportComplete`, `VolumeBound`
   and `SampleIsHead`.
9. Proofs about the two strategies; 10. those about the command line.
11. Proofs about the metrics.
