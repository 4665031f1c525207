--------------------------------- MODULE Replay --------------------------------
(* A backtest of files: the event loop of Backtest taking its events from the   *)
(* merge of EventStream, as __main__.run_backtest wires them.  The generator    *)
(* runs only while Backtest.run asks for the next event: the row yielded last   *)
(* is replaced then and not before, so that an error in a file is met one event *)
(* late.                                                                        *)
(*                                                                              *)
(* Data abstraction.  Row r of the snapshot file carries QuoteAt[r]; what a     *)
(* trade says is any member of Trades.                                          *)
EXTENDS Backtest, EventStream

CONSTANTS
    QuoteAt           \* best levels on each row of a snapshot file: a sequence

ASSUME ReplayAssumption ==
    /\ QuoteAt \in Seq(Quotes)
    /\ \A file \in Files : Len(file) <= Len(QuoteAt)
    /\ ~SnapshotFirst

replayvars == <<vars, streamvars>>

ReplayInit == Init /\ StreamInit

SnapshotOf(row) ==
    [kind |-> "snapshot", bid |-> QuoteAt[row].bid, ask |-> QuoteAt[row].ask]

\* next() on the stream, before it can answer.
ReadAhead == pc = "next" /\ (\E s \in Sources : Pull(s)) /\ UNCHANGED vars

NextSnapshot == Yield("lob") /\ TakeSnapshot(SnapshotOf(read["lob"]))

NextTrade == Yield("trades") /\ \E e \in Trades : TakeTrade(e)

StreamEnds == EndStream /\ EndOfStream

StreamRaises == outcome = "failed" /\ StreamFails /\ UNCHANGED streamvars

ReplayNext ==
    \/ ReadAhead
    \/ NextSnapshot
    \/ NextTrade
    \/ StreamEnds
    \/ StreamRaises
    \/ (Work \/ NotifyFill \/ Strategy) /\ UNCHANGED streamvars

ReplaySpec == ReplayInit /\ [][ReplayNext]_replayvars

\* One thread runs the loop, the generator and the strategy.
FairReplaySpec == ReplaySpec /\ WF_replayvars(ReplayNext)

--------------------------------------------------------------------------------
(* Properties.                                                                  *)

InProgress == pc \notin Idle

LastEmitted == emitted[Len(emitted)]

\* Of sorted files a trade is matched, and the strategy's callbacks for it run,
\* against the last snapshot at or before its own time: never a later one,
\* though the merge has read it, and never an older one, though the next may
\* bear the trade's own timestamp.
BookAt(time) ==
    LET rows == {row \in 1 .. Len(files["lob"]) :
                    files["lob"][row] # Bad /\ files["lob"][row] <= time}
    IN  IF rows = {} THEN [bid |-> None, ask |-> None]
        ELSE QuoteAt[CHOOSE last \in rows : \A row \in rows : row <= last]

BookIsCurrent ==
    /\ InProgress
    /\ event.kind = "trade"
    /\ \A s \in Sources : Sorted(s)
    => LastEmitted.source = "trades" /\ book = BookAt(EventTime(LastEmitted))

\* A run that returns has processed every row of both files, whatever was read
\* ahead of it, and under two-sided quotes, from files whose snapshots start no
\* later than their trades, its report accounts for every fill of its log and is
\* marked at the mid of the last snapshot in the file.
SnapshotsLead ==
    files["trades"] # <<>> =>
       files["lob"] # <<>> /\ files["lob"][1] <= files["trades"][1]

ReportComplete ==
    pc = "done" =>
       /\ n = Len(files["lob"]) + Len(files["trades"])
       /\ TwoSided /\ SnapshotsLead =>
             /\ recorded = logged
             /\ files["lob"] # <<>> =>
                   LET last == QuoteAt[Len(files["lob"])] IN
                      2 * mark = last.bid + last.ask
================================================================================
