--------------------------------- MODULE Sample --------------------------------
(* The script that cuts a sample of the first seconds out of a pair of files    *)
(* (scripts/make_sample.py), as operators over the files of EventStream.  It is *)
(* stated for files that load; a time is read from the same column the loaders  *)
(* read it from.                                                                *)
EXTENDS EventStream, FiniteSetsExt

CONSTANTS
    Windows           \* values of --seconds, in units of the timestamps

ASSUME SampleAssumption == Windows \subseteq Nat

\* _first_timestamp, of a file with at least one row
FirstTimestamp(s) == TimeOf(s, 1)

WindowEnd_Bad(seconds) ==          \* the window starts with the snapshots
    FirstTimestamp("lob") + seconds

\* main: one window for both files, from the earlier of the two first rows.
WindowEnd(seconds) == Min({FirstTimestamp(s) : s \in Sources}) + seconds

\* _carve: the number of rows copied, up to the first one beyond the window.
Carved(s, end) ==
    LET beyond == {row \in 1 .. Len(files[s]) : TimeOf(s, row) > end} IN
       IF beyond = {} THEN Len(files[s]) ELSE Min(beyond) - 1

\* The rows of the two samples, as events.
SampleRows(seconds) ==
    UNION {{[source |-> s, row |-> row] : row \in 1 .. Carved(s, WindowEnd(seconds))} :
              s \in Sources}

--------------------------------------------------------------------------------
\* make_sample.py:3: both samples cover the same window.  Of sorted files the
\* samples hold the events of the first seconds of the merged stream, all of
\* them and no others, so that a backtest of the sample sees what the first part
\* of a backtest of the whole would.
SampleIsHead ==
    /\ outcome = "ended"
    /\ \A s \in Sources : Sorted(s) /\ files[s] # <<>>
    => \A seconds \in Windows :
          SampleRows(seconds) =
             {emitted[i] : i \in {j \in 1 .. Len(emitted) :
                              EventTime(emitted[j]) <= EventTime(emitted[1]) + seconds}}
================================================================================
