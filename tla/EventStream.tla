------------------------------ MODULE EventStream -----------------------------
(* The merge of snapshots and trades into one stream: the generator of          *)
(* EventStream (data/event_stream.py), the loaders it pulls rows from           *)
(* (data/loaders.py), and the part of heapq.merge it uses, which is library     *)
(* code: one row of each source is held, the earliest is yielded, and its       *)
(* source is pulled again only when the consumer asks for the next event.       *)
(*                                                                              *)
(* Data abstraction.  A file is what iterating over its loader does: the        *)
(* timestamp of each row, or Bad where it raises (a row that does not parse, a  *)
(* snapshot header without price columns, a file that cannot be opened).  An    *)
(* empty file and one with only a header are both the empty sequence.           *)
EXTENDS Integers, Sequences

CONSTANTS
    Bad,              \* a row that makes the loader raise
    Files             \* files a run may be given

ASSUME StreamAssumption ==
    /\ Bad \notin Int
    /\ Files \subseteq Seq(Nat \cup {Bad})

Sources == {"lob", "trades"}

VARIABLES
    files,            \* the file of each source; never changes
    read,             \* rows read so far, per source
    held,             \* sources whose last row read is held by the merge
    due,              \* sources to pull before the next event can be yielded
    emitted,          \* events yielded so far: [source, row]
    outcome           \* "running", "ended" or "failed"

streamvars == <<files, read, held, due, emitted, outcome>>

StreamInit ==
    /\ files \in [Sources -> Files]
    /\ read = [s \in Sources |-> 0]
    /\ held = {}
    /\ due = Sources
    /\ emitted = <<>>
    /\ outcome = "running"

TimeOf(s, row) == files[s][row]

\* next() of a loader finds a row that parses: the merge holds it.
Hold(s) ==
    /\ read[s] < Len(files[s])
    /\ TimeOf(s, read[s] + 1) # Bad
    /\ read' = [read EXCEPT ![s] = @ + 1]
    /\ held' = held \cup {s}
    /\ due' = due \ {s}
    /\ UNCHANGED outcome

Exhaust_Bad(s) ==                  \* a source used up stays in the merge
    /\ read[s] = Len(files[s])
    /\ UNCHANGED <<read, held, due, outcome>>

\* StopIteration: the source leaves the merge.
Exhaust(s) ==
    /\ read[s] = Len(files[s])
    /\ due' = due \ {s}
    /\ UNCHANGED <<read, held, outcome>>

Fail_Bad(s) ==                     \* a row that does not parse is passed over
    /\ read[s] < Len(files[s])
    /\ TimeOf(s, read[s] + 1) = Bad
    /\ read' = [read EXCEPT ![s] = @ + 1]
    /\ UNCHANGED <<held, due, outcome>>

\* Any other exception of the loader ends the generator.
Fail(s) ==
    /\ read[s] < Len(files[s])
    /\ TimeOf(s, read[s] + 1) = Bad
    /\ outcome' = "failed"
    /\ UNCHANGED <<read, held, due>>

\* next() of a loader; the snapshots are the first argument of the merge.
Pull(s) ==
    /\ outcome = "running"
    /\ s \in due
    /\ s = "trades" => "lob" \notin due
    /\ Hold(s) \/ Exhaust(s) \/ Fail(s)
    /\ UNCHANGED <<files, emitted>>

Precedes_Bad(s, t) ==              \* ties go to the trades
    IF s = "trades" THEN TimeOf(s, read[s]) <= TimeOf(t, read[t])
                    ELSE TimeOf(s, read[s]) < TimeOf(t, read[t])

\* The order of the merge: by timestamp, then by position among its arguments.
Precedes(s, t) ==
    IF s = "lob" THEN TimeOf(s, read[s]) <= TimeOf(t, read[t])
                 ELSE TimeOf(s, read[s]) < TimeOf(t, read[t])

\* The earliest of the rows held is yielded.
Yield(s) ==
    /\ outcome = "running"
    /\ due = {}
    /\ s \in held
    /\ \A t \in held \ {s} : Precedes(s, t)
    /\ emitted' = Append(emitted, [source |-> s, row |-> read[s]])
    /\ held' = held \ {s}
    /\ due' = {s}
    /\ UNCHANGED <<files, read, outcome>>

AllUsedUp_Bad == held # Sources     \* the stream ends when one source does

AllUsedUp == held = {}

\* StopIteration of the merge: both sources are used up.
EndStream ==
    /\ outcome = "running"
    /\ due = {}
    /\ AllUsedUp
    /\ outcome' = "ended"
    /\ UNCHANGED <<files, read, held, due, emitted>>

StreamNext == (\E s \in Sources : Pull(s) \/ Yield(s)) \/ EndStream

StreamSpec == StreamInit /\ [][StreamNext]_streamvars

--------------------------------------------------------------------------------
(* Properties.                                                                  *)

Events == [source : Sources, row : Nat]

StreamTypeOK ==
    /\ files \in [Sources -> Files]
    /\ read \in [Sources -> Nat]
    /\ held \subseteq Sources
    /\ due \subseteq Sources
    /\ emitted \in Seq(Events)
    /\ outcome \in {"running", "ended", "failed"}

\* data/README.md:39: timestamps are non-decreasing across the rows of a file.
\* Neither the loaders nor the merge check it.
Sorted(s) ==
    \A i, j \in 1 .. Len(files[s]) :
       i <= j /\ files[s][i] # Bad /\ files[s][j] # Bad => files[s][i] <= files[s][j]

EventTime(e) == TimeOf(e.source, e.row)

\* event_stream.py:12: of sorted files the events come in non-decreasing
\* timestamp order, and on a tie the snapshot before the trade; so that a trade
\* is never matched before the book of its own instant is in place.
InOrder ==
    (\A s \in Sources : Sorted(s)) =>
       \A i, j \in 1 .. Len(emitted) :
          i < j => /\ EventTime(emitted[i]) <= EventTime(emitted[j])
                   /\ EventTime(emitted[i]) = EventTime(emitted[j])
                         => ~(emitted[i].source = "trades" /\ emitted[j].source = "lob")

\* Sorted or not, the rows of a file come in file order, each at most once; a
\* stream that ends has yielded every row, and one that fails every row up to
\* the one that failed of that file.
RowsEmitted(s) == {i \in 1 .. Len(emitted) : emitted[i].source = s}

EachRowOnce ==
    /\ \A i, j \in 1 .. Len(emitted) :
          i < j /\ emitted[i].source = emitted[j].source => emitted[i].row < emitted[j].row
    /\ \A s \in Sources : \A row \in 1 .. read[s] :
          ~(s \in held /\ row = read[s])
             => \E i \in 1 .. Len(emitted) : emitted[i] = [source |-> s, row |-> row]
    /\ outcome = "ended" => held = {} /\ \A s \in Sources : read[s] = Len(files[s])

\* The engine is never given a row that follows, in its own file, one that did
\* not parse: a bad row ends the stream, it does not leave a gap in it.
NothingAfterBad ==
    \A i \in 1 .. Len(emitted) : \A r \in 1 .. emitted[i].row :
       TimeOf(emitted[i].source, r) # Bad
================================================================================
