------------------------------ MODULE ReplayProofs -----------------------------
(* Proofs about the data path, for files of any length, sorted or not, and any  *)
(* strategy: the merge (EventStream), the samples cut out of files (Sample) and *)
(* the backtest of files (Replay), which is a run of Backtest and of            *)
(* EventStream at once, so that all that is proved of either holds of it.       *)
(*                                                                              *)
(* The invariant of the merge (StreamInv) splits the rows of each file in two:  *)
(* those emitted, all of them read and none Bad, and those pending, not read    *)
(* yet or held by the merge.  For sorted files every emitted row comes before   *)
(* every pending one (Split), from which the order of the stream follows.       *)
(*                                                                              *)
(* A replay adds to it and to that of the loop how the two are joined: the book *)
(* is that of the last snapshot emitted and the trade in progress the event     *)
(* emitted last (Joined), n counts the rows handed over (Counted), and when the *)
(* snapshot file starts first no trade is handed over before one (Led).         *)
EXTENDS Replay, Sample, BacktestProofs

--------------------------------------------------------------------------------
(* The merge (data/event_stream.py).                                             *)

Pending(s, row) ==
    /\ row \in 1 .. Len(files[s])
    /\ row > read[s] \/ (s \in held /\ row = read[s])

\* The order of the stream: by time, a snapshot first on a tie.
Before(e, f) ==
    /\ EventTime(e) <= EventTime(f)
    /\ EventTime(e) = EventTime(f) => ~(e.source = "trades" /\ f.source = "lob")

Event(s, r) == [source |-> s, row |-> r]

AllSorted == \A s \in Sources : Sorted(s)

\* What has been read, and where it is.
Reading ==
    /\ \A s \in Sources : read[s] <= Len(files[s])
    /\ \A s \in Sources : \A r \in 1 .. read[s] : TimeOf(s, r) # Bad
    /\ \A s \in held : s \notin due /\ read[s] >= 1
    /\ \A s \in Sources : s \notin held /\ s \notin due => read[s] = Len(files[s])

\* What has been emitted.
Emission ==
    \A i \in 1 .. Len(emitted) :
       LET e == emitted[i] IN
          /\ 1 <= e.row /\ e.row <= read[e.source]
          /\ e.source \in held => e.row < read[e.source]

Split ==
    AllSorted =>
       \A i \in 1 .. Len(emitted) : \A s \in Sources : \A r \in 1 .. Len(files[s]) :
          Pending(s, r) /\ TimeOf(s, r) # Bad => Before(emitted[i], Event(s, r))

StreamInv ==
    /\ StreamTypeOK
    /\ Reading
    /\ Emission
    /\ Split
    /\ InOrder
    /\ EachRowOnce

--------------------------------------------------------------------------------
LEMMA FileFacts ==
    ASSUME StreamTypeOK, NEW s \in Sources
    PROVE  /\ files[s] \in Seq(Nat \cup {Bad})
           /\ Len(files[s]) \in Nat
           /\ read[s] \in Nat
           /\ \A r \in 1 .. Len(files[s]) : TimeOf(s, r) \in Nat \cup {Bad}
<1>1. files[s] \in Seq(Nat \cup {Bad})
  BY StreamAssumption DEF StreamTypeOK
<1> QED
  BY <1>1 DEF StreamTypeOK, TimeOf

LEMMA EmittedFacts ==
    ASSUME StreamTypeOK, NEW i \in 1 .. Len(emitted)
    PROVE  emitted[i].source \in Sources /\ emitted[i].row \in Nat
<1>1. emitted[i] \in Events
  BY DEF StreamTypeOK
<1> QED
  BY <1>1 DEF Events

LEMMA StreamInitInv == StreamInit => StreamInv
<1> SUFFICES ASSUME StreamInit PROVE StreamInv
  OBVIOUS
<1>1. StreamTypeOK
  BY DEF StreamInit, StreamTypeOK, Sources
<1>2. Len(emitted) = 0
  BY DEF StreamInit
<1>3. Reading
  <2>1. \A s \in Sources : read[s] = 0 /\ Len(files[s]) \in Nat
    BY <1>1, FileFacts DEF StreamInit
  <2> QED
    BY <2>1 DEF StreamInit, Reading
<1>4. Emission /\ Split /\ InOrder
  BY <1>2 DEF Emission, Split, InOrder
<1>5. EachRowOnce
  <2>1. \A s \in Sources : read[s] = 0
    BY DEF StreamInit
  <2> QED
    BY <1>2, <2>1 DEF StreamInit, EachRowOnce
<1> QED
  BY <1>1, <1>3, <1>4, <1>5 DEF StreamInv

\* A pull moves no row between emitted and pending.
LEMMA PullStep ==
    ASSUME StreamInv, NEW s \in Sources, Pull(s)
    PROVE  StreamInv'
<1>1. /\ UNCHANGED <<files, emitted>> /\ s \in due /\ s \notin held
      /\ read[s] \in Nat /\ Len(files[s]) \in Nat /\ read[s] <= Len(files[s])
  BY FileFacts DEF Pull, StreamInv, Reading
<1>2. CASE read[s] = Len(files[s]) /\ due' = due \ {s} /\ UNCHANGED <<read, held, outcome>>
  <2>1. StreamTypeOK'
    BY <1>1, <1>2 DEF StreamInv, StreamTypeOK
  <2>2. Reading'
    BY <1>1, <1>2 DEF StreamInv, Reading, TimeOf
  <2>3. Emission'
    BY <1>1, <1>2 DEF StreamInv, Emission
  <2>4. Split'
    BY <1>1, <1>2 DEF StreamInv, Split, AllSorted, Sorted, Pending, Before, Event, EventTime,
       TimeOf
  <2>5. InOrder'
    BY <1>1, <1>2 DEF StreamInv, InOrder, Sorted, EventTime, TimeOf
  <2>6. EachRowOnce'
    BY <1>1, <1>2 DEF StreamInv, EachRowOnce
  <2> QED
    BY <2>1, <2>2, <2>3, <2>4, <2>5, <2>6 DEF StreamInv
<1>3. CASE outcome' = "failed" /\ UNCHANGED <<read, held, due>>
  <2>1. StreamTypeOK'
    BY <1>1, <1>3 DEF StreamInv, StreamTypeOK
  <2>2. Reading' /\ Emission'
    BY <1>1, <1>3 DEF StreamInv, Reading, Emission, TimeOf
  <2>3. Split'
    BY <1>1, <1>3 DEF StreamInv, Split, AllSorted, Sorted, Pending, Before, Event, EventTime,
       TimeOf
  <2>4. InOrder'
    BY <1>1, <1>3 DEF StreamInv, InOrder, Sorted, EventTime, TimeOf
  <2>5. EachRowOnce'
    BY <1>1, <1>3 DEF StreamInv, EachRowOnce
  <2> QED
    BY <2>1, <2>2, <2>3, <2>4, <2>5 DEF StreamInv
<1>4. CASE /\ read[s] < Len(files[s]) /\ TimeOf(s, read[s] + 1) # Bad
           /\ read' = [read EXCEPT ![s] = @ + 1] /\ held' = held \cup {s}
           /\ due' = due \ {s} /\ UNCHANGED outcome
  <2>1. read \in [Sources -> Nat] /\ held \subseteq Sources
    BY DEF StreamInv, StreamTypeOK
  <2>2. read'[s] = read[s] + 1 /\ \A t \in Sources : t # s => read'[t] = read[t]
    BY <1>4, <2>1
  <2>3. StreamTypeOK'
    BY <1>1, <1>4, <2>1 DEF StreamInv, StreamTypeOK
  <2>4. \A t \in Sources : read[t] \in Nat /\ Len(files[t]) \in Nat
    BY FileFacts DEF StreamInv
  <2>5. Reading'
    BY <1>1, <1>4, <2>1, <2>2, <2>4 DEF StreamInv, Reading, TimeOf
  <2>6. \A i \in 1 .. Len(emitted) : emitted[i].source \in Sources /\ emitted[i].row \in Nat
    BY EmittedFacts DEF StreamInv
  <2>7. Emission'
    <3>1. ASSUME NEW i \in 1 .. Len(emitted)
          PROVE  /\ 1 <= emitted[i].row /\ emitted[i].row <= read'[emitted[i].source]
                 /\ emitted[i].source \in held'
                       => emitted[i].row < read'[emitted[i].source]
      BY <1>1, <1>4, <2>2, <2>4, <2>6 DEF StreamInv, Emission
    <3> QED
      BY <1>1, <3>1 DEF Emission
  <2>8. \A t \in Sources : \A r \in 1 .. Len(files[t]) : Pending(t, r)' => Pending(t, r)
    BY <1>1, <1>4, <2>2, <2>4 DEF Pending
  <2>9. Split'
    BY <1>1, <2>8 DEF StreamInv, Split, AllSorted, Sorted, Before, Event, EventTime, TimeOf
  <2>10. InOrder'
    BY <1>1 DEF StreamInv, InOrder, Sorted, EventTime, TimeOf
  <2>11. EachRowOnce'
    <3>1. outcome' # "ended"
      BY <1>4 DEF Pull
    <3>2. ASSUME NEW t \in Sources, NEW row \in 1 .. read'[t], ~(t \in held' /\ row = read'[t])
          PROVE  \E i \in 1 .. Len(emitted) : emitted[i] = [source |-> t, row |-> row]
      <4>1. row \in 1 .. read[t] /\ ~(t \in held /\ row = read[t])
        BY <1>1, <1>4, <2>2, <2>4, <3>2
      <4> QED
        BY <4>1 DEF StreamInv, EachRowOnce
    <3> QED
      BY <1>1, <3>1, <3>2 DEF StreamInv, EachRowOnce
  <2> QED
    BY <2>3, <2>5, <2>7, <2>9, <2>10, <2>11 DEF StreamInv
<1> QED
  BY <1>1, <1>2, <1>3, <1>4 DEF Pull, Hold, Exhaust, Fail

\* The row yielded comes after all emitted ones and before all pending ones.
LEMMA YieldStep ==
    ASSUME StreamInv, NEW s \in Sources, Yield(s)
    PROVE  StreamInv'
<1> DEFINE e == Event(s, read[s])
           k == Len(emitted)
<1>1. /\ UNCHANGED <<files, read, outcome>> /\ s \in held /\ due = {}
      /\ held' = held \ {s} /\ due' = {s} /\ emitted' = Append(emitted, e)
      /\ outcome = "running"
  BY DEF Yield, Event
<1>2. emitted \in Seq(Events) /\ k \in Nat
  BY DEF StreamInv, StreamTypeOK
<1>3. \A t \in Sources : read[t] \in Nat /\ Len(files[t]) \in Nat /\ read[t] <= Len(files[t])
  BY FileFacts DEF StreamInv, Reading
<1>4. e \in Events /\ e.source = s /\ e.row = read[s]
  BY <1>3 DEF Event, Events
<1>5. /\ Len(emitted') = k + 1 /\ emitted'[k + 1] = e /\ emitted' \in Seq(Events)
      /\ \A i \in 1 .. k : emitted'[i] = emitted[i]
  BY <1>1, <1>2, <1>4
<1>6. \A i \in 1 .. k : emitted[i].source \in Sources /\ emitted[i].row \in Nat
  BY EmittedFacts DEF StreamInv
<1>7. read[s] >= 1 /\ TimeOf(s, read[s]) # Bad
  BY <1>1, <1>3 DEF StreamInv, Reading
<1> HIDE DEF e, k
<1>8. StreamTypeOK'
  BY <1>1, <1>5 DEF StreamInv, StreamTypeOK
<1>9. Reading'
  BY <1>1 DEF StreamInv, Reading, TimeOf
<1>10. Emission'
  <2>1. \A i \in 1 .. k : /\ 1 <= emitted[i].row /\ emitted[i].row <= read[emitted[i].source]
                          /\ emitted[i].source \in held => emitted[i].row < read[emitted[i].source]
    BY DEF StreamInv, Emission, k
  <2> QED
    BY <1>1, <1>2, <1>3, <1>4, <1>5, <1>7, <2>1 DEF Emission
<1>11. ASSUME AllSorted
       PROVE  /\ \A i \in 1 .. k : Before(emitted[i], e)
              /\ \A t \in Sources : \A r \in 1 .. Len(files[t]) :
                    Pending(t, r)' /\ TimeOf(t, r) # Bad => Before(e, Event(t, r))
  <2>1. Pending(s, read[s])
    BY <1>1, <1>3, <1>7 DEF Pending
  <2>2. \A i \in 1 .. k : Before(emitted[i], e)
    BY <1>3, <1>7, <1>11, <2>1 DEF StreamInv, Split, e, k
  <2>3. ASSUME NEW t \in Sources, NEW r \in 1 .. Len(files[t]), Pending(t, r)',
               TimeOf(t, r) # Bad
        PROVE  Before(e, Event(t, r))
    <3>1. TimeOf(t, r) \in Nat /\ TimeOf(s, read[s]) \in Nat
      BY <1>3, <1>7, <2>3, FileFacts DEF StreamInv
    <3>2. /\ EventTime(e) = TimeOf(s, read[s]) /\ EventTime(Event(t, r)) = TimeOf(t, r)
          /\ Event(t, r).source = t
      BY <1>4 DEF EventTime, Event
    <3>3. CASE t = s
      <4>1. read[s] < r
        BY <1>1, <1>3, <2>3, <3>3 DEF Pending
      <4>2. TimeOf(s, read[s]) <= TimeOf(s, r)
        BY <1>3, <1>7, <1>11, <2>3, <3>3, <4>1 DEF AllSorted, Sorted, TimeOf
      <4> QED
        BY <1>4, <3>2, <3>3, <4>2 DEF Before
    <3>4. CASE t # s
      <4>1. t \in held
        BY <1>1, <1>3, <2>3, <3>4 DEF Pending, StreamInv, Reading
      <4>2. Precedes(s, t) /\ read[t] >= 1 /\ TimeOf(t, read[t]) # Bad
        BY <1>3, <3>4, <4>1 DEF Yield, StreamInv, Reading
      <4>3. read[t] <= r
        BY <1>1, <1>3, <2>3 DEF Pending
      <4>4. TimeOf(t, read[t]) <= TimeOf(t, r) /\ TimeOf(t, read[t]) \in Nat
        <5>1. TimeOf(t, read[t]) <= TimeOf(t, r)
          BY <1>3, <1>11, <2>3, <4>2, <4>3 DEF AllSorted, Sorted, TimeOf
        <5>2. TimeOf(t, read[t]) \in Nat
          BY <1>3, <4>2, FileFacts DEF StreamInv
        <5> QED
          BY <5>1, <5>2
      <4> QED
        BY <1>4, <3>1, <3>2, <3>4, <4>2, <4>4 DEF Before, Precedes, Sources
    <3> QED
      BY <3>3, <3>4
  <2> QED
    BY <2>2, <2>3
<1>12. \A t \in Sources : \A r \in 1 .. Len(files[t]) : Pending(t, r)' => Pending(t, r)
  BY <1>1, <1>3 DEF Pending
<1>13. Split'
  <2>1. ASSUME AllSorted, NEW i \in 1 .. (k + 1), NEW t \in Sources,
               NEW r \in 1 .. Len(files[t]), Pending(t, r)', TimeOf(t, r) # Bad
        PROVE  Before(emitted'[i], Event(t, r))
    <3>1. CASE i \in 1 .. k
      <4>1. Before(emitted[i], Event(t, r))
        BY <1>12, <2>1, <3>1 DEF StreamInv, Split, k
      <4> QED
        BY <1>5, <3>1, <4>1
    <3>2. CASE i = k + 1
      BY <1>5, <1>11, <2>1, <3>2
    <3> QED
      BY <1>2, <3>1, <3>2
  <2> QED
    BY <1>1, <1>5, <2>1 DEF Split, AllSorted, Sorted, Before, EventTime, TimeOf
<1>14. InOrder'
  <2>1. ASSUME AllSorted, NEW i \in 1 .. (k + 1), NEW j \in 1 .. (k + 1), i < j
        PROVE  Before(emitted'[i], emitted'[j])
    <3>1. i \in 1 .. k
      BY <1>2, <2>1
    <3>2. CASE j \in 1 .. k
      <4>1. Before(emitted[i], emitted[j])
        BY <2>1, <3>1, <3>2 DEF StreamInv, InOrder, Before, AllSorted, k
      <4> QED
        BY <1>5, <3>1, <3>2, <4>1
    <3>3. CASE j = k + 1
      BY <1>5, <1>11, <2>1, <3>1, <3>3
    <3> QED
      BY <1>2, <3>2, <3>3
  <2>2. (\A t \in Sources : Sorted(t))' => AllSorted
    BY <1>1 DEF AllSorted, Sorted
  <2>3. ASSUME AllSorted, NEW i \in 1 .. (k + 1), NEW j \in 1 .. (k + 1), i < j
        PROVE  /\ EventTime(emitted[i])' <= EventTime(emitted[j])'
               /\ EventTime(emitted[i])' = EventTime(emitted[j])'
                     => ~(emitted'[i].source = "trades" /\ emitted'[j].source = "lob")
    BY <1>1, <2>1, <2>3 DEF Before, EventTime, TimeOf
  <2> HIDE DEF k
  <2> QED
    BY <1>5, <2>2, <2>3 DEF InOrder
<1>15. EachRowOnce'
  <2>1. ASSUME NEW i \in 1 .. (k + 1), NEW j \in 1 .. (k + 1), i < j,
               emitted'[i].source = emitted'[j].source
        PROVE  emitted'[i].row < emitted'[j].row
    <3>1. i \in 1 .. k
      BY <1>2, <2>1
    <3>2. CASE j \in 1 .. k
      BY <1>5, <2>1, <3>1, <3>2 DEF StreamInv, EachRowOnce, k
    <3>3. CASE j = k + 1
      BY <1>1, <1>4, <1>5, <2>1, <3>1, <3>3 DEF StreamInv, Emission, k
    <3> QED
      BY <1>2, <3>2, <3>3
  <2>2. ASSUME NEW t \in Sources, NEW row \in 1 .. read[t], ~(t \in held' /\ row = read[t])
        PROVE  \E i \in 1 .. (k + 1) : emitted'[i] = [source |-> t, row |-> row]
    <3>1. CASE t = s /\ row = read[s]
      <4>1. emitted'[k + 1] = [source |-> t, row |-> row] /\ k + 1 \in 1 .. (k + 1)
        BY <1>2, <1>5, <3>1 DEF e, Event
      <4> QED
        BY <4>1
    <3>2. CASE ~(t = s /\ row = read[s])
      <4>1. PICK i \in 1 .. k : emitted[i] = [source |-> t, row |-> row]
        BY <1>1, <2>2, <3>2 DEF StreamInv, EachRowOnce, k
      <4>2. emitted'[i] = [source |-> t, row |-> row] /\ i \in 1 .. (k + 1)
        BY <1>2, <1>5, <4>1
      <4> QED
        BY <4>2
    <3> QED
      BY <3>1, <3>2
  <2> QED
    BY <1>1, <1>5, <2>1, <2>2 DEF EachRowOnce
<1> QED
  BY <1>8, <1>9, <1>10, <1>13, <1>14, <1>15 DEF StreamInv

LEMMA EndStreamStep ==
    ASSUME StreamInv, EndStream
    PROVE  StreamInv'
<1>1. UNCHANGED <<files, read, held, due, emitted>> /\ outcome' = "ended" /\ held = {} /\ due = {}
  BY DEF EndStream, AllUsedUp
<1>2. StreamTypeOK'
  BY <1>1 DEF StreamInv, StreamTypeOK
<1>3. Reading' /\ Emission' /\ Split' /\ InOrder'
  BY <1>1 DEF StreamInv, Reading, Emission, Split, InOrder, AllSorted, Sorted, Pending, Before,
     Event, EventTime, TimeOf
<1>4. EachRowOnce'
  BY <1>1 DEF StreamInv, Reading, EachRowOnce
<1> QED
  BY <1>2, <1>3, <1>4 DEF StreamInv

\* The inductive invariant of the merge.
THEOREM StreamInvariance == StreamSpec => []StreamInv
<1>1. StreamInit => StreamInv
  BY StreamInitInv
<1>2. StreamInv /\ [StreamNext]_streamvars => StreamInv'
  <2> SUFFICES ASSUME StreamInv, [StreamNext]_streamvars
               PROVE  StreamInv'
    OBVIOUS
  <2>1. CASE UNCHANGED streamvars
    <3>1. UNCHANGED <<files, read, held, due, emitted, outcome>>
      BY <2>1 DEF streamvars
    <3>2. StreamTypeOK' /\ Reading' /\ Emission' /\ EachRowOnce'
      BY <3>1 DEF StreamInv, StreamTypeOK, Reading, Emission, EachRowOnce, TimeOf
    <3>3. Split' /\ InOrder'
      BY <3>1 DEF StreamInv, Split, InOrder, AllSorted, Sorted, Pending, Before, Event,
         EventTime, TimeOf
    <3> QED
      BY <3>2, <3>3 DEF StreamInv
  <2> QED
    BY <2>1, PullStep, YieldStep, EndStreamStep DEF StreamNext
<1> QED
  BY <1>1, <1>2, PTL DEF StreamSpec

\* event_stream.py:12: sorted files of any length give a stream in timestamp
\* order, the snapshot before the trade on a tie.
THEOREM StreamInOrder == StreamSpec => []InOrder
  BY StreamInvariance, PTL DEF StreamInv

\* Of any files, sorted or not, every row read is emitted exactly once and in
\* file order, and all of them by the time the stream ends.
THEOREM StreamComplete == StreamSpec => []EachRowOnce
  BY StreamInvariance, PTL DEF StreamInv

\* The engine is never given a row beyond one that does not parse.
THEOREM StreamStopsAtBad == StreamSpec => []NothingAfterBad
<1>1. StreamInv => NothingAfterBad
  <2> SUFFICES ASSUME StreamInv, NEW i \in 1 .. Len(emitted), NEW r \in 1 .. emitted[i].row
               PROVE  TimeOf(emitted[i].source, r) # Bad
    BY DEF NothingAfterBad
  <2>1. emitted[i].source \in Sources /\ emitted[i].row \in Nat
    BY EmittedFacts DEF StreamInv
  <2>2. read[emitted[i].source] \in Nat
    BY <2>1, FileFacts DEF StreamInv
  <2>3. r \in 1 .. read[emitted[i].source]
    BY <2>1, <2>2 DEF StreamInv, Emission
  <2> QED
    BY <2>1, <2>3 DEF StreamInv, Reading
<1> QED
  BY <1>1, StreamInvariance, PTL

--------------------------------------------------------------------------------
(* The sample (scripts/make_sample.py).                                         *)

\* A set of natural numbers has a least element.
LEMMA MinFacts ==
    ASSUME NEW T \in SUBSET Nat, T # {}
    PROVE  Min(T) \in T /\ \A i \in T : Min(T) <= i
  BY LeastNumber DEF Min

\* Of a sorted file the rows copied are those of the window.
LEMMA CarvedRows ==
    ASSUME StreamTypeOK, NEW s \in Sources, Sorted(s), NEW end \in Int,
           \A row \in 1 .. Len(files[s]) : TimeOf(s, row) # Bad
    PROVE  /\ Carved(s, end) \in 0 .. Len(files[s])
           /\ \A row \in 1 .. Len(files[s]) : row <= Carved(s, end) <=> TimeOf(s, row) <= end
<1> DEFINE beyond == {row \in 1 .. Len(files[s]) : TimeOf(s, row) > end}
<1>1. Len(files[s]) \in Nat /\ \A row \in 1 .. Len(files[s]) : TimeOf(s, row) \in Nat
  BY FileFacts
<1>2. CASE beyond = {}
  <2>1. Carved(s, end) = Len(files[s])
    BY <1>2 DEF Carved
  <2> QED
    BY <1>1, <1>2, <2>1
<1>3. CASE beyond # {}
  <2>1. Min(beyond) \in beyond /\ \A row \in beyond : Min(beyond) <= row
    <3>1. beyond \in SUBSET Nat
      BY <1>1
    <3> HIDE DEF beyond
    <3> QED
      BY <1>3, <3>1, MinFacts
  <2>2. Carved(s, end) = Min(beyond) - 1
    BY <1>3 DEF Carved
  <2> DEFINE first == Min(beyond)
  <2>3. first \in 1 .. Len(files[s]) /\ TimeOf(s, first) > end
    BY <2>1
  <2>4. ASSUME NEW row \in 1 .. Len(files[s])
        PROVE  row < first <=> TimeOf(s, row) <= end
    <3>1. CASE row < first
      <4>1. row \notin beyond
        BY <1>1, <2>1, <2>3, <3>1
      <4> QED
        BY <1>1, <3>1, <4>1
    <3>2. CASE ~(row < first)
      <4>1. first <= row
        BY <2>3, <3>2
      <4>2. TimeOf(s, first) <= TimeOf(s, row)
        <5>1. files[s][first] # Bad /\ files[s][row] # Bad
          BY <2>3 DEF TimeOf
        <5> QED
          BY <2>3, <4>1, <5>1 DEF Sorted, TimeOf
      <4>3. TimeOf(s, first) \in Nat /\ TimeOf(s, row) \in Nat
        BY <1>1, <2>3
      <4> QED
        BY <2>3, <3>2, <4>2, <4>3
    <3> QED
      BY <3>1, <3>2
  <2> HIDE DEF first
  <2>5. Carved(s, end) = first - 1
    BY <2>2 DEF first
  <2> QED
    BY <1>1, <2>3, <2>4, <2>5
<1> QED
  BY <1>2, <1>3

\* When the stream has ended its events are the rows of the files.
LEMMA EmittedRows ==
    ASSUME StreamInv, outcome = "ended"
    PROVE  /\ \A s \in Sources : \A r \in 1 .. Len(files[s]) : TimeOf(s, r) \in Nat
           /\ \A i \in 1 .. Len(emitted) :
                 \E s \in Sources : \E r \in 1 .. Len(files[s]) : emitted[i] = Event(s, r)
           /\ \A s \in Sources : \A r \in 1 .. Len(files[s]) :
                 \E i \in 1 .. Len(emitted) : emitted[i] = Event(s, r)
<1>1. held = {} /\ \A s \in Sources : read[s] = Len(files[s])
  BY DEF StreamInv, EachRowOnce
<1>2. \A s \in Sources : \A r \in 1 .. Len(files[s]) : TimeOf(s, r) \in Nat
  BY <1>1, FileFacts DEF StreamInv, Reading
<1>3. ASSUME NEW i \in 1 .. Len(emitted)
      PROVE  \E s \in Sources : \E r \in 1 .. Len(files[s]) : emitted[i] = Event(s, r)
  <2>1. emitted[i] \in Events
    BY DEF StreamInv, StreamTypeOK
  <2>2. PICK s \in Sources, r \in Nat : emitted[i] = Event(s, r)
    BY <2>1 DEF Events, Event
  <2>3. emitted[i].source = s /\ emitted[i].row = r
    BY <2>2 DEF Event
  <2>4. 1 <= r /\ r <= Len(files[s])
    BY <1>1, <2>3 DEF StreamInv, Emission
  <2>5. Len(files[s]) \in Nat
    BY FileFacts DEF StreamInv
  <2> QED
    BY <2>2, <2>4, <2>5
<1>4. \A s \in Sources : \A r \in 1 .. Len(files[s]) :
         \E i \in 1 .. Len(emitted) : emitted[i] = Event(s, r)
  BY <1>1 DEF StreamInv, EachRowOnce, Event
<1> QED
  BY <1>2, <1>3, <1>4

\* The rows copied, for a window of any length.
LEMMA SampledEvents ==
    ASSUME StreamInv, outcome = "ended", \A s \in Sources : Sorted(s) /\ files[s] # <<>>,
           NEW seconds \in Nat
    PROVE  SampleRows(seconds) =
              {emitted[i] : i \in {j \in 1 .. Len(emitted) :
                               EventTime(emitted[j]) <= EventTime(emitted[1]) + seconds}}
<1>1. \A s \in Sources : Len(files[s]) \in Nat /\ Len(files[s]) >= 1
  <2>1. \A s \in Sources : files[s] \in Seq(Nat \cup {Bad}) /\ files[s] # <<>>
    BY FileFacts DEF StreamInv
  <2> QED
    BY <2>1
<1>2. emitted \in Seq(Events) /\ Len(emitted) \in Nat
  BY DEF StreamInv, StreamTypeOK
<1>3. 1 \in 1 .. Len(emitted)
  <2>1. "lob" \in Sources /\ 1 \in 1 .. Len(files["lob"])
    BY <1>1 DEF Sources
  <2>2. PICK i \in 1 .. Len(emitted) : emitted[i] = Event("lob", 1)
    BY <2>1, EmittedRows
  <2> QED
    BY <1>2, <2>2
<1> DEFINE start == EventTime(emitted[1])
           end == start + seconds
<1>4. \A s \in Sources : \A r \in 1 .. Len(files[s]) :
         /\ EventTime(Event(s, r)) = TimeOf(s, r) /\ TimeOf(s, r) \in Nat
         /\ start \in Nat /\ start <= TimeOf(s, r)
  <2>1. \A s, r : EventTime(Event(s, r)) = TimeOf(s, r)
    BY DEF EventTime, Event
  <2>2. \A s \in Sources : \A r \in 1 .. Len(files[s]) : TimeOf(s, r) \in Nat
    BY EmittedRows
  <2>3. start \in Nat
    <3>1. PICK s \in Sources : \E r \in 1 .. Len(files[s]) : emitted[1] = Event(s, r)
      BY <1>3, EmittedRows
    <3> QED
      BY <2>1, <2>2, <3>1
  <2>4. \A i \in 1 .. Len(emitted) : start <= EventTime(emitted[i])
    <3>1. \A i \in 1 .. Len(emitted) : 1 < i => start <= EventTime(emitted[i])
      BY <1>3 DEF StreamInv, InOrder
    <3>2. start <= start
      BY <2>3
    <3> HIDE DEF start
    <3>3. start = EventTime(emitted[1])
      BY DEF start
    <3> QED
      BY <1>2, <3>1, <3>2, <3>3
  <2>5. ASSUME NEW s \in Sources, NEW r \in 1 .. Len(files[s])
        PROVE  start <= TimeOf(s, r)
    <3>1. PICK i \in 1 .. Len(emitted) : emitted[i] = Event(s, r)
      BY EmittedRows
    <3> QED
      BY <2>1, <2>4, <3>1
  <2> QED
    BY <2>1, <2>2, <2>3, <2>5
<1>5. WindowEnd(seconds) = end
  <2>1. FirstTimestamp("lob") \in Nat /\ FirstTimestamp("trades") \in Nat /\ start \in Nat
    BY <1>1, <1>4 DEF FirstTimestamp, Sources
  <2>2. start <= FirstTimestamp("lob") /\ start <= FirstTimestamp("trades")
    BY <1>1, <1>4 DEF FirstTimestamp, Sources
  <2>3. start = FirstTimestamp("lob") \/ start = FirstTimestamp("trades")
    <3>1. PICK s \in Sources : \E row \in 1 .. Len(files[s]) : emitted[1] = Event(s, row)
      BY <1>3, EmittedRows
    <3>2. PICK r \in 1 .. Len(files[s]) : start = TimeOf(s, r)
      BY <1>4, <3>1
    <3>3. TimeOf(s, 1) <= TimeOf(s, r)
      <4>1. 1 \in 1 .. Len(files[s]) /\ 1 <= r
        BY <1>1
      <4>2. TimeOf(s, 1) # Bad /\ TimeOf(s, r) # Bad
        BY <1>4, <4>1, StreamAssumption
      <4> QED
        BY <4>1, <4>2 DEF Sorted, TimeOf
    <3>4. TimeOf(s, 1) \in Nat
      BY <1>1, <1>4
    <3> HIDE DEF start
    <3> QED
      BY <2>1, <2>2, <3>2, <3>3, <3>4 DEF FirstTimestamp, Sources
  <2> DEFINE firsts == {FirstTimestamp(s) : s \in Sources}
  <2>4. firsts = {FirstTimestamp("lob"), FirstTimestamp("trades")}
    BY DEF Sources
  <2>5. Min(firsts) \in firsts /\ \A t \in firsts : Min(firsts) <= t
    <3>1. firsts \in SUBSET Nat /\ firsts # {}
      BY <2>1, <2>4
    <3> HIDE DEF firsts
    <3> QED
      BY <3>1, MinFacts
  <2>6. WindowEnd(seconds) = Min(firsts) + seconds
    BY DEF WindowEnd
  <2> HIDE DEF firsts, start
  <2>7. Min(firsts) = start
    BY <2>1, <2>2, <2>3, <2>4, <2>5
  <2> QED
    BY <2>6, <2>7
<1>6. end \in Nat
  BY <1>1, <1>4 DEF Sources
<1> HIDE DEF end, start
<1>7. \A s \in Sources : \A r \in Nat :
         r \in 1 .. Carved(s, end) <=> r \in 1 .. Len(files[s]) /\ TimeOf(s, r) <= end
  <2>1. ASSUME NEW s \in Sources
        PROVE  /\ Carved(s, end) \in 0 .. Len(files[s])
               /\ \A r \in 1 .. Len(files[s]) : r <= Carved(s, end) <=> TimeOf(s, r) <= end
    <3>1. \A r \in 1 .. Len(files[s]) : TimeOf(s, r) # Bad
      BY <1>4, StreamAssumption
    <3> QED
      BY <1>6, <3>1, CarvedRows DEF StreamInv
  <2> QED
    BY <1>1, <2>1
<1>8. ASSUME NEW e
      PROVE  e \in SampleRows(seconds)
               <=> \E s \in Sources : \E r \in 1 .. Len(files[s]) :
                      TimeOf(s, r) <= end /\ e = Event(s, r)
  <2>1. e \in SampleRows(seconds)
          <=> \E s \in Sources : \E r \in 1 .. Carved(s, end) : e = Event(s, r)
    BY <1>5 DEF SampleRows, Event
  <2> QED
    BY <1>7, <2>1
<1>9. ASSUME NEW e
      PROVE  (\E i \in 1 .. Len(emitted) : EventTime(emitted[i]) <= end /\ e = emitted[i])
               <=> \E s \in Sources : \E r \in 1 .. Len(files[s]) :
                      TimeOf(s, r) <= end /\ e = Event(s, r)
  BY <1>4, EmittedRows
<1>10. SampleRows(seconds)
          = {emitted[i] : i \in {j \in 1 .. Len(emitted) : EventTime(emitted[j]) <= end}}
  BY <1>8, <1>9
<1> QED
  BY <1>10 DEF end, start

\* make_sample.py:3: of sorted files of any length, and for a window of any
\* length (Windows is any set of naturals), the two samples together hold the
\* events of the first seconds of the merged stream, and no others.
THEOREM SampleIsTheHead == StreamSpec => []SampleIsHead
<1>1. StreamInv => SampleIsHead
  BY SampledEvents, SampleAssumption DEF SampleIsHead
<1> QED
  BY <1>1, StreamInvariance, PTL

--------------------------------------------------------------------------------
(* The backtest of files.                                                       *)

\* Number of rows of the snapshot file handed to the loop.
Shown == IF "lob" \in held THEN read["lob"] - 1 ELSE read["lob"]

BookOf(row) ==
    IF row = 0 THEN [bid |-> None, ask |-> None]
               ELSE [bid |-> QuoteAt[row].bid, ask |-> QuoteAt[row].ask]

Joined ==
    /\ book = BookOf(Shown)
    /\ InProgress /\ event.kind = "trade" => emitted # <<>> /\ LastEmitted.source = "trades"

--------------------------------------------------------------------------------
\* Every step is a step of the merge or leaves it alone.
LEMMA ReplayStreamStep ==
    ASSUME [ReplayNext]_replayvars
    PROVE  [StreamNext]_streamvars
  BY DEF ReplayNext, replayvars, ReadAhead, NextSnapshot, NextTrade, StreamEnds, StreamRaises,
     StreamNext, Sources

\* A backtest of files is a run of the merge over those files.
THEOREM ReplayImplementsStream == ReplaySpec => StreamSpec
<1>1. ReplayInit => StreamInit
  BY DEF ReplayInit
<1> QED
  BY <1>1, ReplayStreamStep, PTL DEF ReplaySpec, StreamSpec

\* The snapshot the merge holds is one of the file, and its quote is known.
LEMMA HeldSnapshot ==
    ASSUME StreamInv, "lob" \in held
    PROVE  /\ read["lob"] \in 1 .. Len(QuoteAt)
           /\ QuoteAt[read["lob"]] \in Quotes
           /\ SnapshotOf(read["lob"]) \in Snapshots
<1>1. files["lob"] \in Files /\ read["lob"] \in Nat
  BY DEF StreamInv, StreamTypeOK, Sources
<1>2. Len(files["lob"]) \in Nat /\ Len(files["lob"]) <= Len(QuoteAt)
  BY <1>1, ReplayAssumption, FileFacts DEF StreamInv, Sources
<1>3. read["lob"] >= 1 /\ read["lob"] <= Len(files["lob"])
  BY DEF StreamInv, Reading, Sources
<1>4. QuoteAt \in Seq(Quotes) /\ Len(QuoteAt) \in Nat
  BY ReplayAssumption
<1>5. read["lob"] \in 1 .. Len(QuoteAt)
  BY <1>1, <1>2, <1>3, <1>4
<1>6. QuoteAt[read["lob"]] \in Quotes
  BY <1>4, <1>5
<1> QED
  BY <1>5, <1>6 DEF SnapshotOf, Snapshots

\* Every step is a step of the event loop or leaves it alone.
LEMMA ReplayLoopStep ==
    ASSUME StreamInv, [ReplayNext]_replayvars
    PROVE  [Next]_vars
<1>1. CASE NextSnapshot
  <2>1. "lob" \in held
    BY <1>1 DEF NextSnapshot, Yield
  <2>2. SnapshotOf(read["lob"]) \in Snapshots
    BY <2>1, HeldSnapshot
  <2> QED
    BY <1>1, <2>2 DEF NextSnapshot, Next, Loop, Receive
<1>2. CASE ReadAhead \/ NextTrade \/ StreamEnds \/ StreamRaises
             \/ ((Work \/ NotifyFill \/ Strategy) /\ UNCHANGED streamvars)
  BY <1>2 DEF ReadAhead, NextTrade, StreamEnds, StreamRaises, Next, Loop, Receive
<1>3. CASE UNCHANGED replayvars
  BY <1>3 DEF replayvars
<1> QED
  BY <1>1, <1>2, <1>3 DEF ReplayNext

\* A backtest of files is a run of the event loop, so that every theorem about
\* the loop is one about it.
THEOREM ReplayImplementsBacktest == ReplaySpec => Spec
<1>1. ReplayInit => Init
  BY DEF ReplayInit
<1>2. ReplaySpec => []StreamInv
  BY ReplayImplementsStream, StreamInvariance, PTL
<1> QED
  BY <1>1, <1>2, ReplayLoopStep, PTL DEF ReplaySpec, Spec

--------------------------------------------------------------------------------
LEMMA ReplayInitJoined == ReplayInit => Joined
  BY DEF ReplayInit, Init, StreamInit, Joined, Shown, BookOf, Sources, InProgress, Idle

\* Reading ahead changes neither the rows handed over nor the last event.
LEMMA ReadAheadJoined ==
    ASSUME StreamInv, Joined, ReadAhead
    PROVE  Joined'
<1>1. PICK s \in Sources : Pull(s)
  BY DEF ReadAhead
<1>2. read \in [Sources -> Nat] /\ held \subseteq Sources /\ s \notin held
  BY <1>1 DEF StreamInv, StreamTypeOK, Reading, Pull
<1>3. Shown' = Shown
  BY <1>1, <1>2 DEF Pull, Hold, Exhaust, Fail, Shown, Sources
<1> QED
  BY <1>1, <1>3 DEF ReadAhead, vars, loopvars, Joined, BookOf, InProgress, LastEmitted, Pull, Idle

LEMMA NextSnapshotJoined ==
    ASSUME StreamInv, Joined, NextSnapshot
    PROVE  Joined'
<1>1. "lob" \in held /\ held' = held \ {"lob"} /\ UNCHANGED read
  BY DEF NextSnapshot, Yield
<1>2. read["lob"] \in Nat /\ read["lob"] >= 1
  BY <1>1 DEF StreamInv, StreamTypeOK, Reading, Sources
<1>3. Shown' = read["lob"]
  BY <1>1 DEF Shown
<1>4. book' = BookOf(read["lob"]) /\ event' = SnapshotOf(read["lob"])
  BY <1>2 DEF NextSnapshot, TakeSnapshot, StartEvent, Applied, SnapshotOf, BookOf
<1>5. event'.kind = "snapshot"
  BY <1>4 DEF SnapshotOf
<1> QED
  BY <1>3, <1>4, <1>5 DEF Joined, BookOf

LEMMA NextTradeJoined ==
    ASSUME StreamInv, Joined, NextTrade
    PROVE  Joined'
<1>1. /\ held' = held \ {"trades"} /\ UNCHANGED <<read, book>>
      /\ emitted' = Append(emitted, [source |-> "trades", row |-> read["trades"]])
  BY DEF NextTrade, Yield, TakeTrade
<1>2. Shown' = Shown
  BY <1>1 DEF Shown
<1>3. emitted \in Seq(Events) /\ read["trades"] \in Nat
  BY DEF StreamInv, StreamTypeOK, Sources
<1>4. [source |-> "trades", row |-> read["trades"]] \in Events
  BY <1>3 DEF Events, Sources
<1>5. emitted' # <<>> /\ emitted'[Len(emitted')] = [source |-> "trades", row |-> read["trades"]]
  BY <1>1, <1>3, <1>4
<1> QED
  BY <1>1, <1>2, <1>5 DEF Joined, BookOf, LastEmitted

LEMMA ReplayStepJoined ==
    ASSUME StreamInv, Inv, Joined, [ReplayNext]_replayvars
    PROVE  Joined'
<1>1. CASE StreamEnds \/ StreamRaises
  BY <1>1 DEF StreamEnds, StreamRaises, EndStream, EndOfStream, StreamFails, streamvars, Joined,
     Shown, BookOf, InProgress, Idle
<1>2. CASE (Work \/ NotifyFill \/ Strategy) /\ UNCHANGED streamvars
  <2>1. UNCHANGED <<held, read, emitted>>
    BY <1>2 DEF streamvars
  <2>2. UNCHANGED book
    BY <1>2 DEF Work, NotifyFill, Strategy, StrategyCall, MatchOrder, EndMatch, RecordFills,
       CallOnEvent, CollectMarketFills, CallOnFill, Return, Raise, CtxPlace, CtxCancel,
       CtxCancelAll, CtxMarketOrder, ContextCall
  <2>3. InProgress' => UNCHANGED event /\ InProgress
    BY <1>2 DEF Work, NotifyFill, Strategy, StrategyCall, MatchOrder, EndMatch, RecordFills,
       CallOnEvent, CollectMarketFills, CallOnFill, Return, Raise, CtxPlace, CtxCancel,
       CtxCancelAll, CtxMarketOrder, ContextCall, InProgress, InCallback, Idle
  <2> QED
    BY <2>1, <2>2, <2>3 DEF Joined, Shown, BookOf, LastEmitted
<1>3. CASE UNCHANGED replayvars
  BY <1>3 DEF replayvars, vars, loopvars, streamvars, Joined, Shown, BookOf, InProgress, Idle,
     LastEmitted
<1> QED
  BY <1>1, <1>2, <1>3, ReadAheadJoined, NextSnapshotJoined, NextTradeJoined DEF ReplayNext

--------------------------------------------------------------------------------
\* What has been emitted of the snapshots when a trade is, is what is not later.
LEMMA ShownRows ==
    ASSUME StreamInv, Joined, InProgress, event.kind = "trade", AllSorted
    PROVE  /\ LastEmitted.source = "trades"
           /\ Shown \in 0 .. Len(files["lob"])
           /\ \A row \in 1 .. Len(files["lob"]) :
                 row <= Shown <=> /\ files["lob"][row] # Bad
                                  /\ files["lob"][row] <= EventTime(LastEmitted)
<1> DEFINE k == Len(emitted)
<1>1. emitted # <<>> /\ LastEmitted.source = "trades"
  BY DEF Joined
<1>2. emitted \in Seq(Events) /\ k \in Nat /\ k >= 1
  BY <1>1 DEF StreamInv, StreamTypeOK
<1>3. "lob" \in Sources /\ "trades" \in Sources
  BY DEF Sources
<1>4. /\ read["lob"] \in Nat /\ Len(files["lob"]) \in Nat /\ read["lob"] <= Len(files["lob"])
      /\ "lob" \in held => read["lob"] >= 1
  BY <1>3, FileFacts DEF StreamInv, Reading
<1>5. Shown \in 0 .. Len(files["lob"])
  BY <1>4 DEF Shown
<1>6. LastEmitted = emitted[k] /\ k \in 1 .. k
  BY <1>2 DEF LastEmitted
<1>7. /\ emitted[k].source = "trades" /\ emitted[k].row \in 1 .. read["trades"]
      /\ read["trades"] \in Nat /\ read["trades"] <= Len(files["trades"])
      /\ Len(files["trades"]) \in Nat
  <2>1. emitted[k].row \in Nat
    BY <1>6, EmittedFacts DEF StreamInv
  <2>2. 1 <= emitted[k].row /\ emitted[k].row <= read["trades"]
    BY <1>1, <1>6 DEF StreamInv, Emission
  <2> QED
    BY <1>1, <1>3, <1>6, <2>1, <2>2, FileFacts DEF StreamInv, Reading
<1>8. EventTime(LastEmitted) \in Nat
  <2>1. TimeOf("trades", emitted[k].row) # Bad
    BY <1>3, <1>7 DEF StreamInv, Reading
  <2>2. emitted[k].row \in 1 .. Len(files["trades"])
    BY <1>7
  <2>3. TimeOf("trades", emitted[k].row) \in Nat
    BY <1>3, <2>1, <2>2, FileFacts DEF StreamInv
  <2> QED
    BY <1>6, <1>7, <2>3 DEF EventTime
<1> HIDE DEF k
<1>9. ASSUME NEW row \in 1 .. Len(files["lob"]), row <= Shown
      PROVE  files["lob"][row] # Bad /\ files["lob"][row] <= EventTime(LastEmitted)
  <2>1. row \in 1 .. read["lob"] /\ ~("lob" \in held /\ row = read["lob"])
    BY <1>4, <1>9 DEF Shown
  <2>2. files["lob"][row] # Bad
    BY <1>3, <2>1 DEF StreamInv, Reading, TimeOf
  <2>3. PICK i \in 1 .. Len(emitted) : emitted[i] = [source |-> "lob", row |-> row]
    BY <1>3, <2>1 DEF StreamInv, EachRowOnce
  <2>4. i < k
    BY <1>2, <1>7, <2>3 DEF k
  <2>5. EventTime(emitted[i]) <= EventTime(emitted[k])
    BY <1>6, <2>4 DEF StreamInv, InOrder, AllSorted, k
  <2>6. EventTime(emitted[i]) = files["lob"][row]
    BY <2>3 DEF EventTime, TimeOf
  <2> QED
    BY <1>6, <2>2, <2>5, <2>6
<1>10. ASSUME NEW row \in 1 .. Len(files["lob"]), ~(row <= Shown), files["lob"][row] # Bad
       PROVE  ~(files["lob"][row] <= EventTime(LastEmitted))
  <2>1. Pending("lob", row)
    BY <1>4, <1>10 DEF Shown, Pending
  <2>2. Before(emitted[k], Event("lob", row))
    BY <1>3, <1>6, <1>10, <2>1 DEF StreamInv, Split, TimeOf, k
  <2>3. EventTime(Event("lob", row)) = files["lob"][row] /\ Event("lob", row).source = "lob"
    BY DEF EventTime, Event, TimeOf
  <2>4. files["lob"][row] \in Nat
    BY <1>3, <1>10, FileFacts DEF StreamInv, TimeOf
  <2> QED
    BY <1>6, <1>7, <1>8, <2>2, <2>3, <2>4 DEF Before
<1> QED
  BY <1>1, <1>5, <1>9, <1>10

\* Of sorted files of any length a trade is matched, and its callbacks run,
\* against the last snapshot at or before its time.
THEOREM TradesMeetCurrentBook == ReplaySpec => []BookIsCurrent
<1>1. StreamInv /\ Joined => BookIsCurrent
  <2> SUFFICES ASSUME StreamInv, Joined, InProgress, event.kind = "trade", AllSorted
               PROVE  LastEmitted.source = "trades" /\ book = BookAt(EventTime(LastEmitted))
    BY DEF BookIsCurrent, AllSorted
  <2> DEFINE rows == {row \in 1 .. Len(files["lob"]) :
                        files["lob"][row] # Bad /\ files["lob"][row] <= EventTime(LastEmitted)}
  <2>1. /\ LastEmitted.source = "trades" /\ Shown \in 0 .. Len(files["lob"])
        /\ \A row \in 1 .. Len(files["lob"]) : row <= Shown <=> row \in rows
    BY ShownRows
  <2>2. Len(files["lob"]) \in Nat /\ Len(files["lob"]) <= Len(QuoteAt) /\ Len(QuoteAt) \in Nat
    BY ReplayAssumption, FileFacts DEF StreamInv, StreamTypeOK, Sources
  <2>3. rows = 1 .. Shown
    BY <2>1, <2>2
  <2> HIDE DEF rows
  <2>4. BookAt(EventTime(LastEmitted)) =
           IF rows = {} THEN [bid |-> None, ask |-> None]
           ELSE QuoteAt[CHOOSE last \in rows : \A row \in rows : row <= last]
    BY DEF BookAt, rows
  <2>5. CASE Shown = 0
    BY <2>1, <2>3, <2>4, <2>5 DEF Joined, BookOf
  <2>6. CASE Shown # 0
    <3>1. Shown \in rows /\ \A row \in rows : row <= Shown
      BY <2>1, <2>2, <2>3, <2>6
    <3>2. \A last \in rows : (\A row \in rows : row <= last) => last = Shown
      BY <2>1, <2>2, <2>3, <3>1
    <3>3. (CHOOSE last \in rows : \A row \in rows : row <= last) = Shown
      BY <3>1, <3>2
    <3>4. QuoteAt[Shown] \in Quotes
      BY <2>1, <2>2, <2>6, ReplayAssumption
    <3>5. QuoteAt[Shown] = [bid |-> QuoteAt[Shown].bid, ask |-> QuoteAt[Shown].ask]
      BY <3>4, BacktestAssumption
    <3>6. rows # {}
      BY <3>1
    <3> QED
      BY <2>1, <2>4, <2>6, <3>3, <3>5, <3>6 DEF Joined, BookOf
  <2> QED
    BY <2>5, <2>6, <2>1
<1>2. ReplaySpec => []StreamInv
  BY ReplayImplementsStream, StreamInvariance, PTL
<1>3. ReplaySpec => []Inv
  BY ReplayImplementsBacktest, LoopInvariance, PTL
<1>4. ReplaySpec => []Joined
  BY <1>2, <1>3, ReplayInitJoined, ReplayStepJoined, PTL DEF ReplaySpec
<1> QED
  BY <1>1, <1>2, <1>4, PTL
--------------------------------------------------------------------------------
(* What a run that returns has processed.  The loop counts the events it takes, *)
(* the merge the rows it reads: Counted ties the two.  Led says that of files   *)
(* whose snapshots start no later than their trades a snapshot is handed over   *)
(* before any trade is, so that the book is known whenever a fill is recorded.  *)

\* Number of rows of the trade file handed to the loop.
Traded == IF "trades" \in held THEN read["trades"] - 1 ELSE read["trades"]

Counted ==
    /\ n = Shown + Traded
    /\ pc = "done" => outcome = "ended"

Led == SnapshotsLead => (Traded > 0 => Shown > 0)

LEMMA HandedFacts ==
    ASSUME StreamInv
    PROVE  /\ Shown \in Nat /\ Shown <= Len(files["lob"])
           /\ Traded \in Nat /\ Traded <= Len(files["trades"])
           /\ read["lob"] \in Nat /\ read["trades"] \in Nat
           /\ Len(files["lob"]) \in Nat /\ Len(files["trades"]) \in Nat
<1>1. "lob" \in Sources /\ "trades" \in Sources
  BY DEF Sources
<1>2. \A s \in Sources : /\ read[s] \in Nat /\ Len(files[s]) \in Nat
                         /\ read[s] <= Len(files[s])
                         /\ s \in held => read[s] >= 1
  BY FileFacts DEF StreamInv, Reading
<1> QED
  BY <1>1, <1>2 DEF Shown, Traded

\* A pull hands nothing over.
LEMMA PullHands ==
    ASSUME StreamInv, NEW s \in Sources, Pull(s)
    PROVE  UNCHANGED <<files, Shown, Traded>>
<1>1. /\ read \in [Sources -> Nat] /\ held \subseteq Sources /\ s \notin held
      /\ UNCHANGED files
  BY DEF StreamInv, StreamTypeOK, Reading, Pull
<1>2. UNCHANGED Shown
  BY <1>1 DEF Pull, Hold, Exhaust, Fail, Shown, Sources
<1>3. UNCHANGED Traded
  BY <1>1 DEF Pull, Hold, Exhaust, Fail, Traded, Sources
<1> QED
  BY <1>1, <1>2, <1>3

\* A yield hands over one row.
LEMMA YieldHands ==
    ASSUME StreamInv
    PROVE  /\ Yield("lob") => Shown' = Shown + 1 /\ UNCHANGED <<files, Traded>>
           /\ Yield("trades") => Traded' = Traded + 1 /\ UNCHANGED <<files, Shown>>
  BY HandedFacts DEF Yield, Shown, Traded

\* The loop by itself, the callbacks and the calls take nothing from the stream.
LEMMA WorkCounts ==
    ASSUME Work \/ NotifyFill \/ Strategy
    PROVE  n' = n /\ pc' # "done" /\ pc # "done"
  BY DEF Work, NotifyFill, Strategy, StrategyCall, MatchOrder, EndMatch, RecordFills,
     CallOnEvent, CollectMarketFills, CallOnFill, Return, Raise, CtxPlace, CtxCancel,
     CtxCancelAll, CtxMarketOrder, ContextCall, InCallback

LEMMA CountedStep ==
    ASSUME StreamInv, Inv, Counted, [ReplayNext]_replayvars
    PROVE  Counted'
<1>1. n \in Nat /\ Shown \in Nat /\ Traded \in Nat
  BY HandedFacts, OrderAssumption DEF Inv, LoopTypeOK, Times, Idle
<1>2. CASE ReadAhead
  <2>1. UNCHANGED <<n, pc, Shown, Traded>> /\ pc # "done"
    BY <1>2, PullHands DEF ReadAhead, vars, loopvars
  <2> QED
    BY <2>1 DEF Counted
<1>3. CASE NextSnapshot
  <2>1. Yield("lob") /\ n' = n + 1 /\ pc' = "match"
    BY <1>3 DEF NextSnapshot, TakeSnapshot, StartEvent
  <2>2. n' = Shown' + Traded'
    BY <1>1, <2>1, YieldHands DEF Counted
  <2> QED
    BY <2>1, <2>2 DEF Counted
<1>4. CASE NextTrade
  <2>1. Yield("trades") /\ n' = n + 1 /\ pc' = "match"
    BY <1>4 DEF NextTrade, TakeTrade, StartEvent
  <2>2. n' = Shown' + Traded'
    BY <1>1, <2>1, YieldHands DEF Counted
  <2> QED
    BY <2>1, <2>2 DEF Counted
<1>5. CASE StreamEnds
  <2>1. UNCHANGED <<n, read, held>> /\ outcome' = "ended"
    BY <1>5 DEF StreamEnds, EndStream, EndOfStream
  <2> QED
    BY <2>1 DEF Counted, Shown, Traded
<1>6. CASE StreamRaises
  <2>1. UNCHANGED <<n, read, held>> /\ pc' = "failed"
    BY <1>6 DEF StreamRaises, StreamFails, streamvars
  <2> QED
    BY <2>1 DEF Counted, Shown, Traded
<1>7. CASE (Work \/ NotifyFill \/ Strategy) /\ UNCHANGED streamvars
  <2>1. UNCHANGED <<n, read, held>> /\ pc' # "done"
    BY <1>7, WorkCounts DEF streamvars
  <2> QED
    BY <2>1 DEF Counted, Shown, Traded
<1>8. CASE UNCHANGED replayvars
  BY <1>8 DEF replayvars, vars, loopvars, streamvars, Counted, Shown, Traded
<1> QED
  BY <1>2, <1>3, <1>4, <1>5, <1>6, <1>7, <1>8 DEF ReplayNext

\* Where the merge yields a trade first, the snapshots do not lead.
LEMMA TradeIsLed ==
    ASSUME StreamInv, Led, SnapshotsLead, Yield("trades")
    PROVE  Shown > 0
<1> SUFFICES ASSUME ~(Shown > 0) PROVE FALSE
  OBVIOUS
<1>1. "lob" \in Sources /\ "trades" \in Sources
  BY DEF Sources
<1>2. "trades" \in held /\ due = {}
  BY DEF Yield
<1>3. /\ Shown = 0 /\ read["lob"] \in Nat /\ read["trades"] \in Nat
      /\ Len(files["lob"]) \in Nat /\ Len(files["trades"]) \in Nat
  BY HandedFacts
<1>4. read["trades"] = 1
  <2>1. Traded = 0
    BY <1>3, HandedFacts DEF Led
  <2> QED
    BY <1>2, <1>3, <2>1 DEF Traded
<1>5. read["trades"] <= Len(files["trades"]) /\ read["lob"] <= Len(files["lob"])
  BY <1>1 DEF StreamInv, Reading
<1>6. files["trades"] # <<>> /\ Len(files["lob"]) > 0
  <2>1. files["trades"] # <<>>
    BY <1>4, <1>5
  <2>2. files["lob"] # <<>>
    BY <2>1 DEF SnapshotsLead
  <2>3. files["lob"] \in Seq(Nat \cup {Bad})
    BY <1>1, FileFacts DEF StreamInv
  <2> QED
    BY <2>1, <2>2, <2>3
<1>7. "lob" \in held /\ read["lob"] = 1
  <2>1. "lob" \notin held => read["lob"] = Len(files["lob"])
    BY <1>1, <1>2 DEF StreamInv, Reading
  <2> QED
    BY <1>3, <1>6, <2>1 DEF Shown
<1>8. files["trades"][1] < files["lob"][1]
  <2>1. Precedes("trades", "lob")
    BY <1>7 DEF Yield
  <2> QED
    BY <1>4, <1>7, <2>1 DEF Precedes, TimeOf
<1>9. files["trades"][1] \in Nat /\ files["lob"][1] \in Nat
  <2>1. \A s \in Sources : TimeOf(s, 1) # Bad
    BY <1>1, <1>4, <1>7 DEF StreamInv, Reading, Sources
  <2>2. \A s \in Sources : 1 \in 1 .. Len(files[s])
    BY <1>3, <1>4, <1>5, <1>6 DEF Sources
  <2>3. \A s \in Sources : TimeOf(s, 1) \in Nat
    BY <2>1, <2>2, FileFacts DEF StreamInv
  <2> QED
    BY <1>1, <2>3 DEF TimeOf
<1> QED
  BY <1>6, <1>8, <1>9 DEF SnapshotsLead

LEMMA LedStep ==
    ASSUME StreamInv, Led, [ReplayNext]_replayvars
    PROVE  Led'
<1>1. Shown \in Nat /\ Traded \in Nat
  BY HandedFacts
<1>2. CASE UNCHANGED <<files, Shown, Traded>>
  BY <1>2 DEF Led, SnapshotsLead
<1>3. CASE NextSnapshot
  <2>1. UNCHANGED files /\ Shown' = Shown + 1
    BY <1>3, YieldHands DEF NextSnapshot
  <2> QED
    BY <1>1, <2>1 DEF Led
<1>4. CASE NextTrade
  <2>1. Yield("trades") /\ UNCHANGED <<files, Shown>>
    BY <1>4, YieldHands DEF NextTrade
  <2> QED
    BY <2>1, TradeIsLed DEF Led, SnapshotsLead
<1>5. CASE ReadAhead
  BY <1>2, <1>5, PullHands DEF ReadAhead
<1>6. CASE UNCHANGED <<files, read, held>>
  BY <1>2, <1>6 DEF Shown, Traded
<1> QED
  BY <1>3, <1>4, <1>5, <1>6 DEF ReplayNext, replayvars, streamvars, StreamEnds, EndStream,
     StreamRaises

\* Of two-sided snapshots that lead, the book is known from the first event on.
LEMMA LedBookKnown ==
    ASSUME StreamInv, Joined, Counted, Led, TwoSided, SnapshotsLead
    PROVE  BookKnown
<1> SUFFICES ASSUME n > 0 PROVE book.bid # None /\ book.ask # None
  BY DEF BookKnown
<1>1. Shown \in Nat /\ Shown # 0 /\ Shown <= Len(files["lob"])
  BY HandedFacts DEF Counted, Led
<1>2. Len(files["lob"]) \in Nat /\ Len(files["lob"]) <= Len(QuoteAt) /\ Len(QuoteAt) \in Nat
  BY ReplayAssumption, FileFacts DEF StreamInv, StreamTypeOK, Sources
<1>3. QuoteAt[Shown] \in Quotes
  BY <1>1, <1>2, ReplayAssumption
<1> QED
  BY <1>1, <1>3 DEF Joined, BookOf, TwoSided

\* The report is built from a log and a recorder that agree.
RecordingLed == TwoSided /\ SnapshotsLead => Recording

LEMMA RecordingLedStep ==
    ASSUME StreamInv, Inv, Joined, Counted, Led, RecordingLed, [ReplayNext]_replayvars
    PROVE  RecordingLed'
<1>1. UNCHANGED files
  BY DEF ReplayNext, replayvars, streamvars, ReadAhead, Pull, NextSnapshot, NextTrade, Yield,
     StreamEnds, EndStream, StreamRaises
<1>2. ASSUME TwoSided, SnapshotsLead
      PROVE  Recording'
  BY <1>2, LedBookKnown, ReplayLoopStep, RecordingStep DEF RecordingLed
<1> QED
  BY <1>1, <1>2 DEF RecordingLed, SnapshotsLead

\* A run that returns has processed every row of both files, and of two-sided
\* snapshots that start no later than the trades its report accounts for every
\* fill of the log and is marked at the mid of the last snapshot in the file
\* (backtest.py:62-117, event_stream.py:29-32).
THEOREM ReportIsComplete == ReplaySpec => []ReportComplete
<1>1. ReplaySpec => []StreamInv
  BY ReplayImplementsStream, StreamInvariance, PTL
<1>2. ReplaySpec => []Inv
  BY ReplayImplementsBacktest, LoopInvariance, PTL
<1>3. ReplaySpec => []Joined
  BY <1>1, <1>2, ReplayInitJoined, ReplayStepJoined, PTL DEF ReplaySpec
<1>4. ReplayInit => Counted /\ Led /\ RecordingLed
  BY DEF ReplayInit, Init, StreamInit, Counted, Led, RecordingLed, Recording, Shown, Traded,
     Sources
<1>5. ReplaySpec => [](Counted /\ Led /\ RecordingLed)
  BY <1>1, <1>2, <1>3, <1>4, CountedStep, LedStep, RecordingLedStep, PTL DEF ReplaySpec
<1>6. StreamInv /\ Inv /\ Joined /\ Counted /\ Led /\ RecordingLed => ReportComplete
  <2> SUFFICES ASSUME StreamInv, Inv, Joined, Counted, Led, RecordingLed, pc = "done"
               PROVE  /\ n = Len(files["lob"]) + Len(files["trades"])
                      /\ TwoSided /\ SnapshotsLead =>
                            /\ recorded = logged
                            /\ files["lob"] # <<>> =>
                                  2 * mark = QuoteAt[Len(files["lob"])].bid
                                               + QuoteAt[Len(files["lob"])].ask
    BY DEF ReportComplete
  <2>1. /\ Shown = Len(files["lob"]) /\ Traded = Len(files["trades"])
    BY DEF Counted, StreamInv, EachRowOnce, Shown, Traded, Sources
  <2>2. n = Len(files["lob"]) + Len(files["trades"])
    BY <2>1 DEF Counted
  <2>3. ASSUME TwoSided, SnapshotsLead
        PROVE  recorded = logged
    BY <2>3 DEF RecordingLed, Recording
  <2>4. ASSUME TwoSided, SnapshotsLead, files["lob"] # <<>>
        PROVE  2 * mark = QuoteAt[Len(files["lob"])].bid + QuoteAt[Len(files["lob"])].ask
    <3>1. /\ files["lob"] \in Seq(Nat \cup {Bad}) /\ Len(files["lob"]) \in Nat
          /\ Len(files["trades"]) \in Nat
      BY FileFacts DEF StreamInv, Sources
    <3>2. Len(files["lob"]) # 0 /\ n > 0
      <4>1. Len(files["lob"]) # 0
        BY <2>4, <3>1
      <4>2. \A l, t \in Nat : l # 0 => l + t > 0
        OBVIOUS
      <4>3. Len(files["lob"]) + Len(files["trades"]) > 0
        BY <3>1, <4>1, <4>2
      <4> QED
        BY <2>2, <4>1, <4>3
    <3>3. mark = Mid /\ BookKnown
      BY <2>4, <3>2, LedBookKnown DEF RecordingLed, Recording
    <3>4. /\ book.bid \in Int /\ book.ask \in Int /\ Mid = (book.bid + book.ask) \div 2
          /\ book.bid # None /\ book.ask # None
      BY <3>2, <3>3, MidKnown DEF BookKnown
    <3>5. /\ book.bid = QuoteAt[Len(files["lob"])].bid
          /\ book.ask = QuoteAt[Len(files["lob"])].ask
      BY <2>1, <3>2 DEF Joined, BookOf
    <3>6. QuoteAt[Len(files["lob"])] \in Quotes
      <4>1. Len(files["lob"]) <= Len(QuoteAt) /\ Len(QuoteAt) \in Nat
        BY ReplayAssumption DEF StreamInv, StreamTypeOK, Sources
      <4> QED
        BY <3>1, <3>2, <4>1, ReplayAssumption
    <3>7. (book.bid + book.ask) % 2 = 0
      BY <3>4, <3>5, <3>6, MidAssumption
    <3>8. \A sum \in Int : sum % 2 = 0 => 2 * (sum \div 2) = sum
      OBVIOUS
    <3>9. 2 * mark = book.bid + book.ask
      BY <3>3, <3>4, <3>7, <3>8
    <3> QED
      BY <3>5, <3>9
  <2> QED
    BY <2>2, <2>3, <2>4
<1> QED
  BY <1>1, <1>2, <1>3, <1>5, <1>6, PTL
================================================================================
