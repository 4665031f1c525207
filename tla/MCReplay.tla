------------------------------- MODULE MCReplay --------------------------------
(* A backtest of every pair of short files, sorted or not, with ties and rows   *)
(* that do not parse, and of samples cut out of them.                           *)
EXTENDS Replay, Sample

MCQuotes == {[bid |-> 2, ask |-> 4], [bid |-> 4, ask |-> 6], [bid |-> 2, ask |-> 6]}

MCQuoteAt == << [bid |-> 2, ask |-> 4], [bid |-> 4, ask |-> 6], [bid |-> 2, ask |-> 6] >>

\* All files of two rows, the longer ones without a bad row, and a few more.
MCFiles ==
    UNION {[1 .. k -> {1, 2, Bad}] : k \in 0 .. 2} \cup [1 .. 3 -> {1, 2}]
       \cup {<<1, 2, Bad>>, <<1, Bad, 2>>, <<1, 2, 3>>, <<2, 3, 3>>}
================================================================================
