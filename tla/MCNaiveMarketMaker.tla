-------------------------- MODULE MCNaiveMarketMaker --------------------------
(* The market maker on books whose mid is missing, moves, or is too low to      *)
(* quote a buy below it.                                                        *)
EXTENDS NaiveMarketMaker

MCQuotes == {[bid |-> 1, ask |-> 3], [bid |-> 3, ask |-> 5], [bid |-> 4, ask |-> 6],
             [bid |-> 7, ask |-> 9], [bid |-> 4, ask |-> None]}
================================================================================
