------------------------------ MODULE OrderLedger ------------------------------
(* What the order book-keeping of the backtester promises, whatever the order   *)
(* manager, the matcher and the market-order path do to an order between them:  *)
(* an order is entered once and its terms never change; its executed quantity   *)
(* only grows, by what is executed, and never beyond its size; an order that is  *)
(* closed (filled or cancelled) stays as it is for ever.                        *)
(*                                                                              *)
(* OrderManager is shown to implement this specification (Ledger!Spec there).   *)
EXTENDS Integers

CONSTANTS
    LedgerIds,    \* identifiers an order may be given
    Terms         \* what is agreed when an order is entered; has a field size

VARIABLE
    ledger        \* the orders entered so far, by identifier

Entry == [terms : Terms, executed : Nat, open : BOOLEAN]

Init == ledger = [id \in {} |-> {}]

\* An order is entered under an identifier that was never used.  It rests (open,
\* nothing executed) or is executed at once and in full (a market order).
Enter(id, terms, filled) ==
    /\ id \notin DOMAIN ledger
    /\ ledger' = [i \in DOMAIN ledger \cup {id} |->
                    IF i = id
                      THEN [terms    |-> terms,
                            executed |-> IF filled THEN terms.size ELSE 0,
                            open     |-> ~filled]
                      ELSE ledger[i]]

\* A positive quantity of an open order is executed; the order closes exactly
\* when nothing is left of it.
Execute(id, quantity) ==
    /\ id \in DOMAIN ledger
    /\ ledger[id].open
    /\ quantity \in 1 .. (ledger[id].terms.size - ledger[id].executed)
    /\ ledger' = [ledger EXCEPT ![id] =
                    [terms    |-> @.terms,
                     executed |-> @.executed + quantity,
                     open     |-> @.executed + quantity < @.terms.size]]

\* Some open orders are withdrawn together; what they executed stands.
Withdraw(ids) ==
    /\ ids # {}
    /\ \A id \in ids : id \in DOMAIN ledger /\ ledger[id].open
    /\ ledger' = [i \in DOMAIN ledger |->
                    IF i \in ids
                      THEN [terms    |-> ledger[i].terms,
                            executed |-> ledger[i].executed,
                            open     |-> FALSE]
                      ELSE ledger[i]]

Next ==
    \/ \E id \in LedgerIds, terms \in Terms, filled \in BOOLEAN :
          terms.size > 0 /\ Enter(id, terms, filled)
    \/ \E id \in DOMAIN ledger :
          \E quantity \in 1 .. (ledger[id].terms.size - ledger[id].executed) :
             Execute(id, quantity)
    \/ \E ids \in SUBSET DOMAIN ledger : Withdraw(ids)

Spec == Init /\ [][Next]_ledger
================================================================================
