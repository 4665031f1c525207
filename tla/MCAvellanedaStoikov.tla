------------------------- MODULE MCAvellanedaStoikov --------------------------
(* The inventory-aware market maker on a few books.                             *)
EXTENDS AvellanedaStoikov

MCPrices == 1 .. 20

MCQuotes == {[bid |-> 3, ask |-> 5], [bid |-> 4, ask |-> 6], [bid |-> 7, ask |-> 9]}
================================================================================
