---------------------------- MODULE MCOrderManager ----------------------------
(* The order manager alone, driven by every sequence of its operations.         *)
EXTENDS OrderManager

MCPrices == {0, 2}
MCSizes  == {0, 1, 3}
================================================================================
