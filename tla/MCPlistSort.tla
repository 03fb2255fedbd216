------------------------------ MODULE MCPlistSort ------------------------------
(* Dicts of up to six pairs with all orders of four keys, some of them repeated. *)
EXTENDS PlistSort
MCKey == 1..4
================================================================================
