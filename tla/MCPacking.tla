------------------------------ MODULE MCPacking ------------------------------
(* Packing on small lists: every number of rules, every number of existing  *)
(* endpoints, and endpoints that hold fewer rules than, exactly, and more   *)
(* rules than the chunk size.                                               *)
EXTENDS Packing
=============================================================================
