--------------------------- MODULE MCPolicyEvents ---------------------------
(* Instances of PolicyEvents: a policy that stays in the same sets of the   *)
(* tracker, and one whose references to namespaces come and go.             *)
EXTENDS PolicyEvents
=============================================================================
