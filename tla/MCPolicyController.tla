------------------------- MODULE MCPolicyController -------------------------
(* Instances of PolicyController: how many policies of a name are created,   *)
(* by kind.                                                                  *)
EXTENDS PolicyController

\* A NetworkPolicy once; a ClusterNetworkPolicy again after its deletion.
OnceOrAgain == [NP |-> 1, ANP |-> 0, CNP |-> 2]

\* A NetworkPolicy again after its deletion.
NetworkPolicyAgain == [NP |-> 2, ANP |-> 0, CNP |-> 0]

\* A ClusterNetworkPolicy again after its deletion.
ClusterPolicyAgain == [NP |-> 0, ANP |-> 0, CNP |-> 2]

\* A NetworkPolicy and an ApplicationNetworkPolicy of one name.
SharedName == [NP |-> 1, ANP |-> 1, CNP |-> 0]
=============================================================================
