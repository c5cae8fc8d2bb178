-------------------------- MODULE ManagerPublishes --------------------------
(***************************************************************************)
(* The policy endpoints manager implements Publication.  Entries are the   *)
(* union over the endpoints at the API server; a round is a reconcile, and *)
(* it is due while the work queue holds the key.                           *)
(***************************************************************************)
EXTENDS PolicyEndpointsManager

Abstract == INSTANCE Publication WITH
    wanted <- policy,
    due <- queued,
    target <- goal,
    sound <- (stale = {}),
    published <- [k \in Kinds |-> Published(k)],
    isolations <- {server[id].isolation : id \in Live}

\* Every reconcile of a NetworkPolicy or ApplicationNetworkPolicy, or of a
\* ClusterNetworkPolicy in which no peer has a rule for all ports beside one for
\* some, with all its creates, writes and deletes, failed, refused and unanswered
\* requests and restarts, is a round of Publication, sound if its list was up to
\* date: a sound round leaves the queue only with what the policy resolved to
\* published, and one whose list was old still adds nothing unwanted.
ImplementsPublication == Abstract!Spec
=============================================================================
