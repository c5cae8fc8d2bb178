-------------------------- MODULE PolicyController --------------------------
(***************************************************************************)
(* The policy reconciler (internal/controllers/policy_controller.go): the  *)
(* life of the policies of one request key, from creation to the removal   *)
(* of their finalizer, with the informers of policies and of endpoints,    *)
(* the finalizer manager and the garbage collector.                        *)
(*                                                                         *)
(* A NetworkPolicy and an ApplicationNetworkPolicy of one namespace and    *)
(* name share the key; a ClusterNetworkPolicy has a key of its own.  What  *)
(* a policy resolves to fits in one endpoint here: the manager (module     *)
(* PolicyEndpointsManager) lists, from its informer's cache, the endpoints *)
(* whose policyRef has the name, fills one of them, keeping its owner      *)
(* reference, and deletes the others.  It lists, looks and writes in one   *)
(* step: a delay between them looks like a cache that lags by more.        *)
(***************************************************************************)
EXTENDS Naturals, Sequences

CONSTANTS
    Specs,       \* specs a policy takes on
    MaxCreated,  \* bound: for each kind, policies of this name that are created
    MaxLag,      \* bound: watch events on their way to the cache
    PEs,         \* names the API server generates for endpoints
    MaxPELag,    \* bound: endpoint events on their way to the cache
    Absent       \* no object

KindSet == {"NP", "ANP", "CNP"}

\* The kinds reconcile tries for a key with a namespace and for one without.
Keys == {<<"NP", "ANP">>, <<"CNP">>}

\* The kind is part of an owner reference, as the UID is.
Uids == UNION {{k} \X (1..MaxCreated[k]) : k \in KindSet}

\* finalizer: the object has the controller's finalizer; foreign: it has one of
\* another controller.
Object == [uid : Uids, spec : Specs, finalizer : BOOLEAN, foreign : BOOLEAN, deleting : BOOLEAN]

\* owner: the UID in the ownerReference; kind and spec: the policy its entries
\* were resolved from.
Endpoint == [owner : Uids, kind : KindSet, spec : Specs]

ASSUME BoundsTyped == MaxCreated \in [KindSet -> Nat] /\ MaxLag \in Nat \ {0} /\ MaxPELag \in Nat \ {0}
ASSUME AbsentIsNoObject == Absent \notin Object /\ Absent \notin Endpoint

VARIABLES
    kinds,     \* the kinds of the key, in the order reconcile tries them
    policy,    \* the policies at the API server
    created,   \* for each kind, how many were created so far
    pending,   \* for each kind, watch events not yet delivered
    cached,    \* the policies in the informer cache
    queued,    \* the work queue holds the key
    pc,        \* the step of the worker
    turn,      \* the kind it is at, an index of kinds
    hand,      \* the policy AddFinalizers left with the caller
    failed,    \* the errors collected so far are not empty
    doomed,    \* the endpoints it has yet to delete
    pe,        \* the endpoints with this name in their policyRef, whatever the kind
    peCache,   \* the same in the informer cache
    peEvents,  \* watch events of endpoints not yet delivered
    escaped,   \* history: endpoints CleanupCNP did not delete, as its list lacked them
    doubtful   \* history: kinds that were last published from an old list of the
               \* endpoints, or into an endpoint of another owner

worker == <<pc, turn, hand, failed, doomed>>
endpoints == <<pe, peCache, peEvents, escaped, doubtful>>
vars == <<kinds, policy, created, pending, cached, queued, worker, endpoints>>

Kind == kinds[turn]

Init ==
    /\ kinds \in Keys
    /\ policy = [k \in KindSet |-> Absent]
    /\ created = [k \in KindSet |-> 0]
    /\ pending = [k \in KindSet |-> <<>>]
    /\ cached = policy
    /\ queued = FALSE
    /\ pc = "idle"
    /\ turn = 1
    /\ hand = Absent
    /\ failed = FALSE
    /\ doomed = {}
    /\ pe = [id \in PEs |-> Absent]
    /\ peCache = pe
    /\ peEvents = <<>>
    /\ escaped = {}
    /\ doubtful = {}

\* The API server stores an object (or removes it) and announces it.
Stored(k, object) ==
    /\ Len(pending[k]) < MaxLag
    /\ policy' = [policy EXCEPT ![k] = object]
    /\ pending' = [pending EXCEPT ![k] = Append(@, object)]

\* The same of an endpoint.
StoredPE(id, object) ==
    /\ Len(peEvents) < MaxPELag
    /\ pe' = [pe EXCEPT ![id] = object]
    /\ peEvents' = Append(peEvents, [id |-> id, object |-> object])
-----------------------------------------------------------------------------
(***************************************************************************)
(* Users, the informers and the garbage collector.                         *)
(***************************************************************************)
Create(k) ==
    /\ \E t \in DOMAIN kinds : kinds[t] = k
    /\ policy[k] = Absent
    /\ created[k] < MaxCreated[k]
    /\ \E s \in Specs, f \in BOOLEAN :
         Stored(k, [uid |-> <<k, created[k] + 1>>, spec |-> s,
                    finalizer |-> FALSE, foreign |-> f, deleting |-> FALSE])
    /\ created' = [created EXCEPT ![k] = @ + 1]
    /\ UNCHANGED <<kinds, cached, queued, worker, endpoints>>

Edit(k) ==
    /\ policy[k] # Absent
    /\ \E s \in Specs \ {policy[k].spec} : Stored(k, [policy[k] EXCEPT !.spec = s])
    /\ UNCHANGED <<kinds, created, cached, queued, worker, endpoints>>

\* An object that is being deleted goes with its last finalizer.
Settled(object) ==
    IF object.deleting /\ ~ object.finalizer /\ ~ object.foreign THEN Absent ELSE object

Delete(k) ==
    /\ policy[k] # Absent
    /\ ~ policy[k].deleting
    /\ Stored(k, Settled([policy[k] EXCEPT !.deleting = TRUE]))
    /\ UNCHANGED <<kinds, created, cached, queued, worker, endpoints>>

\* The other controller is done with a policy.
Release(k) ==
    /\ policy[k] # Absent
    /\ policy[k].foreign
    /\ Stored(k, Settled([policy[k] EXCEPT !.foreign = FALSE]))
    /\ UNCHANGED <<kinds, created, cached, queued, worker, endpoints>>

\* Mutant: updates are never queued.
EnqueuesCreation(old, new) == new # Absent /\ old = Absent

\* enqueueRequestForPolicyEvent: creations, and updates that change the spec or
\* start the deletion, are queued; deletions are not.
Enqueues(old, new) ==
    /\ new # Absent
    /\ old # Absent => old.spec # new.spec \/ old.deleting # new.deleting

Deliver(k) ==
    /\ pending[k] # <<>>
    /\ cached' = [cached EXCEPT ![k] = Head(pending[k])]
    /\ pending' = [pending EXCEPT ![k] = Tail(@)]
    /\ queued' = (queued \/ Enqueues(cached[k], Head(pending[k])))
    /\ UNCHANGED <<kinds, policy, created, worker, endpoints>>

DeliverPE ==
    /\ peEvents # <<>>
    /\ peCache' = [peCache EXCEPT ![Head(peEvents).id] = Head(peEvents).object]
    /\ peEvents' = Tail(peEvents)
    /\ UNCHANGED <<kinds, policy, created, pending, cached, queued, worker, pe, escaped, doubtful>>

\* Dependents of an owner that is gone are deleted.
OwnerLive(id) == \E k \in KindSet : policy[k] # Absent /\ policy[k].uid = pe[id].owner
CollectGarbage ==
    /\ \E id \in PEs :
         /\ pe[id] # Absent
         /\ ~ OwnerLive(id)
         /\ StoredPE(id, Absent)
         /\ escaped' = escaped \ {id}
    /\ UNCHANGED <<kinds, policy, created, pending, cached, queued, worker, peCache, doubtful>>

-----------------------------------------------------------------------------
(***************************************************************************)
(* reconcile: the kinds one after the other; errors are collected.         *)
(***************************************************************************)
Take ==
    /\ pc = "idle"
    /\ queued
    /\ queued' = FALSE
    /\ pc' = "get"
    /\ turn' = 1
    /\ failed' = FALSE
    /\ UNCHANGED <<kinds, policy, created, pending, cached, hand, doomed, endpoints>>

\* What follows a kind: the next one, or the end; an error requeues the key.
NextKind(error) ==
    /\ hand' = Absent
    /\ doomed' = {}
    /\ failed' = (failed \/ error)
    /\ IF turn < Len(kinds)
         THEN /\ turn' = turn + 1 /\ pc' = "get"
              /\ UNCHANGED queued
         ELSE /\ pc' = "idle" /\ UNCHANGED turn
              /\ queued' = (queued \/ failed \/ error)

\* Get reads the cache.
Get ==
    /\ pc = "get"
    /\ IF cached[Kind] = Absent \/ (cached[Kind].deleting /\ ~ cached[Kind].finalizer)
         THEN NextKind(FALSE)
         ELSE /\ pc' = IF cached[Kind].deleting THEN "cleanup" ELSE "finalize"
              /\ UNCHANGED <<queued, turn, hand, failed, doomed>>
    /\ UNCHANGED <<kinds, policy, created, pending, cached, endpoints>>

\* A patch with optimistic lock is accepted if the cached object is the
\* server's; no finalizer can be added to an object that is being deleted.
Current(k) == pending[k] = <<>>
Patchable(k) == cached[k] # Absent /\ Current(k)

\* Mutant: the finalizer is left to a later reconcile.
PublishFirst ==
    /\ pc = "finalize"
    /\ cached[Kind] # Absent
    /\ hand' = cached[Kind]
    /\ pc' = "publish"
    /\ UNCHANGED <<kinds, policy, created, pending, cached, queued, turn, failed, doomed, endpoints>>

\* Mutant: the finalizer manager works on a copy the caller never sees.
AddFinalizersToCopy ==
    /\ pc = "finalize"
    /\ Patchable(Kind) /\ ~ cached[Kind].deleting
    /\ Stored(Kind, [cached[Kind] EXCEPT !.finalizer = TRUE])
    /\ pc' = "publish"
    /\ UNCHANGED <<kinds, created, cached, queued, turn, hand, failed, doomed, endpoints>>

\* AddFinalizers reads the policy again and patches it if need be.
AddFinalizers ==
    /\ pc = "finalize"
    /\ cached[Kind] # Absent
    /\ IF cached[Kind].finalizer
         THEN UNCHANGED <<policy, pending>>
         ELSE /\ Patchable(Kind) /\ ~ cached[Kind].deleting
              /\ Stored(Kind, [cached[Kind] EXCEPT !.finalizer = TRUE])
    /\ hand' = [cached[Kind] EXCEPT !.finalizer = TRUE]
    /\ pc' = "publish"
    /\ UNCHANGED <<kinds, created, cached, queued, turn, failed, doomed, endpoints>>

\* It fails: not found, forbidden, or a conflict that outlasts the retries.
AddRefused ==
    /\ pc = "finalize"
    /\ cached[Kind] # Absent => ~ cached[Kind].finalizer
    /\ Patchable(Kind) => cached[Kind].deleting
    /\ NextKind(TRUE)
    /\ UNCHANGED <<kinds, policy, created, pending, cached, endpoints>>

(***************************************************************************)
(* Reconcile, ReconcileANP or ReconcileCNP of the manager.                 *)
(***************************************************************************)
Listed == {id \in PEs : peCache[id] # Absent}
OnItsWay(id) == \E i \in DOMAIN peEvents : peEvents[i].id = id

\* A listed endpoint that has what the policy resolves to keeps it; if none has,
\* the first that is listed gets it, and if none is listed a new one.
UpToDate == {id \in Listed : peCache[id].kind = Kind /\ peCache[id].spec = hand.spec}
Targets ==
    IF Listed = {} THEN {id \in PEs : pe[id] = Absent /\ ~ OnItsWay(id)}
    ELSE IF UpToDate = {} THEN Listed
    ELSE UpToDate

\* Endpoints of a namespace are patched.  A cluster endpoint is updated, which
\* the server refuses when the cached copy is an old one.
Accepted(id) == pe[id] # Absent /\ (Kind = "CNP" => ~ OnItsWay(id))

Write(id) ==
    \/ /\ Listed = {}
       /\ StoredPE(id, [owner |-> hand.uid, kind |-> Kind, spec |-> hand.spec])
    \/ /\ id \in Listed \ UpToDate
       /\ Accepted(id)
       /\ StoredPE(id, [pe[id] EXCEPT !.kind = Kind, !.spec = hand.spec])

Doubted(id) == peEvents # <<>> \/ (id \in Listed /\ peCache[id].owner # hand.uid)
Publish ==
    /\ pc = "publish"
    /\ \E id \in Targets :
         /\ Write(id) \/ (id \in UpToDate /\ UNCHANGED <<pe, peEvents>>)
         /\ doomed' = Listed \ {id}
         /\ doubtful' = IF Doubted(id) THEN doubtful \cup {Kind} ELSE doubtful \ {Kind}
    /\ pc' = "prune"
    /\ UNCHANGED <<kinds, policy, created, pending, cached, queued, turn, hand, failed, peCache, escaped>>

\* The endpoint to write is gone, or it is not the one in the cache.
PublishRefused ==
    /\ pc = "publish"
    /\ \E id \in Targets : id \in Listed \ UpToDate /\ ~ Accepted(id)
    /\ NextKind(TRUE)
    /\ UNCHANGED <<kinds, policy, created, pending, cached, endpoints>>

\* Mutant: CleanupCNP lists by label, too.
CleanupDeletesNothing(k) == FALSE

\* Cleanup and CleanupANP list endpoints by a label no endpoint has, and so
\* delete none.  CleanupCNP lists by the index of policyRef names.
CleanupDeletes(k) == k = "CNP"

Cleanup ==
    /\ pc = "cleanup"
    /\ IF CleanupDeletes(Kind)
         THEN /\ doomed' = Listed
              /\ escaped' = escaped \cup {id \in PEs \ Listed : pe[id] # Absent}
         ELSE UNCHANGED <<doomed, escaped>>
    /\ pc' = "erase"
    /\ UNCHANGED <<kinds, policy, created, pending, cached, queued, turn, hand, failed>>
    /\ UNCHANGED <<pe, peCache, peEvents, doubtful>>

\* The loop over the delete list, after a publication or in a cleanup.
Erase(id) ==
    /\ pe[id] # Absent
    /\ StoredPE(id, Absent)
    /\ escaped' = escaped \ {id}
    /\ UNCHANGED <<peCache, doubtful>>
DeleteListed ==
    /\ pc \in {"prune", "erase"}
    /\ \E id \in doomed : Erase(id) /\ doomed' = doomed \ {id}
    /\ UNCHANGED <<kinds, policy, created, pending, cached, queued, pc, turn, hand, failed>>

\* Not found: the endpoint was listed, but is gone.
DeleteRefused ==
    /\ pc \in {"prune", "erase"}
    /\ \E id \in doomed : pe[id] = Absent
    /\ NextKind(TRUE)
    /\ UNCHANGED <<kinds, policy, created, pending, cached, endpoints>>

AllDeleted ==
    /\ doomed = {}
    /\ \/ pc = "prune" /\ NextKind(FALSE)
       \/ pc = "erase" /\ pc' = "unfinalize" /\ UNCHANGED <<queued, turn, hand, failed, doomed>>
    /\ UNCHANGED <<kinds, policy, created, pending, cached, endpoints>>

\* RemoveFinalizers, the last step of the cleanup.
RemoveFinalizers ==
    /\ pc = "unfinalize"
    /\ cached[Kind] # Absent
    /\ IF cached[Kind].finalizer
         THEN Patchable(Kind) /\ Stored(Kind, Settled([cached[Kind] EXCEPT !.finalizer = FALSE]))
         ELSE UNCHANGED <<policy, pending>>
    /\ NextKind(FALSE)
    /\ UNCHANGED <<kinds, created, cached, endpoints>>

\* Mutant: a conflict is swallowed.
RemoveRefusedQuietly ==
    /\ pc = "unfinalize"
    /\ cached[Kind] # Absent => cached[Kind].finalizer
    /\ ~ Patchable(Kind)
    /\ NextKind(FALSE)
    /\ UNCHANGED <<kinds, policy, created, pending, cached, endpoints>>

\* It fails: not found, or a conflict that outlasts the retries.
RemoveRefused ==
    /\ pc = "unfinalize"
    /\ cached[Kind] # Absent => cached[Kind].finalizer
    /\ ~ Patchable(Kind)
    /\ NextKind(TRUE)
    /\ UNCHANGED <<kinds, policy, created, pending, cached, endpoints>>

\* A request fails without effect.
Fail ==
    /\ pc \in {"finalize", "publish", "prune", "cleanup", "erase", "unfinalize"}
    /\ NextKind(TRUE)
    /\ UNCHANGED <<kinds, policy, created, pending, cached, endpoints>>

\* A request takes effect, but its answer is lost.
AnswerLost ==
    /\ \/ /\ pc = "finalize"
          /\ Patchable(Kind) /\ ~ cached[Kind].finalizer /\ ~ cached[Kind].deleting
          /\ Stored(Kind, [cached[Kind] EXCEPT !.finalizer = TRUE])
          /\ UNCHANGED endpoints
       \/ /\ pc = "unfinalize"
          /\ Patchable(Kind) /\ cached[Kind].finalizer
          /\ Stored(Kind, Settled([cached[Kind] EXCEPT !.finalizer = FALSE]))
          /\ UNCHANGED endpoints
       \/ /\ pc = "publish"
          /\ \E id \in Targets : Write(id)
          /\ UNCHANGED <<policy, pending, peCache, escaped, doubtful>>
       \/ /\ pc \in {"prune", "erase"}
          /\ \E id \in doomed : Erase(id)
          /\ UNCHANGED <<policy, pending>>
    /\ NextKind(TRUE)
    /\ UNCHANGED <<kinds, created, cached>>

\* The controller stops and starts again.  The initial lists fill the caches;
\* that of the policies queues the key.
Restart ==
    /\ cached' = policy
    /\ pending' = [k \in KindSet |-> <<>>]
    /\ queued' = (\E k \in KindSet : policy[k] # Absent)
    /\ pc' = "idle" /\ turn' = 1 /\ hand' = Absent /\ failed' = FALSE /\ doomed' = {}
    /\ peCache' = pe /\ peEvents' = <<>>
    /\ UNCHANGED <<kinds, policy, created, pe, escaped, doubtful>>

Disturbance ==
    \/ \E k \in KindSet : Create(k) \/ Edit(k) \/ Delete(k) \/ Release(k)
    \/ Fail \/ AnswerLost \/ Restart
Informer == \E k \in KindSet : Deliver(k)
Worker ==
    \/ Take \/ Get \/ AddFinalizers \/ AddRefused
    \/ Publish \/ PublishRefused \/ DeleteListed \/ DeleteRefused \/ AllDeleted
    \/ Cleanup \/ RemoveFinalizers \/ RemoveRefused

Next == Disturbance \/ Informer \/ DeliverPE \/ Worker \/ CollectGarbage

Spec ==
    /\ Init /\ [][Next]_vars
    /\ WF_vars(Informer) /\ WF_vars(DeliverPE)
    /\ WF_vars(Worker) /\ WF_vars(CollectGarbage)
-----------------------------------------------------------------------------
\* The types of the variables; the worker publishes only a policy it holds.
TypeOK ==
    /\ policy \in [KindSet -> Object \cup {Absent}]
    /\ cached \in [KindSet -> Object \cup {Absent}]
    /\ pending \in [KindSet -> Seq(Object \cup {Absent})]
    /\ created \in [KindSet -> Nat]
    /\ kinds \in Keys
    /\ queued \in BOOLEAN /\ failed \in BOOLEAN
    /\ pc \in {"idle", "get", "finalize", "publish", "prune", "cleanup", "erase", "unfinalize"}
    /\ turn \in DOMAIN kinds
    /\ hand \in Object \cup {Absent}
    /\ pc = "publish" => hand # Absent
    /\ pe \in [PEs -> Endpoint \cup {Absent}]
    /\ peCache \in [PEs -> Endpoint \cup {Absent}]
    /\ peEvents \in Seq([id : PEs, object : Endpoint \cup {Absent}])
    /\ doomed \subseteq PEs /\ escaped \subseteq PEs /\ doubtful \subseteq KindSet

\* A policy with an endpoint of its own cannot disappear without the
\* controller's cleanup: it has the controller's finalizer until it is being
\* deleted, whatever requests failed, were lost or met a stale cache.
ProtectedByFinalizer ==
    \A id \in PEs, k \in KindSet :
        /\ pe[id] # Absent
        /\ policy[k] # Absent /\ policy[k].uid = pe[id].owner /\ ~ policy[k].deleting
        => policy[k].finalizer

\* A ClusterNetworkPolicy is gone only after its endpoints, the ones excepted
\* that CleanupCNP's list lacked: whatever requests failed or were lost, no other
\* endpoint is left for the next policy of that name to take over.
OrphansEscaped ==
    \A id \in PEs : pe[id] # Absent /\ pe[id].kind = "CNP" => OwnerLive(id) \/ id \in escaped

Wanted(k) == policy[k] # Absent /\ ~ policy[k].deleting
PublishedIn(k, id) == pe[id] # Absent /\ pe[id].kind = k /\ pe[id].spec = policy[k].spec
NothingLeft == (\A k \in KindSet : policy[k] = Absent) => \A id \in PEs : pe[id] = Absent

\* Once users and the API server are quiet, every policy that is not being
\* deleted is published, and when no policy is left neither is an endpoint.
Settles ==
    <>[][~ Disturbance]_vars =>
        <>[]((\A k \in KindSet : Wanted(k) => \E id \in PEs : PublishedIn(k, id)) /\ NothingLeft)

\* The same, and published in exactly one endpoint, unless the last publication of
\* a policy listed an old cache or took over the endpoint of another policy: no
\* failure, lost answer, restart or stale policy keeps the worker from it.
SettlesUnlessDoubtful ==
    <>[][~ Disturbance]_vars =>
        <>[](/\ \A k \in KindSet : Wanted(k) /\ doubtful = {} =>
                  \E id \in PEs :
                     /\ PublishedIn(k, id) /\ pe[id].owner = policy[k].uid
                     /\ \A other \in PEs \ {id} : pe[other] = Absent
             /\ NothingLeft)

\* Deletion is not held up: a policy being deleted loses the finalizer.
Released ==
    <>[][~ Disturbance]_vars =>
        <>[](\A k \in KindSet : policy[k] # Absent /\ policy[k].deleting => ~ policy[k].finalizer)
=============================================================================
