----------------------- MODULE PolicyEndpointsManager -----------------------
(***************************************************************************)
(* The policy endpoints manager publishing one policy: Reconcile,          *)
(* ReconcileANP and ReconcileCNP of pkg/policyendpoints/manager.go, with   *)
(* the API server they write to and the informer cache they read from.     *)
(*                                                                         *)
(* The work queue hands one key to one worker at a time and the endpoints  *)
(* of different policies are disjoint, so one policy and one worker show   *)
(* every interleaving a policy's endpoints can meet: resolution results    *)
(* that change under way, a cache that lags behind the worker's own        *)
(* writes, failed and unanswered requests, and restarts.                   *)
(*                                                                         *)
(* IsCluster selects ReconcileCNP (ClusterPolicyEndpoints, written with    *)
(* Update) instead of Reconcile/ReconcileANP (PolicyEndpoints, written     *)
(* with a merge patch).                                                    *)
(***************************************************************************)
EXTENDS EndpointRules, GreedyFill

CONSTANTS
    IsCluster,          \* TRUE for a ClusterNetworkPolicy
    endpointChunkSize,  \* most entries of a kind in one endpoint
    Policies,           \* the specs, with their resolved rules, a policy takes on
    Selectors,          \* pod selectors
    Isolations,         \* policy types; for a cluster policy tier, priority and subject
    PEs,                \* object names, a set of naturals
    MaxLag,             \* bound: watch events on their way to the cache
    Absent,             \* no object
    Nothing             \* no work

Kinds == {"ingress", "egress", "pods"}

\* What the resolvers return for a policy, and the fields copied from it.
Policy == [rules : [Kinds -> SUBSET Rule], selector : Selectors, isolation : Isolations]

\* PolicyEndpointSpec / ClusterPolicyEndpointSpec.
PESpec == [rules : [Kinds -> SUBSET Rule], selector : Selectors, isolation : Isolations]

\* An entry of the create, update or delete list.  Updates come from two
\* lists, potentialDeletes that were given rules ("reuse") and modified ones.
Ops == {"create", "reuse", "modify", "delete"}
Work == [op : Ops, spec : PESpec]

ASSUME ConstantsTyped ==
    /\ IsCluster \in BOOLEAN
    /\ endpointChunkSize \in Nat \ {0}
    /\ MaxLag \in Nat \ {0}
    /\ PEs \subseteq Nat /\ IsFiniteSet(PEs)
ASSUME PoliciesTyped ==
    \A p \in Policies : p \in Policy /\ \A k \in Kinds : IsFiniteSet(p.rules[k])
ASSUME AbsentIsNoSpec == Absent \notin PESpec
ASSUME NothingIsNoWork == Nothing \notin Work
ASSUME NothingIsNoPolicy == Nothing \notin Policies

VARIABLES
    policy,  \* the policy and what its rules resolve to now
    queued,  \* the work queue holds the policy's key
    pc,      \* "idle", or "writing" while the lists are carried out
    goal,    \* the policy as this reconcile resolved it, or Nothing
    todo,    \* the work this reconcile has left
    server,  \* the policy's endpoints at the API server
    cache,   \* the endpoints in the informer cache
    events,  \* watch events the cache has not seen yet
    stale,   \* endpoints whose cached copy was out of date when this reconcile,
             \* or the last that finished, listed them
    moved    \* endpoints whose cached copy changed since they were listed

vars == <<policy, queued, pc, goal, todo, server, cache, events, stale, moved>>
worker == <<pc, goal, todo, stale, moved>>

Pending(id) == \E e \in DOMAIN events : events[e].id = id

Init ==
    /\ policy \in Policies
    /\ queued = TRUE
    /\ pc = "idle"
    /\ goal = Nothing
    /\ todo = [id \in PEs |-> Nothing]
    /\ server = [id \in PEs |-> Absent]
    /\ cache = server
    /\ events = <<>>
    /\ stale = {}
    /\ moved = {}
-----------------------------------------------------------------------------
(***************************************************************************)
(* computePolicyEndpoints.  The cache lists the endpoints in an arbitrary  *)
(* order: rank is an endpoint's place in the list.                         *)
(***************************************************************************)
Existing == {id \in PEs : cache[id] # Absent}
Listings == {r \in [Existing -> 1..Cardinality(Existing)] :
                \A a, b \in Existing : r[a] = r[b] => a = b}

\* Mutant: existing endpoints are emptied and everything is packed afresh.
KeepNothing(rank, k, id) == {}

\* processExistingPolicyEndpoints keeps a wanted rule in the first listed
\* endpoint that has it, and drops it from the later ones.
KeptRules(rank, k, id) ==
    IF id \in Existing
      THEN {r \in policy.rules[k] \cap cache[id].rules[k] :
              \A other \in Existing : r \in cache[other].rules[k] => rank[id] <= rank[other]}
      ELSE {}

\* The rules no existing endpoint has: what is left in the maps.
NewRules(k) == {r \in policy.rules[k] : \A id \in Existing : r \notin cache[id].rules[k]}

\* Endpoints left without rules are deleted unless packing fills them.
ModifiedEndpoints(rank) == {id \in Existing : \E k \in Kinds : KeptRules(rank, k, id) # {}}
PotentialDeletes(rank) == Existing \ ModifiedEndpoints(rank)

\* The order in which packing tries endpoints: modified, potential deletes,
\* then the ones being created.
SlotPosition(rank) ==
    [id \in PEs |->
        CASE id \in ModifiedEndpoints(rank) -> rank[id]
          [] id \in PotentialDeletes(rank) -> Cardinality(Existing) + rank[id]
          [] OTHER -> 2 * Cardinality(Existing) + id]

\* The distributions of the new rules of a kind over existing and created
\* endpoints that packingIngressRules, packingEgressRules and
\* packingPodSelectorEndpoints can produce (see module Packing); which rule
\* goes where is the iteration order of a map.
Packings(rank, created, k) ==
    LET slots == Existing \cup created
        held == [id \in slots |-> Cardinality(KeptRules(rank, k, id))]
        taken(place) == [id \in slots |-> Cardinality({r \in NewRules(k) : place[r] = id})]
    IN  {place \in [NewRules(k) -> slots] :
            IsGreedyFill(slots, SlotPosition(rank), held, taken(place), endpointChunkSize)}

\* The rules an endpoint ends up with, before entries of a peer are merged.
Contents(rank, place, id) ==
    [k \in Kinds |-> KeptRules(rank, k, id) \cup {r \in NewRules(k) : place[k][r] = id}]

\* Mutant: the selector is left out.
SpecWithoutSelector(rank, place, id) ==
    [rules |-> Contents(rank, place, id), selector |-> Nothing, isolation |-> policy.isolation]

\* newPolicyEndpoint copies the selector; an existing PolicyEndpoint keeps its
\* own and only has PodIsolation brought up to date.  A ClusterPolicyEndpoint
\* gets tier, priority and subject from the policy.
SpecFor(rank, place, id) ==
    [rules |-> Contents(rank, place, id),
     selector |-> IF id \in Existing THEN cache[id].selector ELSE policy.selector,
     isolation |-> policy.isolation]

\* The endpoint that is created, or kept although it has no rule, so that the
\* policy always has one.
KeepOne(rank, created) ==
    IF \A k \in Kinds : policy.rules[k] = {}
      THEN IF Existing = {} THEN created ELSE {id \in Existing : \A other \in Existing : rank[id] <= rank[other]}
      ELSE {}

\* Mutant: doNotDelete is ignored.
InUseBeforePacking(rank, created, place, id) ==
    id \in KeepOne(rank, created) \/ id \in ModifiedEndpoints(rank)

InUse(rank, created, place, id) ==
    \/ id \in KeepOne(rank, created)
    \/ \E k \in Kinds : Contents(rank, place, id)[k] # {}

Plan(rank, created, place) ==
    [id \in PEs |->
        IF id \in created
          THEN [op |-> "create", spec |-> SpecFor(rank, place, id)]
          ELSE IF id \in Existing
            THEN [op |-> IF ~ InUse(rank, created, place, id) THEN "delete"
                         ELSE IF id \in ModifiedEndpoints(rank) THEN "modify" ELSE "reuse",
                  spec |-> SpecFor(rank, place, id)]
            ELSE Nothing]

\* Names the API server can generate: not in use and not on their way to the
\* cache.  Names are interchangeable, so the smallest are taken.
FreshNames == {id \in PEs : server[id] = Absent /\ cache[id] = Absent /\ ~ Pending(id)}
NewNames == {ids \in SUBSET FreshNames :
                \A a \in ids, b \in FreshNames : b < a => b \in ids}

\* No endpoint is created that packing does not need.
NoSpare(rank, created, place) ==
    IF Existing = {} /\ \A k \in Kinds : policy.rules[k] = {}
      THEN Cardinality(created) = 1
      ELSE \A id \in created : \E k \in Kinds : Contents(rank, place, id)[k] # {}
-----------------------------------------------------------------------------
\* A pod, namespace, service or policy event: the policy resolves to something
\* else from now on, and the handlers put its key in the queue.
Change ==
    /\ \E p \in Policies \ {policy} : policy' = p
    /\ queued' = TRUE
    /\ UNCHANGED <<server, cache, events, worker>>

\* The worker takes the key, resolves the policy, lists the endpoints from the
\* cache and computes the lists.
StartReconcile ==
    /\ pc = "idle" /\ pc' = "writing"
    /\ queued /\ queued' = FALSE
    /\ goal' = policy
    /\ stale' = {id \in PEs : Pending(id)}
    /\ moved' = {}
    /\ \E rank \in Listings, created \in NewNames :
         \E in \in Packings(rank, created, "ingress"),
            eg \in Packings(rank, created, "egress"),
            ps \in Packings(rank, created, "pods") :
           LET place == [ingress |-> in, egress |-> eg, pods |-> ps]
           IN  /\ NoSpare(rank, created, place)
               /\ todo' = Plan(rank, created, place)
    /\ UNCHANGED <<policy, server, cache, events>>

Order == [create |-> 1, reuse |-> 2, modify |-> 3, delete |-> 4]

\* Creates come first, then the two parts of the update list, then deletes.
Turn(id) ==
    /\ pc = "writing"
    /\ todo[id] # Nothing
    /\ \A other \in PEs : todo[other] # Nothing => Order[todo[id].op] <= Order[todo[other].op]

\* processPolicyEndpoints: the spec that is written.  The choice between map
\* iteration orders is made when the object is written: nothing looks at it
\* earlier.
Processed(spec) ==
    {[spec EXCEPT !.rules = [ingress |-> in, egress |-> eg, pods |-> spec.rules["pods"]]] :
        in \in Merges(spec.rules["ingress"], IsCluster),
        eg \in Merges(spec.rules["egress"], IsCluster)}

\* EqualPolicyEndpointSpec, EqualClusterPolicyEndpointSpec.
EqualSpec(a, b) ==
    /\ a.selector = b.selector
    /\ a.isolation = b.isolation
    /\ \A k \in Kinds : Canonical(a.rules[k]) = Canonical(b.rules[k])

\* Mutant: lists are merged, as by a strategic merge patch.
PatchedStrategically(object, old, new, resent) ==
    [rules |-> [k \in Kinds |-> object.rules[k] \cup new.rules[k]],
     selector |-> new.selector, isolation |-> new.isolation]

\* The server's object after a merge patch from old to new: only the fields
\* in which the two differ are replaced.  Merging leaves ingress and egress
\* entries in the order of a map iteration, so a list with the same entries
\* may differ in order: resent are the kinds for which it does.
Patched(object, old, new, resent) ==
    [rules |-> [k \in Kinds |-> IF new.rules[k] = old.rules[k] /\ k \notin resent
                                 THEN object.rules[k] ELSE new.rules[k]],
     selector |-> IF new.selector = old.selector THEN object.selector ELSE new.selector,
     isolation |-> IF new.isolation = old.isolation THEN object.isolation ELSE new.isolation]

\* A write the server accepts, and the event it sends to the cache.
Stored(id, value) ==
    /\ Len(events) < MaxLag
    /\ server' = [server EXCEPT ![id] = value]
    /\ events' = Append(events, [id |-> id, object |-> value])

\* An Update carries the resource version that was listed.  A patch carries
\* one only if the cache moved on since the list, and then it is refused.
Conflict(id) == id \in (IF IsCluster THEN stale ELSE moved)

\* The requests of the three loops that reach the server and are accepted.
Request(id) ==
    /\ Turn(id)
    /\ \/ /\ todo[id].op = "create"
          /\ \E spec \in Processed(todo[id].spec) : Stored(id, spec)
       \/ /\ todo[id].op \in {"reuse", "modify"}
          /\ cache[id] # Absent /\ server[id] # Absent /\ ~ Conflict(id)
          /\ \E spec \in Processed(todo[id].spec), resent \in SUBSET {"ingress", "egress"} :
               /\ ~ EqualSpec(cache[id], spec)
               /\ \A k \in resent : Cardinality(spec.rules[k]) > 1
               /\ Stored(id, IF IsCluster THEN spec
                                          ELSE Patched(server[id], cache[id], spec, resent))
       \/ /\ todo[id].op = "delete"
          /\ server[id] # Absent
          /\ Stored(id, Absent)

Write(id) ==
    /\ Request(id)
    /\ todo' = [todo EXCEPT ![id] = Nothing]
    /\ UNCHANGED <<policy, queued, pc, goal, cache, stale, moved>>

\* The cached endpoint is already what is wanted: no request is made.
Skip(id) ==
    /\ Turn(id)
    /\ todo[id].op \in {"reuse", "modify"}
    /\ cache[id] # Absent
    /\ \E spec \in Processed(todo[id].spec) : EqualSpec(cache[id], spec)
    /\ todo' = [todo EXCEPT ![id] = Nothing]
    /\ UNCHANGED <<policy, queued, pc, goal, server, cache, events, stale, moved>>

\* Mutant: the error is logged and not returned.
AbortQuietly ==
    /\ pc' = "idle"
    /\ goal' = Nothing
    /\ todo' = [id \in PEs |-> Nothing]
    /\ stale' = {}
    /\ moved' = {}
    /\ UNCHANGED <<policy, queued, cache>>

\* An error ends the reconcile; the queue will hand out the key again.
Abort ==
    /\ pc' = "idle"
    /\ queued' = TRUE
    /\ goal' = Nothing
    /\ todo' = [id \in PEs |-> Nothing]
    /\ stale' = {}
    /\ moved' = {}
    /\ UNCHANGED <<policy, cache>>

\* The object is gone or has changed: NotFound or Conflict.
Refused(id) ==
    /\ Turn(id)
    /\ \/ /\ todo[id].op \in {"reuse", "modify"}
          /\ \/ cache[id] = Absent
             \/ /\ cache[id] # Absent
                /\ server[id] = Absent \/ Conflict(id)
                /\ \E spec \in Processed(todo[id].spec) : ~ EqualSpec(cache[id], spec)
       \/ todo[id].op = "delete" /\ server[id] = Absent
    /\ Abort
    /\ UNCHANGED <<server, events>>

\* A request fails without effect.
Fail ==
    /\ \E id \in PEs : Turn(id)
    /\ Abort
    /\ UNCHANGED <<server, events>>

\* A request takes effect, but the answer is lost and the reconcile fails.
AnswerLost(id) == Request(id) /\ Abort

\* Mutant: the deletes are left out.
FinishBeforeDeletes ==
    /\ pc = "writing"
    /\ \A id \in PEs : todo[id] # Nothing => todo[id].op = "delete"
    /\ pc' = "idle"
    /\ goal' = Nothing
    /\ todo' = [id \in PEs |-> Nothing]
    /\ moved' = {}
    /\ UNCHANGED <<policy, queued, server, cache, events, stale>>

\* Every list is done.
Finish ==
    /\ pc = "writing"
    /\ \A id \in PEs : todo[id] = Nothing
    /\ pc' = "idle"
    /\ goal' = Nothing
    /\ moved' = {}
    /\ UNCHANGED <<policy, queued, todo, server, cache, events, stale>>

\* The informer applies the next watch event.
WatchEvent ==
    /\ events # <<>>
    /\ cache' = [cache EXCEPT ![Head(events).id] = Head(events).object]
    /\ events' = Tail(events)
    /\ moved' = IF pc = "writing" THEN moved \cup {Head(events).id} ELSE moved
    /\ UNCHANGED <<policy, queued, pc, goal, todo, server, stale>>

\* The controller stops and starts again: the cache is filled by a new list,
\* and the initial list of policies queues the key.
Restart ==
    /\ pc' = "idle"
    /\ queued' = TRUE
    /\ goal' = Nothing
    /\ todo' = [id \in PEs |-> Nothing]
    /\ cache' = server
    /\ events' = <<>>
    /\ stale' = {}
    /\ moved' = {}
    /\ UNCHANGED <<policy, server>>

Disturbance == Change \/ Fail \/ Restart \/ \E id \in PEs : AnswerLost(id)

Progress ==
    \/ StartReconcile \/ Finish
    \/ \E id \in PEs : Write(id) \/ Skip(id) \/ Refused(id)

Next == Disturbance \/ Progress \/ WatchEvent

Spec == Init /\ [][Next]_vars /\ WF_vars(Progress) /\ WF_vars(WatchEvent)
-----------------------------------------------------------------------------
(***************************************************************************)
(* Properties.                                                             *)
(***************************************************************************)
Live == {id \in PEs : server[id] # Absent}
Published(k) == UNION {server[id].rules[k] : id \in Live}

\* The types of the variables; every object written is a complete spec.
TypeOK ==
    /\ policy \in Policies
    /\ queued \in BOOLEAN
    /\ pc \in {"idle", "writing"}
    /\ goal \in Policies \cup {Nothing}
    /\ pc = "writing" => goal \in Policies
    /\ todo \in [PEs -> Work \cup {Nothing}]
    /\ server \in [PEs -> PESpec \cup {Absent}]
    /\ cache \in [PEs -> PESpec \cup {Absent}]
    /\ events \in Seq([id : PEs, object : PESpec \cup {Absent}])
    /\ stale \subseteq PEs
    /\ moved \subseteq PEs

\* No endpoint ever holds more entries of a kind than the chunk size, whatever
\* the cache missed and whatever merge patches were applied to a newer object:
\* an endpoint that outgrows it may not fit in an API object.
ChunksBounded ==
    \A id \in Live, k \in Kinds : Cardinality(server[id].rules[k]) <= endpointChunkSize

\* A reconcile that listed the endpoints from a cache in sync ends with the
\* policy's traffic published, no more and no less, in at least one endpoint,
\* and with the policy's isolation in all of them.  What the endpoints held
\* before (leftovers of aborted reconciles, duplicates made from a stale list)
\* does not matter.
Synced == pc = "writing" /\ stale = {}
PublishedExactly ==
    Synced /\ (\A id \in PEs : todo[id] = Nothing) =>
        /\ Live # {}
        /\ \A k \in Kinds : Traffic(Published(k)) = Traffic(goal.rules[k])
        /\ \A id \in Live : server[id].isolation = goal.isolation

\* While such a reconcile replaces the endpoints one by one, the traffic of an
\* entry that is published and still wanted never disappears, not even for
\* the time between two writes; and no step of any reconcile, however old its
\* list, publishes what is not wanted.
PublishedStepwise ==
    [][pc = "writing" =>
         \A k \in Kinds :
            /\ stale = {} => Traffic(Published(k) \cap goal.rules[k]) \subseteq Traffic(Published(k))'
            /\ Traffic(Published(k))' \subseteq Traffic(Published(k)) \cup Traffic(goal.rules[k])]_vars

\* What is published is what the policy resolves to.
UpToDate ==
    /\ Live # {}
    /\ \A k \in Kinds : Traffic(Published(k)) = Traffic(policy.rules[k])
    /\ \A id \in Live : server[id].isolation = policy.isolation

\* Once pods, policies and the API server are quiet, what is published is what
\* the policy resolves to, and stays so: the work queue repeats every reconcile
\* that fails.
Converges == <>[][~ Disturbance]_vars => <>[]UpToDate

\* What the code does guarantee: the endpoints stay wrong only if the last
\* reconcile listed them while the cache had yet to see the writes of one
\* before it; that reconcile succeeds, and nothing repeats it.
ConvergesUnlessStale == <>[][~ Disturbance]_vars => <>[](UpToDate \/ stale # {})
=============================================================================
