----------------------------- MODULE Resolution -----------------------------
(***************************************************************************)
(* Which changes of pods, namespaces and services reach a policy: the      *)
(* filters of the event handlers and the policy reference resolver, set    *)
(* against what the endpoints resolvers make of the same objects.          *)
(*                                                                         *)
(* PolicyEvents follows a change on its way to a reconcile and takes for   *)
(* granted that the handlers recognise the changes that matter.  Here the  *)
(* objects have contents, and that is what is checked.  The policy does    *)
(* not change and is tracked; a reconcile is one step.                     *)
(***************************************************************************)
EXTENDS Resolvers

CONSTANTS
    Policies,          \* the policies, one of which is resolved
    PodVersions,       \* for each pod the objects it may be
    NamespaceVersions, \* for each namespace the labels it may have, or Absent
    ServiceVersions,   \* for each service the objects it may be
    MaxPending         \* bound: events the handlers have not seen

VARIABLES
    policy,     \* the policy; kind is "np", "anp" or "cnp"
    notes,      \* for each handler the events it has not seen
    queued,     \* the work queue holds the policy
    fresh,      \* what is published is what the policy resolves to
    overlooked  \* history: since the last reconcile a change was overlooked

cluster == <<pods, namespaces, services>>
vars == <<cluster, policy, notes, queued, fresh, overlooked>>

Handlers == {"pod", "namespace", "service"}

ASSUME PendingBound == MaxPending \in Nat \ {0}

\* The objects the API server accepts.
ASSUME ObjectsTyped ==
    /\ \A id \in DOMAIN PodVersions \cup DOMAIN ServiceVersions : Home[id] \in Namespaces
    /\ \A p \in DOMAIN PodVersions : PodVersions[p] \subseteq Pod
    /\ \A ns \in Namespaces : NamespaceVersions[ns] \subseteq {Absent} \cup SUBSET Labels
    /\ \A ns \in Namespaces : {} \in NamespaceVersions[ns]
    /\ \A s \in DOMAIN ServiceVersions : ServiceVersions[s] \subseteq Service
    /\ Policies \subseteq NetworkPolicy \cup ApplicationNetworkPolicy \cup ClusterNetworkPolicy

Resolve ==
    CASE policy.kind = "np" -> ResolveNP(policy)
      [] policy.kind = "anp" -> ResolveANP(policy)
      [] policy.kind = "cnp" -> ResolveCNP(policy)

\* The objects exist or not; the initial list has queued the policy.
Init ==
    /\ policy \in Policies
    /\ pods = [p \in DOMAIN PodVersions |-> Absent]
    /\ namespaces = [ns \in Namespaces |-> {}]
    /\ services = [s \in DOMAIN ServiceVersions |-> Absent]
    /\ notes = [h \in Handlers |-> <<>>]
    /\ queued = TRUE
    /\ fresh = FALSE
    /\ overlooked = FALSE
-----------------------------------------------------------------------------
(***************************************************************************)
(* The policy reference resolver.  For Create and Delete there is no old   *)
(* object; Delete hands over the last one.                                 *)
(***************************************************************************)
Object(note) == IF note.new = Absent THEN note.old ELSE note.new
Objects(note) == {note.old, note.new} \ {Absent}

PeersOf(rules) == UNION {rules[i].peers : i \in {j \in DOMAIN rules : rules[j].peers # Nil}}
Peers == PeersOf(policy.ingress) \cup PeersOf(policy.egress)

\* The tracker's sets (module PolicyEvents).
Namespaced == \E peer \in Peers : peer.nsSelector # Nil
HasEgressRules == policy.egress # <<>>

\* The namespace part of isPodLabelMatchPeer and isServiceMatchLabelSelector.
NamespaceMatches(peer, ns) ==
    IF peer.nsSelector = Nil THEN ns = policy.ns
    ELSE namespaces[ns] # Absent /\ peer.nsSelector \subseteq namespaces[ns]

\* isPodLabelMatchPeer; without selectors the peer is an IPBlock or a domain.
PodMatchesPeer(peer, ns, pod) ==
    /\ NamespaceMatches(peer, ns)
    /\ IF peer.podSelector = Nil THEN peer.nsSelector # Nil
       ELSE peer.podSelector \subseteq pod.labels

\* Mutant: only the new labels are looked at.
ReferredByNewPod(note) ==
    \/ Home[note.id] = policy.ns /\ policy.podSelector \subseteq Object(note).labels
    \/ /\ Home[note.id] = policy.ns \/ Namespaced
       /\ \E peer \in Peers : PodMatchesPeer(peer, Home[note.id], Object(note))

\* getReferredPoliciesForPod: policies of its namespace are listed, others are
\* looked up in the tracker.
ReferredByPod(note) ==
    \E pod \in Objects(note) :
      \/ Home[note.id] = policy.ns /\ policy.podSelector \subseteq pod.labels
      \/ /\ Home[note.id] = policy.ns \/ Namespaced
         /\ \E peer \in Peers : PodMatchesPeer(peer, Home[note.id], pod)

\* getReferredPoliciesForNamespace.
ReferredByNamespace(note) ==
    \E labels \in Objects(note), peer \in Peers :
       peer.nsSelector # Nil /\ peer.nsSelector \subseteq labels

\* isServiceMatchLabelSelector.
ServiceMatchesPeer(peer, ns, service) ==
    /\ peer.podSelector # Nil \/ peer.nsSelector # Nil
    /\ NamespaceMatches(peer, ns)
    /\ \/ peer.podSelector = Nil
       \/ service.selector # Nil /\ peer.podSelector \subseteq service.selector

\* getReferredPoliciesForService: a headless service is ignored, whatever it
\* was before.
ReferredByService(note) ==
    /\ Object(note).clusterIP
    /\ HasEgressRules /\ (Home[note.id] = policy.ns \/ Namespaced)
    /\ \E service \in Objects(note), peer \in PeersOf(policy.egress) :
         ServiceMatchesPeer(peer, Home[note.id], service)

\* enqueueReferredPolicies of the three handlers.  All ClusterNetworkPolicies
\* are listed, but a pod without an address is ignored before that.
Referred(h, note) ==
    /\ h = "pod" => Object(note).ip
    /\ \/ policy.kind = "cnp"
       \/ h = "pod" /\ ReferredByPod(note)
       \/ h = "namespace" /\ ReferredByNamespace(note)
       \/ h = "service" /\ ReferredByService(note)

\* The changes the handlers drop although they may matter: those of a pod that
\* has no address, or not any more; for policies looked up by service also of a
\* service that is headless, and of one without a selector before and after,
\* which the resolver takes for a peer whose pod selector is empty; and those in
\* the policy's namespace for a peer in which nothing is set: the resolver takes
\* it for all pods there, the handlers for none.
Ignored(h, note) ==
    /\ ~ Referred(h, note)
    /\ \/ h = "pod" /\ ~ Object(note).ip
       \/ h = "service" /\ ~ Object(note).clusterIP
       \/ /\ h = "service" /\ \A service \in Objects(note) : service.selector = Nil
          /\ \E peer \in PeersOf(policy.egress) : peer.podSelector = {}
       \/ /\ h \in {"pod", "service"} /\ Home[note.id] = policy.ns
          /\ \E peer \in IF h = "pod" THEN Peers ELSE PeersOf(policy.egress) : Blank(peer)
-----------------------------------------------------------------------------
Pending == Len(notes["pod"]) + Len(notes["namespace"]) + Len(notes["service"])

\* Mutant: Update does not compare the two objects.
AnnounceAlways(h, id, old, new) ==
    LET note == [id |-> id, old |-> old, new |-> new]
    IN  /\ Pending < MaxPending
        /\ Objects(note) # {}
        /\ UNCHANGED <<policy, queued>>
        /\ notes' = [notes EXCEPT ![h] = Append(@, note)]
        /\ fresh' = (fresh /\ Resolve' = Resolve)
        /\ overlooked' = (overlooked \/ (Ignored(h, note) /\ Resolve' # Resolve))

\* A change of the cluster and its event.  Update events in which nothing the
\* filter compares differs are no change here.
Announce(h, id, old, new) ==
    LET note == [id |-> id, old |-> old, new |-> new]
    IN  /\ Pending < MaxPending
        /\ new # old
        /\ UNCHANGED <<policy, queued>>
        /\ notes' = [notes EXCEPT ![h] = Append(@, note)]
        /\ fresh' = (fresh /\ Resolve' = Resolve)
        /\ overlooked' = (overlooked \/ (Ignored(h, note) /\ Resolve' # Resolve))

\* The containers and hostNetwork of a pod never change.
ChangePod(p) ==
    \E new \in PodVersions[p] \cup {Absent} :
      /\ pods[p] # Absent /\ new # Absent =>
            new.ports = pods[p].ports /\ new.host = pods[p].host
      /\ pods' = [pods EXCEPT ![p] = new]
      /\ UNCHANGED <<namespaces, services>>
      /\ Announce("pod", p, pods[p], new)

\* A namespace, but for the policy's, may be gone from its cache while pods and
\* services are still in theirs.
ChangeNamespace(ns) ==
    \E new \in NamespaceVersions[ns] :
      /\ new = Absent => policy.ns # ns
      /\ namespaces' = [namespaces EXCEPT ![ns] = new]
      /\ UNCHANGED <<pods, services>>
      /\ Announce("namespace", ns, namespaces[ns], new)

ChangeService(s) ==
    \E new \in ServiceVersions[s] \cup {Absent} :
      /\ services' = [services EXCEPT ![s] = new]
      /\ UNCHANGED <<pods, namespaces>>
      /\ Announce("service", s, services[s], new)

\* A handler takes the next event.  Meanwhile the cache may have moved on.
Handle(h) ==
    /\ notes[h] # <<>>
    /\ queued' = (queued \/ Referred(h, Head(notes[h])))
    /\ notes' = [notes EXCEPT ![h] = Tail(@)]
    /\ UNCHANGED <<cluster, policy, fresh, overlooked>>

\* The worker resolves the policy and publishes the result.
Reconcile ==
    /\ queued
    /\ queued' = FALSE
    /\ fresh' = TRUE
    /\ overlooked' = FALSE
    /\ UNCHANGED <<cluster, policy, notes>>

Next ==
    \/ \E p \in DOMAIN PodVersions : ChangePod(p)
    \/ \E ns \in Namespaces : ChangeNamespace(ns)
    \/ \E s \in DOMAIN ServiceVersions : ChangeService(s)
    \/ \E h \in Handlers : Handle(h)
    \/ Reconcile

Spec == Init /\ [][Next]_vars
-----------------------------------------------------------------------------
\* The types of the variables: objects are among the versions they may have, and
\* the objects of an event differ.
TypeOK ==
    /\ policy \in Policies
    /\ \A p \in DOMAIN pods : pods[p] \in PodVersions[p] \cup {Absent}
    /\ \A ns \in Namespaces : namespaces[ns] \in NamespaceVersions[ns]
    /\ \A s \in DOMAIN services : services[s] \in ServiceVersions[s] \cup {Absent}
    /\ \A h \in Handlers : \A i \in DOMAIN notes[h] : notes[h][i].old # notes[h][i].new
    /\ queued \in BOOLEAN /\ fresh \in BOOLEAN /\ overlooked \in BOOLEAN

\* No event is on its way to a reconcile.
Quiet == Pending = 0 /\ ~ queued

\* The handlers recognise every change that makes a difference: whatever objects
\* looked like before and after, and whatever happened to the other objects
\* between a change and the handler's look at the policy's peers, when nothing
\* is under way the published endpoints are what the policy resolves to, but
\* for the changes named in Ignored.
RecognisesChanges == Quiet => fresh \/ overlooked

\* The numbers a policy's port stands for on a pod.
Meant(p, q) ==
    IF q.port = Nil THEN {ContainerPort(p, n).number : n \in Numbers}
    ELSE IF ContainerPort(p, q.port) = Nil THEN {}
    ELSE LET start == ContainerPort(p, q.port).number
         IN  start .. (IF q.end = Nil THEN start ELSE q.end)

\* "This prevents a bypass where traffic to ClusterIP:X gets DNAT'd by kube-proxy
\* to a pod container port that the NetworkPolicy did not intend to allow": the
\* port of a cluster IP that is published for a number leads, on each pod behind
\* the service, to a port the rule allows on that pod.
ServicePortsLeadToAllowedPorts ==
    \A i \in DOMAIN policy.egress : policy.egress[i].peers # Nil =>
      \A s \in DOMAIN services, q \in policy.egress[i].ports :
        services[s] # Absent /\ q.port \in Numbers /\ q.end = Nil =>
          \A published \in ServicePorts(s, q, policy.egress[i].ports),
             j \in DOMAIN services[s].ports, p \in Backing(s) :
            LET target == ContainerPort(p, services[s].ports[j].target)
            IN  services[s].ports[j].listen = published.port /\ target # Nil =>
                  \E r \in policy.egress[i].ports : target.number \in Meant(p, r)

\* Merging the entries of a ClusterNetworkPolicy's rules loses no rule: each
\* single port, or all ports, that a rule resolves to for an address is in an
\* entry of that action for the address.
Kept(rules, entries) ==
    \A i \in DOMAIN rules : \A e \in entries[i] :
      \E merged \in MergedEntries(rules, entries) :
        /\ merged.action = rules[i].action
        /\ merged.entry.address = e.address
        /\ e.ports = {} => merged.entry.ports = {}
        /\ \A q \in e.ports : q.end = Nil => \E r \in merged.entry.ports : r.port = q.port
MergeKeepsRules ==
    policy.kind = "cnp" =>
        Kept(policy.ingress, CNPIngress(policy)) /\ Kept(policy.egress, CNPEgress(policy))
=============================================================================
