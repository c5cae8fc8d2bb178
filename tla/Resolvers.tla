------------------------------ MODULE Resolvers ------------------------------
(***************************************************************************)
(* What a policy resolves to: the endpoints resolvers of pkg/resolvers     *)
(* (endpoints.go for NetworkPolicies, and the two that convert an          *)
(* ApplicationNetworkPolicy or a ClusterNetworkPolicy to it), as functions *)
(* of the pods, namespaces and services in the cache.                      *)
(*                                                                         *)
(* A selector is the set of labels it requires; there is one protocol.     *)
(* A pod, a service or a domain stands for its own address.  Ports are     *)
(* sets: the lists of a policy are taken to be in ascending order.         *)
(***************************************************************************)
EXTENDS Naturals, Sequences, FiniteSets

CONSTANTS
    Namespaces,   \* names, a set of naturals
    Home,         \* the namespace of each pod and service
    Labels,       \* labels of pods and namespaces
    CIDRs,        \* IP blocks of policies
    Sites,        \* domain names of policies
    Names,        \* names of container ports
    Numbers,      \* port numbers
    Anywhere,     \* 0.0.0.0/0 and ::/0
    Nil,          \* a field that is not set
    Absent        \* an object that does not exist

VARIABLES
    pods,         \* the pods in the cache, or Absent
    namespaces,   \* the labels of a namespace, or Absent
    services      \* the services in the cache, or Absent

ASSUME ResolversTyped ==
    /\ Namespaces \subseteq Nat /\ Numbers \subseteq Nat
    /\ Names \cap Numbers = {} /\ Nil \notin Names \cup Numbers

\* What the cache keeps of a pod and of a service (stripDownPodObject and
\* stripDownServiceObject): ip and clusterIP tell whether there is one, done
\* whether the phase is Succeeded or Failed, host is hostNetwork.  A service
\* listens on a port once.
PodPort == [name : Names \cup {Nil}, number : Numbers]
Pod == [labels : SUBSET Labels, ip : BOOLEAN, done : BOOLEAN, host : BOOLEAN, ports : Seq(PodPort)]
Service ==
    {service \in [selector : {Nil} \cup SUBSET Labels, clusterIP : BOOLEAN,
                 ports : Seq([listen : Numbers, target : Names \cup Numbers])] :
        \A i, j \in DOMAIN service.ports : service.ports[i].listen = service.ports[j].listen => i = j}

ASSUME NilIsUnset == Nil \notin PodPort /\ \A selector \in SUBSET Labels : selector # Nil

\* Ports and peers of the policies; a peer has a block, domains or selectors.
\* Peers of a rule may be missing, which is not the same as none.
PolicyPort == [port : Names \cup Numbers \cup {Nil}, end : Numbers \cup {Nil}]
PolicyPeer ==
    {peer \in [block : CIDRs \cup {Nil}, domains : SUBSET Sites,
              nsSelector : {Nil} \cup SUBSET Labels, podSelector : {Nil} \cup SUBSET Labels] :
        /\ peer.block # Nil => peer.domains = {}
        /\ peer.block # Nil \/ peer.domains # {} => peer.nsSelector = Nil /\ peer.podSelector = Nil}
PolicyRule(peers) == [peers : {Nil} \cup SUBSET peers, ports : SUBSET PolicyPort]

\* Peers without domains, and peers in which nothing is set.
SelectorPeer == {peer \in PolicyPeer : peer.domains = {}}
Blank(peer) == peer.block = Nil /\ peer.domains = {} /\ peer.nsSelector = Nil /\ peer.podSelector = Nil

\* A rule of a ClusterNetworkPolicy has peers, and domains only with Accept.
ClusterRule ==
    {rule \in [action : {"Accept", "Deny", "Pass"}, peers : SUBSET PolicyPeer, ports : SUBSET PolicyPort] :
        /\ rule.peers # {}
        /\ rule.action # "Accept" => \A peer \in rule.peers : peer.domains = {}}

\* The policies the API server accepts: in a NetworkPolicy, but not in an
\* ApplicationNetworkPolicy, a peer has to say something.
NetworkPolicy ==
    [kind : {"np"}, ns : Namespaces, podSelector : SUBSET Labels,
     ingress : Seq(PolicyRule({peer \in SelectorPeer : ~ Blank(peer)})),
     egress : Seq(PolicyRule({peer \in SelectorPeer : ~ Blank(peer)}))]
ApplicationNetworkPolicy ==
    [kind : {"anp"}, ns : Namespaces, podSelector : SUBSET Labels,
     ingress : Seq(PolicyRule(SelectorPeer)), egress : Seq(PolicyRule(PolicyPeer))]
ClusterNetworkPolicy ==
    [kind : {"cnp"}, ns : {Nil}, subject : {peer \in PolicyPeer : peer.nsSelector # Nil},
     ingress : Seq(ClusterRule), egress : Seq(ClusterRule)]

First(positions) == CHOOSE i \in positions : \A j \in positions : i <= j

\* IsPodNetworkReady: the pod has an address and is not Succeeded or Failed.
Ready(p) == pods[p].ip /\ ~ pods[p].done

\* listMatchingPods; no selector selects everything.
MatchingPods(ns, selector) ==
    {p \in DOMAIN pods : /\ Home[p] = ns /\ pods[p] # Absent
                         /\ selector = Nil \/ selector \subseteq pods[p].labels}
ReadyPods(ns, selector) == {p \in MatchingPods(ns, selector) : Ready(p)}

\* LookupContainerPortAndName: the first container port of this name or number.
\* A number is its own answer when no container declares it.
ContainerPort(p, port) ==
    LET ports == pods[p].ports
        found == {i \in DOMAIN ports : port = ports[i].name \/ port = ports[i].number}
    IN  IF found # {} THEN ports[First(found)]
        ELSE IF port \in Names THEN Nil ELSE [name |-> Nil, number |-> port]

\* getPortList: a named port the pod does not have is left out.
PortList(p, ports) ==
    {[q EXCEPT !.port = IF @ = Nil THEN Nil ELSE ContainerPort(p, @).number] :
        q \in {r \in ports : r.port # Nil => ContainerPort(p, r.port) # Nil}}

\* convertToPolicyInfoPortForCIDRs: there is no pod to ask for a named port.
CIDRPorts(ports) == {q \in ports : q.port \notin Names}

\* Ports were asked for and none could be resolved: not the same as no ports.
Unresolved(ports, resolved) == ports # {} /\ resolved = {}

Entry(address, ports) == [address |-> address, ports |-> ports]
-----------------------------------------------------------------------------
(***************************************************************************)
(* Ingress.  Named ports are looked up on the pods the policy selects.     *)
(***************************************************************************)

\* getIngressRulesPorts: what the ports are on one selected pod or another.
IngressRulesPorts(np, ports) ==
    UNION {PortList(p, ports) : p \in ReadyPods(np.ns, np.podSelector)}

\* resolveIngressPorts: without names no pod is asked.
IngressPorts(np, ports) ==
    IF \E q \in ports : q.port \in Names THEN IngressRulesPorts(np, ports) ELSE ports

\* resolvePeerNamespaces, resolveNamespaces.
PeerNamespaces(np, peer) ==
    IF peer.nsSelector = Nil THEN {np.ns}
    ELSE {ns \in Namespaces : namespaces[ns] # Absent /\ peer.nsSelector \subseteq namespaces[ns]}

Blocks(peers) == {peer \in peers : peer.block # Nil}

\* computeIngressEndpoints, for one rule.
IngressEntries(np, rule) ==
    LET ports == IngressPorts(np, rule.ports)
        pod(peer) == UNION {ReadyPods(ns, peer.podSelector) : ns \in PeerNamespaces(np, peer)}
    IN  IF Unresolved(rule.ports, ports) THEN {}
        ELSE IF rule.peers = Nil THEN {Entry(Anywhere, ports)}
        ELSE {Entry(peer.block, ports) : peer \in Blocks(rule.peers)}
             \cup {Entry(p, ports) : p \in UNION {pod(peer) : peer \in rule.peers \ Blocks(rule.peers)}}
-----------------------------------------------------------------------------
(***************************************************************************)
(* Egress.  Named ports are looked up on each peer; the cluster IPs of     *)
(* services whose selector matches the peer's are added.                   *)
(***************************************************************************)
SelectorOf(s) == IF services[s].selector = Nil THEN {} ELSE services[s].selector

\* The services getMatchingServiceClusterIPs does not skip: headless ones it does.
MatchingServices(ns, selector) ==
    {s \in DOMAIN services : /\ Home[s] = ns /\ services[s] # Absent /\ services[s].clusterIP
                             /\ selector = Nil \/ selector \subseteq SelectorOf(s)}

\* The pods a service selects, ready or not.
Backing(s) == MatchingPods(Home[s], SelectorOf(s))

\* The listen port of the first service port that fulfils the condition.
ListenPort(s, positions) == IF positions = {} THEN Nil ELSE services[s].ports[First(positions)].listen

\* LookupListenPortFromPodSpec.
ListenPortFromPodSpec(s, p, port) ==
    LET found == ContainerPort(p, port)
        targets == {found.name, found.number} \ {Nil}
    IN  IF found = Nil THEN Nil
        ELSE ListenPort(s, {i \in DOMAIN services[s].ports : services[s].ports[i].target \in targets})

\* getMatchingServicePort: by the target port (LookupServiceListenPort), else
\* from the first pod in the list that knows it, and the list is in no order.
MatchingServicePorts(s, port) ==
    LET direct == {i \in DOMAIN services[s].ports : services[s].ports[i].target = port}
    IN  IF direct # {} THEN {ListenPort(s, direct)}
        ELSE {ListenPortFromPodSpec(s, p, port) : p \in Backing(s)} \ {Nil}

\* isNumericPortAllowed, for one port of the policy.
NumericPortAllowed(number, q) ==
    \/ q.port = Nil
    \/ /\ q.port \notin Names
       /\ number \in q.port .. (IF q.end = Nil THEN q.port ELSE q.end)

\* Mutant: numbers are not looked up on every pod.
NoBypassCheck(s, listen, ports) == FALSE

\* hasTargetPortBypass: the named target of the service port is another port on
\* some pod, one the policy does not allow.
TargetPortBypass(s, listen, ports) ==
    \E i \in DOMAIN services[s].ports :
      LET target == services[s].ports[i].target
      IN  /\ services[s].ports[i].listen = listen
          /\ target \in Names
          /\ \E p \in Backing(s) :
               /\ ContainerPort(p, target) # Nil
               /\ \A q \in ports : ~ NumericPortAllowed(ContainerPort(p, target).number, q)

\* The ports a service's entry can get for a port of the policy.
ServicePorts(s, q, ports) ==
    IF q.port = Nil THEN {q}
    ELSE {[q EXCEPT !.port = listen] :
            listen \in {l \in MatchingServicePorts(s, q.port) :
                          q.port \in Names \/ ~ TargetPortBypass(s, l, ports)}}

ServiceEntries(ns, selector, ports) ==
    LET resolved(s) == UNION {ServicePorts(s, q, ports) : q \in ports}
    IN  {Entry(s, resolved(s)) :
            s \in {t \in MatchingServices(ns, selector) : ~ Unresolved(ports, resolved(t))}}

PodEntries(ns, selector, ports) ==
    {Entry(p, PortList(p, ports)) :
        p \in {r \in ReadyPods(ns, selector) : ~ Unresolved(ports, PortList(r, ports))}}

\* computeEgressEndpoints, for one rule.
EgressEntries(np, rule) ==
    LET cidr == CIDRPorts(rule.ports)
        entries(ns, peer) == PodEntries(ns, peer.podSelector, rule.ports)
                             \cup ServiceEntries(ns, peer.podSelector, rule.ports)
        selected(peer) == UNION {entries(ns, peer) : ns \in PeerNamespaces(np, peer)}
    IN  IF rule.peers = Nil
          THEN IF Unresolved(rule.ports, cidr) THEN {} ELSE {Entry(Anywhere, cidr)}
          ELSE (IF Unresolved(rule.ports, cidr) THEN {}
                ELSE {Entry(peer.block, cidr) : peer \in Blocks(rule.peers)})
               \cup UNION {selected(peer) : peer \in rule.peers \ Blocks(rule.peers)}

\* computePodSelectorEndpoints.
SelectedPods(ns, selector) == {p \in ReadyPods(ns, selector) : ~ pods[p].host}

\* Resolve.
ResolveNP(np) ==
    [ingress |-> UNION {IngressEntries(np, np.ingress[i]) : i \in DOMAIN np.ingress},
     egress |-> UNION {EgressEntries(np, np.egress[i]) : i \in DOMAIN np.egress},
     pods |-> SelectedPods(np.ns, np.podSelector)]
-----------------------------------------------------------------------------
(***************************************************************************)
(* ApplicationNetworkPolicies: peers may be domain names.                  *)
(***************************************************************************)
WithoutDomains(rule) == {peer \in rule.peers : peer.domains = {}}
Domains(rule) == UNION {peer.domains : peer \in rule.peers}

\* resolveFQDNRules: a named port becomes no port.
FQDNPorts(ports) == {[q EXCEPT !.port = IF @ \in Names THEN Nil ELSE @] : q \in ports}

\* computeApplicationNetworkPolicyEgressEndpoints, for one rule; a rule without
\* peers is left out.
ANPEgressEntries(anp, rule) ==
    IF rule.peers = Nil THEN {}
    ELSE (IF WithoutDomains(rule) = {} THEN {}
          ELSE EgressEntries(anp, [rule EXCEPT !.peers = WithoutDomains(rule)]))
         \cup {Entry(domain, FQDNPorts(rule.ports)) : domain \in Domains(rule)}

\* ResolveApplicationNetworkPolicy.
ResolveANP(anp) ==
    [ResolveNP([anp EXCEPT !.egress = <<>>]) EXCEPT
        !.egress = UNION {ANPEgressEntries(anp, anp.egress[i]) : i \in DOMAIN anp.egress}]
-----------------------------------------------------------------------------
(***************************************************************************)
(* ClusterNetworkPolicies: the subject is a peer, and rules have actions.  *)
(***************************************************************************)

\* getSubjectNamespace: the first of the subject's namespaces, or none.
SubjectNamespace(cnp) ==
    LET found == PeerNamespaces(cnp, cnp.subject) IN IF found = {} THEN Nil ELSE First(found)

\* The temporary NetworkPolicy of convertSingleCNP...RuleToNP.
TempNP(cnp) ==
    [ns |-> SubjectNamespace(cnp),
     podSelector |-> IF cnp.subject.podSelector = Nil THEN {} ELSE cnp.subject.podSelector]

\* resolveCNPIngressRules, for one rule.
CNPIngressEntries(cnp, rule) ==
    IF SubjectNamespace(cnp) = Nil /\ \E q \in rule.ports : q.port \in Names THEN {}
    ELSE IngressEntries(TempNP(cnp), rule)

\* convertCNPPortsToEndpointPorts leaves named ports out.
\* resolveCNPEgressRules, for one rule.
CNPEgressEntries(cnp, rule) ==
    (IF WithoutDomains(rule) = {} THEN {}
     ELSE EgressEntries(TempNP(cnp), [rule EXCEPT !.peers = WithoutDomains(rule)]))
    \cup (IF rule.action = "Deny" THEN {}
          ELSE {Entry(domain, CIDRPorts(rule.ports)) : domain \in Domains(rule)})

\* The key of mergeClusterEndpointInfo; portsToString leaves out the end of a
\* range.
PortsKey(ports) == [port \in {q.port : q \in ports} |-> Cardinality({q \in ports : q.port = port})]

\* Mutant: the action is not part of the key.
SameKeyAnyAction(a, e, b, f) == e.address = f.address /\ PortsKey(e.ports) = PortsKey(f.ports)

SameKey(a, e, b, f) ==
    a = b /\ e.address = f.address /\ PortsKey(e.ports) = PortsKey(f.ports)

\* mergeClusterEndpointInfo: of the entries of all rules with the same key the
\* first is kept.
MergedEntries(rules, entries) ==
    UNION {{[action |-> rules[i].action, entry |-> e] :
              e \in {f \in entries[i] :
                       \A j \in 1..(i - 1) : \A g \in entries[j] :
                          ~ SameKey(rules[i].action, f, rules[j].action, g)}} :
           i \in DOMAIN rules}

CNPIngress(cnp) == [i \in DOMAIN cnp.ingress |-> CNPIngressEntries(cnp, cnp.ingress[i])]
CNPEgress(cnp) == [i \in DOMAIN cnp.egress |-> CNPEgressEntries(cnp, cnp.egress[i])]

\* ResolveClusterNetworkPolicy; the pods are those of resolvePodEndpointsFromSubject.
ResolveCNP(cnp) ==
    [ingress |-> MergedEntries(cnp.ingress, CNPIngress(cnp)),
     egress |-> MergedEntries(cnp.egress, CNPEgress(cnp)),
     pods |-> UNION {SelectedPods(ns, cnp.subject.podSelector) :
                        ns \in PeerNamespaces(cnp, cnp.subject)}]
=============================================================================
