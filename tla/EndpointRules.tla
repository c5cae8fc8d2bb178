---------------------------- MODULE EndpointRules ----------------------------
(***************************************************************************)
(* The entries of a policy endpoint and how entries for the same peer are  *)
(* merged before they are written.                                         *)
(*                                                                         *)
(* An entry (EndpointInfo, ClusterEndpointInfo or PodEndpoint) is a peer   *)
(* and a list of ports.  The peer stands for everything the merge compares *)
(* besides ports: CIDR and exceptions, or domain name, and for a cluster   *)
(* policy the action.  An empty port list means all ports.                 *)
(* Two entries have the same key (getEndpointInfoKey) exactly when they    *)
(* are equal, the order of their ports included.                           *)
(***************************************************************************)
EXTENDS Naturals, Sequences, FiniteSets

CONSTANTS Peers,    \* network peers: CIDRs, domain names, pods
          Ports,    \* the ports the rules name
          AnyPort   \* a port that no rule names

ASSUME AnyPortIsNew == AnyPort \notin Ports
ASSUME PortsFinite == IsFiniteSet(Ports)

\* Lists of distinct ports.
PortLists ==
    {l \in UNION {[1..len -> Ports] : len \in 0..Cardinality(Ports)} :
        \A a, b \in DOMAIN l : l[a] = l[b] => a = b}

Rule == [peer : Peers, ports : PortLists]

PortsOf(rule) == {rule.ports[a] : a \in DOMAIN rule.ports}

\* The traffic an entry speaks of, and that of a set of entries.
Covers(rule) ==
    {rule.peer} \X (IF rule.ports = <<>> THEN Ports \cup {AnyPort} ELSE PortsOf(rule))
Traffic(rules) == UNION {Covers(rule) : rule \in rules}

-----------------------------------------------------------------------------
\* combineClusterRulesEndpoints: entries of one peer become one.  Their ports
\* are concatenated and deduplicated, in an order that depends on two map
\* iterations, so that an entry for all ports contributes no port.
CombinedClusterEntry(rules, entry) ==
    \/ \E r \in rules : rules = {r} /\ entry = r
    \/ /\ \A r \in rules : rules # {r}
       /\ PortsOf(entry) = UNION {PortsOf(r) : r \in rules}

\* combineRulesEndpoints: the same merge, but an entry for all ports absorbs
\* the others.
CombinedEntry(rules, entry) ==
    \/ \E r \in rules : rules = {r} /\ entry = r
    \/ /\ \A r \in rules : rules # {r}
       /\ IF \E r \in rules : r.ports = <<>>
            THEN entry.ports = <<>>
            ELSE PortsOf(entry) = UNION {PortsOf(r) : r \in rules}

\* The sets of entries a merge of rules can produce.
Merges(rules, cluster) ==
    LET peers == {r.peer : r \in rules}
        Of(p) == {r \in rules : r.peer = p}
        Entry(p, e) == IF cluster THEN CombinedClusterEntry(Of(p), e)
                                  ELSE CombinedEntry(Of(p), e)
        choices == {f \in [peers -> PortLists] :
                      \A p \in peers : Entry(p, [peer |-> p, ports |-> f[p]])}
    IN  {{[peer |-> p, ports |-> f[p]] : p \in peers} : f \in choices}

\* endpointInfoKey of pkg/equality: entries compared without port order.
Canonical(rules) == {[peer |-> r.peer, ports |-> PortsOf(r)] : r \in rules}
=============================================================================
