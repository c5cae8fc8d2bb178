------------------------- MODULE EndpointRulesProofs -------------------------
(***************************************************************************)
(* Facts about the entries of a policy endpoint and the merge of entries   *)
(* of one peer, for every set of rules.                                    *)
(***************************************************************************)
EXTENDS EndpointRules, FunctionTheorems, FiniteSetTheorems, TLAPS

\* Every non-empty set of naturals has a least element.
LEMMA NatMin ==
    ASSUME NEW S, S \subseteq Nat, S # {}
    PROVE  \E x \in S : \A y \in S : x <= y
<1> DEFINE R == OpToRel(<, Nat)
<1>1. IsWellFoundedOn(R, Nat)
    BY NatLessThanWellFounded
<1>2. \A x, y \in Nat : <<y, x>> \in R <=> y < x
    BY DEF OpToRel
<1> HIDE DEF R
<1>3. PICK x \in S : \A y \in S : ~ (<<y, x>> \in R)
    BY <1>1, WFMin
<1>4. ASSUME NEW y \in S PROVE x <= y
    <2>1. x \in Nat /\ y \in Nat
        OBVIOUS
    <2>2. ~ (y < x)
        BY <1>2, <1>3, <2>1
    <2>3. QED
        BY <2>1, <2>2
<1>5. QED
    BY <1>4

\* A port list is empty exactly when it names no port.
LEMMA EmptyPorts ==
    ASSUME NEW r \in Rule
    PROVE  r.ports = <<>> <=> PortsOf(r) = {}
<1>1. PICK m \in Nat : r.ports \in [1..m -> Ports]
    <2>1. Cardinality(Ports) \in Nat
        BY PortsFinite, FS_CardinalityType
    <2>2. QED
        BY <2>1 DEF Rule, PortLists
<1>2. CASE m = 0
    BY <1>1, <1>2 DEF PortsOf
<1>3. CASE m # 0
    <2>1. 1 \in DOMAIN r.ports
        BY <1>1, <1>3
    <2>2. r.ports[1] \in PortsOf(r)
        BY <2>1 DEF PortsOf
    <2>3. r.ports # <<>>
        BY <2>1
    <2>4. QED
        BY <2>2, <2>3
<1>4. QED
    BY <1>2, <1>3

\* A rule names known ports only.
LEMMA PortsOfSubset ==
    ASSUME NEW r \in Rule
    PROVE  PortsOf(r) \subseteq Ports /\ r.peer \in Peers
BY DEF Rule, PortLists, PortsOf

\* What a merge produces: one entry for each peer.
LEMMA MergeShape ==
    ASSUME NEW rules, NEW cluster, NEW T \in Merges(rules, cluster)
    PROVE  \E f \in [{r.peer : r \in rules} -> PortLists] :
              /\ T = {[peer |-> x, ports |-> f[x]] : x \in {r.peer : r \in rules}}
              /\ \A x \in {r.peer : r \in rules} :
                    IF cluster
                      THEN CombinedClusterEntry({r \in rules : r.peer = x}, [peer |-> x, ports |-> f[x]])
                      ELSE CombinedEntry({r \in rules : r.peer = x}, [peer |-> x, ports |-> f[x]])
BY DEF Merges

\* A merge yields entries again, and no more of them than before.
LEMMA MergeBounded ==
    ASSUME NEW rules, rules \subseteq Rule, IsFiniteSet(rules),
           NEW cluster, NEW T \in Merges(rules, cluster)
    PROVE  /\ T \subseteq Rule
           /\ IsFiniteSet(T)
           /\ Cardinality(T) <= Cardinality(rules)
<1>1. PICK f \in [{r.peer : r \in rules} -> PortLists] :
          /\ T = {[peer |-> x, ports |-> f[x]] : x \in {r.peer : r \in rules}}
          /\ \A x \in {r.peer : r \in rules} :
                IF cluster
                  THEN CombinedClusterEntry({r \in rules : r.peer = x}, [peer |-> x, ports |-> f[x]])
                  ELSE CombinedEntry({r \in rules : r.peer = x}, [peer |-> x, ports |-> f[x]])
    BY MergeShape
<1>2. \A r \in rules : r.peer \in Peers
    BY PortsOfSubset
<1>3. T \subseteq Rule
    BY <1>1, <1>2 DEF Rule
<1> DEFINE g == [r \in rules |-> [peer |-> r.peer, ports |-> f[r.peer]]]
<1>4. g \in Surjection(rules, T)
    BY <1>1 DEF Surjection
<1>5. QED
    BY <1>3, <1>4, FS_Surjection

\* Traffic is what some entry covers.
LEMMA InTraffic ==
    ASSUME NEW rules, NEW t
    PROVE  t \in Traffic(rules) <=> \E r \in rules : t \in Covers(r)
BY DEF Traffic

\* The merged entry of one peer speaks of the traffic its parts speak of.
LEMMA MergedEntry ==
    ASSUME NEW group, group \subseteq Rule, group # {}, NEW e \in Rule,
           \A r \in group : r.peer = e.peer, CombinedEntry(group, e)
    PROVE  Covers(e) = Traffic(group)
<1>1. CASE \E r \in group : group = {r} /\ e = r
    BY <1>1 DEF Traffic
<1>2. CASE \E r \in group : r.ports = <<>> /\ e.ports = <<>>
    <2>1. PICK r \in group : r.ports = <<>> /\ e.ports = <<>>
        BY <1>2
    <2>2. Covers(r) = Covers(e) /\ Covers(e) = {e.peer} \X (Ports \cup {AnyPort})
        BY <2>1 DEF Covers
    <2>3. ASSUME NEW s \in group PROVE Covers(s) \subseteq Covers(e)
        <3>1. s.peer = e.peer /\ PortsOf(s) \subseteq Ports
            BY PortsOfSubset
        <3>2. QED
            BY <2>2, <3>1 DEF Covers
    <2>4. QED
        BY <2>2, <2>3, InTraffic
<1>3. CASE /\ \A r \in group : r.ports # <<>>
           /\ PortsOf(e) = UNION {PortsOf(r) : r \in group}
    <2>1. PICK s \in group : TRUE
        OBVIOUS
    <2>2. PortsOf(s) # {}
        BY <1>3, EmptyPorts
    <2>3. PortsOf(e) # {}
        BY <1>3, <2>2
    <2>4. Covers(e) = {e.peer} \X PortsOf(e)
        BY <2>3, EmptyPorts DEF Covers
    <2>5. \A r \in group : Covers(r) = {e.peer} \X PortsOf(r)
        BY <1>3 DEF Covers
    <2>6. \A t : t \in Covers(e) <=> \E r \in group : t \in Covers(r)
        BY <1>3, <2>4, <2>5
    <2>7. QED
        BY <2>6, InTraffic
<1>4. QED
    BY <1>1, <1>2, <1>3 DEF CombinedEntry

\* No peer has an entry for all ports beside one for some.
Unmixed(rules) == \A r, s \in rules : r.peer = s.peer /\ r.ports = <<>> => s.ports = <<>>

\* Then the two ways to merge are the same.
LEMMA ClusterEntryIsEntry ==
    ASSUME NEW rules, rules \subseteq Rule, Unmixed(rules), NEW e \in Rule,
           CombinedClusterEntry({r \in rules : r.peer = e.peer}, e)
    PROVE  CombinedEntry({r \in rules : r.peer = e.peer}, e)
<1> DEFINE group == {r \in rules : r.peer = e.peer}
<1>1. CASE \E r \in group : group = {r} /\ e = r
    BY <1>1 DEF CombinedEntry
<1>2. CASE /\ \A r \in group : group # {r}
           /\ PortsOf(e) = UNION {PortsOf(r) : r \in group}
    <2>1. ASSUME NEW s \in group, s.ports = <<>> PROVE e.ports = <<>>
        <3>1. \A r \in group : r \in Rule /\ r.ports = <<>>
            BY <2>1 DEF Unmixed
        <3>2. \A r \in group : PortsOf(r) = {}
            BY <3>1, EmptyPorts
        <3>3. PortsOf(e) = {}
            BY <1>2, <3>2
        <3>4. QED
            BY <3>3, EmptyPorts
    <2>2. QED
        BY <1>2, <2>1 DEF CombinedEntry
<1>3. QED
    BY <1>1, <1>2 DEF CombinedClusterEntry

\* combineRulesEndpoints keeps the traffic the entries speak of, and so does
\* combineClusterRulesEndpoints for entries that are not mixed.
LEMMA MergeKeepsTraffic ==
    ASSUME NEW rules, rules \subseteq Rule, NEW cluster \in BOOLEAN,
           cluster = FALSE \/ Unmixed(rules), NEW T \in Merges(rules, cluster)
    PROVE  Traffic(T) = Traffic(rules)
<1>0. PICK f \in [{r.peer : r \in rules} -> PortLists] :
          /\ T = {[peer |-> x, ports |-> f[x]] : x \in {r.peer : r \in rules}}
          /\ \A x \in {r.peer : r \in rules} :
                IF cluster
                  THEN CombinedClusterEntry({r \in rules : r.peer = x}, [peer |-> x, ports |-> f[x]])
                  ELSE CombinedEntry({r \in rules : r.peer = x}, [peer |-> x, ports |-> f[x]])
    BY MergeShape
<1>1. /\ T = {[peer |-> x, ports |-> f[x]] : x \in {r.peer : r \in rules}}
      /\ \A x \in {r.peer : r \in rules} :
            CombinedEntry({r \in rules : r.peer = x}, [peer |-> x, ports |-> f[x]])
    <2>1. ASSUME NEW x \in {r.peer : r \in rules}
          PROVE  CombinedEntry({r \in rules : r.peer = x}, [peer |-> x, ports |-> f[x]])
        <3> DEFINE e == [peer |-> x, ports |-> f[x]]
        <3>1. e \in Rule /\ e.peer = x
            BY PortsOfSubset DEF Rule
        <3>2. CASE cluster = FALSE
            BY <1>0, <3>2
        <3>3. CASE cluster = TRUE
            <4>1. CombinedClusterEntry({r \in rules : r.peer = e.peer}, e)
                BY <1>0, <3>1, <3>3
            <4> HIDE DEF e
            <4>2. CombinedEntry({r \in rules : r.peer = e.peer}, e)
                BY <3>1, <3>3, <4>1, ClusterEntryIsEntry
            <4>3. QED
                BY <3>1, <4>2 DEF e
        <3>4. QED
            BY <3>2, <3>3
    <2>2. QED
        BY <1>0, <2>1
<1>2. ASSUME NEW s \in rules
      PROVE  /\ [peer |-> s.peer, ports |-> f[s.peer]] \in T
             /\ Covers([peer |-> s.peer, ports |-> f[s.peer]])
                = Traffic({r \in rules : r.peer = s.peer})
    <2>1. s.peer \in {r.peer : r \in rules} /\ s.peer \in Peers
        BY PortsOfSubset
    <2>2. [peer |-> s.peer, ports |-> f[s.peer]] \in Rule
        BY <2>1 DEF Rule
    <2>3. CombinedEntry({r \in rules : r.peer = s.peer}, [peer |-> s.peer, ports |-> f[s.peer]])
        BY <1>1, <2>1
    <2>4. QED
        BY <1>1, <2>1, <2>2, <2>3, MergedEntry
<1>3. ASSUME NEW t, t \in Traffic(T) PROVE t \in Traffic(rules)
    <2>1. PICK e \in T : t \in Covers(e)
        BY <1>3, InTraffic
    <2>2. PICK s \in rules : e = [peer |-> s.peer, ports |-> f[s.peer]]
        BY <1>1
    <2> DEFINE group == {r \in rules : r.peer = s.peer}
    <2>g. t \in Traffic(group)
        BY <1>2, <2>1, <2>2
    <2>h. group \subseteq rules
        OBVIOUS
    <2> HIDE DEF group
    <2>3. PICK r \in rules : t \in Covers(r)
        BY <2>g, <2>h, InTraffic
    <2>4. QED
        BY <2>3, InTraffic
<1>4. ASSUME NEW t, t \in Traffic(rules) PROVE t \in Traffic(T)
    <2>1. PICK s \in rules : t \in Covers(s)
        BY <1>4, InTraffic
    <2>2. t \in Traffic({r \in rules : r.peer = s.peer})
        BY <2>1, InTraffic
    <2> DEFINE e == [peer |-> s.peer, ports |-> f[s.peer]]
    <2>3. e \in T /\ t \in Covers(e)
        BY <1>2, <2>2
    <2> HIDE DEF e
    <2>4. QED
        BY <2>3, InTraffic
<1>5. QED
    BY <1>3, <1>4

\* The comparison before an update ignores the order of ports only: specs it
\* takes to be equal speak of the same traffic.
LEMMA CanonicalTraffic ==
    ASSUME NEW A, NEW B, A \subseteq Rule, B \subseteq Rule, Canonical(A) = Canonical(B)
    PROVE  Traffic(A) = Traffic(B)
<1>1. ASSUME NEW C, NEW D, C \subseteq Rule, D \subseteq Rule,
             Canonical(C) \subseteq Canonical(D)
      PROVE  Traffic(C) \subseteq Traffic(D)
    <2>1. ASSUME NEW r \in C PROVE \E s \in D : Covers(s) = Covers(r)
        <3>1. [peer |-> r.peer, ports |-> PortsOf(r)] \in Canonical(C)
            BY DEF Canonical
        <3>2. PICK s \in D : [peer |-> r.peer, ports |-> PortsOf(r)]
                             = [peer |-> s.peer, ports |-> PortsOf(s)]
            BY <3>1, <1>1 DEF Canonical
        <3>3. s.peer = r.peer /\ PortsOf(s) = PortsOf(r)
            BY <3>2
        <3>4. s.ports = <<>> <=> r.ports = <<>>
            BY <3>3, <1>1, EmptyPorts
        <3>5. QED
            BY <3>3, <3>4 DEF Covers
    <2>2. QED
        BY <2>1 DEF Traffic
<1>2. QED
    BY <1>1
=============================================================================
