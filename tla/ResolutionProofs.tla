-------------------------- MODULE ResolutionProofs --------------------------
(***************************************************************************)
(* What holds for any policies, pods, namespaces and services: merging     *)
(* loses no rule, a service's port leads to ports the policy allows, and   *)
(* the handlers recognise the changes that make a difference.              *)
(***************************************************************************)
EXTENDS Resolution, NaturalsInduction, WellFoundedInduction, SequenceTheorems, TLAPS

-----------------------------------------------------------------------------
(***************************************************************************)
(* Types.                                                                  *)
(***************************************************************************)

\* The objects an event of a handler can be about, and the events.
Versions(h, id) ==
    IF h = "pod" THEN PodVersions[id] \cup {Absent}
    ELSE IF h = "namespace" THEN NamespaceVersions[id]
    ELSE ServiceVersions[id] \cup {Absent}
Ids(h) ==
    IF h = "pod" THEN DOMAIN PodVersions ELSE IF h = "namespace" THEN Namespaces ELSE DOMAIN ServiceVersions
Note(h) ==
    {note \in UNION {[id : {id}, old : Versions(h, id), new : Versions(h, id)] : id \in Ids(h)} :
        note.old # note.new}

\* The caches hold versions of the objects, and handlers wait for their events.
CachesTyped ==
    /\ pods = [p \in DOMAIN PodVersions |-> pods[p]]
    /\ namespaces = [ns \in Namespaces |-> namespaces[ns]]
    /\ services = [s \in DOMAIN ServiceVersions |-> services[s]]
    /\ \A p \in DOMAIN PodVersions : pods[p] \in PodVersions[p] \cup {Absent}
    /\ \A ns \in Namespaces : namespaces[ns] \in NamespaceVersions[ns]
    /\ \A s \in DOMAIN ServiceVersions : services[s] \in ServiceVersions[s] \cup {Absent}
NotesTyped ==
    /\ notes = [h \in Handlers |-> notes[h]]
    /\ \A h \in Handlers : notes[h] \in Seq(Note(h))
Typed ==
    /\ policy \in Policies
    /\ CachesTyped /\ NotesTyped
    /\ queued \in BOOLEAN /\ fresh \in BOOLEAN /\ overlooked \in BOOLEAN

\* Announcing a change.
LEMMA AnnounceTyped ==
    ASSUME Typed, NEW h \in Handlers, NEW id \in Ids(h), NEW old \in Versions(h, id),
           NEW new \in Versions(h, id), Announce(h, id, old, new), CachesTyped'
    PROVE  Typed'
<1> DEFINE note == [id |-> id, old |-> old, new |-> new]
<1>1. old # new
  BY DEF Announce
<1>2. note \in [id : {id}, old : Versions(h, id), new : Versions(h, id)] /\ note.old # note.new
  BY <1>1
<1>3. note \in Note(h)
  BY <1>2 DEF Note
<1>4. notes' = [notes EXCEPT ![h] = Append(notes[h], note)] /\ policy' = policy /\ queued' = queued
  BY DEF Announce
<1>5. fresh' \in BOOLEAN /\ overlooked' \in BOOLEAN
  BY Zenon DEF Announce, Typed
<1> HIDE DEF note
<1>6. Append(notes[h], note) \in Seq(Note(h))
  BY <1>3, AppendProperties DEF Typed, NotesTyped
<1>7. NotesTyped'
  <2>1. /\ notes' = [g \in Handlers |-> notes'[g]] /\ notes'[h] = Append(notes[h], note)
        /\ \A g \in Handlers : g # h => notes'[g] = notes[g]
    BY <1>4 DEF Typed, NotesTyped
  <2>2. \A g \in Handlers : notes'[g] \in Seq(Note(g))
    BY <1>6, <2>1, Zenon DEF Typed, NotesTyped
  <2> QED
    BY <2>1, <2>2 DEF NotesTyped
<1> QED
  BY <1>4, <1>5, <1>7 DEF Typed

\* The initial state is typed.
LEMMA InitTyped == Init => Typed
<1> SUFFICES ASSUME Init PROVE Typed
  OBVIOUS
<1>1. CachesTyped
  BY ObjectsTyped DEF Init, CachesTyped
<1>2. NotesTyped
  <2>1. \A h \in Handlers : notes[h] = <<>> /\ <<>> \in Seq(Note(h))
    BY EmptySeq DEF Init
  <2>2. notes = [h \in Handlers |-> notes[h]]
    BY DEF Init
  <2> QED
    BY <2>1, <2>2 DEF NotesTyped
<1> QED
  BY <1>1, <1>2 DEF Init, Typed

\* Every step keeps the types.
LEMMA StepTyped == Typed /\ [Next]_vars => Typed'
<1> SUFFICES ASSUME Typed, [Next]_vars PROVE Typed'
  OBVIOUS
<1>c. CachesTyped
  BY DEF Typed
<1>1. ASSUME NEW p \in DOMAIN PodVersions, ChangePod(p) PROVE Typed'
  <2>1. PICK new \in PodVersions[p] \cup {Absent} :
           /\ pods' = [pods EXCEPT ![p] = new] /\ UNCHANGED <<namespaces, services>>
           /\ Announce("pod", p, pods[p], new)
    BY <1>1 DEF ChangePod
  <2>2. CachesTyped'
    BY <1>c, <2>1 DEF CachesTyped
  <2>3. p \in Ids("pod") /\ pods[p] \in Versions("pod", p) /\ new \in Versions("pod", p)
    BY <1>c DEF Ids, Versions, CachesTyped
  <2> QED
    BY <2>1, <2>2, <2>3, AnnounceTyped DEF Handlers
<1>2. ASSUME NEW ns \in Namespaces, ChangeNamespace(ns) PROVE Typed'
  <2>1. PICK new \in NamespaceVersions[ns] :
           /\ namespaces' = [namespaces EXCEPT ![ns] = new] /\ UNCHANGED <<pods, services>>
           /\ Announce("namespace", ns, namespaces[ns], new)
    BY <1>2 DEF ChangeNamespace
  <2>2. CachesTyped'
    BY <1>c, <2>1 DEF CachesTyped
  <2>3. /\ ns \in Ids("namespace") /\ namespaces[ns] \in Versions("namespace", ns)
        /\ new \in Versions("namespace", ns)
    BY <1>c DEF Ids, Versions, CachesTyped
  <2> QED
    BY <2>1, <2>2, <2>3, AnnounceTyped DEF Handlers
<1>3. ASSUME NEW s \in DOMAIN ServiceVersions, ChangeService(s) PROVE Typed'
  <2>1. PICK new \in ServiceVersions[s] \cup {Absent} :
           /\ services' = [services EXCEPT ![s] = new] /\ UNCHANGED <<pods, namespaces>>
           /\ Announce("service", s, services[s], new)
    BY <1>3 DEF ChangeService
  <2>2. CachesTyped'
    BY <1>c, <2>1 DEF CachesTyped
  <2>3. s \in Ids("service") /\ services[s] \in Versions("service", s) /\ new \in Versions("service", s)
    BY <1>c DEF Ids, Versions, CachesTyped
  <2> QED
    BY <2>1, <2>2, <2>3, AnnounceTyped DEF Handlers
<1>4. ASSUME NEW h \in Handlers, Handle(h) PROVE Typed'
  <2>1. Tail(notes[h]) \in Seq(Note(h))
    BY <1>4, HeadTailProperties DEF Handle, Typed, NotesTyped
  <2>2. /\ notes' = [g \in Handlers |-> notes'[g]] /\ notes'[h] = Tail(notes[h])
        /\ \A g \in Handlers : g # h => notes'[g] = notes[g]
    BY <1>4 DEF Handle, Typed, NotesTyped
  <2>3. \A g \in Handlers : notes'[g] \in Seq(Note(g))
    BY <2>1, <2>2, Zenon DEF Typed, NotesTyped
  <2>4. queued' \in BOOLEAN
    BY <1>4, Zenon DEF Handle, Typed
  <2>5. NotesTyped'
    BY <2>2, <2>3 DEF NotesTyped
  <2>6. CachesTyped' /\ UNCHANGED <<policy, fresh, overlooked>>
    BY <1>c, <1>4 DEF Handle, cluster, CachesTyped
  <2> QED
    BY <2>4, <2>5, <2>6 DEF Typed
<1>5. CASE Reconcile
  BY <1>5 DEF Reconcile, cluster, Typed, CachesTyped, NotesTyped
<1>6. CASE UNCHANGED vars
  BY <1>6 DEF vars, cluster, Typed, CachesTyped, NotesTyped
<1> QED
  BY <1>1, <1>2, <1>3, <1>4, <1>5, <1>6 DEF Next

\* The caches and the notifications keep their types.
THEOREM ResolutionTyped == Spec => []Typed
  BY InitTyped, StepTyped, PTL DEF Spec

\* Objects are among the versions they may have, and every event the handlers
\* wait for is a change.
THEOREM ResolutionTypeOK == Spec => []TypeOK
<1>1. Typed => TypeOK
  <2> SUFFICES ASSUME Typed PROVE TypeOK
    OBVIOUS
  <2>1. ASSUME NEW h \in Handlers, NEW i \in DOMAIN notes[h] PROVE notes[h][i].old # notes[h][i].new
    <3>1. notes[h][i] \in Note(h)
      BY <2>1 DEF Typed, NotesTyped
    <3> QED
      BY <3>1 DEF Note
  <2>2. DOMAIN pods = DOMAIN PodVersions /\ DOMAIN services = DOMAIN ServiceVersions
    BY DEF Typed, CachesTyped
  <2> QED
    BY <2>1, <2>2 DEF Typed, CachesTyped, TypeOK
<1> QED
  BY <1>1, ResolutionTyped, PTL
-----------------------------------------------------------------------------
(***************************************************************************)
(* The first of some positions.                                            *)
(***************************************************************************)

\* A set of naturals that is not empty has a least element.
LEMMA LeastNatural ==
    ASSUME NEW S, S \subseteq Nat, S # {}
    PROVE  \E x \in S : \A y \in S : x <= y
<1> DEFINE R == OpToRel(<, Nat)
<1>1. IsWellFoundedOn(R, Nat)
  BY NatLessThanWellFounded
<1>2. \A x, y \in Nat : <<y, x>> \in R <=> y < x
  BY DEF OpToRel
<1> HIDE DEF R
<1>3. PICK x \in S : \A y \in S : <<y, x>> \notin R
  BY <1>1, WFMin
<1>4. ASSUME NEW y \in S PROVE x <= y
  <2>1. x \in Nat /\ y \in Nat /\ ~ (y < x)
    BY <1>2, <1>3
  <2> QED
    BY <2>1
<1> QED
  BY <1>4

\* First is one of the positions.
LEMMA FirstIn ==
    ASSUME NEW S, S \subseteq Nat, S # {}
    PROVE  First(S) \in S
  BY LeastNatural DEF First
-----------------------------------------------------------------------------
(***************************************************************************)
(* Merging the rules of a ClusterNetworkPolicy.                            *)
(***************************************************************************)

\* Port lists with the same key name the same ports.
LEMMA SameKeySamePorts ==
    ASSUME NEW some, NEW others, PortsKey(some) = PortsKey(others)
    PROVE  \A q \in some : \E r \in others : r.port = q.port
<1>1. DOMAIN PortsKey(some) = {q.port : q \in some} /\ DOMAIN PortsKey(others) = {q.port : q \in others}
  BY DEF PortsKey
<1> QED
  BY <1>1

\* Of the rules that have an entry with the key of this one the first is kept.
LEMMA MergingKeeps ==
    ASSUME NEW rules, NEW entries, NEW n \in Nat, DOMAIN rules = 1..n
    PROVE  Kept(rules, entries)
<1> SUFFICES ASSUME NEW i \in DOMAIN rules, NEW e \in entries[i]
             PROVE  \E merged \in MergedEntries(rules, entries) :
                      /\ merged.action = rules[i].action
                      /\ merged.entry.address = e.address
                      /\ e.ports = {} => merged.entry.ports = {}
                      /\ \A q \in e.ports : q.end = Nil => \E r \in merged.entry.ports : r.port = q.port
  BY Zenon DEF Kept
<1> DEFINE same(k) == \E f \in entries[k] : SameKey(rules[i].action, e, rules[k].action, f)
           candidates == {k \in 1..i : same(k)}
<1>1. i \in candidates
  <2>1. same(i)
    BY DEF SameKey
  <2> QED
    BY <2>1
<1>2. PICK j \in candidates : \A k \in candidates : j <= k
  <2>1. candidates \subseteq Nat /\ candidates # {}
    BY <1>1
  <2> HIDE DEF candidates
  <2> QED
    BY <2>1, LeastNatural
<1>3. PICK f \in entries[j] : SameKey(rules[i].action, e, rules[j].action, f)
  BY <1>2
<1>4. j \in DOMAIN rules
  BY <1>2
<1>5. ASSUME NEW k \in 1..(j - 1), NEW g \in entries[k], SameKey(rules[j].action, f, rules[k].action, g)
      PROVE  FALSE
  <2>1. SameKey(rules[i].action, e, rules[k].action, g)
    BY <1>3, <1>5, Zenon DEF SameKey
  <2>2. k \in 1..i /\ ~ (j <= k)
    BY <1>2
  <2> QED
    BY <1>2, <2>1, <2>2
<1> DEFINE merged == [action |-> rules[j].action, entry |-> f]
<1>6. merged \in MergedEntries(rules, entries)
  <2> DEFINE kept(k) == {g \in entries[k] : \A h \in 1..(k - 1) : \A x \in entries[h] :
                            ~ SameKey(rules[k].action, g, rules[h].action, x)}
             of(k) == {[action |-> rules[k].action, entry |-> g] : g \in kept(k)}
  <2>1. f \in kept(j)
    BY <1>5
  <2>2. merged \in of(j)
    BY <2>1
  <2>3. MergedEntries(rules, entries) = UNION {of(k) : k \in DOMAIN rules}
    BY DEF MergedEntries
  <2> HIDE DEF merged, of
  <2> QED
    BY <1>4, <2>2, <2>3
<1>7. merged.action = rules[i].action /\ merged.entry = f /\ f.address = e.address
  BY <1>3 DEF SameKey
<1>8. \A q \in e.ports : \E r \in f.ports : r.port = q.port
  BY <1>3, SameKeySamePorts DEF SameKey
<1>9. \A q \in f.ports : \E r \in e.ports : r.port = q.port
  BY <1>3, SameKeySamePorts DEF SameKey
<1> HIDE DEF merged
<1> QED
  BY <1>6, <1>7, <1>8, <1>9, Zenon

\* Merging loses no rule: mergeClusterEndpointInfo keeps, for each single port or
\* all ports that a rule resolves to for an address, an entry of that action,
\* whatever the rules are and however many of them share an address.
THEOREM MergingLosesNoRule == Spec => []MergeKeepsRules
<1>1. Typed => MergeKeepsRules
  <2> SUFFICES ASSUME Typed, policy.kind = "cnp"
               PROVE  Kept(policy.ingress, CNPIngress(policy)) /\ Kept(policy.egress, CNPEgress(policy))
    BY DEF MergeKeepsRules
  <2>1. policy.ingress \in Seq(ClusterRule) /\ policy.egress \in Seq(ClusterRule)
    BY ObjectsTyped DEF Typed, NetworkPolicy, ApplicationNetworkPolicy, ClusterNetworkPolicy
  <2>2. /\ DOMAIN policy.ingress = 1..Len(policy.ingress) /\ Len(policy.ingress) \in Nat
        /\ DOMAIN policy.egress = 1..Len(policy.egress) /\ Len(policy.egress) \in Nat
    BY <2>1
  <2> QED
    BY <2>2, MergingKeeps
<1> QED
  BY <1>1, ResolutionTyped, PTL
-----------------------------------------------------------------------------
(***************************************************************************)
(* The ports of services.                                                  *)
(***************************************************************************)

\* A container port that is found is one, and a number is always found.
LEMMA FoundPort ==
    ASSUME NEW p, pods[p] \in Pod, NEW port \in Names \cup Numbers
    PROVE  /\ ContainerPort(p, port) \in PodPort \cup {Nil}
           /\ port \in Numbers => /\ ContainerPort(p, port) \in PodPort
                                  /\ ContainerPort(p, port).number = port
<1> DEFINE ports == pods[p].ports
           found == {i \in DOMAIN ports : port = ports[i].name \/ port = ports[i].number}
<1>1. ports \in Seq(PodPort)
  BY DEF Pod
<1>2. CASE found # {}
  <2>1. found \subseteq Nat
    BY <1>1
  <2>2. First(found) \in found
    <3> HIDE DEF found
    <3> QED
      BY <1>2, <2>1, FirstIn
  <2>3. ContainerPort(p, port) = ports[First(found)]
    BY <1>2 DEF ContainerPort
  <2>4. First(found) \in DOMAIN ports /\ ports[First(found)] \in PodPort
    <3>1. First(found) \in DOMAIN ports
      BY <2>2
    <3> HIDE DEF ports, found
    <3> QED
      BY <1>1, <3>1
  <2>5. port = ports[First(found)].name \/ port = ports[First(found)].number
    BY <2>2
  <2> HIDE DEF ports, found
  <2>6. port \in Numbers => port # ports[First(found)].name
    BY <2>4, ResolversTyped DEF PodPort
  <2> QED
    BY <2>3, <2>4, <2>5, <2>6
<1>3. CASE found = {}
  <2>1. ContainerPort(p, port) = IF port \in Names THEN Nil ELSE [name |-> Nil, number |-> port]
    BY <1>3 DEF ContainerPort
  <2>2. port \in Numbers => port \notin Names
    BY ResolversTyped
  <2>3. port \in Numbers => [name |-> Nil, number |-> port] \in PodPort
    BY DEF PodPort
  <2> QED
    BY <2>1, <2>2, <2>3
<1> QED
  BY <1>2, <1>3

\* The listen port found for a number is that of a service port which has this
\* number, or a name, as its target.
LEMMA ListensFor ==
    ASSUME NEW s, services[s] \in Service, NEW n \in Numbers,
           \A p \in Backing(s) : pods[p] \in Pod,
           NEW l \in MatchingServicePorts(s, n)
    PROVE  \E i \in DOMAIN services[s].ports :
              /\ services[s].ports[i].listen = l
              /\ services[s].ports[i].target \in {n} \cup Names
<1> DEFINE ports == services[s].ports
           direct == {i \in DOMAIN ports : ports[i].target = n}
<1>1. ports \in Seq([listen : Numbers, target : Names \cup Numbers])
  BY DEF Service
<1>2. CASE direct # {}
  <2>1. l = ListenPort(s, direct)
    BY <1>2 DEF MatchingServicePorts
  <2>2. First(direct) \in direct
    <3>1. direct \subseteq Nat
      BY <1>1
    <3> HIDE DEF direct
    <3> QED
      BY <1>2, <3>1, FirstIn
  <2>3. l = ports[First(direct)].listen
    BY <1>2, <2>1 DEF ListenPort
  <2> QED
    BY <2>2, <2>3
<1>3. CASE direct = {}
  <2>1. PICK p \in Backing(s) : l = ListenPortFromPodSpec(s, p, n) /\ l # Nil
    BY <1>3 DEF MatchingServicePorts
  <2> DEFINE found == ContainerPort(p, n)
             targets == {found.name, found.number} \ {Nil}
             positions == {i \in DOMAIN ports : ports[i].target \in targets}
  <2>2. found \in PodPort /\ found.number = n
    BY FoundPort
  <2>3. found # Nil
    BY <2>2, NilIsUnset
  <2>4. targets \subseteq {n} \cup Names
    BY <2>2 DEF PodPort
  <2>5. l = ListenPort(s, positions)
    BY <2>1, <2>3, Zenon DEF ListenPortFromPodSpec
  <2> HIDE DEF found, targets
  <2>6. positions # {}
    BY <2>1, <2>5 DEF ListenPort
  <2>7. l = ports[First(positions)].listen
    BY <2>5, <2>6 DEF ListenPort
  <2>8. First(positions) \in positions
    <3>1. positions \subseteq Nat
      BY <1>1
    <3> HIDE DEF positions
    <3> QED
      BY <2>6, <3>1, FirstIn
  <2> QED
    BY <2>4, <2>7, <2>8
<1> QED
  BY <1>2, <1>3

\* A number that one of the policy's ports allows is one that port means.
LEMMA AllowedIsMeant ==
    ASSUME NEW p, pods[p] \in Pod, NEW number \in Numbers, NEW q \in PolicyPort,
           NumericPortAllowed(number, q)
    PROVE  number \in Meant(p, q)
<1>1. CASE q.port = Nil
  <2>1. ContainerPort(p, number).number = number
    BY FoundPort
  <2> QED
    BY <1>1, <2>1 DEF Meant
<1>2. CASE q.port # Nil
  <2>1. q.port \in Numbers /\ number \in q.port .. (IF q.end = Nil THEN q.port ELSE q.end)
    BY <1>2 DEF NumericPortAllowed, PolicyPort
  <2>2. ContainerPort(p, q.port) \in PodPort /\ ContainerPort(p, q.port).number = q.port
    BY <2>1, FoundPort
  <2>3. ContainerPort(p, q.port) # Nil
    BY <2>2, NilIsUnset
  <2> QED
    BY <1>2, <2>1, <2>2, <2>3 DEF Meant
<1> QED
  BY <1>1, <1>2

\* A listen port published for a number leads, on each pod behind the service, to
\* a port that is allowed on it.
LEMMA PublishedPortAllowed ==
    ASSUME NEW s, services[s] \in Service, NEW ports \in SUBSET PolicyPort,
           \A p \in Backing(s) : pods[p] \in Pod,
           NEW q \in ports, q.port \in Numbers, q.end = Nil,
           NEW published \in ServicePorts(s, q, ports),
           NEW j \in DOMAIN services[s].ports, NEW p \in Backing(s),
           services[s].ports[j].listen = published.port,
           ContainerPort(p, services[s].ports[j].target) # Nil
    PROVE  \E r \in ports : ContainerPort(p, services[s].ports[j].target).number \in Meant(p, r)
<1> DEFINE target == services[s].ports[j].target
<1>1. q.port # Nil /\ q.port \notin Names
  BY ResolversTyped
<1>2. PICK l \in MatchingServicePorts(s, q.port) :
         published = [q EXCEPT !.port = l] /\ ~ TargetPortBypass(s, l, ports)
  BY <1>1 DEF ServicePorts
<1>3. published.port = l
  BY <1>2 DEF PolicyPort
<1>4. PICK i \in DOMAIN services[s].ports :
         services[s].ports[i].listen = l /\ services[s].ports[i].target \in {q.port} \cup Names
  BY ListensFor
<1>5. i = j
  BY <1>3, <1>4 DEF Service
<1>6. CASE target = q.port
  <2>1. ContainerPort(p, q.port).number = q.port /\ NumericPortAllowed(q.port, q)
    BY <1>1, FoundPort, ResolversTyped DEF NumericPortAllowed
  <2>2. q.port \in Meant(p, q)
    BY <2>1, AllowedIsMeant
  <2> QED
    BY <1>6, <2>1, <2>2
<1>7. CASE target \in Names
  <2>1. PICK r \in ports : NumericPortAllowed(ContainerPort(p, target).number, r)
    BY <1>2, <1>4, <1>5, <1>7, Zenon DEF TargetPortBypass
  <2>2. ContainerPort(p, target) \in PodPort
    BY <1>7, FoundPort
  <2>3. ContainerPort(p, target).number \in Numbers
    BY <2>2 DEF PodPort
  <2>4. ContainerPort(p, target).number \in Meant(p, r)
    BY <2>1, <2>3, AllowedIsMeant
  <2> QED
    BY <2>4
<1> QED
  BY <1>4, <1>5, <1>6, <1>7

\* hasTargetPortBypass does what its comment says: the port of a cluster IP that
\* is published for a port number leads, on each pod behind the service, to a
\* port the rule allows there, for all services, pods and port lists.
THEOREM ServicePortsAreNoBypass == Spec => []ServicePortsLeadToAllowedPorts
<1>1. Typed => ServicePortsLeadToAllowedPorts
  <2> SUFFICES ASSUME Typed, NEW i \in DOMAIN policy.egress, policy.egress[i].peers # Nil,
                      NEW s \in DOMAIN services, NEW q \in policy.egress[i].ports,
                      services[s] # Absent, q.port \in Numbers, q.end = Nil,
                      NEW published \in ServicePorts(s, q, policy.egress[i].ports),
                      NEW j \in DOMAIN services[s].ports, NEW p \in Backing(s),
                      services[s].ports[j].listen = published.port,
                      ContainerPort(p, services[s].ports[j].target) # Nil
               PROVE  \E r \in policy.egress[i].ports :
                         ContainerPort(p, services[s].ports[j].target).number \in Meant(p, r)
    BY Zenon DEF ServicePortsLeadToAllowedPorts
  <2>1. services[s] \in Service
    <3>1. s \in DOMAIN ServiceVersions
      BY DEF Typed, CachesTyped
    <3> QED
      BY <3>1, ObjectsTyped DEF Typed, CachesTyped
  <2>2. ASSUME NEW r \in Backing(s) PROVE pods[r] \in Pod
    <3>1. r \in DOMAIN pods /\ pods[r] # Absent
      BY DEF Backing, MatchingPods
    <3>2. r \in DOMAIN PodVersions
      BY <3>1 DEF Typed, CachesTyped
    <3> QED
      BY <3>1, <3>2, ObjectsTyped DEF Typed, CachesTyped
  <2>3. policy.egress[i].ports \in SUBSET PolicyPort
    <3>1. \/ policy.egress \in Seq(ClusterRule)
          \/ \E peers : policy.egress \in Seq(PolicyRule(peers))
      BY ObjectsTyped DEF Typed, NetworkPolicy, ApplicationNetworkPolicy, ClusterNetworkPolicy
    <3>2. CASE policy.egress \in Seq(ClusterRule)
      BY <3>2 DEF ClusterRule
    <3>3. ASSUME NEW peers, policy.egress \in Seq(PolicyRule(peers))
          PROVE  policy.egress[i].ports \in SUBSET PolicyPort
      <4>1. policy.egress[i] \in PolicyRule(peers)
        BY <3>3
      <4> QED
        BY <4>1 DEF PolicyRule
    <3> QED
      BY <3>1, <3>2, <3>3
  <2> QED
    BY <2>1, <2>2, <2>3, PublishedPortAllowed
<1> QED
  BY <1>1, ResolutionTyped, PTL
-----------------------------------------------------------------------------
(***************************************************************************)
(* What a policy resolves to depends on the objects it refers to only.     *)
(***************************************************************************)

\* A step keeps the pods a selector matches, the services it matches with the
\* pods behind them, and the namespaces and pods of a peer.
PodsKept(ns, selector) ==
    /\ MatchingPods(ns, selector)' = MatchingPods(ns, selector)
    /\ \A p \in MatchingPods(ns, selector) : pods'[p] = pods[p]
ServiceKept(s) ==
    /\ services'[s] = services[s]
    /\ Backing(s)' = Backing(s) /\ \A p \in Backing(s) : pods'[p] = pods[p]
ServicesKept(ns, selector) ==
    /\ MatchingServices(ns, selector)' = MatchingServices(ns, selector)
    /\ \A s \in MatchingServices(ns, selector) : ServiceKept(s)
PeerKept(np, peer) ==
    /\ PeerNamespaces(np, peer)' = PeerNamespaces(np, peer)
    /\ \A ns \in PeerNamespaces(np, peer) : PodsKept(ns, peer.podSelector)
PeerServicesKept(np, peer) ==
    \A ns \in PeerNamespaces(np, peer) : ServicesKept(ns, peer.podSelector)

\* What is asked of a pod depends on this pod.
LEMMA SamePod ==
    ASSUME NEW p, pods'[p] = pods[p]
    PROVE  /\ Ready(p)' <=> Ready(p)
           /\ \A port : ContainerPort(p, port)' = ContainerPort(p, port)
           /\ \A ports : PortList(p, ports)' = PortList(p, ports)
<1>1. Ready(p)' <=> Ready(p)
  BY DEF Ready
<1>2. ASSUME NEW port PROVE ContainerPort(p, port)' = ContainerPort(p, port)
  BY DEF ContainerPort
<1>3. ASSUME NEW ports PROVE PortList(p, ports)' = PortList(p, ports)
  <2>1. \A port : ContainerPort(p, port)' = ContainerPort(p, port)
    BY <1>2
  <2> QED
    BY <2>1 DEF PortList
<1> QED
  BY <1>1, <1>2, <1>3

\* The pods that are ready.
LEMMA SameReady ==
    ASSUME NEW ns, NEW selector, PodsKept(ns, selector)
    PROVE  ReadyPods(ns, selector)' = ReadyPods(ns, selector)
<1>1. \A p \in MatchingPods(ns, selector) : Ready(p)' <=> Ready(p)
  BY SamePod DEF PodsKept
<1> QED
  BY <1>1 DEF PodsKept, ReadyPods

\* The ports of a service.
LEMMA SameService ==
    ASSUME NEW s, ServiceKept(s), NEW q, NEW ports
    PROVE  ServicePorts(s, q, ports)' = ServicePorts(s, q, ports)
<1>1. /\ services'[s] = services[s] /\ Backing(s)' = Backing(s)
      /\ \A p \in Backing(s) : \A port : ContainerPort(p, port)' = ContainerPort(p, port)
  BY SamePod DEF ServiceKept
<1>2. \A positions : ListenPort(s, positions)' = ListenPort(s, positions)
  BY <1>1 DEF ListenPort
<1>3. ASSUME NEW p \in Backing(s), NEW port
      PROVE  ListenPortFromPodSpec(s, p, port)' = ListenPortFromPodSpec(s, p, port)
  BY <1>1, <1>2 DEF ListenPortFromPodSpec
<1>4. ASSUME NEW port PROVE MatchingServicePorts(s, port)' = MatchingServicePorts(s, port)
  BY <1>1, <1>2, <1>3 DEF MatchingServicePorts
<1>5. ASSUME NEW l PROVE TargetPortBypass(s, l, ports)' <=> TargetPortBypass(s, l, ports)
  BY <1>1 DEF TargetPortBypass
<1> QED
  BY <1>4, <1>5 DEF ServicePorts

\* The entries for one ingress rule.
LEMMA SameIngress ==
    ASSUME NEW np, NEW rule, PodsKept(np.ns, np.podSelector),
           rule.peers # Nil => \A peer \in rule.peers : peer.block = Nil => PeerKept(np, peer)
    PROVE  IngressEntries(np, rule)' = IngressEntries(np, rule)
<1>1. \A ports : IngressRulesPorts(np, ports)' = IngressRulesPorts(np, ports)
  <2>1. ReadyPods(np.ns, np.podSelector)' = ReadyPods(np.ns, np.podSelector)
    BY SameReady
  <2>2. \A p \in ReadyPods(np.ns, np.podSelector) : \A ports : PortList(p, ports)' = PortList(p, ports)
    BY SamePod DEF PodsKept, ReadyPods
  <2> QED
    BY <2>1, <2>2 DEF IngressRulesPorts
<1>2. \A ports : IngressPorts(np, ports)' = IngressPorts(np, ports)
  BY <1>1 DEF IngressPorts
<1> DEFINE matched(peer) == UNION {ReadyPods(ns, peer.podSelector) : ns \in PeerNamespaces(np, peer)}
<1>3. ASSUME rule.peers # Nil, NEW peer \in rule.peers \ Blocks(rule.peers)
      PROVE  matched(peer)' = matched(peer)
  <2>1. PeerKept(np, peer)
    BY <1>3 DEF Blocks
  <2>2. \A ns \in PeerNamespaces(np, peer) :
           ReadyPods(ns, peer.podSelector)' = ReadyPods(ns, peer.podSelector)
    BY <2>1, SameReady DEF PeerKept
  <2> QED
    BY <2>1, <2>2 DEF PeerKept
<1>4. CASE rule.peers = Nil
  BY <1>2, <1>4 DEF IngressEntries
<1>5. CASE rule.peers # Nil
  <2>1. UNION {matched(peer)' : peer \in rule.peers \ Blocks(rule.peers)} =
        UNION {matched(peer) : peer \in rule.peers \ Blocks(rule.peers)}
    BY <1>3, <1>5
  <2> DEFINE found == UNION {matched(peer) : peer \in rule.peers \ Blocks(rule.peers)}
             result(ports, addresses) ==
                IF Unresolved(rule.ports, ports) THEN {}
                ELSE {Entry(peer.block, ports) : peer \in Blocks(rule.peers)}
                     \cup {Entry(p, ports) : p \in addresses}
  <2>2. IngressEntries(np, rule) = result(IngressPorts(np, rule.ports), found)
    BY <1>5, Zenon DEF IngressEntries
  <2>3. IngressEntries(np, rule)' = result(IngressPorts(np, rule.ports)', found')
    BY <1>5, Zenon DEF IngressEntries
  <2>4. found' = found
    BY <2>1
  <2> HIDE DEF found, result
  <2> QED
    BY <1>2, <2>2, <2>3, <2>4
<1> QED
  BY <1>4, <1>5

\* The entries for the pods and the services of a selector.
LEMMA SamePodEntries ==
    ASSUME NEW ns, NEW selector, NEW ports, PodsKept(ns, selector)
    PROVE  PodEntries(ns, selector, ports)' = PodEntries(ns, selector, ports)
<1>1. ReadyPods(ns, selector)' = ReadyPods(ns, selector)
  BY SameReady
<1>2. \A p \in ReadyPods(ns, selector) : PortList(p, ports)' = PortList(p, ports)
  BY SamePod DEF PodsKept, ReadyPods
<1> QED
  BY <1>1, <1>2 DEF PodEntries

LEMMA SameServiceEntries ==
    ASSUME NEW ns, NEW selector, NEW ports, ServicesKept(ns, selector)
    PROVE  ServiceEntries(ns, selector, ports)' = ServiceEntries(ns, selector, ports)
<1>1. MatchingServices(ns, selector)' = MatchingServices(ns, selector)
  BY DEF ServicesKept
<1>2. \A s \in MatchingServices(ns, selector) : \A q :
         ServicePorts(s, q, ports)' = ServicePorts(s, q, ports)
  BY SameService DEF ServicesKept
<1> DEFINE resolved(s) == UNION {ServicePorts(s, q, ports) : q \in ports}
<1>3. \A s \in MatchingServices(ns, selector) : resolved(s)' = resolved(s)
  BY <1>2
<1> DEFINE useful == {s \in MatchingServices(ns, selector) : ~ Unresolved(ports, resolved(s))}
<1>4. /\ ServiceEntries(ns, selector, ports) = {Entry(s, resolved(s)) : s \in useful}
      /\ ServiceEntries(ns, selector, ports)' = {Entry(s, resolved(s)') : s \in useful'}
  BY Zenon DEF ServiceEntries
<1>5. useful' = useful
  BY <1>1, <1>3 DEF Unresolved
<1>6. \A s \in useful : resolved(s)' = resolved(s)
  BY <1>3
<1> HIDE DEF useful, resolved
<1> QED
  BY <1>4, <1>5, <1>6

\* The entries for one egress rule.
LEMMA SameEgress ==
    ASSUME NEW np, NEW rule,
           rule.peers # Nil => \A peer \in rule.peers : peer.block = Nil =>
              PeerKept(np, peer) /\ PeerServicesKept(np, peer)
    PROVE  EgressEntries(np, rule)' = EgressEntries(np, rule)
<1> DEFINE entries(ns, peer) == PodEntries(ns, peer.podSelector, rule.ports)
                                \cup ServiceEntries(ns, peer.podSelector, rule.ports)
           selected(peer) == UNION {entries(ns, peer) : ns \in PeerNamespaces(np, peer)}
<1>1. ASSUME rule.peers # Nil, NEW peer \in rule.peers \ Blocks(rule.peers)
      PROVE  selected(peer)' = selected(peer)
  <2>1. PeerKept(np, peer) /\ PeerServicesKept(np, peer)
    BY <1>1 DEF Blocks
  <2>2. \A ns \in PeerNamespaces(np, peer) : entries(ns, peer)' = entries(ns, peer)
    BY <2>1, SamePodEntries, SameServiceEntries DEF PeerKept, PeerServicesKept
  <2> QED
    BY <2>1, <2>2 DEF PeerKept
<1>2. CASE rule.peers = Nil
  BY <1>2 DEF EgressEntries
<1>3. CASE rule.peers # Nil
  <2>1. \A peer \in rule.peers \ Blocks(rule.peers) : selected(peer)' = selected(peer)
    BY <1>1, <1>3, Zenon
  <2> DEFINE found == UNION {selected(peer) : peer \in rule.peers \ Blocks(rule.peers)}
             cidr == CIDRPorts(rule.ports)
             blocks == IF Unresolved(rule.ports, cidr) THEN {}
                       ELSE {Entry(peer.block, cidr) : peer \in Blocks(rule.peers)}
  <2>2. EgressEntries(np, rule) = blocks \cup found /\ EgressEntries(np, rule)' = blocks \cup found'
    BY <1>3, Zenon DEF EgressEntries
  <2>3. found' = found
    <3> HIDE DEF selected
    <3> QED
      BY <2>1
  <2> HIDE DEF found, blocks
  <2> QED
    BY <2>2, <2>3
<1> QED
  BY <1>2, <1>3

\* Selectors of a policy without egress rules, and of a rule with fewer peers.
LEMMA WithoutEgress ==
    ASSUME NEW anp \in ApplicationNetworkPolicy
    PROVE  LET np == [anp EXCEPT !.egress = <<>>]
           IN  /\ np.ns = anp.ns /\ np.podSelector = anp.podSelector
               /\ np.ingress = anp.ingress /\ np.egress = <<>>
<1>1. anp = [kind |-> anp.kind, ns |-> anp.ns, podSelector |-> anp.podSelector,
             ingress |-> anp.ingress, egress |-> anp.egress]
  BY DEF ApplicationNetworkPolicy
<1> QED
  BY <1>1, Zenon

LEMMA FewerPeers ==
    ASSUME NEW all, NEW rule \in PolicyRule(all), NEW peers
    PROVE  [rule EXCEPT !.peers = peers].peers = peers
  BY DEF PolicyRule

\* The peers of a rule are among those of the policy.
LEMMA PeersOfRule ==
    ASSUME NEW all, NEW rules \in Seq(PolicyRule(all)), NEW i \in DOMAIN rules, rules[i].peers # Nil
    PROVE  rules[i].peers \subseteq PeersOf(rules) /\ rules[i].peers \subseteq all
<1>1. rules[i].peers \in SUBSET all
  <2>1. rules[i] \in PolicyRule(all)
    OBVIOUS
  <2> QED
    BY <2>1 DEF PolicyRule
<1> QED
  BY <1>1 DEF PeersOf

\* A step keeps everything a policy refers to.
BySelector(peer) == peer.block = Nil /\ peer.domains = {}
ReferencesKept(np) ==
    /\ PodsKept(np.ns, np.podSelector)
    /\ \A peer \in PeersOf(np.ingress) \cup PeersOf(np.egress) : BySelector(peer) => PeerKept(np, peer)
    /\ \A peer \in PeersOf(np.egress) : BySelector(peer) => PeerServicesKept(np, peer)

\* Ingress entries and pods of a policy.
LEMMA SameIngressAndPods ==
    ASSUME NEW np, NEW all \in SUBSET SelectorPeer, np.ingress \in Seq(PolicyRule(all)),
           PodsKept(np.ns, np.podSelector),
           \A peer \in PeersOf(np.ingress) : BySelector(peer) => PeerKept(np, peer)
    PROVE  /\ \A i \in DOMAIN np.ingress : IngressEntries(np, np.ingress[i])' = IngressEntries(np, np.ingress[i])
           /\ SelectedPods(np.ns, np.podSelector)' = SelectedPods(np.ns, np.podSelector)
<1>1. ASSUME NEW i \in DOMAIN np.ingress
      PROVE  IngressEntries(np, np.ingress[i])' = IngressEntries(np, np.ingress[i])
  <2>1. ASSUME np.ingress[i].peers # Nil, NEW peer \in np.ingress[i].peers, peer.block = Nil
        PROVE  PeerKept(np, peer)
    <3>1. peer \in PeersOf(np.ingress) /\ peer \in all
      BY <2>1, PeersOfRule
    <3>2. BySelector(peer)
      BY <2>1, <3>1 DEF BySelector, SelectorPeer
    <3> QED
      BY <3>1, <3>2
  <2> QED
    BY <2>1, SameIngress
<1>2. SelectedPods(np.ns, np.podSelector)' = SelectedPods(np.ns, np.podSelector)
  BY SameReady DEF SelectedPods, PodsKept, ReadyPods
<1> QED
  BY <1>1, <1>2

\* A NetworkPolicy.
LEMMA SameNP ==
    ASSUME NEW np \in NetworkPolicy, ReferencesKept(np)
    PROVE  ResolveNP(np)' = ResolveNP(np)
<1> DEFINE all == {peer \in SelectorPeer : ~ Blank(peer)}
<1>1. np.ingress \in Seq(PolicyRule(all)) /\ np.egress \in Seq(PolicyRule(all))
  BY DEF NetworkPolicy
<1>2. all \in SUBSET SelectorPeer
  OBVIOUS
<1> HIDE DEF all
<1>3. /\ \A i \in DOMAIN np.ingress : IngressEntries(np, np.ingress[i])' = IngressEntries(np, np.ingress[i])
      /\ SelectedPods(np.ns, np.podSelector)' = SelectedPods(np.ns, np.podSelector)
  BY <1>1, <1>2, SameIngressAndPods DEF ReferencesKept
<1>4. ASSUME NEW i \in DOMAIN np.egress
      PROVE  EgressEntries(np, np.egress[i])' = EgressEntries(np, np.egress[i])
  <2>1. ASSUME np.egress[i].peers # Nil, NEW peer \in np.egress[i].peers, peer.block = Nil
        PROVE  PeerKept(np, peer) /\ PeerServicesKept(np, peer)
    <3>1. peer \in PeersOf(np.egress) /\ peer \in all
      BY <1>1, <2>1, PeersOfRule
    <3>2. BySelector(peer)
      BY <1>2, <2>1, <3>1 DEF BySelector, SelectorPeer
    <3> QED
      BY <3>1, <3>2 DEF ReferencesKept
  <2> QED
    BY <2>1, SameEgress
<1> QED
  BY <1>3, <1>4 DEF ResolveNP

\* An ApplicationNetworkPolicy.
LEMMA SameANP ==
    ASSUME NEW anp \in ApplicationNetworkPolicy, ReferencesKept(anp)
    PROVE  ResolveANP(anp)' = ResolveANP(anp)
<1> DEFINE np == [anp EXCEPT !.egress = <<>>]
<1>1. anp.ingress \in Seq(PolicyRule(SelectorPeer)) /\ anp.egress \in Seq(PolicyRule(PolicyPeer))
  BY DEF ApplicationNetworkPolicy
<1>2. /\ np.ns = anp.ns /\ np.podSelector = anp.podSelector
      /\ np.ingress = anp.ingress /\ np.egress = <<>>
  BY WithoutEgress
<1>3. ResolveNP(np)' = ResolveNP(np)
  <2> HIDE DEF np
  <2>1. \A peer : PeerNamespaces(np, peer) = PeerNamespaces(anp, peer)
    BY <1>2 DEF PeerNamespaces
  <2>2. \A peer : PeerNamespaces(np, peer)' = PeerNamespaces(anp, peer)'
    BY <1>2 DEF PeerNamespaces
  <2>3. \A peer \in PeersOf(np.ingress) : BySelector(peer) => PeerKept(np, peer)
    BY <1>2, <2>1, <2>2 DEF ReferencesKept, PeerKept
  <2>4. PodsKept(np.ns, np.podSelector)
    BY <1>2 DEF ReferencesKept
  <2>5. /\ \A i \in DOMAIN np.ingress : IngressEntries(np, np.ingress[i])' = IngressEntries(np, np.ingress[i])
        /\ SelectedPods(np.ns, np.podSelector)' = SelectedPods(np.ns, np.podSelector)
    BY <1>1, <1>2, <2>3, <2>4, SameIngressAndPods
  <2>6. DOMAIN np.egress = {}
    BY <1>2
  <2> QED
    BY <2>5, <2>6 DEF ResolveNP
<1>4. ASSUME NEW i \in DOMAIN anp.egress
      PROVE  ANPEgressEntries(anp, anp.egress[i])' = ANPEgressEntries(anp, anp.egress[i])
  <2> DEFINE rule == anp.egress[i]
             fewer == [rule EXCEPT !.peers = WithoutDomains(rule)]
  <2>1. rule \in PolicyRule(PolicyPeer)
    BY <1>1
  <2>2. fewer.peers = WithoutDomains(rule)
    BY <2>1, FewerPeers
  <2>3. CASE rule.peers = Nil
    BY <2>3 DEF ANPEgressEntries
  <2>4. CASE rule.peers # Nil
    <3>1. ASSUME NEW peer \in WithoutDomains(rule), peer.block = Nil
          PROVE  PeerKept(anp, peer) /\ PeerServicesKept(anp, peer)
      <4>1. peer \in rule.peers /\ BySelector(peer)
        BY <3>1 DEF WithoutDomains, BySelector
      <4>2. peer \in PeersOf(anp.egress)
        BY <1>1, <2>4, <4>1, PeersOfRule
      <4> QED
        BY <4>1, <4>2 DEF ReferencesKept
    <3> HIDE DEF fewer
    <3>2. EgressEntries(anp, fewer)' = EgressEntries(anp, fewer)
      BY <2>2, <3>1, SameEgress
    <3> USE DEF fewer
    <3> QED
      BY <2>4, <3>2 DEF ANPEgressEntries
  <2> QED
    BY <2>3, <2>4
<1> HIDE DEF np
<1> DEFINE egress == UNION {ANPEgressEntries(anp, anp.egress[i]) : i \in DOMAIN anp.egress}
<1>5. egress' = egress
  BY <1>4
<1>6. /\ ResolveANP(anp) = [ResolveNP(np) EXCEPT !.egress = egress]
      /\ ResolveANP(anp)' = [ResolveNP(np)' EXCEPT !.egress = egress']
  BY Zenon DEF ResolveANP, np
<1> HIDE DEF egress
<1> QED
  BY <1>3, <1>5, <1>6, Zenon
-----------------------------------------------------------------------------
(***************************************************************************)
(* A change that the handlers neither ignore nor find referred to keeps    *)
(* what the policy refers to.                                              *)
(***************************************************************************)

\* Everything is kept of pods and services that do not change.
LEMMA PodsUnchanged ==
    ASSUME pods' = pods
    PROVE  \A ns, selector : PodsKept(ns, selector)
  BY DEF PodsKept, MatchingPods

LEMMA ServiceUnchanged ==
    ASSUME pods' = pods, NEW s, services'[s] = services[s]
    PROVE  ServiceKept(s)
<1>1. SelectorOf(s)' = SelectorOf(s)
  BY DEF SelectorOf
<1> QED
  BY <1>1 DEF ServiceKept, Backing, MatchingPods

\* A pod that is matched neither before nor after it changes.
OnlyChanges(p) == DOMAIN pods' = DOMAIN pods /\ \A q \in DOMAIN pods : q # p => pods'[q] = pods[q]
Unmatched(p, ns, selector) ==
    \A pod \in {pods[p], pods'[p]} \ {Absent} :
       ~ (Home[p] = ns /\ (selector = Nil \/ selector \subseteq pod.labels))

LEMMA PodUnmatched ==
    ASSUME NEW p \in DOMAIN pods, OnlyChanges(p), NEW ns, NEW selector, Unmatched(p, ns, selector)
    PROVE  PodsKept(ns, selector)
<1>1. DOMAIN pods' = DOMAIN pods /\ \A q \in DOMAIN pods : q # p => pods'[q] = pods[q]
  BY DEF OnlyChanges
<1>2. p \notin MatchingPods(ns, selector) /\ p \notin MatchingPods(ns, selector)'
  BY <1>1 DEF MatchingPods, Unmatched
<1>3. ASSUME NEW q \in DOMAIN pods, q # p
      PROVE  q \in MatchingPods(ns, selector)' <=> q \in MatchingPods(ns, selector)
  BY <1>1, <1>3 DEF MatchingPods
<1>4. MatchingPods(ns, selector) \subseteq DOMAIN pods /\ MatchingPods(ns, selector)' \subseteq DOMAIN pods
  BY <1>1 DEF MatchingPods
<1>5. MatchingPods(ns, selector)' = MatchingPods(ns, selector)
  BY <1>2, <1>3, <1>4
<1> QED
  BY <1>1, <1>2, <1>4, <1>5 DEF PodsKept

\* The namespace of a peer matches it.
LEMMA PeerNamespaceMatches ==
    ASSUME NEW np, policy = np, NEW peer, NEW ns \in PeerNamespaces(np, peer)
    PROVE  NamespaceMatches(peer, ns)
  BY DEF PeerNamespaces, NamespaceMatches

\* A pod changes.
LEMMA PodChangeKeeps ==
    ASSUME CachesTyped, NEW p \in DOMAIN pods, NEW new, pods' = [pods EXCEPT ![p] = new],
           UNCHANGED <<namespaces, services>>,
           NEW np \in NetworkPolicy \cup ApplicationNetworkPolicy, policy = np,
           NEW note, note.id = p, note.old = pods[p], note.new = new,
           ~ ReferredByPod(note), Home[p] = np.ns => \A peer \in Peers : ~ Blank(peer)
    PROVE  ReferencesKept(np)
<1>1. Objects(note) = {pods[p], pods'[p]} \ {Absent}
  BY DEF Objects, CachesTyped
<1>c. OnlyChanges(p)
  BY DEF OnlyChanges, CachesTyped
<1>2. Peers = PeersOf(np.ingress) \cup PeersOf(np.egress)
  BY DEF Peers
<1>3. PodsKept(np.ns, np.podSelector)
  <2>1. np.podSelector # Nil
    BY NilIsUnset DEF NetworkPolicy, ApplicationNetworkPolicy
  <2>2. \A pod \in Objects(note) : ~ (Home[p] = np.ns /\ np.podSelector \subseteq pod.labels)
    BY Zenon DEF ReferredByPod
  <2>3. Unmatched(p, np.ns, np.podSelector)
    BY <1>1, <2>1, <2>2 DEF Unmatched
  <2> QED
    BY <1>c, <2>3, PodUnmatched
<1>4. ASSUME NEW peer \in Peers, BySelector(peer), NEW ns \in PeerNamespaces(np, peer),
             NEW pod \in Objects(note), Home[p] = ns
      PROVE  peer.podSelector # Nil /\ ~ (peer.podSelector \subseteq pod.labels)
  <2>1. NamespaceMatches(peer, Home[p])
    BY <1>4, PeerNamespaceMatches
  <2>2. Home[p] = np.ns \/ Namespaced
    BY <1>4, Zenon DEF PeerNamespaces, Namespaced
  <2>3. ~ PodMatchesPeer(peer, Home[p], pod)
    BY <2>2, Zenon DEF ReferredByPod
  <2>4. CASE peer.podSelector = Nil /\ peer.nsSelector = Nil
    <3>1. Blank(peer) /\ Home[p] = np.ns
      BY <1>4, <2>4 DEF Blank, BySelector, PeerNamespaces
    <3> QED
      BY <3>1
  <2> QED
    BY <2>1, <2>3, <2>4 DEF PodMatchesPeer
<1>5. ASSUME NEW peer \in Peers, BySelector(peer) PROVE PeerKept(np, peer)
  <2>1. PeerNamespaces(np, peer)' = PeerNamespaces(np, peer)
    BY DEF PeerNamespaces
  <2>2. ASSUME NEW ns \in PeerNamespaces(np, peer) PROVE PodsKept(ns, peer.podSelector)
    <3>1. Unmatched(p, ns, peer.podSelector)
      BY <1>1, <1>4, <1>5 DEF Unmatched
    <3> QED
      BY <1>c, <3>1, PodUnmatched
  <2> QED
    BY <2>1, <2>2 DEF PeerKept
<1>6. ASSUME NEW peer \in Peers, BySelector(peer) PROVE PeerServicesKept(np, peer)
  <2> SUFFICES ASSUME NEW ns \in PeerNamespaces(np, peer) PROVE ServicesKept(ns, peer.podSelector)
    BY DEF PeerServicesKept
  <2>1. MatchingServices(ns, peer.podSelector)' = MatchingServices(ns, peer.podSelector)
    BY DEF MatchingServices, SelectorOf
  <2>2. ASSUME NEW s \in MatchingServices(ns, peer.podSelector) PROVE ServiceKept(s)
    <3>1. PICK selector : selector = SelectorOf(s)
      OBVIOUS
    <3>2. SelectorOf(s)' = selector
      BY <3>1 DEF SelectorOf
    <3>3. Home[s] = ns /\ (peer.podSelector = Nil \/ peer.podSelector \subseteq selector) /\ selector # Nil
      BY <3>1, NilIsUnset DEF MatchingServices, SelectorOf
    <3>4. PodsKept(ns, selector)
      <4>1. Unmatched(p, ns, selector)
        BY <1>1, <1>4, <1>6, <3>3 DEF Unmatched
      <4> QED
        BY <1>c, <4>1, PodUnmatched
    <3>5. Backing(s) = MatchingPods(ns, selector) /\ Backing(s)' = MatchingPods(ns, selector)'
      BY <3>1, <3>2, <3>3 DEF Backing
    <3> QED
      BY <3>4, <3>5 DEF ServiceKept, PodsKept
  <2> QED
    BY <2>1, <2>2 DEF ServicesKept
<1> QED
  BY <1>2, <1>3, <1>5, <1>6 DEF ReferencesKept

\* A namespace changes.
LEMMA NamespaceChangeKeeps ==
    ASSUME CachesTyped, NEW ns \in Namespaces, NEW new, namespaces' = [namespaces EXCEPT ![ns] = new],
           UNCHANGED <<pods, services>>, NEW np, policy = np,
           NEW note, note.old = namespaces[ns], note.new = new, ~ ReferredByNamespace(note)
    PROVE  ReferencesKept(np)
<1>1. /\ namespaces'[ns] = new
      /\ \A other \in Namespaces : other # ns => namespaces'[other] = namespaces[other]
  BY DEF CachesTyped
<1>2. \A some, selector : PodsKept(some, selector)
  BY PodsUnchanged
<1>3. \A some, selector : ServicesKept(some, selector)
  <2>1. \A s : ServiceKept(s)
    BY ServiceUnchanged
  <2>2. \A some, selector : MatchingServices(some, selector)' = MatchingServices(some, selector)
    BY DEF MatchingServices, SelectorOf
  <2> QED
    BY <2>1, <2>2 DEF ServicesKept
<1>4. ASSUME NEW peer \in Peers PROVE PeerNamespaces(np, peer)' = PeerNamespaces(np, peer)
  <2>1. CASE peer.nsSelector = Nil
    BY <2>1 DEF PeerNamespaces
  <2>2. CASE peer.nsSelector # Nil
    <3>1. \A labels \in {namespaces[ns], new} \ {Absent} : ~ (peer.nsSelector \subseteq labels)
      BY <2>2 DEF ReferredByNamespace, Objects
    <3>2. \A some \in Namespaces :
             (namespaces'[some] # Absent /\ peer.nsSelector \subseteq namespaces'[some]) <=>
             (namespaces[some] # Absent /\ peer.nsSelector \subseteq namespaces[some])
      BY <1>1, <3>1
    <3> QED
      BY <2>2, <3>2 DEF PeerNamespaces
  <2> QED
    BY <2>1, <2>2
<1> QED
  BY <1>2, <1>3, <1>4 DEF ReferencesKept, PeerKept, PeerServicesKept, Peers

\* A service changes that is not headless, and has had or has a selector unless no
\* peer asks for every pod.
LEMMA ServiceChangeKeeps ==
    ASSUME CachesTyped, NEW s \in DOMAIN services, NEW new, services' = [services EXCEPT ![s] = new],
           UNCHANGED <<pods, namespaces>>, NEW np, policy = np, np.egress \in Seq(PolicyRule(PolicyPeer)),
           NEW note, note.id = s, note.old = services[s], note.new = new, ~ ReferredByService(note),
           Object(note).clusterIP,
           \/ \E service \in Objects(note) : service.selector # Nil
           \/ \A peer \in PeersOf(np.egress) : peer.podSelector # {},
           Home[s] = np.ns => \A peer \in PeersOf(np.egress) : ~ Blank(peer)
    PROVE  ReferencesKept(np)
<1>1. /\ DOMAIN services' = DOMAIN services /\ services'[s] = new
      /\ \A t \in DOMAIN services : t # s => services'[t] = services[t]
  BY DEF CachesTyped
<1>2. \A ns, selector : PodsKept(ns, selector)
  BY PodsUnchanged
<1>3. \A peer : PeerNamespaces(np, peer)' = PeerNamespaces(np, peer)
  BY DEF PeerNamespaces
<1>4. ASSUME NEW peer \in PeersOf(np.egress), BySelector(peer), NEW ns \in PeerNamespaces(np, peer),
             Home[s] = ns, NEW service \in Objects(note),
             \/ peer.podSelector = Nil
             \/ peer.podSelector \subseteq IF service.selector = Nil THEN {} ELSE service.selector
      PROVE  FALSE
  <2>1. peer \in Peers
    BY DEF Peers
  <2>2. Home[s] = np.ns \/ Namespaced
    BY <1>4, <2>1, Zenon DEF PeerNamespaces, Namespaced
  <2>3. HasEgressRules
    BY DEF HasEgressRules, PeersOf
  <2>4. \A any \in Objects(note) : ~ ServiceMatchesPeer(peer, Home[s], any)
    BY <2>2, <2>3, Zenon DEF ReferredByService
  <2>5. NamespaceMatches(peer, Home[s])
    BY <1>4, PeerNamespaceMatches
  <2>6. peer.podSelector # Nil \/ peer.nsSelector # Nil
    BY <1>4, <2>1 DEF Blank, BySelector, PeerNamespaces
  <2>7. peer.podSelector # Nil
    BY <2>4, <2>5, <2>6 DEF ServiceMatchesPeer
  <2>9. CASE service.selector = Nil
    <3>1. peer.podSelector = {}
      BY <1>4, <2>7, <2>9
    <3>2. PICK other \in Objects(note) : other.selector # Nil
      BY <3>1
    <3> QED
      BY <2>4, <2>5, <2>7, <3>1, <3>2 DEF ServiceMatchesPeer
  <2>10. CASE service.selector # Nil
    BY <1>4, <2>4, <2>5, <2>7, <2>10 DEF ServiceMatchesPeer
  <2> QED
    BY <2>9, <2>10
<1>5. ASSUME NEW peer \in PeersOf(np.egress), BySelector(peer), NEW ns \in PeerNamespaces(np, peer)
      PROVE  ServicesKept(ns, peer.podSelector)
  <2>1. s \notin MatchingServices(ns, peer.podSelector)
    <3>1. services[s] # Absent => services[s] \in Objects(note)
      BY DEF Objects
    <3> QED
      BY <1>4, <1>5, <3>1 DEF MatchingServices, SelectorOf
  <2>2. s \notin MatchingServices(ns, peer.podSelector)'
    <3>1. services'[s] # Absent => services'[s] \in Objects(note)
      BY <1>1 DEF Objects
    <3> QED
      BY <1>4, <1>5, <3>1 DEF MatchingServices, SelectorOf
  <2>3. /\ MatchingServices(ns, peer.podSelector) \subseteq DOMAIN services
        /\ MatchingServices(ns, peer.podSelector)' \subseteq DOMAIN services
    BY <1>1 DEF MatchingServices
  <2>4. ASSUME NEW t \in DOMAIN services, t # s
        PROVE  t \in MatchingServices(ns, peer.podSelector)' <=> t \in MatchingServices(ns, peer.podSelector)
    BY <1>1, <2>4 DEF MatchingServices, SelectorOf
  <2>5. ASSUME NEW t \in DOMAIN services, t # s PROVE ServiceKept(t)
    BY <1>1, <2>5, ServiceUnchanged
  <2>6. MatchingServices(ns, peer.podSelector)' = MatchingServices(ns, peer.podSelector)
    <3>1. \A t : t \in MatchingServices(ns, peer.podSelector)' => t \in DOMAIN services /\ t # s
      BY <2>2, <2>3, Zenon
    <3>2. \A t : t \in MatchingServices(ns, peer.podSelector) => t \in DOMAIN services /\ t # s
      BY <2>1, <2>3, Zenon
    <3> QED
      BY <2>4, <3>1, <3>2
  <2>7. \A t \in MatchingServices(ns, peer.podSelector) : ServiceKept(t)
    BY <2>1, <2>3, <2>5
  <2> QED
    BY <2>6, <2>7 DEF ServicesKept
<1> QED
  BY <1>2, <1>3, <1>5 DEF ReferencesKept, PeerKept, PeerServicesKept

\* What the policy resolves to stays the same when what it refers to does.
LEMMA SameResolution ==
    ASSUME NEW np \in NetworkPolicy \cup ApplicationNetworkPolicy, policy = np, policy' = np,
           ReferencesKept(np)
    PROVE  Resolve' = Resolve
<1>1. CASE np \in NetworkPolicy
  <2>1. np.kind = "np"
    BY <1>1 DEF NetworkPolicy
  <2>2. Resolve = ResolveNP(np) /\ Resolve' = ResolveNP(np)'
    BY <2>1 DEF Resolve
  <2> QED
    BY <1>1, <2>2, SameNP
<1>2. CASE np \in ApplicationNetworkPolicy
  <2>1. np.kind = "anp"
    BY <1>2 DEF ApplicationNetworkPolicy
  <2>2. Resolve = ResolveANP(np) /\ Resolve' = ResolveANP(np)'
    BY <2>1 DEF Resolve
  <2> QED
    BY <1>2, <2>2, SameANP
<1> QED
  BY <1>1, <1>2
-----------------------------------------------------------------------------
(***************************************************************************)
(* The handlers recognise every change.                                    *)
(***************************************************************************)

\* An event that has not been handled would queue the policy if it were now.
Underway == \E h \in Handlers : \E i \in DOMAIN notes[h] : Referred(h, notes[h][i])

\* What is published is up to date, unless a change was overlooked, or a
\* reconcile is due or an event under way that leads to one.
Recognised == fresh \/ overlooked \/ queued \/ Underway

\* The handlers see the policy and the namespaces only.
LEMMA SameReferred ==
    ASSUME UNCHANGED <<policy, namespaces>>, NEW h, NEW note
    PROVE  Referred(h, note)' <=> Referred(h, note)
  BY DEF Referred, ReferredByPod, ReferredByNamespace, ReferredByService, Object, Objects, Peers,
         Namespaced, HasEgressRules, PodMatchesPeer, ServiceMatchesPeer, NamespaceMatches

\* A peer matches a namespace whose labels change as before, unless the event of
\* this change refers to the policy.
LEMMA MatchesUnlessMoved ==
    ASSUME CachesTyped, policy' = policy, NEW ns \in Namespaces, NEW new,
           namespaces' = [namespaces EXCEPT ![ns] = new],
           NEW move, move.old = namespaces[ns], move.new = new, ~ ReferredByNamespace(move),
           NEW peer \in Peers, NEW home \in Namespaces, NamespaceMatches(peer, home)
    PROVE  NamespaceMatches(peer, home)'
<1>1. CASE peer.nsSelector = Nil
  BY <1>1 DEF NamespaceMatches
<1>2. CASE peer.nsSelector # Nil
  <2>1. namespaces[home] # Absent /\ peer.nsSelector \subseteq namespaces[home]
    BY <1>2 DEF NamespaceMatches
  <2>2. home # ns
    BY <1>2, <2>1 DEF ReferredByNamespace, Objects
  <2>3. namespaces'[home] = namespaces[home]
    BY <2>2 DEF CachesTyped
  <2> QED
    BY <1>2, <2>1, <2>3 DEF NamespaceMatches
<1> QED
  BY <1>1, <1>2

\* So does an event of a pod or a service.
LEMMA ReferredUnlessMoved ==
    ASSUME CachesTyped, policy' = policy, NEW ns \in Namespaces, NEW new,
           namespaces' = [namespaces EXCEPT ![ns] = new],
           NEW move, move.old = namespaces[ns], move.new = new, ~ ReferredByNamespace(move),
           NEW h \in Handlers, NEW note \in Note(h), Referred(h, note)
    PROVE  Referred(h, note)'
<1>1. CASE policy.kind = "cnp"
  BY <1>1 DEF Referred, Object
<1>2. CASE h = "namespace"
  BY <1>2 DEF Referred, Object, ReferredByNamespace, Objects, Peers
<1>3. ASSUME h \in {"pod", "service"} PROVE Home[note.id] \in Namespaces
  <2>1. note.id \in DOMAIN PodVersions \cup DOMAIN ServiceVersions
    BY <1>3 DEF Note, Ids
  <2> QED
    BY <2>1, ObjectsTyped
<1>4. Peers' = Peers /\ (Namespaced' <=> Namespaced)
  BY DEF Peers, Namespaced
<1>5. CASE policy.kind # "cnp" /\ h = "pod"
  <2>1. ReferredByPod(note)
    BY <1>5 DEF Referred
  <2>2. ASSUME NEW peer \in Peers, NEW pod, PodMatchesPeer(peer, Home[note.id], pod)
        PROVE  PodMatchesPeer(peer, Home[note.id], pod)'
    <3>1. NamespaceMatches(peer, Home[note.id])'
      BY <1>3, <1>5, <2>2, MatchesUnlessMoved, Zenon DEF PodMatchesPeer
    <3> QED
      BY <2>2, <3>1 DEF PodMatchesPeer
  <2>3. ReferredByPod(note)'
    BY <1>4, <2>1, <2>2, Zenon DEF ReferredByPod, Objects
  <2> QED
    BY <1>5, <2>3 DEF Referred, Object
<1>6. CASE policy.kind # "cnp" /\ h = "service"
  <2>1. ReferredByService(note)
    BY <1>6 DEF Referred
  <2>2. ASSUME NEW peer \in PeersOf(policy.egress), NEW service,
               ServiceMatchesPeer(peer, Home[note.id], service)
        PROVE  ServiceMatchesPeer(peer, Home[note.id], service)'
    <3>1. peer \in Peers
      BY DEF Peers
    <3>2. NamespaceMatches(peer, Home[note.id])'
      BY <1>3, <1>6, <2>2, <3>1, MatchesUnlessMoved, Zenon DEF ServiceMatchesPeer
    <3> QED
      BY <2>2, <3>2 DEF ServiceMatchesPeer
  <2>3. ReferredByService(note)'
    BY <1>4, <2>1, <2>2, Zenon DEF ReferredByService, Objects, Object, HasEgressRules
  <2> QED
    BY <1>6, <2>3 DEF Referred, Object
<1> QED
  BY <1>1, <1>2, <1>5, <1>6 DEF Handlers

\* A policy of a namespace, and what is said of all kinds of policies.
LEMMA PolicyKinds ==
    ASSUME Typed, policy.kind # "cnp"
    PROVE  /\ policy \in NetworkPolicy \cup ApplicationNetworkPolicy
           /\ policy.egress \in Seq(PolicyRule(PolicyPeer))
<1>1. policy \in NetworkPolicy \cup ApplicationNetworkPolicy
  BY ObjectsTyped DEF Typed, ClusterNetworkPolicy
<1>2. \A all : all \subseteq PolicyPeer => PolicyRule(all) \subseteq PolicyRule(PolicyPeer)
  BY DEF PolicyRule
<1>3. {peer \in SelectorPeer : ~ Blank(peer)} \subseteq PolicyPeer
  BY DEF SelectorPeer
<1>4. PolicyRule({peer \in SelectorPeer : ~ Blank(peer)}) \subseteq PolicyRule(PolicyPeer)
  BY <1>2, <1>3
<1>5. CASE policy \in NetworkPolicy
  <2>1. policy.egress \in Seq(PolicyRule({peer \in SelectorPeer : ~ Blank(peer)}))
    BY <1>5 DEF NetworkPolicy
  <2> QED
    BY <1>1, <1>4, <2>1
<1>6. CASE policy \in ApplicationNetworkPolicy
  BY <1>1, <1>6 DEF ApplicationNetworkPolicy
<1> QED
  BY <1>1, <1>5, <1>6

\* Announcing a change that the policy resolves to the same after, that is
\* ignored, or whose event refers to the policy.
LEMMA AnnounceRecognised ==
    ASSUME Typed, Recognised, NEW h \in Handlers, NEW id, NEW old, NEW new, Announce(h, id, old, new),
           NEW note, note = [id |-> id, old |-> old, new |-> new],
           Resolve' = Resolve \/ Ignored(h, note) \/ Referred(h, note)',
           \A g \in Handlers : \A n \in Note(g) : Referred(g, n) => Referred(g, n)' \/ Referred(h, note)'
    PROVE  Recognised'
<1>1. /\ notes' = [notes EXCEPT ![h] = Append(notes[h], note)]
      /\ queued' = queued
      /\ fresh' = (fresh /\ Resolve' = Resolve)
      /\ overlooked' = (overlooked \/ (Ignored(h, note) /\ Resolve' # Resolve))
  BY Zenon DEF Announce
<1>2. notes[h] \in Seq(Note(h)) /\ notes = [g \in Handlers |-> notes[g]]
  BY DEF Typed, NotesTyped
<1>3. /\ notes'[h] = Append(notes[h], note)
      /\ \A g \in Handlers : g # h => notes'[g] = notes[g]
  BY <1>1, <1>2
<1>4. /\ \A i \in DOMAIN notes[h] : i \in DOMAIN Append(notes[h], note) /\ Append(notes[h], note)[i] = notes[h][i]
      /\ \E i \in DOMAIN Append(notes[h], note) : Append(notes[h], note)[i] = note
  <2>1. Len(notes[h]) \in Nat /\ DOMAIN notes[h] = 1..Len(notes[h])
    BY <1>2
  <2>2. DOMAIN Append(notes[h], note) = 1..(Len(notes[h]) + 1)
    BY <1>2
  <2>3. Append(notes[h], note)[Len(notes[h]) + 1] = note
    BY <1>2
  <2>4. Len(notes[h]) + 1 \in DOMAIN Append(notes[h], note)
    BY <2>1, <2>2
  <2>5. \A i \in DOMAIN notes[h] : i \in DOMAIN Append(notes[h], note) /\ Append(notes[h], note)[i] = notes[h][i]
    BY <1>2, <2>1, <2>2
  <2> QED
    BY <2>3, <2>4, <2>5
<1>5. ASSUME Referred(h, note)' PROVE Underway'
  <2>1. PICK i \in DOMAIN notes'[h] : notes'[h][i] = note
    BY <1>3, <1>4
  <2> QED
    BY <1>5, <2>1, Zenon DEF Underway
<1>6. ASSUME Underway PROVE Underway'
  <2>0. PICK g \in Handlers : \E i \in DOMAIN notes[g] : Referred(g, notes[g][i])
    BY <1>6, Zenon DEF Underway
  <2>1. PICK i \in DOMAIN notes[g] : Referred(g, notes[g][i])
    BY <2>0
  <2>2. PICK n : n = notes[g][i]
    OBVIOUS
  <2>3. n \in Note(g)
    BY <2>2 DEF Typed, NotesTyped
  <2>4. i \in DOMAIN notes'[g] /\ notes'[g][i] = n
    BY <1>3, <1>4, <2>2
  <2>5. CASE Referred(g, n)'
    BY <2>4, <2>5, Zenon DEF Underway
  <2> QED
    BY <1>5, <2>1, <2>2, <2>3, <2>5, Zenon
<1>7. CASE fresh
  <2>1. CASE Resolve' = Resolve
    BY <1>1, <1>7, <2>1, Zenon DEF Recognised
  <2>2. CASE Resolve' # Resolve
    BY <1>1, <1>5, <2>2, Zenon DEF Recognised
  <2> QED
    BY <2>1, <2>2
<1> QED
  BY <1>1, <1>6, <1>7, Zenon DEF Recognised

\* A pod, a namespace or a service changes.
LEMMA ChangePodRecognised ==
    ASSUME Typed, Recognised, NEW p \in DOMAIN PodVersions, ChangePod(p)
    PROVE  Recognised'
<1>1. PICK new \in PodVersions[p] \cup {Absent} :
         /\ pods' = [pods EXCEPT ![p] = new] /\ UNCHANGED <<namespaces, services>>
         /\ Announce("pod", p, pods[p], new)
  BY DEF ChangePod
<1>2. PICK old : old = pods[p]
  OBVIOUS
<1>3. PICK note : note = [id |-> p, old |-> old, new |-> new]
  OBVIOUS
<1>4. policy' = policy
  BY <1>1 DEF Announce
<1>5. CachesTyped /\ p \in DOMAIN pods
  BY DEF Typed, CachesTyped
<1>6. \A g \in Handlers : \A n \in Note(g) : Referred(g, n) => Referred(g, n)'
  BY <1>1, <1>4, SameReferred
<1>7. ASSUME ~ Ignored("pod", note), ~ Referred("pod", note) PROVE Resolve' = Resolve
  <2>1. Object(note).ip
    BY <1>7, Zenon DEF Ignored
  <2>2. policy.kind # "cnp" /\ ~ ReferredByPod(note)
    BY <1>7, <2>1, Zenon DEF Referred
  <2>3. PICK np : np = policy
    OBVIOUS
  <2>4. np \in NetworkPolicy \cup ApplicationNetworkPolicy
    BY <2>2, <2>3, PolicyKinds
  <2>5. note.id = p /\ note.old = pods[p] /\ note.new = new
    BY <1>2, <1>3
  <2>6. Home[p] = np.ns => \A peer \in Peers : ~ Blank(peer)
    BY <1>7, <2>2, <2>3, <2>5, Zenon DEF Ignored
  <2>7. ReferencesKept(np)
    BY <1>1, <1>5, <2>2, <2>3, <2>4, <2>5, <2>6, PodChangeKeeps
  <2> QED
    BY <1>4, <2>3, <2>4, <2>7, SameResolution
<1>8. Referred("pod", note)' <=> Referred("pod", note)
  BY <1>1, <1>4, SameReferred
<1>9. Announce("pod", p, old, new)
  BY <1>1, <1>2
<1> QED
  BY <1>3, <1>6, <1>7, <1>8, <1>9, AnnounceRecognised DEF Handlers

LEMMA ChangeNamespaceRecognised ==
    ASSUME Typed, Recognised, NEW ns \in Namespaces, ChangeNamespace(ns)
    PROVE  Recognised'
<1>1. PICK new \in NamespaceVersions[ns] :
         /\ namespaces' = [namespaces EXCEPT ![ns] = new] /\ UNCHANGED <<pods, services>>
         /\ Announce("namespace", ns, namespaces[ns], new)
  BY DEF ChangeNamespace
<1>2. PICK old : old = namespaces[ns]
  OBVIOUS
<1>3. PICK note : note = [id |-> ns, old |-> old, new |-> new]
  OBVIOUS
<1>4. policy' = policy
  BY <1>1 DEF Announce
<1>5. CachesTyped
  BY DEF Typed
<1>6. note.old = namespaces[ns] /\ note.new = new
  BY <1>2, <1>3
<1>7. Referred("namespace", note)' <=> policy.kind = "cnp" \/ ReferredByNamespace(note)
  BY <1>4 DEF Referred, ReferredByNamespace, Objects, Peers
<1>8. ASSUME NEW g \in Handlers, NEW n \in Note(g), Referred(g, n), ~ Referred("namespace", note)'
      PROVE  Referred(g, n)'
  BY <1>1, <1>4, <1>5, <1>6, <1>7, <1>8, ReferredUnlessMoved
<1>9. ASSUME ~ Referred("namespace", note)' PROVE Resolve' = Resolve
  <2>1. policy.kind # "cnp" /\ ~ ReferredByNamespace(note)
    BY <1>7, <1>9
  <2>2. PICK np : np = policy
    OBVIOUS
  <2>3. np \in NetworkPolicy \cup ApplicationNetworkPolicy
    BY <2>1, <2>2, PolicyKinds
  <2>4. ReferencesKept(np)
    BY <1>1, <1>5, <1>6, <2>1, <2>2, NamespaceChangeKeeps
  <2> QED
    BY <1>4, <2>2, <2>3, <2>4, SameResolution
<1>10. Announce("namespace", ns, old, new)
  BY <1>1, <1>2
<1> QED
  BY <1>3, <1>8, <1>9, <1>10, AnnounceRecognised DEF Handlers

LEMMA ChangeServiceRecognised ==
    ASSUME Typed, Recognised, NEW s \in DOMAIN ServiceVersions, ChangeService(s)
    PROVE  Recognised'
<1>1. PICK new \in ServiceVersions[s] \cup {Absent} :
         /\ services' = [services EXCEPT ![s] = new] /\ UNCHANGED <<pods, namespaces>>
         /\ Announce("service", s, services[s], new)
  BY DEF ChangeService
<1>2. PICK old : old = services[s]
  OBVIOUS
<1>3. PICK note : note = [id |-> s, old |-> old, new |-> new]
  OBVIOUS
<1>4. policy' = policy
  BY <1>1 DEF Announce
<1>5. CachesTyped /\ s \in DOMAIN services
  BY DEF Typed, CachesTyped
<1>6. \A g \in Handlers : \A n \in Note(g) : Referred(g, n) => Referred(g, n)'
  BY <1>1, <1>4, SameReferred
<1>7. ASSUME ~ Ignored("service", note), ~ Referred("service", note) PROVE Resolve' = Resolve
  <2>1. policy.kind # "cnp" /\ ~ ReferredByService(note)
    BY <1>7, Zenon DEF Referred
  <2>2. Object(note).clusterIP
    BY <1>7, <2>1, Zenon DEF Ignored
  <2>3. PICK np : np = policy
    OBVIOUS
  <2>s. \/ \E service \in Objects(note) : service.selector # Nil
        \/ \A peer \in PeersOf(np.egress) : peer.podSelector # {}
    BY <1>7, <2>3, Zenon DEF Ignored
  <2>4. np \in NetworkPolicy \cup ApplicationNetworkPolicy /\ np.egress \in Seq(PolicyRule(PolicyPeer))
    BY <2>1, <2>3, PolicyKinds
  <2>5. note.id = s /\ note.old = services[s] /\ note.new = new
    BY <1>2, <1>3
  <2>6. Home[s] = np.ns => \A peer \in PeersOf(np.egress) : ~ Blank(peer)
    BY <1>7, <2>1, <2>3, <2>5, Zenon DEF Ignored
  <2>7. ReferencesKept(np)
    BY <1>1, <1>5, <2>1, <2>2, <2>3, <2>s, <2>4, <2>5, <2>6, ServiceChangeKeeps
  <2> QED
    BY <1>4, <2>3, <2>4, <2>7, SameResolution
<1>8. Referred("service", note)' <=> Referred("service", note)
  BY <1>1, <1>4, SameReferred
<1>9. Announce("service", s, old, new)
  BY <1>1, <1>2
<1> QED
  BY <1>3, <1>6, <1>7, <1>8, <1>9, AnnounceRecognised DEF Handlers

\* A handler takes an event.
LEMMA HandleRecognised ==
    ASSUME Typed, Recognised, NEW h \in Handlers, Handle(h)
    PROVE  Recognised'
<1>1. /\ notes[h] # <<>> /\ UNCHANGED <<policy, namespaces, fresh, overlooked>>
      /\ queued' = (queued \/ Referred(h, Head(notes[h])))
      /\ notes' = [notes EXCEPT ![h] = Tail(notes[h])]
  BY DEF Handle, cluster
<1>2. notes[h] \in Seq(Note(h)) /\ notes = [g \in Handlers |-> notes[g]]
  BY DEF Typed, NotesTyped
<1>3. notes'[h] = Tail(notes[h]) /\ \A g \in Handlers : g # h => notes'[g] = notes[g]
  BY <1>1, <1>2
<1>4. /\ Head(notes[h]) = notes[h][1]
      /\ \A i \in DOMAIN notes[h] : i # 1 => i - 1 \in DOMAIN Tail(notes[h]) /\ Tail(notes[h])[i - 1] = notes[h][i]
  BY <1>1, <1>2
<1>5. ASSUME Underway PROVE queued' \/ Underway'
  <2>1. PICK g \in Handlers : \E i \in DOMAIN notes[g] : Referred(g, notes[g][i])
    BY <1>5, Zenon DEF Underway
  <2>2. PICK i \in DOMAIN notes[g] : Referred(g, notes[g][i])
    BY <2>1
  <2>3. PICK n : n = notes[g][i]
    OBVIOUS
  <2>4. CASE g = h /\ i = 1
    BY <1>1, <1>4, <2>2, <2>4, Zenon
  <2>5. CASE ~ (g = h /\ i = 1)
    <3>1. \E k \in DOMAIN notes'[g] : notes'[g][k] = n
      <4>1. CASE g = h
        <5>1. i - 1 \in DOMAIN notes'[g] /\ notes'[g][i - 1] = n
          BY <1>3, <1>4, <2>3, <2>5, <4>1
        <5> QED
          BY <5>1
      <4>2. CASE g # h
        BY <1>3, <2>3, <4>2
      <4> QED
        BY <4>1, <4>2
    <3>2. Referred(g, n)'
      BY <1>1, <2>2, <2>3, SameReferred
    <3> QED
      BY <3>1, <3>2, Zenon DEF Underway
  <2> QED
    BY <2>4, <2>5
<1> QED
  BY <1>1, <1>5, Zenon DEF Recognised

\* Every step keeps the invariant.
LEMMA StepRecognised == Typed /\ Recognised /\ [Next]_vars => Recognised'
<1> SUFFICES ASSUME Typed, Recognised, [Next]_vars PROVE Recognised'
  OBVIOUS
<1>1. ASSUME NEW p \in DOMAIN PodVersions, ChangePod(p) PROVE Recognised'
  BY <1>1, ChangePodRecognised
<1>2. ASSUME NEW ns \in Namespaces, ChangeNamespace(ns) PROVE Recognised'
  BY <1>2, ChangeNamespaceRecognised
<1>3. ASSUME NEW s \in DOMAIN ServiceVersions, ChangeService(s) PROVE Recognised'
  BY <1>3, ChangeServiceRecognised
<1>4. ASSUME NEW h \in Handlers, Handle(h) PROVE Recognised'
  BY <1>4, HandleRecognised
<1>5. CASE Reconcile
  BY <1>5 DEF Reconcile, Recognised
<1>6. CASE UNCHANGED vars
  <2>1. \A h, note : Referred(h, note)' <=> Referred(h, note)
    BY <1>6, SameReferred DEF vars, cluster
  <2>2. notes' = notes /\ UNCHANGED <<fresh, overlooked, queued>>
    BY <1>6 DEF vars
  <2>3. Underway => Underway'
    BY <2>1, <2>2, Zenon DEF Underway
  <2> QED
    BY <2>2, <2>3, Zenon DEF Recognised
<1> QED
  BY <1>1, <1>2, <1>3, <1>4, <1>5, <1>6 DEF Next

\* The handlers recognise every change that makes a difference, whatever the
\* policies, the objects, their changes and the order in which the handlers
\* look at them: with no event and no reconcile under way the endpoints are
\* what the policy resolves to, but for the changes named in Ignored.
THEOREM HandlersRecogniseChanges == Spec => []RecognisesChanges
<1>1. Init => Recognised
  BY DEF Init, Recognised
<1>2. Typed /\ Recognised => RecognisesChanges
  <2> SUFFICES ASSUME Typed, Recognised, Quiet PROVE fresh \/ overlooked
    BY DEF RecognisesChanges
  <2>1. \A h \in Handlers : notes[h] \in Seq(Note(h))
    BY DEF Typed, NotesTyped
  <2>2. \A h \in Handlers : Len(notes[h]) = 0
    <3>1. Len(notes["pod"]) \in Nat /\ Len(notes["namespace"]) \in Nat /\ Len(notes["service"]) \in Nat
      BY <2>1 DEF Handlers
    <3>2. Pending = 0
      BY Zenon DEF Quiet
    <3>3. Len(notes["pod"]) = 0 /\ Len(notes["namespace"]) = 0 /\ Len(notes["service"]) = 0
      <4>1. \A k, m, n \in Nat : k + m + n = 0 => k = 0 /\ m = 0 /\ n = 0
        OBVIOUS
      <4> QED
        BY <3>1, <3>2, <4>1, Zenon DEF Pending
    <3> QED
      BY <3>3 DEF Handlers
  <2>3. \A h \in Handlers : DOMAIN notes[h] = {}
    BY <2>1, <2>2
  <2> QED
    BY <2>3, Zenon DEF Quiet, Recognised, Underway
<1> QED
  BY <1>1, <1>2, StepRecognised, ResolutionTyped, PTL DEF Spec
=============================================================================
