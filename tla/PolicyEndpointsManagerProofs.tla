-------------------- MODULE PolicyEndpointsManagerProofs --------------------
(***************************************************************************)
(* Safety of the policy endpoints manager for any policies, peers, ports,  *)
(* endpoint names, chunk size and cache lag.                               *)
(***************************************************************************)
EXTENDS ManagerPublishes, EndpointRulesProofs

-----------------------------------------------------------------------------
(***************************************************************************)
(* The policies whose entries can be merged without a loss: all Network-   *)
(* and ApplicationNetworkPolicies, and ClusterNetworkPolicies in which no  *)
(* peer has an entry for all ports beside one for some.                    *)
(***************************************************************************)
Mergeable(rules) == IsCluster = FALSE \/ Unmixed(rules)
PoliciesMergeable ==
    \A p \in Policies : Mergeable(p.rules["ingress"]) /\ Mergeable(p.rules["egress"])

-----------------------------------------------------------------------------
(***************************************************************************)
(* The invariant.                                                          *)
(***************************************************************************)
Small(spec) ==
    \A k \in Kinds : IsFiniteSet(spec.rules[k]) /\ Cardinality(spec.rules[k]) <= endpointChunkSize

\* No copy of an endpoint, nor any that is going to be written, is oversized.
AllSmall ==
    /\ \A id \in PEs : server[id] # Absent => Small(server[id])
    /\ \A id \in PEs : cache[id] # Absent => Small(cache[id])
    /\ \A e \in DOMAIN events : events[e].object # Absent => Small(events[e].object)
    /\ \A id \in PEs : todo[id] # Nothing => Small(todo[id].spec)

\* The cache is right about endpoints no event is under way for, and the last
\* event of an endpoint brings it up to date.
CacheFollows ==
    /\ \A id \in PEs : ~ Pending(id) => cache[id] = server[id]
    /\ \A e \in DOMAIN events :
          (\A f \in DOMAIN events : events[f].id = events[e].id => f <= e)
            => events[e].object = server[events[e].id]

\* After a list from a cache in sync, the cached copy of an endpoint stays
\* right until its turn comes; its rules are some of the policy's.
ListStillRight ==
    Synced => \A id \in PEs : todo[id] # Nothing =>
        /\ ~ Pending(id)
        /\ id \notin moved
        /\ todo[id].op = "create" <=> server[id] = Absent
        /\ PoliciesMergeable =>
              Mergeable(todo[id].spec.rules["ingress"]) /\ Mergeable(todo[id].spec.rules["egress"])

\* The endpoints there will be when the lists are done, and their specs.
Remains(id) == IF todo[id] = Nothing THEN server[id] # Absent ELSE todo[id].op # "delete"
Outcome(id) == IF todo[id] = Nothing THEN server[id] ELSE todo[id].spec

OutcomeRight ==
    Synced =>
        /\ \E id \in PEs : Remains(id)
        /\ \A id \in PEs : Remains(id) => Outcome(id).isolation = goal.isolation
        /\ PoliciesMergeable => \A k \in Kinds : \A t :
              t \in Traffic(goal.rules[k])
                <=> \E id \in PEs : Remains(id) /\ t \in Traffic(Outcome(id).rules[k])

IInv ==
    /\ TypeOK
    /\ AllSmall
    /\ CacheFollows
    /\ ListStillRight
    /\ OutcomeRight

-----------------------------------------------------------------------------
(***************************************************************************)
(* What is written for a planned spec.                                     *)
(***************************************************************************)
LEMMA ProcessedSpec ==
    ASSUME NEW spec \in PESpec, Small(spec), NEW s \in Processed(spec)
    PROVE  /\ s \in PESpec
           /\ Small(s)
           /\ s.isolation = spec.isolation
           /\ Mergeable(spec.rules["ingress"]) /\ Mergeable(spec.rules["egress"]) =>
                 \A k \in Kinds : Traffic(s.rules[k]) = Traffic(spec.rules[k])
<1>1. PICK in \in Merges(spec.rules["ingress"], IsCluster),
           eg \in Merges(spec.rules["egress"], IsCluster) :
          s = [spec EXCEPT !.rules = [ingress |-> in, egress |-> eg, pods |-> spec.rules["pods"]]]
    BY DEF Processed
<1>2. \A k \in Kinds : /\ spec.rules[k] \subseteq Rule
                       /\ IsFiniteSet(spec.rules[k])
                       /\ Cardinality(spec.rules[k]) <= endpointChunkSize
                       /\ Cardinality(spec.rules[k]) \in Nat
    BY FS_CardinalityType DEF PESpec, Small
<1>3. "ingress" \in Kinds /\ "egress" \in Kinds /\ "pods" \in Kinds
    BY DEF Kinds
<1>4. in \subseteq Rule /\ IsFiniteSet(in) /\ Cardinality(in) <= Cardinality(spec.rules["ingress"])
    BY <1>2, <1>3, MergeBounded
<1>5. eg \subseteq Rule /\ IsFiniteSet(eg) /\ Cardinality(eg) <= Cardinality(spec.rules["egress"])
    BY <1>2, <1>3, MergeBounded
<1>6. /\ s.rules["ingress"] = in
      /\ s.rules["egress"] = eg
      /\ s.rules["pods"] = spec.rules["pods"]
      /\ s.selector = spec.selector
      /\ s.isolation = spec.isolation
    BY <1>1 DEF PESpec
<1>7. s \in PESpec
    BY <1>1, <1>2, <1>3, <1>4, <1>5 DEF PESpec, Kinds
<1>8. Small(s)
    <2>1. Cardinality(in) \in Nat /\ Cardinality(eg) \in Nat /\ endpointChunkSize \in Nat
        BY <1>4, <1>5, FS_CardinalityType, ConstantsTyped
    <2>2. Cardinality(in) <= endpointChunkSize /\ Cardinality(eg) <= endpointChunkSize
        BY <1>2, <1>3, <1>4, <1>5, <2>1
    <2>3. QED
        BY <1>2, <1>3, <1>4, <1>5, <1>6, <2>2 DEF Small, Kinds
<1>9. ASSUME Mergeable(spec.rules["ingress"]), Mergeable(spec.rules["egress"]), NEW k \in Kinds
      PROVE  Traffic(s.rules[k]) = Traffic(spec.rules[k])
    <2>1. Traffic(in) = Traffic(spec.rules["ingress"])
        BY <1>1, <1>2, <1>3, <1>9, MergeKeepsTraffic, ConstantsTyped DEF Mergeable
    <2>2. Traffic(eg) = Traffic(spec.rules["egress"])
        BY <1>1, <1>2, <1>3, <1>9, MergeKeepsTraffic, ConstantsTyped DEF Mergeable
    <2>3. QED
        BY <1>6, <2>1, <2>2 DEF Kinds
<1>10. QED
    BY <1>6, <1>7, <1>8, <1>9

\* A patch computed from the very object the server has replaces it by the new
\* spec.
LEMMA PatchedFromCurrent ==
    ASSUME NEW object \in PESpec, NEW new \in PESpec, NEW resent
    PROVE  Patched(object, object, new, resent) = new
<1>1. \A k \in Kinds : Patched(object, object, new, resent).rules[k] = new.rules[k]
    BY DEF Patched
<1>2. new = [rules |-> new.rules, selector |-> new.selector, isolation |-> new.isolation]
    BY DEF PESpec
<1>3. new.rules = [k \in Kinds |-> new.rules[k]]
    BY DEF PESpec
<1>4. Patched(object, object, new, resent).rules = new.rules
    BY <1>1, <1>3 DEF Patched
<1>5. QED
    BY <1>2, <1>4 DEF Patched

\* Whatever objects a patch is computed from and applied to, each list of the
\* result is a list of one of them.
LEMMA PatchedSmall ==
    ASSUME NEW object \in PESpec, NEW old, NEW new \in PESpec, NEW resent,
           Small(object), Small(new)
    PROVE  /\ Patched(object, old, new, resent) \in PESpec
           /\ Small(Patched(object, old, new, resent))
BY DEF Patched, PESpec, Small

-----------------------------------------------------------------------------
(***************************************************************************)
(* What a reconcile plans.                                                 *)
(***************************************************************************)

\* The choices StartReconcile makes.
Choice(rank, created, place) ==
    /\ rank \in Listings
    /\ created \in NewNames
    /\ \A k \in Kinds : place[k] \in Packings(rank, created, k)
    /\ NoSpare(rank, created, place)

\* A reconcile starts from some listing, new names and packing.
LEMMA ChoiceOfStart ==
    ASSUME StartReconcile
    PROVE  \E rank, created, place :
              /\ Choice(rank, created, place)
              /\ todo' = Plan(rank, created, place)
<1>1. PICK rank \in Listings, created \in NewNames :
          \E in \in Packings(rank, created, "ingress"),
             eg \in Packings(rank, created, "egress"),
             ps \in Packings(rank, created, "pods") :
               /\ NoSpare(rank, created, [ingress |-> in, egress |-> eg, pods |-> ps])
               /\ todo' = Plan(rank, created, [ingress |-> in, egress |-> eg, pods |-> ps])
    BY DEF StartReconcile
<1>2. PICK in \in Packings(rank, created, "ingress"),
           eg \in Packings(rank, created, "egress"),
           ps \in Packings(rank, created, "pods") :
             /\ NoSpare(rank, created, [ingress |-> in, egress |-> eg, pods |-> ps])
             /\ todo' = Plan(rank, created, [ingress |-> in, egress |-> eg, pods |-> ps])
    BY <1>1
<1> DEFINE place == [ingress |-> in, egress |-> eg, pods |-> ps]
<1>3. \A k \in Kinds : place[k] \in Packings(rank, created, k)
    BY DEF Kinds
<1>4. Choice(rank, created, place)
    BY <1>2, <1>3 DEF Choice
<1>5. QED
    BY <1>2, <1>4

\* Names are new: no endpoint with them is cached or stored.
LEMMA CreatedAreNew ==
    ASSUME NEW created \in NewNames, NEW id \in created
    PROVE  id \in PEs /\ id \notin Existing /\ server[id] = Absent /\ ~ Pending(id)
BY DEF NewNames, FreshNames, Existing

\* Every planned spec is well formed and respects the chunk size.
LEMMA PlannedSmall ==
    ASSUME TypeOK, AllSmall, NEW rank, NEW created, NEW place, Choice(rank, created, place),
           NEW id \in Existing \cup created
    PROVE  SpecFor(rank, place, id) \in PESpec /\ Small(SpecFor(rank, place, id))
<1>1. id \in PEs /\ (id \notin Existing => id \in created)
    BY CreatedAreNew DEF Choice, Existing
<1>2. policy \in PESpec /\ \A k \in Kinds : IsFiniteSet(policy.rules[k])
    BY PoliciesTyped DEF TypeOK, Policy, PESpec
<1>3. id \in Existing => cache[id] \in PESpec /\ Small(cache[id])
    BY <1>1 DEF TypeOK, AllSmall, Existing
<1>4. ASSUME NEW k \in Kinds
      PROVE  /\ Contents(rank, place, id)[k] \subseteq Rule
             /\ IsFiniteSet(Contents(rank, place, id)[k])
             /\ Cardinality(Contents(rank, place, id)[k]) <= endpointChunkSize
    <2> DEFINE kept == KeptRules(rank, k, id)
               new == {r \in NewRules(k) : place[k][r] = id}
    <2>1. Contents(rank, place, id)[k] = kept \cup new
        BY DEF Contents
    <2>2. kept \subseteq policy.rules[k] /\ new \subseteq policy.rules[k]
        BY DEF KeptRules, NewRules
    <2>3. IsFiniteSet(kept) /\ IsFiniteSet(new) /\ IsFiniteSet(kept \cup new)
        BY <1>2, <2>2, FS_Subset, FS_Union
    <2>4. /\ Cardinality(kept) \in Nat /\ Cardinality(new) \in Nat
          /\ Cardinality(kept \cup new) \in Nat /\ endpointChunkSize \in Nat
        BY <2>3, FS_CardinalityType, ConstantsTyped
    <2>5. Cardinality(new) > 0 => Cardinality(kept) + Cardinality(new) <= endpointChunkSize
        <3>1. place[k] \in Packings(rank, created, k)
            BY DEF Choice
        <3>2. FitsInChunks(Existing \cup created,
                  [i \in Existing \cup created |-> Cardinality(KeptRules(rank, k, i))],
                  [i \in Existing \cup created |-> Cardinality({r \in NewRules(k) : place[k][r] = i})],
                  endpointChunkSize)
            BY <3>1 DEF Packings, IsGreedyFill
        <3>3. QED
            BY <3>2 DEF FitsInChunks
    <2>6. Cardinality(kept) <= endpointChunkSize
        <3>1. CASE id \in Existing
            <4>1. kept \subseteq cache[id].rules[k]
                BY <3>1 DEF KeptRules
            <4>2. IsFiniteSet(cache[id].rules[k]) /\ Cardinality(cache[id].rules[k]) <= endpointChunkSize
                BY <1>3, <3>1 DEF Small
            <4>3. Cardinality(kept) <= Cardinality(cache[id].rules[k])
                BY <4>1, <4>2, FS_Subset
            <4>4. Cardinality(cache[id].rules[k]) \in Nat
                BY <4>2, FS_CardinalityType
            <4>5. QED
                BY <2>4, <4>2, <4>3, <4>4
        <3>2. CASE id \notin Existing
            <4>1. kept = {}
                BY <3>2 DEF KeptRules
            <4>2. QED
                BY <2>4, <4>1, FS_EmptySet
        <3>3. QED
            BY <3>1, <3>2
    <2>7. Cardinality(kept \cup new) <= Cardinality(kept) + Cardinality(new)
        <3>1. /\ Cardinality(kept \cup new)
                 = Cardinality(kept) + Cardinality(new) - Cardinality(kept \cap new)
              /\ IsFiniteSet(kept \cap new)
            BY <2>3, FS_Union, FS_Intersection
        <3>2. Cardinality(kept \cap new) \in Nat
            BY <3>1, FS_CardinalityType
        <3>3. QED
            BY <2>4, <3>1, <3>2
    <2>8. Contents(rank, place, id)[k] \subseteq Rule
        BY <1>2, <2>1, <2>2 DEF PESpec
    <2> HIDE DEF kept, new
    <2>9. Cardinality(kept \cup new) <= endpointChunkSize
        BY <2>4, <2>5, <2>6, <2>7
    <2>10. QED
        BY <2>1, <2>3, <2>8, <2>9
<1>5. Contents(rank, place, id) \in [Kinds -> SUBSET Rule]
    BY <1>4 DEF Contents
<1>6. SpecFor(rank, place, id) \in PESpec
    BY <1>2, <1>3, <1>5 DEF SpecFor, PESpec
<1>7. SpecFor(rank, place, id).rules = Contents(rank, place, id)
    BY DEF SpecFor
<1>8. QED
    BY <1>4, <1>6, <1>7 DEF Small

\* The create, update and delete lists hold complete specs.
LEMMA PlanTyped ==
    ASSUME TypeOK, AllSmall, NEW rank, NEW created, NEW place, Choice(rank, created, place)
    PROVE  /\ Plan(rank, created, place) \in [PEs -> Work \cup {Nothing}]
           /\ \A id \in PEs : LET w == Plan(rank, created, place)[id]
                              IN  w # Nothing => Small(w.spec)
<1>1. ASSUME NEW id \in PEs
      PROVE  LET w == Plan(rank, created, place)[id]
             IN  w \in Work \cup {Nothing} /\ (w # Nothing => Small(w.spec))
    <2>1. CASE id \in Existing \cup created
        BY <2>1, PlannedSmall DEF Plan, Work, Ops
    <2>2. CASE id \notin Existing \cup created
        BY <2>2 DEF Plan
    <2>3. QED
        BY <2>1, <2>2
<1>2. QED
    BY <1>1 DEF Plan

\* A wanted rule that some listed endpoint has is kept by the first that has it.
LEMMA FirstHolderKeeps ==
    ASSUME NEW rank, NEW created, NEW place, Choice(rank, created, place),
           NEW k \in Kinds, NEW r \in policy.rules[k],
           NEW holder \in Existing, r \in cache[holder].rules[k]
    PROVE  \E id \in Existing : r \in cache[id].rules[k] /\ r \in Contents(rank, place, id)[k]
<1> DEFINE holders == {id \in Existing : r \in cache[id].rules[k]}
           ranks == {rank[id] : id \in holders}
<1>1. rank \in [Existing -> 1..Cardinality(Existing)]
    BY DEF Choice, Listings
<1>2. ranks \subseteq Nat /\ ranks # {}
    BY <1>1
<1>3. PICK x \in ranks : \A y \in ranks : x <= y
    <2> HIDE DEF ranks
    <2> QED BY <1>2, NatMin
<1>4. PICK id \in holders : rank[id] = x
    OBVIOUS
<1>5. \A other \in Existing : r \in cache[other].rules[k] => rank[id] <= rank[other]
    BY <1>3, <1>4
<1>6. r \in KeptRules(rank, k, id)
    BY <1>4, <1>5 DEF KeptRules
<1>7. QED
    BY <1>4, <1>6 DEF Contents

\* Every wanted rule is in an endpoint that is created or kept.
LEMMA EveryRulePlanned ==
    ASSUME TypeOK, NEW rank, NEW created, NEW place, Choice(rank, created, place),
           NEW k \in Kinds, NEW r \in policy.rules[k]
    PROVE  \E id \in Existing \cup created : r \in Contents(rank, place, id)[k]
<1>1. CASE \E id \in Existing : r \in cache[id].rules[k]
    BY <1>1, FirstHolderKeeps
<1>2. CASE ~ \E id \in Existing : r \in cache[id].rules[k]
    <2>1. r \in NewRules(k)
        BY <1>2 DEF NewRules
    <2>2. place[k] \in [NewRules(k) -> Existing \cup created]
        BY DEF Choice, Packings
    <2>3. QED
        BY <2>1, <2>2 DEF Contents
<1>3. QED
    BY <1>1, <1>2

\* And no other rule is in any of them.
LEMMA OnlyRulesPlanned ==
    ASSUME NEW rank, NEW place, NEW id, NEW k \in Kinds
    PROVE  Contents(rank, place, id)[k] \subseteq policy.rules[k]
BY DEF Contents, KeptRules, NewRules

\* What is planned for an endpoint.
LEMMA PlanEntry ==
    ASSUME TypeOK, AllSmall, NEW rank, NEW created, NEW place, Choice(rank, created, place), NEW id \in PEs
    PROVE  LET w == Plan(rank, created, place)[id]
           IN  /\ id \in Existing \cup created =>
                     /\ w # Nothing
                     /\ w.spec = SpecFor(rank, place, id)
                     /\ w.op = "create" <=> id \in created
                     /\ w.op = "delete" <=> id \in Existing /\ ~ InUse(rank, created, place, id)
               /\ id \notin Existing \cup created => w = Nothing
<1>1. \A i \in created : i \notin Existing
    BY CreatedAreNew DEF Choice
<1>2. CASE id \in Existing \cup created
    <2>1. SpecFor(rank, place, id) \in PESpec
        BY <1>2, PlannedSmall
    <2>2. Plan(rank, created, place)[id] \in Work
        BY <1>1, <1>2, <2>1 DEF Plan, Work, Ops
    <2>3. QED
        BY <1>1, <1>2, <2>2, NothingIsNoWork DEF Plan
<1>3. CASE id \notin Existing \cup created
    BY <1>3 DEF Plan
<1>4. QED
    BY <1>2, <1>3

\* A plan, carried out, leaves the policy's traffic published.
LEMMA PlanOutcome ==
    ASSUME TypeOK, AllSmall, CacheFollows, StartReconcile, stale' = {}
    PROVE  /\ ListStillRight'
           /\ OutcomeRight'
<1>1. PICK rank, created, place :
          Choice(rank, created, place) /\ todo' = Plan(rank, created, place)
    BY ChoiceOfStart
<1>2. /\ server' = server /\ cache' = cache /\ events' = events /\ moved' = {}
      /\ goal' = policy /\ pc' = "writing"
    BY DEF StartReconcile
<1>3. \A id \in PEs : ~ Pending(id) /\ cache[id] = server[id]
    BY DEF StartReconcile, CacheFollows
<1>4. created \subseteq PEs /\ \A id \in created : id \notin Existing /\ server[id] = Absent
    BY <1>1, CreatedAreNew DEF Choice
<1>5. \A id \in PEs : id \in Existing <=> server[id] # Absent
    BY <1>3 DEF Existing
<1>6. ASSUME NEW id \in PEs
      PROVE  /\ id \in Existing \cup created =>
                   /\ todo'[id] # Nothing
                   /\ todo'[id].spec = SpecFor(rank, place, id)
                   /\ todo'[id].op = "create" <=> id \in created
                   /\ todo'[id].op = "delete"
                        <=> id \in Existing /\ ~ InUse(rank, created, place, id)
             /\ id \notin Existing \cup created => todo'[id] = Nothing
    BY <1>1, PlanEntry
<1>7. ListStillRight'
    <2>1. SUFFICES ASSUME NEW id \in PEs, todo'[id] # Nothing
                   PROVE  /\ ~ Pending(id)'
                          /\ id \notin moved'
                          /\ todo'[id].op = "create" <=> server'[id] = Absent
                          /\ PoliciesMergeable =>
                                /\ Mergeable(todo'[id].spec.rules["ingress"])
                                /\ Mergeable(todo'[id].spec.rules["egress"])
        BY DEF ListStillRight
    <2>2. ~ Pending(id)'
        BY <1>2, <1>3 DEF Pending
    <2>3. ASSUME PoliciesMergeable, NEW k \in {"ingress", "egress"}
          PROVE  Mergeable(todo'[id].spec.rules[k])
        <3>0. todo'[id].spec = SpecFor(rank, place, id)
            BY <1>6, <2>1
        <3>1. todo'[id].spec.rules = Contents(rank, place, id)
            BY <3>0 DEF SpecFor
        <3>2. Contents(rank, place, id)[k] \subseteq policy.rules[k]
            BY OnlyRulesPlanned DEF Kinds
        <3>3. Mergeable(policy.rules[k])
            BY <2>3 DEF TypeOK, PoliciesMergeable
        <3>4. QED
            BY <3>1, <3>2, <3>3 DEF Mergeable, Unmixed
    <2>4. QED
        BY <1>2, <1>4, <1>5, <1>6, <2>1, <2>2, <2>3
<1>8. ASSUME NEW id \in PEs
      PROVE  Remains(id)' <=> \/ id \in created
                              \/ id \in Existing /\ InUse(rank, created, place, id)
    BY <1>2, <1>4, <1>5, <1>6 DEF Remains
<1>9. ASSUME NEW id \in PEs, Remains(id)'
      PROVE  /\ Outcome(id)'.isolation = policy.isolation
             /\ Outcome(id)'.rules = Contents(rank, place, id)
    <2>1. id \in Existing \cup created
        BY <1>8, <1>9
    <2>2. Outcome(id)' = SpecFor(rank, place, id)
        BY <1>6, <2>1 DEF Outcome
    <2>3. QED
        BY <2>2 DEF SpecFor
<1>10. ASSUME NEW k \in Kinds, NEW r \in policy.rules[k]
       PROVE  \E id \in PEs : Remains(id)' /\ r \in Contents(rank, place, id)[k]
    <2>1. PICK id \in Existing \cup created : r \in Contents(rank, place, id)[k]
        BY <1>1, EveryRulePlanned
    <2>2. id \in PEs
        BY <1>4 DEF Existing
    <2>3. InUse(rank, created, place, id)
        BY <2>1 DEF InUse
    <2>4. QED
        BY <1>8, <2>1, <2>2, <2>3
<1>11. \E id \in PEs : Remains(id)'
    <2>1. CASE \E k \in Kinds : policy.rules[k] # {}
        BY <1>10, <2>1
    <2>2. CASE (\A k \in Kinds : policy.rules[k] = {}) /\ Existing = {}
        <3>1. Cardinality(created) = 1
            BY <1>1, <2>2 DEF Choice, NoSpare
        <3>2. created # {}
            BY <3>1, FS_EmptySet
        <3>3. QED
            BY <1>4, <1>8, <3>2
    <2>3. CASE (\A k \in Kinds : policy.rules[k] = {}) /\ Existing # {}
        <3> DEFINE ranks == {rank[id] : id \in Existing}
        <3>1. rank \in [Existing -> 1..Cardinality(Existing)]
            BY <1>1 DEF Choice, Listings
        <3>2. ranks \subseteq Nat /\ ranks # {}
            BY <2>3, <3>1
        <3>3. PICK x \in ranks : \A y \in ranks : x <= y
            <4> HIDE DEF ranks
            <4> QED BY <3>2, NatMin
        <3>4. PICK id \in Existing : rank[id] = x
            OBVIOUS
        <3>5. id \in KeepOne(rank, created)
            BY <2>3, <3>3, <3>4 DEF KeepOne
        <3>6. id \in PEs /\ InUse(rank, created, place, id)
            BY <3>5 DEF InUse, Existing
        <3>7. QED
            BY <1>8, <3>4, <3>6
    <2>4. QED
        BY <2>1, <2>2, <2>3
<1>12. ASSUME NEW k \in Kinds, NEW t
       PROVE  t \in Traffic(policy.rules[k])
                <=> \E id \in PEs : Remains(id)' /\ t \in Traffic(Outcome(id)'.rules[k])
    <2>1. ASSUME t \in Traffic(policy.rules[k])
          PROVE  \E id \in PEs : Remains(id)' /\ t \in Traffic(Outcome(id)'.rules[k])
        <3>1. PICK r \in policy.rules[k] : t \in Covers(r)
            BY <2>1, InTraffic
        <3>2. PICK id \in PEs : Remains(id)' /\ r \in Contents(rank, place, id)[k]
            BY <1>10
        <3>3. r \in Outcome(id)'.rules[k]
            BY <1>9, <3>2
        <3>4. QED
            BY <3>1, <3>2, <3>3, InTraffic
    <2>2. ASSUME NEW id \in PEs, Remains(id)', t \in Traffic(Outcome(id)'.rules[k])
          PROVE  t \in Traffic(policy.rules[k])
        <3>1. Outcome(id)'.rules[k] \subseteq policy.rules[k]
            BY <1>9, <2>2, OnlyRulesPlanned
        <3>2. QED
            BY <2>2, <3>1, InTraffic
    <2>3. QED
        BY <2>1, <2>2
<1>13. OutcomeRight'
    BY <1>2, <1>9, <1>11, <1>12 DEF OutcomeRight
<1>14. QED
    BY <1>7, <1>13

-----------------------------------------------------------------------------
(***************************************************************************)
(* What a request and a watch event do.                                    *)
(***************************************************************************)
LEMMA RequestEffect ==
    ASSUME TypeOK, AllSmall, CacheFollows, ListStillRight, NEW id \in PEs, Request(id)
    PROVE  /\ todo[id] \in Work
           /\ pc = "writing"
           /\ \E value \in PESpec \cup {Absent} :
                /\ server' = [server EXCEPT ![id] = value]
                /\ events' = Append(events, [id |-> id, object |-> value])
                /\ value # Absent => Small(value)
                /\ value = Absent <=> todo[id].op = "delete"
                /\ Synced /\ value # Absent =>
                     /\ value.isolation = todo[id].spec.isolation
                     /\ PoliciesMergeable =>
                          \A k \in Kinds : Traffic(value.rules[k]) = Traffic(todo[id].spec.rules[k])
<1>1. pc = "writing" /\ todo[id] # Nothing /\ todo[id] \in Work
    BY DEF Request, Turn, TypeOK
<1>2. todo[id].spec \in PESpec /\ Small(todo[id].spec) /\ todo[id].op \in Ops
    BY <1>1 DEF Work, AllSmall
<1>3. \A s \in Processed(todo[id].spec) :
          /\ s \in PESpec /\ s # Absent /\ Small(s)
          /\ s.isolation = todo[id].spec.isolation
          /\ Synced /\ PoliciesMergeable =>
                \A k \in Kinds : Traffic(s.rules[k]) = Traffic(todo[id].spec.rules[k])
    BY <1>1, <1>2, ProcessedSpec, AbsentIsNoSpec DEF ListStillRight
<1>4. CASE todo[id].op = "create"
    <2>1. PICK s \in Processed(todo[id].spec) : Stored(id, s)
        BY <1>4 DEF Request
    <2>2. QED
        BY <1>1, <1>3, <1>4, <2>1 DEF Stored
<1>5. CASE todo[id].op \in {"reuse", "modify"}
    <2>1. PICK s \in Processed(todo[id].spec), resent \in SUBSET {"ingress", "egress"} :
              Stored(id, IF IsCluster THEN s ELSE Patched(server[id], cache[id], s, resent))
        BY <1>5 DEF Request
    <2>2. server[id] \in PESpec /\ Small(server[id])
        BY <1>5 DEF Request, TypeOK, AllSmall
    <2>3. CASE IsCluster
        <3>1. Stored(id, s)
            BY <2>1, <2>3
        <3>2. QED
            BY <1>1, <1>3, <1>5, <3>1 DEF Stored
    <2>4. CASE ~ IsCluster
        <3> DEFINE value == Patched(server[id], cache[id], s, resent)
        <3>1. Stored(id, value)
            BY <2>1, <2>4
        <3>2. value \in PESpec /\ Small(value) /\ value # Absent
            BY <1>3, <2>2, PatchedSmall, AbsentIsNoSpec
        <3>3. Synced => value = s
            <4>1. Synced => cache[id] = server[id]
                BY <1>1 DEF ListStillRight, CacheFollows
            <4>2. QED
                BY <1>3, <2>2, <4>1, PatchedFromCurrent
        <3> HIDE DEF value
        <3>4. QED
            BY <1>1, <1>3, <1>5, <3>1, <3>2, <3>3 DEF Stored
    <2>5. QED
        BY <2>3, <2>4, ConstantsTyped
<1>6. CASE todo[id].op = "delete"
    <2>1. Stored(id, Absent)
        BY <1>6 DEF Request
    <2>2. QED
        BY <1>1, <1>6, <2>1 DEF Stored
<1>7. QED
    BY <1>2, <1>4, <1>5, <1>6 DEF Ops

\* Storing an object and announcing it keeps the cache followable.
LEMMA AppendFollows ==
    ASSUME TypeOK, AllSmall, CacheFollows, NEW id \in PEs, NEW value \in PESpec \cup {Absent},
           value # Absent => Small(value),
           server' = [server EXCEPT ![id] = value],
           events' = Append(events, [id |-> id, object |-> value]),
           cache' = cache
    PROVE  /\ server' \in [PEs -> PESpec \cup {Absent}]
           /\ events' \in Seq([id : PEs, object : PESpec \cup {Absent}])
           /\ CacheFollows'
           /\ \A i \in PEs : Pending(i)' <=> Pending(i) \/ i = id
           /\ \A i \in PEs : server'[i] # Absent => Small(server'[i])
           /\ \A e \in DOMAIN events' : events'[e].object # Absent => Small(events'[e].object)
<1> DEFINE Event == [id : PEs, object : PESpec \cup {Absent}]
           new == [id |-> id, object |-> value]
<1>1. events \in Seq(Event) /\ new \in Event
    BY DEF TypeOK
<1>2. /\ Len(events) \in Nat
      /\ DOMAIN events = 1..Len(events)
      /\ DOMAIN events' = 1..(Len(events) + 1)
      /\ \A e \in 1..Len(events) : events'[e] = events[e]
      /\ events'[Len(events) + 1] = new
      /\ events' \in Seq(Event)
    <2> HIDE DEF Event, new
    <2> QED BY <1>1 DEF new
<1>3. \A i \in PEs : server'[i] = IF i = id THEN value ELSE server[i]
    BY DEF TypeOK
<1>4. server' \in [PEs -> PESpec \cup {Absent}]
    BY DEF TypeOK
<1>5. \A e \in DOMAIN events' : e \in DOMAIN events \/ e = Len(events) + 1
    BY <1>2
<1>6. \A i \in PEs : Pending(i)' <=> Pending(i) \/ i = id
    <2>1. new.id = id
        OBVIOUS
    <2> HIDE DEF new
    <2>2. QED
        BY <1>2, <1>5, <2>1 DEF Pending
<1>7. \A i \in PEs : ~ Pending(i)' => cache'[i] = server'[i]
    BY <1>3, <1>6 DEF CacheFollows
<1>8. ASSUME NEW e \in DOMAIN events',
             \A f \in DOMAIN events' : events'[f].id = events'[e].id => f <= e
      PROVE  events'[e].object = server'[events'[e].id]
    <2>1. CASE e = Len(events) + 1
        BY <1>2, <1>3, <2>1
    <2>2. CASE e \in 1..Len(events)
        <3>1. Len(events) + 1 \in DOMAIN events' /\ ~ (Len(events) + 1 <= e)
            BY <1>2, <2>2
        <3>2. events'[Len(events) + 1].id # events'[e].id
            BY <1>8, <3>1
        <3>3. events[e].id # id /\ events[e].id \in PEs /\ events'[e] = events[e]
            <4>1. events'[e] = events[e] /\ events'[Len(events) + 1].id = id
                BY <1>2, <2>2
            <4>2. events[e] \in Event
                <5> HIDE DEF Event
                <5> QED BY <1>1, <1>2, <2>2
            <4>3. QED
                BY <3>2, <4>1, <4>2
        <3>4. \A f \in DOMAIN events : events[f].id = events[e].id => f <= e
            BY <1>2, <1>8, <2>2
        <3>5. events[e].object = server[events[e].id]
            BY <1>2, <2>2, <3>4 DEF CacheFollows
        <3>6. QED
            BY <1>3, <3>3, <3>5
    <2>3. QED
        BY <1>2, <1>5, <2>1, <2>2
<1>9. CacheFollows'
    BY <1>7, <1>8 DEF CacheFollows
<1>10. \A i \in PEs : server'[i] # Absent => Small(server'[i])
    BY <1>3 DEF AllSmall
<1>11. \A e \in DOMAIN events' : events'[e].object # Absent => Small(events'[e].object)
    <2>1. new.object = value
        OBVIOUS
    <2> HIDE DEF new
    <2>2. QED
        BY <1>2, <1>5, <2>1 DEF AllSmall
<1>12. QED
    BY <1>2, <1>4, <1>6, <1>9, <1>10, <1>11

\* Applying the oldest event keeps the cache followable.
LEMMA WatchFollows ==
    ASSUME TypeOK, AllSmall, CacheFollows, WatchEvent
    PROVE  /\ cache' \in [PEs -> PESpec \cup {Absent}]
           /\ events' \in Seq([id : PEs, object : PESpec \cup {Absent}])
           /\ CacheFollows'
           /\ Head(events).id \in PEs /\ Pending(Head(events).id)
           /\ \A i \in PEs : Pending(i)' => Pending(i)
           /\ \A i \in PEs : cache'[i] # Absent => Small(cache'[i])
           /\ \A e \in DOMAIN events' : events'[e].object # Absent => Small(events'[e].object)
<1> DEFINE Event == [id : PEs, object : PESpec \cup {Absent}]
<1>1. events \in Seq(Event) /\ events # <<>>
    BY DEF TypeOK, WatchEvent
<1>2. /\ Len(events) \in Nat /\ Len(events) > 0
      /\ DOMAIN events = 1..Len(events)
      /\ DOMAIN events' = 1..(Len(events) - 1)
      /\ \A e \in 1..(Len(events) - 1) : events'[e] = events[e + 1]
      /\ Head(events) = events[1]
      /\ events' \in Seq(Event)
    <2> HIDE DEF Event
    <2> QED BY <1>1 DEF WatchEvent
<1>3. events[1] \in Event
    <2> HIDE DEF Event
    <2> QED BY <1>1, <1>2
<1>4. \A i \in PEs : cache'[i] = IF i = events[1].id THEN events[1].object ELSE cache[i]
    BY <1>2 DEF TypeOK, WatchEvent
<1>5. cache' \in [PEs -> PESpec \cup {Absent}]
    BY <1>2, <1>3 DEF TypeOK, WatchEvent
<1>6. \A e \in DOMAIN events' : e + 1 \in DOMAIN events /\ events'[e] = events[e + 1]
    BY <1>2
<1>7. \A e \in DOMAIN events : e = 1 \/ (e - 1 \in DOMAIN events' /\ events'[e - 1] = events[e])
    BY <1>2
<1>8. \A i \in PEs : Pending(i)' => Pending(i)
    BY <1>6 DEF Pending
<1>9. ASSUME NEW i \in PEs, ~ Pending(i)' PROVE cache'[i] = server'[i]
    <2>1. \A e \in DOMAIN events : events[e].id = i => e = 1
        BY <1>7, <1>9 DEF Pending
    <2>2. CASE i = events[1].id
        <3>1. 1 \in DOMAIN events /\ \A f \in DOMAIN events : events[f].id = events[1].id => f <= 1
            BY <1>2, <2>1, <2>2
        <3>2. events[1].object = server[events[1].id]
            BY <3>1 DEF CacheFollows
        <3>3. QED
            BY <1>4, <2>2, <3>2 DEF WatchEvent
    <2>3. CASE i # events[1].id
        <3>1. ~ Pending(i)
            BY <2>1, <2>3 DEF Pending
        <3>2. QED
            BY <1>4, <2>3, <3>1 DEF CacheFollows, WatchEvent
    <2>4. QED
        BY <2>2, <2>3
<1>10. ASSUME NEW e \in DOMAIN events',
              \A f \in DOMAIN events' : events'[f].id = events'[e].id => f <= e
       PROVE  events'[e].object = server'[events'[e].id]
    <2>1. e + 1 \in DOMAIN events /\ events'[e] = events[e + 1] /\ e \in Nat
        BY <1>2, <1>6
    <2>2. ASSUME NEW f \in DOMAIN events, events[f].id = events[e + 1].id PROVE f <= e + 1
        <3>1. CASE f = 1
            BY <2>1, <3>1
        <3>2. CASE f # 1
            <4>1. f - 1 \in DOMAIN events' /\ events'[f - 1] = events[f] /\ f \in Nat
                BY <1>2, <1>7, <3>2
            <4>2. f - 1 <= e
                BY <1>10, <2>1, <2>2, <4>1
            <4>3. QED
                BY <2>1, <4>1, <4>2
        <3>3. QED
            BY <3>1, <3>2
    <2>3. events[e + 1].object = server[events[e + 1].id]
        BY <2>1, <2>2 DEF CacheFollows
    <2>4. QED
        BY <2>1, <2>3 DEF WatchEvent
<1>11. CacheFollows'
    BY <1>9, <1>10 DEF CacheFollows
<1>12. \A i \in PEs : cache'[i] # Absent => Small(cache'[i])
    BY <1>2, <1>4 DEF AllSmall
<1>13. \A e \in DOMAIN events' : events'[e].object # Absent => Small(events'[e].object)
    BY <1>6 DEF AllSmall
<1>14. Head(events).id \in PEs /\ Pending(Head(events).id)
    BY <1>2, <1>3 DEF Pending
<1>15. QED
    BY <1>2, <1>5, <1>8, <1>11, <1>12, <1>13, <1>14

-----------------------------------------------------------------------------
(***************************************************************************)
(* Every step preserves the invariant.                                     *)
(***************************************************************************)
LEMMA NotSynced ==
    ASSUME pc' = "idle"
    PROVE  ListStillRight' /\ OutcomeRight'
BY DEF ListStillRight, OutcomeRight, Synced

\* Before the first reconcile nothing is published, cached or planned.
LEMMA InitInvariant == Init => IInv
<1> SUFFICES ASSUME Init PROVE IInv
    OBVIOUS
<1>1. TypeOK
    BY DEF Init, TypeOK
<1>2. AllSmall /\ CacheFollows
    BY DEF Init, AllSmall, CacheFollows
<1>3. ListStillRight /\ OutcomeRight
    BY DEF Init, ListStillRight, OutcomeRight, Synced
<1>4. QED
    BY <1>1, <1>2, <1>3 DEF IInv

\* A request keeps everything that does not speak of the lists.
LEMMA RequestInvariant ==
    ASSUME IInv, NEW id \in PEs, Request(id), cache' = cache,
           policy' = policy, queued' \in BOOLEAN, pc' \in {"idle", "writing"},
           goal' \in Policies \cup {Nothing}, pc' = "writing" => goal' \in Policies,
           todo' \in [PEs -> Work \cup {Nothing}],
           \A i \in PEs : todo'[i] = Nothing \/ todo'[i] = todo[i],
           stale' \subseteq PEs, moved' \subseteq PEs
    PROVE  TypeOK' /\ AllSmall' /\ CacheFollows'
<1>1. PICK value \in PESpec \cup {Absent} :
          /\ server' = [server EXCEPT ![id] = value]
          /\ events' = Append(events, [id |-> id, object |-> value])
          /\ value # Absent => Small(value)
    BY RequestEffect DEF IInv
<1>2. /\ server' \in [PEs -> PESpec \cup {Absent}]
      /\ events' \in Seq([id : PEs, object : PESpec \cup {Absent}])
      /\ CacheFollows'
      /\ \A i \in PEs : server'[i] # Absent => Small(server'[i])
      /\ \A e \in DOMAIN events' : events'[e].object # Absent => Small(events'[e].object)
    BY <1>1, AppendFollows DEF IInv
<1>3. TypeOK'
    BY <1>2 DEF IInv, TypeOK
<1>4. AllSmall'
    BY <1>2 DEF IInv, AllSmall
<1>5. QED
    BY <1>2, <1>3, <1>4

\* A change of the policy leaves the reconcile under way alone.
LEMMA ChangeInvariant ==
    ASSUME IInv, Change
    PROVE  IInv'
<1>1. policy' \in Policies /\ queued' = TRUE
    BY DEF Change
<1>2. /\ server' = server /\ cache' = cache /\ events' = events /\ pc' = pc /\ goal' = goal
      /\ todo' = todo /\ stale' = stale /\ moved' = moved
    BY DEF Change, worker
<1>3. TypeOK'
    BY <1>1, <1>2 DEF IInv, TypeOK
<1>4. AllSmall'
    BY <1>2 DEF IInv, AllSmall
<1>5. CacheFollows'
    BY <1>2 DEF IInv, CacheFollows, Pending
<1>6. ListStillRight'
    BY <1>2 DEF IInv, ListStillRight, Synced, Pending
<1>7. OutcomeRight'
    BY <1>2 DEF IInv, OutcomeRight, Synced, Remains, Outcome
<1>8. QED
    BY <1>3, <1>4, <1>5, <1>6, <1>7 DEF IInv

\* Computing the lists establishes that they lead to the goal.
LEMMA StartInvariant ==
    ASSUME IInv, StartReconcile
    PROVE  IInv'
<1>1. PICK rank, created, place :
          Choice(rank, created, place) /\ todo' = Plan(rank, created, place)
    BY ChoiceOfStart
<1>2. /\ todo' \in [PEs -> Work \cup {Nothing}]
      /\ \A id \in PEs : todo'[id] # Nothing => Small(todo'[id].spec)
    BY <1>1, PlanTyped DEF IInv
<1>3. TypeOK'
    BY <1>2 DEF IInv, TypeOK, StartReconcile
<1>4. AllSmall'
    BY <1>2 DEF IInv, AllSmall, StartReconcile
<1>5. CacheFollows'
    BY DEF IInv, CacheFollows, Pending, StartReconcile
<1>6. ListStillRight' /\ OutcomeRight'
    <2>1. CASE stale' = {}
        BY <2>1, PlanOutcome DEF IInv
    <2>2. CASE stale' # {}
        BY <2>2 DEF ListStillRight, OutcomeRight, Synced
    <2>3. QED
        BY <2>1, <2>2
<1>7. QED
    BY <1>3, <1>4, <1>5, <1>6 DEF IInv

\* A create, update or delete brings one endpoint to its planned state.
LEMMA WriteInvariant ==
    ASSUME IInv, NEW id \in PEs, Write(id)
    PROVE  IInv'
<1>1. /\ todo' = [todo EXCEPT ![id] = Nothing]
      /\ policy' = policy /\ queued' = queued /\ pc' = pc /\ goal' = goal /\ cache' = cache
      /\ stale' = stale /\ moved' = moved
      /\ Request(id)
    BY DEF Write
<1>2. /\ todo' \in [PEs -> Work \cup {Nothing}]
      /\ \A i \in PEs : todo'[i] = IF i = id THEN Nothing ELSE todo[i]
    BY <1>1 DEF IInv, TypeOK
<1>3. TypeOK' /\ AllSmall' /\ CacheFollows'
    BY <1>1, <1>2, RequestInvariant DEF IInv, TypeOK
<1>4. /\ todo[id] \in Work
      /\ \E value \in PESpec \cup {Absent} :
           /\ server' = [server EXCEPT ![id] = value]
           /\ events' = Append(events, [id |-> id, object |-> value])
           /\ value # Absent => Small(value)
           /\ value = Absent <=> todo[id].op = "delete"
           /\ Synced /\ value # Absent =>
                /\ value.isolation = todo[id].spec.isolation
                /\ PoliciesMergeable =>
                     \A k \in Kinds : Traffic(value.rules[k]) = Traffic(todo[id].spec.rules[k])
    BY <1>1, RequestEffect DEF IInv
<1>5. PICK value \in PESpec \cup {Absent} :
           /\ server' = [server EXCEPT ![id] = value]
           /\ events' = Append(events, [id |-> id, object |-> value])
           /\ value # Absent => Small(value)
           /\ value = Absent <=> todo[id].op = "delete"
           /\ Synced /\ value # Absent =>
                /\ value.isolation = todo[id].spec.isolation
                /\ PoliciesMergeable =>
                     \A k \in Kinds : Traffic(value.rules[k]) = Traffic(todo[id].spec.rules[k])
    BY <1>4
<1>6. \A i \in PEs : server'[i] = IF i = id THEN value ELSE server[i]
    BY <1>5 DEF IInv, TypeOK
<1>7. \A i \in PEs : Pending(i)' <=> Pending(i) \/ i = id
    BY <1>1, <1>5, AppendFollows DEF IInv
<1>8. Synced' = Synced /\ todo[id] # Nothing
    BY <1>1, <1>4, NothingIsNoWork DEF Synced
<1>9. ListStillRight'
    BY <1>1, <1>2, <1>6, <1>7, <1>8 DEF IInv, ListStillRight
<1>10. ASSUME Synced PROVE OutcomeRight'
    <2>1. ASSUME NEW i \in PEs PROVE Remains(i)' = Remains(i)
        <3>1. CASE i = id
            BY <1>2, <1>5, <1>6, <1>8, <3>1 DEF Remains
        <3>2. CASE i # id
            BY <1>2, <1>6, <3>2 DEF Remains
        <3>3. QED
            BY <3>1, <3>2
    <2>2. ASSUME NEW i \in PEs, Remains(i)
          PROVE  /\ Outcome(i)'.isolation = Outcome(i).isolation
                 /\ PoliciesMergeable => \A k \in Kinds :
                       Traffic(Outcome(i)'.rules[k]) = Traffic(Outcome(i).rules[k])
        <3>1. CASE i = id
            <4>1. value # Absent
                BY <1>5, <1>8, <2>2, <3>1 DEF Remains
            <4>2. Outcome(i)' = value /\ Outcome(i) = todo[id].spec
                BY <1>2, <1>6, <1>8, <3>1 DEF Outcome
            <4>3. QED
                BY <1>5, <1>10, <4>1, <4>2
        <3>2. CASE i # id
            <4>1. Outcome(i)' = Outcome(i)
                BY <1>2, <1>6, <3>2 DEF Outcome
            <4>2. QED
                BY <4>1
        <3>3. QED
            BY <3>1, <3>2
    <2>3. /\ \E i \in PEs : Remains(i)
          /\ \A i \in PEs : Remains(i) => Outcome(i).isolation = goal.isolation
          /\ PoliciesMergeable => \A k \in Kinds : \A t :
                t \in Traffic(goal.rules[k])
                  <=> \E i \in PEs : Remains(i) /\ t \in Traffic(Outcome(i).rules[k])
        BY <1>10 DEF IInv, OutcomeRight
    <2>4. \E i \in PEs : Remains(i)'
        BY <2>1, <2>3
    <2>5. \A i \in PEs : Remains(i)' => Outcome(i)'.isolation = goal'.isolation
        BY <1>1, <2>1, <2>2, <2>3
    <2>6. ASSUME PoliciesMergeable, NEW k \in Kinds, NEW t
          PROVE  t \in Traffic(goal'.rules[k])
                   <=> \E i \in PEs : Remains(i)' /\ t \in Traffic(Outcome(i)'.rules[k])
        <3>1. \A i \in PEs : Remains(i) =>
                  Traffic(Outcome(i)'.rules[k]) = Traffic(Outcome(i).rules[k])
            BY <2>2, <2>6
        <3>2. t \in Traffic(goal.rules[k])
                <=> \E i \in PEs : Remains(i) /\ t \in Traffic(Outcome(i).rules[k])
            BY <2>3, <2>6
        <3>3. QED
            BY <1>1, <2>1, <3>1, <3>2
    <2>7. QED
        BY <2>4, <2>5, <2>6 DEF OutcomeRight
<1>11. OutcomeRight'
    BY <1>8, <1>10 DEF OutcomeRight
<1>12. QED
    BY <1>3, <1>9, <1>11 DEF IInv

\* An update is left out only if the cached endpoint is what is planned.
LEMMA SkipInvariant ==
    ASSUME IInv, NEW id \in PEs, Skip(id)
    PROVE  IInv'
<1>1. /\ todo' = [todo EXCEPT ![id] = Nothing]
      /\ policy' = policy /\ queued' = queued /\ pc' = pc /\ goal' = goal /\ cache' = cache
      /\ stale' = stale /\ moved' = moved /\ server' = server /\ events' = events
      /\ cache[id] # Absent /\ todo[id] # Nothing /\ todo[id].op \in {"reuse", "modify"}
    BY DEF Skip, Turn
<1>2. /\ todo' \in [PEs -> Work \cup {Nothing}]
      /\ \A i \in PEs : todo'[i] = IF i = id THEN Nothing ELSE todo[i]
    BY <1>1 DEF IInv, TypeOK
<1>3. TypeOK'
    BY <1>1, <1>2 DEF IInv, TypeOK
<1>4. AllSmall'
    BY <1>1, <1>2 DEF IInv, AllSmall
<1>5. CacheFollows'
    BY <1>1 DEF IInv, CacheFollows, Pending
<1>6. Synced' = Synced /\ \A i \in PEs : Pending(i)' = Pending(i)
    BY <1>1 DEF Synced, Pending
<1>7. ListStillRight'
    BY <1>1, <1>2, <1>6 DEF IInv, ListStillRight
<1>8. ASSUME Synced PROVE OutcomeRight'
    <2>1. cache[id] = server[id]
        BY <1>1, <1>8 DEF IInv, ListStillRight, CacheFollows
    <2>2. PICK s \in Processed(todo[id].spec) : EqualSpec(server[id], s)
        BY <2>1 DEF Skip
    <2>3. todo[id].spec \in PESpec /\ Small(todo[id].spec) /\ server[id] \in PESpec
        BY <1>1, <2>1 DEF IInv, TypeOK, AllSmall, Work
    <2>4. /\ s \in PESpec
          /\ s.isolation = todo[id].spec.isolation
          /\ PoliciesMergeable =>
               \A k \in Kinds : Traffic(s.rules[k]) = Traffic(todo[id].spec.rules[k])
        BY <1>1, <1>8, <2>2, <2>3, ProcessedSpec DEF IInv, ListStillRight
    <2>5. \A k \in Kinds : Traffic(server[id].rules[k]) = Traffic(s.rules[k])
        <3>1. \A k \in Kinds : /\ server[id].rules[k] \subseteq Rule
                               /\ s.rules[k] \subseteq Rule
                               /\ Canonical(server[id].rules[k]) = Canonical(s.rules[k])
            BY <2>2, <2>3, <2>4 DEF EqualSpec, PESpec
        <3>2. QED
            BY <3>1, CanonicalTraffic
    <2>6. ASSUME NEW i \in PEs PROVE Remains(i)' = Remains(i)
        <3>1. CASE i = id
            BY <1>1, <1>2, <2>1, <3>1 DEF Remains
        <3>2. CASE i # id
            BY <1>1, <1>2, <3>2 DEF Remains
        <3>3. QED
            BY <3>1, <3>2
    <2>7. ASSUME NEW i \in PEs
          PROVE  /\ Outcome(i)'.isolation = Outcome(i).isolation
                 /\ PoliciesMergeable => \A k \in Kinds :
                       Traffic(Outcome(i)'.rules[k]) = Traffic(Outcome(i).rules[k])
        <3>1. CASE i = id
            <4>1. Outcome(i)' = server[id] /\ Outcome(i) = todo[id].spec
                BY <1>1, <1>2, <3>1 DEF Outcome
            <4>2. QED
                BY <2>2, <2>4, <2>5, <4>1 DEF EqualSpec
        <3>2. CASE i # id
            <4>1. Outcome(i)' = Outcome(i)
                BY <1>1, <1>2, <3>2 DEF Outcome
            <4>2. QED
                BY <4>1
        <3>3. QED
            BY <3>1, <3>2
    <2>8. QED
        BY <1>1, <1>8, <2>6, <2>7 DEF IInv, OutcomeRight
<1>9. OutcomeRight'
    BY <1>6, <1>8 DEF OutcomeRight
<1>10. QED
    BY <1>3, <1>4, <1>5, <1>7, <1>9 DEF IInv

\* Errors and restarts end the reconcile.
LEMMA AbortInvariant ==
    ASSUME IInv, Abort, server' = server, events' = events
    PROVE  IInv'
<1>1. TypeOK'
    BY DEF IInv, TypeOK, Abort
<1>2. AllSmall'
    BY DEF IInv, AllSmall, Abort
<1>3. CacheFollows'
    BY DEF IInv, CacheFollows, Pending, Abort
<1>4. ListStillRight' /\ OutcomeRight'
    BY NotSynced DEF Abort
<1>5. QED
    BY <1>1, <1>2, <1>3, <1>4 DEF IInv

\* A write without an answer ends the reconcile.
LEMMA AnswerLostInvariant ==
    ASSUME IInv, NEW id \in PEs, AnswerLost(id)
    PROVE  IInv'
<1>1. Request(id) /\ Abort
    BY DEF AnswerLost
<1>2. TypeOK' /\ AllSmall' /\ CacheFollows'
    BY <1>1, RequestInvariant DEF IInv, TypeOK, Abort
<1>3. ListStillRight' /\ OutcomeRight'
    BY <1>1, NotSynced DEF Abort
<1>4. QED
    BY <1>2, <1>3 DEF IInv

\* A restart begins with the cache in sync.
LEMMA RestartInvariant ==
    ASSUME IInv, Restart
    PROVE  IInv'
<1>1. TypeOK'
    BY DEF IInv, TypeOK, Restart
<1>2. AllSmall'
    BY DEF IInv, AllSmall, Restart
<1>3. CacheFollows'
    BY DEF CacheFollows, Restart
<1>4. ListStillRight' /\ OutcomeRight'
    BY NotSynced DEF Restart
<1>5. QED
    BY <1>1, <1>2, <1>3, <1>4 DEF IInv

\* The end of a reconcile forgets its goal.
LEMMA FinishInvariant ==
    ASSUME IInv, Finish
    PROVE  IInv'
<1>1. TypeOK'
    BY DEF IInv, TypeOK, Finish
<1>2. AllSmall'
    BY DEF IInv, AllSmall, Finish
<1>3. CacheFollows'
    BY DEF IInv, CacheFollows, Pending, Finish
<1>4. ListStillRight' /\ OutcomeRight'
    BY NotSynced DEF Finish
<1>5. QED
    BY <1>1, <1>2, <1>3, <1>4 DEF IInv

\* The cache follows the server one event at a time.
LEMMA WatchInvariant ==
    ASSUME IInv, WatchEvent
    PROVE  IInv'
<1>1. /\ cache' \in [PEs -> PESpec \cup {Absent}]
      /\ events' \in Seq([id : PEs, object : PESpec \cup {Absent}])
      /\ CacheFollows'
      /\ Head(events).id \in PEs /\ Pending(Head(events).id)
      /\ \A i \in PEs : Pending(i)' => Pending(i)
      /\ \A i \in PEs : cache'[i] # Absent => Small(cache'[i])
      /\ \A e \in DOMAIN events' : events'[e].object # Absent => Small(events'[e].object)
    BY WatchFollows DEF IInv
<1>2. /\ policy' = policy /\ queued' = queued /\ pc' = pc /\ goal' = goal /\ todo' = todo
      /\ server' = server /\ stale' = stale
      /\ moved' \subseteq moved \cup {Head(events).id}
    BY DEF WatchEvent
<1>3. TypeOK'
    BY <1>1, <1>2 DEF IInv, TypeOK
<1>4. AllSmall'
    BY <1>1, <1>2 DEF IInv, AllSmall
<1>5. ListStillRight'
    BY <1>1, <1>2 DEF IInv, ListStillRight, Synced
<1>6. OutcomeRight'
    BY <1>2 DEF IInv, OutcomeRight, Synced, Remains, Outcome
<1>7. QED
    BY <1>1, <1>3, <1>4, <1>5, <1>6 DEF IInv

\* A step that changes nothing.
LEMMA StutterInvariant ==
    ASSUME IInv, UNCHANGED vars
    PROVE  IInv'
BY DEF IInv, vars, TypeOK, AllSmall, CacheFollows, ListStillRight, OutcomeRight, Synced,
       Pending, Remains, Outcome

\* Every step keeps the invariant.
LEMMA InvariantStep == IInv /\ [Next]_vars => IInv'
<1> SUFFICES ASSUME IInv, [Next]_vars PROVE IInv'
    OBVIOUS
<1>1. CASE Change
    BY <1>1, ChangeInvariant
<1>2. CASE Fail
    BY <1>2, AbortInvariant DEF Fail
<1>3. CASE Restart
    BY <1>3, RestartInvariant
<1>4. CASE \E id \in PEs : AnswerLost(id)
    BY <1>4, AnswerLostInvariant
<1>5. CASE StartReconcile
    BY <1>5, StartInvariant
<1>6. CASE Finish
    BY <1>6, FinishInvariant
<1>7. CASE \E id \in PEs : Write(id)
    BY <1>7, WriteInvariant
<1>8. CASE \E id \in PEs : Skip(id)
    BY <1>8, SkipInvariant
<1>9. CASE \E id \in PEs : Refused(id)
    BY <1>9, AbortInvariant DEF Refused
<1>10. CASE WatchEvent
    BY <1>10, WatchInvariant
<1>11. CASE UNCHANGED vars
    BY <1>11, StutterInvariant
<1>12. QED
    BY <1>1, <1>2, <1>3, <1>4, <1>5, <1>6, <1>7, <1>8, <1>9, <1>10, <1>11
       DEF Next, Disturbance, Progress

\* The inductive invariant holds in every behaviour of the manager.
THEOREM ManagerInvariant == Spec => []IInv
<1>1. QED
    BY InitInvariant, InvariantStep, PTL DEF Spec

\* Every variable keeps its type, in particular every object that is written,
\* patched, merged or cached is a well-formed endpoint.
THEOREM ManagerTypeOK == Spec => []TypeOK
<1>1. IInv => TypeOK
    BY DEF IInv
<1>2. QED
    BY <1>1, ManagerInvariant, PTL

\* No endpoint outgrows the chunk size, however far the cache lags.
THEOREM ManagerChunksBounded == Spec => []ChunksBounded
<1>1. IInv => ChunksBounded
    BY DEF IInv, AllSmall, ChunksBounded, Live, Small
<1>2. QED
    BY <1>1, ManagerInvariant, PTL

\* When nothing is left to do, what is published is the outcome.
LEMMA ExactlyFromInvariant ==
    ASSUME PoliciesMergeable, IInv
    PROVE  PublishedExactly
<1> SUFFICES ASSUME Synced, \A id \in PEs : todo[id] = Nothing
             PROVE  /\ Live # {}
                    /\ \A k \in Kinds : Traffic(Published(k)) = Traffic(goal.rules[k])
                    /\ \A id \in Live : server[id].isolation = goal.isolation
    BY DEF PublishedExactly
<1>1. \A id \in PEs : (Remains(id) <=> id \in Live) /\ Outcome(id) = server[id]
    BY DEF Remains, Outcome, Live
<1>2. Live # {}
    BY <1>1 DEF IInv, OutcomeRight
<1>3. \A id \in Live : server[id].isolation = goal.isolation
    BY <1>1 DEF IInv, OutcomeRight, Live
<1>4. ASSUME NEW k \in Kinds PROVE Traffic(Published(k)) = Traffic(goal.rules[k])
    <2>1. \A t : t \in Traffic(goal.rules[k])
                   <=> \E id \in Live : t \in Traffic(server[id].rules[k])
        BY <1>1 DEF IInv, OutcomeRight, Live
    <2>2. \A t : t \in Traffic(Published(k))
                   <=> \E id \in Live : t \in Traffic(server[id].rules[k])
        BY InTraffic DEF Published
    <2>3. QED
        BY <2>1, <2>2
<1>5. QED
    BY <1>2, <1>3, <1>4

\* A reconcile of a policy whose entries can be merged, that is of any
\* NetworkPolicy or ApplicationNetworkPolicy and of a ClusterNetworkPolicy without
\* mixed entries, leaves exactly the policy published if it listed the endpoints
\* from a cache in sync.
THEOREM ManagerPublishesExactly ==
    ASSUME PoliciesMergeable
    PROVE  Spec => []PublishedExactly
<1>1. IInv => PublishedExactly
    BY ExactlyFromInvariant
<1>2. QED
    BY <1>1, ManagerInvariant, PTL

-----------------------------------------------------------------------------
(***************************************************************************)
(* Step by step.  IInv speaks of the end of a reconcile; on the way there, *)
(* an entry that is published and still wanted has an endpoint that has    *)
(* its traffic now and will have it when the lists are done.  Which        *)
(* endpoint that is was settled by the list: the first that had the entry. *)
(***************************************************************************)
WantedIsKept ==
    Synced /\ PoliciesMergeable =>
        \A k \in Kinds : \A i \in Live : todo[i] # Nothing =>
            \A r \in server[i].rules[k] \cap goal.rules[k] :
                \E j \in Live : /\ Remains(j)
                                /\ Covers(r) \subseteq Traffic(server[j].rules[k])
                                /\ Covers(r) \subseteq Traffic(Outcome(j).rules[k])

\* Whatever the cache missed, a reconcile plans for an endpoint only rules of
\* its policy, and the policy's isolation.
PlannedWanted ==
    pc = "writing" => \A id \in PEs : todo[id] # Nothing =>
        /\ todo[id].spec.isolation = goal.isolation
        /\ \A k \in Kinds : todo[id].spec.rules[k] \subseteq goal.rules[k]

\* What is published comes closer to the goal, or stays as it is; after an old
\* list wanted entries may go, but still nothing unwanted comes.
Isolated == {server[id].isolation : id \in Live}
Closer ==
    /\ \A k \in Kinds :
         /\ stale = {} => Traffic(Published(k) \cap goal.rules[k]) \subseteq Traffic(Published(k)')
         /\ Traffic(Published(k)') \subseteq Traffic(Published(k)) \cup Traffic(goal.rules[k])
    /\ Isolated' \subseteq Isolated \cup {goal.isolation}

\* A published entry is one of an endpoint.
LEMMA InPublished ==
    ASSUME NEW k
    PROVE  /\ \A r : r \in Published(k) <=> \E id \in Live : r \in server[id].rules[k]
           /\ \A t : t \in Traffic(Published(k)) <=> \E id \in Live : t \in Traffic(server[id].rules[k])
<1>1. \A r : r \in Published(k) <=> \E id \in Live : r \in server[id].rules[k]
    BY DEF Published
<1>2. QED
    BY <1>1, InTraffic

\* Nothing published changes.
LEMMA SameIsCloser ==
    ASSUME server' = server
    PROVE  Closer
<1>1. Live' = Live
    BY DEF Live
<1>2. Isolated' = Isolated /\ \A k \in Kinds : Published(k)' = Published(k)
    BY <1>1 DEF Isolated, Published
<1>3. \A A, B : Traffic(A \cap B) \subseteq Traffic(A)
    BY InTraffic
<1>4. QED
    BY <1>2, <1>3 DEF Closer

\* A written list holds rules of the goal only, or is the one the server had.
LEMMA RequestValue ==
    ASSUME IInv, PlannedWanted, PoliciesMergeable, NEW id \in PEs, Request(id)
    PROVE  \E value \in PESpec \cup {Absent} :
             /\ server' = [server EXCEPT ![id] = value]
             /\ value # Absent =>
                  /\ \A k \in Kinds : \/ Traffic(value.rules[k]) \subseteq Traffic(goal.rules[k])
                                      \/ server[id] # Absent /\ value.rules[k] = server[id].rules[k]
                  /\ \/ value.isolation = goal.isolation
                     \/ server[id] # Absent /\ value.isolation = server[id].isolation
<1>1. pc = "writing" /\ todo[id] # Nothing /\ todo[id] \in Work /\ goal \in Policies
    BY DEF Request, Turn, IInv, TypeOK
<1>2. todo[id].spec \in PESpec /\ Small(todo[id].spec) /\ todo[id].op \in Ops
    BY <1>1 DEF Work, IInv, AllSmall
<1>3. /\ todo[id].spec.isolation = goal.isolation
      /\ \A k \in Kinds : todo[id].spec.rules[k] \subseteq goal.rules[k]
    BY <1>1 DEF PlannedWanted
<1>4. Mergeable(todo[id].spec.rules["ingress"]) /\ Mergeable(todo[id].spec.rules["egress"])
    BY <1>1, <1>3 DEF PoliciesMergeable, Mergeable, Unmixed, Kinds
<1>5. ASSUME NEW s \in Processed(todo[id].spec)
      PROVE  /\ s \in PESpec /\ s # Absent
             /\ s.isolation = goal.isolation
             /\ \A k \in Kinds : Traffic(s.rules[k]) \subseteq Traffic(goal.rules[k])
    <2>1. /\ s \in PESpec /\ s.isolation = todo[id].spec.isolation
          /\ \A k \in Kinds : Traffic(s.rules[k]) = Traffic(todo[id].spec.rules[k])
        BY <1>2, <1>4, ProcessedSpec
    <2>2. \A k \in Kinds : Traffic(todo[id].spec.rules[k]) \subseteq Traffic(goal.rules[k])
        BY <1>3, InTraffic
    <2>3. QED
        BY <1>3, <2>1, <2>2, AbsentIsNoSpec
<1>6. CASE todo[id].op = "create"
    <2>1. PICK s \in Processed(todo[id].spec) : Stored(id, s)
        BY <1>6 DEF Request
    <2>2. QED
        BY <1>5, <2>1 DEF Stored
<1>7. CASE todo[id].op \in {"reuse", "modify"}
    <2>1. PICK s \in Processed(todo[id].spec), resent \in SUBSET {"ingress", "egress"} :
              Stored(id, IF IsCluster THEN s ELSE Patched(server[id], cache[id], s, resent))
        BY <1>7 DEF Request
    <2>2. server[id] \in PESpec /\ Small(server[id]) /\ server[id] # Absent
        BY <1>7 DEF Request, IInv, TypeOK, AllSmall
    <2>3. CASE IsCluster
        <3>1. Stored(id, s)
            BY <2>1, <2>3
        <3>2. QED
            BY <1>5, <3>1 DEF Stored
    <2>4. CASE ~ IsCluster
        <3> DEFINE value == Patched(server[id], cache[id], s, resent)
        <3>1. Stored(id, value)
            BY <2>1, <2>4
        <3>2. value \in PESpec
            BY <1>2, <1>5, <2>2, PatchedSmall, ProcessedSpec
        <3>3. \A k \in Kinds : value.rules[k] = s.rules[k] \/ value.rules[k] = server[id].rules[k]
            BY DEF Patched
        <3>4. value.isolation = s.isolation \/ value.isolation = server[id].isolation
            BY DEF Patched
        <3> HIDE DEF value
        <3>5. QED
            BY <1>5, <2>2, <3>1, <3>2, <3>3, <3>4 DEF Stored
    <2>5. QED
        BY <2>3, <2>4, ConstantsTyped
<1>8. CASE todo[id].op = "delete"
    <2>1. Stored(id, Absent)
        BY <1>8 DEF Request
    <2>2. QED
        BY <2>1 DEF Stored
<1>9. QED
    BY <1>2, <1>6, <1>7, <1>8 DEF Ops

\* No write publishes what is not wanted.
LEMMA RequestAddsNothing ==
    ASSUME IInv, PlannedWanted, PoliciesMergeable, NEW id \in PEs, Request(id)
    PROVE  /\ \A k \in Kinds :
                Traffic(Published(k)') \subseteq Traffic(Published(k)) \cup Traffic(goal.rules[k])
           /\ Isolated' \subseteq Isolated \cup {goal.isolation}
<1>1. PICK value \in PESpec \cup {Absent} :
         /\ server' = [server EXCEPT ![id] = value]
         /\ value # Absent =>
              /\ \A k \in Kinds : \/ Traffic(value.rules[k]) \subseteq Traffic(goal.rules[k])
                                  \/ server[id] # Absent /\ value.rules[k] = server[id].rules[k]
              /\ \/ value.isolation = goal.isolation
                 \/ server[id] # Absent /\ value.isolation = server[id].isolation
    BY RequestValue
<1>2. \A i \in PEs : server'[i] = IF i = id THEN value ELSE server[i]
    BY <1>1 DEF IInv, TypeOK
<1>3. \A i \in Live' : i \in PEs /\ server'[i] # Absent
    BY DEF Live
<1>4. ASSUME NEW i \in Live'
      PROVE  /\ \A k \in Kinds : \/ Traffic(server'[i].rules[k]) \subseteq Traffic(goal.rules[k])
                                 \/ i \in Live /\ server'[i].rules[k] = server[i].rules[k]
             /\ \/ server'[i].isolation = goal.isolation
                \/ i \in Live /\ server'[i].isolation = server[i].isolation
    <2>1. CASE i = id
        BY <1>1, <1>2, <1>3, <2>1 DEF Live
    <2>2. CASE i # id
        BY <1>2, <1>3, <2>2 DEF Live
    <2>3. QED
        BY <2>1, <2>2
<1>5. ASSUME NEW k \in Kinds, NEW t, t \in Traffic(Published(k)')
      PROVE  t \in Traffic(Published(k)) \cup Traffic(goal.rules[k])
    <2>1. PICK j \in Live' : t \in Traffic(server'[j].rules[k])
        <3>1. Published(k)' = UNION {server'[i].rules[k] : i \in Live'}
            BY DEF Published
        <3>2. QED
            BY <1>5, <3>1, InTraffic
    <2>2. QED
        BY <1>4, <2>1, InPublished
<1>6. Isolated' \subseteq Isolated \cup {goal.isolation}
    BY <1>4 DEF Isolated
<1>7. QED
    BY <1>5, <1>6

\* Each write brings what is published closer to the goal.
LEMMA RequestIsCloser ==
    ASSUME IInv, WantedIsKept, PlannedWanted, PoliciesMergeable, Synced, NEW id \in PEs, Request(id)
    PROVE  Closer
<1>1. PICK value \in PESpec \cup {Absent} :
           /\ server' = [server EXCEPT ![id] = value]
           /\ value = Absent <=> todo[id].op = "delete"
           /\ Synced /\ value # Absent =>
                /\ value.isolation = todo[id].spec.isolation
                /\ PoliciesMergeable =>
                     \A k \in Kinds : Traffic(value.rules[k]) = Traffic(todo[id].spec.rules[k])
    BY RequestEffect DEF IInv
<1>2. todo[id] # Nothing
    BY DEF Request, Turn
<1>3. \A i \in PEs : server'[i] = IF i = id THEN value ELSE server[i]
    BY <1>1 DEF IInv, TypeOK
<1>4. \A i \in PEs : i # id => (i \in Live' <=> i \in Live) /\ server'[i] = server[i]
    BY <1>3 DEF Live
<1>5. id \in Live' <=> Remains(id)
    BY <1>1, <1>2, <1>3 DEF Live, Remains
<1>6. Live \subseteq PEs /\ Live' \subseteq PEs
    BY DEF Live
<1>7. ASSUME Remains(id)
      PROVE  /\ server'[id].isolation = goal.isolation
             /\ \A k \in Kinds : Traffic(server'[id].rules[k]) = Traffic(Outcome(id).rules[k])
    <2>1. value # Absent /\ Outcome(id) = todo[id].spec /\ server'[id] = value
        BY <1>1, <1>2, <1>3, <1>7 DEF Remains, Outcome
    <2>2. Outcome(id).isolation = goal.isolation
        BY <1>7 DEF IInv, OutcomeRight
    <2>3. QED
        BY <1>1, <2>1, <2>2
<1>8. ASSUME NEW k \in Kinds, NEW t, t \in Traffic(Published(k) \cap goal.rules[k])
      PROVE  t \in Traffic(Published(k)')
    <2>0. SUFFICES \E j \in Live' : t \in Traffic(server'[j].rules[k])
        <3>1. Published(k)' = UNION {server'[i].rules[k] : i \in Live'}
            BY DEF Published
        <3>2. QED
            BY <3>1, InTraffic
    <2>1. PICK r \in Published(k) \cap goal.rules[k] : t \in Covers(r)
        BY <1>8, InTraffic
    <2>2. PICK i \in Live : r \in server[i].rules[k]
        BY <2>1, InPublished
    <2>3. CASE i # id
        BY <1>4, <1>6, <2>1, <2>2, <2>3, InTraffic
    <2>4. CASE i = id
        <3>1. PICK j \in Live : /\ Remains(j)
                                /\ Covers(r) \subseteq Traffic(server[j].rules[k])
                                /\ Covers(r) \subseteq Traffic(Outcome(j).rules[k])
            BY <1>2, <2>1, <2>2, <2>4 DEF WantedIsKept
        <3>2. CASE j # id
            BY <1>4, <1>6, <2>1, <3>1, <3>2
        <3>3. CASE j = id
            BY <1>5, <1>7, <2>1, <3>1, <3>3
        <3>4. QED
            BY <3>2, <3>3
    <2>5. QED
        BY <2>3, <2>4
<1>9. QED
    BY <1>8, RequestAddsNothing DEF Closer

\* The list settles which endpoint keeps an entry.
LEMMA StartKeepsWanted ==
    ASSUME IInv, StartReconcile
    PROVE  WantedIsKept'
<1> SUFFICES ASSUME stale' = {}, NEW k \in Kinds, NEW i \in Live',
                    NEW r \in server'[i].rules[k] \cap goal'.rules[k]
             PROVE  \E j \in Live' : /\ Remains(j)'
                                     /\ Covers(r) \subseteq Traffic(server'[j].rules[k])
                                     /\ Covers(r) \subseteq Traffic(Outcome(j)'.rules[k])
    BY DEF WantedIsKept, Synced
<1>1. PICK rank, created, place :
          Choice(rank, created, place) /\ todo' = Plan(rank, created, place)
    BY ChoiceOfStart
<1>2. server' = server /\ goal' = policy
    BY DEF StartReconcile
<1>3. \A id \in PEs : cache[id] = server[id]
    BY DEF StartReconcile, IInv, CacheFollows
<1>4. Existing = Live /\ Live' = Live /\ Live \subseteq PEs
    BY <1>2, <1>3 DEF Existing, Live
<1>5. PICK j \in Existing : r \in cache[j].rules[k] /\ r \in Contents(rank, place, j)[k]
    BY <1>1, <1>2, <1>3, <1>4, FirstHolderKeeps
<1>6. InUse(rank, created, place, j)
    BY <1>5 DEF InUse
<1>7. todo'[j] # Nothing /\ todo'[j].op # "delete" /\ todo'[j].spec = SpecFor(rank, place, j)
    BY <1>1, <1>4, <1>6, PlanEntry DEF IInv
<1>8. Remains(j)' /\ r \in Outcome(j)'.rules[k]
    BY <1>5, <1>7 DEF Remains, Outcome, SpecFor
<1>9. r \in server'[j].rules[k]
    BY <1>2, <1>3, <1>4, <1>5
<1>10. QED
    BY <1>4, <1>8, <1>9, InTraffic

\* A write of one endpoint leaves the keepers of the others' entries.
LEMMA WriteKeepsWanted ==
    ASSUME IInv, WantedIsKept, NEW id \in PEs, Write(id)
    PROVE  WantedIsKept'
<1> SUFFICES ASSUME Synced, PoliciesMergeable, NEW k \in Kinds, NEW i \in Live', todo'[i] # Nothing,
                    NEW r \in server'[i].rules[k] \cap goal.rules[k]
             PROVE  \E j \in Live' : /\ Remains(j)'
                                     /\ Covers(r) \subseteq Traffic(server'[j].rules[k])
                                     /\ Covers(r) \subseteq Traffic(Outcome(j)'.rules[k])
    BY DEF WantedIsKept, Synced, Write
<1>1. PICK value \in PESpec \cup {Absent} :
           /\ server' = [server EXCEPT ![id] = value]
           /\ value = Absent <=> todo[id].op = "delete"
           /\ Synced /\ value # Absent =>
                \A l \in Kinds : Traffic(value.rules[l]) = Traffic(todo[id].spec.rules[l])
    BY RequestEffect DEF IInv, Write
<1>2. todo[id] # Nothing
    BY DEF Write, Request, Turn
<1>3. \A a \in PEs : /\ server'[a] = IF a = id THEN value ELSE server[a]
                     /\ todo'[a] = IF a = id THEN Nothing ELSE todo[a]
    BY <1>1 DEF IInv, TypeOK, Write
<1>4. Live \subseteq PEs /\ Live' \subseteq PEs
    BY DEF Live
<1>5. \A a \in PEs : a # id => /\ (a \in Live' <=> a \in Live) /\ server'[a] = server[a]
                               /\ todo'[a] = todo[a]
                               /\ Remains(a)' = Remains(a) /\ Outcome(a)' = Outcome(a)
    BY <1>3 DEF Live, Remains, Outcome
<1>6. i # id
    BY <1>3, <1>4
<1>7. PICK j \in Live : /\ Remains(j)
                        /\ Covers(r) \subseteq Traffic(server[j].rules[k])
                        /\ Covers(r) \subseteq Traffic(Outcome(j).rules[k])
    BY <1>4, <1>5, <1>6 DEF WantedIsKept
<1>8. CASE j # id
    BY <1>4, <1>5, <1>7, <1>8
<1>9. CASE j = id
    <2>1. value # Absent /\ Outcome(id) = todo[id].spec
        BY <1>1, <1>2, <1>7, <1>9 DEF Remains, Outcome
    <2>2. id \in Live' /\ Remains(id)' /\ Outcome(id)' = value /\ server'[id] = value
        BY <1>3, <2>1 DEF Live, Remains, Outcome
    <2>3. Traffic(value.rules[k]) = Traffic(Outcome(id).rules[k])
        BY <1>1, <2>1
    <2>4. QED
        BY <1>7, <1>9, <2>2, <2>3
<1>10. QED
    BY <1>8, <1>9

\* So does leaving one as it is.
LEMMA SkipKeepsWanted ==
    ASSUME IInv, WantedIsKept, NEW id \in PEs, Skip(id)
    PROVE  WantedIsKept'
<1> SUFFICES ASSUME Synced, PoliciesMergeable, NEW k \in Kinds, NEW i \in Live', todo'[i] # Nothing,
                    NEW r \in server'[i].rules[k] \cap goal.rules[k]
             PROVE  \E j \in Live' : /\ Remains(j)'
                                     /\ Covers(r) \subseteq Traffic(server'[j].rules[k])
                                     /\ Covers(r) \subseteq Traffic(Outcome(j)'.rules[k])
    BY DEF WantedIsKept, Synced, Skip
<1>1. server' = server /\ Live' = Live /\ Live \subseteq PEs
    BY DEF Skip, Live
<1>2. \A a \in PEs : todo'[a] = IF a = id THEN Nothing ELSE todo[a]
    BY DEF IInv, TypeOK, Skip
<1>3. todo[i] # Nothing
    BY <1>1, <1>2
<1>4. PICK j \in Live : /\ Remains(j)
                        /\ Covers(r) \subseteq Traffic(server[j].rules[k])
                        /\ Covers(r) \subseteq Traffic(Outcome(j).rules[k])
    BY <1>1, <1>3 DEF WantedIsKept
<1>5. CASE j # id
    <2>1. Remains(j)' = Remains(j) /\ Outcome(j)' = Outcome(j)
        BY <1>1, <1>2, <1>5 DEF Remains, Outcome
    <2>2. QED
        BY <1>1, <1>4, <2>1
<1>6. CASE j = id
    <2>1. Remains(j)' /\ Outcome(j)' = server[j]
        BY <1>1, <1>2, <1>6 DEF Remains, Outcome, Live
    <2>2. QED
        BY <1>1, <1>4, <2>1
<1>7. QED
    BY <1>5, <1>6

\* The manager has a goal while it writes.
RoundOpen == goal = Nothing <=> pc = "idle"

RoundInv == IInv /\ WantedIsKept /\ PlannedWanted /\ RoundOpen

\* A plan speaks of the policy as it was resolved.
LEMMA StartPlansWanted ==
    ASSUME IInv, StartReconcile
    PROVE  PlannedWanted'
<1>1. PICK rank, created, place :
          Choice(rank, created, place) /\ todo' = Plan(rank, created, place)
    BY ChoiceOfStart
<1>2. goal' = policy
    BY DEF StartReconcile
<1>3. ASSUME NEW id \in PEs, todo'[id] # Nothing
      PROVE  todo'[id].spec = SpecFor(rank, place, id)
    BY <1>1, <1>3, PlanEntry DEF IInv
<1>4. \A id \in PEs : /\ SpecFor(rank, place, id).isolation = policy.isolation
                       /\ SpecFor(rank, place, id).rules = Contents(rank, place, id)
    BY DEF SpecFor
<1>5. QED
    BY <1>2, <1>3, <1>4, OnlyRulesPlanned DEF PlannedWanted

\* Work that is done is taken from the plan.
LEMMA LessPlanned ==
    ASSUME IInv, PlannedWanted, NEW id \in PEs, todo' = [todo EXCEPT ![id] = Nothing],
           pc' = pc, goal' = goal
    PROVE  PlannedWanted'
<1>1. \A i \in PEs : todo'[i] = IF i = id THEN Nothing ELSE todo[i]
    BY DEF IInv, TypeOK
<1>2. QED
    BY <1>1 DEF PlannedWanted

LEMMA RoundInit == Init => RoundInv
<1> SUFFICES ASSUME Init PROVE RoundInv
    OBVIOUS
<1>1. IInv
    BY InitInvariant
<1>2. WantedIsKept /\ PlannedWanted /\ RoundOpen
    BY DEF Init, WantedIsKept, PlannedWanted, Synced, RoundOpen
<1>3. QED
    BY <1>1, <1>2 DEF RoundInv

LEMMA RoundStep == RoundInv /\ [Next]_vars => RoundInv'
<1> SUFFICES ASSUME RoundInv, [Next]_vars PROVE RoundInv'
    OBVIOUS
<1>i. IInv /\ WantedIsKept /\ PlannedWanted /\ RoundOpen /\ IInv'
    BY InvariantStep DEF RoundInv
<1>a. ASSUME pc' = "idle", goal' = Nothing PROVE RoundInv'
    BY <1>i, <1>a DEF RoundInv, RoundOpen, WantedIsKept, PlannedWanted, Synced
<1>b. ASSUME UNCHANGED <<pc, goal, todo, server, stale>> PROVE RoundInv'
    <2>1. WantedIsKept'
        BY <1>i, <1>b DEF WantedIsKept, Synced, Live, Remains, Outcome
    <2>2. RoundOpen' /\ PlannedWanted'
        BY <1>i, <1>b DEF RoundOpen, PlannedWanted
    <2>3. QED
        BY <1>i, <2>1, <2>2 DEF RoundInv
<1>1. CASE Change
    BY <1>b, <1>1 DEF Change, worker
<1>2. CASE Fail
    BY <1>a, <1>2 DEF Fail, Abort
<1>3. CASE Restart
    BY <1>a, <1>3 DEF Restart
<1>4. CASE \E id \in PEs : AnswerLost(id)
    BY <1>a, <1>4 DEF AnswerLost, Abort
<1>5. CASE StartReconcile
    <2>1. WantedIsKept'
        BY <1>i, <1>5, StartKeepsWanted
    <2>2. pc' = "writing" /\ goal' \in Policies
        BY <1>i, <1>5 DEF StartReconcile, IInv, TypeOK
    <2>3. PlannedWanted'
        BY <1>i, <1>5, StartPlansWanted
    <2>4. QED
        BY <1>i, <2>1, <2>2, <2>3, NothingIsNoPolicy DEF RoundInv, RoundOpen
<1>6. CASE Finish
    BY <1>a, <1>6 DEF Finish
<1>7. ASSUME NEW id \in PEs, Write(id) PROVE RoundInv'
    <2>1. WantedIsKept'
        BY <1>i, <1>7, WriteKeepsWanted
    <2>2. RoundOpen'
        BY <1>i, <1>7 DEF Write, RoundOpen
    <2>3. PlannedWanted'
        BY <1>i, <1>7, LessPlanned DEF Write
    <2>4. QED
        BY <1>i, <2>1, <2>2, <2>3 DEF RoundInv
<1>8. ASSUME NEW id \in PEs, Skip(id) PROVE RoundInv'
    <2>1. WantedIsKept'
        BY <1>i, <1>8, SkipKeepsWanted
    <2>2. RoundOpen'
        BY <1>i, <1>8 DEF Skip, RoundOpen
    <2>3. PlannedWanted'
        BY <1>i, <1>8, LessPlanned DEF Skip
    <2>4. QED
        BY <1>i, <2>1, <2>2, <2>3 DEF RoundInv
<1>9. CASE \E id \in PEs : Refused(id)
    BY <1>a, <1>9 DEF Refused, Abort
<1>10. CASE WatchEvent
    BY <1>b, <1>10 DEF WatchEvent
<1>11. CASE UNCHANGED vars
    BY <1>b, <1>11 DEF vars
<1>12. QED
    BY <1>1, <1>2, <1>3, <1>4, <1>5, <1>6, <1>7, <1>8, <1>9, <1>10, <1>11
       DEF Next, Disturbance, Progress

\* A published entry that is still wanted always has an endpoint to keep it.
THEOREM ManagerRounds == Spec => []RoundInv
<1>1. QED
    BY RoundInit, RoundStep, PTL DEF Spec

\* Every step of a reconcile brings what is published closer to its goal, or
\* after an old list at least adds nothing to it.
LEMMA StepIsCloser ==
    ASSUME PoliciesMergeable, RoundInv, [Next]_vars, pc = "writing"
    PROVE  Closer
<1>1. ASSUME NEW id \in PEs, Request(id) PROVE Closer
    <2>1. CASE stale = {}
        BY <1>1, <2>1, RequestIsCloser DEF RoundInv, Synced
    <2>2. CASE stale # {}
        BY <1>1, <2>2, RequestAddsNothing DEF RoundInv, Closer
    <2>3. QED
        BY <2>1, <2>2
<1>2. CASE \E id \in PEs : Write(id) \/ AnswerLost(id)
    BY <1>1, <1>2 DEF Write, AnswerLost
<1>3. CASE ~ \E id \in PEs : Write(id) \/ AnswerLost(id)
    <2>1. server' = server
        BY <1>3 DEF Next, Disturbance, Progress, Change, worker, Fail, Restart, StartReconcile,
                    Finish, Skip, Refused, WatchEvent, vars
    <2>2. QED
        BY <2>1, SameIsCloser
<1>4. QED
    BY <1>2, <1>3

\* While the endpoints of a policy whose entries can be merged are replaced one
\* by one, the traffic of an entry that is published and still wanted stays
\* published if the list was up to date, and no step of any reconcile publishes
\* what is not wanted.
THEOREM ManagerPublishesStepwise ==
    ASSUME PoliciesMergeable
    PROVE  Spec => PublishedStepwise
<1>1. RoundInv /\ [Next]_vars =>
        [pc = "writing" =>
           \A k \in Kinds :
            /\ stale = {} => Traffic(Published(k) \cap goal.rules[k]) \subseteq Traffic(Published(k))'
            /\ Traffic(Published(k))' \subseteq Traffic(Published(k)) \cup Traffic(goal.rules[k])]_vars
    <2> SUFFICES ASSUME RoundInv, [Next]_vars, pc = "writing"
                 PROVE  \A k \in Kinds :
                          /\ stale = {} => Traffic(Published(k) \cap goal.rules[k]) \subseteq Traffic(Published(k))'
                          /\ Traffic(Published(k))' \subseteq Traffic(Published(k)) \cup Traffic(goal.rules[k])
        OBVIOUS
    <2>1. Closer
        BY StepIsCloser
    <2>2. QED
        BY <2>1 DEF Closer
<1>2. QED
    BY <1>1, ManagerRounds, PTL DEF Spec, PublishedStepwise

-----------------------------------------------------------------------------
(***************************************************************************)
(* The manager implements Publication.                                     *)
(***************************************************************************)
LEMMA AbstractTraffic == \A rules : Abstract!Traffic(rules) = Traffic(rules)
    BY DEF Abstract!Traffic, Traffic, Abstract!Covers, Covers, Abstract!PortsOf, PortsOf

\* A write of the manager is a move of the round.
LEMMA CloserApproaches ==
    ASSUME Closer
    PROVE  Abstract!Approach
<1>1. \A k \in Kinds :
        /\ [l \in Kinds |-> Published(l)][k] = Published(k)
        /\ [l \in Kinds |-> Published(l)]'[k] = Published(k)'
    OBVIOUS
<1>2. QED
    BY <1>1, AbstractTraffic DEF Closer, Isolated, Abstract!Approach

\* Steps that write nothing leave what is published.
LEMMA SamePublished ==
    ASSUME server' = server
    PROVE  UNCHANGED <<[k \in Kinds |-> Published(k)], {server[id].isolation : id \in Live}>>
<1>1. Live' = Live
    BY DEF Live
<1>2. QED
    BY <1>1 DEF Published

\* Before the first reconcile nothing is published, and a round is due.
LEMMA InitPublishes == Init => Abstract!Init
<1> SUFFICES ASSUME Init PROVE Abstract!Init
    OBVIOUS
<1>1. Live = {}
    BY DEF Init, Live
<1>2. (\A k \in Kinds : Published(k) = {}) /\ {server[id].isolation : id \in Live} = {}
    BY <1>1 DEF Published
<1>3. QED
    BY <1>2 DEF Init, Abstract!Init

\* A round ends with the policy published.
LEMMA FinishCompletes ==
    ASSUME PoliciesMergeable, IInv, Synced, \A id \in PEs : todo[id] = Nothing
    PROVE  Abstract!Complete(goal)
<1>1. /\ Live # {}
      /\ \A k \in Kinds : Traffic(Published(k)) = Traffic(goal.rules[k])
      /\ \A id \in Live : server[id].isolation = goal.isolation
    BY ExactlyFromInvariant DEF PublishedExactly
<1>2. {server[id].isolation : id \in Live} = {goal.isolation}
    BY <1>1
<1>3. \A k \in Kinds : [l \in Kinds |-> Published(l)][k] = Published(k)
    OBVIOUS
<1>4. QED
    BY <1>1, <1>2, <1>3, AbstractTraffic DEF Abstract!Complete

\* Every step of the manager is a step of Publication, or changes nothing there.
LEMMA StepPublishes ==
    ASSUME PoliciesMergeable, RoundInv, [Next]_vars
    PROVE  [Abstract!Next]_(Abstract!vars)
<1>i. TypeOK /\ IInv /\ (goal = Nothing <=> pc = "idle")
    BY DEF RoundInv, RoundOpen, IInv
<1>w. ASSUME pc = "writing" PROVE goal # Nothing /\ Abstract!Approach
    BY <1>i, <1>w, StepIsCloser, CloserApproaches
<1>g. ASSUME pc = "writing", Abort PROVE Abstract!Next
    BY <1>w, <1>g DEF Abort, Abstract!GiveUp, Abstract!Next
<1>s. ASSUME UNCHANGED <<policy, queued, goal, server, stale>> PROVE UNCHANGED Abstract!vars
    BY <1>s, SamePublished DEF Abstract!vars
<1>1. CASE Change
    <2>1. UNCHANGED <<goal, server, stale>> /\ queued' = TRUE /\ policy' \in Policies
        BY <1>1 DEF Change, worker
    <2>2. Abstract!Want
        BY <2>1, SamePublished DEF Abstract!Want
    <2>3. QED
        BY <2>2 DEF Abstract!Next
<1>2. CASE Fail
    BY <1>g, <1>2 DEF Fail, Turn
<1>3. CASE Restart
    <2>1. UNCHANGED <<policy, server>> /\ queued' = TRUE /\ goal' = Nothing /\ stale' = {}
        BY <1>3 DEF Restart
    <2>2. Abstract!Restart
        BY <2>1, SamePublished DEF Abstract!Restart
    <2>3. QED
        BY <2>2 DEF Abstract!Next
<1>4. CASE \E id \in PEs : AnswerLost(id)
    BY <1>g, <1>4 DEF AnswerLost, Request, Turn
<1>5. CASE StartReconcile
    <2>1. /\ UNCHANGED <<policy, server>> /\ queued' = FALSE /\ goal' = policy
          /\ goal = Nothing /\ queued
        BY <1>i, <1>5 DEF StartReconcile
    <2>2. Abstract!Begin
        BY <2>1, SamePublished DEF Abstract!Begin
    <2>3. QED
        BY <2>2 DEF Abstract!Next
<1>6. CASE Finish
    <2>1. /\ UNCHANGED <<policy, queued, server, stale>> /\ goal' = Nothing
          /\ pc = "writing" /\ \A id \in PEs : todo[id] = Nothing
        BY <1>6 DEF Finish
    <2>2. stale = {} => Abstract!Complete(goal)
        BY <1>i, <2>1, FinishCompletes DEF Synced
    <2>3. Abstract!Finish
        BY <1>w, <2>1, <2>2, SamePublished DEF Abstract!Finish
    <2>4. QED
        BY <2>3 DEF Abstract!Next
<1>7. CASE \E id \in PEs : Write(id)
    <2>1. UNCHANGED <<policy, queued, goal, stale>> /\ pc = "writing"
        BY <1>7 DEF Write, Request, Turn
    <2>2. Abstract!Move
        BY <1>w, <2>1 DEF Abstract!Move
    <2>3. QED
        BY <2>2 DEF Abstract!Next
<1>8. CASE \E id \in PEs : Skip(id)
    BY <1>s, <1>8 DEF Skip
<1>9. CASE \E id \in PEs : Refused(id)
    BY <1>g, <1>9 DEF Refused, Turn
<1>10. CASE WatchEvent
    BY <1>s, <1>10 DEF WatchEvent
<1>11. CASE UNCHANGED vars
    BY <1>s, <1>11 DEF vars
<1>12. QED
    BY <1>1, <1>2, <1>3, <1>4, <1>5, <1>6, <1>7, <1>8, <1>9, <1>10, <1>11
       DEF Next, Disturbance, Progress

\* Every reconcile of a policy whose entries can be merged is a round of
\* Publication, whatever the lag of the cache, and a sound one if the endpoints
\* it listed were up to date.
THEOREM ManagerImplementsPublication ==
    ASSUME PoliciesMergeable
    PROVE  Spec => ImplementsPublication
<1>1. RoundInv /\ [Next]_vars => [Abstract!Next]_(Abstract!vars)
    BY StepPublishes
<1>2. QED
    BY <1>1, InitPublishes, ManagerRounds, PTL DEF Spec, ImplementsPublication, Abstract!Spec
=============================================================================
