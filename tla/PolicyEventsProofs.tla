------------------------- MODULE PolicyEventsProofs -------------------------
(***************************************************************************)
(* No change gets lost on its way from the informers to a reconcile, for   *)
(* any number of waiting notifications and any channel, if the policy is a *)
(* ClusterNetworkPolicy or no edit moves it between the tracker's sets, no *)
(* change of a service is overlooked and the worker takes no policy from   *)
(* the tracker that it has not read.                                       *)
(***************************************************************************)
EXTENDS PolicyEvents, SequenceTheorems, TLAPS

\* The policy is found by listing, or the tracker has the same sets for all its
\* versions and the service handler's check overlooks no change.
Steady ==
    \/ IsCluster
    \/ (\A p, q \in Policy : Tracks(p) = Tracks(q)) /\ TRUE \notin Overlooked

\* The last notification for the policy event handler is the policy itself.
LastNote == policyNotes # <<>> => policyNotes[Len(policyNotes)] = policy

\* A set of the tracker holds the policy as it should.
Agrees(kind) == kind \in tracked <=> kind \in Tracks(policy)
Relied == Wanted /\ ~ IsCluster /\ ~ untracked

\* The tracker knows the policy, or is about to be told.
Known == Relied /\ policyNotes = <<>> => Agrees("namespaced") /\ Agrees("egress")

\* Its policy event handler is half done with that.
HalfKnown == Relied /\ "informer" \in halfway /\ Tail(policyNotes) = <<>> => Agrees("namespaced")

\* Something on its way will queue the key: a notification of the policy, or a
\* copy of it that a handler sends or has sent.
OnItsWay ==
    \/ queued
    \/ policyNotes # <<>>
    \/ channel # <<>>
    \/ \E h \in Handlers : sending[h] # Absent

\* A handler has yet to see a change in a place.
Unnoticed(place) ==
    \E h \in Handlers : \E e \in 1..Len(notes[h]) : notes[h][e].place = place

\* The reconcile that is running uses the input as it is now, or else the last
\* one that published did.
Used(input) == IF pc = "resolving" THEN input \in seen \cup unread ELSE input \in fresh

IInv ==
    /\ TypeOK
    /\ LastNote
    /\ Known /\ HalfKnown
    /\ untracked => ~ IsCluster
    /\ Wanted => OnItsWay \/ Used("policy")
    /\ \A place \in Places :
         Wanted /\ ~ untracked /\ Depends(policy, place) =>
             OnItsWay \/ Unnoticed(place) \/ Used(place)

-----------------------------------------------------------------------------
\* Taking the first entry of a sequence leaves one that ends alike.
LEMMA TailFacts ==
    ASSUME NEW S, NEW q \in Seq(S), q # <<>>
    PROVE  /\ Head(q) \in S /\ Tail(q) \in Seq(S)
           /\ Tail(q) = <<>> => Head(q) = q[Len(q)]
           /\ Tail(q) # <<>> => Tail(q)[Len(Tail(q))] = q[Len(q)]
           /\ \A e \in 1..Len(q) : q[e] = Head(q) \/ \E f \in 1..Len(Tail(q)) : Tail(q)[f] = q[e]
<1>1. /\ Head(q) \in S /\ Tail(q) \in Seq(S)
      /\ Len(Tail(q)) = Len(q) - 1
      /\ \A e \in 1..Len(Tail(q)) : Tail(q)[e] = q[e + 1]
    BY HeadTailProperties, Zenon
<1>2. Len(q) \in Nat \ {0} /\ Head(q) = q[1]
    BY EmptySeq
<1>3. Tail(q) = <<>> => Head(q) = q[Len(q)]
    <2>1. Len(<<>>) = 0
        OBVIOUS
    <2>2. Tail(q) = <<>> => Len(q) - 1 = 0
        BY <1>1, <2>1, Zenon
    <2>3. Len(q) - 1 = 0 => Len(q) = 1
        BY <1>2
    <2>4. QED
        BY <1>2, <2>2, <2>3, Zenon
<1>4. Tail(q) # <<>> => Len(Tail(q)) \in 1..Len(Tail(q))
    BY <1>1, <1>2
<1>5. ASSUME NEW e \in 1..Len(q), e # 1
      PROVE  \E f \in 1..Len(Tail(q)) : Tail(q)[f] = q[e]
    <2>1. e - 1 \in 1..Len(Tail(q)) /\ (e - 1) + 1 = e
        BY <1>1, <1>2, <1>5
    <2>2. QED
        BY <1>1, <2>1
<1>6. Tail(q) # <<>> => Tail(q)[Len(Tail(q))] = q[Len(q)]
    <2>1. (Len(q) - 1) + 1 = Len(q)
        BY <1>2
    <2>2. QED
        BY <1>1, <1>4, <2>1, Zenon
<1>7. ASSUME NEW e \in 1..Len(q)
      PROVE  q[e] = Head(q) \/ \E f \in 1..Len(Tail(q)) : Tail(q)[f] = q[e]
    BY <1>2, <1>5, Zenon
<1>8. QED
    BY <1>1, <1>3, <1>6, <1>7, Zenon

\* Appending to a sequence makes it non-empty, and the entry is the last.
LEMMA AppendFacts ==
    ASSUME NEW S, NEW q \in Seq(S), NEW x \in S
    PROVE  /\ Append(q, x) \in Seq(S)
           /\ Append(q, x) # <<>>
           /\ Append(q, x)[Len(Append(q, x))] = x
           /\ \A e \in 1..Len(q) : e \in 1..Len(Append(q, x)) /\ Append(q, x)[e] = q[e]
OBVIOUS

\* Sequences of no entry and of one have their types.
LEMMA ShortSequences ==
    ASSUME NEW S
    PROVE  <<>> \in Seq(S) /\ \A x \in S : <<x>> \in Seq(S) /\ <<x>> # <<>>
                                            /\ <<x>>[Len(<<x>>)] = x
OBVIOUS

\* What the tracker records of a policy is some of its sets.
LEMMA TracksType == \A object : Tracks(object) \subseteq {"namespaced", "egress"}
BY DEF Tracks

\* The initial state is typed.
LEMMA InitTyped == Init => TypeOK
<1> SUFFICES ASSUME Init PROVE TypeOK
    OBVIOUS
<1>1. /\ policyNotes \in Seq(Policy \cup {Absent})
      /\ \A h \in Handlers : notes[h] \in Seq(Note(h))
      /\ notes = [h \in Handlers |-> notes[h]]
      /\ channel \in Seq(Policy)
    BY ShortSequences, Zenon DEF Init
<1>2. QED
    BY <1>1, Zenon DEF Init, TypeOK

\* A write to the tracker.
LEMMA TrackFacts ==
    ASSUME TypeOK, NEW w \in Writers, NEW kind \in {"namespaced", "egress"}, Track(w, kind)
    PROVE  /\ tracked' \subseteq {"namespaced", "egress"} /\ untracked' \in BOOLEAN
           /\ kind \in tracked' <=> Written(w) # Absent /\ kind \in Tracks(Written(w))
           /\ \A other \in {"namespaced", "egress"} :
                other # kind => (other \in tracked' <=> other \in tracked)
<1> DEFINE object == Written(w)
           sets == IF object = Absent THEN {} ELSE Tracks(object) \cap {kind}
<1>1. tracked' = (tracked \ {kind}) \cup sets /\ untracked' \in BOOLEAN
    BY Zenon DEF Track
<1>2. sets \subseteq {kind} /\ (kind \in sets <=> object # Absent /\ kind \in Tracks(object))
    BY Zenon
<1>3. tracked \subseteq {"namespaced", "egress"}
    BY Zenon DEF TypeOK
<1> HIDE DEF sets, object
<1>4. /\ tracked' \subseteq {"namespaced", "egress"}
      /\ kind \in tracked' <=> kind \in sets
      /\ \A other \in {"namespaced", "egress"} :
            other # kind => (other \in tracked' <=> other \in tracked)
    BY <1>1, <1>2, <1>3
<1>5. QED
    BY <1>1, <1>2, <1>4, Zenon DEF object

\* What a writer writes to the tracker is a policy or none.
LEMMA WrittenType ==
    ASSUME TypeOK, NEW w \in Writers, Writing(w)
    PROVE  Written(w) \in Policy \cup {Absent} /\ (w = "channel" => Written(w) \in Policy)
<1>1. CASE w = "informer"
    <2>1. policyNotes # <<>> /\ Written(w) = Head(policyNotes)
        BY <1>1 DEF Writing, Written
    <2>2. Head(policyNotes) \in Policy \cup {Absent}
        BY <2>1, TailFacts, Zenon DEF TypeOK
    <2>3. QED
        BY <1>1, <2>1, <2>2
<1>2. CASE w = "channel"
    <2>1. channel # <<>> /\ Written(w) = Head(channel)
        BY <1>2 DEF Writing, Written
    <2>2. Head(channel) \in Policy
        BY <2>1, TailFacts, Zenon DEF TypeOK
    <2>3. QED
        BY <2>1, <2>2
<1>3. CASE w = "worker"
    BY <1>3 DEF Written
<1>4. QED
    BY <1>1, <1>2, <1>3 DEF Writers

\* The three groups of variables.
USE DEF informers, tracker, worker

\* Every step keeps the types.
LEMMA StepTyped ==
    ASSUME TypeOK, [Next]_vars
    PROVE  TypeOK'
<1>1. CASE ChangePolicy
    <2>1. policy' \in Policy \cup {Absent} /\ held' \in BOOLEAN
        BY <1>1 DEF ChangePolicy, TypeOK
    <2>2. policyNotes' = Append(policyNotes, policy')
        BY <1>1, Zenon DEF ChangePolicy
    <2>3. policyNotes \in Seq(Policy \cup {Absent})
        BY Zenon DEF TypeOK
    <2>4. policyNotes' \in Seq(Policy \cup {Absent}) /\ policyNotes' # <<>>
        BY <2>1, <2>2, <2>3, AppendFacts
    <2>5. \A w \in halfway : Writing(w)'
        BY <1>1, <2>4, Zenon DEF TypeOK, Writing, ChangePolicy
    <2>6. QED
        BY <1>1, <2>1, <2>4, <2>5 DEF TypeOK, ChangePolicy, Changed
<1>2. ASSUME NEW h \in Handlers, NEW note \in Note(h), ChangeWorld(h, note) PROVE TypeOK'
    <2> DEFINE longer == Append(notes[h], note)
    <2>1. longer \in Seq(Note(h))
        BY AppendFacts DEF TypeOK
    <2>2. notes' = [notes EXCEPT ![h] = longer]
        BY <1>2 DEF ChangeWorld
    <2> HIDE DEF longer
    <2>3. /\ notes' = [g \in Handlers |-> notes'[g]] /\ notes'[h] = longer
          /\ \A g \in Handlers : g # h => notes'[g] = notes[g]
        BY <2>2 DEF TypeOK
    <2>4. \A g \in Handlers : notes'[g] \in Seq(Note(g))
        BY <2>1, <2>3, Zenon DEF TypeOK
    <2>5. \A w \in halfway : Writing(w)'
        BY <1>2, Zenon DEF TypeOK, Writing, ChangeWorld
    <2>6. QED
        BY <1>2, <2>3, <2>4, <2>5 DEF TypeOK, ChangeWorld, Changed
<1>3. ASSUME NEW w \in Writers, TrackNamespaces(w) PROVE TypeOK'
    <2>1. tracked' \subseteq {"namespaced", "egress"} /\ untracked' \in BOOLEAN
        BY <1>3, TrackFacts, Zenon DEF TrackNamespaces
    <2>2. halfway' \subseteq Writers /\ \A v \in halfway' : Writing(v)
        BY <1>3 DEF TrackNamespaces, TypeOK
    <2>3. \A v \in halfway' : Writing(v)'
        BY <1>3, <2>2, Zenon DEF TrackNamespaces, Writing
    <2>4. QED
        BY <1>3, <2>1, <2>2, <2>3 DEF TypeOK, TrackNamespaces
<1>4. CASE HandlePolicy
    <2>1. Writing("informer") /\ TrackEgress("informer") /\ "informer" \in Writers
        BY <1>4 DEF HandlePolicy, TypeOK, TrackEgress, Writers
    <2>2. Tail(policyNotes) \in Seq(Policy \cup {Absent})
        <3>1. policyNotes # <<>>
            BY <2>1 DEF Writing
        <3>2. QED
            BY <3>1, TailFacts, Zenon DEF TypeOK
    <2>3. tracked' \subseteq {"namespaced", "egress"} /\ untracked' \in BOOLEAN
        BY <2>1, TrackFacts, Zenon DEF TrackEgress
    <2>4. /\ halfway' \subseteq Writers /\ "informer" \notin halfway'
          /\ \A v \in halfway' : Writing(v)
        BY <2>1 DEF TrackEgress, TypeOK
    <2>5. \A v \in halfway' : Writing(v)'
        BY <1>4, <2>4, Zenon DEF HandlePolicy, Writing
    <2>6. queued' \in BOOLEAN
        BY <1>4, Zenon DEF HandlePolicy
    <2>7. QED
        BY <1>4, <2>2, <2>3, <2>4, <2>5, <2>6 DEF TypeOK, HandlePolicy
<1>5. ASSUME NEW h \in Handlers, FindPolicies(h) PROVE TypeOK'
    <2>1. notes[h] \in Seq(Note(h)) /\ notes[h] # <<>>
        BY <1>5 DEF TypeOK, FindPolicies
    <2>2. Tail(notes[h]) \in Seq(Note(h))
        BY <2>1, TailFacts, Zenon
    <2>3. /\ notes' = [g \in Handlers |-> notes'[g]] /\ notes'[h] = Tail(notes[h])
          /\ \A g \in Handlers : g # h => notes'[g] = notes[g]
        BY <1>5 DEF FindPolicies, TypeOK
    <2>4. \A g \in Handlers : notes'[g] \in Seq(Note(g))
        BY <2>2, <2>3, Zenon DEF TypeOK
    <2>5. sending' \in [Handlers -> Policy \cup {Absent}]
        BY <1>5 DEF FindPolicies, TypeOK
    <2>6. \A w \in halfway : Writing(w)'
        BY <1>5, Zenon DEF TypeOK, Writing, FindPolicies
    <2>7. QED
        BY <1>5, <2>3, <2>4, <2>5, <2>6 DEF TypeOK, FindPolicies
<1>6. ASSUME NEW h \in Handlers, Send(h) PROVE TypeOK'
    <2>1. sending[h] \in Policy /\ channel \in Seq(Policy)
        BY <1>6 DEF TypeOK, Send
    <2>2. channel' \in Seq(Policy) /\ channel' # <<>>
        BY <1>6, <2>1, AppendFacts DEF Send
    <2>3. sending' \in [Handlers -> Policy \cup {Absent}]
        BY <1>6 DEF TypeOK, Send
    <2>4. \A w \in halfway : Writing(w)'
        BY <1>6, <2>2, Zenon DEF TypeOK, Writing, Send
    <2>5. QED
        BY <1>6, <2>2, <2>3, <2>4 DEF TypeOK, Send
<1>7. CASE HandleGeneric
    <2>1. Writing("channel") /\ TrackEgress("channel") /\ "channel" \in Writers
        BY <1>7 DEF HandleGeneric, TypeOK, TrackEgress, Writers
    <2>2. Tail(channel) \in Seq(Policy)
        <3>1. channel # <<>>
            BY <2>1 DEF Writing
        <3>2. QED
            BY <3>1, TailFacts, Zenon DEF TypeOK
    <2>3. tracked' \subseteq {"namespaced", "egress"} /\ untracked' \in BOOLEAN
        BY <2>1, TrackFacts, Zenon DEF TrackEgress
    <2>4. /\ halfway' \subseteq Writers /\ "channel" \notin halfway'
          /\ \A v \in halfway' : Writing(v)
        BY <2>1 DEF TrackEgress, TypeOK
    <2>5. \A v \in halfway' : Writing(v)'
        BY <1>7, <2>4, Zenon DEF HandleGeneric, Writing
    <2>6. QED
        BY <1>7, <2>2, <2>3, <2>4, <2>5 DEF TypeOK, HandleGeneric
<1>8. CASE Take
    <2>1. /\ policyNotes' = policyNotes /\ channel' = channel /\ halfway' = halfway
          /\ pc # "cleaning"
        BY <1>8 DEF Take
    <2>2. \A w \in halfway : Writing(w)'
        BY <2>1, Zenon DEF TypeOK, Writing
    <2>3. /\ pc' \in {"idle", "resolving", "cleaning", "releasing"}
          /\ unread' \subseteq Places /\ seen' \subseteq Inputs /\ finalizer' \in BOOLEAN
        BY <1>8 DEF Take, TypeOK, Inputs
    <2>4. QED
        BY <1>8, <2>2, <2>3 DEF Take, TypeOK
<1>9. CASE Untrack
    <2>1. TrackEgress("worker") /\ "worker" \in Writers
        BY <1>9 DEF Untrack, Writers
    <2>2. tracked' \subseteq {"namespaced", "egress"} /\ untracked' \in BOOLEAN
        BY <2>1, TrackFacts, Zenon DEF TrackEgress
    <2>3. /\ halfway' \subseteq Writers /\ "worker" \notin halfway'
          /\ \A v \in halfway' : Writing(v)
        BY <2>1 DEF TrackEgress, TypeOK
    <2>4. \A v \in halfway' : Writing(v)'
        BY <1>9, <2>3, Zenon DEF Untrack, Writing
    <2>5. QED
        BY <1>9, <2>2, <2>3, <2>4 DEF TypeOK, Untrack
<1>10. CASE Release \/ Publish \/ Fail \/ \E place \in Places : Read(place)
    <2>1. /\ policyNotes' = policyNotes /\ channel' = channel /\ halfway' = halfway
          /\ pc = "cleaning" => pc' = "cleaning"
        BY <1>10 DEF Release, Publish, Fail, Read
    <2>2. \A w \in halfway : Writing(w)'
        BY <2>1, Zenon DEF TypeOK, Writing
    <2>3. QED
        BY <1>10, <2>2 DEF TypeOK, Release, Publish, Fail, Read, Inputs
<1>11. CASE ReceiveFinalizer
    <2>1. \A w \in halfway : Writing(w)'
        BY <1>11, Zenon DEF TypeOK, Writing, ReceiveFinalizer
    <2>2. QED
        BY <1>11, <2>1 DEF TypeOK, ReceiveFinalizer
<1>12. CASE Restart
    <2>1. <<>> \in Seq(Policy) /\ \A h \in Handlers : <<>> \in Seq(Note(h))
        BY ShortSequences, Zenon
    <2>2. /\ channel' \in Seq(Policy) /\ notes' = [h \in Handlers |-> notes'[h]]
          /\ \A h \in Handlers : notes'[h] \in Seq(Note(h))
        BY <1>12, <2>1, Zenon DEF Restart
    <2>3. sending' \in [Handlers -> Policy \cup {Absent}]
        BY <1>12, Zenon DEF Restart
    <2>4. policyNotes' \in Seq(Policy \cup {Absent})
        BY <1>12, ShortSequences, Zenon DEF Restart, TypeOK
    <2>5. held' \in BOOLEAN /\ halfway' \subseteq Writers /\ \A w \in halfway' : Writing(w)'
        BY <1>12, Zenon DEF Restart
    <2>6. QED
        BY <1>12, <2>2, <2>3, <2>4, <2>5 DEF Restart, TypeOK
<1>13. CASE UNCHANGED vars
    BY <1>13 DEF vars, TypeOK, Writing
<1>14. QED
    BY <1>1, <1>2, <1>3, <1>4, <1>5, <1>6, <1>7, <1>8, <1>9, <1>10, <1>11, <1>12, <1>13, Zenon
       DEF Next, Disturbance, Calm, Worker, Informer, Receiver, Writers

\* Every variable keeps its type, for all policies and all edits of them.
THEOREM EventsTypeOK == Spec => []TypeOK
<1>1. TypeOK /\ [Next]_vars => TypeOK'
    BY StepTyped
<1>2. QED
    BY <1>1, InitTyped, PTL DEF Spec

\* A step leaves the policy, the tracker and what is on its way alone.
SameKnowledge ==
    /\ policy' = policy /\ untracked' = untracked
    /\ Wanted' = Wanted /\ OnItsWay' = OnItsWay
    /\ LastNote' = LastNote /\ Known' = Known /\ HalfKnown' = HalfKnown

\* The initial state has no policy.
LEMMA InitIInv == Init => IInv
<1> SUFFICES ASSUME Init PROVE IInv
    OBVIOUS
<1>1. TypeOK
    BY InitTyped
<1>2. QED
    BY <1>1 DEF Init, IInv, LastNote, Known, HalfKnown, Relied, Wanted

\* Each step of an informer keeps the invariant: what has changed is noted.
LEMMA InformerIInv ==
    ASSUME IInv, TypeOK', ChangePolicy \/ \E h \in Handlers : \E note \in Note(h) : ChangeWorld(h, note)
    PROVE  IInv'
<1>1. TypeOK
    BY DEF IInv
<1>2. CASE ChangePolicy
    <2>1. policy' \in Policy \cup {Absent}
        BY <1>2, Zenon DEF ChangePolicy
    <2>2. /\ policyNotes' \in Seq(Policy \cup {Absent})
          /\ policyNotes' # <<>>
          /\ policyNotes'[Len(policyNotes')] = policy'
        <3>1. policyNotes' = Append(policyNotes, policy')
            BY <1>2, Zenon DEF ChangePolicy
        <3>2. policyNotes \in Seq(Policy \cup {Absent})
            BY <1>1, Zenon DEF TypeOK
        <3>3. QED
            BY <2>1, <3>1, <3>2, AppendFacts
    <2>3. "informer" \in halfway' => Tail(policyNotes') # <<>>
        <3>1. /\ policyNotes' = Append(policyNotes, policy') /\ halfway' = halfway
            BY <1>2, Zenon DEF ChangePolicy
        <3>2. "informer" \in halfway => policyNotes # <<>>
            BY <1>1 DEF TypeOK, Writing
        <3>3. policyNotes \in Seq(Policy \cup {Absent})
            BY <1>1, Zenon DEF TypeOK
        <3>4. QED
            BY <2>1, <3>1, <3>2, <3>3
    <2>4. OnItsWay' /\ LastNote' /\ Known' /\ HalfKnown'
        BY <2>2, <2>3, Zenon DEF OnItsWay, LastNote, Known, HalfKnown
    <2>5. untracked' = untracked
        BY <1>2, Zenon DEF ChangePolicy
    <2>6. QED
        BY <2>4, <2>5, Zenon DEF IInv
<1>3. ASSUME NEW h \in Handlers, NEW note \in Note(h), ChangeWorld(h, note)
      PROVE  IInv'
    <2> DEFINE longer == Append(notes[h], note)
    <2>1. notes[h] \in Seq(Note(h)) /\ note.place \in Places
        BY <1>1 DEF TypeOK, Note
    <2>2. /\ longer \in Seq(Note(h)) /\ longer # <<>>
          /\ longer[Len(longer)] = note /\ Len(longer) \in 1..Len(longer)
          /\ \A e \in 1..Len(notes[h]) : e \in 1..Len(longer) /\ longer[e] = notes[h][e]
        BY <2>1, AppendFacts
    <2>3. notes' = [notes EXCEPT ![h] = longer]
        BY <1>3 DEF ChangeWorld
    <2> HIDE DEF longer
    <2>4. /\ notes' = [g \in Handlers |-> notes'[g]] /\ notes'[h] = longer
          /\ \A g \in Handlers : g # h => notes'[g] = notes[g]
        BY <1>1, <2>3 DEF TypeOK
    <2>6. Unnoticed(note.place)'
        BY <2>2, <2>4, Zenon DEF Unnoticed
    <2>7. ASSUME NEW other \in Places, Unnoticed(other)
          PROVE  Unnoticed(other)'
        <3>1. PICK g \in Handlers : \E e \in 1..Len(notes[g]) : notes[g][e].place = other
            BY <2>7, Zenon DEF Unnoticed
        <3>2. PICK e \in 1..Len(notes[g]) : notes[g][e].place = other
            BY <3>1
        <3>3. e \in 1..Len(notes'[g]) /\ notes'[g][e] = notes[g][e]
            BY <2>2, <2>4
        <3>4. QED
            BY <3>2, <3>3, Zenon DEF Unnoticed
    <2>8. \A input \in Inputs : input # note.place /\ Used(input) => Used(input)'
        BY <1>3 DEF Used, ChangeWorld, Changed
    <2>9. SameKnowledge
        BY <1>3, Zenon DEF ChangeWorld, SameKnowledge, Wanted, OnItsWay, LastNote, Known,
                           HalfKnown, Relied, Agrees
    <2>10. "policy" # note.place /\ "policy" \in Inputs /\ Places \subseteq Inputs
        BY <2>1, EventsTyped DEF AllPlaces, Inputs
    <2>11. QED
        BY <2>6, <2>7, <2>8, <2>9, <2>10, Zenon DEF IInv, SameKnowledge
<1>4. QED
    BY <1>2, <1>3

\* A write to the tracker leaves the policy in its sets, but for the worker's.
LEMMA WritesAgree ==
    ASSUME TypeOK, Steady, policy' = policy, Relied', NEW w \in Writers, Writing(w),
           NEW kind \in {"namespaced", "egress"}, Track(w, kind)
    PROVE  /\ Relied /\ w # "worker"
           /\ Written(w) # Absent => Agrees(kind)'
           /\ \A other \in {"namespaced", "egress"} :
                other # kind /\ Agrees(other) => Agrees(other)'
<1>1. Wanted /\ Wanted' /\ ~ IsCluster /\ ~ untracked'
    BY Zenon DEF Relied, Wanted
<1>2. Relied /\ w # "worker"
    BY <1>1, Zenon DEF Track, Relied
<1>3. Tracks(policy') = Tracks(policy)
    BY Zenon
<1>4. policy \in Policy
    BY <1>1 DEF TypeOK, Wanted
<1>5. ASSUME Written(w) # Absent PROVE Agrees(kind)'
    <2>1. Written(w) \in Policy
        BY <1>5, WrittenType, Zenon
    <2>2. Tracks(Written(w)) = Tracks(policy)
        BY <1>1, <1>4, <2>1, Zenon DEF Steady
    <2>3. kind \in tracked' <=> kind \in Tracks(policy)
        BY <1>5, <2>2, TrackFacts, Zenon
    <2>4. QED
        BY <1>3, <2>3, Zenon DEF Agrees
<1>6. ASSUME NEW other \in {"namespaced", "egress"}, other # kind, Agrees(other)
      PROVE  Agrees(other)'
    <2>1. other \in tracked' <=> other \in tracked
        BY <1>6, TrackFacts, Zenon
    <2>2. QED
        BY <1>3, <1>6, <2>1, Zenon DEF Agrees
<1>7. QED
    BY <1>2, <1>5, <1>6, Zenon

\* A write leaves untracked alone or sets it, for a policy that is not listed.
LEMMA WritesUntrack ==
    ASSUME NEW w, NEW kind, Track(w, kind), untracked => ~ IsCluster
    PROVE  (untracked => untracked') /\ (untracked' => ~ IsCluster)
BY Zenon DEF Track

\* The last notification the policy event handler handles is the policy itself.
LEMMA LastIsPolicy ==
    ASSUME TypeOK, LastNote, policyNotes # <<>>
    PROVE  /\ Tail(policyNotes) = <<>> => Head(policyNotes) = policy
           /\ Tail(policyNotes) # <<>> => Tail(policyNotes)[Len(Tail(policyNotes))] = policy
BY TailFacts, Zenon DEF TypeOK, LastNote

\* The first half of a write to the tracker keeps the invariant.
LEMMA TrackNamespacesIInv ==
    ASSUME IInv, TypeOK', NEW w \in Writers, TrackNamespaces(w), Steady
    PROVE  IInv'
<1>1. TypeOK /\ LastNote /\ Known /\ HalfKnown /\ (untracked => ~ IsCluster)
    BY Zenon DEF IInv
<1>2. /\ Writing(w) /\ Track(w, "namespaced") /\ halfway' = halfway \cup {w}
      /\ policy' = policy /\ policyNotes' = policyNotes
    BY Zenon DEF TrackNamespaces
<1>3. "namespaced" \in {"namespaced", "egress"} /\ "egress" \in {"namespaced", "egress"}
      /\ "namespaced" # "egress"
    OBVIOUS
<1>4. ASSUME Relied'
      PROVE  /\ Relied /\ w \in {"informer", "channel"}
             /\ Written(w) # Absent => Agrees("namespaced")'
             /\ Agrees("egress") => Agrees("egress")'
    <2>1. /\ Relied /\ w # "worker"
          /\ Written(w) # Absent => Agrees("namespaced")'
          /\ Agrees("egress") => Agrees("egress")'
        BY <1>1, <1>2, <1>3, <1>4, WritesAgree, Zenon
    <2>2. QED
        BY <2>1 DEF Writers
<1>5. Known'
    <2> SUFFICES ASSUME Relied', policyNotes = <<>>
                 PROVE  Agrees("namespaced")' /\ Agrees("egress")'
        BY <1>2, Zenon DEF Known
    <2>1. w = "channel"
        BY <1>2, <1>4 DEF Writing
    <2>2. Written(w) \in Policy
        BY <1>1, <1>2, <2>1, WrittenType, Zenon
    <2>3. Agrees("egress") /\ Written(w) # Absent
        BY <1>1, <1>4, <2>2, EventsTyped, Zenon DEF Known
    <2>4. QED
        BY <1>4, <2>3, Zenon
<1>6. HalfKnown'
    <2> SUFFICES ASSUME Relied', Tail(policyNotes) = <<>>, "informer" \in halfway'
                 PROVE  Agrees("namespaced")'
        BY <1>2, Zenon DEF HalfKnown
    <2>1. CASE w = "channel"
        <3>1. Written(w) \in Policy
            BY <1>1, <1>2, <2>1, WrittenType, Zenon
        <3>2. QED
            BY <1>4, <3>1, EventsTyped, Zenon
    <2>2. CASE w = "informer"
        <3>1. policyNotes # <<>> /\ Written(w) = Head(policyNotes)
            BY <1>2, <2>2 DEF Writing, Written
        <3>2. Written(w) = policy /\ policy # Absent
            BY <1>1, <1>2, <1>4, <3>1, LastIsPolicy, Zenon DEF Relied, Wanted
        <3>3. QED
            BY <1>4, <3>2, Zenon
    <2>3. QED
        BY <1>4, <2>1, <2>2
<1>7. (untracked => untracked') /\ (untracked' => ~ IsCluster)
    BY <1>1, <1>2, WritesUntrack, Zenon
<1>8. /\ LastNote' /\ Wanted' = Wanted /\ OnItsWay' = OnItsWay
      /\ \A input : Used(input)' = Used(input)
      /\ \A place : Unnoticed(place)' = Unnoticed(place)
    BY <1>1, Zenon DEF TrackNamespaces, LastNote, Wanted, OnItsWay, Used, Unnoticed
<1>9. \A place : Depends(policy, place)' = Depends(policy, place)
    BY <1>2, Zenon DEF Depends
<1>10. QED
    BY <1>5, <1>6, <1>7, <1>8, <1>9, Zenon DEF IInv

\* The policy event handler keeps the invariant: the key is queued, or a newer
\* notification is waiting.
LEMMA HandlePolicyIInv ==
    ASSUME IInv, TypeOK', HandlePolicy, Steady
    PROVE  IInv'
<1>1. TypeOK /\ LastNote /\ HalfKnown /\ (untracked => ~ IsCluster)
    BY Zenon DEF IInv
<1>2. /\ Track("informer", "egress") /\ "informer" \in halfway
      /\ halfway' = halfway \ {"informer"}
      /\ policy' = policy /\ policyNotes' = Tail(policyNotes)
      /\ queued' = (queued \/ Head(policyNotes) # Absent)
    BY Zenon DEF HandlePolicy, TrackEgress
<1>3. /\ "informer" \in Writers /\ Writing("informer") /\ policyNotes # <<>>
      /\ Written("informer") = Head(policyNotes)
    BY <1>1, <1>2 DEF TypeOK, Writing, Written, Writers
<1>4. /\ Tail(policyNotes) = <<>> => Head(policyNotes) = policy
      /\ Tail(policyNotes) # <<>> => Tail(policyNotes)[Len(Tail(policyNotes))] = policy
    BY <1>1, <1>3, LastIsPolicy
<1>5. Known'
    <2> SUFFICES ASSUME Relied', Tail(policyNotes) = <<>>
                 PROVE  Agrees("namespaced")' /\ Agrees("egress")'
        BY <1>2, Zenon DEF Known
    <2>1. "namespaced" \in {"namespaced", "egress"} /\ "egress" \in {"namespaced", "egress"}
          /\ "namespaced" # "egress"
        OBVIOUS
    <2>2. /\ Relied
          /\ Written("informer") # Absent => Agrees("egress")'
          /\ Agrees("namespaced") => Agrees("namespaced")'
        BY <1>1, <1>2, <1>3, <2>1, WritesAgree, Zenon
    <2>3. Written("informer") # Absent
        BY <1>3, <1>4, <2>2, Zenon DEF Relied, Wanted
    <2>4. QED
        BY <1>1, <1>2, <2>2, <2>3, Zenon DEF HalfKnown
<1>6. LastNote' /\ HalfKnown'
    <2>1. "informer" \notin halfway'
        BY <1>2, Zenon
    <2>2. QED
        BY <1>2, <1>4, <2>1, Zenon DEF LastNote, HalfKnown
<1>7. Wanted' => OnItsWay'
    BY <1>2, <1>4, Zenon DEF Wanted, OnItsWay
<1>8. untracked' => ~ IsCluster
    BY <1>1, <1>2, WritesUntrack, Zenon
<1>9. QED
    BY <1>5, <1>6, <1>7, <1>8, Zenon DEF IInv

\* The handlers' look-up finds a policy that depends on the place of a change if
\* the tracker is up to date.
LEMMA ReferredIfDependent ==
    ASSUME Steady, NEW h \in Handlers, NEW note \in Note(h),
           policy \in Policy, policy # Absent,
           IsCluster \/ (Agrees("namespaced") /\ Agrees("egress")),
           Depends(policy, note.place)
    PROVE  Referred(h, note)
<1>1. CASE IsCluster
    BY <1>1, Zenon DEF Referred
<1>2. CASE ~ IsCluster
    <2>1. note.overlooked \in Overlooked /\ note.place \in Watches[h]
        BY DEF Note
    <2>2. ~ note.overlooked
        BY <1>2, <2>1, EventsTyped, Zenon DEF Steady
    <2>3. /\ "namespaced" \in tracked <=> policy.refs
          /\ "egress" \in tracked <=> policy.egress
        BY <1>2 DEF Tracks, Agrees
    <2>4. CASE h = "pod"
        <3>1. note.place \in {"local", "remote"}
            BY <2>1, <2>4 DEF Watches
        <3>2. ReferredByPod(note.place)
            BY <1>2, <2>3, <3>1 DEF ReferredByPod, Depends
        <3>3. QED
            BY <2>4, <3>2, Zenon DEF Referred
    <2>5. CASE h = "namespace"
        <3>1. note.place = "remote"
            BY <2>1, <2>5 DEF Watches
        <3>2. ReferredByNamespace
            BY <1>2, <2>3, <3>1 DEF ReferredByNamespace, Depends
        <3>3. QED
            BY <2>5, <3>2, Zenon DEF Referred
    <2>6. CASE h = "service"
        <3>1. note.place \in {"localService", "remoteService"}
            BY <2>1, <2>6 DEF Watches
        <3>2. PotentialMatch(note.place)
            BY <1>2, <2>3, <3>1 DEF PotentialMatch, Depends
        <3>3. QED
            BY <2>2, <2>6, <3>2, Zenon DEF Referred, ReferredByService
    <2>7. QED
        BY <2>4, <2>5, <2>6 DEF Handlers
<1>3. QED
    BY <1>1, <1>2

\* A handler that drops an event does so because the policy is not wanted or does
\* not depend on the place, or because the policy's own notification is to come.
LEMMA FindPoliciesIInv ==
    ASSUME IInv, TypeOK', NEW h \in Handlers, FindPolicies(h), Steady
    PROVE  IInv'
<1>1. TypeOK /\ LastNote /\ Known /\ (untracked => ~ IsCluster)
    BY Zenon DEF IInv
<1>2. notes[h] \in Seq(Note(h)) /\ notes[h] # <<>>
    BY <1>1 DEF TypeOK, FindPolicies
<1> DEFINE first == Head(notes[h])
           rest == Tail(notes[h])
<1>3. /\ first \in Note(h) /\ rest \in Seq(Note(h))
      /\ \A e \in 1..Len(notes[h]) :
            notes[h][e] = first \/ \E f \in 1..Len(rest) : rest[f] = notes[h][e]
    BY <1>2, TailFacts, Zenon
<1>4. /\ notes' = [g \in Handlers |-> notes'[g]] /\ notes'[h] = rest
      /\ \A g \in Handlers : g # h => notes'[g] = notes[g]
    BY <1>1 DEF FindPolicies, TypeOK
<1>6. /\ policy' = policy /\ Wanted' = Wanted /\ untracked' = untracked
      /\ LastNote' = LastNote /\ Known' = Known /\ HalfKnown' = HalfKnown
      /\ \A input : Used(input)' = Used(input)
    BY Zenon DEF FindPolicies, Wanted, LastNote, Known, HalfKnown, Relied, Agrees, Used
<1>7. OnItsWay => OnItsWay'
    <2>1. sending[h] = Absent /\ \A g \in Handlers : g # h => sending'[g] = sending[g]
        BY <1>1 DEF FindPolicies, TypeOK
    <2>2. QED
        BY <2>1, Zenon DEF FindPolicies, OnItsWay
<1>8. ASSUME Wanted, ~ untracked, ~ OnItsWay'
      PROVE  ~ Depends(policy, first.place)
    <2>1. ~ Referred(h, first)
        <3>1. Referred(h, first) => sending'[h] = policy
            BY <1>1 DEF FindPolicies, TypeOK
        <3>2. QED
            BY <1>8, <3>1, Zenon DEF Wanted, OnItsWay
    <2>2. policyNotes = <<>>
        BY <1>8, Zenon DEF FindPolicies, OnItsWay
    <2>3. policy \in Policy /\ policy # Absent
          /\ (IsCluster \/ (Agrees("namespaced") /\ Agrees("egress")))
        BY <1>1, <1>8, <2>2, Zenon DEF TypeOK, Wanted, Known, Relied
    <2>4. QED
        BY <1>3, <2>1, <2>3, ReferredIfDependent, Zenon
<1>9. ASSUME NEW place \in Places, place # first.place, Unnoticed(place)
      PROVE  Unnoticed(place)'
    <2>1. PICK g \in Handlers : \E e \in 1..Len(notes[g]) : notes[g][e].place = place
        BY <1>9, Zenon DEF Unnoticed
    <2>2. PICK e \in 1..Len(notes[g]) : notes[g][e].place = place
        BY <2>1
    <2>3. \E f \in 1..Len(notes'[g]) : notes'[g][f] = notes[g][e]
        BY <1>3, <1>4, <1>9, <2>2, Zenon
    <2>4. QED
        BY <2>2, <2>3, Zenon DEF Unnoticed
<1>10. ASSUME NEW place \in Places, (Wanted /\ ~ untracked /\ Depends(policy, place))',
              ~ OnItsWay'
       PROVE  Unnoticed(place)' \/ Used(place)'
    <2>1. Wanted /\ ~ untracked /\ Depends(policy, place)
        BY <1>6, <1>10, Zenon DEF Depends
    <2>2. Unnoticed(place) \/ Used(place)
        BY <1>7, <1>10, <2>1, Zenon DEF IInv
    <2>3. place # first.place
        BY <1>8, <1>10, <2>1, Zenon
    <2>4. QED
        BY <1>6, <1>9, <2>2, <2>3, Zenon
<1>11. (Wanted => OnItsWay \/ Used("policy"))'
    BY <1>6, <1>7, Zenon DEF IInv
<1>12. QED
    BY <1>1, <1>6, <1>10, <1>11, Zenon DEF IInv

\* A copy of the policy in the channel queues the key, sooner or later.
LEMMA ChannelIInv ==
    ASSUME IInv, TypeOK', HandleGeneric \/ \E h \in Handlers : Send(h), Steady
    PROVE  IInv'
<1>1. TypeOK /\ LastNote /\ Known /\ HalfKnown /\ (untracked => ~ IsCluster)
    BY Zenon DEF IInv
<1>2. ASSUME NEW h \in Handlers, Send(h)
      PROVE  IInv'
    <2>1. sending[h] \in Policy /\ channel \in Seq(Policy)
        BY <1>1, <1>2 DEF TypeOK, Send
    <2>2. channel' \in Seq(Policy) /\ channel' # <<>>
        BY <1>2, <2>1, AppendFacts DEF Send
    <2>3. /\ untracked' = untracked /\ LastNote' = LastNote /\ Known' = Known
          /\ HalfKnown' = HalfKnown
        BY <1>2, Zenon DEF Send, LastNote, Known, HalfKnown, Relied, Agrees, Wanted
    <2>4. OnItsWay'
        BY <2>2, Zenon DEF OnItsWay
    <2>5. QED
        BY <1>1, <2>3, <2>4, Zenon DEF IInv
<1>3. CASE HandleGeneric
    <2>1. /\ Track("channel", "egress") /\ "channel" \in halfway
          /\ halfway' = halfway \ {"channel"} /\ queued' = TRUE
          /\ policy' = policy /\ policyNotes' = policyNotes
        BY <1>3, Zenon DEF HandleGeneric, TrackEgress
    <2>2. "channel" \in Writers /\ Writing("channel")
        BY <1>1, <2>1, Zenon DEF TypeOK
    <2>3. Written("channel") # Absent
        BY <1>1, <2>2, WrittenType, EventsTyped, Zenon
    <2>4. "namespaced" \in {"namespaced", "egress"} /\ "egress" \in {"namespaced", "egress"}
          /\ "namespaced" # "egress"
        OBVIOUS
    <2>5. Relied' => Relied /\ Agrees("egress")' /\ (Agrees("namespaced") => Agrees("namespaced")')
        BY <1>1, <2>1, <2>2, <2>3, <2>4, WritesAgree, Zenon
    <2>6. "informer" \in halfway' => "informer" \in halfway
        BY <2>1, Zenon
    <2>7. Known' /\ HalfKnown'
        BY <1>1, <2>1, <2>5, <2>6, Zenon DEF Known, HalfKnown
    <2>8. OnItsWay' /\ LastNote'
        BY <1>1, <2>1, Zenon DEF OnItsWay, LastNote
    <2>9. untracked' => ~ IsCluster
        BY <1>1, <2>1, WritesUntrack, Zenon
    <2>10. QED
        BY <2>7, <2>8, <2>9, Zenon DEF IInv
<1>4. QED
    BY <1>2, <1>3

\* The worker reads every input of a policy that is wanted, and queues the key
\* again if it fails.  A policy it takes from the tracker is no longer wanted, or
\* it is one the worker has not read.
LEMMA WorkerIInv ==
    ASSUME IInv, TypeOK', Take \/ Untrack \/ Release \/ Publish \/ Fail \/ ReceiveFinalizer
                          \/ \E place \in Places : Read(place)
    PROVE  IInv'
<1>1. TypeOK /\ LastNote /\ Known /\ HalfKnown /\ (untracked => ~ IsCluster)
    BY Zenon DEF IInv
<1>2. CASE Take
    <2>1. /\ policy' = policy /\ untracked' = untracked
          /\ LastNote' = LastNote /\ Known' = Known /\ HalfKnown' = HalfKnown /\ Wanted' = Wanted
        BY <1>2, Zenon DEF Take, LastNote, Known, HalfKnown, Relied, Agrees, Wanted
    <2>2. CASE Wanted
        <3>1. pc' = "resolving" /\ unread' = Places /\ seen' = {"policy"}
            BY <1>2, <2>2, Zenon DEF Take
        <3>2. Used("policy")' /\ \A place \in Places : Used(place)'
            BY <3>1 DEF Used
        <3>3. QED
            BY <1>1, <2>1, <3>2, Zenon DEF IInv
    <2>3. CASE ~ Wanted
        BY <1>1, <2>1, <2>3, Zenon DEF IInv
    <2>4. QED
        BY <2>2, <2>3
<1>3. CASE Untrack
    <2>1. /\ Track("worker", "egress") /\ pc' = "releasing" /\ policy' = policy
          /\ fresh' = fresh /\ halfway' \subseteq halfway
        BY <1>3, Zenon DEF Untrack, TrackEgress
    <2>2. /\ LastNote' = LastNote /\ Wanted' = Wanted /\ OnItsWay' = OnItsWay
          /\ \A place \in Places : Unnoticed(place)' = Unnoticed(place)
        BY <1>3, Zenon DEF Untrack, LastNote, Wanted, OnItsWay, Unnoticed
    <2>3. pc = "cleaning"
        BY <1>1, <1>3 DEF Untrack, TrackEgress, TypeOK, Writing
    <2>4. \A input \in Inputs : Used(input)' = Used(input)
        BY <2>1, <2>3 DEF Used
    <2>5. (untracked => untracked') /\ (untracked' => ~ IsCluster)
        BY <1>1, <2>1, WritesUntrack, Zenon
    <2>6. ~ Relied'
        BY <2>1, <2>2, Zenon DEF Track, Relied
    <2>7. "policy" \in Inputs /\ Places \subseteq Inputs
        BY DEF Inputs
    <2>8. \A place : Depends(policy, place)' = Depends(policy, place)
        BY <2>1, Zenon DEF Depends
    <2>9. QED
        BY <2>2, <2>4, <2>5, <2>6, <2>7, <2>8, <1>1, Zenon DEF IInv, Known, HalfKnown
<1>4. CASE Release \/ Publish \/ ReceiveFinalizer \/ \E place \in Places : Read(place)
    <2>1. \A input \in Inputs : Used(input) => Used(input)'
        BY <1>4 DEF Release, Publish, ReceiveFinalizer, Read, Used
    <2>2. \A place : Unnoticed(place)' = Unnoticed(place)
        BY <1>4, Zenon DEF Release, Publish, ReceiveFinalizer, Read, Unnoticed
    <2>3. SameKnowledge
        <3>1. UNCHANGED <<policy, policyNotes, sending, channel, tracker, queued>>
            BY <1>4, Zenon DEF Release, Publish, ReceiveFinalizer, Read
        <3>2. QED
            BY <3>1, Zenon DEF SameKnowledge, Wanted, OnItsWay, LastNote, Known, HalfKnown,
                               Relied, Agrees
    <2>4. "policy" \in Inputs /\ Places \subseteq Inputs
        BY DEF Inputs
    <2>5. \A place : Depends(policy, place)' = Depends(policy, place)
        BY <2>3, Zenon DEF Depends, SameKnowledge
    <2>6. QED
        BY <2>1, <2>2, <2>3, <2>4, <2>5, Zenon DEF IInv, SameKnowledge
<1>5. CASE Fail
    <2>1. /\ OnItsWay' /\ untracked' = untracked
          /\ LastNote' = LastNote /\ Known' = Known /\ HalfKnown' = HalfKnown
        BY <1>5, Zenon DEF Fail, OnItsWay, LastNote, Known, HalfKnown, Relied, Agrees, Wanted
    <2>2. QED
        BY <1>1, <2>1, Zenon DEF IInv
<1>6. QED
    BY <1>2, <1>3, <1>4, <1>5

\* After a restart the initial list of policies announces the policy.
LEMMA RestartIInv ==
    ASSUME IInv, TypeOK', Restart
    PROVE  IInv'
<1>1. TypeOK
    BY DEF IInv
<1>0. HalfKnown' /\ ~ untracked'
    BY Zenon DEF Restart, HalfKnown
<1>2. CASE policy = Absent
    <2>1. policyNotes' = <<>> /\ policy' = policy
        BY <1>2, Zenon DEF Restart
    <2>2. ~ Wanted' /\ LastNote'
        BY <1>2, <2>1, Zenon DEF Wanted, LastNote
    <2>3. QED
        BY <1>0, <2>2, Zenon DEF IInv, Known, Relied
<1>3. CASE policy # Absent
    <2>1. policyNotes' = <<policy>> /\ policy' = policy
        BY <1>3, Zenon DEF Restart
    <2>2. policyNotes' # <<>> /\ policyNotes'[Len(policyNotes')] = policy'
        BY <1>1, <2>1, ShortSequences, Zenon DEF TypeOK
    <2>3. OnItsWay' /\ LastNote' /\ Known'
        BY <2>2, Zenon DEF OnItsWay, LastNote, Known
    <2>4. QED
        BY <1>0, <2>3, Zenon DEF IInv
<1>4. QED
    BY <1>2, <1>3

\* A step that changes nothing keeps the invariant.
LEMMA StutterIInv ==
    ASSUME IInv, UNCHANGED vars
    PROVE  IInv'
BY DEF vars, IInv, TypeOK, Writing, LastNote, Known, HalfKnown, Relied, Agrees, Wanted, OnItsWay,
       Unnoticed, Used

\* The invariant is inductive.
LEMMA AlwaysIInv ==
    ASSUME Steady
    PROVE  Spec => []IInv
<1>1. IInv /\ [Next]_vars => IInv'
    <2> SUFFICES ASSUME IInv, [Next]_vars PROVE IInv'
        OBVIOUS
    <2>0. TypeOK'
        BY StepTyped DEF IInv
    <2>1. CASE Disturbance
        BY <2>0, <2>1, InformerIInv, WorkerIInv, RestartIInv, Zenon DEF Disturbance
    <2>2. CASE Informer
        BY <2>0, <2>2, HandlePolicyIInv, TrackNamespacesIInv, Zenon DEF Informer, Writers
    <2>3. CASE Receiver
        BY <2>0, <2>3, ChannelIInv, TrackNamespacesIInv, Zenon DEF Receiver, Writers
    <2>4. CASE Worker \/ ReceiveFinalizer
        BY <2>0, <2>4, WorkerIInv, TrackNamespacesIInv, Zenon DEF Worker, Writers
    <2>5. CASE \E h \in Handlers : FindPolicies(h) \/ Send(h)
        BY <2>0, <2>5, FindPoliciesIInv, ChannelIInv, Zenon
    <2>6. CASE UNCHANGED vars
        BY <2>6, StutterIInv
    <2>7. QED
        BY <2>1, <2>2, <2>3, <2>4, <2>5, <2>6, Zenon DEF Next, Calm
<1>2. QED
    BY <1>1, InitIInv, PTL DEF Spec

\* No change of a ClusterNetworkPolicy, or of a policy that no edit moves between
\* the tracker's sets, nor of the pods, namespaces and services it depends on,
\* gets lost, the overlooked services apart: when nothing is under way, the
\* published endpoints are up to date.  A ClusterNetworkPolicy does not depend on
\* what the worker took from the tracker.
THEOREM EventsLoseNoChange ==
    ASSUME Steady
    PROVE  Spec => [](NoLostChangeUnlessUntracked /\ (IsCluster => NoLostChange))
<1>1. IInv => NoLostChangeUnlessUntracked /\ (IsCluster => NoLostChange)
    <2> SUFFICES ASSUME IInv, Quiet, Wanted, ~ untracked PROVE UpToDate
        BY Zenon DEF NoLostChangeUnlessUntracked, NoLostChange, UpToDate, IInv
    <2>1. ~ OnItsWay
        BY Zenon DEF Quiet, OnItsWay
    <2>2. \A place \in Places : ~ Unnoticed(place)
        <3>1. \A h \in Handlers : notes[h] = <<>>
            BY Zenon DEF Quiet
        <3>2. QED
            BY <3>1 DEF Unnoticed
    <2>3. Used("policy") /\ \A place \in Places : Depends(policy, place) => Used(place)
        BY <2>1, <2>2, Zenon DEF IInv
    <2>4. pc # "resolving"
        BY DEF Quiet
    <2>5. QED
        BY <2>3, <2>4 DEF Used, UpToDate
<1>2. QED
    BY <1>1, AlwaysIInv, PTL
=============================================================================
