----------------------- MODULE PolicyControllerProofs -----------------------
(***************************************************************************)
(* The life of a policy, for every bound on creations and lag: it has the  *)
(* controller's finalizer while it has an endpoint, and the endpoints of a *)
(* ClusterNetworkPolicy that CleanupCNP lists go before it.                *)
(*                                                                         *)
(* The argument is about what the worker may read.  It reads the cache,    *)
(* which is somewhere between an old state of the policy and the server's; *)
(* Seen(k, i) runs through these states.  A finalizer is added and removed *)
(* only by a patch that the server accepts when the cache is up to date,   *)
(* so none of the changes still on their way is one, but for the removal   *)
(* right after the state in the cache.                                     *)
(***************************************************************************)
EXTENDS PolicyController, SequenceTheorems, TLAPS

\* What the cache holds and what it is about to hold.
Last(k) == Len(pending[k])
Seen(k, i) == IF i = 0 THEN cached[k] ELSE pending[k][i]

\* An object that has the finalizer.
Held(o) == o # Absent /\ o.finalizer

\* The same policy, which has the finalizer.
HeldAs(o, uid) == Held(o) /\ o.uid = uid

\* The last of them is the policy, and UIDs are not used again.
LastIsCurrent ==
    \A k \in KindSet :
        /\ Seen(k, Last(k)) = policy[k]
        /\ \A i \in 0..Last(k) : Seen(k, i) # Absent => Seen(k, i).uid \in {k} \X (1..created[k])

\* No change on its way adds the finalizer; deletion is for good; and no change
\* takes the finalizer away, unless from a policy that is being deleted in the
\* cache.
NoChangeAdds ==
    \A k \in KindSet : \A i, j \in 0..Last(k) :
        i < j /\ Held(Seen(k, j)) => Seen(k, i) # Absent /\ Seen(k, i).uid = Seen(k, j).uid
DeletionIsFinal ==
    \A k \in KindSet : \A i, j \in 0..Last(k) :
        /\ i < j /\ Seen(k, i) # Absent /\ Seen(k, j) # Absent
        /\ Seen(k, i).uid = Seen(k, j).uid /\ Seen(k, i).deleting
        => Seen(k, j).deleting
NoChangeRemoves ==
    \A k \in KindSet : \A i, j \in 0..Last(k) :
        i < j /\ Held(Seen(k, i)) =>
            HeldAs(Seen(k, j), Seen(k, i).uid) \/ (i = 0 /\ Seen(k, i).deleting)

\* What the worker may have learnt of a policy: the finalizer is not on its way
\* out; only when it is being deleted does it have the finalizer.
FinalizerStays(k) ==
    \A i, j \in 0..Last(k) :
        i < j /\ Held(Seen(k, i)) => HeldAs(Seen(k, j), Seen(k, i).uid)
HeldWhenDeleted(k) == \A i \in 0..Last(k) : Held(Seen(k, i)) => Seen(k, i).deleting

\* It knows the first once it has seen a policy that is not being deleted, and
\* the second once it has seen one that is.  A policy to be published has the
\* finalizer.
WorkerKnows ==
    \A k \in KindSet : k = Kind =>
        /\ pc = "finalize" => FinalizerStays(k)
        /\ pc \in {"cleanup", "erase", "unfinalize"} => HeldWhenDeleted(k)
        /\ pc = "publish" => HeldAs(policy[k], hand.uid)

\* An endpoint of a ClusterNetworkPolicy belongs to the policy that is there,
\* unless it escaped the cleanup of an earlier one; the ones that did not are
\* gone when the finalizer is about to be removed.
ClusterOwned ==
    \A id \in PEs : pe[id] # Absent =>
        /\ pe[id].kind = "CNP" <=> kinds = <<"CNP">>
        /\ pe[id].kind = "CNP" => HeldAs(policy["CNP"], pe[id].owner) \/ id \in escaped
CleanedFirst ==
    Kind = "CNP" => \A id \in PEs : pe[id] # Absent =>
        /\ pc = "erase" => id \in doomed \cup escaped
        /\ pc = "unfinalize" => id \in escaped

\* The owner of an endpoint is a policy that was created.
OwnerCreated ==
    \A id \in PEs : pe[id] # Absent => \E k \in KindSet : pe[id].owner \in {k} \X (1..created[k])

Chain == LastIsCurrent /\ NoChangeAdds /\ DeletionIsFinal /\ NoChangeRemoves
EndpointKnown == ClusterOwned /\ OwnerCreated /\ ProtectedByFinalizer

LifeInvariant == TypeOK /\ Chain /\ WorkerKnows /\ CleanedFirst /\ EndpointKnown
-----------------------------------------------------------------------------
(***************************************************************************)
(* Types.                                                                  *)
(***************************************************************************)

\* What the API server makes of an object is an object, and which of its fields
\* that leaves alone.
LEMMA Updates ==
    ASSUME NEW o \in Object
    PROVE  /\ \A s \in Specs : LET n == [o EXCEPT !.spec = s] IN
                n \in Object /\ n.uid = o.uid /\ n.finalizer = o.finalizer /\ n.deleting = o.deleting
           /\ \A b \in BOOLEAN : LET n == [o EXCEPT !.finalizer = b] IN
                n \in Object /\ n.uid = o.uid /\ n.finalizer = b /\ n.deleting = o.deleting
           /\ LET n == [o EXCEPT !.deleting = TRUE] IN
                n \in Object /\ n.uid = o.uid /\ n.finalizer = o.finalizer /\ n.deleting = TRUE
           /\ LET n == [o EXCEPT !.foreign = FALSE] IN
                n \in Object /\ n.uid = o.uid /\ n.finalizer = o.finalizer /\ n.deleting = o.deleting
<1>1. \A s \in Specs : LET n == [o EXCEPT !.spec = s] IN
        n \in Object /\ n.uid = o.uid /\ n.finalizer = o.finalizer /\ n.deleting = o.deleting
  BY DEF Object
<1>2. \A b \in BOOLEAN : LET n == [o EXCEPT !.finalizer = b] IN
        n \in Object /\ n.uid = o.uid /\ n.finalizer = b /\ n.deleting = o.deleting
  BY DEF Object
<1>3. LET n == [o EXCEPT !.deleting = TRUE] IN
        n \in Object /\ n.uid = o.uid /\ n.finalizer = o.finalizer /\ n.deleting = TRUE
  BY DEF Object
<1>4. LET n == [o EXCEPT !.foreign = FALSE] IN
        n \in Object /\ n.uid = o.uid /\ n.finalizer = o.finalizer /\ n.deleting = o.deleting
  BY DEF Object
<1> QED
  BY <1>1, <1>2, <1>3, <1>4

\* The kinds of a key.
LEMMA KindTyped ==
    ASSUME kinds \in Keys, turn \in DOMAIN kinds
    PROVE  Kind \in KindSet /\ (Kind = "CNP" <=> kinds = <<"CNP">>)
<1>1. CASE kinds = <<"NP", "ANP">>
  BY <1>1 DEF Kind, KindSet
<1>2. CASE kinds = <<"CNP">>
  BY <1>2 DEF Kind, KindSet
<1> QED
  BY <1>1, <1>2 DEF Keys

\* The types that all steps but those of the worker's position touch.
StoreTyped ==
    /\ policy \in [KindSet -> Object \cup {Absent}]
    /\ cached \in [KindSet -> Object \cup {Absent}]
    /\ pending \in [KindSet -> Seq(Object \cup {Absent})]
    /\ created \in [KindSet -> Nat]

\* What is stored is typed.
LEMMA StoredTyped ==
    ASSUME StoreTyped, NEW k \in KindSet, NEW o \in Object \cup {Absent}, Stored(k, o),
           cached' = cached, created' \in [KindSet -> Nat]
    PROVE  StoreTyped'
<1>1. Append(pending[k], o) \in Seq(Object \cup {Absent})
  BY AppendProperties DEF StoreTyped
<1> QED
  BY <1>1 DEF StoreTyped, Stored

\* An object that a user deletes, or another controller releases, is there
\* afterwards or not.
LEMMA SettledTyped ==
    ASSUME NEW o \in Object
    PROVE  /\ Settled(o) \in {o, Absent}
           /\ o.finalizer => Settled(o) = o
  BY DEF Settled

\* What users and other controllers do to a policy: create it, with a new UID and
\* without the finalizer, or leave its UID and the finalizer alone.
UserChange(k, o) ==
    IF policy[k] = Absent
      THEN /\ o \in Object /\ o.uid = <<k, created[k] + 1>> /\ ~ o.finalizer
           /\ created' = [created EXCEPT ![k] = @ + 1]
      ELSE /\ created' = created
           /\ o = Absent => ~ policy[k].finalizer
           /\ o # Absent => /\ o.uid = policy[k].uid /\ o.finalizer = policy[k].finalizer
                            /\ policy[k].deleting => o.deleting
LEMMA UserSteps ==
    ASSUME TypeOK, NEW k \in KindSet, Create(k) \/ Edit(k) \/ Delete(k) \/ Release(k)
    PROVE  /\ \E o \in Object \cup {Absent} : Stored(k, o) /\ UserChange(k, o)
           /\ UNCHANGED <<kinds, cached, queued, worker, endpoints>>
<1>1. CASE Create(k)
  <2>1. PICK s \in Specs, f \in BOOLEAN :
           Stored(k, [uid |-> <<k, created[k] + 1>>, spec |-> s,
                      finalizer |-> FALSE, foreign |-> f, deleting |-> FALSE])
    BY <1>1 DEF Create
  <2> DEFINE o == [uid |-> <<k, created[k] + 1>>, spec |-> s,
                   finalizer |-> FALSE, foreign |-> f, deleting |-> FALSE]
  <2>2. created[k] + 1 \in 1..MaxCreated[k]
    <3>1. created[k] < MaxCreated[k]
      BY <1>1 DEF Create
    <3>2. created[k] \in Nat /\ MaxCreated[k] \in Nat
      BY BoundsTyped DEF TypeOK
    <3> QED
      BY <3>1, <3>2
  <2>3. <<k, created[k] + 1>> \in Uids
    BY <2>2 DEF Uids
  <2>4. o \in Object /\ o.uid = <<k, created[k] + 1>> /\ ~ o.finalizer
    BY <2>3 DEF Object
  <2>5. policy[k] = Absent /\ created' = [created EXCEPT ![k] = @ + 1]
    BY <1>1 DEF Create
  <2> HIDE DEF o
  <2>6. UserChange(k, o)
    BY <2>4, <2>5 DEF UserChange
  <2> QED
    BY <1>1, <2>1, <2>4, <2>6 DEF Create, o
<1>2. CASE Edit(k)
  <2>1. policy[k] \in Object /\ policy[k] # Absent
    BY <1>2 DEF Edit, TypeOK
  <2>2. PICK s \in Specs : Stored(k, [policy[k] EXCEPT !.spec = s])
    BY <1>2 DEF Edit
  <2> DEFINE o == [policy[k] EXCEPT !.spec = s]
  <2>3. /\ o \in Object /\ o.uid = policy[k].uid /\ o.finalizer = policy[k].finalizer
        /\ o.deleting = policy[k].deleting
    BY <2>1 DEF Object
  <2> HIDE DEF o
  <2>4. created' = created
    BY <1>2 DEF Edit
  <2>5. UserChange(k, o)
    BY <2>1, <2>3, <2>4, AbsentIsNoObject, Zenon DEF UserChange
  <2> QED
    BY <1>2, <2>2, <2>3, <2>5 DEF Edit, o
<1>3. CASE Delete(k)
  <2>1. policy[k] \in Object /\ policy[k] # Absent
    BY <1>3 DEF Delete, TypeOK
  <2> DEFINE o == [policy[k] EXCEPT !.deleting = TRUE]
  <2>2. /\ o \in Object /\ o.uid = policy[k].uid /\ o.finalizer = policy[k].finalizer
        /\ o.deleting = TRUE
    BY <2>1, Updates, Zenon
  <2>3. Stored(k, Settled(o)) /\ created' = created
    BY <1>3 DEF Delete
  <2> HIDE DEF o
  <2>4. Settled(o) \in {o, Absent} /\ (o.finalizer => Settled(o) = o) /\ o # Absent
    BY <2>2, SettledTyped, AbsentIsNoObject
  <2>5. UserChange(k, Settled(o))
    BY <2>1, <2>2, <2>3, <2>4, Zenon DEF UserChange
  <2> QED
    BY <1>3, <2>2, <2>3, <2>4, <2>5 DEF Delete
<1>4. CASE Release(k)
  <2>1. policy[k] \in Object /\ policy[k] # Absent
    BY <1>4 DEF Release, TypeOK
  <2> DEFINE o == [policy[k] EXCEPT !.foreign = FALSE]
  <2>2. /\ o \in Object /\ o.uid = policy[k].uid /\ o.finalizer = policy[k].finalizer
        /\ o.deleting = policy[k].deleting
    BY <2>1, Updates, Zenon
  <2>3. Stored(k, Settled(o)) /\ created' = created
    BY <1>4 DEF Release
  <2> HIDE DEF o
  <2>4. Settled(o) \in {o, Absent} /\ (o.finalizer => Settled(o) = o) /\ o # Absent
    BY <2>2, SettledTyped, AbsentIsNoObject
  <2>5. UserChange(k, Settled(o))
    BY <2>1, <2>2, <2>3, <2>4, Zenon DEF UserChange
  <2> QED
    BY <1>4, <2>2, <2>3, <2>4, <2>5 DEF Release
<1> QED
  BY <1>1, <1>2, <1>3, <1>4

\* The two patches of the finalizer manager, which the server accepts for an
\* object that is its own.
AddedPatch(k) ==
    /\ Patchable(k) /\ ~ cached[k].deleting
    /\ Stored(k, [cached[k] EXCEPT !.finalizer = TRUE])
RemovedPatch(k) ==
    /\ Patchable(k) /\ cached[k].finalizer
    /\ Stored(k, Settled([cached[k] EXCEPT !.finalizer = FALSE]))
LEMMA AddedTyped ==
    ASSUME TypeOK, NEW k \in KindSet, AddedPatch(k)
    PROVE  \E o \in Object : /\ Stored(k, o) /\ cached[k] \in Object
                             /\ o.uid = cached[k].uid /\ o.finalizer
                             /\ o.deleting = cached[k].deleting
<1>1. cached[k] \in Object
  BY DEF AddedPatch, Patchable, TypeOK
<1> DEFINE o == [cached[k] EXCEPT !.finalizer = TRUE]
<1>2. o \in Object /\ o.uid = cached[k].uid /\ o.finalizer = TRUE /\ o.deleting = cached[k].deleting
  BY <1>1, Updates, Zenon
<1>3. Stored(k, o)
  BY DEF AddedPatch
<1> HIDE DEF o
<1> QED
  BY <1>1, <1>2, <1>3
LEMMA RemovedTyped ==
    ASSUME TypeOK, NEW k \in KindSet, RemovedPatch(k)
    PROVE  \E o \in Object \cup {Absent} :
              /\ Stored(k, o) /\ cached[k] \in Object
              /\ o # Absent => /\ o.uid = cached[k].uid /\ ~ o.finalizer
                               /\ o.deleting = cached[k].deleting
<1>1. cached[k] \in Object
  BY DEF RemovedPatch, Patchable, TypeOK
<1> DEFINE o == [cached[k] EXCEPT !.finalizer = FALSE]
<1>2. o \in Object /\ o.uid = cached[k].uid /\ o.finalizer = FALSE /\ o.deleting = cached[k].deleting
  BY <1>1, Updates, Zenon
<1>3. Stored(k, Settled(o))
  BY DEF RemovedPatch
<1> HIDE DEF o
<1>4. Settled(o) \in {o, Absent}
  BY <1>2, SettledTyped
<1>5. Settled(o) # Absent => /\ Settled(o).uid = cached[k].uid /\ ~ Settled(o).finalizer
                             /\ Settled(o).deleting = cached[k].deleting
  BY <1>2, <1>4, Zenon
<1>6. Settled(o) \in Object \cup {Absent}
  BY <1>2, <1>4
<1> QED
  BY <1>1, <1>3, <1>5, <1>6, Zenon

\* What remains of the types: the worker and the endpoints.
WorkerTyped ==
    /\ kinds \in Keys
    /\ queued \in BOOLEAN /\ failed \in BOOLEAN
    /\ pc \in {"idle", "get", "finalize", "publish", "prune", "cleanup", "erase", "unfinalize"}
    /\ turn \in DOMAIN kinds
    /\ hand \in Object \cup {Absent}
    /\ pc = "publish" => hand # Absent
    /\ doomed \subseteq PEs
PEEvent == [id : PEs, object : Endpoint \cup {Absent}]
EndpointsTyped ==
    /\ pe \in [PEs -> Endpoint \cup {Absent}]
    /\ peCache \in [PEs -> Endpoint \cup {Absent}]
    /\ peEvents \in Seq(PEEvent)
    /\ escaped \subseteq PEs /\ doubtful \subseteq KindSet
LEMMA TypesSplit == TypeOK <=> StoreTyped /\ WorkerTyped /\ EndpointsTyped
  BY DEF TypeOK, StoreTyped, WorkerTyped, EndpointsTyped, PEEvent

\* An endpoint that is stored is typed, and so is what the manager writes.
LEMMA StoredPETyped ==
    ASSUME EndpointsTyped, NEW id \in PEs, NEW o \in Endpoint \cup {Absent}, StoredPE(id, o),
           peCache' = peCache, escaped' \subseteq PEs, doubtful' \subseteq KindSet
    PROVE  EndpointsTyped'
<1>1. [id |-> id, object |-> o] \in PEEvent
  BY DEF PEEvent
<1>2. Append(peEvents, [id |-> id, object |-> o]) \in Seq(PEEvent)
  BY <1>1, AppendProperties DEF EndpointsTyped
<1> QED
  BY <1>2 DEF EndpointsTyped, StoredPE
LEMMA WriteTyped ==
    ASSUME TypeOK, pc = "publish", NEW id \in PEs, Write(id)
    PROVE  \E o \in Endpoint : /\ StoredPE(id, o) /\ o.kind = Kind
                               /\ \/ o.owner = hand.uid
                                  \/ pe[id] # Absent /\ o.owner = pe[id].owner
<1>1. hand \in Object /\ Kind \in KindSet
  BY KindTyped DEF TypeOK
<1>2. hand.uid \in Uids /\ hand.spec \in Specs
  BY <1>1 DEF Object
<1>3. CASE StoredPE(id, [owner |-> hand.uid, kind |-> Kind, spec |-> hand.spec])
  <2> DEFINE o == [owner |-> hand.uid, kind |-> Kind, spec |-> hand.spec]
  <2>1. o \in Endpoint /\ o.kind = Kind /\ o.owner = hand.uid
    BY <1>1, <1>2 DEF Endpoint
  <2> HIDE DEF o
  <2> QED
    BY <1>3, <2>1 DEF o
<1>4. CASE pe[id] # Absent /\ StoredPE(id, [pe[id] EXCEPT !.kind = Kind, !.spec = hand.spec])
  <2> DEFINE o == [pe[id] EXCEPT !.kind = Kind, !.spec = hand.spec]
  <2>1. pe[id] \in Endpoint
    BY <1>4 DEF TypeOK
  <2>2. o \in Endpoint /\ o.kind = Kind /\ o.owner = pe[id].owner
    BY <1>1, <1>2, <2>1 DEF Endpoint
  <2> HIDE DEF o
  <2> QED
    BY <1>4, <2>2 DEF o
<1> QED
  BY <1>3, <1>4 DEF Write, Accepted

\* Going on to the next kind, or to the end.
LEMMA NextKindTyped ==
    ASSUME WorkerTyped, NEW error \in BOOLEAN, NextKind(error), kinds' = kinds
    PROVE  WorkerTyped' /\ pc' \in {"idle", "get"}
<1>1. turn \in 1..Len(kinds) /\ DOMAIN kinds = 1..Len(kinds) /\ Len(kinds) \in Nat
  BY DEF WorkerTyped, Keys
<1>2. turn' \in DOMAIN kinds
  BY <1>1 DEF NextKind
<1>3. pc' \in {"idle", "get"} /\ hand' = Absent /\ doomed' = {}
  BY DEF NextKind
<1>4. failed' \in BOOLEAN /\ queued' \in BOOLEAN
  BY Zenon DEF NextKind, WorkerTyped
<1> QED
  BY <1>2, <1>3, <1>4 DEF WorkerTyped

\* The initial state is typed.
LEMMA InitTyped == Init => TypeOK
<1> SUFFICES ASSUME Init PROVE TypeOK
  OBVIOUS
<1>1. 1 \in DOMAIN kinds
  BY DEF Init, Keys
<1>2. <<>> \in Seq(Object \cup {Absent}) /\ <<>> \in Seq([id : PEs, object : Endpoint \cup {Absent}])
  BY EmptySeq
<1> QED
  BY <1>1, <1>2 DEF Init, TypeOK

\* Every step is.
LEMMA StepTyped == TypeOK /\ [Next]_vars => TypeOK'
<1> SUFFICES ASSUME TypeOK, [Next]_vars PROVE TypeOK'
  OBVIOUS
<1>t. StoreTyped /\ WorkerTyped /\ EndpointsTyped /\ Kind \in KindSet
  BY TypesSplit, KindTyped DEF WorkerTyped
<1>0. (StoreTyped' /\ WorkerTyped' /\ EndpointsTyped') => TypeOK'
  BY DEF TypeOK, StoreTyped, WorkerTyped, EndpointsTyped, PEEvent
<1>s. UNCHANGED <<policy, created, pending, cached>> => StoreTyped'
  BY <1>t DEF StoreTyped
<1>w. UNCHANGED <<kinds, queued, worker>> => WorkerTyped'
  BY <1>t DEF WorkerTyped, worker
<1>e. UNCHANGED endpoints => EndpointsTyped'
  BY <1>t DEF EndpointsTyped, endpoints
<1>1. ASSUME NEW k \in KindSet, Create(k) \/ Edit(k) \/ Delete(k) \/ Release(k) PROVE TypeOK'
  <2>1. PICK o \in Object \cup {Absent} : Stored(k, o) /\ UserChange(k, o)
    BY <1>1, UserSteps
  <2>2. UNCHANGED <<kinds, cached, queued, worker, endpoints>>
    BY <1>1, UserSteps
  <2>3. created' \in [KindSet -> Nat]
    <3>1. created' = created \/ created' = [created EXCEPT ![k] = @ + 1]
      BY <2>1, Zenon DEF UserChange
    <3>2. created \in [KindSet -> Nat] /\ created[k] + 1 \in Nat
      BY <1>t DEF StoreTyped
    <3> QED
      BY <3>1, <3>2
  <2>4. StoreTyped'
    BY <1>t, <2>1, <2>2, <2>3, StoredTyped
  <2> QED
    BY <1>0, <1>w, <1>e, <2>2, <2>4
<1>2. ASSUME NEW k \in KindSet, Deliver(k) PROVE TypeOK'
  <2>1. Head(pending[k]) \in Object \cup {Absent} /\ Tail(pending[k]) \in Seq(Object \cup {Absent})
    BY <1>t, <1>2, HeadTailProperties DEF Deliver, StoreTyped
  <2>2. StoreTyped'
    BY <1>t, <1>2, <2>1 DEF Deliver, StoreTyped
  <2>3. queued' \in BOOLEAN
    BY <1>t, <1>2, Zenon DEF Deliver, WorkerTyped, Enqueues
  <2>4. WorkerTyped' /\ EndpointsTyped'
    BY <1>t, <1>e, <1>2, <2>3 DEF Deliver, WorkerTyped, worker
  <2> QED
    BY <1>0, <2>2, <2>4
<1>3. CASE DeliverPE
  <2>1. Head(peEvents) \in PEEvent /\ Tail(peEvents) \in Seq(PEEvent)
    BY <1>t, <1>3, HeadTailProperties DEF DeliverPE, EndpointsTyped
  <2>2. Head(peEvents).id \in PEs /\ Head(peEvents).object \in Endpoint \cup {Absent}
    BY <2>1 DEF PEEvent
  <2>3. EndpointsTyped'
    BY <1>t, <1>3, <2>1, <2>2 DEF DeliverPE, EndpointsTyped
  <2> QED
    BY <1>0, <1>s, <1>w, <1>3, <2>3 DEF DeliverPE
<1>4. CASE CollectGarbage
  <2>1. PICK id \in PEs : StoredPE(id, Absent) /\ escaped' = escaped \ {id}
    BY <1>4 DEF CollectGarbage
  <2>2. peCache' = peCache /\ doubtful' = doubtful
    BY <1>4 DEF CollectGarbage
  <2>3. escaped' \subseteq PEs /\ doubtful' \subseteq KindSet
    BY <1>t, <2>1, <2>2 DEF EndpointsTyped
  <2>4. EndpointsTyped'
    BY <1>t, <2>1, <2>2, <2>3, StoredPETyped
  <2> QED
    BY <1>0, <1>s, <1>w, <1>4, <2>4 DEF CollectGarbage
<1>5. CASE Take
  <2>1. 1 \in DOMAIN kinds
    BY <1>t DEF WorkerTyped, Keys
  <2>2. WorkerTyped'
    BY <1>t, <1>5, <2>1 DEF Take, WorkerTyped
  <2> QED
    BY <1>0, <1>s, <1>e, <1>5, <2>2 DEF Take
<1>6. CASE Get
  <2>1. UNCHANGED <<kinds, policy, created, pending, cached, endpoints>>
    BY <1>6 DEF Get
  <2>2. WorkerTyped'
    <3>1. CASE NextKind(FALSE)
      BY <1>t, <2>1, <3>1, NextKindTyped
    <3>2. CASE pc' \in {"cleanup", "finalize"} /\ UNCHANGED <<queued, turn, hand, failed, doomed>>
      BY <1>t, <2>1, <3>2 DEF WorkerTyped
    <3> QED
      BY <1>6, <3>1, <3>2 DEF Get
  <2> QED
    BY <1>0, <1>s, <1>e, <2>1, <2>2
<1>7. CASE AddFinalizers
  <2>1. cached[Kind] \in Object
    BY <1>t, <1>7 DEF AddFinalizers, StoreTyped
  <2>2. hand' \in Object
    <3>1. hand' = [cached[Kind] EXCEPT !.finalizer = TRUE]
      BY <1>7 DEF AddFinalizers
    <3> QED
      BY <2>1, <3>1, Updates, Zenon
  <2>3. pc' = "publish" /\ UNCHANGED <<kinds, created, cached, queued, turn, failed, doomed, endpoints>>
    BY <1>7 DEF AddFinalizers
  <2>4. StoreTyped'
    <3>1. CASE UNCHANGED <<policy, pending>>
      BY <1>s, <2>3, <3>1
    <3>2. CASE AddedPatch(Kind)
      BY <1>t, <2>3, <3>2, AddedTyped, StoredTyped DEF StoreTyped
    <3> QED
      BY <1>7, <3>1, <3>2 DEF AddFinalizers, AddedPatch
  <2>5. WorkerTyped'
    BY <1>t, <2>2, <2>3, AbsentIsNoObject DEF WorkerTyped
  <2> QED
    BY <1>0, <1>e, <2>3, <2>4, <2>5
<1>8. ASSUME NEW error \in BOOLEAN, NextKind(error),
             UNCHANGED <<kinds, policy, created, pending, cached, endpoints>>
      PROVE  TypeOK'
  <2>1. WorkerTyped'
    BY <1>t, <1>8, NextKindTyped
  <2> QED
    BY <1>0, <1>s, <1>e, <1>8, <2>1
<1>9. CASE AddRefused \/ PublishRefused \/ DeleteRefused \/ RemoveRefused \/ Fail
  BY <1>8, <1>9 DEF AddRefused, PublishRefused, DeleteRefused, RemoveRefused, Fail
<1>l. Listed \subseteq PEs /\ Targets \subseteq PEs
  BY DEF Listed, Targets, UpToDate
<1>10. ASSUME pc = "publish", NEW id \in PEs, Write(id), peCache' = peCache,
              escaped' = escaped, doubtful' \subseteq KindSet
       PROVE  EndpointsTyped'
  <2>1. PICK o \in Endpoint : StoredPE(id, o)
    BY <1>10, WriteTyped
  <2>2. escaped' \subseteq PEs
    BY <1>t, <1>10 DEF EndpointsTyped
  <2> QED
    BY <1>t, <1>10, <2>1, <2>2, StoredPETyped
<1>11. CASE Publish
  <2>1. PICK id \in Targets :
          /\ Write(id) \/ (id \in UpToDate /\ UNCHANGED <<pe, peEvents>>)
          /\ doomed' = Listed \ {id}
          /\ doubtful' = IF Doubted(id) THEN doubtful \cup {Kind} ELSE doubtful \ {Kind}
    BY <1>11 DEF Publish
  <2>2. /\ pc = "publish" /\ pc' = "prune"
        /\ UNCHANGED <<kinds, policy, created, pending, cached, queued, turn, hand, failed, peCache, escaped>>
    BY <1>11 DEF Publish
  <2>3. doubtful' \subseteq KindSet
    <3>1. doubtful' = doubtful \cup {Kind} \/ doubtful' = doubtful \ {Kind}
      BY <2>1
    <3> QED
      BY <1>t, <3>1 DEF EndpointsTyped
  <2>4. EndpointsTyped'
    <3>1. CASE Write(id)
      BY <1>l, <1>10, <2>1, <2>2, <2>3, <3>1
    <3>2. CASE UNCHANGED <<pe, peEvents>>
      BY <1>t, <2>2, <2>3, <3>2 DEF EndpointsTyped
    <3> QED
      BY <2>1, <3>1, <3>2
  <2>5. WorkerTyped'
    BY <1>t, <1>l, <2>1, <2>2 DEF WorkerTyped
  <2> QED
    BY <1>0, <1>s, <2>2, <2>4, <2>5
<1>12. CASE Cleanup
  <2>1. /\ pc' = "erase"
        /\ UNCHANGED <<kinds, policy, created, pending, cached, queued, turn, hand, failed>>
        /\ UNCHANGED <<pe, peCache, peEvents, doubtful>>
    BY <1>12 DEF Cleanup
  <2>2. doomed' \subseteq PEs /\ escaped' \subseteq PEs
    <3>1. CASE doomed' = Listed /\ escaped' = escaped \cup {id \in PEs \ Listed : pe[id] # Absent}
      BY <1>t, <1>l, <3>1 DEF EndpointsTyped
    <3>2. CASE UNCHANGED <<doomed, escaped>>
      BY <1>t, <3>2 DEF EndpointsTyped, WorkerTyped
    <3> QED
      BY <1>12, <3>1, <3>2 DEF Cleanup
  <2>3. WorkerTyped' /\ EndpointsTyped'
    BY <1>t, <2>1, <2>2 DEF WorkerTyped, EndpointsTyped
  <2> QED
    BY <1>0, <1>s, <2>1, <2>3
<1>13. ASSUME NEW id \in PEs, Erase(id) PROVE EndpointsTyped'
  <2>1. escaped' \subseteq PEs /\ doubtful' \subseteq KindSet
    BY <1>t, <1>13 DEF Erase, EndpointsTyped
  <2> QED
    BY <1>t, <1>13, <2>1, StoredPETyped DEF Erase
<1>14. CASE DeleteListed
  <2>1. PICK id \in doomed : Erase(id) /\ doomed' = doomed \ {id}
    BY <1>14 DEF DeleteListed
  <2>2. UNCHANGED <<kinds, policy, created, pending, cached, queued, pc, turn, hand, failed>>
    BY <1>14 DEF DeleteListed
  <2>3. id \in PEs /\ doomed' \subseteq PEs
    BY <1>t, <2>1 DEF WorkerTyped
  <2>4. WorkerTyped' /\ EndpointsTyped'
    BY <1>t, <1>13, <2>1, <2>2, <2>3 DEF WorkerTyped
  <2> QED
    BY <1>0, <1>s, <2>2, <2>4
<1>15. CASE AllDeleted
  <2>1. CASE NextKind(FALSE)
    BY <1>8, <1>15, <2>1 DEF AllDeleted
  <2>2. CASE pc' = "unfinalize" /\ UNCHANGED <<queued, turn, hand, failed, doomed>>
    <3>1. UNCHANGED <<kinds, policy, created, pending, cached, endpoints>>
      BY <1>15 DEF AllDeleted
    <3>2. WorkerTyped'
      BY <1>t, <2>2, <3>1 DEF WorkerTyped
    <3> QED
      BY <1>0, <1>s, <1>e, <3>1, <3>2
  <2> QED
    BY <1>15, <2>1, <2>2 DEF AllDeleted
<1>16. CASE RemoveFinalizers
  <2>1. UNCHANGED <<kinds, created, cached, endpoints>> /\ NextKind(FALSE)
    BY <1>16 DEF RemoveFinalizers
  <2>2. WorkerTyped'
    BY <1>t, <2>1, NextKindTyped
  <2>3. StoreTyped'
    <3>1. CASE UNCHANGED <<policy, pending>>
      BY <1>s, <2>1, <3>1
    <3>2. CASE RemovedPatch(Kind)
      BY <1>t, <2>1, <3>2, RemovedTyped, StoredTyped DEF StoreTyped
    <3> QED
      BY <1>16, <3>1, <3>2 DEF RemoveFinalizers, RemovedPatch
  <2> QED
    BY <1>0, <1>e, <2>1, <2>2, <2>3
<1>17. CASE AnswerLost
  <2>1. UNCHANGED <<kinds, created, cached>> /\ NextKind(TRUE)
    BY <1>17 DEF AnswerLost
  <2>2. WorkerTyped'
    BY <1>t, <2>1, NextKindTyped
  <2>3. CASE AddedPatch(Kind) /\ UNCHANGED endpoints
    <3>1. StoreTyped'
      BY <1>t, <2>1, <2>3, AddedTyped, StoredTyped DEF StoreTyped
    <3> QED
      BY <1>0, <1>e, <2>2, <2>3, <3>1
  <2>4. CASE RemovedPatch(Kind) /\ UNCHANGED endpoints
    <3>1. StoreTyped'
      BY <1>t, <2>1, <2>4, RemovedTyped, StoredTyped DEF StoreTyped
    <3> QED
      BY <1>0, <1>e, <2>2, <2>4, <3>1
  <2>5. CASE /\ pc = "publish" /\ (\E id \in Targets : Write(id))
             /\ UNCHANGED <<policy, pending, peCache, escaped, doubtful>>
    <3>1. doubtful' \subseteq KindSet
      BY <1>t, <2>5 DEF EndpointsTyped
    <3>2. EndpointsTyped'
      BY <1>l, <1>10, <2>5, <3>1
    <3> QED
      BY <1>0, <1>s, <2>1, <2>2, <2>5, <3>2
  <2>6. CASE (\E id \in doomed : Erase(id)) /\ UNCHANGED <<policy, pending>>
    <3>1. EndpointsTyped'
      BY <1>t, <1>13, <2>6 DEF WorkerTyped
    <3> QED
      BY <1>0, <1>s, <2>1, <2>2, <2>6, <3>1
  <2> QED
    BY <1>17, <2>3, <2>4, <2>5, <2>6 DEF AnswerLost, AddedPatch, RemovedPatch
<1>18. CASE Restart
  <2>1. /\ 1 \in DOMAIN kinds /\ <<>> \in Seq(Object \cup {Absent})
        /\ <<>> \in Seq(PEEvent)
    BY <1>t, EmptySeq DEF WorkerTyped, Keys
  <2>2. StoreTyped'
    BY <1>t, <1>18, <2>1 DEF Restart, StoreTyped
  <2>3. queued' \in BOOLEAN
    BY <1>18, Zenon DEF Restart
  <2>4. WorkerTyped'
    BY <1>t, <1>18, <2>1, <2>3 DEF Restart, WorkerTyped
  <2>5. EndpointsTyped'
    BY <1>t, <1>18, <2>1 DEF Restart, EndpointsTyped
  <2> QED
    BY <1>0, <2>2, <2>4, <2>5
<1>19. CASE UNCHANGED vars
  BY <1>0, <1>s, <1>w, <1>e, <1>19 DEF vars
<1> QED
  BY <1>1, <1>2, <1>3, <1>4, <1>5, <1>6, <1>7, <1>9, <1>11, <1>12, <1>14, <1>15, <1>16, <1>17,
     <1>18, <1>19 DEF Next, Disturbance, Informer, Worker

\* The types hold in every state: whatever happens to the policy, the worker
\* publishes only one that it holds.
THEOREM LifeTypeOK == Spec => []TypeOK
<1>1. QED
  BY InitTyped, StepTyped, PTL DEF Spec
-----------------------------------------------------------------------------
(***************************************************************************)
(* What the cache holds and is about to hold.                              *)
(***************************************************************************)
\* A write adds a state at the end.
LEMMA StoredSeen ==
    ASSUME StoreTyped, NEW k \in KindSet, NEW o \in Object \cup {Absent}, Stored(k, o), cached' = cached
    PROVE  /\ Last(k) \in Nat /\ Last(k)' = Last(k) + 1
           /\ \A i \in 0..Last(k) : Seen(k, i)' = Seen(k, i)
           /\ \A i : i = Last(k) + 1 => Seen(k, i)' = o
           /\ policy'[k] = o
           /\ \A l \in KindSet \ {k} :
                /\ Last(l)' = Last(l) /\ policy'[l] = policy[l]
                /\ \A i \in 0..Last(l) : Seen(l, i)' = Seen(l, i)
<1>1. pending[k] \in Seq(Object \cup {Absent}) /\ pending'[k] = Append(pending[k], o)
  BY DEF StoreTyped, Stored
<1>2. Len(pending[k]) \in Nat
  BY <1>1
<1>3. /\ Len(pending'[k]) = Len(pending[k]) + 1
      /\ \A i \in 1..Len(pending[k]) : pending'[k][i] = pending[k][i]
      /\ pending'[k][Len(pending[k]) + 1] = o
  BY <1>1, AppendProperties
<1>4. \A l \in KindSet \ {k} : pending'[l] = pending[l] /\ policy'[l] = policy[l]
  BY DEF StoreTyped, Stored
<1>5. policy'[k] = o
  BY DEF StoreTyped, Stored
<1> QED
  BY <1>2, <1>3, <1>4, <1>5 DEF Last, Seen

\* A delivery drops the first.
LEMMA DeliverSeen ==
    ASSUME StoreTyped, NEW k \in KindSet, Deliver(k)
    PROVE  /\ Last(k) \in Nat /\ Last(k) > 0 /\ Last(k)' = Last(k) - 1
           /\ \A i \in 0..(Last(k) - 1) : Seen(k, i)' = Seen(k, i + 1)
           /\ \A l \in KindSet \ {k} :
                Last(l)' = Last(l) /\ \A i \in 0..Last(l) : Seen(l, i)' = Seen(l, i)
<1>1. pending[k] \in Seq(Object \cup {Absent}) /\ pending[k] # <<>>
  BY DEF StoreTyped, Deliver
<1>2. pending'[k] = Tail(pending[k]) /\ cached'[k] = Head(pending[k])
  BY DEF StoreTyped, Deliver
<1>3. /\ Len(pending[k]) \in Nat /\ Len(pending[k]) > 0
      /\ Head(pending[k]) = pending[k][1]
  BY <1>1
<1>4. /\ Len(pending'[k]) = Len(pending[k]) - 1
      /\ \A i \in 1..Len(pending'[k]) : pending'[k][i] = pending[k][i + 1]
  BY <1>1, <1>2, HeadTailProperties
<1>5. \A l \in KindSet \ {k} : pending'[l] = pending[l] /\ cached'[l] = cached[l]
  BY DEF StoreTyped, Deliver
<1> QED
  BY <1>2, <1>3, <1>4, <1>5 DEF Last, Seen

\* What a write may do: only a write of an object the cache has adds the
\* finalizer or, from one that is being deleted, removes it.
Legal(k, o) ==
    /\ Held(o) => /\ policy[k] # Absent /\ o.uid = policy[k].uid
                  /\ Held(policy[k]) \/ Last(k) = 0
    /\ o # Absent => \/ /\ policy[k] # Absent /\ o.uid = policy[k].uid
                        /\ policy[k].deleting => o.deleting
                     \/ policy[k] = Absent /\ o.uid = <<k, created[k] + 1>>
    /\ Held(policy[k]) => HeldAs(o, policy[k].uid) \/ (Last(k) = 0 /\ policy[k].deleting)

\* A legal write keeps the order of the states.
LEMMA LegalKeepsChain ==
    ASSUME StoreTyped, Chain, NEW k \in KindSet, NEW o \in Object \cup {Absent},
           Stored(k, o), Legal(k, o), cached' = cached,
           IF policy[k] = Absent /\ o # Absent THEN created' = [created EXCEPT ![k] = @ + 1]
           ELSE created' = created
    PROVE  Chain'
<1>s. /\ Last(k) \in Nat /\ Last(k)' = Last(k) + 1
      /\ \A i \in 0..Last(k) : Seen(k, i)' = Seen(k, i)
      /\ \A i : i = Last(k) + 1 => Seen(k, i)' = o
      /\ policy'[k] = o
  BY StoredSeen
<1>o. \A l \in KindSet \ {k} :
        /\ Last(l)' = Last(l) /\ policy'[l] = policy[l] /\ created'[l] = created[l]
        /\ \A i \in 0..Last(l) : Seen(l, i)' = Seen(l, i)
  BY StoredSeen DEF StoreTyped
<1>l. Seen(k, Last(k)) = policy[k]
  BY DEF Chain, LastIsCurrent
<1>c. created[k] \in Nat
  BY DEF StoreTyped
<1>1. LastIsCurrent'
  <2>1. ASSUME NEW l \in KindSet \ {k}
        PROVE  /\ Seen(l, Last(l))' = policy'[l]
               /\ \A i \in 0..Last(l)' : Seen(l, i)' # Absent => Seen(l, i)'.uid \in {l} \X (1..created'[l])
    <3>1. Last(l) \in Nat
      BY DEF StoreTyped, Last
    <3>2. Seen(l, Last(l))' = Seen(l, Last(l))
      BY <1>o, <3>1 DEF Seen, Last
    <3> QED
      BY <1>o, <3>1, <3>2 DEF Chain, LastIsCurrent
  <2>2. Seen(k, Last(k))' = policy'[k]
    BY <1>s DEF Seen, Last
  <2>3. ASSUME NEW i \in 0..Last(k)', Seen(k, i)' # Absent
        PROVE  Seen(k, i)'.uid \in {k} \X (1..created'[k])
    <3>1. \A n : n \in {k} \X (1..created[k]) => n \in {k} \X (1..created'[k])
      BY <1>c DEF StoreTyped
    <3>2. CASE i \in 0..Last(k)
      BY <1>s, <2>3, <3>1, <3>2 DEF Chain, LastIsCurrent
    <3>3. CASE i = Last(k) + 1
      <4>1. Seen(k, i)' = o /\ o # Absent
        BY <1>s, <2>3, <3>3
      <4>2. CASE policy[k] # Absent /\ o.uid = policy[k].uid
        BY <1>s, <1>l, <3>1, <4>1, <4>2 DEF Chain, LastIsCurrent
      <4>3. CASE policy[k] = Absent /\ o.uid = <<k, created[k] + 1>>
        <5>1. created'[k] = created[k] + 1
          BY <4>1, <4>3 DEF StoreTyped
        <5> QED
          BY <1>c, <4>1, <4>3, <5>1
      <4> QED
        BY <4>1, <4>2, <4>3 DEF Legal
    <3> QED
      BY <1>s, <3>2, <3>3
  <2> QED
    BY <2>1, <2>2, <2>3 DEF LastIsCurrent
<1>2. NoChangeAdds'
  <2> SUFFICES ASSUME NEW l \in KindSet, NEW i \in 0..Last(l)', NEW j \in 0..Last(l)', i < j, Held(Seen(l, j)')
               PROVE  Seen(l, i)' # Absent /\ Seen(l, i)'.uid = Seen(l, j)'.uid
    BY DEF NoChangeAdds, Held
  <2>1. CASE l # k
    BY <1>o, <2>1 DEF Chain, NoChangeAdds
  <2>2. CASE l = k /\ j \in 0..Last(k)
    BY <1>s, <2>2 DEF Chain, NoChangeAdds
  <2>3. CASE l = k /\ j = Last(k) + 1
    <3>1. Seen(k, j)' = o /\ Held(o) /\ i \in 0..Last(k) /\ Seen(k, i)' = Seen(k, i)
      BY <1>s, <2>3
    <3>2. policy[k] # Absent /\ o.uid = policy[k].uid /\ (Held(policy[k]) \/ Last(k) = 0)
      BY <3>1 DEF Legal
    <3>3. CASE i = Last(k)
      BY <1>l, <2>3, <3>1, <3>2, <3>3
    <3>4. CASE i < Last(k)
      <4>1. Held(Seen(k, Last(k)))
        BY <1>s, <1>l, <3>1, <3>2, <3>4
      <4> QED
        BY <1>s, <1>l, <2>3, <3>1, <3>2, <3>4, <4>1 DEF Chain, NoChangeAdds
    <3> QED
      BY <1>s, <3>1, <3>3, <3>4
  <2> QED
    BY <1>s, <2>1, <2>2, <2>3
<1>3. DeletionIsFinal'
  <2> SUFFICES ASSUME NEW l \in KindSet, NEW i \in 0..Last(l)', NEW j \in 0..Last(l)', i < j,
                      Seen(l, i)' # Absent, Seen(l, j)' # Absent,
                      Seen(l, i)'.uid = Seen(l, j)'.uid, Seen(l, i)'.deleting
               PROVE  Seen(l, j)'.deleting
    BY DEF DeletionIsFinal
  <2>1. CASE l # k
    BY <1>o, <2>1 DEF Chain, DeletionIsFinal
  <2>2. CASE l = k /\ j \in 0..Last(k)
    BY <1>s, <2>2 DEF Chain, DeletionIsFinal
  <2>3. CASE l = k /\ j = Last(k) + 1
    <3>1. /\ Seen(k, j)' = o /\ o # Absent /\ i \in 0..Last(k) /\ Seen(k, i)' = Seen(k, i)
          /\ Seen(k, i) # Absent /\ Seen(k, i).uid = o.uid /\ Seen(k, i).deleting
      BY <1>s, <2>3
    <3>2. o.uid # <<k, created[k] + 1>>
      <4>1. Seen(k, i).uid \in {k} \X (1..created[k])
        BY <3>1 DEF Chain, LastIsCurrent
      <4> QED
        BY <1>c, <3>1, <4>1
    <3>3. policy[k] # Absent /\ o.uid = policy[k].uid /\ (policy[k].deleting => o.deleting)
      BY <3>1, <3>2 DEF Legal
    <3>4. policy[k].deleting
      <4>1. CASE i = Last(k)
        BY <1>l, <3>1, <4>1
      <4>2. CASE i < Last(k)
        BY <1>s, <1>l, <3>1, <3>3, <4>2 DEF Chain, DeletionIsFinal
      <4> QED
        BY <1>s, <3>1, <4>1, <4>2
    <3> QED
      BY <2>3, <3>1, <3>3, <3>4
  <2> QED
    BY <1>s, <2>1, <2>2, <2>3
<1>4. NoChangeRemoves'
  <2> SUFFICES ASSUME NEW l \in KindSet, NEW i \in 0..Last(l)', NEW j \in 0..Last(l)', i < j, Held(Seen(l, i)')
               PROVE  HeldAs(Seen(l, j)', Seen(l, i)'.uid) \/ (i = 0 /\ Seen(l, i)'.deleting)
    BY DEF NoChangeRemoves, Held, HeldAs
  <2>1. CASE l # k
    BY <1>o, <2>1 DEF Chain, NoChangeRemoves
  <2>2. CASE l = k /\ j \in 0..Last(k)
    BY <1>s, <2>2 DEF Chain, NoChangeRemoves
  <2>3. CASE l = k /\ j = Last(k) + 1
    <3>1. Seen(k, j)' = o /\ i \in 0..Last(k) /\ Seen(k, i)' = Seen(k, i) /\ Held(Seen(k, i))
      BY <1>s, <2>3
    <3>2. HeldAs(policy[k], Seen(k, i).uid) \/ (i = 0 /\ Seen(k, i).deleting)
      <4>1. CASE i = Last(k)
        BY <1>l, <3>1, <4>1 DEF HeldAs
      <4>2. CASE i < Last(k)
        BY <1>s, <1>l, <3>1, <4>2 DEF Chain, NoChangeRemoves
      <4> QED
        BY <1>s, <3>1, <4>1, <4>2
    <3>3. ASSUME HeldAs(policy[k], Seen(k, i).uid)
          PROVE  HeldAs(o, Seen(k, i).uid) \/ (i = 0 /\ Seen(k, i).deleting)
      <4>1. CASE HeldAs(o, policy[k].uid)
        BY <3>3, <4>1 DEF HeldAs
      <4>2. CASE Last(k) = 0 /\ policy[k].deleting
        BY <1>l, <3>1, <4>2
      <4> QED
        BY <3>3, <4>1, <4>2 DEF Legal, HeldAs
    <3> QED
      BY <2>3, <3>1, <3>2, <3>3
  <2> QED
    BY <1>s, <2>1, <2>2, <2>3
<1> QED
  BY <1>1, <1>2, <1>3, <1>4 DEF Chain

\* So does a delivery: every state moves one place to the front.
LEMMA DeliverKeepsChain ==
    ASSUME StoreTyped, Chain, NEW k \in KindSet, Deliver(k)
    PROVE  Chain'
<1>s. /\ Last(k) \in Nat /\ Last(k) > 0 /\ Last(k)' = Last(k) - 1
      /\ \A i \in 0..(Last(k) - 1) : Seen(k, i)' = Seen(k, i + 1)
  BY DeliverSeen
<1>o. \A l \in KindSet \ {k} :
        Last(l)' = Last(l) /\ \A i \in 0..Last(l) : Seen(l, i)' = Seen(l, i)
  BY DeliverSeen
<1>u. UNCHANGED <<policy, created>>
  BY DEF Deliver
<1>i. \A i \in 0..Last(k)' : i + 1 \in 0..Last(k) /\ Seen(k, i)' = Seen(k, i + 1)
  BY <1>s
<1>n. \A l \in KindSet : Last(l) \in Nat /\ Last(l)' \in Nat
  BY <1>s, <1>o DEF StoreTyped, Last
<1>1. LastIsCurrent'
  <2>1. ASSUME NEW l \in KindSet PROVE Seen(l, Last(l))' = policy'[l]
    <3>1. ASSUME NEW n, n = Last(l)' PROVE Seen(l, n)' = policy'[l]
      <4>1. CASE l # k
        BY <1>o, <1>u, <1>n, <3>1, <4>1 DEF Chain, LastIsCurrent
      <4>2. CASE l = k
        <5>1. n + 1 = Last(k) /\ n \in 0..Last(k)'
          BY <1>s, <1>n, <3>1, <4>2
        <5> QED
          BY <1>i, <1>u, <4>2, <5>1 DEF Chain, LastIsCurrent
      <4> QED
        BY <4>1, <4>2
    <3> QED
      BY <3>1 DEF Seen
  <2>2. ASSUME NEW l \in KindSet, NEW i \in 0..Last(l)', Seen(l, i)' # Absent
        PROVE  Seen(l, i)'.uid \in {l} \X (1..created'[l])
    <3>1. CASE l # k
      BY <1>o, <1>u, <2>2, <3>1 DEF Chain, LastIsCurrent
    <3>2. CASE l = k
      BY <1>i, <1>u, <2>2, <3>2 DEF Chain, LastIsCurrent
    <3> QED
      BY <3>1, <3>2
  <2> QED
    BY <2>1, <2>2 DEF LastIsCurrent
<1>2. NoChangeAdds'
  <2> SUFFICES ASSUME NEW l \in KindSet, NEW i \in 0..Last(l)', NEW j \in 0..Last(l)', i < j, Held(Seen(l, j)')
               PROVE  Seen(l, i)' # Absent /\ Seen(l, i)'.uid = Seen(l, j)'.uid
    BY DEF NoChangeAdds, Held
  <2>1. CASE l # k
    BY <1>o, <2>1 DEF Chain, NoChangeAdds
  <2>2. CASE l = k
    <3>1. i + 1 < j + 1
      BY <1>n
    <3> QED
      BY <1>i, <2>2, <3>1 DEF Chain, NoChangeAdds
  <2> QED
    BY <2>1, <2>2
<1>3. DeletionIsFinal'
  <2> SUFFICES ASSUME NEW l \in KindSet, NEW i \in 0..Last(l)', NEW j \in 0..Last(l)', i < j,
                      Seen(l, i)' # Absent, Seen(l, j)' # Absent,
                      Seen(l, i)'.uid = Seen(l, j)'.uid, Seen(l, i)'.deleting
               PROVE  Seen(l, j)'.deleting
    BY DEF DeletionIsFinal
  <2>1. CASE l # k
    BY <1>o, <2>1 DEF Chain, DeletionIsFinal
  <2>2. CASE l = k
    <3>1. i + 1 < j + 1
      BY <1>n
    <3> QED
      BY <1>i, <2>2, <3>1 DEF Chain, DeletionIsFinal
  <2> QED
    BY <2>1, <2>2
<1>4. NoChangeRemoves'
  <2> SUFFICES ASSUME NEW l \in KindSet, NEW i \in 0..Last(l)', NEW j \in 0..Last(l)', i < j, Held(Seen(l, i)')
               PROVE  HeldAs(Seen(l, j)', Seen(l, i)'.uid) \/ (i = 0 /\ Seen(l, i)'.deleting)
    BY DEF NoChangeRemoves, Held, HeldAs
  <2>1. CASE l # k
    BY <1>o, <2>1 DEF Chain, NoChangeRemoves
  <2>2. CASE l = k
    <3>1. i + 1 < j + 1 /\ i + 1 # 0
      BY <1>n
    <3>2. HeldAs(Seen(k, j + 1), Seen(k, i + 1).uid)
      BY <1>i, <2>2, <3>1 DEF Chain, NoChangeRemoves
    <3> QED
      BY <1>i, <2>2, <3>2
  <2> QED
    BY <2>1, <2>2
<1> QED
  BY <1>1, <1>2, <1>3, <1>4 DEF Chain

\* A restart leaves one state of each policy, the server's.
LEMMA RestartKeepsChain ==
    ASSUME StoreTyped, Chain, Restart
    PROVE  Chain'
<1>1. \A k \in KindSet : Last(k)' = 0 /\ \A i : i = 0 => Seen(k, i)' = policy[k]
  BY DEF Restart, Last, Seen
<1>2. UNCHANGED <<policy, created>>
  BY DEF Restart
<1>3. \A k \in KindSet : Last(k) \in Nat /\ Last(k) \in 0..Last(k)
  BY DEF StoreTyped, Last
<1>4. LastIsCurrent'
  <2>1. \A k \in KindSet : Seen(k, Last(k))' = policy'[k]
    BY <1>1, <1>2 DEF Seen
  <2>2. \A k \in KindSet : policy[k] # Absent => policy[k].uid \in {k} \X (1..created[k])
    BY <1>3 DEF Chain, LastIsCurrent
  <2> QED
    BY <1>1, <1>2, <2>1, <2>2 DEF LastIsCurrent
<1>5. NoChangeAdds' /\ DeletionIsFinal' /\ NoChangeRemoves'
  BY <1>1 DEF NoChangeAdds, DeletionIsFinal, NoChangeRemoves
<1> QED
  BY <1>4, <1>5 DEF Chain

\* Steps that change neither policies nor the cache.
LEMMA SameChain ==
    ASSUME Chain, UNCHANGED <<policy, created, pending, cached>>
    PROVE  Chain'
  BY DEF Chain, LastIsCurrent, NoChangeAdds, DeletionIsFinal, NoChangeRemoves, Seen, Last

\* Users write legally, and so does the finalizer manager: the first because they
\* leave the finalizer alone, the second because of the optimistic lock.
LEMMA UsersLegal ==
    ASSUME StoreTyped, NEW k \in KindSet, NEW o \in Object \cup {Absent}, UserChange(k, o)
    PROVE  /\ Legal(k, o)
           /\ IF policy[k] = Absent /\ o # Absent THEN created' = [created EXCEPT ![k] = @ + 1]
              ELSE created' = created
<1>1. CASE policy[k] = Absent
  <2>1. o # Absent /\ o.uid = <<k, created[k] + 1>> /\ ~ o.finalizer
    BY <1>1, AbsentIsNoObject DEF UserChange
  <2> QED
    BY <1>1, <2>1 DEF UserChange, Legal, Held
<1>2. CASE policy[k] # Absent /\ o = Absent
  BY <1>2 DEF UserChange, Legal, Held, HeldAs
<1>3. CASE policy[k] # Absent /\ o # Absent
  BY <1>3, Zenon DEF UserChange, Legal, Held, HeldAs
<1> QED
  BY <1>1, <1>2, <1>3

\* An accepted patch means that the cache is up to date.
LEMMA PatchableIsCurrent ==
    ASSUME StoreTyped, Chain, NEW k \in KindSet, Patchable(k)
    PROVE  cached[k] = policy[k] /\ cached[k] # Absent /\ Last(k) = 0
<1>1. pending[k] = <<>> /\ cached[k] # Absent
  BY DEF Patchable, Current
<1>2. Last(k) = 0
  BY <1>1 DEF Last
<1> QED
  BY <1>1, <1>2 DEF Chain, LastIsCurrent, Seen

\* The two patches are legal.
LEMMA AddedLegal ==
    ASSUME TypeOK, Chain, NEW k \in KindSet, AddedPatch(k), NEW o \in Object,
           o.uid = cached[k].uid, o.finalizer, o.deleting = cached[k].deleting
    PROVE  Legal(k, o)
<1>1. cached[k] = policy[k] /\ policy[k] # Absent /\ Last(k) = 0
  BY TypesSplit, PatchableIsCurrent DEF AddedPatch
<1>2. o # Absent
  BY AbsentIsNoObject
<1>3. Held(o) => /\ policy[k] # Absent /\ o.uid = policy[k].uid
                 /\ Held(policy[k]) \/ Last(k) = 0
  BY <1>1
<1>4. policy[k] # Absent /\ o.uid = policy[k].uid /\ (policy[k].deleting => o.deleting)
  BY <1>1, Zenon
<1>5. HeldAs(o, policy[k].uid)
  BY <1>1, <1>2, Zenon DEF HeldAs, Held
<1> QED
  BY <1>3, <1>4, <1>5 DEF Legal
LEMMA RemovedLegal ==
    ASSUME TypeOK, Chain, NEW k \in KindSet, RemovedPatch(k), cached[k].deleting,
           NEW o \in Object \cup {Absent},
           o # Absent => o.uid = cached[k].uid /\ ~ o.finalizer /\ o.deleting = cached[k].deleting
    PROVE  Legal(k, o)
<1>1. cached[k] = policy[k] /\ policy[k] # Absent /\ Last(k) = 0
  BY TypesSplit, PatchableIsCurrent DEF RemovedPatch
<1>2. ~ Held(o)
  BY DEF Held
<1>3. o # Absent => policy[k] # Absent /\ o.uid = policy[k].uid /\ (policy[k].deleting => o.deleting)
  BY <1>1, Zenon
<1>4. Last(k) = 0 /\ policy[k].deleting
  BY <1>1
<1> QED
  BY <1>2, <1>3, <1>4 DEF Legal
-----------------------------------------------------------------------------
(***************************************************************************)
(* The steps.                                                              *)
(***************************************************************************)

\* What the worker knows stays true when a user writes a policy,
LEMMA UserKeepsKnowledge ==
    ASSUME StoreTyped, Chain, NEW k \in KindSet, NEW o \in Object \cup {Absent},
           Stored(k, o), UserChange(k, o), cached' = cached, NEW l \in KindSet
    PROVE  /\ FinalizerStays(l) => FinalizerStays(l)'
           /\ HeldWhenDeleted(l) => HeldWhenDeleted(l)'
           /\ \A uid : HeldAs(policy[l], uid) => HeldAs(policy'[l], uid)
<1>1. Held(o) => Held(policy[k]) /\ o.uid = policy[k].uid /\ (policy[k].deleting => o.deleting)
  BY AbsentIsNoObject, Zenon DEF UserChange, Held
<1>2. Held(policy[k]) => HeldAs(o, policy[k].uid)
  BY Zenon DEF UserChange, Held, HeldAs
<1>3. /\ Last(k) \in Nat /\ Last(k)' = Last(k) + 1
      /\ \A i \in 0..Last(k) : Seen(k, i)' = Seen(k, i)
      /\ \A i : i = Last(k) + 1 => Seen(k, i)' = o
      /\ policy'[k] = o
  BY StoredSeen
<1>4. \A m \in KindSet \ {k} :
        /\ Last(m)' = Last(m) /\ policy'[m] = policy[m]
        /\ \A i \in 0..Last(m) : Seen(m, i)' = Seen(m, i)
  BY StoredSeen
<1>5. Seen(k, Last(k)) = policy[k]
  BY DEF Chain, LastIsCurrent
<1>6. CASE l # k
  <2>1. FinalizerStays(l) => FinalizerStays(l)'
    BY <1>4, <1>6 DEF FinalizerStays, HeldAs, Held
  <2>2. HeldWhenDeleted(l) => HeldWhenDeleted(l)'
    BY <1>4, <1>6 DEF HeldWhenDeleted, Held
  <2> QED
    BY <1>4, <1>6, <2>1, <2>2
<1>7. CASE l = k
  <2>1. ASSUME FinalizerStays(k) PROVE FinalizerStays(k)'
    <3> SUFFICES ASSUME NEW i \in 0..Last(k)', NEW j \in 0..Last(k)', i < j, Held(Seen(k, i)')
                 PROVE  HeldAs(Seen(k, j)', Seen(k, i)'.uid)
      BY DEF FinalizerStays, HeldAs, Held
    <3>1. CASE j \in 0..Last(k)
      BY <1>3, <2>1, <3>1 DEF FinalizerStays
    <3>2. CASE j = Last(k) + 1
      <4>1. i \in 0..Last(k) /\ Seen(k, i)' = Seen(k, i) /\ Held(Seen(k, i)) /\ Seen(k, j)' = o
        BY <1>3, <3>2
      <4>2. HeldAs(policy[k], Seen(k, i).uid)
        <5>1. CASE i = Last(k)
          BY <1>5, <4>1, <5>1 DEF HeldAs
        <5>2. CASE i < Last(k)
          BY <1>3, <1>5, <2>1, <4>1, <5>2 DEF FinalizerStays
        <5> QED
          BY <1>3, <4>1, <5>1, <5>2
      <4>3. HeldAs(o, Seen(k, i).uid)
        BY <1>2, <4>2 DEF HeldAs
      <4> QED
        BY <4>1, <4>3
    <3> QED
      BY <1>3, <3>1, <3>2
  <2>2. ASSUME HeldWhenDeleted(k) PROVE HeldWhenDeleted(k)'
    <3> SUFFICES ASSUME NEW i \in 0..Last(k)', Held(Seen(k, i)') PROVE Seen(k, i)'.deleting
      BY DEF HeldWhenDeleted, Held
    <3>1. CASE i \in 0..Last(k)
      BY <1>3, <2>2, <3>1 DEF HeldWhenDeleted
    <3>2. CASE i = Last(k) + 1
      <4>1. Seen(k, i)' = o /\ Held(o) /\ Last(k) \in 0..Last(k)
        BY <1>3, <3>2
      <4>2. policy[k].deleting
        BY <1>1, <1>5, <2>2, <4>1 DEF HeldWhenDeleted
      <4> QED
        BY <1>1, <4>1, <4>2
    <3> QED
      BY <1>3, <3>1, <3>2
  <2>3. \A uid : HeldAs(policy[k], uid) => HeldAs(policy'[k], uid)
    BY <1>2, <1>3 DEF HeldAs
  <2> QED
    BY <1>7, <2>1, <2>2, <2>3
<1> QED
  BY <1>6, <1>7

\* and when a change arrives.
LEMMA DeliverKeepsKnowledge ==
    ASSUME StoreTyped, NEW k \in KindSet, Deliver(k), NEW l \in KindSet
    PROVE  /\ FinalizerStays(l) => FinalizerStays(l)'
           /\ HeldWhenDeleted(l) => HeldWhenDeleted(l)'
<1>1. /\ Last(k) \in Nat /\ Last(k) > 0 /\ Last(k)' = Last(k) - 1
      /\ \A i \in 0..(Last(k) - 1) : Seen(k, i)' = Seen(k, i + 1)
  BY DeliverSeen
<1>2. \A m \in KindSet \ {k} :
        Last(m)' = Last(m) /\ \A i \in 0..Last(m) : Seen(m, i)' = Seen(m, i)
  BY DeliverSeen
<1>3. CASE l # k
  <2>1. FinalizerStays(l) => FinalizerStays(l)'
    BY <1>2, <1>3 DEF FinalizerStays, HeldAs, Held
  <2>2. HeldWhenDeleted(l) => HeldWhenDeleted(l)'
    BY <1>2, <1>3 DEF HeldWhenDeleted, Held
  <2> QED
    BY <2>1, <2>2
<1>4. CASE l = k
  <2>1. \A i \in 0..Last(k)' : i + 1 \in 0..Last(k) /\ Seen(k, i)' = Seen(k, i + 1)
    BY <1>1
  <2>2. ASSUME FinalizerStays(k) PROVE FinalizerStays(k)'
    <3> SUFFICES ASSUME NEW i \in 0..Last(k)', NEW j \in 0..Last(k)', i < j, Held(Seen(k, i)')
                 PROVE  HeldAs(Seen(k, j)', Seen(k, i)'.uid)
      BY DEF FinalizerStays, HeldAs, Held
    <3>1. i + 1 < j + 1
      BY <1>1
    <3> QED
      BY <2>1, <2>2, <3>1 DEF FinalizerStays
  <2>3. ASSUME HeldWhenDeleted(k) PROVE HeldWhenDeleted(k)'
    <3> SUFFICES ASSUME NEW i \in 0..Last(k)', Held(Seen(k, i)') PROVE Seen(k, i)'.deleting
      BY DEF HeldWhenDeleted, Held
    <3> QED
      BY <2>1, <2>3 DEF HeldWhenDeleted
  <2> QED
    BY <1>4, <2>2, <2>3
<1> QED
  BY <1>3, <1>4

LEMMA UserStepKeeps ==
    ASSUME LifeInvariant, TypeOK', NEW k \in KindSet,
           Create(k) \/ Edit(k) \/ Delete(k) \/ Release(k)
    PROVE  LifeInvariant'
<1>t. StoreTyped /\ WorkerTyped /\ Kind \in KindSet
  BY TypesSplit, KindTyped DEF LifeInvariant, WorkerTyped
<1>1. PICK o \in Object \cup {Absent} : Stored(k, o) /\ UserChange(k, o)
  BY UserSteps DEF LifeInvariant
<1>2. UNCHANGED <<kinds, cached, queued, pc, turn, hand, doomed, pe, escaped>> /\ Kind' = Kind
  BY UserSteps DEF LifeInvariant, Kind, worker, endpoints
<1>3. Chain'
  BY <1>t, <1>1, <1>2, UsersLegal, LegalKeepsChain DEF LifeInvariant
<1>4. policy'[k] = o /\ \A l \in KindSet \ {k} : policy'[l] = policy[l]
  BY <1>t, <1>1, <1>2, StoredSeen
<1>5. \A l \in KindSet : /\ FinalizerStays(l) => FinalizerStays(l)'
                         /\ HeldWhenDeleted(l) => HeldWhenDeleted(l)'
                         /\ \A uid : HeldAs(policy[l], uid) => HeldAs(policy'[l], uid)
  BY <1>t, <1>1, <1>2, UserKeepsKnowledge DEF LifeInvariant
<1>6. WorkerKnows'
  <2> SUFFICES ASSUME NEW l \in KindSet, l = Kind'
               PROVE  /\ pc' = "finalize" => FinalizerStays(l)'
                      /\ pc' \in {"cleanup", "erase", "unfinalize"} => HeldWhenDeleted(l)'
                      /\ pc' = "publish" => HeldAs(policy'[l], hand'.uid)
    BY DEF WorkerKnows, HeldAs, Held
  <2> QED
    BY <1>2, <1>5 DEF LifeInvariant, WorkerKnows
<1>7. ClusterOwned'
  <2>1. \A uid : HeldAs(policy["CNP"], uid) => HeldAs(policy'["CNP"], uid)
    BY <1>5 DEF KindSet
  <2> QED
    BY <1>2, <2>1 DEF LifeInvariant, EndpointKnown, ClusterOwned, HeldAs, Held
<1>8. \A l \in KindSet : 1..created[l] \subseteq 1..created'[l]
  <2>1. created' = created \/ created' = [created EXCEPT ![k] = @ + 1]
    BY <1>1, Zenon DEF UserChange
  <2>2. created \in [KindSet -> Nat]
    BY <1>t DEF StoreTyped
  <2> QED
    BY <2>1, <2>2
<1>9. OwnerCreated'
  BY <1>2, <1>8 DEF LifeInvariant, EndpointKnown, OwnerCreated
<1>10. ProtectedByFinalizer'
  <2> SUFFICES ASSUME NEW id \in PEs, pe[id] # Absent, NEW l \in KindSet,
                      policy'[l] # Absent, policy'[l].uid = pe[id].owner, ~ policy'[l].deleting
               PROVE  policy'[l].finalizer
    BY <1>2 DEF ProtectedByFinalizer
  <2>1. CASE l # k
    BY <1>4, <2>1 DEF LifeInvariant, EndpointKnown, ProtectedByFinalizer
  <2>2. CASE l = k
    <3>1. CASE policy[k] = Absent
      <4>1. pe[id].owner = <<k, created[k] + 1>> /\ created[k] \in Nat
        BY <1>t, <1>1, <1>4, <2>2, <3>1 DEF UserChange, StoreTyped
      <4>2. PICK m \in KindSet : pe[id].owner \in {m} \X (1..created[m])
        BY DEF LifeInvariant, EndpointKnown, OwnerCreated
      <4> QED
        BY <4>1, <4>2
    <3>2. CASE policy[k] # Absent
      <4>1. /\ o # Absent /\ o.uid = policy[k].uid /\ o.finalizer = policy[k].finalizer
            /\ ~ policy[k].deleting /\ policy[k].uid = pe[id].owner
        BY <1>1, <1>4, <2>2, <3>2, Zenon DEF UserChange
      <4>2. policy[k].finalizer
        BY <3>2, <4>1 DEF LifeInvariant, EndpointKnown, ProtectedByFinalizer
      <4> QED
        BY <1>4, <2>2, <4>1, <4>2, Zenon
    <3> QED
      BY <3>1, <3>2
  <2> QED
    BY <2>1, <2>2
<1>11. CleanedFirst'
  BY <1>2 DEF LifeInvariant, CleanedFirst
<1> QED
  BY <1>3, <1>6, <1>7, <1>9, <1>10, <1>11 DEF LifeInvariant, EndpointKnown

\* A delivery.
LEMMA DeliverKeeps ==
    ASSUME LifeInvariant, TypeOK', NEW k \in KindSet, Deliver(k)
    PROVE  LifeInvariant'
<1>t. StoreTyped
  BY TypesSplit DEF LifeInvariant
<1>1. UNCHANGED <<kinds, policy, created, pc, turn, hand, doomed, pe, escaped>> /\ Kind' = Kind
  BY DEF Deliver, worker, endpoints, Kind
<1>2. Chain'
  BY <1>t, DeliverKeepsChain DEF LifeInvariant
<1>3. \A l \in KindSet : /\ FinalizerStays(l) => FinalizerStays(l)'
                         /\ HeldWhenDeleted(l) => HeldWhenDeleted(l)'
  BY <1>t, DeliverKeepsKnowledge
<1>4. WorkerKnows'
  <2> SUFFICES ASSUME NEW l \in KindSet, l = Kind'
               PROVE  /\ pc' = "finalize" => FinalizerStays(l)'
                      /\ pc' \in {"cleanup", "erase", "unfinalize"} => HeldWhenDeleted(l)'
                      /\ pc' = "publish" => HeldAs(policy'[l], hand'.uid)
    BY DEF WorkerKnows, HeldAs, Held
  <2> QED
    BY <1>1, <1>3 DEF LifeInvariant, WorkerKnows
<1>5. CleanedFirst'
  BY <1>1 DEF LifeInvariant, CleanedFirst
<1>6. EndpointKnown'
  BY <1>1 DEF LifeInvariant, EndpointKnown, ClusterOwned, OwnerCreated, ProtectedByFinalizer, HeldAs, Held
<1> QED
  BY <1>2, <1>4, <1>5, <1>6 DEF LifeInvariant

\* Between two kinds the worker knows nothing.
LEMMA AtRest ==
    ASSUME TypeOK', Chain', EndpointKnown', pc' \in {"idle", "get"}
    PROVE  LifeInvariant'
<1>1. WorkerKnows' /\ CleanedFirst'
  BY DEF WorkerKnows, CleanedFirst
<1> QED
  BY <1>1 DEF LifeInvariant

\* Steps that leave policies alone, and of the endpoints at most delete some.
FewerEndpoints ==
    \A id \in PEs : pe'[id] = Absent \/ (pe'[id] = pe[id] /\ (id \in escaped => id \in escaped'))
LEMMA FewerKept ==
    ASSUME EndpointKnown, FewerEndpoints, UNCHANGED <<kinds, policy, created>>
    PROVE  EndpointKnown'
<1>1. ClusterOwned'
  BY DEF FewerEndpoints, EndpointKnown, ClusterOwned, HeldAs, Held
<1>2. OwnerCreated'
  BY DEF FewerEndpoints, EndpointKnown, OwnerCreated
<1>3. ProtectedByFinalizer'
  BY DEF FewerEndpoints, EndpointKnown, ProtectedByFinalizer
<1> QED
  BY <1>1, <1>2, <1>3 DEF EndpointKnown

\* Such steps are those that do not touch them,
LEMMA SameEndpoint ==
    ASSUME EndpointKnown, UNCHANGED <<kinds, policy, created, pe, escaped>>
    PROVE  EndpointKnown'
  BY FewerKept DEF FewerEndpoints

\* and the deletion of one.
LEMMA OneFewer ==
    ASSUME EndpointsTyped, NEW id \in PEs, StoredPE(id, Absent), escaped' = escaped \ {id}
    PROVE  FewerEndpoints
  BY DEF EndpointsTyped, StoredPE, FewerEndpoints

\* What the worker knows outlasts steps that change neither policies nor its
\* place.
LEMMA SameKnowledge ==
    ASSUME WorkerKnows, UNCHANGED <<kinds, policy, pending, cached, turn, hand, pc>>
    PROVE  WorkerKnows'
  BY DEF WorkerKnows, FinalizerStays, HeldWhenDeleted, Seen, Last, Held, HeldAs, Kind

\* Adding the finalizer keeps the endpoint protected,
LEMMA AddedKeepsEndpoint ==
    ASSUME LifeInvariant, NEW k \in KindSet, AddedPatch(k),
           UNCHANGED <<kinds, created, cached, pe, escaped>>
    PROVE  Chain' /\ EndpointKnown' /\ HeldAs(policy'[k], cached[k].uid)
<1>t. StoreTyped /\ TypeOK /\ Chain
  BY TypesSplit DEF LifeInvariant
<1>1. PICK o \in Object : /\ Stored(k, o) /\ cached[k] \in Object
                          /\ o.uid = cached[k].uid /\ o.finalizer
                          /\ o.deleting = cached[k].deleting
  BY <1>t, AddedTyped
<1>2. cached[k] = policy[k] /\ policy[k] # Absent
  BY <1>t, PatchableIsCurrent DEF AddedPatch
<1>3. Legal(k, o)
  BY <1>t, <1>1, AddedLegal
<1>4. Chain'
  BY <1>t, <1>1, <1>2, <1>3, LegalKeepsChain
<1>5. policy'[k] = o /\ \A l \in KindSet \ {k} : policy'[l] = policy[l]
  BY <1>t, <1>1, StoredSeen
<1>6. HeldAs(o, policy[k].uid)
  BY <1>1, <1>2, AbsentIsNoObject, Zenon DEF HeldAs, Held
<1>7. ClusterOwned'
  <2>1. \A uid : HeldAs(policy["CNP"], uid) => HeldAs(policy'["CNP"], uid)
    BY <1>5, <1>6 DEF KindSet, HeldAs
  <2> QED
    BY <2>1 DEF LifeInvariant, EndpointKnown, ClusterOwned, HeldAs, Held
<1>8. OwnerCreated'
  BY DEF LifeInvariant, EndpointKnown, OwnerCreated
<1>9. ProtectedByFinalizer'
  <2> SUFFICES ASSUME NEW id \in PEs, pe[id] # Absent, NEW l \in KindSet,
                      policy'[l] # Absent, policy'[l].uid = pe[id].owner, ~ policy'[l].deleting
               PROVE  policy'[l].finalizer
    BY DEF ProtectedByFinalizer
  <2>1. CASE l # k
    BY <1>5, <2>1 DEF LifeInvariant, EndpointKnown, ProtectedByFinalizer
  <2>2. CASE l = k
    BY <1>5, <1>6, <2>2 DEF HeldAs, Held
  <2> QED
    BY <2>1, <2>2
<1> QED
  BY <1>2, <1>4, <1>5, <1>6, <1>7, <1>8, <1>9 DEF EndpointKnown

\* and so does removing it, once the endpoints of a ClusterNetworkPolicy are gone
\* or have escaped.
LEMMA RemovedKeepsEndpoint ==
    ASSUME LifeInvariant, pc = "unfinalize", RemovedPatch(Kind),
           UNCHANGED <<kinds, created, cached, pe, escaped>>
    PROVE  Chain' /\ EndpointKnown'
<1>t. StoreTyped /\ TypeOK /\ Chain /\ Kind \in KindSet /\ (Kind = "CNP" <=> kinds = <<"CNP">>)
  BY TypesSplit, KindTyped DEF LifeInvariant, WorkerTyped
<1>1. PICK o \in Object \cup {Absent} :
              /\ Stored(Kind, o) /\ cached[Kind] \in Object
              /\ o # Absent => /\ o.uid = cached[Kind].uid /\ ~ o.finalizer
                               /\ o.deleting = cached[Kind].deleting
  BY <1>t, RemovedTyped
<1>2. cached[Kind] = policy[Kind] /\ policy[Kind] # Absent /\ Last(Kind) = 0
  BY <1>t, PatchableIsCurrent DEF RemovedPatch
<1>3. cached[Kind].deleting
  <2>1. HeldWhenDeleted(Kind)
    BY <1>t DEF LifeInvariant, WorkerKnows
  <2>2. Held(Seen(Kind, 0)) /\ Seen(Kind, 0) = cached[Kind] /\ 0 \in 0..Last(Kind)
    BY <1>2 DEF Held, Seen, RemovedPatch
  <2> QED
    BY <2>1, <2>2 DEF HeldWhenDeleted
<1>4. Legal(Kind, o)
  BY <1>t, <1>1, <1>3, RemovedLegal
<1>5. Chain'
  BY <1>t, <1>1, <1>2, <1>4, LegalKeepsChain
<1>6. policy'[Kind] = o /\ \A l \in KindSet \ {Kind} : policy'[l] = policy[l]
  BY <1>t, <1>1, StoredSeen
<1>7. ClusterOwned'
  <2>1. \A id \in PEs : pe[id] # Absent => /\ pe[id].kind = "CNP" <=> kinds = <<"CNP">>
                                           /\ pe[id].kind = "CNP" => id \in escaped
    BY <1>t DEF LifeInvariant, CleanedFirst, EndpointKnown, ClusterOwned
  <2> QED
    BY <2>1 DEF ClusterOwned
<1>8. OwnerCreated'
  BY DEF LifeInvariant, EndpointKnown, OwnerCreated
<1>9. ProtectedByFinalizer'
  <2> SUFFICES ASSUME NEW id \in PEs, pe[id] # Absent, NEW l \in KindSet,
                      policy'[l] # Absent, policy'[l].uid = pe[id].owner, ~ policy'[l].deleting
               PROVE  policy'[l].finalizer
    BY DEF ProtectedByFinalizer
  <2>1. CASE l # Kind
    BY <1>6, <2>1 DEF LifeInvariant, EndpointKnown, ProtectedByFinalizer
  <2>2. CASE l = Kind
    BY <1>1, <1>3, <1>6, <2>2, Zenon
  <2> QED
    BY <2>1, <2>2
<1> QED
  BY <1>5, <1>7, <1>8, <1>9 DEF EndpointKnown

\* The endpoint the manager writes belongs to a policy that has the finalizer, or
\* to the one it belonged to.
LEMMA WriteKeepsEndpoint ==
    ASSUME LifeInvariant, pc = "publish", NEW id \in PEs, Write(id),
           UNCHANGED <<kinds, policy, created, escaped>>
    PROVE  EndpointKnown'
<1>t. /\ TypeOK /\ StoreTyped /\ EndpointsTyped
      /\ Kind \in KindSet /\ (Kind = "CNP" <=> kinds = <<"CNP">>)
  BY TypesSplit, KindTyped DEF LifeInvariant, WorkerTyped
<1>1. HeldAs(policy[Kind], hand.uid)
  BY <1>t DEF LifeInvariant, WorkerKnows
<1>2. \A l \in KindSet : policy[l] # Absent => policy[l].uid \in {l} \X (1..created[l])
  <2>1. \A l \in KindSet : Last(l) \in 0..Last(l)
    BY <1>t DEF StoreTyped, Last
  <2> QED
    BY <2>1 DEF LifeInvariant, Chain, LastIsCurrent
<1>3. PICK o \in Endpoint : /\ StoredPE(id, o) /\ o.kind = Kind
                            /\ \/ o.owner = hand.uid
                               \/ pe[id] # Absent /\ o.owner = pe[id].owner
  BY <1>t, WriteTyped
<1>4. pe'[id] = o /\ \A other \in PEs \ {id} : pe'[other] = pe[other]
  BY <1>t, <1>3 DEF StoredPE, EndpointsTyped
<1>5. Kind = "CNP" => HeldAs(policy["CNP"], o.owner) \/ id \in escaped
  <2>1. CASE o.owner = hand.uid
    BY <1>1, <2>1
  <2>2. CASE pe[id] # Absent /\ o.owner = pe[id].owner
    BY <1>t, <2>2 DEF LifeInvariant, EndpointKnown, ClusterOwned
  <2> QED
    BY <1>3, <2>1, <2>2
<1>6. ClusterOwned'
  <2> SUFFICES ASSUME NEW x \in PEs, pe'[x] # Absent
               PROVE  /\ pe'[x].kind = "CNP" <=> kinds = <<"CNP">>
                      /\ pe'[x].kind = "CNP" => HeldAs(policy["CNP"], pe'[x].owner) \/ x \in escaped
    BY DEF ClusterOwned, HeldAs, Held
  <2>1. CASE x = id
    BY <1>t, <1>3, <1>4, <1>5, <2>1
  <2>2. CASE x # id
    BY <1>4, <2>2 DEF LifeInvariant, EndpointKnown, ClusterOwned
  <2> QED
    BY <2>1, <2>2
<1>7. \E l \in KindSet : o.owner \in {l} \X (1..created[l])
  <2>1. CASE o.owner = hand.uid
    BY <1>t, <1>1, <1>2, <2>1 DEF HeldAs, Held
  <2>2. CASE pe[id] # Absent /\ o.owner = pe[id].owner
    BY <2>2 DEF LifeInvariant, EndpointKnown, OwnerCreated
  <2> QED
    BY <1>3, <2>1, <2>2
<1>8. OwnerCreated'
  BY <1>4, <1>7 DEF LifeInvariant, EndpointKnown, OwnerCreated
<1>9. ProtectedByFinalizer'
  <2> SUFFICES ASSUME NEW x \in PEs, pe'[x] # Absent, NEW l \in KindSet,
                      policy[l] # Absent, policy[l].uid = pe'[x].owner, ~ policy[l].deleting
               PROVE  policy[l].finalizer
    BY DEF ProtectedByFinalizer
  <2>1. CASE x = id /\ o.owner = hand.uid
    <3>1. policy[Kind].uid = policy[l].uid /\ policy[Kind] # Absent /\ policy[Kind].finalizer
      BY <1>1, <1>4, <2>1 DEF HeldAs, Held
    <3>2. l = Kind
      BY <1>t, <1>2, <3>1
    <3> QED
      BY <3>1, <3>2
  <2>2. CASE x = id /\ pe[id] # Absent /\ o.owner = pe[id].owner
    BY <1>4, <2>2 DEF LifeInvariant, EndpointKnown, ProtectedByFinalizer
  <2>3. CASE x # id
    BY <1>4, <2>3 DEF LifeInvariant, EndpointKnown, ProtectedByFinalizer
  <2> QED
    BY <1>3, <2>1, <2>2, <2>3
<1> QED
  BY <1>6, <1>8, <1>9 DEF EndpointKnown

\* Get: what the worker reads of the policy, and what follows from it.
LEMMA GetKeeps ==
    ASSUME LifeInvariant, TypeOK', Get
    PROVE  LifeInvariant'
<1>t. StoreTyped /\ WorkerTyped /\ Kind \in KindSet
  BY TypesSplit, KindTyped DEF LifeInvariant, WorkerTyped
<1>1. UNCHANGED <<kinds, policy, created, pending, cached, pe, escaped>>
  BY DEF Get, endpoints
<1>2. Chain' /\ EndpointKnown'
  BY <1>1, SameChain, SameEndpoint DEF LifeInvariant
<1>3. CASE NextKind(FALSE)
  BY <1>t, <1>1, <1>2, <1>3, NextKindTyped, AtRest
<1>4. ASSUME cached[Kind] # Absent, UNCHANGED turn,
             pc' = IF cached[Kind].deleting THEN "cleanup" ELSE "finalize"
      PROVE  LifeInvariant'
  <2>k. Kind' = Kind
    BY <1>1, <1>4 DEF Kind
  <2>0. \A l \in KindSet : Last(l) \in Nat /\ Seen(l, 0) = cached[l]
    BY <1>t DEF StoreTyped, Last, Seen
  <2>1. ASSUME NEW l \in KindSet, cached[l] # Absent, ~ cached[l].deleting PROVE FinalizerStays(l)
    BY <2>0, <2>1 DEF FinalizerStays, LifeInvariant, Chain, NoChangeRemoves
  <2>2. ASSUME NEW l \in KindSet, cached[l] # Absent, cached[l].deleting PROVE HeldWhenDeleted(l)
    <3> SUFFICES ASSUME NEW i \in 0..Last(l), Held(Seen(l, i)) PROVE Seen(l, i).deleting
      BY DEF HeldWhenDeleted
    <3>1. CASE i = 0
      BY <2>0, <2>2, <3>1
    <3>2. CASE 0 < i
      <4>1. Seen(l, i) # Absent /\ 0 \in 0..Last(l)
        BY <2>0 DEF Held
      <4>2. Seen(l, 0).uid = Seen(l, i).uid
        BY <3>2, <4>1 DEF LifeInvariant, Chain, NoChangeAdds
      <4> QED
        BY <2>0, <2>2, <3>2, <4>1, <4>2 DEF LifeInvariant, Chain, DeletionIsFinal
    <3> QED
      BY <2>0, <3>1, <3>2
  <2>3. \A l \in KindSet : /\ FinalizerStays(l) => FinalizerStays(l)'
                           /\ HeldWhenDeleted(l) => HeldWhenDeleted(l)'
    BY <1>1 DEF FinalizerStays, HeldWhenDeleted, Seen, Last, HeldAs, Held
  <2>4. WorkerKnows'
    <3> SUFFICES ASSUME NEW l \in KindSet, l = Kind'
                 PROVE  /\ pc' = "finalize" => FinalizerStays(l)'
                        /\ pc' \in {"cleanup", "erase", "unfinalize"} => HeldWhenDeleted(l)'
                        /\ pc' # "publish"
      BY DEF WorkerKnows
    <3> QED
      BY <1>4, <2>k, <2>1, <2>2, <2>3
  <2>5. CleanedFirst'
    BY <1>4 DEF CleanedFirst
  <2> QED
    BY <1>2, <2>4, <2>5 DEF LifeInvariant
<1> QED
  BY <1>3, <1>4 DEF Get

\* AddFinalizers: what it leaves with the caller is at the server, too, and has
\* the finalizer.
LEMMA AddFinalizersKeeps ==
    ASSUME LifeInvariant, TypeOK', AddFinalizers
    PROVE  LifeInvariant'
<1>t. StoreTyped /\ WorkerTyped /\ Kind \in KindSet
  BY TypesSplit, KindTyped DEF LifeInvariant, WorkerTyped
<1>1. UNCHANGED <<kinds, created, cached, turn, pe, escaped>> /\ Kind' = Kind /\ pc' = "publish"
  BY DEF AddFinalizers, Kind, endpoints
<1>2. cached[Kind] \in Object /\ cached[Kind] # Absent
  BY <1>t DEF AddFinalizers, StoreTyped
<1>3. hand'.uid = cached[Kind].uid
  BY <1>2, Updates, Zenon DEF AddFinalizers
<1>4. Chain' /\ EndpointKnown' /\ HeldAs(policy'[Kind], cached[Kind].uid)
  <2>1. CASE cached[Kind].finalizer
    <3>1. UNCHANGED <<policy, pending>>
      BY <2>1 DEF AddFinalizers
    <3>2. Chain' /\ EndpointKnown'
      BY <1>1, <3>1, SameChain, SameEndpoint DEF LifeInvariant
    <3>3. HeldAs(policy[Kind], cached[Kind].uid)
      <4>1. Seen(Kind, 0) = cached[Kind] /\ Seen(Kind, Last(Kind)) = policy[Kind] /\ Last(Kind) \in Nat
        BY <1>t DEF LifeInvariant, Chain, LastIsCurrent, Seen, Last, StoreTyped
      <4>2. Held(Seen(Kind, 0))
        BY <1>2, <2>1, <4>1 DEF Held
      <4>3. FinalizerStays(Kind)
        BY <1>t DEF LifeInvariant, WorkerKnows, AddFinalizers
      <4>4. CASE Last(Kind) = 0
        BY <4>1, <4>2, <4>4 DEF HeldAs
      <4>5. CASE Last(Kind) > 0
        BY <4>1, <4>2, <4>3, <4>5 DEF FinalizerStays
      <4> QED
        BY <4>1, <4>4, <4>5
    <3> QED
      BY <3>1, <3>2, <3>3
  <2>2. CASE ~ cached[Kind].finalizer
    <3>1. AddedPatch(Kind)
      BY <2>2 DEF AddFinalizers, AddedPatch
    <3> QED
      BY <1>t, <1>1, <3>1, AddedKeepsEndpoint
  <2> QED
    BY <2>1, <2>2
<1>5. WorkerKnows'
  <2> SUFFICES ASSUME NEW l \in KindSet, l = Kind'
               PROVE  HeldAs(policy'[l], hand'.uid)
    BY <1>1 DEF WorkerKnows, HeldAs, Held
  <2> QED
    BY <1>1, <1>3, <1>4
<1>6. CleanedFirst'
  BY <1>1 DEF CleanedFirst
<1> QED
  BY <1>4, <1>5, <1>6 DEF LifeInvariant

\* Cleanup: of a ClusterNetworkPolicy every endpoint is in the list of deletions
\* or has escaped.
LEMMA CleanupKeeps ==
    ASSUME LifeInvariant, TypeOK', Cleanup
    PROVE  LifeInvariant'
<1>1. /\ UNCHANGED <<kinds, policy, created, pending, cached, turn, hand, pe>> /\ Kind' = Kind
      /\ pc = "cleanup" /\ pc' = "erase"
  BY DEF Cleanup, Kind
<1>2. Chain'
  BY <1>1, SameChain DEF LifeInvariant
<1>3. EndpointKnown'
  <2>1. escaped \subseteq escaped'
    BY DEF Cleanup
  <2> QED
    BY <1>1, <2>1, FewerKept DEF LifeInvariant, FewerEndpoints
<1>4. WorkerKnows'
  <2> SUFFICES ASSUME NEW l \in KindSet, l = Kind' PROVE HeldWhenDeleted(l)'
    BY <1>1 DEF WorkerKnows
  <2>1. HeldWhenDeleted(l)
    BY <1>1 DEF LifeInvariant, WorkerKnows
  <2> QED
    BY <1>1, <2>1 DEF HeldWhenDeleted, Seen, Last, Held
<1>5. CleanedFirst'
  <2> SUFFICES ASSUME Kind = "CNP", NEW id \in PEs, pe[id] # Absent
               PROVE  id \in doomed' \cup escaped'
    BY <1>1 DEF CleanedFirst
  <2>1. doomed' = Listed /\ escaped' = escaped \cup {x \in PEs \ Listed : pe[x] # Absent}
    BY DEF Cleanup, CleanupDeletes
  <2> QED
    BY <2>1
<1> QED
  BY <1>2, <1>3, <1>4, <1>5 DEF LifeInvariant

\* A publication that is followed by its deletions.
LEMMA PublishKeeps ==
    ASSUME LifeInvariant, TypeOK', Publish
    PROVE  LifeInvariant'
<1>1. /\ UNCHANGED <<kinds, policy, created, pending, cached, escaped>>
      /\ pc = "publish" /\ pc' = "prune"
  BY DEF Publish
<1>2. PICK id \in Targets : Write(id) \/ UNCHANGED <<pe, peEvents>>
  BY DEF Publish
<1>3. id \in PEs
  BY DEF Targets, Listed, UpToDate
<1>4. EndpointKnown'
  <2>1. CASE Write(id)
    BY <1>1, <1>3, <2>1, WriteKeepsEndpoint
  <2>2. CASE pe' = pe
    BY <1>1, <2>2, SameEndpoint DEF LifeInvariant
  <2> QED
    BY <1>2, <2>1, <2>2
<1>5. Chain'
  BY <1>1, SameChain DEF LifeInvariant
<1>6. WorkerKnows' /\ CleanedFirst'
  BY <1>1 DEF WorkerKnows, CleanedFirst
<1> QED
  BY <1>4, <1>5, <1>6 DEF LifeInvariant

\* A deletion of the worker or of the garbage collector, and the delivery of an
\* endpoint: what escaped is still known to have escaped.
LEMMA FewerKeeps ==
    ASSUME LifeInvariant, TypeOK', FewerEndpoints,
           UNCHANGED <<kinds, policy, created, pending, cached, pc, turn, hand>>,
           \A id \in doomed : id \in doomed' \/ pe'[id] = Absent
    PROVE  LifeInvariant'
<1>1. Chain' /\ EndpointKnown' /\ WorkerKnows'
  BY SameChain, FewerKept, SameKnowledge DEF LifeInvariant
<1>2. CleanedFirst'
  BY DEF LifeInvariant, CleanedFirst, FewerEndpoints, Kind
<1> QED
  BY <1>1, <1>2 DEF LifeInvariant

\* The loop over the deletions, step by step,
LEMMA DeleteListedKeeps ==
    ASSUME LifeInvariant, TypeOK', DeleteListed
    PROVE  LifeInvariant'
<1>t. WorkerTyped /\ EndpointsTyped
  BY TypesSplit DEF LifeInvariant
<1>1. PICK id \in doomed : Erase(id) /\ doomed' = doomed \ {id}
  BY DEF DeleteListed
<1>2. id \in PEs
  BY <1>t DEF WorkerTyped
<1>3. FewerEndpoints
  BY <1>t, <1>1, <1>2, OneFewer DEF Erase
<1>4. \A other \in doomed : other \in doomed' \/ pe'[other] = Absent
  BY <1>t, <1>1, <1>2 DEF Erase, StoredPE, EndpointsTyped
<1>5. UNCHANGED <<kinds, policy, created, pending, cached, pc, turn, hand>>
  BY DEF DeleteListed
<1> QED
  BY <1>3, <1>4, <1>5, FewerKeeps

\* and at its end, where RemoveFinalizers follows it.
LEMMA AllDeletedKeeps ==
    ASSUME LifeInvariant, TypeOK', AllDeleted
    PROVE  LifeInvariant'
<1>t. WorkerTyped
  BY TypesSplit DEF LifeInvariant
<1>1. UNCHANGED <<kinds, policy, created, pending, cached, pe, escaped>> /\ doomed = {}
  BY DEF AllDeleted, endpoints
<1>2. Chain' /\ EndpointKnown'
  BY <1>1, SameChain, SameEndpoint DEF LifeInvariant
<1>3. CASE NextKind(FALSE)
  BY <1>t, <1>1, <1>2, <1>3, NextKindTyped, AtRest
<1>4. CASE pc = "erase" /\ pc' = "unfinalize" /\ UNCHANGED <<queued, turn, hand, failed, doomed>>
  <2>1. Kind' = Kind
    BY <1>1, <1>4 DEF Kind
  <2>2. WorkerKnows'
    <3> SUFFICES ASSUME NEW l \in KindSet, l = Kind' PROVE HeldWhenDeleted(l)'
      BY <1>4 DEF WorkerKnows
    <3>1. HeldWhenDeleted(l)
      BY <1>4, <2>1 DEF LifeInvariant, WorkerKnows
    <3> QED
      BY <1>1, <3>1 DEF HeldWhenDeleted, Seen, Last, Held
  <2>3. CleanedFirst'
    BY <1>1, <1>4, <2>1 DEF LifeInvariant, CleanedFirst
  <2> QED
    BY <1>2, <2>2, <2>3 DEF LifeInvariant
<1> QED
  BY <1>3, <1>4 DEF AllDeleted

\* The steps that end the worker's turn at a kind.
LEMMA TurnEndKeeps ==
    ASSUME LifeInvariant, TypeOK',
           \/ AddRefused \/ PublishRefused \/ DeleteRefused
           \/ RemoveFinalizers \/ RemoveRefused \/ Fail \/ AnswerLost
    PROVE  LifeInvariant'
<1>t. StoreTyped /\ WorkerTyped /\ EndpointsTyped /\ Kind \in KindSet
  BY TypesSplit, KindTyped DEF LifeInvariant, WorkerTyped
<1>1. kinds' = kinds /\ (NextKind(TRUE) \/ NextKind(FALSE))
  BY DEF AddRefused, PublishRefused, DeleteRefused, RemoveFinalizers, RemoveRefused, Fail, AnswerLost
<1>2. pc' \in {"idle", "get"}
  BY <1>t, <1>1, NextKindTyped
<1>3. ASSUME UNCHANGED <<policy, created, pending, cached, pe, escaped>> PROVE LifeInvariant'
  BY <1>1, <1>2, <1>3, SameChain, SameEndpoint, AtRest DEF LifeInvariant
<1>4. ASSUME pc = "publish", NEW id \in Targets, Write(id),
             UNCHANGED <<policy, created, pending, cached, escaped>>
      PROVE  LifeInvariant'
  <2>1. id \in PEs
    BY DEF Targets, Listed, UpToDate
  <2> QED
    BY <1>1, <1>2, <1>4, <2>1, SameChain, WriteKeepsEndpoint, AtRest DEF LifeInvariant
<1>5. ASSUME pc = "unfinalize", RemovedPatch(Kind), UNCHANGED <<created, cached, pe, escaped>>
      PROVE  LifeInvariant'
  BY <1>1, <1>2, <1>5, RemovedKeepsEndpoint, AtRest
<1>6. ASSUME AddedPatch(Kind), UNCHANGED <<created, cached, pe, escaped>> PROVE LifeInvariant'
  BY <1>t, <1>1, <1>2, <1>6, AddedKeepsEndpoint, AtRest
<1>7. ASSUME NEW id \in doomed, Erase(id), UNCHANGED <<policy, created, pending, cached>>
      PROVE  LifeInvariant'
  <2>1. FewerEndpoints
    BY <1>t, <1>7, OneFewer DEF Erase, WorkerTyped
  <2> QED
    BY <1>1, <1>2, <1>7, <2>1, SameChain, FewerKept, AtRest DEF LifeInvariant
<1>8. CASE AddRefused \/ PublishRefused \/ DeleteRefused \/ RemoveRefused \/ Fail
  BY <1>3, <1>8 DEF AddRefused, PublishRefused, DeleteRefused, RemoveRefused, Fail, endpoints
<1>9. CASE RemoveFinalizers
  <2>1. CASE cached[Kind].finalizer
    BY <1>5, <1>9, <2>1 DEF RemoveFinalizers, RemovedPatch, endpoints
  <2>2. CASE ~ cached[Kind].finalizer
    BY <1>3, <1>9, <2>2 DEF RemoveFinalizers, endpoints
  <2> QED
    BY <2>1, <2>2
<1>10. CASE AnswerLost
  BY <1>4, <1>5, <1>6, <1>7, <1>10 DEF AnswerLost, AddedPatch, RemovedPatch, endpoints
<1> QED
  BY <1>8, <1>9, <1>10

\* A restart forgets the worker.
LEMMA RestartKeeps ==
    ASSUME LifeInvariant, TypeOK', Restart
    PROVE  LifeInvariant'
<1>1. Chain'
  BY TypesSplit, RestartKeepsChain DEF LifeInvariant
<1>2. EndpointKnown'
  BY SameEndpoint DEF LifeInvariant, Restart
<1> QED
  BY <1>1, <1>2, AtRest DEF Restart

\* At the start there is nothing.
LEMMA LifeInit == Init => LifeInvariant
<1> SUFFICES ASSUME Init PROVE LifeInvariant
  OBVIOUS
<1>1. TypeOK
  BY InitTyped
<1>2. \A k \in KindSet : Last(k) = 0 /\ Seen(k, 0) = Absent /\ policy[k] = Absent
  BY DEF Init, Last, Seen
<1>3. Chain
  <2>1. LastIsCurrent
    BY <1>2 DEF LastIsCurrent
  <2>2. NoChangeAdds /\ DeletionIsFinal /\ NoChangeRemoves
    BY <1>2 DEF NoChangeAdds, DeletionIsFinal, NoChangeRemoves
  <2> QED
    BY <2>1, <2>2 DEF Chain
<1>4. EndpointKnown /\ WorkerKnows /\ CleanedFirst
  BY DEF Init, EndpointKnown, ClusterOwned, OwnerCreated, ProtectedByFinalizer, WorkerKnows, CleanedFirst
<1> QED
  BY <1>1, <1>3, <1>4 DEF LifeInvariant

\* Every step keeps the invariant.
LEMMA LifeStep == LifeInvariant /\ [Next]_vars => LifeInvariant'
<1> SUFFICES ASSUME LifeInvariant, [Next]_vars PROVE LifeInvariant'
  OBVIOUS
<1>t. TypeOK'
  BY StepTyped DEF LifeInvariant
<1>1. ASSUME NEW k \in KindSet, Create(k) \/ Edit(k) \/ Delete(k) \/ Release(k)
      PROVE  LifeInvariant'
  BY <1>t, <1>1, UserStepKeeps
<1>2. ASSUME NEW k \in KindSet, Deliver(k) PROVE LifeInvariant'
  BY <1>t, <1>2, DeliverKeeps
<1>3. CASE CollectGarbage \/ DeliverPE
  <2>1. UNCHANGED <<kinds, policy, created, pending, cached, pc, turn, hand, doomed>>
    BY <1>3 DEF CollectGarbage, DeliverPE, worker
  <2>2. FewerEndpoints
    <3>1. EndpointsTyped
      BY TypesSplit DEF LifeInvariant
    <3>2. CASE CollectGarbage
      BY <3>1, <3>2, OneFewer DEF CollectGarbage
    <3>3. CASE DeliverPE
      BY <3>3 DEF DeliverPE, FewerEndpoints
    <3> QED
      BY <1>3, <3>2, <3>3
  <2> QED
    BY <1>t, <2>1, <2>2, FewerKeeps
<1>4. CASE Take
  BY <1>t, <1>4, SameChain, SameEndpoint, AtRest DEF Take, LifeInvariant, endpoints
<1>5. CASE Get
  BY <1>t, <1>5, GetKeeps
<1>6. CASE AddFinalizers
  BY <1>t, <1>6, AddFinalizersKeeps
<1>7. CASE Cleanup
  BY <1>t, <1>7, CleanupKeeps
<1>8. CASE \/ AddRefused \/ PublishRefused \/ DeleteRefused
           \/ RemoveFinalizers \/ RemoveRefused \/ Fail \/ AnswerLost
  BY <1>t, <1>8, TurnEndKeeps
<1>9. CASE Restart
  BY <1>t, <1>9, RestartKeeps
<1>10. CASE UNCHANGED vars
  BY <1>t, <1>10, FewerKeeps DEF vars, worker, endpoints, FewerEndpoints
<1>11. CASE Publish \/ DeleteListed \/ AllDeleted
  BY <1>t, <1>11, PublishKeeps, DeleteListedKeeps, AllDeletedKeeps
<1> QED
  BY <1>1, <1>2, <1>3, <1>4, <1>5, <1>6, <1>7, <1>8, <1>9, <1>10, <1>11
     DEF Next, Disturbance, Informer, Worker

\* The invariant holds in every state the reconciler, its users and the informer
\* reach.
THEOREM LifeInvariantHolds == Spec => []LifeInvariant
<1>1. Init => LifeInvariant
  BY LifeInit
<1>2. LifeInvariant /\ [Next]_vars => LifeInvariant'
  BY LifeStep
<1> QED
  BY <1>1, <1>2, PTL DEF Spec

\* A policy that owns an endpoint has the controller's finalizer until it is
\* being deleted: the worker publishes only after a patch the server accepted,
\* or after reading a finalizer that is not on its way out.
THEOREM EndpointsAreProtected == Spec => []ProtectedByFinalizer
<1>1. LifeInvariant => ProtectedByFinalizer
  BY DEF LifeInvariant, EndpointKnown
<1> QED
  BY <1>1, LifeInvariantHolds, PTL

\* An endpoint of a ClusterNetworkPolicy that CleanupCNP's list did not lack has a
\* living owner: every deletion is accepted before RemoveFinalizers lets the
\* policy go, and nothing is published in between.
THEOREM OrphansHaveEscaped == Spec => []OrphansEscaped
<1>1. LifeInvariant => OrphansEscaped
  BY DEF LifeInvariant, EndpointKnown, ClusterOwned, OrphansEscaped, OwnerLive, HeldAs, Held, KindSet
<1> QED
  BY <1>1, LifeInvariantHolds, PTL
=============================================================================
