---------------------------- MODULE PolicyEvents ----------------------------
(***************************************************************************)
(* From an event to a reconcile: the event handlers of                     *)
(* internal/eventhandlers, the policy tracker of pkg/resolvers and the     *)
(* work queue, for one policy.                                             *)
(*                                                                         *)
(* Each informer updates its cache first and calls its handler later, in a *)
(* goroutine of its own.  The handlers of pods, namespaces and services    *)
(* look for the policies a change can affect: in the cache for pods of the *)
(* policy's namespace, through the tracker for services and for peers in   *)
(* other namespaces.  They send those policies, as they read them, over a  *)
(* channel; the policy event handler takes them from there, updates the    *)
(* tracker and queues the key.  The reconcile reads the policy, then pods, *)
(* namespaces and services one list after the other, and publishes what it *)
(* found.                                                                  *)
(*                                                                         *)
(* What objects contain is left out.  The model only records which inputs  *)
(* of the resolution have not changed since the worker read them.          *)
(***************************************************************************)
EXTENDS Naturals, Sequences

CONSTANTS
    IsCluster,   \* TRUE for a ClusterNetworkPolicy: the handlers list them all
    References,  \* subset of BOOLEAN: may the spec have a namespaceSelector peer?
    EgressRules, \* subset of BOOLEAN: may the spec have egress rules?
    Places,      \* where things change, of the four below
    Overlooked,  \* subset of BOOLEAN: may the handler's check overlook a service?
    MaxNotes,    \* bound: notifications a handler has not seen
    MaxPolicyNotes, \* bound: those the policy event handler has not seen
    MaxChannel,  \* bound: policies in the channel
    Absent       \* no policy

Policy == [refs : References, egress : EgressRules, deleting : BOOLEAN]

\* What a policy resolves to depends on pods of its own namespace ("local")
\* and, through namespaceSelector peers, on those of others ("remote"); with
\* egress rules also on the services there.
AllPlaces == {"local", "remote", "localService", "remoteService"}
Inputs == Places \cup {"policy"}

\* The handlers and the places each is told of.
Handlers == {"pod", "namespace", "service"}
Watches == [pod |-> {"local", "remote"}, namespace |-> {"remote"},
            service |-> {"localService", "remoteService"}]
Note(h) ==
    {note \in [place : Places, overlooked : Overlooked] :
        note.place \in Watches[h] /\ (note.overlooked => h = "service")}

Depends(object, place) ==
    \/ IsCluster
    \/ /\ place \in {"remote", "remoteService"} => object.refs
       /\ place \in {"localService", "remoteService"} => object.egress

ASSUME EventsTyped ==
    /\ IsCluster \in BOOLEAN /\ Places \subseteq AllPlaces
    /\ References \subseteq BOOLEAN /\ EgressRules \subseteq BOOLEAN
    /\ FALSE \in Overlooked /\ Overlooked \subseteq BOOLEAN
    /\ {MaxNotes, MaxPolicyNotes, MaxChannel} \subseteq Nat \ {0}
    /\ Absent \notin Policy

VARIABLES
    policy,      \* the policy in the cache
    finalizer,   \* the API server's object has the controller's finalizer
    held,        \* the object in the cache has it
    policyNotes, \* notifications for the policy event handler: the new object
    notes,       \* for the other handlers: the place of the change
    sending,     \* the policy a handler is about to send
    channel,     \* policyEventChan and the buffer of its source
    tracked,     \* the sets of the tracker that hold the policy
    halfway,     \* writers of the tracker that have changed one set of two
    queued,      \* the work queue holds the key
    pc,          \* the worker: "idle", "resolving", "cleaning" or "releasing"
    unread,      \* places the resolver has not listed yet
    seen,        \* inputs the worker has read that did not change since
    fresh,       \* inputs of the published endpoints that did not change since
    untracked    \* history: the worker took a newer policy from the tracker

informers == <<policy, finalizer, held>>
tracker == <<tracked, halfway, untracked>>
worker == <<pc, unread, seen>>
vars == <<informers, policyNotes, notes, sending, channel, tracker, queued, worker, fresh>>

Init ==
    /\ policy = Absent
    /\ finalizer = FALSE /\ held = FALSE
    /\ policyNotes = <<>>
    /\ notes = [h \in Handlers |-> <<>>]
    /\ sending = [h \in Handlers |-> Absent]
    /\ channel = <<>>
    /\ tracked = {} /\ halfway = {} /\ untracked = FALSE
    /\ queued = FALSE
    /\ pc = "idle"
    /\ unread = {} /\ seen = {}
    /\ fresh = {}

\* A policy that is to be resolved and published.
Wanted == policy # Absent /\ ~ policy.deleting
-----------------------------------------------------------------------------
(***************************************************************************)
(* The informers.                                                          *)
(***************************************************************************)
Changed(input) == seen' = seen \ {input} /\ fresh' = fresh \ {input}

\* A policy is created, edited, deleted; the object goes with its finalizers.
\* (It may have a finalizer of another controller.)  No finalizer is added to an
\* object that is being deleted.
ChangePolicy ==
    /\ Len(policyNotes) < MaxPolicyNotes
    /\ \/ /\ policy = Absent /\ policy' \in {p \in Policy : ~ p.deleting}
          /\ UNCHANGED held
       \/ /\ policy # Absent /\ policy' \in {p \in Policy : policy.deleting => p.deleting}
          /\ held' \in IF policy.deleting THEN {held, finalizer} ELSE {finalizer}
       \/ policy # Absent /\ ~ finalizer /\ policy' = Absent /\ held' = FALSE
    /\ policyNotes' = Append(policyNotes, policy')
    /\ Changed("policy")
    /\ UNCHANGED <<finalizer, notes, sending, channel, tracker, queued, pc, unread>>

\* The cache receives the policy with its finalizers as they are; Update ignores
\* such a change.
ReceiveFinalizer ==
    /\ policy # Absent /\ held # finalizer
    /\ held' = finalizer
    /\ UNCHANGED <<policy, finalizer, policyNotes, notes, sending, channel, tracker, queued,
                   worker, fresh>>

\* Pods or services change in a namespace, or a namespace's labels do, in a way
\* that passes the filters of Create, Update and Delete.  A service may also
\* lose its cluster IP, or have no selector: such a change is overlooked.
ChangeWorld(h, note) ==
    /\ Len(notes[h]) < MaxNotes
    /\ notes' = [notes EXCEPT ![h] = Append(@, note)]
    /\ Changed(note.place)
    /\ UNCHANGED <<informers, policyNotes, sending, channel, tracker, queued, pc, unread>>
-----------------------------------------------------------------------------
(***************************************************************************)
(* The handlers.                                                           *)
(***************************************************************************)

\* UpdateGenericPolicy: the sets a policy belongs to.  A ClusterNetworkPolicy
\* counts as referring to namespaces always.
Tracks(object) ==
    {kind \in {"namespaced", "egress"} :
        IF kind = "egress" THEN object.egress ELSE IsCluster \/ object.refs}

\* The tracker has a map for each set, and no lock for both.  Its writers are
\* the policy event handler, called by the policy informer and, with what comes
\* over the channel, by another goroutine, and the worker.
Writers == {"informer", "channel", "worker"}
Writing(w) ==
    \/ w = "informer" /\ policyNotes # <<>>
    \/ w = "channel" /\ channel # <<>>
    \/ w = "worker" /\ pc = "cleaning"
Written(w) ==
    IF w = "informer" THEN Head(policyNotes) ELSE IF w = "channel" THEN Head(channel) ELSE Absent

\* UpdateGenericPolicy and RemoveGenericPolicy store or delete the policy in the
\* set of those that refer to namespaces, then in that of those with egress rules.
Track(w, kind) ==
    /\ tracked' = (tracked \ {kind}) \cup
                      IF Written(w) = Absent THEN {} ELSE Tracks(Written(w)) \cap {kind}
    /\ untracked' = (untracked \/ (w = "worker" /\ Wanted /\ ~ IsCluster))

TrackNamespaces(w) ==
    /\ Writing(w) /\ w \notin halfway
    /\ Track(w, "namespaced")
    /\ halfway' = halfway \cup {w}
    /\ UNCHANGED <<informers, policyNotes, notes, sending, channel, queued, worker, fresh>>
TrackEgress(w) ==
    /\ w \in halfway
    /\ Track(w, "egress")
    /\ halfway' = halfway \ {w}

\* Mutant: the tracker is updated, the key is not queued.
HandlePolicyQuietly ==
    /\ TrackEgress("informer")
    /\ policyNotes' = Tail(policyNotes)
    /\ UNCHANGED <<informers, notes, sending, channel, queued, worker, fresh>>

\* Create, Update and Delete of the policy event handler: all but Delete queue
\* the key once the tracker is updated.
HandlePolicy ==
    /\ TrackEgress("informer")
    /\ queued' = (queued \/ Head(policyNotes) # Absent)
    /\ policyNotes' = Tail(policyNotes)
    /\ UNCHANGED <<informers, notes, sending, channel, worker, fresh>>

\* A policy of the pod's namespace is found by listing, one of another
\* namespace through the tracker and its namespaceSelector peers.
ReferredByPod(place) == place = "local" \/ ("namespaced" \in tracked /\ policy.refs)
ReferredByNamespace == "namespaced" \in tracked /\ policy.refs

\* A service is looked up in the tracker always: among the policies with egress
\* rules of its namespace, or among those that refer to namespaces as well.
PotentialMatch(place) ==
    "egress" \in tracked /\ (place = "localService" \/ "namespaced" \in tracked)

\* Nothing is found for a service that is headless now, whatever it was before,
\* nor for a podSelector peer by a service without a selector.
ReferredByService(note) ==
    ~ note.overlooked /\ PotentialMatch(note.place) /\ Depends(policy, note.place)

\* GetReferred...PoliciesForPod, ...ForNamespace, ...ForService: all cluster
\* policies are listed.
Referred(h, note) ==
    /\ policy # Absent
    /\ \/ IsCluster
       \/ h = "pod" /\ ReferredByPod(note.place)
       \/ h = "namespace" /\ ReferredByNamespace
       \/ h = "service" /\ ReferredByService(note)

\* The handler finds the policy and takes a copy of it, or drops the event.
FindPolicies(h) ==
    /\ notes[h] # <<>>
    /\ sending[h] = Absent
    /\ sending' = [sending EXCEPT ![h] = IF Referred(h, Head(notes[h])) THEN policy ELSE Absent]
    /\ notes' = [notes EXCEPT ![h] = Tail(@)]
    /\ UNCHANGED <<informers, policyNotes, channel, tracker, queued, worker, fresh>>

\* Mutant: the handler sends what it found, even if that is nothing.
SendBlindly(h) ==
    /\ Len(channel) < MaxChannel
    /\ channel' = Append(channel, sending[h])
    /\ sending' = [sending EXCEPT ![h] = Absent]
    /\ UNCHANGED <<informers, policyNotes, notes, tracker, queued, worker, fresh>>

\* The send blocks while the channel is full.
Send(h) ==
    /\ sending[h] # Absent
    /\ Len(channel) < MaxChannel
    /\ channel' = Append(channel, sending[h])
    /\ sending' = [sending EXCEPT ![h] = Absent]
    /\ UNCHANGED <<informers, policyNotes, notes, tracker, queued, worker, fresh>>

\* Generic: the copy that was sent updates the tracker, then the key is queued.
HandleGeneric ==
    /\ TrackEgress("channel")
    /\ queued' = TRUE
    /\ channel' = Tail(channel)
    /\ UNCHANGED <<informers, policyNotes, notes, sending, worker, fresh>>
-----------------------------------------------------------------------------
(***************************************************************************)
(* The worker.                                                             *)
(***************************************************************************)

\* The worker reads the policy from the cache.  One that is being deleted is
\* cleaned up if the object that was read has the finalizer; any other gets the
\* finalizer and is resolved.
Take ==
    /\ pc = "idle"
    /\ queued
    /\ queued' = FALSE
    /\ \/ /\ Wanted
          /\ pc' = "resolving" /\ unread' = Places /\ seen' = {"policy"}
          /\ finalizer' = TRUE
       \/ /\ ~ Wanted
          /\ pc' = IF policy # Absent /\ held THEN "cleaning" ELSE "idle"
          /\ UNCHANGED <<unread, seen, finalizer>>
    /\ UNCHANGED <<policy, held, policyNotes, notes, sending, channel, tracker, fresh>>

\* The rest of RemovePolicy.  The policy the worker read may be gone by now, and
\* another one of its name there.
Untrack ==
    /\ TrackEgress("worker")
    /\ pc' = "releasing"
    /\ UNCHANGED <<informers, policyNotes, notes, sending, channel, queued, unread, seen, fresh>>

\* RemoveFinalizers.
Release ==
    /\ pc = "releasing"
    /\ finalizer' = FALSE
    /\ pc' = "idle"
    /\ UNCHANGED <<policy, held, policyNotes, notes, sending, channel, tracker, queued, unread,
                   seen, fresh>>

\* The lists of the resolver, in any order.
Read(place) ==
    /\ place \in unread
    /\ unread' = unread \ {place}
    /\ seen' = seen \cup {place}
    /\ UNCHANGED <<informers, policyNotes, notes, sending, channel, tracker, queued, pc, fresh>>

\* The manager writes what was resolved.
Publish ==
    /\ pc = "resolving"
    /\ unread = {}
    /\ fresh' = seen
    /\ pc' = "idle" /\ seen' = {}
    /\ UNCHANGED <<informers, policyNotes, notes, sending, channel, tracker, queued, unread>>

\* Mutant: an error is swallowed.
FailQuietly ==
    /\ pc \in {"resolving", "releasing"}
    /\ pc' = "idle" /\ unread' = {} /\ seen' = {}
    /\ UNCHANGED <<informers, policyNotes, notes, sending, channel, tracker, queued, fresh>>

\* The reconcile or the cleanup fails and the key is queued again.
Fail ==
    /\ pc \in {"resolving", "releasing"}
    /\ pc' = "idle" /\ unread' = {} /\ seen' = {}
    /\ queued' = TRUE
    /\ UNCHANGED <<informers, policyNotes, notes, sending, channel, tracker, fresh>>

\* The controller stops and starts again with empty queues and an empty
\* tracker.  The initial lists fill the caches; of the handlers only that of
\* policies acts on them (IsInInitialList).
Restart ==
    /\ held' = (policy # Absent /\ finalizer)
    /\ policyNotes' = IF policy = Absent THEN <<>> ELSE <<policy>>
    /\ notes' = [h \in Handlers |-> <<>>]
    /\ sending' = [h \in Handlers |-> Absent]
    /\ channel' = <<>>
    /\ tracked' = {} /\ halfway' = {} /\ untracked' = FALSE
    /\ queued' = FALSE
    /\ pc' = "idle" /\ unread' = {} /\ seen' = {}
    /\ UNCHANGED <<policy, finalizer, fresh>>

\* The goroutines.
Informer == TrackNamespaces("informer") \/ HandlePolicy
Receiver == TrackNamespaces("channel") \/ HandleGeneric
Worker ==
    \/ Take \/ TrackNamespaces("worker") \/ Untrack \/ Release \/ Publish
    \/ \E place \in Places : Read(place)

Disturbance ==
    \/ ChangePolicy \/ Fail \/ Restart
    \/ \E h \in Handlers : \E note \in Note(h) : ChangeWorld(h, note)

Calm ==
    \/ ReceiveFinalizer \/ Informer \/ Receiver \/ Worker
    \/ \E h \in Handlers : FindPolicies(h) \/ Send(h)

Next == Disturbance \/ Calm

\* The goroutines of the handlers and the worker keep running.
Spec ==
    /\ Init /\ [][Next]_vars
    /\ WF_vars(Informer) /\ WF_vars(Receiver) /\ WF_vars(Worker)
    /\ \A h \in Handlers : WF_vars(FindPolicies(h)) /\ WF_vars(Send(h))
-----------------------------------------------------------------------------
\* The types of the variables of handlers, tracker, queue and worker.
TypeOK ==
    /\ policy \in Policy \cup {Absent}
    /\ policyNotes \in Seq(Policy \cup {Absent})
    /\ notes = [h \in Handlers |-> notes[h]] /\ \A h \in Handlers : notes[h] \in Seq(Note(h))
    /\ sending \in [Handlers -> Policy \cup {Absent}]
    /\ channel \in Seq(Policy)
    /\ finalizer \in BOOLEAN /\ held \in BOOLEAN /\ queued \in BOOLEAN /\ untracked \in BOOLEAN
    /\ tracked \subseteq {"namespaced", "egress"}
    /\ halfway \subseteq Writers
    /\ \A w \in halfway : Writing(w)
    /\ pc \in {"idle", "resolving", "cleaning", "releasing"}
    /\ unread \subseteq Places /\ seen \subseteq Inputs /\ fresh \subseteq Inputs

\* The published endpoints were resolved from the policy and the pods,
\* namespaces and services it depends on as they are now.
UpToDate ==
    Wanted => {"policy"} \cup {place \in Places : Depends(policy, place)} \subseteq fresh

\* Nothing is under way to a reconcile.
Quiet ==
    /\ policyNotes = <<>> /\ channel = <<>> /\ ~ queued /\ pc = "idle"
    /\ \A h \in Handlers : notes[h] = <<>> /\ sending[h] = Absent

\* No change of the policy or of what it depends on gets lost between the
\* informers, handlers, tracker, channel and work queue: when nothing is under
\* way to a reconcile, the published endpoints are up to date.
NoLostChange == Quiet => UpToDate

\* No change gets lost unless the worker, which had read a policy that was being
\* deleted, took one that was created since from the tracker (RemovePolicy in
\* cleanupNetworkPolicy).
NoLostChangeUnlessUntracked == ~ untracked => NoLostChange

\* Once nothing changes and nothing fails any more, the controller publishes
\* the endpoints as they should be, but for that case, and leaves the policy
\* alone.
ComesToRest == <>[][Calm]_vars => <>[](Quiet /\ NoLostChangeUnlessUntracked)
=============================================================================
