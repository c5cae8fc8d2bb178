-------------------------- MODULE ConfigMapMonitor --------------------------
(***************************************************************************)
(* The controller is enabled or disabled by a ConfigMap (kube-system/      *)
(* amazon-vpc-cni).  The configmap manager (pkg/config) decides once, at   *)
(* start-up, and ends the process when the ConfigMap says otherwise later, *)
(* so that the next process decides anew.  Three goroutines take part:     *)
(* main, the reflector, which fills the ConfigMapStore (pkg/k8s) and       *)
(* signals changes over an unbuffered channel, and the listener.           *)
(***************************************************************************)
EXTENDS Naturals, Sequences

CONSTANTS
    ConfigMaps,    \* contents the ConfigMap takes on, Absent among them
    Enabling,      \* the contents with enable-network-policy-controller: "true"
    Absent,        \* the ConfigMap does not exist
    MaxLag         \* bound: changes on their way to the reflector

ASSUME ContentsTyped ==
    /\ Absent \in ConfigMaps
    /\ Enabling \subseteq ConfigMaps \ {Absent}
    /\ MaxLag \in Nat \ {0}

VARIABLES
    server,        \* the ConfigMap at the API server
    events,        \* watch events the reflector has not handled
    store,         \* the ConfigMapStore
    reflector,     \* "list", "watch", or "notify": blocked on notifyChannel
    synced,        \* LastSyncResourceVersion is set: a first list was stored
    listener,      \* listenForConfigMapUpdates: "wait", "read", "compare", "stopped"
    enabled,       \* what the listener read last
    main,          \* MonitorConfigMap: "sync", "read", "assign", "running", "failed"
    retVal,        \* what setInitialControllerState is about to assign
    initialState,  \* m.initialState: what this process does
    missed         \* history, not in the code: a change may have been overlooked

vars == <<server, events, store, reflector, synced, listener, enabled, main, retVal,
          initialState, missed>>

\* A process has just started.
Init ==
    /\ server \in ConfigMaps
    /\ events = <<>>
    /\ store = Absent
    /\ reflector = "list"
    /\ synced = FALSE
    /\ listener = "wait"
    /\ enabled = FALSE
    /\ main = "sync"
    /\ retVal = FALSE
    /\ initialState = FALSE
    /\ missed = FALSE

\* getCurrentEnabledConfig: an absent ConfigMap disables the controller.
CurrentEnabled == store \in Enabling
-----------------------------------------------------------------------------
\* Somebody edits, creates or deletes the ConfigMap.
Edit ==
    /\ Len(events) < MaxLag
    /\ \E c \in ConfigMaps \ {server} :
         /\ server' = c
         /\ events' = IF reflector = "list" THEN events ELSE Append(events, c)
    /\ UNCHANGED <<store, reflector, synced, listener, enabled, main, retVal, initialState, missed>>

\* The reflector lists the ConfigMap: Replace fills the store and tells nobody,
\* so a change of what the ConfigMap says that only a list brings is overlooked.
Replace ==
    /\ reflector = "list"
    /\ store' = server
    /\ reflector' = "watch"
    /\ synced' = TRUE
    /\ missed' = (missed \/ /\ main \in {"assign", "running"}
                            /\ (server \in Enabling) # CurrentEnabled)
    /\ UNCHANGED <<server, events, listener, enabled, main, retVal, initialState>>

\* The watch cannot be resumed; what it had not delivered is lost.
Expire ==
    /\ reflector = "watch"
    /\ reflector' = "list"
    /\ events' = <<>>
    /\ UNCHANGED <<server, store, synced, listener, enabled, main, retVal, initialState, missed>>

\* Mutant: the change is stored and nobody is told.
StoreQuietly ==
    /\ reflector = "watch"
    /\ events # <<>>
    /\ store' = Head(events)
    /\ events' = Tail(events)
    /\ missed' = FALSE
    /\ UNCHANGED <<server, reflector, synced, listener, enabled, main, retVal, initialState>>

\* Add, Update and Delete of the store: the change is stored, then sent.
Store ==
    /\ reflector = "watch"
    /\ events # <<>>
    /\ store' = Head(events)
    /\ events' = Tail(events)
    /\ missed' = FALSE
    /\ reflector' = "notify"
    /\ UNCHANGED <<server, synced, listener, enabled, main, retVal, initialState>>

\* The channel is unbuffered: the send and the receive are one step.
Notify ==
    /\ reflector = "notify"
    /\ listener = "wait"
    /\ reflector' = "watch"
    /\ listener' = "read"
    /\ UNCHANGED <<server, events, store, synced, enabled, main, retVal, initialState, missed>>

ListenerRead ==
    /\ listener = "read"
    /\ enabled' = CurrentEnabled
    /\ listener' = "compare"
    /\ UNCHANGED <<server, events, store, reflector, synced, main, retVal, initialState, missed>>

\* Mutant: the listener only reacts to the controller being enabled.
CompareEnabledOnly ==
    /\ listener = "compare"
    /\ listener' = IF enabled /\ ~ initialState THEN "stopped" ELSE "wait"
    /\ missed' = (missed \/ main = "assign")
    /\ UNCHANGED <<server, events, store, reflector, synced, enabled, main, retVal, initialState>>

\* A change closes monitorStopChan and cancels the manager's context.
ListenerCompare ==
    /\ listener = "compare"
    /\ listener' = IF initialState # enabled THEN "stopped" ELSE "wait"
    /\ missed' = (missed \/ main = "assign")
    /\ UNCHANGED <<server, events, store, reflector, synced, enabled, main, retVal, initialState>>

\* Mutant: nobody waits for the first list.
CacheAssumedSynced ==
    /\ main = "sync"
    /\ main' = "read"
    /\ UNCHANGED <<server, events, store, reflector, synced, listener, enabled, retVal, initialState, missed>>

\* WaitForCacheSync: LastSyncResourceVersion is set once the list is stored.
CacheSynced ==
    /\ main = "sync"
    /\ synced
    /\ main' = "read"
    /\ UNCHANGED <<server, events, store, reflector, synced, listener, enabled, retVal, initialState, missed>>

\* The listener stopped first: MonitorConfigMap fails and main exits.
SyncStopped ==
    /\ main = "sync"
    /\ listener = "stopped"
    /\ main' = "failed"
    /\ UNCHANGED <<server, events, store, reflector, synced, listener, enabled, retVal, initialState, missed>>

ReadInitial ==
    /\ main = "read"
    /\ retVal' = CurrentEnabled
    /\ main' = "assign"
    /\ UNCHANGED <<server, events, store, reflector, synced, listener, enabled, initialState, missed>>

\* The deferred assignment; main goes on to start the controller or not.
AssignInitial ==
    /\ main = "assign"
    /\ initialState' = retVal
    /\ main' = "running"
    /\ UNCHANGED <<server, events, store, reflector, synced, listener, enabled, retVal, missed>>

\* The manager's context is cancelled, or main failed: the process ends and
\* the kubelet starts it again.
Exit ==
    /\ main = "failed" \/ (main = "running" /\ listener = "stopped")
    /\ events' = <<>>
    /\ store' = Absent
    /\ reflector' = "list"
    /\ synced' = FALSE
    /\ listener' = "wait"
    /\ enabled' = FALSE
    /\ main' = "sync"
    /\ retVal' = FALSE
    /\ initialState' = FALSE
    /\ missed' = FALSE
    /\ UNCHANGED server

Reflector == Replace \/ Store \/ Notify
Process == ListenerRead \/ ListenerCompare \/ CacheSynced \/ SyncStopped
           \/ ReadInitial \/ AssignInitial \/ Exit

Next == Edit \/ Expire \/ Reflector \/ Process

Spec == Init /\ [][Next]_vars /\ WF_vars(Reflector) /\ WF_vars(Process)
-----------------------------------------------------------------------------
\* The types of the variables; and the process decides what to do only on a
\* store that a list has filled, so that a ConfigMap that exists is never taken
\* for an absent one because main was faster than the reflector.
TypeOK ==
    /\ server \in ConfigMaps /\ store \in ConfigMaps
    /\ events \in Seq(ConfigMaps)
    /\ reflector \in {"list", "watch", "notify"}
    /\ synced \in BOOLEAN
    /\ listener \in {"wait", "read", "compare", "stopped"}
    /\ main \in {"sync", "read", "assign", "running", "failed"}
    /\ enabled \in BOOLEAN /\ retVal \in BOOLEAN /\ initialState \in BOOLEAN
    /\ missed \in BOOLEAN
    /\ main \in {"read", "assign", "running"} => synced

\* "listen for the messages in the storeNotifyChan in a loop and update the
\* state of the policy controller accordingly": when no signal is under way, a
\* running process does what the ConfigMap it has stored says.
ActsOnStore ==
    main = "running" /\ listener = "wait" /\ reflector = "watch" => initialState = CurrentEnabled

\* What the code does guarantee: a change is overlooked only if the store got
\* it from a relist, or if the listener compared it with initialState between
\* setInitialControllerState's read of the store and its assignment; and the
\* next change that is signalled makes up for it.
ActsUnlessMissed == ~ missed => ActsOnStore

\* However edits, expired watches and start-up interleave, once nobody edits
\* the ConfigMap the process is not restarted over and over, the unbuffered
\* channel blocks nobody for good, and but for an overlooked change the process
\* does what the ConfigMap says.
FollowsUnlessMissed ==
    <>[][~ Edit]_vars =>
        <>[] /\ main = "running" /\ listener # "stopped"
             /\ missed \/ initialState = (server \in Enabling)
=============================================================================
