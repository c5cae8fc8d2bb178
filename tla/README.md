# Verification of the Amazon network policy controller

This directory holds TLA+ models of the network policy controller in `src/`,
the TLC configurations that check them and TLAPS proofs about them. Paths below
are relative to the repository root unless they end in `.tla` or `.cfg`.

## 1. The system

The controller watches policies, pods, namespaces and services. For every
`NetworkPolicy` (NP), `ApplicationNetworkPolicy` (ANP) and
`ClusterNetworkPolicy` (CNP) it computes the addresses and ports the rules stand
for and publishes them in `PolicyEndpoint` (`ClusterPolicyEndpoint`) objects,
which agents on the nodes enforce. A policy's rules are spread over several
objects of at most `endpointChunkSize` entries of each kind.

| component | source | state | operations |
|---|---|---|---|
| policy endpoints manager | `pkg/policyendpoints` | none of its own: the endpoints at the API server, read through an informer cache | `Reconcile`, `ReconcileANP`, `ReconcileCNP`, three `Cleanup`s |
| endpoint equality | `pkg/equality` | none | comparison of endpoints without order |
| policy reconciler | `internal/controllers` | the work queue of controller-runtime | `Reconcile` of a key, watches |
| finalizer manager | `pkg/k8s/finalizer.go` | none: finalizers of policies | `AddFinalizers`, `RemoveFinalizers` |
| event handlers | `internal/eventhandlers` | the channel `policyEventChan` | `Create`, `Update`, `Delete`, `Generic` for policies, pods, namespaces and services |
| policy tracker | `pkg/resolvers/policy_tracker.go` | sets of policies with namespace references and with egress rules | `UpdatePolicy`, `RemovePolicy` and the generic twins |
| policy reference resolver | `pkg/resolvers/policies*.go` | none | which policies a pod, namespace or service can affect |
| endpoints resolvers | `pkg/resolvers/endpoints.go` and the ANP and CNP twins | none | what a policy's rules resolve to |
| configmap manager | `pkg/config/configmap_manager.go`, `pkg/k8s/configmap_store.go` | `ConfigMapStore`, `initialState`, two channels | `MonitorConfigMap`, `listenForConfigMapUpdates`, the store's operations |
| CRD manager | `pkg/crd` | none: CRDs at the API server | `Start`: ensures the CRDs and waits for them; `monitorCRDs` |
| policy metrics | `pkg/metrics` | a gauge and counters | `OnPolicyCreated`, `OnPolicyDeleted`, `InitializePolicyObjectCounts` |
| start-up, configuration | `cmd/main.go`, `pkg/config` | flags | wiring, exit |

How they interact: informers (one goroutine per watched type) update caches and
call the event handlers. The handlers of pods, namespaces and services ask the
reference resolver, which uses caches and the tracker, and send the policies
they find over `policyEventChan` to the policy event handler, which updates the
tracker and queues a key. A worker takes a key, reads the policy from a cache,
adds the finalizer, lets the resolver compute the rules and the manager list
the existing endpoints from a cache and write the difference. `PolicyEndpoint`s
are read through a cache but not watched for reconciles, so nothing repairs an
endpoint until its policy is queued for another reason. At start-up the
configmap manager decides whether the controller is enabled, and later ends the
process when the ConfigMap changes its mind. Before that the CRD manager of every
replica creates the CRDs that are missing and waits for them; afterwards it polls
them and ends the process when one is gone.

What is hard, and the properties that answer it (`PROJECT.json` lists each
hazard at its line):

* a reconcile is a sequence of writes computed from a cached list: writes fail,
  their answers get lost, the process restarts, the cache lacks its last
  writes; in the end exactly the policy must be published (`PublishedExactly`,
  `ConvergesUnlessStale`, `ImplementsPublication`), no wanted entry may be away in between (`PublishedStepwise`),
  and no object may outgrow the chunk size (`ChunksBounded`);
* the packing loop juggles two chunk pointers (`EveryRulePlacedOnce`,
  `PackedGreedily`, `KeptExactlyTheUsed`, `Terminates`);
* policies are created, deleted and created again while finalizers are patched
  with optimistic locks from stale reads, and endpoints are listed from a cache that
  lacks the newest (`ProtectedByFinalizer`, `OrphansEscaped`, `Released`,
  `SettlesUnlessDoubtful`);
* a change only leads to a reconcile if the handlers' filters and the reference
  resolver recognise that the policy's resolution depends on it; both are written
  apart from the resolvers they have to agree with (`RecognisesChanges`);
* named ports are numbers that differ from pod to pod, and services translate
  ports once more (`ServicePortsLeadToAllowedPorts`); entries of several rules
  are merged by a string key (`MergeKeepsRules`);
* replicas create and wait for the same CRDs, which others delete
  (`RunsOnEstablished`, `StopsOnlyForRemoval`, `Recovers`);
* six goroutines stand between a change and the reconcile it needs
  (`NoLostChangeUnlessUntracked`, `ComesToRest`);
* the configmap listener, the reflector and `main` share a store, a flag and an
  unbuffered channel (`ActsUnlessMissed`, `FollowsUnlessMissed`).

## 2. The modules

| module | models | instance |
|---|---|---|
| `GreedyFill` | what the six packing functions promise | |
| `Packing` | their loop, statement by statement | `MCPacking` |
| `EndpointRules` | entries of an endpoint, merging, comparison | |
| `PolicyEndpointsManager` | a policy's reconciles against API server and cache | `MCPolicyEndpointsManager` |
| `Publication` | what a policy's reconciles promise the node agents | |
| `ManagerPublishes` | `PolicyEndpointsManager` as an implementation of `Publication` | `MCPolicyEndpointsManager` |
| `PolicyController` | a policy's life: key, finalizer, publication, cleanup, garbage collection | `MCPolicyController` |
| `PolicyEvents` | informers, handlers, tracker, channel, queue | `MCPolicyEvents` |
| `Resolvers` | what NP, ANP and CNP resolve to, as operators over the cache | |
| `Resolution` | filters of the handlers and reference resolver against `Resolvers` | `MCResolution` |
| `ConfigMapMonitor` | configmap manager and process start | `MCConfigMapMonitor` |
| `CRDManager` | CRD manager of several replicas, process start and exit | `CRDManager` |
| `PackingProofs`, `EndpointRulesProofs`, `PolicyEndpointsManagerProofs`, `PolicyControllerProofs`, `PolicyEventsProofs`, `ResolutionProofs`, `ConfigMapMonitorProofs`, `CRDManagerProofs` | theorems about the module of that name | |

The modules compose by abstraction: `Packing` is shown to compute what
`GreedyFill` states, `PolicyEndpointsManager` uses `GreedyFill` in place of the
loop, and `PolicyController` one write and the delete loop in place of a manager
call.
`PolicyEvents` in turn uses one step for that publication and looks at what was
read when; that its handlers recognise the changes that matter is what
`Resolution` checks on objects with contents. `PolicyEndpointsManager` implements
the abstract `Publication`. Definitions named "Mutant" in a comment are plausible bugs: they are
used by no specification, and the properties are shown to notice them.

### Packing

One behaviour is one call of `packingIngressRules` (or one of its five twins).
Slots are the endpoints in the order the code tries them; a rule is its index.
`BeginSlot`, `GrowChunk`, `EndChunk` and `EndSlot` are the parts of the two
nested loops, `SplitRemaining` is `lo.Chunk`. `lo.Chunk` panics for a chunk
size of zero; the model assumes a positive one (`ChunkSizePositive`).

### EndpointRules and PolicyEndpointsManager

An entry is a peer and a list of ports. The peer stands for everything
`getCombineKey` compares (CIDR and exceptions, domain name, action); the empty
list means all ports. Two entries have equal keys (`getEndpointInfoKey`) only if
they list ports in the same order, so an entry with reordered ports, or one that
was merged, is not recognised by the next reconcile and is packed anew.

`StartReconcile` is everything up to the first write: it resolves the policy,
lists the cache and computes the create, update and delete lists. Map iteration
and list order are nondeterministic choices (`Listings`, `Packings`, `Merges`).
`Write`, `Skip` and `Refused` carry the lists out in the code's order.
`Patched` is the merge patch of NP and ANP endpoints, which carries no resource
version and replaces only fields that differ from the cached object;
`ReconcileCNP` (`IsCluster`) uses `Update`, which is refused when the listed
object was old. `Fail`, `AnswerLost`, `Restart`, `Change` and `WatchEvent` are
the environment. A policy that resolves to nothing keeps one endpoint
(`KeepOne`).

### Publication

What the agents may rely on, without objects, chunks, caches and work lists: the
union of the entries of all endpoints (`published`), and rounds that move it
towards the policy read at their beginning (`target`). No step adds what the
policy does not want (`Approach`). A round that knows what is published (`sound`)
also takes no wanted entry away, and ends with exactly the policy's traffic
published and one isolation (`Finish`), or is given up and due again (`GiveUp`); one
that is mistaken about it may end with less or with more. The refinement mapping
of `ManagerPublishes` is the union over the server's objects, `goal` for the round,
`queued` for `due` and `stale = {}` for `sound`: a reconcile is sound if its list was
what the server had. It is checked for NP and ANP, and proved for CNP without mixed
rules as well. Nothing in the manager waits for the cache: reconciles from an old
list are among its behaviours in every run.

### PolicyController

`kinds` is the sequence of kinds `reconcile` tries for a key: NP then ANP for a
key with a namespace, CNP for one without. Each step of the worker is one call
of the code: `Get`, `AddFinalizers`, `Publish`, `Cleanup`, `RemoveFinalizers`;
an error is collected and the next kind is tried (`NextKind`). A finalizer patch
has an optimistic lock, so it is accepted if the cached object is the server's
(`Patchable`); the retries of `RetryOnConflict` read the cache again and are
repetitions of the step, and when they are used up the step fails (`AddRefused`,
`RemoveRefused`). `Cleanup` of NP and ANP lists endpoints by a label that no
endpoint carries and so deletes nothing (`CleanupDeletes`); their endpoints are
left to the garbage collector. That of CNP lists by index.

Endpoints (`pe`) are listed from the cache of their informer (`peCache`, `Listed`),
which follows the server through `peEvents`. What a policy resolves to fits in one
endpoint here, so `Publish` keeps a listed endpoint that has it, or else writes a
listed one (refused for a CNP if the copy is old, and for any kind if the object is
gone: `Accepted`, `PublishRefused`), or else creates one; the other listed ones are
deleted one by one (`DeleteListed`), and a delete of one that is gone is an error
(`DeleteRefused`). `Cleanup` of a CNP deletes what it lists with the same loop,
before `RemoveFinalizers`. How several endpoints share the rules is
`PolicyEndpointsManager`'s subject. Two history variables record where the old list
matters: `escaped`, the endpoints a CNP's cleanup did not list, and `doubtful`, the
kinds last published from an old list or into the endpoint of another owner.
`isNewPolicy` and the metrics are left out.

### PolicyEvents

One policy, the handlers of pods, namespaces, services and policies, the
tracker, the channel and the queue. What objects contain is left out: the model
records which inputs of the resolution (the policy, pods of its namespace, pods
and namespaces elsewhere, services in either) have not changed since the worker
read them (`seen`), and since the published endpoints were computed (`fresh`).
`Depends` says which of them a policy's resolution uses. `tracked` holds the
sets of the tracker the policy is in: the one of policies with namespaceSelector
peers and the one of policies with egress rules, which the service handler uses
(`PotentialMatch`). They are two maps without a common lock, and three goroutines
write them, one after the other: the policy handler called by the informer
(`HandlePolicy`), the same called with what comes over the channel (`HandleGeneric`)
and the worker's `RemovePolicy` (`Untrack`). `TrackNamespaces` is the first half of
each, `TrackEgress` the second, and `halfway` says who is in between. `Overlooked`
says whether services may change in a way the service handler ignores although the
resolution changes (section 5). An informer's cache changes before its handler runs.
A handler takes a copy of the policy when it finds it (`sending`) and the copy
updates the tracker when it arrives, which may be later than a newer version of the
policy.

The worker reads the policy from the cache (`Take`). One that is being deleted is
cleaned up if the object it read has the finalizer (`held`; the API server's object
may have lost it already), in steps of its own: the two sets of the tracker, then
the finalizer (`Release`). In between the policy may go and another of its name
come. `untracked` is a history variable that is set when the worker takes such a
policy from the tracker.

### Resolvers and Resolution

`Resolvers` translates `endpoints.go` and the two resolvers that convert an ANP
or CNP rule to an NP. A selector is the set of labels it requires; a pod, a
service, a block or a domain stands for its address; there is one protocol.
Named ports keep their meaning: for ingress they are looked up on all selected
pods (`IngressPorts`), for egress on each peer (`PortList`), for blocks they are
dropped (`CIDRPorts`), for domains of an ANP they become "no port"
(`FQDNPorts`), and a service's listen port is found by target or through a pod
(`MatchingServicePorts`, whose result is a set where the code takes the first
pod of an unordered list). "No ports" and "no port could be resolved" are told
apart where the code does (`Unresolved`). Container ports, names and services'
ports are lists, since the code takes the first match.

`Resolution` lets pods, namespaces and services change in any order and hands
each change to the handler of its type later (`notes`), when the caches may have
moved on. `Referred` is the handlers' `enqueueReferredPolicies` with the look-ups
of `policies_for_*.go`; `Ignored` names the changes the code drops by design or
oversight (section 5): events of a pod without address or of a service without
cluster IP, of services without selector for a policy with an egress
`podSelector: {}`, and of pods and services of the policy's namespace for a peer in
which nothing is set, each only where the look-up finds nothing; and `overlooked` is a history variable that is set when
one of them changed the resolution.

### CRDManager

Each request of `ensureAllCRDs`, `waitForCRDsEstablished` and
`monitorCRDsWithInterval` is a step, for several replicas at once. A CRD that is
deleted exists until its objects are gone (`Delete`, `Vanish`) and is then
created, not established, by the next process that starts. The wait does not
create it; it times out (`Timeout`), `main` exits and the kubelet starts the
process again (`Begin`). Errors end a start (`Crash`, `AnswerLost`) but not the
monitor (`MonitorFails`). `Delay` lets a request outlast ticks.

### ConfigMapMonitor

`main` (`MonitorConfigMap`), the reflector with the store, and the listener, with
the unbuffered channel between the last two and the end and restart of the
process. `initialState` is a plain field written by `main` and read by the
listener; `main` decides only on a store that the reflector has listed. `missed` is
a history variable: it is set when a list that replaces the store changes whether
the controller is to be enabled after `main` decided, and when the listener compares
between `main`'s decision and its assignment, the two windows in which the code
overlooks a change; the next signalled change clears it.

## 3. The runs

Passing runs:

| run | instance | shows |
|---|---|---|
| `packing` | chunk size 3, up to 7 rules, up to 3 endpoints holding up to 4 entries | the loop terminates, places every rule once, first fit, and `doNotDelete` is the set of endpoints it used. 7 rules overflow two full chunks; 4 entries is over-full, as after the chunk size was lowered |
| `manager_chunked` | 2 versions of a policy, chunk size 2, 3 object names, lagging cache | exact and stepwise publication, chunk bound, and that it implements `Publication`, with failures, lost answers and restarts. One rule stays while others come and go; a version needs two endpoints and has two rules of one peer, which are merged |
| `manager_cluster` | 3 versions of a CNP, one without rules, one with two rules that are merged, one with rules of two kinds; chunk size 2, lagging cache | exact publication whatever earlier reconciles left; convergence unless the last reconcile listed an old cache |
| `lifecycle` | one NP, and a CNP created twice; 2 specs; 2 endpoint names; 1 event of each policy and 2 of endpoints on their way | finalizer before endpoints; only endpoints that `CleanupCNP` did not list outlive a CNP; in the end every policy is published in one endpoint of its own unless its publication was doubtful, nothing is left without a policy, and finalizers are released |
| `events` | a policy with namespaceSelector peers and egress rules; changes of pods of its namespace and of services elsewhere; 1 waiting notification of each handler, 1 policy in the channel | no lost change but for `untracked`; the system comes to rest |
| `resolution` | 5 NP and ANP and 2 CNP; pods `a` (5 states) and `b` (2), a namespace that is relabelled or gone, a service with 4 forms; 2 events on their way | the handlers recognise every change of the resolution that is not in `Ignored`; the port of a cluster IP leads to allowed ports only; merging CNP entries loses no rule |
| `crds` | 2 replicas, 2 CRDs, 2 ticks | controllers start on established CRDs only, end only for a removal, and in the end all run on all CRDs |
| `configmap` | contents "true", "false" and absent; up to 3 events of lag | the process acts on every change that is not missed, and is not restarted for ever |

Runs that find a disagreement between the code and what it says of itself:

| run | shows |
|---|---|
| `manager_cluster_all_ports` | CNP rules for all ports and for port 80 of one peer merge into an entry for port 80 (the NP code treats the empty list specially) |
| `manager_lagging` | a create takes effect and its answer is lost, the policy changes, and the next reconcile lists a cache without that endpoint: it creates another, ends well, and the first stays beside it for good |
| `lifecycle_recreated` | an NP is deleted and created again before the garbage collector ran: the new policy fills the old endpoint, which keeps its owner reference and is then collected |
| `events_tracker` | a generic event carries a copy of the policy from before an edit and removes the policy from the tracker; a later change of a peer in another namespace finds no policy |

Bounds. `MaxLag`, `MaxPELag`, `MaxNotes`, `MaxPolicyNotes` and `MaxChannel` bound what
is on its way. The writer waits at the bound, and one entry is enough for a list, a
look-up or a patch to be made from an old cache, which is what the properties are
about: a reconcile that listed it goes on with the old list after the event has
arrived. Two endpoint events let a worker make a duplicate of an endpoint it has not
seen and delete it later. Besides the notification that waits, each handler of
`PolicyEvents` may have one in hand. `Places` is restricted to one place whose
policies are listed and one whose policies are found through both sets of the
tracker; the handler of namespaces and pods of other namespaces take part in
`events_tracker` and are covered by the proof, as are all larger bounds for the
safety properties. `PEs` is
larger than the number of endpoints a version needs, so that duplicates made
from an old list exist beside the right ones (in `lifecycle`, two for one).
`MaxCreated` is 2 where a name is
used again. `MaxPending` is 2 so that one object changes between another's change
and the handler's look at it. In `resolution` a pod declares the port name as 80
and another as 8080, and services target the name or a number; the policies
cover own-namespace and namespaceSelector peers, named, numbered, missing and
ranged ports, blocks, domains, a peer in which nothing is set and rules without
peers. Two CRDs make the loops
have a beginning and an end and let one vanish behind the position of a loop; two
ticks let the wait go on and time out. Deadlock is checked in every run but `packing`, whose behaviours
end when the call returns.

Fairness. The worker, the informers, the handlers, the listener, the reflector
and the garbage collector are weakly fair: they are goroutines (or another
process) that keep running, blocked only on what their guards say. Requests are
not assumed to succeed: `Fail` and `AnswerLost` are `Disturbance`s, and the
liveness properties only speak of behaviours in which disturbances end. The
premise is that in the end no step is a disturbance (`<>[][~ Disturbance]_vars`, in `ConfigMapMonitor` no step an edit) or,
where a step of the undisturbed system can look like one (`PolicyEvents`,
`CRDManager`), that in the end every step is one of the undisturbed system's
(`<>[][Calm]_vars`).
In `CRDManager` the API server is weakly fair in establishing and removing CRDs,
and `Timeout` is strongly fair: the `select` chooses at random between a timeout
and a tick that are both ready, so a process that waits for ever meets the
timeout. That an
aborted reconcile is tried again is not a fairness assumption but what the work
queue does with an error.

## 4. The proofs

* `PackingTypeOK`, `PackingLosesNoRule`, `PackingIsGreedy`,
  `PackingKeepsTheUsed`: for every positive chunk size, list and set of
  endpoints. The inductive invariant says that the ranges handed out are
  ordered, without gaps up to the frontier of the loop, and full wherever rules
  are left over; the goal alone speaks only of the final state. `PackingTypeOK`
  says that both pointers and the ends of all ranges stay within the list, so that
  no rule is read past it.
* `ManagerTypeOK`, `ManagerChunksBounded`, `ManagerPublishesExactly`: for every
  policy set, chunk size, number of endpoints and lag. The invariant
  (`ManagerInvariant`) has five parts: types; every object on the server, in the
  cache, in an event and in the work list respects the chunk size; the cache
  with its pending events is the server; an endpoint listed up to date is still
  what the work list was computed from, and what is planned for it is as mergeable
  as the policy; and the endpoints written so far with
  the work that is left add up to the policy. The last part rests on lemmas
  about the plan (every rule is planned, only rules are planned), about merging
  (`MergeKeepsTraffic`, `MergeBounded`) and comparing (`CanonicalTraffic`).
  `ManagerPublishesExactly` assumes `PoliciesMergeable`: the policy is an NP or ANP, or
  a CNP in which no peer has an entry for all ports beside one for some (then the
  two merges are the same, `ClusterEntryIsEntry`); the run `manager_cluster_all_ports`
  shows that the condition is needed. The two others assume nothing beyond the
  modules' `ASSUME`s; they cover reconciles from a lagging cache.
* `ManagerPublishesStepwise` and `ManagerImplementsPublication`: between the first
  and the last write of a reconcile. `ManagerInvariant` speaks of what will be
  published when the lists are done, so the invariant here (`RoundInv`) adds
  `WantedIsKept`: for an entry that is published, still wanted, and in an endpoint
  that is yet to be written, there is an endpoint that is not going to be deleted
  and that covers the entry's traffic now and when the lists are done. Such an
  endpoint is the first in list order that had the entry. From it every write
  brings what is published closer to the goal (`RequestIsCloser`), which is the
  action property, and with `RoundOpen` (there is a goal while the manager
  writes) every step is one of `Publication` or changes nothing there
  (`StepPublishes`, one case per action). Both assume `PoliciesMergeable` and nothing
  of the cache: `WantedIsKept` speaks of reconciles whose list was up to date, and
  `PlannedWanted` (whatever the list was, only what the policy wants is planned) is
  what is left of a reconcile from an old one.
* `LifeTypeOK`, `EndpointsAreProtected`, `OrphansHaveEscaped`: for all sets of
  specs, endpoints, recreations and lags of both caches. The worker acts on cached objects, so the
  invariant (`LifeInvariant`) is about all the states of a policy from the cached
  one through the events on their way to the server's (`Seen`). Its `Chain` says
  that the last of them is the policy and UIDs are not used again; that no change
  on its way adds a finalizer to another policy than the cached one
  (`NoChangeAdds`), since the patch is accepted only for the server's object;
  that deletion is final; and that a finalizer is on its way out only if the
  cached policy is being deleted. `WorkerKnows` says what the worker has learnt
  from the object it read: before `AddFinalizers` that no event takes the
  finalizer away, before the cleanup that whoever has the finalizer is being
  deleted, and before a publication that the policy on the server has the
  finalizer. `ClusterOwned` says that the owner of a cluster endpoint that has not
  escaped is there and has the finalizer, and `CleanedFirst` that while the worker
  deletes what it listed every such endpoint is on its list, so that none is left
  when the finalizer goes. Neither property is inductive without these: a stale read
  may find the finalizer of a policy that the server has already let go.
* `EventsLoseNoChange`: assumes `Steady`: the policy is a CNP, or all its
  versions belong to the same sets of the tracker and no service is overlooked.
  `events_tracker` shows that the first condition cannot be dropped, section 5
  the second. It states `NoLostChangeUnlessUntracked`, and `NoLostChange` itself for a
  CNP, whose look-ups do not use the tracker. The invariant says for each input the
  policy depends on that the reconcile under way, or the last one, used its present
  value, or that a handler has yet to see its change, or that something on its way
  will queue the key (`OnItsWay`); it needs that the tracker has the policy in the
  right sets or is about to be told (`Known`), set by set while the policy handler is
  between the two (`HalfKnown`), and that the policy's last notification is the
  policy itself (`LastNote`). `ReferredIfDependent` is the fact about the look-ups:
  with the right sets, each handler finds a policy that depends on the place of the
  change. `EventsTypeOK` needs no `Steady`; it includes that a writer of the tracker
  that is half done still has the policy it writes.
* `ResolutionTypeOK`, `HandlersRecogniseChanges`, `ServicePortsAreNoBypass`,
  `MergingLosesNoRule`: for all policies, pods, namespaces and services that the
  API server accepts. `RecognisesChanges` speaks of states with nothing under way;
  the invariant (`Recognised`) says that what is published is up to date, or a
  change was overlooked, or a reconcile is due, or some event that is yet to be
  handled would queue the policy if it were handled now. Its two halves are:
  * a change that alters the resolution is ignored or its event is referred to.
    The resolution of each kind of policy depends only on what its peers and its
    podSelector name (`SameIngress`, `SameEgress`, `SameNP`, `SameANP`), and an
    object that the handlers do not match to any peer is not among it before or
    after the change (`PodChangeKeeps`, `NamespaceChangeKeeps`,
    `ServiceChangeKeeps`). This is where the two independently written
    implementations of matching meet;
  * an event stays referred to while it waits (`ReferredUnlessMoved`). The handlers
    look at the namespace's labels of the time they run; if these changed so that
    the event is no longer referred to, the change of the namespace is an event
    that is.

  `ServicePortsAreNoBypass` follows the two ways a listen port is found for a number
  (`ListensFor`): its target is that number, which the rule allows on every pod; or
  its target is a name, and then `TargetPortBypass` has compared what the name means
  on each pod behind the service with the rule's ports. It needs that the listen
  ports of a service are distinct, which the API server validates for one
  protocol. `MergingLosesNoRule` takes the first rule of those with one key
  (`LeastNatural`, since `mergeClusterEndpointInfo` keeps the
  first) and shows that the same key means the same ports.
* `MonitorTypeOK`, `MonitorActsUnlessMissed`: no assumption on edits, watches or
  restarts. `MonitorTypeOK` includes that `main` decides on a listed store. The
  invariant follows the decision from the read of the store
  (`retVal`) to the field the listener compares with (`initialState`).
* `CRDTypeOK`, `ControllersRunOnEstablished`, `MonitorStopsOnlyForRemoval`: for any
  number of replicas, CRDs and ticks. The invariant adds `LookedAt` for the round
  of looks in `waitForCRDsEstablished`: a CRD before the position of the loop was
  established when it was looked at, and still is unless it was removed since.

Assumptions are the `ASSUME`s of the modules, which TLC evaluates in the runs.
They give types and bounds; say that the constants for "absent", "nothing" and
"unset" are no object, work, policy, port or label set (`AbsentIsNoCRD`,
`NothingIsNoPolicy`, `NilIsUnset` and so on); and in `ObjectsTyped` state what the
API server validates: the shape of each kind of policy, distinct listen ports, and
that objects live in namespaces that are known. A namespace without labels is one
of its versions, because that is how a run starts. The chunk size is positive.

Model-checked only: the liveness properties (`Terminates`, `ConvergesUnlessStale`,
`SettlesUnlessDoubtful`, `Released`, `ComesToRest`, `FollowsUnlessMissed`, `Recovers`), since fairness is out of
the prover's reach. Every invariant and action property of the passing runs is
also a theorem.

## 5. Seen while modelling, beside the runs

The configurations named here are kept for whoever wants to see a trace; TLC finds
the property violated in each. Where a property of a passing run excepts such a
case, a history variable records it.

* `podSelector` of a policy is edited: existing endpoints keep the old one
  (`processExistingPolicyEndpoints`, `pkg/policyendpoints/manager.go:542`, updates the
  isolation and the entries of a reused endpoint), while the type says
  `PodSelector` "is the podSelector from the policy resource".
* An edit of the ConfigMap that is found by a relist is stored and not signalled
  (`pkg/k8s/configmap_store.go:70`), and one that the listener compares between
  `setInitialControllerState`'s read of the store and its deferred assignment is
  compared with the default `FALSE` and forgotten (`pkg/config/configmap_manager.go:132`).
  These are the windows of `missed`. `ConfigMapRelist.cfg` checks `ActsOnStore`, which
  makes no exception for them; the trace is an edit while the watch is down, between
  `main`'s read and its assignment.
* `CleanupCNP` lists from the cache (`pkg/policyendpoints/manager.go:820`). If a CNP is
  deleted before its new endpoint is cached, the endpoint is not listed, the
  finalizer goes and the endpoint is left to the garbage collector; a CNP created
  again under the name takes it over, owner reference included, and then loses it
  (`LifecycleClusterRecreated.cfg`, `Settles`). `escaped` and `doubtful` record this.
* An NP and an ANP of one name in one namespace are listed under the same index value
  (`pkg/policyendpoints/manager.go:112`) and replace each other's endpoints
  (`LifecycleSharedName.cfg`, `Settles`).
* A worker that reads a deleted policy with its finalizer from an old cache, after an
  earlier run has released it, removes the name from the tracker
  (`internal/controllers/policy_controller.go:237`) when a new policy may be there
  already; nothing puts it back before the next event of that policy, and changes
  of its peers elsewhere are lost (`EventsUntracked.cfg`, `NoLostChange`). This is what
  `untracked` records.
* `getReferredPoliciesForService` returns nothing for a service that is headless
  now and looks at the old service only after that, so a service that loses its
  cluster IP (as when its type becomes `ExternalName`) stays in the published
  endpoints. A service without a selector is ignored for a podSelector peer,
  while the resolver's `podSelector: {}` matches it. With
  `Overlooked = {TRUE, FALSE}` the run `events` finds `NoLostChangeUnlessUntracked`
  violated.
  A pod that loses its address in an update is dropped by the pod handler, before
  the old pod is looked at. These are cases of `Ignored` in `Resolution`;
  without them `RecognisesChanges` fails.
* The last case of `Ignored` came out of the proof of `HandlersRecogniseChanges`. The
  CRD of an ANP accepts a peer in which nothing is set. The resolver takes it for
  all pods of the policy's namespace (`pkg/resolvers/endpoints.go:444`), the handlers
  for none (`pkg/resolvers/policies_for_pod.go:264`): pods and services of the
  namespace come and go without a reconcile.
* The end of a port range is copied next to the service's listen port
  (`ServicePorts`), and the per-pod check of target ports is made for numbers of
  the policy, not for its named ports; `ServicePortsLeadToAllowedPorts` speaks of
  single numbers.
* `portsToString` leaves out the end of a range, so of two CNP rules for one peer
  whose ranges begin alike the first is kept; `MergeKeepsRules` speaks of single
  ports.
* A named port of a rule for a domain becomes "all ports" for an ANP and is left
  out for a CNP, which leaves all ports if there is no other.
* An ANP egress rule without `to` publishes nothing, while
  `api/v1alpha1/applicationnetworkpolicy_types.go` says that it "matches all
  destinations".
* Peers of a CNP include pods on the host's network, while
  `api/v1alpha1/clusternetworkpolicy_types.go` says that "host-networked pods are
  not included in this type of peer". Named ports of its ingress rules are looked
  up in the first of the subject's namespaces only.
* A CRD that is deleted and created again between two polls is not noticed by
  the monitor, and a process that waits for a CRD does not create it again; both
  are steps of `CRDManager`, and `Recovers` holds in spite of them.
* `isNewPolicy` looks for any finalizer on the cached object, so the gauge
  `network_policy_objects_total` misses policies with a foreign finalizer and
  counts a policy twice after a stale read.
* Changing only the order of a peer's ports, or merging rules of a peer, makes a
  reconcile remove and add what is unchanged (the TODO at
  `pkg/policyendpoints/manager.go:436`). The traffic of an entry with a new key
  may be away between two writes; `PublishedStepwise` speaks of entries that
  keep their key.

## 6. Not modelled, and the plan

Not modelled: metrics (the gauge is counted on `isNewPolicy`, see above; nothing
reads it back), logging, flags and configuration, scheme registration, leader
election (the controllers of a replica that is not the leader do not reconcile;
each model has one that does), generated code (deep copies), the end-to-end test
framework, and the annotation `lastChangeTriggerTime`. A chunk size of zero,
which the flag allows and on which `lo.Chunk` panics, is excluded by an
assumption.

`Resolvers` has one protocol, selectors that are conjunctions of labels (no
expressions), no exceptions of blocks and one address per object. Errors of cache
reads (an index or a selector that cannot be parsed) are left out: the cache
does not fail, and the API server validates selectors.

What is left: the safety part of the liveness arguments could be stated as
theorems (what each fair step leaves nearer its goal). Liveness itself stays with
TLC.
