----------------------------- MODULE CRDManager -----------------------------
(***************************************************************************)
(* The CRD manager (pkg/crd) of the replicas of the controller, up to the  *)
(* start of their controllers in main and after it.  Every replica, leader *)
(* or not, creates the CRDs that are missing, waits for the API server to  *)
(* establish them, starts, and from then on polls them: when one is gone   *)
(* it ends, and the kubelet's next process creates it again.               *)
(*                                                                         *)
(* Each request is a step, so CRDs come and go between any two of them.    *)
(***************************************************************************)
EXTENDS Naturals

CONSTANTS
    Replicas,
    NumCRDs,    \* len(desiredCRDs)
    MaxTicks,   \* ticks of one second before waitForCRDsEstablished gives up
    Absent      \* no object

VARIABLES
    crds,       \* the CRDs at the API server
    phase,      \* where in Start, or after it, a process is
    next,       \* the desired CRD its loop is at
    ticks,      \* ticks it has waited for the CRDs to be established
    removed     \* history: CRDs removed since a process last found them established

vars == <<crds, phase, next, ticks, removed>>

ASSUME CRDConstantsTyped == NumCRDs \in Nat \ {0} /\ MaxTicks \in Nat \ {0}

Desired == 1..NumCRDs

\* A CRD that is being deleted still exists, and is established if it was.
CRD == [established : BOOLEAN, deleting : BOOLEAN]
ASSUME AbsentIsNoCRD == Absent \notin CRD

Exists(c) == crds[c] # Absent
Established(c) == Exists(c) /\ crds[c].established

\* The processes start with the CRDs of an earlier installation, or without.
Init ==
    /\ crds \in [Desired -> {Absent, [established |-> TRUE, deleting |-> FALSE]}]
    /\ phase = [p \in Replicas |-> "ensure"]
    /\ next = [p \in Replicas |-> 1]
    /\ ticks = [p \in Replicas |-> 0]
    /\ removed = [p \in Replicas |-> {}]
-----------------------------------------------------------------------------
(***************************************************************************)
(* The API server, and those who delete CRDs.                              *)
(***************************************************************************)
Establish(c) ==
    /\ Exists(c) /\ ~ crds[c].deleting /\ ~ crds[c].established
    /\ crds' = [crds EXCEPT ![c].established = TRUE]
    /\ UNCHANGED <<phase, next, ticks, removed>>

Delete(c) ==
    /\ Exists(c) /\ ~ crds[c].deleting
    /\ crds' = [crds EXCEPT ![c].deleting = TRUE]
    /\ UNCHANGED <<phase, next, ticks, removed>>

\* The objects of the CRD are gone, and now the CRD.
Vanish(c) ==
    /\ Exists(c) /\ crds[c].deleting
    /\ crds' = [crds EXCEPT ![c] = Absent]
    /\ removed' = [p \in Replicas |-> removed[p] \cup {c}]
    /\ UNCHANGED <<phase, next, ticks>>

Created(c) == crds' = [crds EXCEPT ![c] = [established |-> FALSE, deleting |-> FALSE]]
-----------------------------------------------------------------------------
(***************************************************************************)
(* A process.                                                              *)
(***************************************************************************)

\* main exits with an error, or is stopped, and is started again.
Begin(p) ==
    /\ phase' = [phase EXCEPT ![p] = "ensure"]
    /\ next' = [next EXCEPT ![p] = 1]
    /\ ticks' = [ticks EXCEPT ![p] = 0]
    /\ removed' = [removed EXCEPT ![p] = {}]

\* ensureAllCRDs goes on to the next CRD, or Start to waiting.
Ensured(p) ==
    /\ phase' = [phase EXCEPT ![p] = IF next[p] = NumCRDs THEN "wait" ELSE "ensure"]
    /\ next' = [next EXCEPT ![p] = IF @ = NumCRDs THEN 1 ELSE @ + 1]
    /\ UNCHANGED <<ticks, removed>>

\* ensureCRD looks for the CRD.
EnsureGet(p) ==
    /\ phase[p] = "ensure"
    /\ \/ Exists(next[p]) /\ Ensured(p)
       \/ /\ ~ Exists(next[p])
          /\ phase' = [phase EXCEPT ![p] = "create"]
          /\ UNCHANGED <<next, ticks, removed>>
    /\ UNCHANGED crds

\* ensureCRD creates it; somebody else may have done so meanwhile.
EnsureCreate(p) ==
    /\ phase[p] = "create"
    /\ IF Exists(next[p]) THEN UNCHANGED crds ELSE Created(next[p])
    /\ Ensured(p)

\* Time passes until the timeout has.
Tick(p) == ticks' = [ticks EXCEPT ![p] = IF @ = MaxTicks THEN @ ELSE @ + 1]

\* Mutant: a CRD that exists is taken for established.
WaitGetExisting(p) ==
    /\ phase[p] = "wait"
    /\ \/ /\ Exists(next[p])
          /\ phase' = [phase EXCEPT ![p] = IF next[p] = NumCRDs THEN "running" ELSE "wait"]
          /\ next' = [next EXCEPT ![p] = IF @ = NumCRDs THEN 1 ELSE @ + 1]
          /\ removed' = [removed EXCEPT ![p] = @ \ {next[p]}]
          /\ UNCHANGED ticks
       \/ /\ ~ Exists(next[p])
          /\ Tick(p)
          /\ next' = [next EXCEPT ![p] = 1]
          /\ UNCHANGED <<phase, removed>>
    /\ UNCHANGED crds

\* waitForCRDsEstablished looks at the CRDs in turn.  The first that is not
\* there, or not established, ends the round; after a round without one Start
\* returns, with the monitor running.
WaitGet(p) ==
    /\ phase[p] = "wait"
    /\ \/ /\ Established(next[p])
          /\ phase' = [phase EXCEPT ![p] = IF next[p] = NumCRDs THEN "running" ELSE "wait"]
          /\ next' = [next EXCEPT ![p] = IF @ = NumCRDs THEN 1 ELSE @ + 1]
          /\ removed' = [removed EXCEPT ![p] = @ \ {next[p]}]
          /\ UNCHANGED ticks
       \/ /\ ~ Established(next[p])
          /\ Tick(p)
          /\ next' = [next EXCEPT ![p] = 1]
          /\ UNCHANGED <<phase, removed>>
    /\ UNCHANGED crds

\* Mutant: the wait starts over.
TimeoutWaits(p) ==
    /\ phase[p] = "wait" /\ next[p] = 1 /\ ticks[p] = MaxTicks
    /\ ticks' = [ticks EXCEPT ![p] = 0]
    /\ UNCHANGED <<crds, phase, next, removed>>

\* The timeout is noticed between two rounds, unless the select takes the tick
\* that is there as well.
Timeout(p) ==
    /\ phase[p] = "wait" /\ next[p] = 1 /\ ticks[p] = MaxTicks
    /\ Begin(p)
    /\ UNCHANGED crds

\* Mutant: the position is not set back.
MonitorGetOn(p) ==
    /\ phase[p] = "running"
    /\ \/ /\ Exists(next[p])
          /\ next' = [next EXCEPT ![p] = @ + 1]
          /\ UNCHANGED phase
       \/ /\ ~ Exists(next[p])
          /\ phase' = [phase EXCEPT ![p] = "stopping"]
          /\ UNCHANGED next
    /\ UNCHANGED <<crds, ticks, removed>>

\* monitorCRDsWithInterval: cancelFn ends the manager when a CRD is gone.
MonitorGet(p) ==
    /\ phase[p] = "running"
    /\ \/ /\ Exists(next[p])
          /\ next' = [next EXCEPT ![p] = IF @ = NumCRDs THEN 1 ELSE @ + 1]
          /\ UNCHANGED phase
       \/ /\ ~ Exists(next[p])
          /\ phase' = [phase EXCEPT ![p] = "stopping"]
          /\ UNCHANGED next
    /\ UNCHANGED <<crds, ticks, removed>>

\* mgr.Start returns, main ends.
Exit(p) ==
    /\ phase[p] = "stopping"
    /\ Begin(p)
    /\ UNCHANGED crds

\* The process ends for another reason, an error of a request in Start included.
Crash(p) ==
    /\ Begin(p)
    /\ UNCHANGED crds

\* The CRD is created, but the answer is lost: Start fails.
AnswerLost(p) ==
    /\ phase[p] = "create" /\ ~ Exists(next[p])
    /\ Created(next[p])
    /\ Begin(p)

\* Requests are slow while Start waits.
Delay(p) ==
    /\ phase[p] = "wait"
    /\ Tick(p)
    /\ UNCHANGED <<crds, phase, next, removed>>

\* Mutant: an error of a request counts as a missing CRD.
MonitorStops(p) ==
    /\ phase[p] = "running"
    /\ phase' = [phase EXCEPT ![p] = "stopping"]
    /\ UNCHANGED <<crds, next, ticks, removed>>

\* The monitor logs an error of a request and goes on.
MonitorFails(p) ==
    /\ phase[p] = "running"
    /\ next' = [next EXCEPT ![p] = IF @ = NumCRDs THEN 1 ELSE @ + 1]
    /\ UNCHANGED <<crds, phase, ticks, removed>>

Progress(p) ==
    \/ EnsureGet(p) \/ EnsureCreate(p) \/ WaitGet(p) \/ Timeout(p)
    \/ MonitorGet(p) \/ Exit(p)

Disturbance ==
    \/ \E c \in Desired : Delete(c)
    \/ \E p \in Replicas : Crash(p) \/ AnswerLost(p) \/ Delay(p) \/ MonitorFails(p)

Calm ==
    \/ \E c \in Desired : Establish(c) \/ Vanish(c)
    \/ \E p \in Replicas : Progress(p)

Next == Disturbance \/ Calm

Spec ==
    /\ Init /\ [][Next]_vars
    /\ \A c \in Desired : WF_vars(Establish(c)) /\ WF_vars(Vanish(c))
    /\ \A p \in Replicas : WF_vars(Progress(p)) /\ SF_vars(Timeout(p))
-----------------------------------------------------------------------------
\* The types of the variables: each loop stays within the desired CRDs.
TypeOK ==
    /\ crds \in [Desired -> CRD \cup {Absent}]
    /\ phase \in [Replicas -> {"ensure", "create", "wait", "running", "stopping"}]
    /\ next \in [Replicas -> Desired]
    /\ ticks \in [Replicas -> 0..MaxTicks]
    /\ removed \in [Replicas -> SUBSET Desired]

\* main starts the controllers, and their informers, only on CRDs that are
\* established: whatever other replicas created meanwhile, and whichever CRD was
\* deleted between Start's look at it and its return, a running process meets a
\* CRD that is not established only if that one was removed after the look.
RunsOnEstablished ==
    \A p \in Replicas : phase[p] = "running" =>
        \A c \in Desired : Established(c) \/ c \in removed[p]

\* A running controller is ended only for a CRD that was removed, never for
\* requests that fail or for what other replicas do.
StopsOnlyForRemoval ==
    \A p \in Replicas : phase[p] = "stopping" => removed[p] # {}

\* "monitorCRDs watches for CRD deletions and triggers controller restart if
\* needed": once nobody deletes CRDs and requests succeed, all CRDs exist and are
\* established and all replicas run, for good, although no process re-creates a
\* CRD but at its start, and ones that wait for it do not.
Recovers ==
    <>[][Calm]_vars =>
        <>[]( /\ \A c \in Desired : Established(c)
              /\ \A p \in Replicas : phase[p] = "running")
=============================================================================
