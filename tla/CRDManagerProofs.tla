-------------------------- MODULE CRDManagerProofs --------------------------
(***************************************************************************)
(* The CRD manager for any number of replicas, CRDs and ticks.             *)
(***************************************************************************)
EXTENDS CRDManager, TLAPS

\* While Start waits, the CRDs before its position were established when it
\* looked, and still are unless they were removed since.
LookedAt ==
    \A p \in Replicas : phase[p] = "wait" =>
        \A c \in Desired : c < next[p] => Established(c) \/ c \in removed[p]

CRDInvariant == TypeOK /\ LookedAt /\ RunsOnEstablished /\ StopsOnlyForRemoval
-----------------------------------------------------------------------------
\* What the API server stores are CRDs.
LEMMA CRDsTyped ==
    /\ [established |-> TRUE, deleting |-> FALSE] \in CRD
    /\ [established |-> FALSE, deleting |-> FALSE] \in CRD
    /\ \A crd \in CRD : /\ [crd EXCEPT !.established = TRUE] \in CRD
                         /\ [crd EXCEPT !.deleting = TRUE] \in CRD
                         /\ [crd EXCEPT !.deleting = TRUE].established = crd.established
                         /\ [crd EXCEPT !.established = TRUE].established
  BY DEF CRD

\* The variables have their types at the start.
LEMMA InitTypeOK == Init => TypeOK
<1> SUFFICES ASSUME Init PROVE TypeOK
  OBVIOUS
<1>1. crds \in [Desired -> CRD \cup {Absent}]
  BY CRDsTyped DEF Init
<1>2. /\ 1 \in Desired /\ 0 \in 0..MaxTicks
  BY CRDConstantsTyped DEF Desired
<1> QED
  BY <1>1, <1>2 DEF Init, TypeOK

\* The position of a loop moves within the CRDs, and ticks within their bound.
LEMMA PositionsTyped ==
    /\ 1 \in Desired /\ 0 \in 0..MaxTicks
    /\ \A i \in Desired : (IF i = NumCRDs THEN 1 ELSE i + 1) \in Desired
    /\ \A i \in 0..MaxTicks : (IF i = MaxTicks THEN i ELSE i + 1) \in 0..MaxTicks
  BY CRDConstantsTyped DEF Desired

\* Every step keeps the types; each loop wraps around at the last CRD.
LEMMA StepTypeOK == TypeOK /\ [Next]_vars => TypeOK'
<1> SUFFICES ASSUME TypeOK, [Next]_vars PROVE TypeOK'
  OBVIOUS
<1> USE PositionsTyped DEF TypeOK
<1>1. ASSUME NEW c \in Desired, Establish(c) \/ Delete(c) \/ Vanish(c) PROVE TypeOK'
  <2>1. crds[c] \in CRD
    BY <1>1 DEF Establish, Delete, Vanish, Exists
  <2>2. crds'[c] \in CRD \cup {Absent}
    BY <1>1, <2>1, CRDsTyped, Zenon DEF Establish, Delete, Vanish
  <2>3. crds' \in [Desired -> CRD \cup {Absent}]
    BY <1>1, <2>2 DEF Establish, Delete, Vanish
  <2> QED
    BY <1>1, <2>3 DEF Establish, Delete, Vanish
<1>2. ASSUME NEW p \in Replicas, EnsureGet(p) PROVE TypeOK'
  BY <1>2 DEF EnsureGet, Ensured
<1>3. ASSUME NEW p \in Replicas, EnsureCreate(p) PROVE TypeOK'
  BY <1>3, CRDsTyped DEF EnsureCreate, Ensured, Created
<1>4. ASSUME NEW p \in Replicas, WaitGet(p) PROVE TypeOK'
  BY <1>4 DEF WaitGet, Tick
<1>5. ASSUME NEW p \in Replicas, Timeout(p) \/ Exit(p) \/ Crash(p) PROVE TypeOK'
  BY <1>5 DEF Timeout, Exit, Crash, Begin
<1>6. ASSUME NEW p \in Replicas, AnswerLost(p) PROVE TypeOK'
  BY <1>6, CRDsTyped DEF AnswerLost, Created, Begin
<1>7. ASSUME NEW p \in Replicas, MonitorGet(p) \/ MonitorFails(p) PROVE TypeOK'
  BY <1>7 DEF MonitorGet, MonitorFails
<1>8. ASSUME NEW p \in Replicas, Delay(p) PROVE TypeOK'
  BY <1>8 DEF Delay, Tick
<1>9. CASE UNCHANGED vars
  BY <1>9 DEF vars
<1> QED
  BY <1>1, <1>2, <1>3, <1>4, <1>5, <1>6, <1>7, <1>8, <1>9 DEF Next, Disturbance, Calm, Progress

\* The type invariant holds in every state: no loop runs past the CRDs.
THEOREM CRDTypeOK == Spec => []TypeOK
<1>1. QED
  BY InitTypeOK, StepTypeOK, PTL DEF Spec
-----------------------------------------------------------------------------
\* A CRD that is established stays so until it is removed, and a removal is
\* remembered for every replica, whatever the API server does.
LEMMA ServerKeeps ==
    ASSUME TypeOK, NEW c \in Desired, NEW d \in Desired, NEW p \in Replicas,
           Establish(d) \/ Delete(d) \/ Vanish(d),
           Established(c) \/ c \in removed[p]
    PROVE  Established(c)' \/ c \in removed'[p]
<1>1. CASE c \in removed[p]
  BY <1>1 DEF TypeOK, Establish, Delete, Vanish
<1>2. CASE Established(c) /\ Establish(d)
  BY <1>2, CRDsTyped, AbsentIsNoCRD DEF TypeOK, Establish, Established, Exists
<1>3. CASE Established(c) /\ Delete(d)
  <2>1. CASE c # d
    BY <1>3, <2>1 DEF TypeOK, Delete, Established, Exists
  <2>2. CASE c = d
    <3>1. crds[d] \in CRD
      BY <1>3 DEF TypeOK, Delete, Exists
    <3>2. crds'[d] = [crds[d] EXCEPT !.deleting = TRUE]
      BY <1>3, Zenon DEF TypeOK, Delete
    <3>3. crds'[d] \in CRD /\ crds'[d].established = crds[d].established
      BY <3>1, <3>2, CRDsTyped, Zenon
    <3> QED
      BY <1>3, <2>2, <3>3, AbsentIsNoCRD DEF Established, Exists
  <2> QED
    BY <2>1, <2>2
<1>4. CASE Established(c) /\ Vanish(d)
  BY <1>4 DEF TypeOK, Vanish, Established, Exists
<1> QED
  BY <1>1, <1>2, <1>3, <1>4

\* A CRD is created only if it is not there, so none that is established is
\* replaced.
LEMMA CreationKeeps ==
    ASSUME TypeOK, NEW c \in Desired, NEW d \in Desired, ~ Exists(d), Created(d), Established(c)
    PROVE  Established(c)'
  BY DEF TypeOK, Created, Established, Exists

\* Every step keeps the invariant.
LEMMA StepInvariant == CRDInvariant /\ [Next]_vars => CRDInvariant'
<1> SUFFICES ASSUME CRDInvariant, [Next]_vars PROVE CRDInvariant'
  OBVIOUS
<1> DEFINE Inv == LookedAt /\ RunsOnEstablished /\ StopsOnlyForRemoval
<1>t. TypeOK /\ TypeOK'
  BY StepTypeOK DEF CRDInvariant
<1>i. LookedAt /\ RunsOnEstablished /\ StopsOnlyForRemoval
  BY DEF CRDInvariant
<1>1. ASSUME NEW d \in Desired, Establish(d) \/ Delete(d) \/ Vanish(d) PROVE Inv'
  <2>1. \A p \in Replicas, c \in Desired :
           Established(c) \/ c \in removed[p] => Established(c)' \/ c \in removed'[p]
    BY <1>t, <1>1, ServerKeeps
  <2>2. /\ UNCHANGED <<phase, next>>
        /\ \A p \in Replicas : removed[p] \subseteq removed'[p]
    BY <1>t, <1>1 DEF TypeOK, Establish, Delete, Vanish
  <2> QED
    BY <1>i, <2>1, <2>2 DEF LookedAt, RunsOnEstablished, StopsOnlyForRemoval
<1>2. ASSUME NEW p \in Replicas, EnsureGet(p) PROVE Inv'
  <2>1. UNCHANGED <<crds, removed>>
    BY <1>2 DEF EnsureGet, Ensured
  <2>2. /\ phase'[p] \in {"ensure", "create", "wait"}
        /\ phase'[p] = "wait" => next'[p] = 1
    BY <1>t, <1>2 DEF EnsureGet, Ensured, TypeOK
  <2>3. \A q \in Replicas \ {p} : phase'[q] = phase[q] /\ next'[q] = next[q]
    BY <1>t, <1>2 DEF EnsureGet, Ensured, TypeOK
  <2> QED
    BY <1>i, <2>1, <2>2, <2>3 DEF LookedAt, RunsOnEstablished, StopsOnlyForRemoval, Established, Exists, Desired
<1>3. ASSUME NEW p \in Replicas, EnsureCreate(p) PROVE Inv'
  <2>1. \A c \in Desired : Established(c) => Established(c)'
    <3>1. CASE Exists(next[p])
      BY <1>3, <3>1 DEF EnsureCreate, Established, Exists
    <3>2. CASE ~ Exists(next[p])
      BY <1>t, <1>3, <3>2, CreationKeeps DEF EnsureCreate, TypeOK
    <3> QED
      BY <3>1, <3>2
  <2>2. /\ phase'[p] \in {"ensure", "create", "wait"}
        /\ phase'[p] = "wait" => next'[p] = 1
        /\ UNCHANGED removed
    BY <1>t, <1>3 DEF EnsureCreate, Ensured, TypeOK
  <2>3. \A q \in Replicas \ {p} : phase'[q] = phase[q] /\ next'[q] = next[q]
    BY <1>t, <1>3 DEF EnsureCreate, Ensured, TypeOK
  <2> QED
    BY <1>i, <2>1, <2>2, <2>3 DEF LookedAt, RunsOnEstablished, StopsOnlyForRemoval, Desired
<1>4. ASSUME NEW p \in Replicas, WaitGet(p) PROVE Inv'
  <2>1. \A q \in Replicas \ {p} :
           phase'[q] = phase[q] /\ next'[q] = next[q] /\ removed'[q] = removed[q]
    BY <1>t, <1>4 DEF WaitGet, Tick, TypeOK
  <2>2. \A c \in Desired : Established(c)' <=> Established(c)
    BY <1>4 DEF WaitGet, Established, Exists
  <2>3. CASE Established(next[p])
    <3>1. /\ removed'[p] = removed[p] \ {next[p]}
          /\ phase'[p] = IF next[p] = NumCRDs THEN "running" ELSE "wait"
          /\ next'[p] = IF next[p] = NumCRDs THEN 1 ELSE next[p] + 1
      BY <1>t, <1>4, <2>3 DEF WaitGet, TypeOK
    <3>2. \A c \in Desired : c <= next[p] => Established(c) \/ c \in removed'[p]
      BY <1>t, <1>i, <1>4, <2>3, <3>1 DEF LookedAt, WaitGet, TypeOK, Desired
    <3>3. LookedAt'
      <4> SUFFICES ASSUME NEW q \in Replicas, phase'[q] = "wait",
                          NEW c \in Desired, c < next'[q]
                   PROVE  Established(c)' \/ c \in removed'[q]
        BY DEF LookedAt
      <4>1. CASE q # p
        BY <1>i, <2>1, <2>2, <4>1 DEF LookedAt
      <4>2. CASE q = p
        <5>1. c <= next[p]
          BY <1>t, <3>1, <4>2, CRDConstantsTyped DEF Desired, TypeOK
        <5> QED
          BY <2>2, <3>2, <4>2, <5>1
      <4> QED
        BY <4>1, <4>2
    <3>4. RunsOnEstablished'
      <4> SUFFICES ASSUME NEW q \in Replicas, phase'[q] = "running", NEW c \in Desired
                   PROVE  Established(c)' \/ c \in removed'[q]
        BY DEF RunsOnEstablished
      <4>1. CASE q # p
        BY <1>i, <2>1, <2>2, <4>1 DEF RunsOnEstablished
      <4>2. CASE q = p
        <5>1. c <= next[p]
          BY <1>t, <3>1, <4>2, CRDConstantsTyped DEF Desired, TypeOK
        <5> QED
          BY <2>2, <3>2, <4>2, <5>1
      <4> QED
        BY <4>1, <4>2
    <3>5. StopsOnlyForRemoval'
      BY <1>i, <2>1, <3>1 DEF StopsOnlyForRemoval
    <3> QED
      BY <3>3, <3>4, <3>5
  <2>4. CASE ~ Established(next[p])
    <3>1. /\ removed' = removed /\ phase' = phase /\ next'[p] = 1 /\ phase[p] = "wait"
      BY <1>t, <1>4, <2>4 DEF WaitGet, Tick, TypeOK
    <3> QED
      BY <1>i, <2>1, <2>2, <3>1 DEF LookedAt, RunsOnEstablished, StopsOnlyForRemoval, Desired
  <2> QED
    BY <2>3, <2>4
<1>5. ASSUME NEW p \in Replicas, Begin(p),
             \A c \in Desired : Established(c) => Established(c)'
      PROVE  Inv'
  <2>1. \A q \in Replicas \ {p} :
           phase'[q] = phase[q] /\ next'[q] = next[q] /\ removed'[q] = removed[q]
    BY <1>t, <1>5 DEF Begin, TypeOK
  <2>2. phase'[p] = "ensure"
    BY <1>t, <1>5 DEF Begin, TypeOK
  <2> QED
    BY <1>i, <1>5, <2>1, <2>2 DEF LookedAt, RunsOnEstablished, StopsOnlyForRemoval
<1>6. ASSUME NEW p \in Replicas, Timeout(p) \/ Exit(p) \/ Crash(p) PROVE Inv'
  BY <1>5, <1>6 DEF Timeout, Exit, Crash, Established, Exists
<1>7. ASSUME NEW p \in Replicas, AnswerLost(p) PROVE Inv'
  BY <1>t, <1>5, <1>7, CreationKeeps DEF AnswerLost, TypeOK
<1>8. ASSUME NEW p \in Replicas, MonitorGet(p) PROVE Inv'
  <2>1. UNCHANGED <<crds, removed>> /\ phase[p] = "running"
    BY <1>8 DEF MonitorGet
  <2>2. \A q \in Replicas \ {p} : phase'[q] = phase[q] /\ next'[q] = next[q]
    BY <1>t, <1>8 DEF MonitorGet, TypeOK
  <2>3. phase'[p] = "running" \/ (phase'[p] = "stopping" /\ ~ Established(next[p]))
    BY <1>t, <1>8 DEF MonitorGet, TypeOK, Established
  <2>4. phase'[p] = "stopping" => removed[p] # {}
    BY <1>t, <1>i, <2>1, <2>3 DEF RunsOnEstablished, TypeOK
  <2> QED
    BY <1>i, <2>1, <2>2, <2>3, <2>4 DEF LookedAt, RunsOnEstablished, StopsOnlyForRemoval, Established, Exists
<1>9. ASSUME NEW p \in Replicas, MonitorFails(p) PROVE Inv'
  <2>1. UNCHANGED <<crds, removed, phase>> /\ phase[p] = "running"
    BY <1>9 DEF MonitorFails
  <2>2. \A q \in Replicas \ {p} : next'[q] = next[q]
    BY <1>t, <1>9 DEF MonitorFails, TypeOK
  <2> QED
    BY <1>i, <2>1, <2>2 DEF LookedAt, RunsOnEstablished, StopsOnlyForRemoval, Established, Exists
<1>10. ASSUME NEW p \in Replicas, Delay(p) PROVE Inv'
  BY <1>i, <1>10 DEF Delay, LookedAt, RunsOnEstablished, StopsOnlyForRemoval, Established, Exists
<1>11. ASSUME UNCHANGED vars PROVE Inv'
  BY <1>i, <1>11 DEF vars, LookedAt, RunsOnEstablished, StopsOnlyForRemoval, Established, Exists
<1>12. Inv'
  BY <1>1, <1>2, <1>3, <1>4, <1>6, <1>7, <1>8, <1>9, <1>10, <1>11
  DEF Next, Disturbance, Calm, Progress
<1> QED
  BY <1>t, <1>12 DEF CRDInvariant

\* The invariant holds in every state.
THEOREM CRDInvariantHolds == Spec => []CRDInvariant
<1>1. Init => CRDInvariant
  BY InitTypeOK DEF Init, CRDInvariant, LookedAt, RunsOnEstablished, StopsOnlyForRemoval
<1> QED
  BY <1>1, StepInvariant, PTL DEF Spec

\* No process runs its controllers on a CRD that is not established, unless that
\* CRD was removed after Start looked at it: for all replicas that create the
\* same CRDs, and all deletions, crashes, lost answers and slow requests.
THEOREM ControllersRunOnEstablished == Spec => []RunsOnEstablished
<1>1. CRDInvariant => RunsOnEstablished
  BY DEF CRDInvariant
<1> QED
  BY <1>1, CRDInvariantHolds, PTL

\* The monitor ends a process only for a CRD that was removed after the process
\* found it established.
THEOREM MonitorStopsOnlyForRemoval == Spec => []StopsOnlyForRemoval
<1>1. CRDInvariant => StopsOnlyForRemoval
  BY DEF CRDInvariant
<1> QED
  BY <1>1, CRDInvariantHolds, PTL
=============================================================================
