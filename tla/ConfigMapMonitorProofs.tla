----------------------- MODULE ConfigMapMonitorProofs -----------------------
(***************************************************************************)
(* The configmap manager acts on every change of the ConfigMap that is not *)
(* overlooked in one of two windows, for any contents and any lag, however *)
(* edits, expired watches, start-up and restarts interleave.               *)
(***************************************************************************)
EXTENDS ConfigMapMonitor, TLAPS

\* The reflector starts with no event.
LEMMA EmptyIsSeq == <<>> \in Seq(ConfigMaps)
OBVIOUS

\* Every variable of the three goroutines keeps its type, and main reads the
\* store only after the reflector's first list has filled it.
THEOREM MonitorTypeOK == Spec => []TypeOK
<1>1. Init => TypeOK
    BY ContentsTyped, EmptyIsSeq, Zenon DEF Init, TypeOK
<1>2. TypeOK /\ [Next]_vars => TypeOK'
    <2> SUFFICES ASSUME TypeOK, [Next]_vars PROVE TypeOK'
        OBVIOUS
    <2> USE DEF TypeOK
    <2>1. CASE Edit
        BY <2>1 DEF Edit
    <2>2. CASE Expire
        BY <2>2 DEF Expire
    <2>3. CASE Reflector
        <3>1. CASE Replace
            BY <3>1 DEF Replace
        <3>2. CASE Store
            <4>1. Head(events) \in ConfigMaps /\ Tail(events) \in Seq(ConfigMaps)
                BY <3>2 DEF Store
            <4>2. QED
                BY <3>2, <4>1 DEF Store
        <3>3. CASE Notify
            BY <3>3 DEF Notify
        <3>4. QED
            BY <2>3, <3>1, <3>2, <3>3 DEF Reflector
    <2>4. CASE ListenerRead \/ ListenerCompare
        <3>1. CurrentEnabled \in BOOLEAN
            BY DEF CurrentEnabled
        <3>2. CASE ListenerRead
            BY <3>1, <3>2, Zenon DEF ListenerRead
        <3>3. CASE ListenerCompare
            <4>1. listener' \in {"wait", "stopped"}
                BY <3>3 DEF ListenerCompare
            <4>2. QED
                BY <3>3, <4>1, Zenon DEF ListenerCompare
        <3>4. QED
            BY <2>4, <3>2, <3>3
    <2>5. CASE CacheSynced \/ SyncStopped \/ ReadInitial \/ AssignInitial
        <3>1. CurrentEnabled \in BOOLEAN
            BY DEF CurrentEnabled
        <3>2. CASE CacheSynced \/ SyncStopped
            BY <3>2, Zenon DEF CacheSynced, SyncStopped
        <3>3. CASE ReadInitial
            BY <3>1, <3>3, Zenon DEF ReadInitial
        <3>4. CASE AssignInitial
            BY <3>4, Zenon DEF AssignInitial
        <3>5. QED
            BY <2>5, <3>2, <3>3, <3>4
    <2>6. CASE Exit
        BY <2>6, ContentsTyped, EmptyIsSeq, Zenon DEF Exit
    <2>7. CASE UNCHANGED vars
        BY <2>7 DEF vars
    <2>8. QED
        BY <2>1, <2>2, <2>3, <2>4, <2>5, <2>6, <2>7 DEF Next, Process
<1>3. QED
    BY <1>1, <1>2, PTL DEF Spec

-----------------------------------------------------------------------------
\* What the process acts on, or will once its start-up is over.
Decided == main \in {"assign", "running"}
Decision == IF main = "assign" THEN retVal ELSE initialState

\* When no signal is under way to the listener, what was decided is what the
\* store says.  When the listener is about to compare, either the comparison
\* ends the process or what was decided is what the store says.
IInv ==
    Decided /\ ~ missed /\ reflector # "notify" =>
        /\ listener = "wait" => Decision = CurrentEnabled
        /\ listener = "compare" /\ Decision = enabled => Decision = CurrentEnabled

\* No change of the ConfigMap is overlooked but in the two windows that missed
\* records: when no signal is under way, a running process does what the
\* stored ConfigMap says.
THEOREM MonitorActsUnlessMissed == Spec => []ActsUnlessMissed
<1>1. Init => IInv
    BY DEF Init, IInv, Decided
<1>2. TypeOK /\ IInv /\ [Next]_vars => IInv'
    <2> SUFFICES ASSUME TypeOK, IInv, [Next]_vars PROVE IInv'
        OBVIOUS
    <2> USE DEF TypeOK, IInv, Decided, Decision, CurrentEnabled
    <2>1. CASE Edit
        BY <2>1 DEF Edit
    <2>2. CASE Expire
        BY <2>2 DEF Expire
    <2>3. CASE Replace
        BY <2>3 DEF Replace
    <2>4. CASE Store
        BY <2>4 DEF Store
    <2>5. CASE Notify
        BY <2>5 DEF Notify
    <2>6. CASE ListenerRead
        BY <2>6 DEF ListenerRead
    <2>7. CASE ListenerCompare
        BY <2>7 DEF ListenerCompare
    <2>8. CASE CacheSynced \/ SyncStopped
        BY <2>8 DEF CacheSynced, SyncStopped
    <2>9. CASE ReadInitial
        BY <2>9 DEF ReadInitial
    <2>10. CASE AssignInitial
        BY <2>10 DEF AssignInitial
    <2>11. CASE Exit
        BY <2>11 DEF Exit
    <2>12. CASE UNCHANGED vars
        BY <2>12 DEF vars
    <2>13. QED
        BY <2>1, <2>2, <2>3, <2>4, <2>5, <2>6, <2>7, <2>8, <2>9, <2>10, <2>11, <2>12
           DEF Next, Reflector, Process
<1>3. IInv => ActsUnlessMissed
    BY DEF IInv, Decided, Decision, ActsUnlessMissed, ActsOnStore
<1>4. QED
    BY <1>1, <1>2, <1>3, MonitorTypeOK, PTL DEF Spec
=============================================================================
