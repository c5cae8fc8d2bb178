---------------------------- MODULE PackingProofs ----------------------------
(***************************************************************************)
(* The packing loop is correct for every list of rules, every number of    *)
(* endpoints, whatever they hold, and every positive chunk size.           *)
(***************************************************************************)
EXTENDS Packing, TLAPS

\* The first rule no finished slot has been given.
Frontier == IF pc \in {"grow", "append"} THEN chunkStartIdx ELSE chunkEndIdx

\* Where the pointers and the loop counter are.
Pointers ==
    /\ Len(to) = Len(from)
    /\ i = Len(from) + 1
    /\ chunkStartIdx <= chunkEndIdx
    /\ chunkEndIdx <= n

\* The ranges handed out are in order, do not overlap, and leave no gap
\* before the frontier.
Ranges ==
    /\ \A s \in Slots : from[s] <= to[s] /\ to[s] <= Frontier
    /\ \A s, t \in Slots : s < t => to[s] <= from[t]
    /\ \A r \in Nat : r < Frontier => \E s \in Slots : from[s] <= r /\ r < to[s]

\* No slot is overfilled, and one that leaves rules over is full.
Filled ==
    /\ \A s \in Slots : from[s] < to[s] => Held[s] + (to[s] - from[s]) <= endpointChunkSize
    /\ \A s \in Slots : to[s] < n => Held[s] + (to[s] - from[s]) >= endpointChunkSize

\* What the slot under way may still take.
CurrentSlot ==
    /\ pc \in {"slot", "grow", "append"} => i <= Len(len)
    /\ pc \in {"split", "done"} => Len(len) <= Len(from)
    /\ pc = "grow" => /\ chunkEndIdx < n
                      /\ len[i] + (chunkEndIdx - chunkStartIdx + 1) <= endpointChunkSize
    /\ pc = "append" =>
          /\ chunkStartIdx < chunkEndIdx =>
                len[i] + (chunkEndIdx - chunkStartIdx) <= endpointChunkSize
          /\ chunkEndIdx < n =>
                len[i] + (chunkEndIdx - chunkStartIdx) >= endpointChunkSize
    /\ pc = "done" => chunkEndIdx = n

Kept == doNotDelete = {s \in Slots : s <= Len(len) /\ from[s] < to[s]}

IInv == Types /\ Pointers /\ Ranges /\ Filled /\ CurrentSlot /\ Kept
-----------------------------------------------------------------------------
\* Appending to a sequence keeps its entries and adds one at the end.
LEMMA AppendFacts ==
    ASSUME NEW q \in Seq(Nat), NEW x \in Nat
    PROVE  /\ Append(q, x) \in Seq(Nat)
           /\ Len(Append(q, x)) = Len(q) + 1
           /\ \A s \in 1..Len(q) : Append(q, x)[s] = q[s]
           /\ Append(q, x)[Len(q) + 1] = x
OBVIOUS

\* The invariant holds when the loop starts.
LEMMA InitIInv == Init => IInv
<1> SUFFICES ASSUME Init PROVE IInv
    OBVIOUS
<1>1. len \in Seq(Nat)
    BY BoundsAreNat DEF Init
<1>2. Types
    BY <1>1, BoundsAreNat DEF Init, Types
<1>3. Pointers /\ Ranges /\ Filled /\ Kept
    BY <1>2 DEF Init, Types, Pointers, Ranges, Filled, Kept, Slots, Frontier
<1>4. CurrentSlot
    BY <1>1, <1>2 DEF Init, Types, CurrentSlot
<1>5. QED
    BY <1>2, <1>3, <1>4 DEF IInv

\* A slot's range, appended when it is finished or created, keeps the parts of
\* the invariant that speak of ranges.
LEMMA HandOut ==
    ASSUME IInv, NEW x \in Nat,
           from' = Append(from, Frontier), to' = Append(to, x),
           n' = n, len' = len, i' = i + 1, chunkEndIdx' = x,
           chunkStartIdx' = chunkStartIdx,
           chunkStartIdx <= x, Frontier <= x, x <= n,
           pc' \notin {"grow", "append"},
           Frontier < x =>
               (IF i <= Len(len) THEN len[i] ELSE 0) + (x - Frontier) <= endpointChunkSize,
           x < n =>
               (IF i <= Len(len) THEN len[i] ELSE 0) + (x - Frontier) >= endpointChunkSize
    PROVE  Pointers' /\ Ranges' /\ Filled'
<1> DEFINE f == Frontier
<1>1. f \in Nat /\ n \in Nat /\ endpointChunkSize \in Nat
    BY ChunkSizePositive DEF IInv, Types, Frontier
<1>2. from \in Seq(Nat) /\ to \in Seq(Nat) /\ len \in Seq(Nat) /\ Len(to) = Len(from)
    BY DEF IInv, Types, Pointers
<1>3. /\ Len(from') = Len(from) + 1 /\ Len(to') = Len(from) + 1
      /\ \A s \in 1..Len(from) : from'[s] = from[s] /\ to'[s] = to[s]
      /\ from'[Len(from) + 1] = f /\ to'[Len(from) + 1] = x
    BY <1>1, <1>2, AppendFacts
<1>4. Len(from) \in Nat /\ Slots' = 1..(Len(from) + 1) /\ i = Len(from) + 1
    BY <1>2, <1>3 DEF Slots, IInv, Pointers
<1>5. Frontier' = x
    BY DEF Frontier
<1>6. Pointers'
    BY <1>3, <1>4 DEF IInv, Pointers
<1>7. ASSUME NEW s \in Slots' PROVE s \in Slots \/ s = Len(from) + 1
    BY <1>4 DEF Slots
<1>8. \A s \in Slots : from[s] \in Nat /\ to[s] \in Nat /\ from[s] <= to[s] /\ to[s] <= f
    BY <1>2 DEF IInv, Ranges, Slots
<1>9. Ranges'
    <2>1. \A s \in Slots' : from'[s] <= to'[s] /\ to'[s] <= x
        BY <1>1, <1>3, <1>7, <1>8 DEF Slots
    <2>2. \A s, t \in Slots' : s < t => to'[s] <= from'[t]
        <3> SUFFICES ASSUME NEW s \in Slots', NEW t \in Slots', s < t
                     PROVE  to'[s] <= from'[t]
            OBVIOUS
        <3>1. s \in Slots
            BY <1>4 DEF Slots
        <3>2. CASE t \in Slots
            BY <3>1, <3>2, <1>3 DEF IInv, Ranges, Slots
        <3>3. CASE t = Len(from) + 1
            BY <3>1, <3>3, <1>3, <1>8 DEF Slots
        <3>4. QED
            BY <3>2, <3>3, <1>7
    <2>3. ASSUME NEW r \in Nat, r < x
          PROVE  \E s \in Slots' : from'[s] <= r /\ r < to'[s]
        <3>1. CASE r < f
            <4>1. PICK s \in Slots : from[s] <= r /\ r < to[s]
                BY <3>1 DEF IInv, Ranges
            <4>2. s \in Slots' /\ from'[s] = from[s] /\ to'[s] = to[s]
                BY <1>3, <1>4 DEF Slots
            <4>3. QED
                BY <4>1, <4>2
        <3>2. CASE f <= r
            BY <3>2, <2>3, <1>3, <1>4
        <3>3. r < f \/ f <= r
            BY <1>1
        <3>4. QED
            BY <3>1, <3>2, <3>3
    <2>4. QED
        BY <1>5, <2>1, <2>2, <2>3 DEF Ranges
<1>10. Filled'
    <2>1. ASSUME NEW s \in Slots PROVE Held'[s] = Held[s] /\ Held[s] \in Nat
        <3>1. s \in Slots' /\ s \in Nat /\ s >= 1 /\ Len(len) \in Nat
            BY <1>2, <1>4 DEF Slots
        <3>2. Held[s] = (IF s <= Len(len) THEN len[s] ELSE 0) /\ Held'[s] = (IF s <= Len(len) THEN len[s] ELSE 0)
            BY <3>1 DEF Held
        <3>3. s <= Len(len) => len[s] \in Nat
            BY <1>2, <3>1
        <3>4. QED
            BY <3>2, <3>3
    <2>2. Held'[Len(from) + 1] = IF i <= Len(len) THEN len[i] ELSE 0
        BY <1>4 DEF Held
    <2>3. ASSUME NEW s \in Slots'
          PROVE  /\ from'[s] < to'[s] => Held'[s] + (to'[s] - from'[s]) <= endpointChunkSize
                 /\ to'[s] < n => Held'[s] + (to'[s] - from'[s]) >= endpointChunkSize
        <3>1. CASE s \in Slots
            BY <3>1, <1>3, <2>1 DEF IInv, Filled, Slots
        <3>2. CASE s = Len(from) + 1
            BY <3>2, <1>3, <2>2
        <3>3. QED
            BY <3>1, <3>2, <1>7
    <2>4. QED
        BY <2>3 DEF Filled
<1>11. QED
    BY <1>6, <1>9, <1>10

\* Every iteration of the loop keeps the invariant.
LEMMA NextIInv == IInv /\ [Next]_vars => IInv'
<1> SUFFICES ASSUME IInv, [Next]_vars PROVE IInv'
    OBVIOUS
<1> USE ChunkSizePositive
<1> HIDE DEF IInv
<1>0. /\ Types /\ Pointers /\ Ranges /\ Filled /\ CurrentSlot /\ Kept
    BY DEF IInv
<1>1. CASE BeginSlot
    <2>1. Types' /\ Pointers'
        BY <1>0, <1>1 DEF BeginSlot, Types, Pointers
    <2>2. Slots' = Slots /\ Frontier' = Frontier /\ Held' = Held
        BY <1>1 DEF BeginSlot, Slots, Frontier, Held
    <2>3. Ranges' /\ Filled' /\ Kept'
        BY <1>0, <1>1, <2>2 DEF BeginSlot, Ranges, Filled, Kept
    <2>4. i \in 1..Len(len) /\ len[i] \in Nat
        BY <1>0, <1>1 DEF BeginSlot, Types, CurrentSlot
    <2>5. CurrentSlot'
        BY <1>0, <1>1, <2>4 DEF BeginSlot, Types, CurrentSlot, Pointers
    <2>6. QED
        BY <2>1, <2>3, <2>5 DEF IInv
<1>2. CASE GrowChunk
    <2>1. Types' /\ Pointers'
        BY <1>0, <1>2 DEF GrowChunk, Types, Pointers
    <2>2. Slots' = Slots /\ Frontier' = Frontier /\ Held' = Held
        BY <1>2 DEF GrowChunk, Slots, Frontier, Held
    <2>3. Ranges' /\ Filled' /\ Kept'
        BY <1>0, <1>2, <2>2 DEF GrowChunk, Ranges, Filled, Kept
    <2>4. i \in 1..Len(len) /\ len[i] \in Nat
        BY <1>0, <1>2 DEF GrowChunk, Types, CurrentSlot
    <2>5. CurrentSlot'
        BY <1>0, <1>2, <2>4 DEF GrowChunk, Types, CurrentSlot
    <2>6. QED
        BY <2>1, <2>3, <2>5 DEF IInv
<1>3. CASE EndChunk
    <2>1. Types' /\ Pointers'
        BY <1>0, <1>3 DEF EndChunk, Types, Pointers, CurrentSlot
    <2>2. Slots' = Slots /\ Frontier' = Frontier /\ Held' = Held
        BY <1>3 DEF EndChunk, Slots, Frontier, Held
    <2>3. Ranges' /\ Filled' /\ Kept'
        BY <1>0, <1>3, <2>2 DEF EndChunk, Ranges, Filled, Kept
    <2>4. i \in 1..Len(len) /\ len[i] \in Nat
        BY <1>0, <1>3 DEF EndChunk, Types, CurrentSlot
    <2>5. CurrentSlot'
        BY <1>0, <1>3, <2>4 DEF EndChunk, Types, CurrentSlot
    <2>6. QED
        BY <2>1, <2>3, <2>5 DEF IInv
<1>4. CASE EndSlot
    <2>1. Frontier = chunkStartIdx /\ i <= Len(len)
        BY <1>0, <1>4 DEF EndSlot, Frontier, CurrentSlot
    <2>2. Pointers' /\ Ranges' /\ Filled'
        BY <1>0, <1>4, <2>1, HandOut DEF EndSlot, IInv, Types, Pointers, CurrentSlot
    <2>3. Types'
        BY <1>0, <1>4, AppendFacts DEF EndSlot, Types
    <2>4. Len(from') = Len(from) + 1 /\ Len(len) \in Nat
        BY <1>0, <1>4 DEF EndSlot, Types
    <2>5. CurrentSlot'
        BY <1>0, <1>4, <2>4 DEF EndSlot, CurrentSlot, Pointers, Types
    <2>6. Kept'
        <3>1. /\ \A s \in 1..Len(from) : from'[s] = from[s] /\ to'[s] = to[s]
              /\ from'[i] = chunkStartIdx /\ to'[i] = chunkEndIdx
            BY <1>0, <1>4, AppendFacts DEF EndSlot, Types, Pointers
        <3>2. Slots' = Slots \cup {i} /\ i \notin Slots
            BY <1>0, <2>4 DEF Slots, Pointers, Types
        <3>3. QED
            BY <1>0, <1>4, <2>1, <3>1, <3>2 DEF EndSlot, Kept, Slots, Pointers, Types
    <2>7. QED
        BY <2>2, <2>3, <2>5, <2>6 DEF IInv
<1>5. CASE SplitRemaining
    <2> DEFINE x == IF n - chunkEndIdx < endpointChunkSize
                      THEN n ELSE chunkEndIdx + endpointChunkSize
    <2>1. /\ x \in Nat /\ chunkEndIdx < x /\ x <= n /\ Frontier = chunkEndIdx
          /\ x - chunkEndIdx <= endpointChunkSize
          /\ x < n => x - chunkEndIdx >= endpointChunkSize
        BY <1>0, <1>5 DEF SplitRemaining, Types, Pointers, Frontier
    <2>2. to' = Append(to, x) /\ chunkEndIdx' = x
        BY <1>0, <1>5, <2>1 DEF SplitRemaining, Types
    <2>3. Len(len) \in Nat /\ ~ (i <= Len(len))
        BY <1>0, <1>5 DEF SplitRemaining, CurrentSlot, Pointers, Types
    <2>4. Pointers' /\ Ranges' /\ Filled'
        <3> HIDE DEF x
        <3>1. chunkStartIdx <= x /\ pc' \notin {"grow", "append"}
            BY <1>0, <1>5, <2>1 DEF SplitRemaining, Pointers, Types
        <3>2. /\ (IF i <= Len(len) THEN len[i] ELSE 0) = 0
              /\ x \in Nat /\ x - Frontier \in Int /\ 0 + (x - Frontier) = x - Frontier
            BY <1>0, <2>1, <2>3 DEF Types
        <3>3. from' = Append(from, Frontier) /\ Frontier <= x
            BY <1>0, <1>5, <2>1 DEF SplitRemaining, Types
        <3>4. n' = n /\ len' = len /\ i' = i + 1 /\ chunkStartIdx' = chunkStartIdx
            BY <1>5 DEF SplitRemaining
        <3>5. /\ (IF i <= Len(len) THEN len[i] ELSE 0) + (x - Frontier) <= endpointChunkSize
              /\ x < n => (IF i <= Len(len) THEN len[i] ELSE 0) + (x - Frontier) >= endpointChunkSize
            BY <2>1, <3>2
        <3>6. QED
            BY <2>1, <2>2, <3>1, <3>3, <3>4, <3>5, HandOut
    <2>5. Types'
        <3> HIDE DEF x
        <3>1. QED
            BY <1>0, <1>5, <2>1, <2>2, AppendFacts DEF SplitRemaining, Types
    <2>6. Len(from') = Len(from) + 1
        BY <1>0, <1>5 DEF SplitRemaining, Types
    <2>7. CurrentSlot'
        BY <1>0, <1>5, <2>6 DEF SplitRemaining, CurrentSlot, Types
    <2>8. Kept'
        <3>1. \A s \in 1..Len(from) : from'[s] = from[s] /\ to'[s] = to[s]
            <4> HIDE DEF x
            <4>1. QED
                BY <1>0, <1>5, <2>1, <2>2, AppendFacts DEF SplitRemaining, Types, Pointers
        <3>2. Slots' = Slots \cup {i} /\ i \notin Slots
            BY <1>0, <2>6 DEF Slots, Pointers, Types
        <3>3. QED
            BY <1>0, <1>5, <2>3, <3>1, <3>2 DEF SplitRemaining, Kept, Slots, Types
    <2>9. QED
        BY <2>4, <2>5, <2>7, <2>8 DEF IInv
<1>6. CASE Return
    <2>1. Slots' = Slots /\ Frontier' = Frontier /\ Held' = Held
        BY <1>6 DEF Return, Slots, Frontier, Held
    <2>2. Types' /\ Pointers' /\ CurrentSlot'
        BY <1>0, <1>6 DEF Return, Types, Pointers, CurrentSlot
    <2>3. Ranges' /\ Filled' /\ Kept'
        BY <1>0, <1>6, <2>1 DEF Return, Ranges, Filled, Kept
    <2>4. QED
        BY <2>2, <2>3 DEF IInv
<1>7. CASE UNCHANGED vars
    <2>1. Slots' = Slots /\ Frontier' = Frontier /\ Held' = Held
        BY <1>7 DEF vars, Slots, Frontier, Held
    <2>2. QED
        BY <1>0, <1>7, <2>1 DEF vars, IInv, Types, Pointers, Ranges, Filled, CurrentSlot, Kept
<1>8. QED
    BY <1>1, <1>2, <1>3, <1>4, <1>5, <1>6, <1>7 DEF Next

\* The inductive invariant holds in every state of the loop.
LEMMA AlwaysIInv == Spec => []IInv
BY InitIInv, NextIInv, PTL DEF Spec
-----------------------------------------------------------------------------
\* The packing loop indexes no rule outside its list and hands out no range
\* that reaches past it, for every list, chunk size and set of endpoints.
THEOREM PackingTypeOK == Spec => []TypeOK
<1>1. IInv => TypeOK
    <2> SUFFICES ASSUME IInv PROVE TypeOK
        OBVIOUS
    <2>1. /\ Types
          /\ n \in Nat /\ chunkStartIdx \in Nat /\ chunkEndIdx \in Nat /\ Frontier \in Nat
          /\ chunkStartIdx <= n /\ chunkEndIdx <= n /\ Frontier <= n
        BY DEF IInv, Types, Pointers, Frontier
    <2>2. DOMAIN from = Slots /\ DOMAIN to = Slots
        BY DEF IInv, Types, Pointers, Slots
    <2>3. ASSUME NEW s \in Slots PROVE from[s] <= n /\ to[s] <= n
        <3>1. from[s] \in Nat /\ to[s] \in Nat
            BY <2>2 DEF IInv, Types
        <3>2. from[s] <= to[s] /\ to[s] <= Frontier
            BY DEF IInv, Ranges
        <3>3. QED
            BY <2>1, <3>1, <3>2
    <2>4. QED
        BY <2>1, <2>2, <2>3 DEF TypeOK
<1>2. QED
    BY AlwaysIInv, <1>1, PTL

\* packingIngressRules and its five twins hand every rule of the list to
\* exactly one policy endpoint, for every list and every chunk size.
THEOREM PackingLosesNoRule == Spec => []EveryRulePlacedOnce
<1>1. IInv => EveryRulePlacedOnce
    <2> SUFFICES ASSUME IInv, pc = "done", NEW r \in 0..n-1
                 PROVE  \E s \in Slots :
                            /\ from[s] <= r /\ r < to[s]
                            /\ \A t \in Slots : from[t] <= r /\ r < to[t] => t = s
        BY DEF EveryRulePlacedOnce
    <2>1. r \in Nat /\ r < Frontier
        BY DEF IInv, Types, CurrentSlot, Frontier
    <2>2. PICK s \in Slots : from[s] <= r /\ r < to[s]
        BY <2>1 DEF IInv, Ranges
    <2>3. ASSUME NEW t \in Slots, from[t] <= r, r < to[t] PROVE t = s
        <3>1. /\ s \in Nat /\ t \in Nat
              /\ from[s] \in Nat /\ to[s] \in Nat /\ from[t] \in Nat /\ to[t] \in Nat
            BY DEF IInv, Types, Pointers, Slots
        <3>2. (s < t => to[s] <= from[t]) /\ (t < s => to[t] <= from[s])
            BY DEF IInv, Ranges
        <3>3. QED
            BY <3>1, <3>2, <2>1, <2>2, <2>3
    <2>4. QED
        BY <2>2, <2>3
<1>2. QED
    BY AlwaysIInv, <1>1, PTL

\* The chunk pointers fill the endpoints first fit and never beyond the chunk
\* size: what PolicyEndpointsManager takes the packing functions to do.
THEOREM PackingIsGreedy == Spec => []PackedGreedily
<1>1. IInv => PackedGreedily
    <2> SUFFICES ASSUME IInv, pc = "done"
                 PROVE  IsGreedyFill(Slots, [s \in Slots |-> s], Held, Taken, endpointChunkSize)
        BY DEF PackedGreedily
    <2>1. \A s \in Slots : /\ from[s] \in Nat /\ to[s] \in Nat /\ s \in Nat
                           /\ Taken[s] = to[s] - from[s]
        BY DEF IInv, Types, Pointers, Slots, Taken
    <2>2. FitsInChunks(Slots, Held, Taken, endpointChunkSize)
        BY <2>1 DEF FitsInChunks, IInv, Filled
    <2>3. ASSUME NEW s \in Slots, NEW t \in Slots, s < t, Taken[t] > 0
          PROVE  Held[s] + Taken[s] >= endpointChunkSize
        <3>1. to[s] <= from[t] /\ from[t] < to[t] /\ to[t] <= n
            BY <2>1, <2>3 DEF IInv, Ranges, Frontier, Pointers, Types
        <3>n. n \in Nat /\ to[s] \in Nat /\ to[t] \in Nat /\ from[t] \in Nat
            BY <2>1 DEF IInv, Types
        <3>2. to[s] < n
            BY <3>1, <3>n
        <3>3. QED
            BY <2>1, <3>2 DEF IInv, Filled
    <2>4. QED
        BY <2>2, <2>3 DEF IsGreedyFill, FirstFit
<1>2. QED
    BY AlwaysIInv, <1>1, PTL

\* The endpoints the caller keeps are exactly the ones that received a rule.
THEOREM PackingKeepsTheUsed == Spec => []KeptExactlyTheUsed
<1>1. IInv => KeptExactlyTheUsed
    <2> SUFFICES ASSUME IInv, pc = "done"
                 PROVE  doNotDelete = {s \in Slots : s <= Len(len) /\ Taken[s] > 0}
        BY DEF KeptExactlyTheUsed
    <2>1. \A s \in Slots : Taken[s] > 0 <=> from[s] < to[s]
        BY DEF IInv, Types, Pointers, Slots, Taken
    <2>2. QED
        BY <2>1 DEF IInv, Kept
<1>2. QED
    BY AlwaysIInv, <1>1, PTL
=============================================================================
