------------------------------- MODULE Packing -------------------------------
(***************************************************************************)
(* The chunk-pointer loop that packingIngressRules, packingEgressRules,    *)
(* packingPodSelectorEndpoints and their three ClusterPolicyEndpoint       *)
(* twins share (pkg/policyendpoints).                                      *)
(*                                                                         *)
(* The loop distributes a list of rules over PolicyEndpoints.  Only        *)
(* positions and lengths matter to it, so a rule is its index 0..n-1 in    *)
(* the list, and a PolicyEndpoint is the number of rules it already holds. *)
(* Slots 1..Len(len) are modifiedEndpoints, then potentialDeletes, then    *)
(* the endpoints earlier packing calls put in createPolicyEndpoints; the   *)
(* slots appended by SplitRemaining are the new endpoints.                 *)
(***************************************************************************)
EXTENDS Integers, Sequences, GreedyFill

CONSTANTS endpointChunkSize,  \* m.endpointChunkSize
          MaxRules,           \* bound: rules to distribute
          MaxSlots,           \* bound: endpoints that exist before the call
          MaxHeld             \* bound: rules an existing endpoint holds

ASSUME ChunkSizePositive == endpointChunkSize \in Nat \ {0}
ASSUME BoundsAreNat == MaxRules \in Nat /\ MaxSlots \in Nat /\ MaxHeld \in Nat

VARIABLES n,              \* len(ingressList)
          len,            \* rules each slot holds before the call
          i,              \* the slot the loop is at
          chunkStartIdx,
          chunkEndIdx,
          from, to,       \* the rules slot s received: from[s] .. to[s] - 1
          doNotDelete,    \* slots the caller must not delete
          pc              \* "slot", "grow", "append", "split", "done"

vars == <<n, len, i, chunkStartIdx, chunkEndIdx, from, to, doNotDelete, pc>>

Init ==
    /\ n \in 0..MaxRules
    /\ \E s \in 0..MaxSlots : len \in [1..s -> 0..MaxHeld]
    /\ i = 1
    /\ chunkStartIdx = 0
    /\ chunkEndIdx = 0
    /\ from = <<>>
    /\ to = <<>>
    /\ doNotDelete = {}
    /\ pc = IF len = <<>> THEN "split" ELSE "slot"

\* Mutant: the end of the list is noticed one rule too late.
BeginSlotPastEnd ==
    /\ pc = "slot"
    /\ chunkStartIdx' = chunkEndIdx
    /\ pc' = IF len[i] < endpointChunkSize /\ chunkEndIdx <= n THEN "grow" ELSE "append"
    /\ UNCHANGED <<n, len, i, chunkEndIdx, from, to, doNotDelete>>

\* Mutant: the start pointer is not reset.
BeginSlotWithoutReset ==
    /\ pc = "slot"
    /\ pc' = IF len[i] < endpointChunkSize /\ chunkEndIdx < n THEN "grow" ELSE "append"
    /\ UNCHANGED <<n, len, i, chunkStartIdx, chunkEndIdx, from, to, doNotDelete>>

\* chunkStartIdx is reset and the slot is skipped, or its chunk is begun.
BeginSlot ==
    /\ pc = "slot"
    /\ chunkStartIdx' = chunkEndIdx
    /\ pc' = IF len[i] < endpointChunkSize /\ chunkEndIdx < n THEN "grow" ELSE "append"
    /\ UNCHANGED <<n, len, i, chunkEndIdx, from, to, doNotDelete>>

\* Mutant: off by one in the room that is left.
GrowChunkTooFar ==
    /\ pc = "grow"
    /\ len[i] + (chunkEndIdx - chunkStartIdx + 1) <= endpointChunkSize
    /\ chunkEndIdx < n - 1
    /\ chunkEndIdx' = chunkEndIdx + 1
    /\ UNCHANGED <<n, len, i, chunkStartIdx, from, to, doNotDelete, pc>>

\* The inner loop, one iteration: the chunk takes one more rule.
GrowChunk ==
    /\ pc = "grow"
    /\ len[i] + (chunkEndIdx - chunkStartIdx + 1) < endpointChunkSize
    /\ chunkEndIdx < n - 1
    /\ chunkEndIdx' = chunkEndIdx + 1
    /\ UNCHANGED <<n, len, i, chunkStartIdx, from, to, doNotDelete, pc>>

\* The inner loop ends; the rules chunkStartIdx .. chunkEndIdx are taken and
\* the end pointer moves to the next free rule.
EndChunk ==
    /\ pc = "grow"
    /\ ~ (/\ len[i] + (chunkEndIdx - chunkStartIdx + 1) < endpointChunkSize
          /\ chunkEndIdx < n - 1)
    /\ chunkEndIdx' = chunkEndIdx + 1
    /\ pc' = "append"
    /\ UNCHANGED <<n, len, i, chunkStartIdx, from, to, doNotDelete>>

\* Mutant: the slot is kept only if it received more than one rule.
EndSlotKeepingTwo ==
    /\ pc = "append"
    /\ from' = Append(from, chunkStartIdx)
    /\ to' = Append(to, chunkEndIdx)
    /\ doNotDelete' = IF chunkStartIdx + 1 < chunkEndIdx THEN doNotDelete \cup {i} ELSE doNotDelete
    /\ i' = i + 1
    /\ pc' = IF i = Len(len) THEN "split" ELSE "slot"
    /\ UNCHANGED <<n, len, chunkStartIdx, chunkEndIdx>>

\* The slot is kept if the end pointer moved; the loop goes to the next slot.
EndSlot ==
    /\ pc = "append"
    /\ from' = Append(from, chunkStartIdx)
    /\ to' = Append(to, chunkEndIdx)
    /\ doNotDelete' = IF chunkStartIdx # chunkEndIdx THEN doNotDelete \cup {i} ELSE doNotDelete
    /\ i' = i + 1
    /\ pc' = IF i = Len(len) THEN "split" ELSE "slot"
    /\ UNCHANGED <<n, len, chunkStartIdx, chunkEndIdx>>

\* lo.Chunk: one new endpoint for each further chunk of the remaining rules.
SplitRemaining ==
    /\ pc = "split"
    /\ chunkEndIdx < n
    /\ from' = Append(from, chunkEndIdx)
    /\ to' = Append(to, IF n - chunkEndIdx < endpointChunkSize
                          THEN n ELSE chunkEndIdx + endpointChunkSize)
    /\ chunkEndIdx' = to'[Len(to')]
    /\ i' = i + 1
    /\ UNCHANGED <<n, len, chunkStartIdx, doNotDelete, pc>>

\* Mutant: the end of the list is never recognised.
ReturnPastEnd ==
    /\ pc = "split"
    /\ chunkEndIdx > n
    /\ pc' = "done"
    /\ UNCHANGED <<n, len, i, chunkStartIdx, chunkEndIdx, from, to, doNotDelete>>

Return ==
    /\ pc = "split"
    /\ chunkEndIdx >= n
    /\ pc' = "done"
    /\ UNCHANGED <<n, len, i, chunkStartIdx, chunkEndIdx, from, to, doNotDelete>>

Next == BeginSlot \/ GrowChunk \/ EndChunk \/ EndSlot \/ SplitRemaining \/ Return

Spec == Init /\ [][Next]_vars /\ WF_vars(Next)
-----------------------------------------------------------------------------
\* The endpoints that got a range so far, the ones it holds before the call
\* and the ones it was given.
Slots == 1..Len(from)
Held == [s \in Slots |-> IF s <= Len(len) THEN len[s] ELSE 0]
Taken == [s \in Slots |-> to[s] - from[s]]

Types ==
    /\ n \in Nat
    /\ len \in Seq(Nat)
    /\ i \in Nat \ {0}
    /\ chunkStartIdx \in Nat
    /\ chunkEndIdx \in Nat
    /\ from \in Seq(Nat)
    /\ to \in Seq(Nat)
    /\ doNotDelete \subseteq Nat
    /\ pc \in {"slot", "grow", "append", "split", "done"}

\* The pointers and the slice bounds never leave the list: whatever the
\* endpoints hold, the loop reads no rule before its first or past its last.
TypeOK ==
    /\ Types
    /\ chunkStartIdx <= n
    /\ chunkEndIdx <= n
    /\ \A s \in DOMAIN from : from[s] <= n
    /\ \A s \in DOMAIN to : to[s] <= n

\* The loop never hands the same rule to two endpoints and never skips one:
\* the ranges it hands out are consecutive, and together they are the list.
EveryRulePlacedOnce ==
    pc = "done" =>
        \A r \in 0..n-1 : \E s \in Slots :
            /\ from[s] <= r /\ r < to[s]
            /\ \A t \in Slots : from[t] <= r /\ r < to[t] => t = s

\* What the pointer arithmetic amounts to: first fit within the chunk size.
PackedGreedily ==
    pc = "done" => IsGreedyFill(Slots, [s \in Slots |-> s], Held, Taken, endpointChunkSize)

\* doNotDelete is exactly the set of endpoints that existed before the call
\* and received a rule: the caller deletes every potentialDeletes endpoint
\* that is not in it, and updates every one that is.
KeptExactlyTheUsed ==
    pc = "done" => doNotDelete = {s \in Slots : s <= Len(len) /\ Taken[s] > 0}

\* The loop over the endpoints and the split of the rest come to an end.
Terminates == <>(pc = "done")
=============================================================================
