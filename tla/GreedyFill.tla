----------------------------- MODULE GreedyFill -----------------------------
(***************************************************************************)
(* What the bin-packing functions of the policy endpoints manager promise, *)
(* stated without their index arithmetic.  A "slot" is a PolicyEndpoint    *)
(* that can take rules of one kind (ingress, egress or pod endpoints).     *)
(* Slots are tried in the order of their position; a slot that already     *)
(* holds len[s] rules is given taken[s] more.                              *)
(***************************************************************************)
EXTENDS Naturals

\* A slot that is given rules is never filled beyond the chunk size.
FitsInChunks(slots, len, taken, chunk) ==
    \A s \in slots : taken[s] > 0 => len[s] + taken[s] <= chunk

\* A later slot is used only when every earlier one is full.
FirstFit(slots, pos, len, taken, chunk) ==
    \A s, t \in slots :
        pos[s] < pos[t] /\ taken[t] > 0 => len[s] + taken[s] >= chunk

IsGreedyFill(slots, pos, len, taken, chunk) ==
    /\ FitsInChunks(slots, len, taken, chunk)
    /\ FirstFit(slots, pos, len, taken, chunk)
=============================================================================
