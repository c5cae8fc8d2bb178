----------------------------- MODULE Publication -----------------------------
(***************************************************************************)
(* What the policy endpoints manager promises the node agents that enforce *)
(* a policy, without objects, chunks, caches and lists of work: the        *)
(* entries all its endpoints hold together, and how they may change.       *)
(*                                                                         *)
(* A round begins with the policy as it is then.  Its steps never add what *)
(* the policy does not want.  A round that knows what is published also    *)
(* never takes away an entry that is still wanted, and ends with exactly   *)
(* the traffic of the policy published, or is given up and then due again. *)
(* One that is mistaken about it may end with less, or with more.          *)
(***************************************************************************)
EXTENDS EndpointRules

CONSTANTS
    Kinds,       \* the kinds of entries
    Policies,    \* what the policy can be, [rules, isolation]
    Nothing      \* no round

VARIABLES
    wanted,      \* the policy
    due,         \* a round has to begin, or to be repeated
    target,      \* the policy a round works for, or Nothing
    sound,       \* the round knows what is published
    published,   \* the entries published, by kind
    isolations   \* the isolations the endpoints speak of; {} without endpoints

vars == <<wanted, due, target, sound, published, isolations>>

Init ==
    /\ wanted \in Policies
    /\ due = TRUE
    /\ target = Nothing
    /\ sound = TRUE
    /\ published = [k \in Kinds |-> {}]
    /\ isolations = {}

Want ==
    /\ wanted' \in Policies
    /\ due' = TRUE
    /\ UNCHANGED <<target, sound, published, isolations>>

Begin ==
    /\ target = Nothing /\ due
    /\ target' = wanted
    /\ due' = FALSE
    /\ sound' \in BOOLEAN
    /\ UNCHANGED <<wanted, published, isolations>>

\* What is published comes closer to the target, or stays as it is; a round
\* that is mistaken may take wanted entries away.
Approach ==
    /\ \A k \in Kinds :
         /\ sound => Traffic(published[k] \cap target.rules[k]) \subseteq Traffic(published'[k])
         /\ Traffic(published'[k]) \subseteq Traffic(published[k]) \cup Traffic(target.rules[k])
    /\ isolations' \subseteq isolations \cup {target.isolation}

Move ==
    /\ target # Nothing
    /\ Approach
    /\ UNCHANGED <<wanted, due, target, sound>>

GiveUp ==
    /\ target # Nothing
    /\ Approach
    /\ target' = Nothing
    /\ due' = TRUE
    /\ sound' = TRUE
    /\ UNCHANGED wanted

\* There is an endpoint, and all of them have the policy's isolation.
Complete(policy) ==
    /\ \A k \in Kinds : Traffic(published[k]) = Traffic(policy.rules[k])
    /\ isolations = {policy.isolation}

Finish ==
    /\ target # Nothing
    /\ sound => Complete(target)
    /\ target' = Nothing
    /\ UNCHANGED <<wanted, due, sound, published, isolations>>

\* A new process begins anew.
Restart ==
    /\ target' = Nothing
    /\ due' = TRUE
    /\ sound' = TRUE
    /\ UNCHANGED <<wanted, published, isolations>>

Next == Want \/ Begin \/ Move \/ GiveUp \/ Finish \/ Restart

Spec == Init /\ [][Next]_vars
=============================================================================
