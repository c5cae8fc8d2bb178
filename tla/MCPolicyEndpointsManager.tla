---------------------- MODULE MCPolicyEndpointsManager ----------------------
(* Instances of PolicyEndpointsManager.  Peers a and b are addresses, p and q *)
(* pods; ports are 80 and 443.                                                *)
EXTENDS ManagerPublishes

CONSTANTS a, b, p, q

All(peer) == [peer |-> peer, ports |-> <<>>]
To(peer, ports) == [peer |-> peer, ports |-> ports]

NP(in, eg, ps, sel, iso) ==
    [rules |-> [ingress |-> in, egress |-> eg, pods |-> ps],
     selector |-> sel, isolation |-> iso]

\* A rule stays while others come and go.  The second version has two rules
\* for one peer, which are merged when they meet in an endpoint.
Versions ==
    {NP({To(b, <<80>>)}, {}, {}, "app", "In"),
     NP({All(a), To(a, <<80>>), To(b, <<80>>)}, {}, {}, "app", "InOut")}

\* A cluster policy with a rule for all ports of a peer and one for some.
SharedPeers ==
    {NP({}, {}, {All(p)}, "app", "In"),
     NP({All(a), To(a, <<80>>)}, {}, {All(q)}, "app", "In")}

\* A cluster policy without rules, with two rules for one peer, which are merged,
\* and with rules of two kinds, the first of which stays.
ClusterVersions ==
    {NP({}, {}, {}, "app", "In"),
     NP({To(a, <<80>>), To(a, <<443>>)}, {}, {}, "app", "InOut"),
     NP({To(a, <<80>>)}, {}, {All(p)}, "app", "InOut")}

\* The rules of one version are gone in the next.
TwoVersions ==
    {NP({To(a, <<80>>), To(a, <<443>>)}, {}, {}, "app", "In"),
     NP({To(b, <<80>>)}, {}, {}, "app", "InOut")}
=============================================================================
