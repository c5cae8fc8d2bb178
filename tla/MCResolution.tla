---------------------------- MODULE MCResolution ----------------------------
(* A small cluster for Resolution: pods a and b and service s are in namespace *)
(* 2; a declares port http as 80, b as 8080.                                   *)
EXTENDS Resolution, TLC

CONSTANTS a, b, s, http, net, site

InNamespaces == (a :> 2) @@ (b :> 2) @@ (s :> 2)

PodObject(labels, ip, done, host, number) ==
    [labels |-> labels, ip |-> ip, done |-> done, host |-> host,
     ports |-> <<[name |-> http, number |-> number]>>]

\* a comes and goes, is relabelled, gets and loses its address, and ends; b comes
\* and goes and is on the host's network.
PodStates ==
    (a :> {PodObject({}, TRUE, FALSE, FALSE, 80), PodObject({"app"}, TRUE, FALSE, FALSE, 80),
           PodObject({"app"}, TRUE, TRUE, FALSE, 80), PodObject({"app"}, FALSE, FALSE, FALSE, 80)})
    @@ (b :> {PodObject({"app"}, TRUE, FALSE, TRUE, 8080)})

NamespaceStates == (1 :> {{}}) @@ (2 :> {{}, {"team"}, Absent})

\* Service ports for the name or for numbers; with
\* and without a selector and a cluster IP.
Listen(listen, target) == [listen |-> listen, target |-> target]
ServiceStates ==
    LET service(selector, ip, ports) == [selector |-> selector, clusterIP |-> ip, ports |-> ports]
    IN  s :> {service({"app"}, TRUE, <<Listen(443, http)>>),
              service({"app"}, FALSE, <<Listen(443, http)>>),
              service(Nil, TRUE, <<Listen(443, http)>>),
              service({"app"}, TRUE, <<Listen(80, 8080), Listen(443, 80)>>)}

One(port) == [port |-> port, end |-> Nil]
Range(from, to) == [port |-> from, end |-> to]
Select(nsSelector, podSelector) ==
    [block |-> Nil, domains |-> {}, nsSelector |-> nsSelector, podSelector |-> podSelector]
Block == [Select(Nil, Nil) EXCEPT !.block = net]
Domain == [Select(Nil, Nil) EXCEPT !.domains = {site}]
Rule(peers, ports) == [peers |-> peers, ports |-> ports]
Act(action, peers, ports) == [action |-> action, peers |-> peers, ports |-> ports]
Policy(kind, ns, podSelector, ingress, egress) ==
    [kind |-> kind, ns |-> ns, podSelector |-> podSelector, ingress |-> ingress, egress |-> egress]
Cluster(subject, ingress, egress) ==
    [kind |-> "cnp", ns |-> Nil, subject |-> subject, ingress |-> ingress, egress |-> egress]

Examples ==
    { \* in the pods' namespace: named ports on selected pods, numbers on peers
     Policy("np", 2, {"app"},
            <<Rule(Nil, {One(http)}), Rule({Block}, {One(443)})>>,
            <<Rule({Select(Nil, {"app"})}, {One(80)}), Rule({Block}, {One(http)})>>),
      \* in another namespace, with peers in namespaces of a label
     Policy("np", 1, {},
            <<Rule({Select({"team"}, Nil)}, {})>>,
            <<Rule({Select({"team"}, {})}, {One(80), One(http)}), Rule(Nil, {One(http)})>>),
     Policy("np", 1, {},
            <<>>,
            <<Rule({Select({}, {"app"})}, {Range(80, 443)}), Rule({Select({"team"}, Nil)}, {One(Nil)})>>),
     Policy("anp", 2, {},
            <<Rule({Select(Nil, {"app"})}, {One(http)})>>,
            <<Rule({Select(Nil, {}), Domain}, {One(http), One(443)}), Rule(Nil, {}),
              Rule({Domain}, {})>>),
      \* a peer in which nothing is set
     Policy("anp", 2, {"team"}, <<>>, <<Rule({Select(Nil, Nil)}, {})>>),
     Cluster(Select({"team"}, Nil),
             <<Act("Accept", {Select({}, {"app"})}, {One(http)}),
               Act("Deny", {Select({"team"}, Nil)}, {})>>,
             <<Act("Accept", {Select({"team"}, {"app"}), Domain}, {One(80)}),
               Act("Deny", {Select({}, Nil)}, {One(80)}),
               Act("Accept", {Domain}, {One(http)}), Act("Pass", {Block}, {})>>),
     Cluster(Select({}, {"app"}),
             <<Act("Accept", {Select({}, Nil)}, {One(80)})>>,
             <<Act("Accept", {Block}, {Range(80, 443)}), Act("Accept", {Block}, {One(80)})>>)}
=============================================================================
