----------------------------- MODULE MCPolicy -----------------------------
(***************************************************************************)
(* The rules of a subject's resources, NetworkPolicy objects, and the      *)
(* kernel's policy records: three parts that share no state; a behaviour   *)
(* runs one of them.                                                       *)
(***************************************************************************)
EXTENDS PolicyRepository

VARIABLE part

mcVars == <<part, resources, revision, policies, records>>

\* Rules that meet in every way: a range inside another, an earlier tier that passes, equal
\* ranks with different redirects, a deny under a better priority.
R(tier, priority, verdict, peer, protocol, ports, proxy, listener) ==
    [tier |-> tier, priority |-> priority, verdict |-> verdict, egress |-> FALSE, peer |-> peer,
     protocol |-> protocol, ports |-> ports, auth |-> FALSE, proxy |-> proxy, listener |-> listener]
Low == [start |-> 1, end |-> 2]
High == [start |-> 2, end |-> 6]
MCRules ==
    {R(100, 0, "pass", AnyPeer, 6, Low, 0, 0), R(100, 0, "deny", 1, 6, High, 0, 0),
     R(100, 1, "allow", AnyPeer, 0, AnyPorts, 0, 0), R(100, 0, "allow", 1, 6, Low, 9, 0),
     R(200, 0, "allow", 1, 6, High, 9, 5), R(200, 0, "allow", AnyPeer, 6, Low, 8, 5),
     R(200, 0, "deny", AnyPeer, 17, Low, 0, 0), R(200, 1, "pass", 1, 0, AnyPorts, 0, 0),
     R(250, 0, "allow", AnyPeer, 6, AnyPorts, 0, 0), R(250, 0, "deny", 1, 6, High, 0, 0),
     R(250, 1, "allow", 1, 17, AnyPorts, 7, 0),
     [R(200, 0, "allow", 1, 6, Low, 0, 0) EXCEPT !.auth = TRUE],
     R(200, 0, "deny", 1, 6, Low, 9, 0)}
MCRuleLists ==
    {<<>>} \cup {<<r>> : r \in MCRules}
    \cup {<<r, s>> : r \in {x \in MCRules : x.tier = 100}, s \in {x \in MCRules : x.tier = 200}}

App == <<"pod", "app">>
Team == <<"pod", "team">>
Where(key, value) == [EmptySelector EXCEPT !.labels = key :> value]
Unless(key, value) == [EmptySelector EXCEPT !.exprs = {[key |-> key, op |-> "NotIn", values |-> {value}]}]

Pod(identity, namespace, app, team, cluster, named) ==
    [identity |-> identity, namespace |-> namespace, cluster |-> cluster, named |-> named,
     podLabels |-> App :> app, nsLabels |-> Team :> team,
     labels |-> (App :> app) @@ (<<"ns", "team">> :> team)
                @@ (PodNamespace :> namespace) @@ (PolicyCluster :> cluster)]
MCEndpoints ==
    {Pod(1, "x", "web", "red", "c1", <<>>), Pod(2, "x", "db", "red", "c1", <<6, "sql">> :> 2),
     Pod(3, "y", "web", "blue", "c1", <<6, "sql">> :> 3), Pod(4, "x", "web", "red", "c2", <<>>)}

Pods(pods) == [kind |-> "pods", pods |-> pods, anywhere |-> FALSE, namespaces |-> EmptySelector]
PodsIn(pods, namespaces) == [kind |-> "pods", pods |-> pods, anywhere |-> TRUE, namespaces |-> namespaces]
Block == [kind |-> "ipBlock"]
Port(protocol, port) == [protocol |-> protocol, name |-> "", port |-> port, noEnd |-> TRUE, end |-> 0]
PortsTo(protocol, port, end) == [Port(protocol, port) EXCEPT !.noEnd = FALSE, !.end = end]
Named(protocol, name) == [Port(protocol, 0) EXCEPT !.name = name]
Rule(peers, ports) == [peers |-> peers, ports |-> ports]
Object(namespace, pods, types, ingress, hasEgress, egress) ==
    [namespace |-> namespace, pods |-> pods, types |-> types,
     ingress |-> ingress, hasEgress |-> hasEgress, egress |-> egress]
MCObjects ==
    {Object("x", EmptySelector, {}, <<>>, FALSE, <<>>),
     Object("x", Where(App, "db"), {"Ingress"},
            <<Rule(<<Pods(Where(App, "web")), Block>>, <<Port(6, 2)>>)>>, TRUE, <<Rule(<<>>, <<>>)>>),
     Object("x", Unless(App, "web"), {}, <<Rule(<<PodsIn(Where(App, "web"), Where(Team, "blue"))>>, <<Named(6, "sql"), Port(17, 0)>>)>>,
            TRUE, <<Rule(<<PodsIn(EmptySelector, EmptySelector)>>, <<Named(6, "sql")>>)>>),
     Object("y", EmptySelector, {"Egress"}, <<>>, TRUE, <<Rule(<<>>, <<PortsTo(6, 1, 2)>>), Rule(<<Pods(EmptySelector)>>, <<Named(132, "sql")>>)>>),
     Object("x", Where(App, "web"), {"Ingress", "Egress"}, <<Rule(<<Block>>, <<>>)>>, TRUE,
            <<Rule(<<PodsIn(Unless(App, "db"), Unless(Team, "red"))>>, <<Port(6, 3), PortsTo(17, 1, 2)>>)>>)}

\* A pod identity with its aggregate and the wildcard; a redirect outranks an allow.
MCCandidates ==
    {[key |-> PolicyKey(identity, FALSE, l4[1], l4[2], l4[3]), entry |-> entry]
       : identity \in {0, AggregateCluster, 300}, l4 \in {<<0, 0, 0>>, <<6, 0, 0>>, <<6, 2, 3>>},
         entry \in {Entry(TRUE, MaxPrecedence, 0, FALSE, 0, 1), Entry(FALSE, 1, 0, FALSE, 0, 1),
                    Entry(FALSE, 1, 2, TRUE, 0, 1), Entry(FALSE, 127, 0, FALSE, 9, 1),
                    Entry(FALSE, 0, 0, FALSE, 0, 1)}}
MCPackets ==
    [identity : {300, 2^24 + 1}, egress : {FALSE}, protocol : {6}, port : {2, 3}]
    \cup [identity : {300, 2, 2^16 + 300}, egress : {FALSE}, protocol : {17}, port : {2}]

MCInit == part \in {"rules", "objects", "kernel"} /\ RepositoryInit /\ PoliciesInit /\ KernelInit
MCNext ==
    \/ part = "rules" /\ RepositoryNext /\ UNCHANGED <<part, policies, records>>
    \/ part = "objects" /\ PoliciesNext /\ UNCHANGED <<part, resources, revision, records>>
    \/ part = "kernel" /\ KernelNext /\ UNCHANGED <<part, resources, revision, policies>>
MCSpec == MCInit /\ [][MCNext]_mcVars
====
