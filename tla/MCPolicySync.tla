--------------------------- MODULE MCPolicySync ---------------------------
(***************************************************************************)
(* One local Pod, two Pods of one identity that name a port differently,   *)
(* the node, two addresses of other nodes, and policies that meet: blocks  *)
(* inside blocks with exceptions, with nodes in the blocks and in the      *)
(* exceptions, denies of every identity and of an entity, named ports of   *)
(* Pods, of an entity and of everyone, default deny switched off.          *)
(***************************************************************************)
EXTENDS PolicySync

App == <<"pod", "app">>
PodRec(identity, namespace, app, addr, named) ==
    [identity |-> identity, namespace |-> namespace, addr |-> addr, named |-> named,
     labels |-> (App :> app) @@ (PodNamespace :> namespace) @@ (PolicyCluster :> Cluster)]
MCSubject == PodRec(300, "x", "web", 1, <<6, "sql">> :> 2)
MCPods == {MCSubject, PodRec(301, "x", "db", 2, <<6, "sql">> :> 1),
                      PodRec(301, "x", "db", 0, <<6, "sql">> :> 3)}
MCNodeLabels == App :> "node"
Where(app) == [EmptySelector EXCEPT !.labels = App :> app]

P(protocol, port) == [protocol |-> protocol, name |-> "", port |-> port, noEnd |-> TRUE, end |-> 0, l7 |-> FALSE]
Named(name) == [P(6, 0) EXCEPT !.name = name]
NoRule == [unsupported |-> FALSE, Entities |-> <<>>, CIDR |-> <<>>, CIDRSet |-> <<>>,
           Endpoints |-> <<>>, Nodes |-> <<>>, toPorts |-> <<>>]
From(entities) == [NoRule EXCEPT !.Entities = <<entities>>]
FromPods(app) == [NoRule EXCEPT !.Endpoints = << <<Where(app)>> >>]
FromBlock(cidr, except) == [NoRule EXCEPT !.CIDRSet = << <<[cidr |-> cidr, except |-> except]>> >>]
On(rule, ports) == [rule EXCEPT !.toPorts = <<ports>>]

NoSpec == [endpointSelector |-> <<>>, nodeSelector |-> <<>>, ingress |-> <<>>, ingressDeny |-> <<>>,
           egress |-> <<>>, egressDeny |-> <<>>, denyIngress |-> <<>>, denyEgress |-> <<>>]
Spec(app) == [NoSpec EXCEPT !.endpointSelector = <<Where(app)>>]
NodeSpec == [NoSpec EXCEPT !.nodeSelector = <<Where("node")>>]
Flowsdn(namespace, specs) ==
    [kind |-> "flowsdn", object |-> [namespace |-> namespace, specs |-> specs, audit |-> FALSE]]
K8s(ingress, egress) ==
    [kind |-> "k8s", object |-> [namespace |-> "x", pods |-> Where("web"), types |-> {},
                                 ingress |-> ingress, hasEgress |-> egress # <<>>, egress |-> egress]]
Block(cidr, except) == [kind |-> "ipBlock", cidr |-> cidr, except |-> except]

MCObjects ==
    {Flowsdn("x", {[Spec("web") EXCEPT
                      !.ingress = << <<From(<<"world-ipv4", "health">>), On(FromPods("db"), <<Named("sql")>>)>> >>,
                      !.egress = << <<On(From(<<"cluster">>), <<Named("sql")>>)>> >>,
                      !.ingressDeny = << <<On(NoRule, <<P(6, 2)>>)>> >>]}),
     Flowsdn("", {[Spec("web") EXCEPT !.denyIngress = <<FALSE>>,
                     !.ingressDeny = << <<On(FromBlock(Cidr(4, 1), {Cidr(7, 3)}), <<P(0, 1)>>)>> >>,
                     !.egress = << <<On(FromPods("db"), <<Named("sql")>>), FromBlock(Cidr(4, 2), {Cidr(5, 3)})>> >>]}),
     Flowsdn("", {[NodeSpec EXCEPT !.ingress = << <<On(From(<<"all">>), <<P(6, 1)>>), From(<<"cluster">>)>> >>,
                                   !.ingressDeny = << <<FromBlock(Cidr(4, 2), {})>> >>]}),
     Flowsdn("x", {NodeSpec, Spec("web")}),
     K8s(<<[peers |-> <<Block(Cidr(4, 1), {Cidr(6, 2)})>>, ports |-> <<>>]>>, <<>>),
     K8s(<<>>, <<[peers |-> <<Block(Cidr(6, 2), {})>>, ports |-> <<P(6, 2)>>],
                 [peers |-> <<>>, ports |-> <<Named("sql")>>]>>)}

====
