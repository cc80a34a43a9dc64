-------------------------------- MODULE MCLb --------------------------------
(* The load balancer for TLC: one behaviour is of one part, the map         *)
(* planning (maps), the uplink programs (nodeport), the frontends of a      *)
(* cluster's Services (services) or a Maglev table (maglev).                *)
EXTENDS Naturals, FiniteSets, Sequences, TLC

CONSTANTS Parts, MaxChanges, FlowSets, Cpus, MaxEvicted

VARIABLES part, maps, wanted, list, writing, ops, programmed, affinity, sockets,
          stray, lookup, recent, changes, clean,
          flows, table, dsrTable, job, delivered, answered, evicted,
          cluster, hashed

\* Two frontends (f1 is UDP), three backends of their family and one IPv6;
\* in the last list f1 is gone and f2 has no backend of the wanted family.
ServiceOf(b, s, m, n) ==
    [backends |-> b, sticky |-> s, maglev |-> m, nat46x64 |-> n]
MCLists ==
    {("f1" :> ServiceOf({"a", "b"}, TRUE, FALSE, FALSE))
        @@ ("f2" :> ServiceOf({"c"}, FALSE, TRUE, FALSE)),
     ("f1" :> ServiceOf({"b"}, TRUE, FALSE, FALSE))
        @@ ("f2" :> ServiceOf({"a", "c", "x"}, FALSE, TRUE, FALSE)),
     ("f2" :> ServiceOf({"c"}, TRUE, TRUE, TRUE))}
M == INSTANCE LbMaps WITH FrontSeq <- <<"f1", "f2">>,
        BackSeq <- <<"a", "b", "c", "x">>, IsV6 <- {"x"}, Udp <- {"f1"}, Outside <- {"f2"},
        Clients <- {"n1"}, Lists <- MCLists, MaxId <- 6, Size <- 5

\* f1 and f2 have a local and a remote backend (f2 with direct server
\* return); g4 and g6 translate between the families.
UplinkOf(b, d, n) == [backs |-> b, dsr |-> d, nat46x64 |-> n]
Uplink == [f1 |-> UplinkOf({"l1", "r1"}, FALSE, FALSE),
           f2 |-> UplinkOf({"l1", "r1"}, TRUE, FALSE),
           g4 |-> UplinkOf({"r6"}, FALSE, TRUE),
           g6 |-> UplinkOf({"r1", "l1"}, FALSE, TRUE)]
\* Clients that share NAT ports, and client ports that write to two frontends.
MCFlowSets == {{<<"c1", "f1">>, <<"c2", "f1">>}, {<<"c1", "f1">>, <<"d6", "g6">>},
               {<<"c1", "f1">>, <<"c1", "f2">>}, {<<"c1", "f2">>, <<"c1", "g4">>}}
N == INSTANCE NodePort WITH Service <- Uplink, IsV6 <- {"r6", "g6", "d6"},
        Local <- {"l1"}, NatPorts <- 0..1, NatTries <- 1

\* Two nodes, two Services that may want the same address, endpoints of every
\* readiness on either node; with slice port 1 their list is not complete yet.
S == INSTANCE Services WITH IpV6 <- {"6a"}
MCNodes == <<[name |-> "n1", ips |-> {"10"}], [name |-> "n2", ips |-> {"20"}]>>
MCPort(np) == [name |-> "web", protocol |-> "TCP", port |-> 80, nodePort |-> np]
MCService(name, type, ext, np, il, el) ==
    [name |-> name, type |-> type, clusterIps |-> {"1"}, externalIps |-> ext,
     lbIps |-> {"20"}, ports |-> {MCPort(np), [MCPort(0) EXCEPT !.protocol = "SCTP"]},
     internalLocal |-> il, externalLocal |-> el, affinity |-> FALSE,
     algorithm |-> "", mode |-> ""]
MCSlice(eps, v6, p) ==
    [service |-> "a", v6 |-> v6, endpoints |-> eps,
     ports |-> {[name |-> "web", protocol |-> "TCP", port |-> p]}]
\* Ready, terminating but serving, and neither.
Endpoint(ip) == {[addresses |-> {ip}, node |-> n, ready |-> c[1], serving |-> c[2], terminating |-> c[3]] :
                    n \in {"n1", "n2"}, c \in {<<"", "", "">>, <<"false", "true", "true">>, <<"false", "", "true">>}}
Clusters ==
    {[servicesSynced |-> TRUE, slicesSynced |-> p # 1,
      options |-> [maglev |-> TRUE, lbMode |-> "hybrid", nat46x64 |-> nat],
      services |-> <<MCService("a", t, {}, 30, il, el),
                     MCService("b", "NodePort", ext, 30, FALSE, FALSE)>>,
      slices |-> {MCSlice({e, d}, FALSE, p), MCSlice({x}, TRUE, 8080)}] :
        t \in {"NodePort", "LoadBalancer"}, ext \in {{}, {"10"}},
        il \in BOOLEAN, el \in BOOLEAN, nat \in BOOLEAN, p \in {0, 1, 8080},
        e \in Endpoint("40"), d \in Endpoint("41"),
        x \in {[addresses |-> {"6a"}, node |-> "n2", ready |-> "true", serving |-> "", terminating |-> ""]}}

\* Up to three backends with any permutations.
Hash(w) == [offset : 0..4, skip : 1..4, weight : w]
Hashed == {<<a>> : a \in Hash({1, 2})}
          \cup {<<a, b>> : a \in Hash({1, 3}), b \in Hash({1, 2})}
          \cup {<<a, b, c>> : a \in Hash({1}), b \in Hash({2}),
                              c \in [offset : {0, 3}, skip : {1, 2}, weight : {1, 4}]}

mvars == <<maps, wanted, list, writing, ops, programmed, affinity, sockets,
           stray, lookup, recent, changes, clean>>
nvars == <<flows, table, dsrTable, job, delivered, answered, evicted>>
ivars == <<cluster, hashed>>
vars == <<part, mvars, nvars, ivars>>

Init ==
    /\ part \in Parts
    /\ M!Init
    /\ IF part = "nodeport" THEN N!Init
       ELSE N!Init /\ flows = CHOOSE f \in FlowSets : TRUE
    /\ cluster \in IF part = "services" THEN Clusters ELSE {<<>>}
    /\ hashed \in IF part = "maglev" THEN Hashed ELSE {<<>>}

MapsStep == part = "maps" /\ M!Next /\ UNCHANGED <<part, nvars, ivars>>
NodePortStep == part = "nodeport" /\ N!Next /\ UNCHANGED <<part, mvars, ivars>>
\* The other parts are inputs to a function.
Rest == part \in {"services", "maglev"} /\ UNCHANGED vars
Next == MapsStep \/ NodePortStep \/ Rest

\* The loop's timer (every 30 s and on each new list) starts a pass, and a
\* pass writes on.
Fairness == /\ WF_writing(part = "maps" /\ M!Begins)
            /\ WF_mvars(part = "maps" /\ M!Apply)
            /\ WF_mvars(part = "maps" /\ M!Programmed)
Spec == Init /\ [][Next]_vars /\ Fairness
------------------------------------------------------------------------------
\* Between any two writes of the agent's plan a lookup ends at a backend that
\* a list being written gives the frontend, and no UDP socket is left to a
\* backend that is gone (plan, desired, terminate).
LookupSound ==
    M!MapsSound /\ M!LookupsEnd /\ M!NumbersDistinct /\ M!SocketsFollowBackends
\* After failed writes and restarts the maps become the last list's
\* (service_loop).
MapsConverge == M!MapsConverge
\* Answers reach the right client from the address it wrote to, a forward
\* entry has the entry that undoes it (nodeport_ingress, nodeport_egress,
\* claim_port), a NodePort means the same to clients inside and outside
\* (frontends), and a Maglev table is full and shares its entries by weight
\* (table).
FlowsSound ==
    /\ N!RepliesFromFrontend /\ N!ForwardHasReply
    /\ part = "services" => S!NodePortAsArriving(cluster, MCNodes)
    /\ part = "maglev" => M!TableIsFair(hashed)
==============================================================================
