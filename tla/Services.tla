------------------------------ MODULE Services ------------------------------
(***************************************************************************)
(* Services and EndpointSlices to load-balancer frontends                  *)
(* (flowsdn-agent/src/services.rs, run by refresh_frontends whenever a     *)
(* watch changes the view).  An address is <<ip, port, protocol>>; the     *)
(* scope is 0 for clients in the cluster and 1 for packets arriving on     *)
(* this node's uplink.                                                     *)
(***************************************************************************)
EXTENDS Naturals, Sequences, FiniteSets

CONSTANT IpV6    \* the IPv6 addresses

NoNode == "-"
NoPort == 0

\* service_rows: a Service's annotations (empty: none) override the agent's options.
ServiceRow(o, options) ==
    [name |-> o.name, type |-> o.type, clusterIps |-> o.clusterIps, externalIps |-> o.externalIps,
     lbIps |-> o.lbIps, ports |-> o.ports, internalLocal |-> o.internalLocal,
     externalLocal |-> o.externalLocal, affinity |-> o.affinity,
     maglev |-> IF o.algorithm = "" THEN options.maglev ELSE o.algorithm = "maglev",
     dsrTcp |-> IF o.mode = "" THEN options.lbMode # "snat" ELSE o.mode = "dsr",
     dsrOther |-> IF o.mode = "" THEN options.lbMode = "dsr" ELSE o.mode = "dsr",
     nat46x64 |-> options.nat46x64]

\* slice_rows, and parse_slice's reading of an endpoint's conditions (empty: absent).
EndpointRow(e) ==
    LET ready == e.ready # "false"
    IN [addresses |-> e.addresses, node |-> e.node, ready |-> ready,
        serving |-> IF e.serving = "" THEN ready ELSE e.serving = "true",
        terminating |-> e.terminating = "true"]
SliceRow(o) == [service |-> o.service, v6 |-> o.v6, ports |-> o.ports,
                endpoints |-> {EndpointRow(e) : e \in o.endpoints}]

\* protocol(): the socket LB translates TCP and UDP only.
Translated == {"TCP", "UDP"}

\* backends(): the ready endpoints of one family, on the slice port of the
\* Service port's name and protocol, on node `only` and not on `not_on`; when
\* none is ready, the terminating ones that still serve.
Eligible(port, v6, slices, only, notOn) ==
    {<<sl, e>> \in UNION {{<<sl, e>> : e \in sl.endpoints} : sl \in slices} :
        /\ sl.v6 = v6
        /\ \E p \in sl.ports : p.name = port.name /\ p.protocol = port.protocol
                               /\ p.port # NoPort
        /\ only \in {NoNode, e.node}
        /\ notOn # e.node}
Target(sl, port) ==
    (CHOOSE p \in sl.ports : p.name = port.name /\ p.protocol = port.protocol).port
AddressesOf(pairs, port, v6) ==
    UNION {{<<ip, Target(q[1], port), port.protocol>> :
                ip \in {ip \in q[2].addresses : (ip \in IpV6) = v6}} : q \in pairs}
Backends(port, v6, slices, only, notOn) ==
    LET all == Eligible(port, v6, slices, only, notOn)
        ready == AddressesOf({q \in all : q[2].ready}, port, v6)
        terminating == AddressesOf({q \in all : ~q[2].ready /\ q[2].serving /\ q[2].terminating}, port, v6)
    IN IF ready = {} THEN terminating ELSE ready

\* The addresses of one Service port: the kind, the address, the node its
\* in-cluster backends must be on, and the order in which the code meets them.
AddressesFor(s, port, local, nodes) ==
    LET lb == s.type = "LoadBalancer"
    IN {[kind |-> "ClusterIP", ip |-> ip, port |-> port.port, rank |-> 1,
         only |-> IF s.internalLocal THEN local ELSE NoNode] : ip \in s.clusterIps}
       \cup {[kind |-> "ExternalIPs", ip |-> ip, port |-> port.port, rank |-> 2,
              only |-> NoNode] : ip \in s.externalIps}
       \cup {[kind |-> "LoadBalancer", ip |-> ip, port |-> port.port, rank |-> 3,
              only |-> NoNode] : ip \in IF lb THEN s.lbIps ELSE {}}
       \cup (IF (lb \/ s.type = "NodePort") /\ port.nodePort # NoPort
             THEN UNION {{[kind |-> "NodePort", ip |-> ip, port |-> port.nodePort,
                           rank |-> 3 + n,
                           only |-> IF s.externalLocal THEN nodes[n].name ELSE NoNode] :
                               ip \in nodes[n].ips} : n \in DOMAIN nodes}
             ELSE {})

Scopes(a) == IF a.kind = "ClusterIP" THEN {0} ELSE {0, 1}

\* The node the backends of an address must be on.
OnlyNodeAny(s, a, scope, local) == IF scope = 1 THEN NoNode ELSE a.only
OnlyNode(s, a, scope, local) ==
    IF scope = 1 THEN (IF s.externalLocal THEN local ELSE NoNode) ELSE a.only

\* One frontend of an address in a scope.
Frontend(s, port, slices, local, a, scope) ==
    LET v6 == a.ip \in IpV6
        same == Backends(port, v6, slices, OnlyNode(s, a, scope, local), NoNode)
        other == IF s.nat46x64 /\ scope = 1 /\ same = {} /\ ~s.externalLocal
                 THEN Backends(port, ~v6, slices, NoNode, local) ELSE {}
    IN [kind |-> a.kind, service |-> s.name, affinity |-> s.affinity,
        backends |-> IF other # {} THEN other ELSE same,
        maglev |-> s.maglev /\ scope = 1,
        dsr |-> scope = 1 /\ other = {}
                /\ (IF port.protocol = "TCP" THEN s.dsrTcp ELSE s.dsrOther),
        nat46x64 |-> other # {}]

\* frontends(): an address fronts one Service port in each scope, the first
\* one met.
Frontends(services, slices, local, nodes) ==
    LET cands == UNION {UNION {UNION {{
                     [key |-> <<<<a.ip, a.port, p.protocol>>, scope>>,
                      rank |-> 100 * i + a.rank, service |-> services[i],
                      port |-> p, address |-> a] : scope \in Scopes(a)} :
                   a \in AddressesFor(services[i], p, local, nodes)} :
                 p \in {p \in services[i].ports : p.protocol \in Translated}} :
               i \in DOMAIN services}
        First(k) == CHOOSE c \in {c \in cands : c.key = k} :
                        \A d \in cands : d.key = k => c.rank <= d.rank
    IN [k \in {c.key : c \in cands} |->
          LET c == First(k)
          IN Frontend(c.service, c.port,
                      {sl \in slices : sl.service = c.service.name},
                      local, c.address, k[2])]

\* refresh_frontends: of the Services and slices in the view, once both lists are complete.
RefreshFrontends(view, local, nodes) ==
    IF ~(view.servicesSynced /\ view.slicesSynced) THEN <<>>
    ELSE Frontends([i \in DOMAIN view.services |-> ServiceRow(view.services[i], view.options)],
                   {SliceRow(o) : o \in view.slices}, local, nodes)
------------------------------------------------------------------------------
\* A client in the cluster that connects to a node's NodePort gets the
\* backends a packet arriving at that node would: the scope-0 frontend on any
\* node is the scope-1 frontend on the node whose address it is, unless that
\* one translates between families.
NodePortAsArriving(view, nodes) ==
    \A n \in DOMAIN nodes, m \in DOMAIN nodes :
        LET at == RefreshFrontends(view, nodes[n].name, nodes)
            from == RefreshFrontends(view, nodes[m].name, nodes)
        IN \A k \in {k \in DOMAIN at : /\ k[2] = 1 /\ k[1][1] \in nodes[n].ips
                                       /\ at[k].kind = "NodePort"
                                       /\ ~at[k].nat46x64} :
             /\ <<k[1], 0>> \in DOMAIN from
             /\ from[<<k[1], 0>>].kind = "NodePort" =>
                   from[<<k[1], 0>>].backends = at[k].backends
==============================================================================
