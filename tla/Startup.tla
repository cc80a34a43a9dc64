------------------------------- MODULE Startup -------------------------------
(***************************************************************************)
(* How the agent comes by its pools: Config::read, connect_kubernetes and  *)
(* resolve_auto of flowsdn-agent/src/api.rs, Settings::parse and alloc_cidr *)
(* of kubernetes.rs, Controller::wait_for_pools of kubernetes_controller.rs *)
(* and the address half of Manager::restore_with_egress.  Between two      *)
(* starts the operator may edit the configuration and the Node object may  *)
(* get other CIDRs, while the Pods keep the addresses they have.           *)
(*                                                                         *)
(* An address is <<family, number>>; a CIDR [family, net, size].  In a     *)
(* configuration "" is an absent key and "bad" a value of the wrong form.  *)
(***************************************************************************)
EXTENDS Naturals, Sequences, FiniteSets, SequencesExt

CONSTANTS
    Configs,      \* the configuration files an operator may write
    NodeObjects,  \* the Node objects the API server may hold; <<>>: none
    Derived4,     \* last byte of a node IPv4 -> its 10.<last byte>.0.0/16
    Derived6,     \* four bytes of an address -> the f00d::/96 they name
    Pods,
    MaxStarts,    \* bound: starts of the agent
    MaxEdits      \* bound: edits of the configuration and of the Node

Family == {"ipv4", "ipv6"}
None == [family |-> "none", net |-> 0, size |-> 0]
NoAddress == <<"none", 0>>

VARIABLES
    config,       \* the file
    node,         \* the API server's Node object of this node
    phase,        \* "down", "wait" (for the pools), "restore", "serve"
    run,          \* the Config of this start
    seen,         \* the Node wait_for_pools returned from
    records,      \* persisted endpoints: Pod -> its addresses
    links,        \* Pods whose host link exists
    starts, edits
vars == <<config, node, phase, run, seen, records, links, starts, edits>>
------------------------------------------------------------------------------
(* Settings::parse *)

\* A flag or word that is absent has its default; anything else must be one of
\* its spellings.
Words ==
    [lbAlgorithm |-> {"", "random", "maglev"}, lbMode |-> {"", "snat", "dsr", "hybrid"},
     hostFirewall |-> {"", "off", "audit", "enforce"}, flags |-> {"", "true", "false"},
     cgroupRoot |-> {"", "absolute"}, clusterName |-> {"", "label"}]

\* The configured name, else K8S_NODE_NAME, else NODE_NAME.
NodeName(k) == LET given == SelectSeq(<<k.nodeName, k.env1, k.env2>>, LAMBDA n : n # "")
               IN  IF given = <<>> THEN "bad" ELSE given[1]
ParseSettings(k) ==
    /\ NodeName(k) # "bad"
    /\ \A w \in DOMAIN Words : k[w] \in Words[w]
------------------------------------------------------------------------------
(* Config::read *)

\* HostScope::new: the first and the last address of more than two are not
\* for use.
Usable(c) == IF c.size <= 2 THEN {<<c.family, n>> : n \in c.net .. (c.net + c.size - 1)}
             ELSE {<<c.family, n>> : n \in (c.net + 1) .. (c.net + c.size - 2)}

\* An auto pool is resolved later; a given one must be a CIDR of its family.
Pool(c, f) == IF c.pool[f] \in {"", "auto", "bad"} THEN None ELSE c.cidr[f]
ValidPool(c, f) == /\ c.pool[f] # "bad"
                   /\ c.pool[f] = "cidr" => c.cidr[f].family = f

\* With an auto pool the gateway is derived, without a pool there is none,
\* and otherwise it is a unicast address of the family.
ValidGateway(c, f) ==
    CASE c.pool[f] = "auto" -> c.gateway[f] \in {"", "auto"}
      [] c.pool[f] = ""     -> c.gateway[f] = ""
      [] OTHER              -> c.gateway[f] = "ip" /\ c.router[f][1] = f

\* MTUs of at least 1280 and the route's within the device's; endpoint-id-max
\* in 1..=65535.
ValidLimits(c) == /\ c.deviceMtu >= 1280 /\ c.routeMtu >= 1280
                  /\ c.routeMtu <= c.deviceMtu
                  /\ c.idMax \in 1 .. 65535

\* The TCP listener is on a loopback address only.
ValidPaths(c) == /\ c.socketPath # "" /\ c.stateDir # ""
                 /\ c.http \in {"", "loopback"}
                 /\ c.egress \in {"", "fib", "stack"}

Auto(c, f) == c.pool[f] = "auto"
Readable(c) ==
    /\ ValidPaths(c)
    /\ c.kubernetes => ParseSettings(c.settings)
    /\ (\E f \in Family : Auto(c, f)) => c.kubernetes
    /\ \A f \in Family : ValidPool(c, f) /\ ValidGateway(c, f)
    /\ \E f \in Family : c.pool[f] # ""
    /\ ValidLimits(c)

Config(c) == [auto |-> {f \in Family : Auto(c, f)},
              pool |-> [f \in Family |-> Pool(c, f)],
              gateway |-> [f \in Family |-> IF c.pool[f] = "cidr" THEN c.router[f] ELSE NoAddress]]
Unread == [auto |-> {}, pool |-> [f \in Family |-> None],
           gateway |-> [f \in Family |-> NoAddress]]
------------------------------------------------------------------------------
(* The Node *)

OfFamily(n, f) == SelectSeq(n.cidrs, LAMBDA c : c.family = f)
AddressesOf(n, f) == SelectSeq(n.ips, LAMBDA ip : ip[1] = f)

\* alloc_cidr: the first spec.podCIDRs entry of the family, else one derived
\* from the node's IPv4 address; for IPv6 from the IPv4 CIDR, else from the
\* node's IPv6 address.
AllocV4(n) == IF OfFamily(n, "ipv4") # <<>> THEN OfFamily(n, "ipv4")[1]
              ELSE IF AddressesOf(n, "ipv4") # <<>> THEN Derived4[AddressesOf(n, "ipv4")[1][2]]
              ELSE None
AllocCidr(n, f) ==
    CASE OfFamily(n, f) # <<>> -> OfFamily(n, f)[1]
      [] f = "ipv4" -> AllocV4(n)
      [] AllocV4(n) # None -> Derived6[AllocV4(n).net]
      [] AddressesOf(n, "ipv6") # <<>> -> Derived6[AddressesOf(n, "ipv6")[1][2]]
      [] OTHER -> None

\* node_cidrs: what the agents of the other nodes route here.
NodeCidrs(n, derive) ==
    ToSet(n.cidrs) \cup {AllocCidr(n, f) : f \in {f \in derive : OfFamily(n, f) = <<>>}}
------------------------------------------------------------------------------
(* A start *)

Init ==
    /\ config \in Configs /\ node \in NodeObjects
    /\ phase = "down" /\ run = Unread /\ seen = node
    /\ records = <<>> /\ links = {}
    /\ starts = 0 /\ edits = 0

\* Config::read, then connect_kubernetes: auto pools are waited for.  A file
\* it refuses ends the process.
ReadConfig ==
    /\ phase = "down" /\ starts < MaxStarts
    /\ starts' = starts + 1
    /\ IF Readable(config)
       THEN /\ run' = Config(config)
            /\ phase' = IF Config(config).auto # {} THEN "wait" ELSE "restore"
       ELSE UNCHANGED <<run, phase>>
    /\ UNCHANGED <<config, node, seen, records, links, edits>>

\* wait_for_pools: every auto family must have its CIDR; until then, or when
\* the list fails, it looks again a second later.
Yields(n) == \A f \in run.auto : AllocCidr(n, f) # None

\* router_ip: the first address after the network; the CIDR must hold four.
HasRouter(c) == c.size >= 4
RouterIp(c) == <<c.family, c.net + 1>>

\* resolve_auto: the pool and its router.
ResolveAuto(n) ==
    [run EXCEPT !.pool = [f \in Family |-> IF f \in run.auto THEN AllocCidr(n, f) ELSE run.pool[f]],
                !.gateway = [f \in Family |-> IF f \in run.auto THEN RouterIp(AllocCidr(n, f))
                                              ELSE run.gateway[f]]]

Wait ==
    /\ phase = "wait" /\ node # <<>> /\ Yields(node[1])
    /\ IF \A f \in run.auto : HasRouter(AllocCidr(node[1], f))
       THEN run' = ResolveAuto(node[1]) /\ phase' = "restore" /\ seen' = node
       ELSE phase' = "down" /\ run' = Unread /\ UNCHANGED seen
    /\ UNCHANGED <<config, node, records, links, starts, edits>>

\* Config::ipam: what an endpoint may have; the routers are excluded.
Enabled == {f \in Family : run.pool[f] # None}
Free == UNION {Usable(run.pool[f]) : f \in Enabled} \ {run.gateway[f] : f \in Family}
Live == {p \in DOMAIN records : p \in links}
Taken(r) == UNION {r[p] : p \in DOMAIN r}

\* Mutant: an address that is not in the pools is restored all the same.
RestoreAny ==
    /\ phase = "restore"
    /\ phase' = "serve" /\ records' = [p \in Live |-> records[p]]
    /\ UNCHANGED <<config, node, run, seen, links, starts, edits>>
\* Manager::restore_with_egress: each endpoint with a link takes its
\* addresses from the pools, or the start fails and nothing has changed; the
\* records of the others are removed.
Restore ==
    /\ phase = "restore"
    /\ IF \A p \in Live : records[p] \subseteq Free
       THEN phase' = "serve" /\ records' = [p \in Live |-> records[p]] /\ UNCHANGED run
       ELSE phase' = "down" /\ run' = Unread /\ UNCHANGED records
    /\ UNCHANGED <<config, node, seen, links, starts, edits>>
------------------------------------------------------------------------------
(* While it serves *)

\* Ipam::allocate_next and an endpoint with one address per family.
Add(p) ==
    /\ phase = "serve" /\ p \notin DOMAIN records
    /\ \E pick \in [Enabled -> Free \ Taken(records)] :
         /\ \A f \in Enabled : pick[f][1] = f
         /\ records' = [q \in DOMAIN records \cup {p} |-> IF q = p THEN {pick[f] : f \in Enabled} ELSE records[q]]
         /\ links' = links \cup {p}
    /\ UNCHANGED <<config, node, phase, run, seen, starts, edits>>

\* A Pod goes: the endpoint is deleted, or, with the agent down, its link only.
Delete(p) ==
    /\ p \in links
    /\ links' = links \ {p}
    /\ records' = IF phase = "serve" THEN [q \in DOMAIN records \ {p} |-> records[q]]
                  ELSE records
    /\ UNCHANGED <<config, node, phase, run, seen, starts, edits>>

Stop ==
    /\ phase # "down"
    /\ phase' = "down" /\ run' = Unread
    /\ UNCHANGED <<config, node, seen, records, links, starts, edits>>

Edit ==
    /\ edits < MaxEdits
    /\ edits' = edits + 1
    /\ \/ config' \in Configs \ {config} /\ UNCHANGED node
       \/ node' \in NodeObjects \ {node} /\ UNCHANGED config
    /\ UNCHANGED <<phase, run, seen, records, links, starts>>

Next == ReadConfig \/ Wait \/ Restore \/ Stop \/ Edit \/ \E p \in Pods : Add(p) \/ Delete(p)
Spec == Init /\ [][Next]_vars
------------------------------------------------------------------------------
TypeOK ==
    /\ phase \in {"down", "wait", "restore", "serve"}
    /\ DOMAIN records \subseteq Pods /\ links \subseteq Pods

\* While the agent serves, whatever was edited between its starts, every Pod
\* has addresses that lie in the agent's pools and are no router's and no
\* other Pod's; and a pool it took from the Node is one that
\* the other nodes' agents route here from the same Node object
\* ("what that node's agent uses", node_cidrs in kubernetes.rs).
PodsAreRouted ==
    phase = "serve" =>
        /\ \A p \in DOMAIN records :
             \A ip \in records[p] :
                /\ \E f \in Enabled : ip \in Usable(run.pool[f])
                /\ \A f \in Family : ip # run.gateway[f]
                /\ \A q \in DOMAIN records \ {p} : ip \notin records[q]
        /\ \A f \in run.auto : /\ run.pool[f] \in NodeCidrs(seen[1], run.auto)
                               /\ run.gateway[f] \in Usable(run.pool[f])
=============================================================================
