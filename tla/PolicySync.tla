---------------------------- MODULE PolicySync ----------------------------
(***************************************************************************)
(* Endpoint and host policy, from the watched objects to the packet: the   *)
(* agent compiles its view to the contents of three kernel maps            *)
(* (flowsdn-agent policy.rs), the policy thread brings the maps there one  *)
(* write at a time (kubernetes_controller.rs policy_loop, apply_policy;    *)
(* flowsdn-bpf-loader policy_maps.rs), and the BPF program enforces what   *)
(* the maps hold at that moment (flowsdn-bpf local-delivery/policy.rs).    *)
(*                                                                         *)
(* Addresses have AddrBits bits.  There is one Pod with an endpoint here   *)
(* (Subject, on PodIf) and one uplink (UplinkIf).                          *)
(***************************************************************************)
EXTENDS NetworkPolicy

CONSTANTS AddrBits,
          Pods,          \* records with identity, addr, labels and named ports
          Subject,       \* the Pod of this node
          HostAddrs, RemoteNodeAddrs, NodeLabels,
          Objects,       \* [kind: "k8s" or "flowsdn", object]
          PodIf, UplinkIf, EndpointId, HostEndpoint,
          MaxChanges, MaxFailures

Addresses == 0..(2^AddrBits - 1)

VARIABLES mode,      \* the host firewall: "off", "audit" or "enforce"
          ready,     \* the lists are complete and the endpoints published
          objects,   \* the watched policy objects
          known,     \* the Pods whose identity is in the view
          uplinks,   \* the interfaces that hold the node's addresses
          wanted,    \* when the host firewall first wanted an uplink: "learning" or "learned"
          desired,   \* what the policy thread compiled: <<>> or <<contents>>
          applied,   \* what it last applied in full
          maps,      \* the kernel maps: endpoints, entries, ipcache
          compiled,  \* what the view compiles to, a function of mode, objects, known, uplinks and wanted
          changes, failures

syncVars == <<mode, ready, objects, known, uplinks, wanted, desired, applied, maps, compiled, changes, failures>>

(***************************************************************************)
(* CIDR prefixes (flowsdn-identity cidr.rs), ordered by network, length.   *)
(***************************************************************************)
Net(addr, len) == addr - (addr % 2^(AddrBits - len))
Cidr(addr, len) == [net |-> Net(addr, len), len |-> len]
Host32(addr) == Cidr(addr, AddrBits)
ContainsPrefix(p, q) == p.len <= q.len /\ Net(q.net, p.len) = p.net
CidrLess(p, q) == p.net < q.net \/ (p.net = q.net /\ p.len < q.len)

CidrIdentityBase == 2^24

(***************************************************************************)
(* policy.rs compile                                                       *)
(***************************************************************************)
\* The prefixes that get a local identity, in their order.
NamedPrefixes(entries, rules) ==
    LET named(p) == {p.cidr} \cup p.except
        ofEntries == {p \in UNION {Range(e.l3[1]) : e \in {e \in entries : e.l3 # <<>>}} : p.kind = "ipBlock"}
        ofRules == {p \in UNION {r.peers[1] : r \in {r \in rules : r.peers # <<>>}} : p.kind = "cidr"}
    IN UNION {named(p) : p \in ofEntries \cup ofRules}

CidrIdentities(prefixes) ==
    [p \in prefixes |-> CidrIdentityBase + Cardinality({q \in prefixes : q = p \/ CidrLess(q, p)})]

\* Compiler::cidr_peer.
CidrPeer(cidrs, cidr, except) ==
    LET selected(p) == ContainsPrefix(cidr, p) /\ ~ \E e \in except : ContainsPrefix(e, p)
        holds(addrs) == \E a \in addrs : selected(Host32(a))
    IN {cidrs[p] : p \in {p \in DOMAIN cidrs : selected(p)}}
       \cup (IF holds(HostAddrs) THEN {HOST} ELSE {})
       \cup (IF holds(RemoteNodeAddrs \ HostAddrs) THEN {REMOTE_NODE} ELSE {})

Selecting(view, selector) == {p.identity : p \in {p \in view.known : SelectorMatches(selector, p.labels)}}

\* Compiler::peers, of a NetworkPolicy entry; 0 is every identity.
EntryPeers(view, cidrs, entry) ==
    IF entry.l3 = <<>> THEN {0}
    ELSE UNION {IF p.kind = "selector" THEN Selecting(view, p.selector)
                ELSE CidrPeer(cidrs, p.cidr, p.except) : p \in Range(entry.l3[1])}

\* Compiler::host_peers.
HostPeers(view, cidrs, rule) ==
    IF rule.peers = <<>> THEN {0}
    ELSE UNION {CASE p.kind = "identities" -> p.ids
                  [] p.kind = "cidr" -> CidrPeer(cidrs, p.cidr, p.except)
                  [] OTHER -> Selecting(view, p.selector) : p \in rule.peers[1]}

\* l4_keys, of one identity: <<identity, protocol, port, prefix>>.
L4Keys(id, protocol, range) ==
    IF protocol = 0 THEN {<<id, 0, 0, 0>>}
    ELSE {<<id, protocol, b.port, b.prefix>> : b \in Range(Blocks(range))}

\* named_ports of the destination: the subject, or the Pods that hold the identity (pods_of);
\* every Pod for 0.
NamedPorts(view, ingress, id, key) ==
    LET pods == CASE ingress -> {Subject}
                  [] ~ingress /\ id = 0 -> Pods
                  [] OTHER -> {p \in view.known : p.identity = id}
    IN {p.named[key] : p \in {p \in pods : key \in DOMAIN p.named}}

\* Compiler::rules and l4_keys, of one NetworkPolicy entry.
EntryKeys(view, cidrs, entry) ==
    LET ofPort(id, p) ==
            IF p.name = "" THEN LET range == FromApi(p.port, p.noEnd, p.end)
                                IN IF range = NoRange THEN {} ELSE L4Keys(id, p.protocol, range)
            ELSE UNION {L4Keys(id, p.protocol, FromApi(n, TRUE, 0))
                          : n \in NamedPorts(view, entry.ingress, id, <<p.protocol, p.name>>)}
    IN UNION {IF entry.l4 = <<>> THEN L4Keys(id, 0, AnyPorts)
              ELSE UNION {ofPort(id, p) : p \in Range(entry.l4)} : id \in EntryPeers(view, cidrs, entry)}

\* Compiler::pod_rule.
PodRule(view, cidrs, rule, ingress) ==
    UNION {(IF rule.ranges = {} /\ rule.named = {} THEN {<<id, 0, 0, 0>>} ELSE {})
           \cup UNION {L4Keys(id, r[1], r[2]) : r \in rule.ranges}
           \cup {<<id, x[1][1], x[2], PortBits>> :
                   x \in {x \in rule.named \X Ports : x[2] \in NamedPorts(view, ingress, id, x[1])}}
           : id \in HostPeers(view, cidrs, rule)}

\* l4_holds and deny_over_allow.
L4Holds(outer, inner) ==
    \/ outer[2] = 0
    \/ /\ outer[2] = inner[2] /\ outer[4] <= inner[4]
       /\ BlockMatches([port |-> outer[3], prefix |-> outer[4]], inner[3])


\* The denies are tried in key order up to the one that covers the allow.
KeyBefore(k, l) == \E i \in DOMAIN k : k[i] < l[i] /\ \A j \in 1..(i - 1) : k[j] = l[j]
DenyOverAllow(allows, denies) ==
    LET covering(a) == {d \in denies : d[1] \in {a[1], 0} /\ L4Holds(d, a)}
        inside(a) == {d \in denies : /\ d[1] \in {a[1], 0} /\ L4Holds(a, d)
                                     /\ \A c \in covering(a) : KeyBefore(d, c)}
    IN [allows |-> {a \in allows : covering(a) = {}},
        denies |-> denies \cup UNION {{<<a[1], d[2], d[3], d[4]>> : d \in inside(a)} : a \in allows}]

\* write_entries; a deny replaces an allow at the same key.
AllowPrecedence == 1
HostAllowPrecedence == MaxPriority * 256 + 1
WriteEntries(endpoint, egress, allows, denies, precedence) ==
    LET key(k) == <<endpoint, PolicyKey(k[1], egress, k[2], k[3], k[4])>>
        ruled == DenyOverAllow(allows, denies)
    IN [k \in {key(d) : d \in ruled.denies} |-> Entry(TRUE, MaxPrecedence, 0, FALSE, 0, 0)]
       @@ [k \in {key(a) : a \in ruled.allows} |-> Entry(FALSE, precedence, 0, FALSE, 0, 0)]

EmptyMaps == [endpoints |-> <<>>, entries |-> <<>>, ipcache |-> <<>>]
Union(f, g) == g @@ f      \* later inserts replace earlier ones

\* compile, of one direction of the subject: what selects it, and the entries that result.
CompileDirection(view, entries, policies, cidrs, ingress) ==
    LET selected == {e \in entries : e.ingress = ingress /\ SelectorMatches(e.subject, Subject.labels)}
        selecting == {p \in policies : SelectorMatches(p.subject, Subject.labels)}
        directions == {d \in {IF ingress THEN p.ingress ELSE p.egress : p \in selecting} : d.selects}
        rules == UNION {d.rules : d \in directions}
        keys(deny) == UNION {PodRule(view, cidrs, r, ingress) : r \in {r \in rules : r.deny = deny}}
        wild == IF selected = {} /\ ~ \E d \in directions : d.defaultDeny THEN {<<0, 0, 0, 0>>} ELSE {}
        allows == UNION {EntryKeys(view, cidrs, e) : e \in selected} \cup keys(FALSE) \cup wild
    IN IF selected = {} /\ directions = {} THEN [flags |-> {}, entries |-> <<>>]
       ELSE [flags |-> {IF ingress THEN "ingress" ELSE "egress"},
             entries |-> WriteEntries(EndpointId, ~ingress, allows, keys(TRUE), AllowPrecedence)]

\* host_firewall: the host endpoint's entries and the uplinks' rows.
CompileHost(view, hosts, cidrs) ==
    LET l4(r, id) == IF r.ranges = {} THEN {<<id, 0, 0, 0>>} ELSE UNION {L4Keys(id, x[1], x[2]) : x \in r.ranges}
        ofRule(r) == UNION {l4(r, id) : id \in HostPeers(view, cidrs, r)}
        keys(deny) == UNION {ofRule(r) : r \in {r \in hosts.rules : r.deny = deny}}
        flags(i) == IF hosts.enforce /\ i \notin view.learning
                    THEN {"ingress"} \cup (IF hosts.audit \/ view.mode = "audit" THEN {"audit"} ELSE {}) ELSE {}
    IN [endpoints |-> [i \in view.interfaces |-> [endpoint |-> HostEndpoint, flags |-> flags(i)]],
        entries |-> WriteEntries(HostEndpoint, FALSE, keys(FALSE), keys(TRUE), HostAllowPrecedence)]

\* compile, its last part: the contents of the maps.
Contents(view, cidrs, ingress, egress, host) ==
    LET flags == ingress.flags \cup egress.flags
        at(addrs, id) == [p \in {Host32(a) : a \in addrs} |-> id]
        pods == [p \in {Host32(q.addr) : q \in view.known} |->
                   (CHOOSE q \in view.known : Host32(q.addr) = p).identity]
    IN [endpoints |-> Union(IF flags = {} THEN <<>> ELSE PodIf :> [endpoint |-> EndpointId, flags |-> flags], host.endpoints),
        entries |-> Union(Union(ingress.entries, egress.entries), host.entries),
        ipcache |-> Union(Union(Union(cidrs, pods), at(RemoteNodeAddrs \ HostAddrs, REMOTE_NODE)), at(HostAddrs, HOST))]

CompileNamed(view, entries, policies, hosts, cidrs) ==
    Contents(view, cidrs, CompileDirection(view, entries, policies, cidrs, TRUE),
             CompileDirection(view, entries, policies, cidrs, FALSE), CompileHost(view, hosts, cidrs))

CompileObjects(view, entries, policies, hosts) ==
    LET rules == hosts.rules \cup UNION {p.ingress.rules \cup p.egress.rules : p \in policies}
    IN CompileNamed(view, entries, policies, hosts, CidrIdentities(NamedPrefixes(entries, rules)))

\* compile.  The view's host interfaces and learning uplinks are the policy thread's.
CompileView(view) ==
    LET entries == UNION {Range(Import(o.object)) : o \in {o \in view.objects : o.kind = "k8s"}}
        flowsdn == {o.object : o \in {o \in view.objects : o.kind = "flowsdn"}}
        hosts == IF view.mode = "off" THEN [rules |-> {}, enforce |-> FALSE, audit |-> FALSE]
                 ELSE SelectHost(flowsdn, NodeLabels)
    IN CompileObjects(view, entries, PodPolicies(flowsdn), hosts)

(***************************************************************************)
(* The policy thread.                                                      *)
(***************************************************************************)
\* The thread's part of the view: the uplinks now, those new to it learning; none are
\* looked up when the host firewall is off.
Interfaces(ups) == IF mode = "off" THEN {} ELSE ups
Wanted(ups, before) ==
    [i \in Interfaces(ups) |-> IF i \in DOMAIN before THEN before[i] ELSE "learning"]
CompiledFrom(objs, pods, ups, before) ==
    LET now == Wanted(ups, before)
    IN CompileView([mode |-> mode, objects |-> objs, known |-> pods, interfaces |-> DOMAIN now,
                    learning |-> {i \in DOMAIN now : now[i] = "learning"}])
Recompiled == compiled' = CompiledFrom(objects', known', uplinks', wanted')

\* The loop wakes, outside apply_policy, and looks up the uplinks.
Wakes == desired = <<>> /\ wanted' = Wanted(uplinks, wanted)

\* Mutant: what was applied last is never brought to the maps again.
OnlyChanges(due) == ready /\ applied # <<compiled>>

\* The view is applied, once its lists are complete, when it is not what was applied last
\* or POLICY_RESYNC is due.
Applies(due) == ready /\ (due \/ applied # <<compiled>>)

\* One turn of policy_loop up to the writes of apply_policy.
Turn(due) ==
    /\ Wakes
    /\ desired' = IF Applies(due) THEN <<compiled>> ELSE <<>>
    /\ UNCHANGED <<mode, ready, objects, known, uplinks, applied, maps, compiled, changes, failures>>

\* A turn whose apply_policy fails to read the maps.
Unread(due) ==
    /\ Wakes /\ Applies(due)
    /\ failures < MaxFailures /\ failures' = failures + 1
    /\ UNCHANGED <<mode, ready, objects, known, uplinks, desired, applied, maps, compiled, changes>>

Write(map, key, value) == [maps EXCEPT ![map] = Union(@, key :> value)]
Delete(map, key) == [maps EXCEPT ![map] = [k \in DOMAIN @ \ {key} |-> @[k]]]

\* The keys of a map that apply_policy has yet to write, and yet to remove.
Differ(map) == {k \in DOMAIN desired[1][map] : k \notin DOMAIN maps[map] \/ maps[map][k] # desired[1][map][k]}
Stale(map) == DOMAIN maps[map] \ DOMAIN desired[1][map]

\* The order of the keys' bytes: the prefix length first, numbers from their lowest byte.
Bytes(map, k) ==
    CASE map = "endpoints" -> <<k>>
      [] map = "ipcache" -> <<k.len, k.net>>
      [] OTHER -> LET id == k[2].identity
                  IN <<LpmLength(k[2]), k[1], id % 256, (id \div 2^8) % 256, (id \div 2^16) % 256, id \div 2^24,
                       IF k[2].egress THEN 1 ELSE 0, k[2].protocol, k[2].port>>
First(map, keys) ==
    (CHOOSE x \in {<<Bytes(map, k), k>> : k \in keys} :
        \A b \in {Bytes(map, k) : k \in keys} : b = x[1] \/ KeyBefore(x[1], b))[2]

\* apply_policy, one map operation: entries, ipcache and endpoints are written, then endpoints,
\* ipcache and entries removed, each map in the order of its keys.
Written == <<"entries", "ipcache", "endpoints">>
Removed == <<"endpoints", "ipcache", "entries">>
ApplyOne ==
    /\ desired # <<>>
    /\ \/ \E i \in 1..3 : \E keys \in {Differ(Written[i])} \ {{}} : \E k \in {First(Written[i], keys)} :
             /\ \A j \in 1..(i - 1) : Differ(Written[j]) = {}
             /\ maps' = Write(Written[i], k, desired[1][Written[i]][k])
       \/ /\ \A m \in DOMAIN maps : Differ(m) = {}
          /\ \E i \in 1..3 : \E keys \in {Stale(Removed[i])} \ {{}} : \E k \in {First(Removed[i], keys)} :
                /\ \A j \in 1..(i - 1) : Stale(Removed[j]) = {}
                /\ maps' = Delete(Removed[i], k)
    /\ UNCHANGED <<mode, ready, objects, known, uplinks, wanted, desired, applied, compiled, changes, failures>>

\* apply_policy is through.
Applied ==
    /\ desired # <<>> /\ maps = desired[1]
    /\ applied' = desired /\ desired' = <<>>
    /\ UNCHANGED <<mode, ready, objects, known, uplinks, wanted, maps, compiled, changes, failures>>

\* A write or a removal fails: what was applied last is kept and the next turn starts over.
Failed ==
    /\ desired # <<>> /\ maps # desired[1] /\ failures < MaxFailures
    /\ desired' = <<>> /\ failures' = failures + 1
    /\ UNCHANGED <<mode, ready, objects, known, uplinks, wanted, applied, maps, compiled, changes>>

(***************************************************************************)
(* The world the view reports.                                             *)
(***************************************************************************)
Changed == changes < MaxChanges /\ changes' = changes + 1

PolicyChanges ==
    /\ Changed
    /\ \E o \in Objects : objects' = IF o \in objects THEN objects \ {o} ELSE objects \cup {o}
    /\ UNCHANGED <<mode, ready, known, uplinks, wanted, desired, applied, maps, failures>>
    /\ Recompiled
IdentityChanges ==
    /\ Changed
    /\ \E p \in Pods : known' = IF p \in known THEN known \ {p} ELSE known \cup {p}
    /\ UNCHANGED <<mode, ready, objects, uplinks, wanted, desired, applied, maps, failures>>
    /\ Recompiled
UplinkChanges ==
    /\ Changed
    /\ uplinks' = {UplinkIf} \ uplinks
    /\ UNCHANGED <<mode, ready, objects, known, wanted, desired, applied, maps, failures>>
    /\ Recompiled
\* HOST_LEARNING has passed since the uplink was first wanted.
Learned == \E i \in DOMAIN wanted : wanted[i] = "learning" /\ wanted' = [wanted EXCEPT ![i] = "learned"]
LearningOver ==
    /\ Learned
    /\ UNCHANGED <<mode, ready, objects, known, uplinks, desired, applied, maps, changes, failures>>
    /\ Recompiled

\* The watches have delivered every list, and the endpoints are published: for good.
ViewComplete ==
    /\ ~ready /\ ready' = TRUE
    /\ UNCHANGED <<mode, objects, known, uplinks, wanted, desired, applied, maps, compiled, changes, failures>>

SyncInit ==
    /\ mode \in {"off", "audit", "enforce"} /\ ready = FALSE
    /\ objects = {} /\ known = Pods /\ uplinks = {UplinkIf} /\ wanted = <<>>
    /\ desired = <<>> /\ applied = <<>> /\ maps = EmptyMaps
    /\ compiled = CompiledFrom(objects, known, uplinks, wanted) /\ changes = 0 /\ failures = 0

PolicyLoop == (\E due \in BOOLEAN : Turn(due)) \/ ApplyOne \/ Applied

SyncNext == \/ PolicyLoop \/ Failed \/ (\E due \in BOOLEAN : Unread(due))
            \/ ViewComplete \/ PolicyChanges \/ IdentityChanges \/ UplinkChanges \/ LearningOver

SyncSpec == SyncInit /\ [][SyncNext]_syncVars
            /\ WF_syncVars(PolicyLoop) /\ WF_wanted(Learned)

(***************************************************************************)
(* The BPF program.  A frame is what parse reads of a packet.              *)
(***************************************************************************)
\* parse, parse4 and parse6: a frame that ends early or is no IP header of its version is
\* malformed; neighbour discovery and path MTU errors pass.
Parse(frame) ==
    CASE frame.family \notin {4, 6} -> "pass"
      [] frame.broken -> "malformed"
      [] frame.icmp \in {"mtu", "neighbour"} -> "pass"
      [] OTHER -> "flow"

\* identity: the longest prefix of the ipcache; an address it lacks is world.
IdentityOf(ms, addr) ==
    LET hits == {p \in DOMAIN ms.ipcache : ContainsPrefix(p, Host32(addr))}
    IN IF hits = {} THEN WORLD ELSE ms.ipcache[CHOOSE p \in hits : \A q \in hits : q.len <= p.len]

EntriesFor(ms, endpoint) ==
    LET keys == {k \in DOMAIN ms.entries : k[1] = endpoint}
    IN [key \in {k[2] : k \in keys} |-> ms.entries[<<endpoint, key>>]]

\* enforce: whether the frame passes, when its flow is not remembered.
Passes(ms, ifindex, egress, hostScope, frame) ==
    LET ep == ms.endpoints[ifindex]
        enforced == (IF egress THEN "egress" ELSE "ingress") \in ep.flags
        refuse == "audit" \in ep.flags
        own == IF egress THEN frame.saddr ELSE frame.daddr
        remote == IdentityOf(ms, IF egress THEN frame.daddr ELSE frame.saddr)
        packet == [identity |-> remote, egress |-> egress, protocol |-> frame.protocol, port |-> frame.port]
    IN CASE ifindex \notin DOMAIN ms.endpoints \/ Parse(frame) = "pass" -> TRUE
         [] Parse(frame) = "malformed" -> hostScope \/ ~enforced \/ refuse
         [] hostScope /\ IdentityOf(ms, own) # HOST -> TRUE
         [] frame.fragment -> ~enforced \/ refuse
         [] OTHER -> \/ ~enforced
                     \/ ~egress /\ remote = HOST
                     \/ allowed(EntriesFor(ms, ep.endpoint), packet)
                     \/ refuse

(***************************************************************************)
(* What the objects say of a flow between the subject and an address.      *)
(***************************************************************************)
PodAt(addr) == {p \in known : p.addr = addr}
IsNode(addr) == addr \in HostAddrs \cup RemoteNodeAddrs

\* A block is about the addresses in it that are no Pod's; one address of this node, or of
\* any other node, stands for all addresses of this node, or of all other nodes.
InBlock(addr, cidr, except) ==
    LET in(a) == ContainsPrefix(cidr, Host32(a)) /\ ~ \E e \in except : ContainsPrefix(e, Host32(a))
    IN CASE addr \in HostAddrs -> \E a \in HostAddrs : in(a)
         [] addr \in RemoteNodeAddrs \ HostAddrs -> \E a \in RemoteNodeAddrs \ HostAddrs : in(a)
         [] OTHER -> PodAt(addr) = {} /\ in(addr)
InEntity(addr, name) ==
    CASE name = "all" -> TRUE
      [] name \in {"world", "world-ipv4", "world-ipv6"} -> PodAt(addr) = {} /\ ~IsNode(addr)
      [] name = "cluster" -> PodAt(addr) # {} \/ IsNode(addr)
      [] name = "host" -> addr \in HostAddrs
      [] name = "remote-node" -> addr \in RemoteNodeAddrs \ HostAddrs
      [] OTHER -> FALSE
Matching(addr, selector, namespace) ==
    ~IsNode(addr) /\ \E p \in PodAt(addr) :
        /\ SelectorMatches(selector, p.labels)
        /\ \/ namespace = NoNamespace \/ \E k \in Keys(selector) : k[1] = "ns" \/ k = PodNamespace
           \/ p.namespace = namespace

\* Who may name a port: the subject for what comes in.  For what goes out, every Pod when
\* the rule is for every peer, the Pods of the peer's identity when it selects Pods, and
\* nobody when it names another entity or a block.
Namers(ingress, peers, addr) ==
    CASE ingress -> {Subject}
      [] ~ingress /\ peers = "every" -> Pods
      [] ~ingress /\ peers = "pods" -> {p \in known : p.identity \in {q.identity : q \in PodAt(addr)}}
      [] OTHER -> {}
PortCovers(p, namers, protocol, port) ==
    /\ p.protocol \in {0, protocol}
    /\ IF p.name = "" THEN InRange(FromApi(p.port, p.noEnd, p.end), port)
       ELSE \E d \in namers : <<protocol, p.name>> \in DOMAIN d.named /\ d.named[<<protocol, p.name>>] = port

\* One rule of a FlowsdnNetworkPolicy: every member of it that is present is an alternative.
RuleCovers(rule, namespace, ingress, addr, protocol, port) ==
    LET listed(field) == IF rule[field] = <<>> THEN {} ELSE Range(rule[field][1])
        ports == listed("toPorts")
        l3 == \E f \in {"Entities", "CIDR", "CIDRSet", "Endpoints"} : rule[f] # <<>>
        peers == (IF (~l3 /\ ports # {}) \/ "all" \in listed("Entities") THEN {"every"} ELSE {})
                 \cup (IF \E e \in listed("Endpoints") : Matching(addr, e, namespace) THEN {"pods"} ELSE {})
                 \cup (IF \/ \E name \in listed("Entities") : InEntity(addr, name)
                          \/ \E c \in listed("CIDR") : InBlock(addr, c, {})
                          \/ \E c \in listed("CIDRSet") : InBlock(addr, c.cidr, c.except) THEN {"others"} ELSE {})
    IN /\ ~rule.unsupported /\ rule.Nodes = <<>>
       /\ \E from \in peers : ports = {} \/ \E p \in ports : PortCovers(p, Namers(ingress, from, addr), protocol, port)

Rules(list) == IF list = <<>> THEN {} ELSE Range(list[1])
AllowsOf(spec, ingress) == IF ingress THEN spec.ingress ELSE spec.egress
DeniesOf(spec, ingress) == IF ingress THEN spec.ingressDeny ELSE spec.egressDeny
SwitchOf(spec, ingress) == IF ingress THEN spec.denyIngress ELSE spec.denyEgress
HasRules(spec, ingress) == Rules(AllowsOf(spec, ingress)) \cup Rules(DeniesOf(spec, ingress)) # {}

\* The specs that decide about the subject in a direction: of objects that are valid as a
\* whole, select it, and have rules or ask for default deny.
ValidObject(o) ==
    \A spec \in o.specs :
        /\ (spec.endpointSelector = <<>>) # (spec.nodeSelector = <<>>)
        /\ spec.nodeSelector # <<>> => o.namespace = NoNamespace
        /\ spec.endpointSelector # <<>> => ~ \E i \in BOOLEAN :
              \E v \in Rules(AllowsOf(spec, i)) \cup Rules(DeniesOf(spec, i)) : BadCombination(v)
FlowsdnObjects == {o.object : o \in {o \in objects : o.kind = "flowsdn"}}
Deciding(ingress) ==
    {x \in UNION {{<<o, spec>> : spec \in o.specs} : o \in {o \in FlowsdnObjects : ValidObject(o)}} :
        /\ x[2].endpointSelector # <<>>
        /\ SelectorMatches(x[2].endpointSelector[1], Subject.labels)
        /\ x[1].namespace \in {NoNamespace, Subject.namespace}
        /\ HasRules(x[2], ingress) \/ SwitchOf(x[2], ingress) = <<TRUE>>}

\* The NetworkPolicy entries of the subject, with a block's addresses that are no Pods'.
EntriesOn(ingress) ==
    {e \in UNION {Range(Import(o.object)) : o \in {o \in objects : o.kind = "k8s"}}
       : e.ingress = ingress /\ SelectorMatches(e.subject, Subject.labels)}
EntryCovers(e, addr, protocol, port) ==
    LET listed == IF e.l3 = <<>> THEN {} ELSE Range(e.l3[1])
        selects(p) == ~IsNode(addr) /\ \E q \in PodAt(addr) : SelectorMatches(p.selector, q.labels)
        peers == (IF e.l3 = <<>> THEN {"every"} ELSE {})
                 \cup (IF \E p \in listed : p.kind # "ipBlock" /\ selects(p) THEN {"pods"} ELSE {})
                 \cup (IF \E p \in listed : p.kind = "ipBlock" /\ InBlock(addr, p.cidr, p.except) THEN {"others"} ELSE {})
    IN \E from \in peers :
          e.l4 = <<>> \/ \E p \in Range(e.l4) : PortCovers(p, Namers(e.ingress, from, addr), protocol, port)

SubjectAllows(ingress, addr, protocol, port) ==
    LET covers(x, list) == \E v \in Rules(list) : RuleCovers(v, x[1].namespace, ingress, addr, protocol, port)
        specs == Deciding(ingress)
        defaultDeny(x) == IF SwitchOf(x[2], ingress) = <<>> THEN HasRules(x[2], ingress) ELSE SwitchOf(x[2], ingress)[1]
    IN \/ specs = {} /\ EntriesOn(ingress) = {}
       \/ ingress /\ addr \in HostAddrs
       \/ /\ ~ \E x \in specs : covers(x, DeniesOf(x[2], ingress))
          /\ \/ \E x \in specs : covers(x, AllowsOf(x[2], ingress))
             \/ \E e \in EntriesOn(ingress) : EntryCovers(e, addr, protocol, port)
             \/ EntriesOn(ingress) = {} /\ ~ \E x \in specs : defaultDeny(x)

\* The host, on an uplink it has learned the flows of.
HostAllows(addr, protocol, port) ==
    LET specs == UNION {{<<o, s>> : s \in {s \in o.specs : s.nodeSelector # <<>> /\ SelectorMatches(s.nodeSelector[1], NodeLabels)}}
                          : o \in {o \in FlowsdnObjects : o.namespace = NoNamespace}}
        covers(x, list) == \E v \in Rules(list) :
            (\A p \in Rules(v.toPorts) : p.name = "") /\ RuleCovers(v, NoNamespace, TRUE, addr, protocol, port)
    IN \/ mode \in {"off", "audit"}
       \/ ~ \E x \in specs : (x[2].ingress # <<>> \/ x[2].ingressDeny # <<>>) /\ x[2].denyIngress # <<FALSE>>
       \/ \E x \in specs : x[1].audit
       \/ addr \in HostAddrs
       \/ /\ ~ \E x \in specs : covers(x, x[2].ingressDeny)
          /\ \E x \in specs : covers(x, x[2].ingress)

Frame(source, destination, protocol, port) ==
    [family |-> 4, broken |-> FALSE, icmp |-> "", fragment |-> FALSE,
     saddr |-> source, daddr |-> destination, protocol |-> protocol, port |-> port]
InSync == maps = compiled /\ DOMAIN wanted = Interfaces(uplinks)
PodVerdict(ingress, addr, protocol, port) ==
    Passes(maps, PodIf, ~ingress, FALSE, IF ingress THEN Frame(addr, Subject.addr, protocol, port)
                                         ELSE Frame(Subject.addr, addr, protocol, port))


(***************************************************************************)
(* Once the lists are complete, the maps reach the view's contents when it *)
(* stops changing: changes while an apply is under way are seen by a later *)
(* turn, and an apply that failed half-way, or could not read the maps, is *)
(* made good even when the view has gone back to what was applied before   *)
(* it (policy_loop, which then waits for its resync).                      *)
(***************************************************************************)
MapsCatchUp == <>ready => <>[]InSync

(***************************************************************************)
(* kubernetes_controller.rs:744 says that a change never passes through a  *)
(* state that allows less than both ends: while an apply is under way, a   *)
(* flow that the last applied contents and the new ones both let pass      *)
(* passes.                                                                 *)
(***************************************************************************)
NeverLessThanBoth ==
    (desired # <<>> /\ applied # <<>>) =>
        \A addr \in Addresses \ {Subject.addr}, protocol \in {6, 17}, port \in Ports :
            LET passes(ms) == Passes(ms, PodIf, FALSE, FALSE, Frame(addr, Subject.addr, protocol, port))
            IN passes(applied[1]) /\ passes(desired[1]) => passes(maps)

====
