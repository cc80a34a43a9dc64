-------------------------- MODULE NetworkPolicy --------------------------
(***************************************************************************)
(* Network policy (flowsdn-policy).  First the rules of one subject: they  *)
(* are compiled to an interval index (mapstate.rs) which must decide every *)
(* packet as the brute-force oracle does (oracle.rs).  A priority is a     *)
(* number.  Then the objects rules come from: Kubernetes' policies, their  *)
(* translation to policy entries (k8s.rs), and the entries' evaluation for *)
(* one flow and their compilation over a snapshot of endpoints             *)
(* (simulator.rs).  Last the agent's own kinds (flowsdn-agent              *)
(* host_policy.rs).                                                        *)
(***************************************************************************)
EXTENDS Integers, Sequences, SequencesExt, FiniteSetsExt, TLC

(***************************************************************************)
(* Port ranges, and the masked blocks they are cut into: the form the      *)
(* kernel's longest-prefix map takes (ports.rs).  A port has PortBits bits *)
(* (16 in the code).                                                       *)
(***************************************************************************)
CONSTANT PortBits

ASSUME PortBitsAssumption == PortBits \in 1..16

MaxPort == 2^PortBits - 1
Ports == 0..MaxPort
AnyPorts == [start |-> 0, end |-> MaxPort]
NoRange == [start |-> 1, end |-> 0]

\* PortRange::from_api; noEnd is an absent endPort, NoRange an error.
FromApi(port, noEnd, end) ==
    IF noEnd THEN IF port = 0 THEN AnyPorts ELSE [start |-> port, end |-> port]
             ELSE IF port = 0 \/ end < port THEN NoRange ELSE [start |-> port, end |-> end]

InRange(range, port) == range.start <= port /\ port <= range.end

TrailingZeros(n) == Max({b \in 0..PortBits : n % 2^b = 0})
Log2(n) == Max({b \in 0..PortBits : 2^b <= n})

\* PortRange::blocks from the cursor on: the largest aligned block that fits, then the rest.
RECURSIVE BlocksFrom(_, _)
BlocksFrom(cursor, end) ==
    IF cursor > end THEN <<>>
    ELSE LET alignment == IF cursor = 0 THEN PortBits ELSE TrailingZeros(cursor)
             bits == Min({alignment, Log2(end - cursor + 1)})
         IN <<[port |-> cursor, prefix |-> PortBits - bits]>> \o BlocksFrom(cursor + 2^bits, end)
Blocks(range) == BlocksFrom(range.start, range.end)

Masked(port, prefix) == port - (port % 2^(PortBits - prefix))

\* PortBlock::matches.
BlockMatches(block, port) ==
    /\ block.prefix <= PortBits
    /\ Masked(port, block.prefix) = Masked(block.port, block.prefix)

AnyPeer == 0

(***************************************************************************)
(* oracle.rs.  A rule's peer is an identity or AnyPeer, protocol 0 is      *)
(* every protocol, proxy 0 is no redirect.                                 *)
(***************************************************************************)
Tiers == <<100, 200, 250, 255>>

\* Rule::validate.
Valid(rule) ==
    /\ rule.priority >= 0
    /\ rule.protocol = 0 => rule.ports = AnyPorts
    /\ rule.listener <= 126
    /\ rule.proxy = 0 => rule.listener = 0
    /\ rule.verdict # "allow" => rule.proxy = 0 /\ ~rule.auth

ValidateSubject(rules) ==
    /\ \A r \in Range(rules) : Valid(r)
    /\ ~ \E r, s \in Range(rules) : r.verdict = "pass" /\ s.auth

Matches(rule, packet) ==
    /\ rule.egress = packet.egress
    /\ rule.peer \in {AnyPeer, packet.identity}
    /\ rule.protocol \in {0, packet.protocol}
    /\ InRange(rule.ports, packet.port)

\* verdict_rank, the pair as one number.
VerdictRank(rule) ==
    CASE rule.verdict = "deny" -> 3 * 128
      [] rule.verdict = "pass" -> 0
      [] rule.proxy = 0 -> 128
      [] OTHER -> 2 * 128 + IF rule.listener = 0 THEN 0 ELSE 127 - rule.listener

Deny == [allow |-> FALSE, proxies |-> {}]
Allow(proxies) == [allow |-> TRUE, proxies |-> proxies]

\* The rules of one tier that decide a packet: first by priority, then by rank.
Winners(rules, tier, packet) ==
    LET matching == {r \in Range(rules) : r.tier = tier /\ Matches(r, packet)}
        peers == {r \in matching : \A s \in matching : r.priority <= s.priority}
    IN {r \in peers : \A s \in peers : VerdictRank(s) <= VerdictRank(r)}

\* oracle::evaluate: a Pass leaves the rest of its tier and goes on below.
Evaluate(rules, packet) ==
    LET decides(t) == \E r \in Winners(rules, t, packet) : r.verdict # "pass"
        tiers == SelectSeq(Tiers, decides)
        winners == Winners(rules, Head(tiers), packet)
    IN IF tiers = <<>> \/ \E r \in winners : r.verdict = "deny" THEN Deny
       ELSE Allow({r.proxy : r \in winners})

(***************************************************************************)
(* mapstate.rs                                                             *)
(***************************************************************************)
rank(rule) ==
    CASE rule.verdict = "deny" -> 255
      [] rule.verdict = "pass" -> 0
      [] rule.proxy = 0 -> 1
      [] rule.listener = 0 -> 127
      [] OTHER -> 255 - rule.listener

Standing(rule) == <<rule.tier, rule.priority, 255 - rank(rule)>>

\* compare(left, right) = Less
Precedes(left, right) ==
    LET a == Standing(left)  b == Standing(right)
    IN \E i \in 1..3 : a[i] < b[i] /\ \A j \in 1..(i - 1) : a[j] = b[j]

\* Mutant: the rest of a tier that passed still decides.
ConsiderPassed(port, acc, rule) ==
    CASE acc.done \/ ~InRange(rule.ports, port) -> acc
      [] acc.winner # <<>> ->
            IF Standing(acc.winner[1]) # Standing(rule) THEN [acc EXCEPT !.done = TRUE]
            ELSE [acc EXCEPT !.proxies = @ \cup {rule.proxy}]
      [] rule.verdict = "deny" -> [acc EXCEPT !.done = TRUE, !.denied = TRUE]
      [] rule.verdict = "pass" -> [acc EXCEPT !.passed = rule.tier]
      [] OTHER -> [acc EXCEPT !.winner = <<rule>>, !.proxies = {rule.proxy}]

\* One turn of decide's loop over the sorted rules.
Consider(port, acc, rule) ==
    CASE acc.done \/ ~InRange(rule.ports, port) \/ rule.tier = acc.passed -> acc
      [] acc.winner # <<>> ->
            IF Standing(acc.winner[1]) # Standing(rule) THEN [acc EXCEPT !.done = TRUE]
            ELSE [acc EXCEPT !.proxies = @ \cup {rule.proxy}]
      [] rule.verdict = "deny" -> [acc EXCEPT !.done = TRUE, !.denied = TRUE]
      [] rule.verdict = "pass" -> [acc EXCEPT !.passed = rule.tier]
      [] OTHER -> [acc EXCEPT !.winner = <<rule>>, !.proxies = {rule.proxy}]

decide(ordered, port, defaultAllow) ==
    LET end == FoldLeft(LAMBDA acc, rule : Consider(port, acc, rule),
                        [passed |-> 0, winner |-> <<>>, proxies |-> {},
                         done |-> FALSE, denied |-> FALSE], ordered)
    IN CASE end.denied -> Deny
         [] end.winner # <<>> -> Allow(end.proxies)
         [] end.passed = 0 /\ defaultAllow -> Allow({0})
         [] OTHER -> Deny

\* The windows between neighbouring edges, equal neighbours joined.
Joined(intervals, next) ==
    IF intervals # <<>> /\ Last(intervals).decision = next.decision
    THEN [intervals EXCEPT ![Len(intervals)].last = next.last]
    ELSE Append(intervals, next)

Intervals(candidates, defaultAllow) ==
    LET ordered == SortSeq(candidates, Precedes)
        edges == SetToSortSeq({0, MaxPort + 1}
                              \cup {r.ports.start : r \in Range(candidates)}
                              \cup {r.ports.end + 1 : r \in Range(candidates)}, <)
        window(i) == [first |-> edges[i], last |-> edges[i + 1] - 1,
                      decision |-> decide(ordered, edges[i], defaultAllow)]
    IN FoldLeft(Joined, <<>>, [i \in 1..(Len(edges) - 1) |-> window(i)])

\* MapState::compile_with_default; identity AnyPeer and protocol 0 are the buckets of the rest.
Compile(rules, defaultAllow) ==
    LET identities == {r.peer : r \in Range(rules)} \ {AnyPeer}
        protocols == {r.protocol : r \in Range(rules)} \ {0}
        candidates(b) == SelectSeq(rules, LAMBDA r : /\ r.egress = b.egress
                                                     /\ r.peer \in {AnyPeer, b.identity}
                                                     /\ r.protocol \in {0, b.protocol})
    IN [identities |-> identities, protocols |-> protocols,
        buckets |-> [b \in [identity : identities \cup {AnyPeer}, egress : BOOLEAN,
                            protocol : protocols \cup {0}]
                       |-> Intervals(candidates(b), defaultAllow)]]

\* MapState::lookup.
Lookup(state, packet) ==
    LET orRest(value, known, rest) == IF value \in known THEN value ELSE rest
        intervals == state.buckets[[identity |-> orRest(packet.identity, state.identities, AnyPeer),
                                    egress |-> packet.egress,
                                    protocol |-> orRest(packet.protocol, state.protocols, 0)]]
        at == {i \in DOMAIN intervals : packet.port <= intervals[i].last}
    IN IF at = {} \/ intervals[Min(at)].first > packet.port THEN Deny
       ELSE intervals[Min(at)].decision

----------------------------------------------------------------------------
(***************************************************************************)
(* The kernel's policy entries: identity numbers and their aggregates      *)
(* (flowsdn-identity numeric.rs), the keys and values of the policy map    *)
(* (flowsdn-bpf-abi policy.rs), the reference lookup and index over them   *)
(* (flowsdn-policy kernel_map.rs) and the lookup of the BPF program        *)
(* (flowsdn-bpf local-delivery/policy.rs allowed).                         *)
(*                                                                         *)
(* A precedence is priority * 256 + verdict byte as in the code, with      *)
(* MaxPriority for the 24 bits the code gives a priority.                  *)
(***************************************************************************)
CONSTANTS MaxPriority, LocalCluster, MaxClusters

ASSUME ClusterAssumption ==
    /\ MaxPriority \in Nat \ {0}
    /\ MaxClusters \in {255, 511} /\ LocalCluster \in 0..MaxClusters

MaxPrecedence == MaxPriority * 256 + 255

(***************************************************************************)
(* numeric.rs                                                              *)
(***************************************************************************)
WireMax == 2^24 - 1
FirstAllocatedGlobal == 256

ValidIdentity(id) == id \div 2^24 \in {0, 1, 2} /\ (id > WireMax => id % 2^24 # 0)

Scope(id) == CASE id \div 2^24 = 0 -> "global" [] id \div 2^24 = 1 -> "local" [] OTHER -> "remote-node"
IsWorld(id) == id \in {2, 9, 10} \/ Scope(id) = "local"

\* NumericIdentity::tunnel_id (-1: not on the wire) and WireIdentity::received.
TunnelId(id) == IF id > WireMax THEN -1 ELSE IF id \in {9, 10} THEN 2 ELSE id
Received(wire, v4, dualStack) ==
    IF wire = 2 /\ dualStack THEN (IF v4 THEN 9 ELSE 10) ELSE wire

Shift == IF MaxClusters = 255 THEN 16 ELSE 15

\* ClusterEncoding::allocation_range, global and global_cluster_id.
AllocationRange(cluster) ==
    (IF cluster = 0 THEN FirstAllocatedGlobal ELSE cluster * 2^Shift)..(cluster * 2^Shift + 2^Shift - 1)
Global(cluster, i) ==
    LET id == cluster * 2^Shift + i
    IN IF i < 2^Shift /\ id \in AllocationRange(cluster) THEN id ELSE -1
GlobalClusterId(id) == (id \div 2^Shift) % (MaxClusters + 1)

\* validate_meshing, validate_remote_allocated and validate_remote_ipcache.
MayMesh(cluster, markSensitive) ==
    /\ cluster \in 1..MaxClusters
    /\ markSensitive => (cluster \div 128) % 2 = 0
RemoteAllocated(cluster, id) == MayMesh(cluster, FALSE) /\ id \in AllocationRange(cluster)
RemoteIpcache(cluster, id) ==
    MayMesh(cluster, FALSE) /\ (id < FirstAllocatedGlobal \/ id \in AllocationRange(cluster))

AggregateCluster == 11
AggregateClusterMesh == 12
AggregateWorld == 13
AggregateRemoteNode == 14

AggregateFor(id) ==
    CASE id \in {0} \cup 11..14 -> id
      [] Scope(id) = "local" -> AggregateWorld
      [] Scope(id) = "remote-node" -> AggregateRemoteNode
      [] id < 100 -> 0
      [] GlobalClusterId(id) = LocalCluster -> AggregateCluster
      [] OTHER -> AggregateClusterMesh

\* The BPF program's own aggregate, for 255 clusters.
aggregate(id) ==
    CASE id \in {0} \cup AggregateCluster..AggregateRemoteNode -> id
      [] id \div 2^24 = 1 -> AggregateWorld
      [] id \div 2^24 = 2 -> AggregateRemoteNode
      [] id < 100 -> 0
      [] (id \div 2^16) % 256 = LocalCluster -> AggregateCluster
      [] OTHER -> AggregateClusterMesh

(***************************************************************************)
(* The policy map.  A key's l4 part is a protocol (0: every one) and a     *)
(* masked port; a longer prefix is a more specific key.                    *)
(***************************************************************************)
\* PolicyKey::new.
ValidKey(protocol, port, prefix) ==
    prefix <= PortBits /\ (protocol = 0 => prefix = 0 /\ port = 0)
PolicyKey(identity, egress, protocol, port, prefix) ==
    [identity |-> identity, egress |-> egress, protocol |-> protocol,
     port |-> Masked(port, prefix), prefix |-> prefix]

\* PolicyEntry::lpm_prefix_length: without the static part of the key.
LpmLength(key) == IF key.protocol = 0 THEN 0 ELSE 8 + key.prefix

\* PolicyEntry, with the record's origin folded into its cookie.
Entry(deny, precedence, auth, explicit, proxy, cookie) ==
    [deny |-> deny, precedence |-> precedence, auth |-> auth, explicit |-> explicit,
     proxy |-> proxy, cookie |-> cookie]

\* canonical.
Canonical(key, entry) ==
    /\ ValidIdentity(key.identity)
    /\ ValidKey(key.protocol, key.port, key.prefix)
    /\ key.port = Masked(key.port, key.prefix)
    /\ entry.precedence % 256 # 0
    /\ IF entry.deny THEN entry.auth = 0 /\ ~entry.explicit /\ entry.proxy = 0 /\ entry.precedence % 256 = 255
       ELSE entry.precedence % 256 # 255 /\ ((entry.precedence % 256 = 1) <=> (entry.proxy = 0))

\* matches: the key holds the packet, read as the packet of identity id.
KeyMatches(key, packet, id) ==
    /\ key.identity = id /\ key.egress = packet.egress
    /\ key.protocol = 0 \/ /\ key.protocol = packet.protocol
                           /\ Masked(packet.port, key.prefix) = key.port

\* The kernel's longest-prefix lookup: the most specific key, or none (<<>>).
Longest(map, packet, id) ==
    LET keys == {k \in DOMAIN map : KeyMatches(k, packet, id)}
    IN IF keys = {} THEN <<>>
       ELSE LET k == CHOOSE k \in keys : \A j \in keys : LpmLength(j) <= LpmLength(k)
            IN <<[key |-> k, entry |-> map[k]]>>

Miss == [kind |-> "miss", proxy |-> 0, auth |-> 0, cookie |-> 0]
Denied == [kind |-> "deny", proxy |-> 0, auth |-> 0, cookie |-> 0]
Allowed(entry, auth) == [kind |-> "allow", proxy |-> entry.proxy, auth |-> auth, cookie |-> entry.cookie]

\* Whether hit a beats hit b: by precedence, then by prefix length.
Beats(a, b) ==
    \/ a.entry.precedence > b.entry.precedence
    \/ a.entry.precedence = b.entry.precedence /\ LpmLength(a.key) > LpmLength(b.key)

\* kernel_map::scan.
Scan(map, packet) ==
    LET group == AggregateFor(packet.identity)
        exact == Longest(map, packet, packet.identity)
        grouped == IF group = packet.identity THEN <<>> ELSE Longest(map, packet, group)
        other == IF exact = <<>> /\ grouped = <<>> /\ group # 0 THEN Longest(map, packet, 0) ELSE grouped
        otherWins == other # <<>> /\ (exact = <<>> \/ (/\ exact[1].entry.precedence # MaxPrecedence
                                                       /\ Beats(other[1], exact[1])))
        chosen == IF otherWins THEN other[1].entry ELSE exact[1].entry
        alternate == CASE otherWins -> exact
                       [] exact[1].entry.precedence = MaxPrecedence -> <<>>
                       [] OTHER -> other
        inherits == ~chosen.explicit /\ alternate # <<>> /\ alternate[1].entry.precedence = chosen.precedence
    IN CASE exact = <<>> /\ other = <<>> -> Miss
         [] chosen.deny -> Denied
         [] OTHER -> Allowed(chosen, IF inherits THEN Max({chosen.auth, alternate[1].entry.auth}) ELSE chosen.auth)

\* Index::find: one map access per port prefix, longest first, then the wildcard.
Find(map, packet, id) ==
    LET at(bits) == PolicyKey(id, packet.egress, packet.protocol, packet.port, bits)
        hits == {bits \in 0..PortBits : packet.protocol # 0 /\ at(bits) \in DOMAIN map}
        wild == PolicyKey(id, packet.egress, 0, 0, 0)
    IN CASE hits # {} -> <<[key |-> at(Max(hits)), entry |-> map[at(Max(hits))]]>>
         [] hits = {} /\ wild \in DOMAIN map -> <<[key |-> wild, entry |-> map[wild]]>>
         [] OTHER -> <<>>

\* Index::lookup: candidates sorted by precedence, prefix length and specificity.
IndexLookup(map, packet) ==
    LET group == AggregateFor(packet.identity)
        specific == Find(map, packet, packet.identity)
        grouped == IF group # packet.identity THEN Find(map, packet, group) ELSE <<>>
        found == grouped \o specific
        candidates == IF found = <<>> /\ group # 0 THEN Find(map, packet, 0) ELSE found
        chosen == IF Len(candidates) = 2 /\ Beats(candidates[1], candidates[2])
                  THEN candidates[1].entry ELSE candidates[Len(candidates)].entry
        equals == {i \in DOMAIN candidates : candidates[i].entry.precedence = chosen.precedence}
    IN CASE candidates = <<>> -> Miss
         [] chosen.deny -> Denied
         [] OTHER -> Allowed(chosen, IF chosen.explicit THEN chosen.auth
                                     ELSE Max({candidates[i].entry.auth : i \in equals}))

\* The BPF program: allowed (an entry that requires authentication drops).
allowed(map, packet) ==
    LET specific == Longest(map, packet, packet.identity)
        group == aggregate(packet.identity)
        grouped == IF group # packet.identity THEN Longest(map, packet, group) ELSE <<>>
        broader == IF grouped = <<>> /\ specific = <<>> /\ group # 0 THEN Longest(map, packet, 0) ELSE grouped
        broaderWins == specific = <<>> \/ (broader # <<>> /\ Beats(broader[1], specific[1]))
        chosen == IF broaderWins THEN broader[1].entry ELSE specific[1].entry
        other == IF broaderWins THEN specific ELSE broader
    IN IF specific # <<>> /\ specific[1].entry.precedence = MaxPrecedence THEN ~specific[1].entry.deny
       ELSE /\ specific # <<>> \/ broader # <<>>
            /\ ~chosen.deny
            /\ chosen.auth = 0
            /\ (other # <<>> /\ other[1].entry.precedence = chosen.precedence /\ ~chosen.explicit)
                  => other[1].entry.auth = 0

-----------------------------------------------------------------------------
(***************************************************************************)
(* Policy objects.  A label key is a pair <<kind, name>>: "pod" keys are a *)
(* Pod's own labels, "ns" keys its namespace's, "meta" keys the            *)
(* namespace's name and the cluster.  A selector is a function from keys   *)
(* to values and a set of requirements.  JSON shapes are left out: an      *)
(* object is well formed but for the port ranges.                          *)
(***************************************************************************)
CONSTANT Cluster   \* the cluster peer selectors are limited to

PodNamespace == <<"meta", "namespace">>
PolicyCluster == <<"meta", "cluster">>

NoLabels == <<>>
EmptySelector == [labels |-> NoLabels, exprs |-> {}]

Has(f, k) == k \in DOMAIN f

\* LabelSelector::matches.
SelectorMatches(selector, labels) ==
    /\ \A k \in DOMAIN selector.labels : Has(labels, k) /\ labels[k] = selector.labels[k]
    /\ \A r \in selector.exprs :
          CASE r.op = "In"     -> Has(labels, r.key) /\ labels[r.key] \in r.values
            [] r.op = "NotIn"  -> Has(labels, r.key) => labels[r.key] \notin r.values
            [] r.op = "Exists" -> Has(labels, r.key)
            [] OTHER           -> ~Has(labels, r.key)

Constrains(selector, key) == Has(selector.labels, key) \/ \E r \in selector.exprs : r.key = key

\* LabelSelector::rekey, to the keys of a namespace's labels.
NamespaceKeys(selector) ==
    [labels |-> [k \in {<<"ns", key[2]>> : key \in DOMAIN selector.labels}
                   |-> selector.labels[<<"pod", k[2]>>]],
     exprs |-> {[r EXCEPT !.key = <<"ns", r.key[2]>>] : r \in selector.exprs}]

\* LabelSelector::and: two values for one label become a requirement nothing meets.
And(one, other) ==
    LET clash == {k \in DOMAIN other.labels : Has(one.labels, k) /\ one.labels[k] # other.labels[k]}
    IN [labels |-> one.labels @@ other.labels,
        exprs |-> one.exprs \cup other.exprs
                  \cup {[key |-> k, op |-> "In", values |-> {other.labels[k]}] : k \in clash}]

With(selector, key, value) == [selector EXCEPT !.labels = (key :> value) @@ @]

\* peer: an ipBlock, or Pods by namespaces and labels.
Peer(peer, namespace) ==
    IF peer.kind = "ipBlock" THEN peer
    ELSE LET pods == IF Constrains(peer.pods, PolicyCluster) THEN peer.pods
                     ELSE With(peer.pods, PolicyCluster, Cluster)
             everyNamespace == [EmptySelector EXCEPT
                                  !.exprs = {[key |-> PodNamespace, op |-> "Exists", values |-> {}]}]
             namespaces == IF peer.namespaces = EmptySelector THEN everyNamespace
                           ELSE NamespaceKeys(peer.namespaces)
         IN [kind |-> "selector",
             selector |-> IF peer.anywhere THEN And(namespaces, pods)
                          ELSE With(pods, PodNamespace, namespace)]

\* Mutant: egress rules isolate although policyTypes names ingress alone.
TypesOfRules(object) ==
    object.types \cup {"Ingress"} \cup IF object.hasEgress THEN {"Egress"} ELSE {}

\* The effective policyTypes.
Types(object) ==
    IF object.types # {} THEN object.types
    ELSE {"Ingress"} \cup IF object.hasEgress THEN {"Egress"} ELSE {}

\* One entry per peer; l3 is <<>> for every peer, <<peers>> otherwise; l4 <<>> is every port.
EntriesOf(object, ingress) ==
    LET entry(l3, l4) == [ingress |-> ingress, l3 |-> l3, l4 |-> l4,
                          subject |-> With(object.pods, PodNamespace, object.namespace)]
        ofRule(rule) ==
            IF rule.peers = <<>> THEN <<entry(<<>>, rule.ports)>>
            ELSE [i \in DOMAIN rule.peers |->
                     entry(<< <<Peer(rule.peers[i], object.namespace)>> >>, rule.ports)]
        rules == IF ingress THEN object.ingress ELSE object.egress
        entries == FlattenSeq([i \in DOMAIN rules |-> ofRule(rules[i])])
    IN IF entries = <<>> THEN <<entry(<< <<>> >>, <<>>)>> ELSE entries

\* network_policy: a direction left out of the types is not translated.
Import(object) ==
    (IF "Ingress" \in Types(object) THEN EntriesOf(object, TRUE) ELSE <<>>)
    \o (IF "Egress" \in Types(object) THEN EntriesOf(object, FALSE) ELSE <<>>)

(***************************************************************************)
(* k8s.rs lower and simulator.rs.  A peer set is "none", "any" or a        *)
(* selector; a port is a range or the name of a container port.            *)
(***************************************************************************)
LowerPeers(entry) ==
    CASE entry.l3 = <<>> -> {[kind |-> "any"]}
      [] entry.l3[1] = <<>> -> {[kind |-> "none"]}
      [] OTHER -> {IF p.kind = "selector" THEN p ELSE [kind |-> "none"] : p \in Range(entry.l3[1])}

LowerPorts(entry) ==
    IF entry.l4 = <<>> THEN {[protocol |-> 0, name |-> "", range |-> AnyPorts]}
    ELSE {[protocol |-> p.protocol, name |-> p.name,
           range |-> IF p.name = "" THEN FromApi(p.port, p.noEnd, p.end) ELSE AnyPorts]
            : p \in Range(entry.l4)}

\* lower fails as a whole on a range that is none.
Lowerable(entry) == \A p \in LowerPorts(entry) : p.range # NoRange

Lower(entry) ==
    {[subject |-> entry.subject, peers |-> peers, name |-> port.name,
      rule |-> [tier |-> 200, priority |-> 0, verdict |-> "allow", egress |-> ~entry.ingress,
                peer |-> AnyPeer, protocol |-> port.protocol, ports |-> port.range,
                auth |-> FALSE, proxy |-> 0, listener |-> 0]]
       : peers \in LowerPeers(entry), port \in LowerPorts(entry)}

PeersMatch(peers, endpoint) ==
    \/ peers.kind = "any"
    \/ peers.kind = "selector" /\ SelectorMatches(peers.selector, endpoint.labels)

\* resolve_port: the destination's container ports name the port; an error unless it is a
\* port of TCP or UDP.
InvalidProtocol(entry) == entry.name # "" /\ entry.rule.protocol \notin {6, 17}
ResolvePort(entry, destination) ==
    IF entry.name = "" THEN entry.rule.ports
    ELSE LET key == <<entry.rule.protocol, entry.name>>
         IN IF Has(destination.named, key) /\ destination.named[key] # 0
            THEN FromApi(destination.named[key], TRUE, 0) ELSE NoRange

Selected(entries, subject, egress) ==
    {e \in entries : e.rule.egress = egress /\ SelectorMatches(e.subject, subject.labels)}

\* simulator::evaluate, of one flow: <<>> is an error.  Every entry asks for default deny.
EvaluateFlow(entries, source, destination, egress, protocol, port) ==
    LET subject == IF egress THEN source ELSE destination
        peer == IF egress THEN destination ELSE source
        selected == Selected(entries, subject, egress)
        tried == {e \in selected : PeersMatch(e.peers, peer) /\ e.rule.protocol \in {0, protocol}}
        matching == {e \in tried : InRange(ResolvePort(e, destination), port)}
        rules == {[e.rule EXCEPT !.ports = ResolvePort(e, destination)] : e \in matching}
    IN CASE \E e \in tried : InvalidProtocol(e) -> <<>>
         [] matching = {} /\ selected = {} -> <<Allow({0})>>
         [] OTHER -> <<Evaluate(SetToSeq(rules), [identity |-> peer.identity, egress |-> egress,
                                                  protocol |-> protocol, port |-> port])>>

\* simulator::compile, over a complete snapshot of the endpoints: <<>> is an error.
SubjectMap(entries, subject, endpoints, egress) ==
    LET selected == Selected(entries, subject, egress)
        wild == {e \in selected : e.peers.kind = "any" /\ e.name = ""}
        destination(peer) == IF egress THEN peer ELSE subject
        tried == {x \in (selected \ wild) \X endpoints : PeersMatch(x[1].peers, x[2])}
        expanded == {x \in tried : ResolvePort(x[1], destination(x[2])) # NoRange}
        rules == {e.rule : e \in wild}
                 \cup {[x[1].rule EXCEPT !.peer = x[2].identity,
                                         !.ports = ResolvePort(x[1], destination(x[2]))]
                         : x \in expanded}
    IN IF \E x \in tried : InvalidProtocol(x[1]) THEN <<>>
       ELSE <<Compile(SetToSeq(rules), selected = {})>>

(***************************************************************************)
(* FlowsdnNetworkPolicy and FlowsdnClusterwideNetworkPolicy objects        *)
(* (flowsdn-agent host_policy.rs): the rules they hold for Pods and for    *)
(* the host.                                                               *)
(*                                                                         *)
(* A field of an object that may be absent is <<>> or <<value>>.  A label  *)
(* key of kind "reserved" is of the source of the same name.  Keys carry   *)
(* their source already.                                                   *)
(***************************************************************************)
HOST == 1
WORLD == 2
REMOTE_NODE == 6
Reserved == ("host" :> HOST) @@ ("unmanaged" :> 3) @@ ("health" :> 4) @@ ("init" :> 5)
            @@ ("remote-node" :> REMOTE_NODE) @@ ("kube-apiserver" :> 7) @@ ("ingress" :> 8)

\* entity: the identities it names, <<>> for an unknown one.
entity(name) ==
    CASE name = "all" -> <<{0}>>
      [] name \in {"world", "world-ipv4", "world-ipv6"} -> <<{WORLD, AggregateWorld}>>
      [] name = "cluster" -> <<Range(Reserved) \cup {AggregateCluster}>>
      [] name \in DOMAIN Reserved -> <<{Reserved[name]}>>
      [] name = "none" -> <<{}>>
      [] OTHER -> <<>>

Keys(selector) == DOMAIN selector.labels \cup {r.key : r \in selector.exprs}
HasReserved(selector) == \E k \in Keys(selector) : k[1] = "reserved"

\* inject: the namespace and the cluster of a Pod rule's peers; NoNamespace for the clusterwide kind.
NoNamespace == ""
Inject(selector, namespace) ==
    LET named == \E k \in Keys(selector) : k[1] = "ns"
        scoped ==
            CASE Constrains(selector, PodNamespace) -> selector
              [] namespace = NoNamespace ->
                    [selector EXCEPT !.exprs = @ \cup {[key |-> PodNamespace, op |-> "Exists", values |-> {}]}]
              [] namespace # NoNamespace /\ ~named -> With(selector, PodNamespace, namespace)
              [] OTHER -> selector
    IN CASE HasReserved(selector) -> selector
         [] Constrains(scoped, PolicyCluster) -> scoped
         [] OTHER -> With(scoped, PolicyCluster, Cluster)

\* bad_combination: the members of a rule that may not be combined ("Nodes" for Groups too).
Present(rule) == {m \in {"Endpoints", "CIDR", "CIDRSet", "Entities", "Nodes"} : rule[m] \notin {<<>>, << <<>> >>}}
BadCombination(rule) ==
    \E a, b \in Present(rule) : a # b /\ {a, b} \notin {{"Endpoints", "Entities"}, {"CIDR", "CIDRSet"}}

\* ports: the ranges and the named ports; ok is FALSE where the rule is skipped.
PortProtocols(port) == IF port.protocol = 0 THEN {6, 17, 132} ELSE {port.protocol}
PortsOf(rule, pods) ==
    LET list == IF rule.toPorts = <<>> THEN {} ELSE Range(rule.toPorts[1])
        range(p) == FromApi(p.port, p.noEnd, p.end)
        numbers == {p \in list : p.name = ""}
    IN [ok |-> /\ \A p \in list : ~p.l7
               /\ \A p \in list \ numbers : pods
               /\ \A p \in numbers : range(p) # NoRange,
        ranges |-> UNION {{<<n, range(p)>> : n \in PortProtocols(p)} : p \in numbers},
        named |-> UNION {{<<n, p.name>> : n \in PortProtocols(p)} : p \in list \ numbers}]

\* rule: <<>> when it is skipped.  peers <<>> is every source, <<set>> those of the set.
RuleOf(value, deny, pods, namespace) ==
    LET listed(field) == IF value[field] = <<>> THEN {} ELSE Range(value[field][1])
        entities == {[kind |-> "identities", ids |-> entity(n)[1]]
                       : n \in {n \in listed("Entities") : entity(n) # <<>>}}
        cidrs == {[kind |-> "cidr", cidr |-> c, except |-> {}] : c \in listed("CIDR")}
                 \cup {[kind |-> "cidr", cidr |-> c.cidr, except |-> c.except] : c \in listed("CIDRSet")}
        selectors == {s \in listed("Endpoints") : ~(pods /\ HasReserved(s))}
        endpoints == {[kind |-> "endpoints", selector |-> IF pods THEN Inject(s, namespace) ELSE s] : s \in selectors}
        ports == PortsOf(value, pods)
        anyL3 == \E f \in {"Entities", "CIDR", "CIDRSet", "Endpoints"} : value[f] # <<>>
        noPorts == ports.ranges = {} /\ ports.named = {}
    IN IF value.unsupported \/ value.Nodes # <<>> \/ ~ports.ok THEN <<>>
       ELSE <<[deny |-> deny, ranges |-> ports.ranges, named |-> ports.named,
               peers |-> IF anyL3 \/ noPorts THEN <<entities \cup cidrs \cup endpoints>> ELSE <<>>]>>

\* The rules of an allow list and a deny list (each <<>> or <<list>>).
RulesOfLists(allows, denies, pods, namespace) ==
    LET items(list) == IF list = <<>> THEN <<>> ELSE list[1]
        parsed(list, deny) == {RuleOf(v, deny, pods, namespace) : v \in Range(items(list))}
    IN {r[1] : r \in (parsed(allows, FALSE) \cup parsed(denies, TRUE)) \ {<<>>}}

\* pod_direction.
PodDirection(spec, egress, namespace) ==
    LET allows == IF egress THEN spec.egress ELSE spec.ingress
        denies == IF egress THEN spec.egressDeny ELSE spec.ingressDeny
        switch == IF egress THEN spec.denyEgress ELSE spec.denyIngress
        hasRules == \E list \in {allows, denies} : list \notin {<<>>, << <<>> >>}
        defaultDeny == IF switch = <<>> THEN hasRules ELSE switch[1]
    IN [selects |-> hasRules \/ defaultDeny, defaultDeny |-> defaultDeny,
        rules |-> RulesOfLists(allows, denies, TRUE, namespace)]

\* pod_spec: "error" fails the whole object, "none" is a spec for the host or of no Pod.
PodSpec(spec, namespace) ==
    LET lists == {spec.ingress, spec.ingressDeny, spec.egress, spec.egressDeny} \ {<<>>}
        subject == IF namespace = NoNamespace THEN spec.endpointSelector[1]
                   ELSE With(spec.endpointSelector[1], PodNamespace, namespace)
    IN CASE spec.endpointSelector = <<>> ->
              [kind |-> IF spec.nodeSelector # <<>> /\ namespace = NoNamespace THEN "none" ELSE "error"]
         [] spec.nodeSelector # <<>> -> [kind |-> "error"]
         [] \E list \in lists : \E v \in Range(list[1]) : BadCombination(v) -> [kind |-> "error"]
         [] HasReserved(spec.endpointSelector[1]) -> [kind |-> "none"]
         [] OTHER -> [kind |-> "policy", subject |-> subject,
                      ingress |-> PodDirection(spec, FALSE, namespace),
                      egress |-> PodDirection(spec, TRUE, namespace)]

\* pod_policies: an object with a spec in error gives nothing.
PodPolicies(objects) ==
    LET parsed(o) == {PodSpec(spec, o.namespace) : spec \in o.specs}
    IN UNION {{p \in parsed(o) : p.kind = "policy"}
                : o \in {o \in objects : \A p \in parsed(o) : p.kind # "error"}}

\* select: the host policies of a node with these labels.
SelectHost(objects, labels) ==
    LET selecting(o) == {s \in o.specs : s.nodeSelector # <<>> /\ SelectorMatches(s.nodeSelector[1], labels)}
        clusterwide == {o \in objects : o.namespace = NoNamespace}
        specs == UNION {selecting(o) : o \in clusterwide}
    IN [rules |-> UNION {RulesOfLists(s.ingress, s.ingressDeny, FALSE, NoNamespace) : s \in specs},
        enforce |-> \E s \in specs : /\ s.ingress # <<>> \/ s.ingressDeny # <<>>
                                     /\ s.denyIngress = <<>> \/ s.denyIngress[1],
        audit |-> \E o \in clusterwide : selecting(o) # {} /\ o.audit]

====
