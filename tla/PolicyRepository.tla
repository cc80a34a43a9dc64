------------------------ MODULE PolicyRepository ------------------------
(***************************************************************************)
(* What policies a subject has: the resources that select it, which        *)
(* replace their rules atomically (flowsdn-policy repository.rs), the      *)
(* NetworkPolicy objects that are applied and withdrawn, and the records   *)
(* of a policy map with their preparation (kernel_map.rs).                 *)
(***************************************************************************)
EXTENDS NetworkPolicy

(***************************************************************************)
(* repository.rs: the resources that select the subject.                   *)
(***************************************************************************)
CONSTANTS Resources, RuleLists, MaxRevision

VARIABLES resources, revision

repository == <<resources, revision>>

RulesOf(owned) == LET names == SetToSeq(DOMAIN owned)
                  IN FlattenSeq([i \in DOMAIN names |-> owned[names[i]]])

RepositoryInit == resources = <<>> /\ revision = 0

\* SubjectRepository::replace: the whole candidate is validated before a rule is replaced.
Replace(resource, rules) ==
    LET others == [r \in DOMAIN resources \ {resource} |-> resources[r]]
        owned == IF rules = <<>> THEN others ELSE (resource :> rules) @@ others
    IN /\ revision < MaxRevision
       /\ ValidateSubject(RulesOf(owned))
       /\ resources' = owned
       /\ revision' = revision + 1

\* An error leaves the rules and the revision as they were.
Refuse(resource, rules) ==
    /\ ~ValidateSubject(RulesOf((resource :> rules) @@ resources))
    /\ UNCHANGED repository

RepositoryNext ==
    \E resource \in Resources, rules \in RuleLists :
        Replace(resource, rules) \/ Refuse(resource, rules)

\* The blocks of a rule's port range hold exactly its ports, each in one block, and no two
\* neighbours could be one block: what the kernel map gets is the range and no port more.
BlocksAreTheRange(range) ==
    LET blocks == Blocks(range)
    IN /\ \A port \in Ports :
            Cardinality({i \in DOMAIN blocks : BlockMatches(blocks[i], port)})
                = IF InRange(range, port) THEN 1 ELSE 0
       /\ \A i, j \in DOMAIN blocks :
            ~ /\ i # j /\ blocks[i].prefix = blocks[j].prefix
              /\ Masked(blocks[i].port, blocks[i].prefix - 1) = Masked(blocks[j].port, blocks[j].prefix - 1)

\* The compiled index answers every packet as the oracle does that scans the rules, whatever
\* tiers, priorities, passes, denies and redirects the resources combine (mapstate.rs was
\* written without oracle.rs to be compared with it), and the blocks a rule's ports are cut
\* into are its range (PortRange::blocks).  Authentication is in neither decision.
IndexDecidesAsOracle ==
    LET rules == RulesOf(resources)
        index == Compile(rules, FALSE)
        identities == {r.peer : r \in Range(rules)} \cup {1}
    IN /\ \A r \in Range(rules) : BlocksAreTheRange(r.ports)
       /\ (\A r \in Range(rules) : ~r.auth) =>
             \A identity \in identities \ {AnyPeer}, egress \in BOOLEAN, protocol \in {6, 17}, port \in Ports :
                LET packet == [identity |-> identity, egress |-> egress,
                               protocol |-> protocol, port |-> port]
                IN Lookup(index, packet) = Evaluate(rules, packet)

(***************************************************************************)
(* The applied objects.                                                    *)
(***************************************************************************)
CONSTANTS Objects, Endpoints, Protocols

VARIABLE policies

PoliciesInit == policies = {}
Apply(object) == object \notin policies /\ policies' = policies \cup {object}
Withdraw(object) == object \in policies /\ policies' = policies \ {object}
PoliciesNext == \E object \in Objects : Apply(object) \/ Withdraw(object)

Imported == UNION {Range(Import(o)) : o \in policies}
Lowered == UNION {Lower(e) : e \in Imported}

\* What Kubernetes says of a flow: a Pod that a policy selects for a direction gets only
\* what some rule of such a policy allows.  A selector without a namespace selector is
\* about the policy's own namespace.
Isolating(subject, egress) ==
    {o \in policies : /\ o.namespace = subject.namespace
                     /\ SelectorMatches(o.pods, subject.podLabels)
                     /\ \/ (IF egress THEN "Egress" ELSE "Ingress") \in o.types
                        \/ o.types = {} /\ (egress => o.hasEgress)}
AdmitsPeer(rule, object, peer) ==
    \/ rule.peers = <<>>
    \/ \E p \in Range(rule.peers) :
          /\ p.kind = "pods" /\ peer.cluster = Cluster
          /\ SelectorMatches(p.pods, peer.podLabels)
          /\ IF p.anywhere THEN SelectorMatches(p.namespaces, peer.nsLabels)
             ELSE peer.namespace = object.namespace
AdmitsPort(rule, destination, protocol, port) ==
    \/ rule.ports = <<>>
    \/ \E p \in Range(rule.ports) :
          /\ p.protocol = protocol
          /\ IF p.name # "" THEN Has(destination.named, <<protocol, p.name>>)
                                 /\ destination.named[<<protocol, p.name>>] = port
             ELSE \/ p.noEnd /\ p.port \in {0, port}
                  \/ ~p.noEnd /\ p.port <= port /\ port <= p.end
RulesFor(subject, peer, egress) ==
    UNION {{rule \in Range(IF egress THEN o.egress ELSE o.ingress) : AdmitsPeer(rule, o, peer)}
             : o \in Isolating(subject, egress)}
KubernetesAllows(source, destination, egress, protocol, port) ==
    LET subject == IF egress THEN source ELSE destination
        peer == IF egress THEN destination ELSE source
    IN \/ Isolating(subject, egress) = {}
       \/ \E rule \in RulesFor(subject, peer, egress) : AdmitsPort(rule, destination, protocol, port)

\* A rule for this peer names a port of SCTP.
NamesSctp(subject, peer, egress) ==
    \E rule \in RulesFor(subject, peer, egress) : \E p \in Range(rule.ports) : p.name # "" /\ p.protocol = 132

\* The imported objects mean what Kubernetes says of them, for every pair of Pods, direction,
\* protocol and port, when one flow is evaluated and when the subject is compiled over all
\* Pods: defaults of policyTypes, selectors across namespaces, named ports and the markers
\* of directions without rules included (network_policy, lower, simulator::evaluate and
\* compile, MapState).  A rule that names an SCTP port fails the evaluation of the SCTP flows
\* of its peers, and the compilation of its subjects, and nothing else fails.
ObjectsMeanKubernetes ==
    \A source, destination \in Endpoints, egress \in BOOLEAN :
        LET subject == IF egress THEN source ELSE destination
            peer == IF egress THEN destination ELSE source
            compiled == SubjectMap(Lowered, subject, Endpoints, egress)
        IN /\ compiled = <<>> <=> \E p \in Endpoints : NamesSctp(subject, p, egress)
           /\ \A protocol \in Protocols, port \in Ports :
                LET verdict == KubernetesAllows(source, destination, egress, protocol, port)
                    evaluated == EvaluateFlow(Lowered, source, destination, egress, protocol, port)
                    packet == [identity |-> peer.identity, egress |-> egress,
                               protocol |-> protocol, port |-> port]
                IN /\ IF protocol = 132 /\ NamesSctp(subject, peer, egress) THEN evaluated = <<>>
                      ELSE evaluated # <<>> /\ evaluated[1].allow = verdict
                   /\ compiled # <<>> => Lookup(compiled[1], packet).allow = verdict

(***************************************************************************)
(* The records of a policy map, built one by one: their preparation        *)
(* (flowsdn-policy kernel_map.rs inherit_auth and                          *)
(* prune_aggregate_duplicates) and the lookups that must agree on them.    *)
(***************************************************************************)
CONSTANTS Candidates, Packets, MaxRecords

VARIABLE records    \* the policy map under construction: key -> entry

(***************************************************************************)
(* inherit_auth and prune_aggregate_duplicates.                            *)
(***************************************************************************)
Covers(parent, child) == LpmLength(parent) < LpmLength(child) /\ KeyMatches(parent, child, child.identity)

\* The input inherit_auth refuses: a covering entry of a higher precedence.
Unprepared(map) ==
    \E t \in DOMAIN map : ~map[t].deny
        /\ \E p \in DOMAIN map : Covers(p, t) /\ map[p].precedence > map[t].precedence

InheritedAuth(map, t) ==
    LET parents == {p \in DOMAIN map : /\ Covers(p, t) /\ ~map[p].deny /\ map[p].explicit
                                       /\ map[p].precedence \div 256 >= map[t].precedence \div 256}
    IN IF map[t].deny \/ map[t].explicit \/ parents = {} THEN map[t]
       ELSE LET p == CHOOSE p \in parents : \A q \in parents : LpmLength(q) <= LpmLength(p)
            IN [map[t] EXCEPT !.auth = map[p].auth]

InheritAuth(map) == [t \in DOMAIN map |-> InheritedAuth(map, t)]

\* Mutant: the identity's bucket may hold other records.
PruneUnisolated(map) ==
    LET equivalent(k) ==
            LET group == AggregateFor(k.identity)
                twin == [k EXCEPT !.identity = group]
            IN group # k.identity /\ twin \in DOMAIN map /\ map[twin] = map[k]
    IN [k \in {k \in DOMAIN map : ~equivalent(k)} |-> map[k]]

PruneAggregateDuplicates(map) ==
    LET bucket(id, egress) == {k \in DOMAIN map : k.identity = id /\ k.egress = egress}
        equivalent(k) ==
            LET group == AggregateFor(k.identity)
                twin == [k EXCEPT !.identity = group]
            IN /\ group # k.identity
               /\ Cardinality(bucket(k.identity, k.egress)) = 1
               /\ Cardinality(bucket(group, k.egress)) = 1
               /\ twin \in DOMAIN map /\ map[twin] = map[k]
    IN [k \in {k \in DOMAIN map : ~equivalent(k)} |-> map[k]]

(***************************************************************************)
(* A map is built record by record; a duplicate or noncanonical record is  *)
(* refused by Index::new.                                                  *)
(***************************************************************************)
KernelInit == records = <<>>

Insert(candidate) ==
    /\ Cardinality(DOMAIN records) < MaxRecords
    /\ Canonical(candidate.key, candidate.entry)
    /\ candidate.key \notin DOMAIN records
    /\ records' = records @@ (candidate.key :> candidate.entry)

KernelNext == \E candidate \in Candidates : Insert(candidate)

(***************************************************************************)
(* The reference scan, the index and the BPF program decide alike on every *)
(* map and packet, although each combines the specific, the aggregate and  *)
(* the wildcard hit in code of its own (kernel_map.rs scan and lookup,     *)
(* local-delivery/policy.rs allowed): what the scan allows without         *)
(* authentication is what the program passes.  Removing the aggregate      *)
(* duplicates changes no decision, and neither does inheriting             *)
(* authentication, but for the authentication itself.                      *)
(***************************************************************************)
DecisionsAgree ==
    \A packet \in Packets :
        LET outcome == Scan(records, packet)
        IN /\ IndexLookup(records, packet) = outcome
           /\ allowed(records, packet) <=> (outcome.kind = "allow" /\ outcome.auth = 0)
           /\ Scan(PruneAggregateDuplicates(records), packet) = outcome
           /\ ~Unprepared(records) =>
                 [Scan(InheritAuth(records), packet) EXCEPT !.auth = 0] = [outcome EXCEPT !.auth = 0]

====
