------------------------------- MODULE CniAdd -------------------------------
(***************************************************************************)
(* CNI ADD against the agent (crates/flowsdn-cni: lib.rs, runtime.rs) and  *)
(* the agent's side of it (crates/flowsdn-agent: api.rs), with its IPAM    *)
(* (crates/flowsdn-ipam).  Plugin calls are processes of the container     *)
(* runtime that can fail at every step and be killed; the agent answers    *)
(* requests in the order of its socket and can crash.  What its endpoint   *)
(* manager does inside one request is Endpoints.tla; DEL's queue is        *)
(* DeleteQueue.tla.                                                        *)
(*                                                                         *)
(* A call's number stands for what is fresh in it: the lease UUIDs and the *)
(* identity (index, MACs) of the link it creates.  The runtime calls for   *)
(* one attachment one at a time, and not ADD after DEL.                    *)
(***************************************************************************)
EXTENDS Naturals, FiniteSets, Sequences

(***************************************************************************)
(* Host-scope address management (crates/flowsdn-ipam/src/lib.rs): one     *)
(* pool per address family, and the coordinator that allocates from both.  *)
(* An address is its family and its offset in the pool's allocatable       *)
(* range.  The randomised start of a scan is left open.                    *)
(***************************************************************************)
CONSTANTS
    Capacity,       \* [ipv6, ipv4 |-> addresses in the allocatable range]
    Excluded,       \* infrastructure addresses (the gateways)
    Owners,         \* namespace/pod names
    Free,           \* no owner
    Infra           \* the owner "... (excluded)" of a materialised exclusion

Families == DOMAIN Capacity
Offsets(f) == 0 .. (Capacity[f] - 1)
Addresses == UNION {{f} \X Offsets(f) : f \in Families}

ASSUME IpamConstants ==
    /\ Families = {"ipv6", "ipv4"}
    /\ \A f \in Families : Capacity[f] \in Nat \ {0}
    /\ Excluded \subseteq Addresses
    /\ IsFiniteSet(Owners) /\ {Free, Infra} \cap Owners = {} /\ Free # Infra

VARIABLE ipam       \* HostScope::owners of both pools

NoneOwned == [ip \in Addresses |-> Free]
IsSet(ip) == ipam[ip] # Free
Allocated(f) == {ip \in {f} \X Offsets(f) : IsSet(ip)}

\* HostScope::allocate, used when endpoints are restored.
CanAllocate(ip) == ip \in Addresses \ Excluded /\ ~IsSet(ip)

\* The address a scan reaches after k turns, and the exclusions it has
\* materialised before that turn.
At(f, start, k) == <<f, (start + k) % Capacity[f]>>
Materialised(f, start, k) ==
    {At(f, start, i) : i \in 0 .. (k - 1)} \cap {ip \in Excluded : ~IsSet(ip)}

\* HostScope::allocate_next: the turn that finds an address, or Capacity[f]
\* when the pool is full.
Scan(f, start) ==
    LET Full(k) == Cardinality(Allocated(f) \cup Materialised(f, start, k)) = Capacity[f]
        turn[k \in 0 .. Capacity[f]] ==
          IF k = Capacity[f] \/ Full(k) THEN Capacity[f]
          ELSE IF CanAllocate(At(f, start, k)) THEN k
          ELSE turn[k + 1]
    IN  turn[0]

Found(f, start) == Scan(f, start) < Capacity[f]
Result(f, start) == At(f, start, Scan(f, start))
Touched(f, start) == Materialised(f, start, Scan(f, start))

\* Ipam::allocate_next: IPv6 first; when IPv4 fails the IPv6 address is
\* released again and the exclusions met on the way stay materialised.
Available(start6, start4) == Found("ipv6", start6) /\ Found("ipv4", start4)
Pair(start6, start4) == {Result("ipv6", start6), Result("ipv4", start4)}

AllocateNext(o, start6, start4) ==
    LET infra == Touched("ipv6", start6)
                   \cup (IF Found("ipv6", start6) THEN Touched("ipv4", start4) ELSE {})
        got == IF Available(start6, start4) THEN Pair(start6, start4) ELSE {}
    IN  ipam' = [ip \in Addresses |-> IF ip \in got THEN o
                                      ELSE IF ip \in infra THEN Infra ELSE ipam[ip]]

\* HostScope::release: also of an address that is free or a materialised
\* exclusion.
ReleaseAddress(ip) == ipam' = [ipam EXCEPT ![ip] = Free]

\* HostScope::summary
Summary(f) ==
    LET materialised == {ip \in Allocated(f) : ipam[ip] = Infra}
        allocated == Cardinality(Allocated(f)) - Cardinality(materialised)
        excluded == Cardinality({ip \in Excluded : ip[1] = f})
        both == Cardinality((Allocated(f) \ materialised) \cap Excluded)
    IN  [allocated |-> allocated, excluded |-> excluded,
         available |-> Capacity[f] - (allocated + excluded - both)]

(***************************************************************************)
(* The plugin and the agent.                                               *)
(***************************************************************************)

CONSTANTS
    Attachments, OwnerOf,
    MaxCalls,       \* bound: plugin calls in one behaviour
    MaxCrashes,     \* bound: agent crashes in one behaviour
    MaxBacklog,     \* bound: requests on the agent's socket
    NoEndpoint

ASSUME CniAddConstants ==
    /\ OwnerOf \in [Attachments -> Owners]
    /\ MaxCalls \in Nat /\ MaxCrashes \in Nat /\ MaxBacklog \in Nat

VARIABLES
    up, backlog,    \* the agent runs; the requests on its socket
    leases,         \* Api::leases: the call an address is leased to, or 0
    endpoints,      \* the manager's record of each attachment
    queued,         \* deletions queued for the agent's next start
    link,           \* the veth pair: the call that made it, its addresses
    pc, local,      \* the plugin call for each attachment
    life,           \* what the runtime was told: adding, promised, closing
    calls, crashes

vars == <<ipam, up, backlog, leases, endpoints, queued, link, pc, local, life, calls, crashes>>

Numbers == 1 .. MaxCalls
Endpoint == [ips : SUBSET Addresses, link : Numbers, ready : BOOLEAN]
Exists(a) == endpoints[a] # NoEndpoint
UsedBy(a, ip) == Exists(a) /\ ip \in endpoints[a].ips
NoLink == [id |-> 0, ips |-> {}]

\* What a plugin process remembers: the leases, Platform::endpoint_may_exist,
\* whether add must delete the endpoint and the link, the record looked up.
NoCall == [call |-> 0, held |-> {}, mayExist |-> FALSE, created |-> FALSE,
           mine |-> FALSE, seen |-> NoEndpoint]

Init ==
    /\ ipam = NoneOwned
    /\ up = TRUE /\ backlog = <<>>
    /\ leases = [ip \in Addresses |-> 0]
    /\ endpoints = [a \in Attachments |-> NoEndpoint]
    /\ queued = {}
    /\ link = [a \in Attachments |-> NoLink]
    /\ pc = [a \in Attachments |-> "ended"]
    /\ local = [a \in Attachments |-> NoCall]
    /\ life = [a \in Attachments |-> "adding"]
    /\ calls = 0 /\ crashes = 0

----------------------------------------------------------------------------
(* The plugin. *)

Move(a, to, l) ==
    /\ pc' = [pc EXCEPT ![a] = to]
    /\ local' = [local EXCEPT ![a] = IF to = "ended" THEN NoCall ELSE l]
Goto(a, to) == Move(a, to, local[a])

\* A call that waits for the answer to its request is at the request's name.
Waiting == {"lookup", "health", "allocate", "put", "undo", "release", "delete",
            "redelete"}

\* What a call does about a transport error: fail before it changed anything,
\* roll back, or (DEL) try again and then queue the deletion.
AfterError(op) == CASE op \in {"put", "undo", "release"} -> "rollback"
                    [] op = "delete" -> "again"
                    [] op = "redelete" -> "queue"
                    [] OTHER -> "ended"

\* Connect and send, or find nobody listening.
Send(op, a, ips, l) ==
    IF up THEN /\ Len(backlog) < MaxBacklog
               /\ backlog' = Append(backlog, [op |-> op, att |-> a, call |-> l.call,
                                              ips |-> ips])
               /\ Move(a, op, l)
          ELSE Move(a, AfterError(op), l) /\ UNCHANGED backlog

agent == <<ipam, leases, endpoints, queued, up, crashes>>

StartCall(op, a) ==
    /\ pc[a] = "ended"
    /\ calls < MaxCalls
    /\ calls' = calls + 1
    /\ Send(op, a, {}, [NoCall EXCEPT !.call = calls + 1])
    /\ UNCHANGED <<agent, link>>

\* ADD: wait for an agent (connect), then look the attachment up.
Add(a) == up /\ life[a] # "closing" /\ StartCall("lookup", a) /\ UNCHANGED life

\* The attachment is known: ask for its health and, if that is well ...
CheckHealth(a) ==
    /\ pc[a] = "known"
    /\ Send("health", a, {}, local[a])
    /\ UNCHANGED <<agent, link, life, calls>>

\* ... compare the host link and the sandbox with the record looked up.
Reuse(a) ==
    /\ pc[a] = "reuse"
    /\ Goto(a, "ended")
    /\ life' = IF /\ link[a].id = local[a].seen.link
                  /\ local[a].seen.ips \subseteq link[a].ips
               THEN [life EXCEPT ![a] = "promised"] ELSE life
    /\ UNCHANGED <<agent, backlog, link, calls>>

\* No endpoint: a sandbox interface without one is refused, else allocate.
CheckSandbox(a) ==
    /\ pc[a] = "check"
    /\ IF link[a] # NoLink THEN Goto(a, "ended") /\ UNCHANGED backlog
                           ELSE Send("allocate", a, {}, local[a])
    /\ UNCHANGED <<agent, link, life, calls>>

CreateLink(a) ==
    /\ pc[a] = "link"
    /\ link[a] = NoLink
    /\ link' = [link EXCEPT ![a].id = local[a].call]
    /\ Move(a, "configure", [local[a] EXCEPT !.mine = TRUE])
    /\ UNCHANGED <<agent, backlog, life, calls>>

\* Mutant: the endpoint is presumed absent until the agent confirms it.
ConfigureOptimistic(a) ==
    /\ pc[a] = "configure"
    /\ link' = [link EXCEPT ![a].ips = local[a].held]
    /\ Send("put", a, local[a].held, local[a])
    /\ UNCHANGED <<agent, life, calls>>

\* configure, then create_endpoint up to its request.
Configure(a) ==
    /\ pc[a] = "configure"
    /\ link' = [link EXCEPT ![a].ips = local[a].held]
    /\ Send("put", a, local[a].held, [local[a] EXCEPT !.mayExist = TRUE])
    /\ UNCHANGED <<agent, life, calls>>

Finalize(a) ==
    /\ pc[a] = "finalize"
    /\ Goto(a, "ended")
    /\ life' = [life EXCEPT ![a] = "promised"]
    /\ UNCHANGED <<agent, backlog, link, calls>>

\* create_link (which cleans up after itself), configure or finalize fails.
StepFails(a) ==
    /\ pc[a] \in {"link", "configure", "finalize"}
    /\ Goto(a, "rollback")
    /\ UNCHANGED <<agent, backlog, link, life, calls>>

\* Rollback: the endpoint first, ...
RollbackEndpoint(a) ==
    /\ pc[a] = "rollback"
    /\ local[a].created
    /\ Send("undo", a, {}, [local[a] EXCEPT !.created = FALSE])
    /\ UNCHANGED <<agent, link, life, calls>>

\* ... nothing more if its fate is unknown (may_release_resources), ...
RollbackEnds(a) ==
    /\ pc[a] = "rollback"
    /\ ~local[a].created
    /\ local[a].mayExist \/ (~local[a].mine /\ local[a].held = {})
    /\ Goto(a, "ended")
    /\ UNCHANGED <<agent, backlog, link, life, calls>>

\* ... then the link, by its name; an error does not stop the rollback ...
RollbackLink(a) ==
    /\ pc[a] = "rollback"
    /\ ~local[a].created /\ ~local[a].mayExist
    /\ local[a].mine
    /\ Move(a, "rollback", [local[a] EXCEPT !.mine = FALSE])
    /\ link' \in {link, [link EXCEPT ![a] = NoLink]}
    /\ UNCHANGED <<agent, backlog, life, calls>>

\* ... and the addresses, IPv4 first.
RollbackAddress(a) ==
    LET four == {ip \in local[a].held : ip[1] = "ipv4"}
        next == IF four # {} THEN four ELSE local[a].held
    IN  /\ pc[a] = "rollback"
        /\ ~local[a].created /\ ~local[a].mayExist /\ ~local[a].mine
        /\ next # {}
        /\ Send("release", a, next, [local[a] EXCEPT !.held = @ \ next])
        /\ UNCHANGED <<agent, link, life, calls>>

\* The client's budget ends (PUT has none); the agent still has the request.
TimesOut(a) ==
    /\ pc[a] \in Waiting \ {"put"}
    /\ Goto(a, AfterError(pc[a]))
    /\ UNCHANGED <<agent, backlog, link, life, calls>>

\* The runtime kills the plugin; a DEL also ends here when it cannot lock the
\* queue or write to it.
Kill(a) ==
    /\ pc[a] # "ended"
    /\ Goto(a, "ended")
    /\ UNCHANGED <<agent, backlog, link, life, calls>>

\* DEL
Del(a) == StartCall("delete", a) /\ life' = [life EXCEPT ![a] = "closing"]

\* With the queue locked, so that a starting agent cannot miss the deletion.
DeleteAgain(a) ==
    /\ pc[a] = "again"
    /\ Send("redelete", a, {}, local[a])
    /\ UNCHANGED <<agent, link, life, calls>>

Enqueue(a) ==
    /\ pc[a] = "queue"
    /\ queued' = queued \cup {a}
    /\ Goto(a, "interface")
    /\ UNCHANGED <<ipam, leases, endpoints, up, crashes, backlog, link, life, calls>>

DeleteInterface(a) ==
    /\ pc[a] = "interface"
    /\ link' \in {link, [link EXCEPT ![a] = NoLink]}
    /\ Goto(a, "ended")
    /\ UNCHANGED <<agent, backlog, life, calls>>

----------------------------------------------------------------------------
(* The agent. *)

req == Head(backlog)
me == local[req.att]

\* Handling a request and the client's reading of the answer is one step.
Answer(to, l) ==
    IF pc[req.att] = req.op /\ me.call = req.call THEN Move(req.att, to, l)
                                                  ELSE UNCHANGED <<pc, local>>

Take(op) ==
    /\ up
    /\ backlog # <<>>
    /\ req.op = op
    /\ backlog' = Tail(backlog)

\* Manager::healthy
Healthy(a) == Exists(a) /\ endpoints[a].ready /\ link[a].id = endpoints[a].link

\* GET /v1/endpoint/{id}
Lookup ==
    /\ Take("lookup")
    /\ Answer(IF Exists(req.att) THEN "known" ELSE "check",
              [me EXCEPT !.seen = endpoints[req.att]])
    /\ UNCHANGED <<agent, link, life, calls>>

\* GET /v1/endpoint/{id}/healthz: OK, or else Failure or an error.
Health ==
    /\ Take("health")
    /\ \E to \in {"ended"} \cup IF Healthy(req.att) THEN {"reuse"} ELSE {} : Answer(to, me)
    /\ UNCHANGED <<agent, link, life, calls>>

\* POST /v1/ipam: both families or none; each address gets a lease.
Allocate(start6, start4) ==
    LET got == IF Available(start6, start4) THEN Pair(start6, start4) ELSE {}
    IN  /\ Take("allocate")
        /\ AllocateNext(OwnerOf[req.att], start6, start4)
        /\ leases' = [ip \in Addresses |-> IF ip \in got THEN req.call ELSE leases[ip]]
        /\ Answer(IF got = {} THEN "ended" ELSE "link", [me EXCEPT !.held = got])
        /\ UNCHANGED <<endpoints, queued, up, crashes, link, life, calls>>

\* DELETE /v1/ipam/{ip}: by address only, refused while an endpoint has it.
Release ==
    /\ Take("release")
    /\ \E ip \in req.ips :
         IF \E a \in Attachments : UsedBy(a, ip)
         THEN UNCHANGED <<ipam, leases>>
         ELSE ReleaseAddress(ip) /\ leases' = [leases EXCEPT ![ip] = 0]
    /\ Answer("rollback", me)
    /\ UNCHANGED <<endpoints, queued, up, crashes, link, life, calls>>

\* Api::expire: the lease's ten minutes are over.
Expire(ip) ==
    /\ up
    /\ leases[ip] # 0
    /\ ReleaseAddress(ip)
    /\ leases' = [leases EXCEPT ![ip] = 0]
    /\ UNCHANGED <<endpoints, queued, up, crashes, backlog, link, pc, local, life, calls>>

\* Api::create: the leases must be pending, and this call's.
Pending == \A ip \in req.ips : leases[ip] = req.call

\* Mutant: the manager does not compare the addresses with its records.
CreatableUnindexed == ~Exists(req.att) /\ Pending /\ link[req.att].id = req.call

\* Manager::create's own checks.
Creatable ==
    /\ ~Exists(req.att)
    /\ Pending
    /\ link[req.att].id = req.call
    /\ \A ip \in req.ips : /\ ipam[ip] = OwnerOf[req.att]
                           /\ \A b \in Attachments : ~UsedBy(b, ip)
Publish(ready) == [endpoints EXCEPT ![req.att] =
                     [ips |-> req.ips, link |-> req.call, ready |-> ready]]

\* 201; or a body the plugin cannot read, upon which it deletes the endpoint.
PutCreates ==
    /\ Take("put")
    /\ Creatable
    /\ endpoints' = Publish(TRUE)
    /\ leases' = [ip \in Addresses |-> IF ip \in req.ips THEN 0 ELSE leases[ip]]
    /\ \E to \in {"finalize", "rollback"} : Answer(to, [me EXCEPT !.created = TRUE])
    /\ UNCHANGED <<ipam, queued, up, crashes, link, life, calls>>

\* 4xx: nothing was published.
PutRefused ==
    /\ Take("put")
    /\ IF Exists(req.att) THEN Healthy(req.att) ELSE ~Pending
    /\ Answer("rollback", [me EXCEPT !.mayExist = FALSE])
    /\ UNCHANGED <<agent, link, life, calls>>

\* 500: refused by the manager, undone, or kept for a DEL or a restart.
PutFails ==
    /\ Take("put")
    /\ Exists(req.att) \/ Pending
    /\ endpoints' \in {endpoints} \cup IF Creatable THEN {Publish(FALSE)} ELSE {}
    /\ Answer("rollback", me)
    /\ UNCHANGED <<ipam, leases, queued, up, crashes, link, life, calls>>

Unready(a) == [endpoints EXCEPT ![a].ready = FALSE]
Removed(a) == [endpoints EXCEPT ![a] = NoEndpoint]

TakeDelete == \E op \in {"undo", "delete", "redelete"} : Take(op)

\* DELETE /v1/endpoint/{id}: 200 or 404.
DeleteDone ==
    /\ TakeDelete
    /\ ipam' = [ip \in Addresses |-> IF UsedBy(req.att, ip) THEN Free ELSE ipam[ip]]
    /\ endpoints' = Removed(req.att)
    /\ link' = IF Exists(req.att) THEN [link EXCEPT ![req.att] = NoLink] ELSE link
    /\ Answer(IF req.op = "undo" THEN "rollback" ELSE "interface",
              [me EXCEPT !.mayExist = FALSE])
    /\ UNCHANGED <<leases, queued, up, crashes, life, calls>>

\* 500: the endpoint stays, marked deleting, with or without its link.
DeleteFails ==
    /\ TakeDelete
    /\ Exists(req.att)
    /\ endpoints' = Unready(req.att)
    /\ link' \in {link, [link EXCEPT ![req.att] = NoLink]}
    /\ Answer(IF req.op = "undo" THEN "rollback" ELSE "interface", me)
    /\ UNCHANGED <<ipam, leases, queued, up, crashes, life, calls>>

\* What the request being served when the agent dies can leave behind.
Interrupted ==
    \/ UNCHANGED <<endpoints, link>>
    \/ /\ backlog # <<>> /\ req.op = "put" /\ Creatable
       /\ endpoints' = Publish(FALSE)
       /\ UNCHANGED link
    \/ /\ backlog # <<>> /\ req.op \in {"undo", "delete", "redelete"} /\ Exists(req.att)
       /\ endpoints' \in {Unready(req.att), Removed(req.att)}
       /\ link' = [link EXCEPT ![req.att] = NoLink]

\* The agent dies; clients see their connections drop.
Crash ==
    LET to(a) == IF pc[a] \in Waiting THEN AfterError(pc[a]) ELSE pc[a]
    IN  /\ up
        /\ crashes < MaxCrashes
        /\ crashes' = crashes + 1
        /\ up' = FALSE
        /\ backlog' = <<>>
        /\ pc' = [a \in Attachments |-> to(a)]
        /\ local' = [a \in Attachments |-> IF to(a) = "ended" THEN NoCall ELSE local[a]]
        /\ Interrupted
        /\ UNCHANGED <<ipam, leases, queued, life, calls>>

\* Restore and replay: endpoints without a link are removed, queued deletions
\* done, the others are ready and own their addresses; leases are forgotten.
\* The restore refuses a link that is not the record's.
Restorable == \A a \in Attachments : Exists(a) => link[a].id \in {0, endpoints[a].link}
Survives(a) == Exists(a) /\ link[a] # NoLink /\ a \notin queued
OwnersOf(ip) == {OwnerOf[a] : a \in {b \in Attachments : Survives(b) /\ UsedBy(b, ip)}}

Restart ==
    /\ ~up
    /\ Restorable
    /\ up' = TRUE
    /\ endpoints' = [a \in Attachments |->
         IF Survives(a) THEN [endpoints[a] EXCEPT !.ready = TRUE] ELSE NoEndpoint]
    /\ link' = [a \in Attachments |-> IF a \in queued /\ Exists(a) THEN NoLink ELSE link[a]]
    /\ ipam' = [ip \in Addresses |->
         IF OwnersOf(ip) = {} THEN Free ELSE CHOOSE o \in OwnersOf(ip) : TRUE]
    /\ leases' = [ip \in Addresses |-> 0]
    /\ queued' = {}
    /\ UNCHANGED <<crashes, backlog, pc, local, life, calls>>

\* wait_for_request: nothing to accept.
Idle == up /\ backlog = <<>> /\ UNCHANGED vars

----------------------------------------------------------------------------
Plugin(a) ==
    \/ Add(a) \/ CheckHealth(a) \/ Reuse(a) \/ CheckSandbox(a) \/ CreateLink(a)
    \/ Configure(a) \/ Finalize(a) \/ StepFails(a)
    \/ RollbackEndpoint(a) \/ RollbackEnds(a) \/ RollbackLink(a) \/ RollbackAddress(a)
    \/ Del(a) \/ DeleteAgain(a) \/ Enqueue(a) \/ DeleteInterface(a) \/ TimesOut(a) \/ Kill(a)

Handle ==
    \/ Lookup \/ Health \/ Release \/ PutCreates \/ PutRefused \/ PutFails
    \/ DeleteDone \/ DeleteFails
    \/ \E start6 \in Offsets("ipv6"), start4 \in Offsets("ipv4") : Allocate(start6, start4)

Next ==
    \/ \E a \in Attachments : Plugin(a)
    \/ \E ip \in Addresses : Expire(ip)
    \/ Handle \/ Crash \/ Restart \/ Idle

Spec == Init /\ [][Next]_vars

----------------------------------------------------------------------------
(* Properties. *)

\* The shape of the state; a call that waits for an answer has its request
\* on the socket.
TypeOK ==
    /\ ipam \in [Addresses -> Owners \cup {Free, Infra}]
    /\ leases \in [Addresses -> 0 .. MaxCalls]
    /\ \A a \in Attachments :
         /\ Exists(a) => endpoints[a] \in Endpoint
         /\ link[a] \in [id : 0 .. MaxCalls, ips : SUBSET Addresses]
         /\ local[a].held \subseteq Addresses
         /\ pc[a] \in Waiting => \E i \in 1 .. Len(backlog) :
              backlog[i].att = a /\ backlog[i].op = pc[a] /\ backlog[i].call = local[a].call
    /\ queued \subseteq Attachments

\* Wherever a scan of allocate_next starts, and whichever exclusions earlier
\* scans have materialised, it finds an address exactly when the summary
\* counts one available.
SummaryIsExact ==
    \A f \in Families : \A start \in Offsets(f) :
        Found(f, start) <=> Summary(f).available > 0

\* "Endpoint-owned addresses" are allocated (docs/agent-api.md), so no scan
\* hands them out: leases that expire, releases and deletions of other calls
\* take no address from an endpoint in service.  The record a failed create
\* leaves behind is not: its leases still expire (api.rs, expire).
ReadyIsAllocated ==
    up => \A a \in Attachments, ip \in Addresses :
            UsedBy(a, ip) /\ endpoints[a].ready => ipam[ip] = OwnerOf[a]

\* Whatever leases expire, are forgotten in a restart or are released by the
\* rollback of another call: no two endpoints have the same address.
AddressesExclusive ==
    \A a, b \in Attachments, ip \in Addresses : UsedBy(a, ip) /\ UsedBy(b, ip) => a = b

\* An address that is taken in IPAM is an endpoint's or has a lease that will
\* expire (api.rs, EXPIRATION): no sequence of failures loses it.
NoAddressLeak ==
    \A ip \in Addresses :
        up /\ ipam[ip] \in Owners => leases[ip] # 0 \/ \E a \in Attachments : UsedBy(a, ip)

\* Once ADD has reported success, and until DEL, the agent has the endpoint in
\* service, and its link is there with its addresses.
PromisedIsUsable ==
    \A a \in Attachments : life[a] = "promised" =>
        /\ Exists(a) /\ (up => endpoints[a].ready)
        /\ link[a] = [id |-> endpoints[a].link, ips |-> endpoints[a].ips]

\* An ADD's rollback never takes the link of an endpoint the agent has
\* (create_endpoint: nothing is freed until deletion is confirmed).
RollbackKeepsEndpoint ==
    [][\A a \in Attachments : RollbackLink(a) => ~Exists(a)]_vars

\* What ADD learnt from its lookup (runtime.rs, no endpoint for the attachment)
\* holds until its PUT, though calls that were killed or gave up before it may
\* still have requests on the socket.  So the name of an endpoint's link never
\* comes to belong to another link, and a restart can restore the endpoints.
LookupNotStale ==
    /\ \A a \in Attachments :
         pc[a] \in {"check", "allocate", "link", "configure"} => ~Exists(a)
    /\ Restorable

\* Whatever step of ADD or DEL fails, times out or is killed, and however the
\* agent restarts: addresses are exclusive, none is lost or taken from an
\* endpoint in service, the pool's summary is exact, a lookup stays true until
\* its PUT, and a success stays usable (flowsdn-cni lib.rs add, api.rs,
\* flowsdn-ipam lib.rs).
AddHolds ==
    /\ AddressesExclusive /\ NoAddressLeak /\ ReadyIsAllocated
    /\ SummaryIsExact /\ LookupNotStale /\ PromisedIsUsable
=============================================================================
