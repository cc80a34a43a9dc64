------------------------------ MODULE NodePort ------------------------------
(***************************************************************************)
(* NodePort, external and LoadBalancer addresses from outside the cluster: *)
(* the nodeport_ingress and nodeport_egress programs of socket-lb.rs on a  *)
(* node's uplink.  A client's packet to a frontend goes to a backend on    *)
(* this node (destination rewritten), on another node (source-NATed to     *)
(* this node, or with direct server return the frontend in an IP option),  *)
(* or to one of the other family (NAT46/64); the reply must come back from *)
(* the frontend.  Each direction of a flow is one entry of the tables      *)
(* flowsdn_nodeport4_nat, _nodeport6_nat and _nodeport4_xlate.             *)
(*                                                                         *)
(* An address stands for an address and port; header fields, checksums,    *)
(* TTL and MTU are left out (a packet that fits and may be forwarded).  The *)
(* tables are LRU maps: when full, they evict entries (Evict).             *)
(***************************************************************************)
EXTENDS Naturals, FiniteSets, TLC

CONSTANTS
    FlowSets,  \* the sets of <<client, front>> pairs that clients may use
    Service,   \* front -> [backs, dsr, nat46x64]: its scope-1 master and slots
    IsV6,      \* the names of IPv6 clients, fronts and backends
    Local,     \* backends reached through another device than the uplink
    NatPorts,  \* the NAT ports, 0..n-1
    NatTries,  \* how many of them claim_port tries
    Cpus,
    MaxEvicted \* bound: entries evicted

VARIABLES
    flows,      \* the pairs they do use
    table,      \* the three NAT maps of this node
    dsrTable,   \* the reply entries on the backends' nodes (DSR)
    job,        \* the new flow each CPU is recording
    delivered,  \* packets that reached a backend
    answered,   \* the flows whose client got an answer
    evicted     \* ghost: the keys of evicted entries
vars == <<flows, table, dsrTable, job, delivered, answered, evicted>>

Client(c) == <<"client", c>>
Front(f) == <<"front", f>>
Back(b) == <<"back", b>>
\* This node's address toward a backend, with a NAT port.
NatAddr(b, p) == <<"nat", b \in IsV6, p>>

NoJob == [step |-> "idle"]

\* An entry of NODEPORT4 or NODEPORT6 ("np", by the family of its key) or of
\* XLATE4 ("x4").
Key(map, direction, a, b) == [map |-> map, dir |-> direction, a |-> a, b |-> b]
Put(t, k, v) == (k :> v) @@ t
------------------------------------------------------------------------------
(* The packet of a client at the uplink's ingress. *)

\* classify4, classify6: an IPv4-keyed forward entry of a translated flow is
\* in XLATE4, every other one in the map of its family.
ForwardKey(c, f) ==
    Key(IF Service[f].nat46x64 /\ f \notin IsV6 THEN "x4" ELSE "np",
        "forward", Client(c), Front(f))

\* fib4, fib6, forwarded: a route to the backend through the uplink itself.
Remote(b) == b \notin Local

\* new_flow6, nodeport4_in, new_flow46, new_flow64: the FIB says where the
\* backend is.  A translated backend must not be local: the packet passes.
Mode(f, b) ==
    CASE Service[f].nat46x64 /\ ~Remote(b) -> "pass"
      [] Service[f].nat46x64                -> "xlate"
      [] ~Remote(b)                         -> "local"
      [] Service[f].dsr                     -> "dsr"
      [] OTHER                              -> "snat"

\* dsr_forward4, dsr_forward6_in, push_option4, dsr_backend4, dsr_backend6: a
\* packet that opens the flow carries the frontend, and the backend's node
\* makes its reply entry from it.
Opens(c, f) == <<c, f>> \notin answered
DsrEntryNever(c, f, b, opens) == dsrTable
DsrEntry(c, f, b, opens) ==
    IF opens
    THEN Put(dsrTable, Key("np", "reply", Back(b), Client(c)),
             [front |-> Front(f)])
    ELSE dsrTable

\* snat_forward4/6: a NATed flow's source becomes the node's NAT port.
Source(c, flow) ==
    IF flow.mode \in {"snat", "xlate"} THEN NatAddr(flow.back, flow.port)
    ELSE Client(c)

\* dsr_forward4/6, local6 and to_v6/to_v4 (and snat_forward4/6): what the
\* backend gets of a packet of a flow.
Forward(c, f, flow, opens) ==
    /\ delivered' = delivered \cup
         {[back |-> flow.back, origin |-> <<c, f>>, mode |-> flow.mode,
           src |-> Source(c, flow)]}
    /\ dsrTable' = IF flow.mode = "dsr" THEN DsrEntry(c, f, flow.back, opens)
                   ELSE dsrTable

\* A packet of a known flow.
KnownFlow(cpu, c, f) ==
    /\ job[cpu] = NoJob
    /\ ForwardKey(c, f) \in DOMAIN table
    /\ Forward(c, f, table[ForwardKey(c, f)], Opens(c, f))
    /\ UNCHANGED <<flows, table, job, answered, evicted>>

\* A packet of a new flow: a backend is picked.  What the program does not
\* translate passes untouched.
NewFlow(cpu, c, f) ==
    /\ job[cpu] = NoJob
    /\ ForwardKey(c, f) \notin DOMAIN table
    /\ \E b \in Service[f].backs :
         /\ Mode(f, b) # "pass"
         /\ job' = [job EXCEPT ![cpu] =
                       [step |-> "reply", client |-> c, front |-> f, back |-> b,
                        mode |-> Mode(f, b), port |-> 0,
                        opens |-> Opens(c, f)]]
    /\ UNCHANGED <<flows, table, dsrTable, delivered, answered, evicted>>

\* claim_port, claim_port6: a port with no reply entry toward this backend
\* (the insert is BPF_NOEXIST, so the claim is atomic), the first one from a
\* random start.
FreePortsOfFront(b, f) ==
    {p \in NatPorts : \A k \in DOMAIN table :
        ~(k.dir = "snatReply" /\ k.a = Back(b) /\ k.b = NatAddr(b, p)
          /\ table[k].front = Front(f))}
FreePorts(b, f) ==
    {p \in NatPorts :
        Key("np", "snatReply", Back(b), NatAddr(b, p)) \notin DOMAIN table}

\* It gives up when the ports it tries are all taken, others free or not.
GivesUp(b, f) ==
    \E start \in NatPorts : \A i \in 0..(NatTries - 1) :
        (start + i) % Cardinality(NatPorts) \notin FreePorts(b, f)

Reply(j) == [front |-> Front(j.front), client |-> Client(j.client),
             xlate |-> j.mode = "xlate"]

\* The reply entry comes first.  NAT64 reserves its port in NODEPORT4 and
\* keeps the reply in XLATE4.
RecordReply(cpu) ==
    LET j == job[cpu]
        At(step, p) == job' = [job EXCEPT ![cpu] = [@ EXCEPT !.step = step, !.port = p]]
    IN /\ j.step = "reply"
       /\ \/ /\ j.mode = "local"
             /\ table' = Put(table, Key("np", "reply", Back(j.back), Client(j.client)),
                             [front |-> Front(j.front)])
             /\ At("forward", 0)
          \/ /\ j.mode = "dsr"
             /\ At("forward", 0)
             /\ UNCHANGED table
          \/ /\ j.mode \in {"snat", "xlate"}
             /\ \E p \in FreePorts(j.back, j.front) :
                  LET k == Key("np", "snatReply", Back(j.back), NatAddr(j.back, p))
                      t == Put(table, k, Reply(j))
                  IN /\ table' = IF j.mode = "xlate" /\ j.back \notin IsV6
                                 THEN Put(t, [k EXCEPT !.map = "x4"], Reply(j))
                                 ELSE t
                     /\ At("forward", p)
          \/ /\ j.mode \in {"snat", "xlate"} /\ GivesUp(j.back, j.front)
             /\ job' = [job EXCEPT ![cpu] = NoJob]
             /\ UNCHANGED table
    /\ UNCHANGED <<flows, dsrTable, delivered, answered, evicted>>

\* Then the forward entry, and the packet goes out.
RecordForward(cpu) ==
    LET j == job[cpu]
        flow == [back |-> j.back, mode |-> j.mode, port |-> j.port]
    IN /\ j.step = "forward"
       /\ table' = Put(table, ForwardKey(j.client, j.front), flow)
       /\ Forward(j.client, j.front, flow, j.opens)
       /\ job' = [job EXCEPT ![cpu] = NoJob]
       /\ UNCHANGED <<flows, answered, evicted>>
------------------------------------------------------------------------------
(* The backend's answer to a packet it got. *)

\* The entry that undoes the translation: of the backend and the client, or
\* of the backend and a NAT port, there in XLATE4 first.
Undo(d) ==
    LET k == Key("np", IF d.mode \in {"local", "dsr"} THEN "reply" ELSE "snatReply",
                 Back(d.back), d.src)
        x == [k EXCEPT !.map = "x4"]
    IN IF x \in DOMAIN table THEN x ELSE k

\* nodeport4_out, nodeport6_out on the uplink's egress, of this node or (DSR)
\* of the backend's: the source becomes the frontend's, if there is an entry.
AnswerOut(d) ==
    LET t == IF d.mode = "dsr" THEN dsrTable ELSE table
    IN [client |-> d.src,
        src |-> IF Undo(d) \in DOMAIN t THEN t[Undo(d)].front ELSE Back(d.back)]

\* The answer to a NAT port at the uplink's ingress (snat_reply4/6, to_v6,
\* to_v4).
AnswerIn(d) == [client |-> table[Undo(d)].client, src |-> table[Undo(d)].front]

\* An answer to a NAT port needs its entry, and a NAT64 reservation in
\* NODEPORT4 is passed over.
Answers(d) ==
    CASE d.mode \in {"local", "dsr"}    -> {AnswerOut(d)}
      [] Undo(d) \notin DOMAIN table    -> {}
      [] /\ Undo(d).map = "np" /\ d.back \notin IsV6
         /\ table[Undo(d)].xlate        -> {}
      [] OTHER                          -> {AnswerIn(d)}

\* A client gets the answer.
Answer(d) ==
    /\ \E r \in Answers(d) :
         /\ r.client = Client(d.origin[1])
         /\ answered' = answered \cup {d.origin}
    /\ UNCHANGED <<flows, table, dsrTable, job, delivered, evicted>>

\* A full LRU map evicts an entry to make room, on this node or the backend's.
Evict ==
    /\ Cardinality(evicted) < MaxEvicted
    /\ \E k \in DOMAIN table \cup DOMAIN dsrTable :
         /\ evicted' = evicted \cup {k}
         /\ table' = [x \in DOMAIN table \ {k} |-> table[x]]
         /\ dsrTable' = [x \in DOMAIN dsrTable \ {k} |-> dsrTable[x]]
    /\ UNCHANGED <<flows, job, delivered, answered>>
------------------------------------------------------------------------------
Init ==
    /\ flows \in FlowSets
    /\ table = [k \in {} |-> 0]
    /\ dsrTable = [k \in {} |-> 0]
    /\ job = [c \in Cpus |-> NoJob]
    /\ delivered = {} /\ answered = {} /\ evicted = {}

Next ==
    \/ \E cpu \in Cpus, fl \in flows :
         KnownFlow(cpu, fl[1], fl[2]) \/ NewFlow(cpu, fl[1], fl[2])
    \/ \E cpu \in Cpus : RecordReply(cpu) \/ RecordForward(cpu)
    \/ \E d \in delivered : Answer(d)
    \/ Evict
------------------------------------------------------------------------------
\* Another flow's entry may be under the key: the key's own was evicted (a NAT
\* port's from either map), or the same client port opened a flow to the same
\* backend through a second frontend, which overwrites the reply entry.
Evicted(k) == \E e \in evicted : [e EXCEPT !.map = k.map] = k
Overwritten(c, f, k, front) ==
    /\ k.dir = "reply"
    /\ \E fl \in flows : fl[1] = c /\ fl[2] # f /\ front = Front(fl[2])

\* "Replies are shown as from the frontend" (attach_uplink): whatever way a
\* flow took, the answer reaches the client that opened it and comes from the
\* address it wrote to - with two CPUs recording flows at once and NAT ports
\* shared by all clients of a backend.  Except after an eviction (of the reply
\* entry; or of the forward entry of an open flow, which then may go to
\* another node without the option that names the frontend), and for a client
\* port that reaches one backend through two frontends: that client gets both
\* answers from one of them.
RepliesFromFrontend ==
    \A d \in delivered : \A r \in Answers(d) :
        Evicted(Undo(d)) \/
        /\ r.client = Client(d.origin[1])
        /\ \/ r.src = Front(d.origin[2])
           \/ Overwritten(d.origin[1], d.origin[2], Undo(d), r.src)
           \/ r.src = Back(d.back) /\ Evicted(ForwardKey(d.origin[1], d.origin[2]))

\* "The reply entry first: a reply must never find a flow it cannot undo": a
\* forward entry has the entry that undoes it, with the same two exceptions.
ForwardHasReply ==
    \A fl \in flows :
        LET k == ForwardKey(fl[1], fl[2])
        IN (k \in DOMAIN table /\ table[k].mode # "dsr") =>
             LET v == table[k]
                 undo == IF v.mode = "local"
                         THEN Key("np", "reply", Back(v.back), Client(fl[1]))
                         ELSE Key(IF v.mode = "xlate" /\ v.back \notin IsV6
                                  THEN "x4" ELSE "np",
                                  "snatReply", Back(v.back), NatAddr(v.back, v.port))
             IN Evicted(undo) \/
                /\ undo \in DOMAIN table
                /\ \/ table[undo].front = Front(fl[2])
                   \/ Overwritten(fl[1], fl[2], undo, table[undo].front)
==============================================================================
