------------------------------- MODULE LbMaps -------------------------------
(***************************************************************************)
(* The socket load balancer's maps (flowsdn-lb/src/socket.rs): the agent   *)
(* plans them from the service list and from what the kernel holds, writes *)
(* them one entry at a time (flowsdn-bpf-loader/src/socket_lb.rs, the      *)
(* agent's service_loop), and the cgroup programs of socket-lb.rs read     *)
(* them at any moment in between.                                          *)
(*                                                                         *)
(* Both families' maps have the same shape and share the service and       *)
(* backend numbers, so they are one record here, keyed by frontends of     *)
(* either family.  A frontend stands for (address, port, protocol, scope). *)
(***************************************************************************)
EXTENDS Naturals, FiniteSets, Sequences, SequencesExt, FiniteSetsExt

CONSTANTS
    FrontSeq,      \* the frontends in the order of their keys
    BackSeq,       \* the backend addresses in their order
    IsV6,          \* the frontends and backends that are IPv6
    Udp,           \* the frontends (and so the sockets) that are UDP
    Outside,       \* the frontends of scope 1, looked up at the uplink
    Clients,       \* network namespaces that open sockets
    Lists,         \* the service lists the watch may publish
    Size,          \* entries of a Maglev table, a prime
    MaxId,         \* bound: service and backend numbers
    MaxChanges     \* bound: lists published, and writes, terminations and
                   \* processes that fail

Fronts == ToSet(FrontSeq)
Backs == ToSet(BackSeq)
NoList == [none |-> TRUE]

VARIABLES
    maps,        \* the kernel's maps
    wanted,      \* the service list last sent to the loop
    list,        \* the one being programmed
    writing,     \* a pass is under way
    ops,         \* the writes still to do, in order
    programmed,  \* the list last programmed completely, by this process
    affinity,    \* the programs' own LRU: <<client, service id>> -> backend id
    sockets,     \* open UDP sockets: [client, front, back]
    stray,       \* ghost: the ones a termination could not reach
    lookup,      \* each client's lookup, between two of its reads
    recent,      \* ghost: the lists written since the last complete one
    changes,     \* how many lists came and things failed
    clean        \* ghost: no write failed yet
agent == <<wanted, list, writing, ops, programmed, recent, changes, clean>>
vars == <<maps, agent, affinity, sockets, stray, lookup>>

EmptyMaps == [services |-> [k \in {} |-> 0], backends |-> [k \in {} |-> 0],
              match |-> {}, maglev |-> [k \in {} |-> 0]]

With(f, k, v) == [x \in DOMAIN f \cup {k} |-> IF x = k THEN v ELSE f[x]]
Without(f, k) == [x \in DOMAIN f \ {k} |-> f[x]]
------------------------------------------------------------------------------
(* desired(): the map contents of a service list. *)

\* Ids::allocate: new things get the smallest numbers not in use, in the
\* order they are met; 0 when the numbers are exhausted.
SmallestReused(used, k) == k
Smallest(used, k) ==
    LET free == (1..MaxId) \ used
    IN IF k > Cardinality(free) THEN 0
       ELSE CHOOSE i \in free : Cardinality({j \in free : j <= i}) = k
\* How many distinct elements a sequence has up to the first x.
Rank(seq, x) ==
    Cardinality(ToSet(SubSeq(seq, 1, Min({i \in DOMAIN seq : seq[i] = x}))))
Numbered(kept, used, seq) ==
    LET new == SelectSeq(seq, LAMBDA x : x \notin DOMAIN kept)
    IN [x \in ToSet(seq) |-> IF x \in DOMAIN kept THEN kept[x]
                             ELSE Smallest(used, Rank(new, x))]

\* The number a backend already has in the kernel: the lowest when it has two.
RecoveredBackends(current) ==
    LET held == {current.backends[i] : i \in DOMAIN current.backends}
    IN [b \in held |-> Min({i \in DOMAIN current.backends :
                                current.backends[i] = b})]

\* A master with a number keeps it.
RecoveredServices(current) ==
    LET masters == {k \in DOMAIN current.services : k[2] = 0}
    IN [f \in {k[1] : k \in masters} |-> current.services[<<f, 0>>].id]

\* The backends of the right family: with nat46x64, the other one's.
OwnFamily(f, s) == {b \in s.backends :
                        ((f \in IsV6) = (b \in IsV6)) # s.nat46x64}

InOrder(set, order) == SelectSeq(order, LAMBDA x : x \in set)

\* A master: the slot count, the service number and the flags.
Master(s, count, id) == [count |-> count, id |-> id, sticky |-> s.sticky,
                         maglev |-> s.maglev, nat46x64 |-> s.nat46x64]

\* A service keeps its number and a backend its own; a number still in the
\* kernel is never given to another.  Slots, affinity pairs and tables follow.
Desired(current, services) ==
    LET fronts == InOrder(DOMAIN services, FrontSeq)
        backs  == [f \in DOMAIN services |->
                     InOrder(OwnFamily(f, services[f]), BackSeq)]
        sids   == Numbered(RecoveredServices(current),
                           {current.services[k].id : k \in DOMAIN current.services},
                           fronts)
        bids   == Numbered(RecoveredBackends(current), DOMAIN current.backends,
                           FlattenSeq([i \in DOMAIN fronts |-> backs[fronts[i]]]))
        keys   == UNION {{<<f, n>> : n \in 0..Len(backs[f])} : f \in DOMAIN services}
        sticky == {f \in DOMAIN services : services[f].sticky}
        tabled == {f \in DOMAIN services : services[f].maglev /\ backs[f] # <<>>}
    IN [failed |-> \/ \E f \in DOMAIN sids : sids[f] = 0
                   \/ \E b \in DOMAIN bids : bids[b] = 0,
        maps |->
          [services |-> [k \in keys |->
              IF k[2] = 0 THEN Master(services[k[1]], Len(backs[k[1]]), sids[k[1]])
              ELSE [backend |-> bids[backs[k[1]][k[2]]], id |-> sids[k[1]]]],
           backends |-> [i \in {bids[b] : b \in DOMAIN bids} |->
                            CHOOSE b \in DOMAIN bids : bids[b] = i],
           match    |-> UNION {{<<bids[b], sids[f]>> : b \in ToSet(backs[f])} :
                                  f \in sticky},
           maglev   |-> [i \in {sids[f] : f \in tabled} |->
                            LET f == CHOOSE f \in tabled : sids[f] = i
                            IN {bids[b] : b \in ToSet(backs[f])}]]]
------------------------------------------------------------------------------
(* plan(): the writes that turn the kernel's maps into the desired ones, in *)
(* the order of the code: group after group, each in the order of its keys. *)

Puts(map, current, target, K(_)) ==
    {[op |-> "put", map |-> map, key |-> k, value |-> target[k]] :
        k \in {k \in DOMAIN target :
                  K(k) /\ ~(k \in DOMAIN current /\ current[k] = target[k])}}
Deletes(map, current, target, K(_)) ==
    {[op |-> "delete", map |-> map, key |-> k] :
        k \in {k \in DOMAIN current : K(k) /\ k \notin DOMAIN target}}
AnyKey(k) == TRUE
IsMaster(k) == k[2] = 0
IsSlot(k) == k[2] # 0

Pairs(op, set) == {[op |-> op, map |-> "match", key |-> k] : k \in set}

\* BTreeMap order: by number, by pair, or by frontend and slot.
KeyRank(o) ==
    CASE o.map = "match"    -> o.key[1] * (MaxId + 1) + o.key[2]
      [] o.map = "services" -> CHOOSE r \in 0..(Len(FrontSeq) * (Len(BackSeq) + 1)) :
                                 \E i \in DOMAIN FrontSeq :
                                    /\ FrontSeq[i] = o.key[1]
                                    /\ r = (i - 1) * (Len(BackSeq) + 1) + o.key[2]
      [] OTHER              -> o.key
InKeyOrder(groups) ==
    FlattenSeq([i \in DOMAIN groups |->
        SetToSortSeq(groups[i], LAMBDA o, p : KeyRank(o) < KeyRank(p))])

PlanMastersFirst(c, d) ==
    InKeyOrder(<<Puts("backends", c.backends, d.backends, AnyKey),
                 Pairs("put", d.match \ c.match),
                 Puts("maglev", c.maglev, d.maglev, AnyKey),
                 Puts("services", c.services, d.services, IsMaster),
                 Puts("services", c.services, d.services, IsSlot),
                 Deletes("services", c.services, d.services, IsMaster),
                 Deletes("services", c.services, d.services, IsSlot),
                 Deletes("maglev", c.maglev, d.maglev, AnyKey),
                 Pairs("delete", c.match \ d.match),
                 Deletes("backends", c.backends, d.backends, AnyKey)>>)

PlanKeepsBackends(c, d) ==
    InKeyOrder(<<Puts("backends", c.backends, d.backends, AnyKey),
                 Pairs("put", d.match \ c.match),
                 Puts("maglev", c.maglev, d.maglev, AnyKey),
                 Puts("services", c.services, d.services, IsSlot),
                 Puts("services", c.services, d.services, IsMaster),
                 Deletes("services", c.services, d.services, IsMaster),
                 Deletes("services", c.services, d.services, IsSlot),
                 Deletes("maglev", c.maglev, d.maglev, AnyKey),
                 Pairs("delete", c.match \ d.match)>>)

PlanOps(c, d) ==
    InKeyOrder(<<Puts("backends", c.backends, d.backends, AnyKey),
                 Pairs("put", d.match \ c.match),
                 Puts("maglev", c.maglev, d.maglev, AnyKey),
                 Puts("services", c.services, d.services, IsSlot),
                 Puts("services", c.services, d.services, IsMaster),
                 Deletes("services", c.services, d.services, IsMaster),
                 Deletes("services", c.services, d.services, IsSlot),
                 Deletes("maglev", c.maglev, d.maglev, AnyKey),
                 Pairs("delete", c.match \ d.match),
                 Deletes("backends", c.backends, d.backends, AnyKey)>>)

\* SocketLb::apply, one write.
Written(m, o) ==
    CASE o.map = "match" /\ o.op = "put"    -> [m EXCEPT !.match = @ \cup {o.key}]
      [] o.map = "match" /\ o.op = "delete" -> [m EXCEPT !.match = @ \ {o.key}]
      [] o.map # "match" /\ o.op = "put"    -> [m EXCEPT ![o.map] = With(@, o.key, o.value)]
      [] OTHER                              -> [m EXCEPT ![o.map] = Without(@, o.key)]
------------------------------------------------------------------------------
(* What a lookup of a frontend may end at, if it read all maps at once:     *)
(* backend numbers.                                                         *)

\* affine(): a remembered backend the agent still pairs with the service.
Remembered(c, id) ==
    {affinity[k] : k \in {<<c, id>>} \cap DOMAIN affinity}
    \cap {p[1] : p \in {p \in maps.match : p[2] = id}}

\* maglev4, maglev6: the table of a service.
Table(id) == IF id \in DOMAIN maps.maglev THEN maps.maglev[id] ELSE {}

Slots(f, count) == {<<f, n>> : n \in 1..count}
\* The socket programs ask the affinity map first, the uplink's the table.
Shortcut(c, f, m) ==
    CASE f \in Outside /\ m.maglev    -> Table(m.id)
      [] f \notin Outside /\ m.sticky -> Remembered(c, m.id)
      [] OTHER                        -> {}

Masters == {k[1] : k \in {k \in DOMAIN maps.services : k[2] = 0}}
Reachable(f) ==
    LET m == maps.services[<<f, 0>>]
    IN {maps.services[k].backend : k \in Slots(f, m.count) \cap DOMAIN maps.services}
       \cup UNION {Shortcut(c, f, m) : c \in Clients}
------------------------------------------------------------------------------
NoLookup == [step |-> "idle"]
Running == {c \in Clients : lookup[c] # NoLookup}
\* The backends a list gives a frontend.
Given(f, l) == IF f \in DOMAIN l THEN OwnFamily(f, l[f]) ELSE {}

Init ==
    /\ maps = EmptyMaps
    /\ wanted = NoList /\ list = NoList /\ programmed = NoList
    /\ ops = <<>> /\ writing = FALSE
    /\ affinity = [k \in {} |-> 0]
    /\ sockets = {} /\ stray = {}
    /\ lookup = [c \in Clients |-> NoLookup]
    /\ recent = {}
    /\ changes = 0
    /\ clean = TRUE

\* The watch publishes a service list (publish_services).
Publish ==
    /\ changes < MaxChanges
    /\ \E l \in Lists : l # wanted /\ wanted' = l
    /\ changes' = changes + 1
    /\ UNCHANGED <<maps, list, writing, ops, programmed, recent, clean,
                   affinity, sockets, stray, lookup>>

\* A pass begins: the part of Program that the loop's timer keeps coming to.
Begins == ~writing /\ wanted # NoList /\ writing' = TRUE

\* What a running lookup meets (ghost): the backends that lists in force give
\* its frontend, whether they all give the same, and how far the agent gets -
\* a pass ends (1), and after it another begins (2).
MeetsPass(l) ==
    [c \in Clients |->
        IF c \notin Running THEN lookup[c]
        ELSE LET u == lookup[c]
             IN [u EXCEPT !.may = @ \cup Given(u.front, l),
                          !.steady = @ /\ Given(u.front, l) = u.may,
                          !.met = IF @ = 1 THEN 2 ELSE @]]
MeetsEnd ==
    [c \in Clients |-> IF c \notin Running THEN lookup[c]
                       ELSE [lookup[c] EXCEPT !.met = IF @ = 0 THEN 1 ELSE @]]

\* program(): dump, desired and plan, on a new list and on the 30 s tick.
Program ==
    /\ Begins
    /\ \E d \in {Desired(maps, wanted)} :
         /\ ~d.failed
         /\ ops' = PlanOps(maps, d.maps)
    /\ list' = wanted
    /\ recent' = recent \cup {wanted}
    /\ lookup' = MeetsPass(wanted)
    /\ UNCHANGED <<maps, wanted, programmed, changes, clean,
                   affinity, sockets, stray>>

Apply ==
    /\ writing /\ ops # <<>>
    /\ maps' = Written(maps, Head(ops))
    /\ ops' = Tail(ops)
    /\ UNCHANGED <<wanted, list, writing, programmed, recent, changes, clean,
                   affinity, sockets, stray, lookup>>

UdpBackends(l) == UNION {l[f].backends : f \in DOMAIN l \cap Udp}

GoneNever(l) == {}

\* All writes done: the sockets of UDP backends that are gone are destroyed
\* (udp_backends, terminate; not on the first success of a process).  An
\* error - a namespace that cannot be entered, a socket that cannot be
\* destroyed - is only recorded: the rest are tried, and never again.
Gone(l) == IF programmed = NoList THEN {}
           ELSE UdpBackends(programmed) \ UdpBackends(l)
Programmed ==
    /\ writing /\ ops = <<>>
    /\ writing' = FALSE
    /\ LET doomed == {s \in sockets : s.back \in Gone(list)}
       IN \E left \in SUBSET doomed :
            /\ left # {} => changes < MaxChanges
            /\ changes' = IF left # {} THEN changes + 1 ELSE changes
            /\ sockets' = (sockets \ doomed) \cup left
            /\ stray' = (stray \cap sockets') \cup left
    /\ programmed' = list
    /\ recent' = {list}
    /\ lookup' = MeetsEnd
    /\ UNCHANGED <<maps, wanted, list, ops, clean, affinity>>

\* The first failing write ends the pass; the next one plans again from what
\* the kernel holds.  A restarted agent finds the pinned maps, and knows of
\* no list it programmed.
Fails ==
    /\ writing /\ changes < MaxChanges
    /\ writing' = FALSE /\ ops' = <<>>
    /\ changes' = changes + 1
    /\ clean' = FALSE
    /\ programmed' \in {programmed, NoList}
    /\ lookup' = MeetsEnd
    /\ UNCHANGED <<maps, wanted, list, recent, affinity, sockets, stray>>
------------------------------------------------------------------------------
(* A lookup: connect or sendmsg to a frontend (forward4/6, lookup4/6), or a *)
(* packet of a new flow at the uplink.  Each map is read by itself, on a    *)
(* CPU of its own, while the agent writes.                                  *)

\* The master, copied at once.
ReadMaster(c, f) ==
    /\ lookup[c] = NoLookup
    /\ <<f, 0>> \in DOMAIN maps.services
    /\ LET m == maps.services[<<f, 0>>]
           may == UNION {Given(f, l) : l \in recent}
       IN lookup' = [lookup EXCEPT ![c] =
            [step |-> IF (f \in Outside /\ m.maglev) \/ (f \notin Outside /\ m.sticky)
                      THEN "shortcut" ELSE "slot",
             front |-> f, master |-> m, id |-> 0, back |-> "none",
             may |-> may, steady |-> \A l \in recent : Given(f, l) = may, met |-> 0]]
    /\ UNCHANGED <<maps, agent, affinity, sockets, stray>>

Goes(c, step, id, back) ==
    lookup' = [lookup EXCEPT ![c].step = step, ![c].id = id, ![c].back = back]
Refused(c) == lookup' = [lookup EXCEPT ![c] = NoLookup]

\* affine(), or the Maglev table: a backend number, or on to the slots.
ReadShortcut(c) ==
    LET u == lookup[c]
        ids == Shortcut(c, u.front, u.master)
    IN /\ u.step = "shortcut"
       /\ \/ \E id \in ids : Goes(c, "backend", id, "none")
          \/ ids = {} /\ Goes(c, "slot", 0, "none")
       /\ UNCHANGED <<maps, agent, affinity, sockets, stray>>

\* slot(): one of the master's count, or the lookup is refused.
ReadSlot(c) ==
    LET u == lookup[c]
    IN /\ u.step = "slot"
       /\ \/ u.master.count = 0 /\ Refused(c)
          \/ \E k \in Slots(u.front, u.master.count) :
               \/ /\ k \in DOMAIN maps.services
                  /\ Goes(c, "backend", maps.services[k].backend, "none")
               \/ k \notin DOMAIN maps.services /\ Refused(c)
       /\ UNCHANGED <<maps, agent, affinity, sockets, stray>>

ReadBackend(c) ==
    LET u == lookup[c]
    IN /\ u.step = "backend"
       /\ \/ /\ u.id \in DOMAIN maps.backends
             /\ Goes(c, "open", u.id, maps.backends[u.id])
          \/ u.id \notin DOMAIN maps.backends /\ Refused(c)
       /\ UNCHANGED <<maps, agent, affinity, sockets, stray>>

\* The client is remembered, and the socket is opened to the backend.  A
\* pass that ended meanwhile has not seen the socket.
Open(c) ==
    LET u == lookup[c]
        s == [client |-> c, front |-> u.front, back |-> u.back]
        opened == IF u.front \in Udp \ Outside THEN {s} ELSE {}
    IN /\ u.step = "open"
       /\ lookup' = [lookup EXCEPT ![c] = NoLookup]
       /\ affinity' = IF u.front \notin Outside /\ u.master.sticky
                      THEN With(affinity, <<c, u.master.id>>, u.id) ELSE affinity
       /\ sockets' = sockets \cup opened
       /\ stray' = IF u.met > 0 THEN stray \cup opened ELSE stray
       /\ UNCHANGED <<maps, agent>>

\* The LRU affinity map may forget a client at any time; a timeout is that.
Forget ==
    /\ \E k \in DOMAIN affinity : affinity' = Without(affinity, k)
    /\ UNCHANGED <<maps, agent, sockets, stray, lookup>>

Next == \/ Publish \/ Program \/ Apply \/ Programmed \/ Fails \/ Forget
        \/ \E c \in Clients :
             \/ \E f \in Fronts : ReadMaster(c, f)
             \/ ReadShortcut(c) \/ ReadSlot(c) \/ ReadBackend(c) \/ Open(c)
------------------------------------------------------------------------------
\* "A concurrent lookup never reads a slot beyond its master's count or a
\* backend ID with no backend": the maps are sound between any two writes.
\* Every slot up to a master's count is there, and a backend for every number
\* a lookup can end at - one that a list being written (or the last complete
\* one) gives that frontend, though numbers are recovered and reused.
MapsSound ==
    \A f \in Masters :
        /\ Slots(f, maps.services[<<f, 0>>].count) \subseteq DOMAIN maps.services
        /\ Reachable(f) \subseteq DOMAIN maps.backends
        /\ \A id \in Reachable(f) :
              \E l \in recent : f \in DOMAIN l /\ maps.backends[id] \in l[f].backends

\* A lookup that reads the maps one by one while the agent writes is refused
\* only when the backends of its own frontend change under it: a master read
\* before its count shrank, a number read before its backend went.  And the
\* backend it ends at is its frontend's, unless it is so slow that one pass
\* takes the number back and the next gives it to another backend.
LookupsEnd ==
    \A c \in Running :
        LET u == lookup[c]
        IN /\ u.step = "slot" /\ u.steady =>
                /\ Slots(u.front, u.master.count) \subseteq DOMAIN maps.services
                /\ u.master.count = 0 => u.may = {}
           /\ u.step = "backend" /\ u.steady => u.id \in DOMAIN maps.backends
           /\ u.step = "backend" /\ u.met < 2 /\ u.id \in DOMAIN maps.backends =>
                maps.backends[u.id] \in u.may

\* Two frontends never share a service number: affinity entries, affinity
\* pairs and Maglev tables are kept under it.
NumbersDistinct ==
    \A j, k \in {k \in DOMAIN maps.services : k[2] = 0} :
        j # k => maps.services[j].id # maps.services[k].id

\* When a pass succeeds and no write failed before it, no UDP socket is left
\* talking to a backend the list no longer has (terminate) - but for the ones
\* it failed to destroy, and the ones opened on a lookup that began before it.
SocketsFollowBackends ==
    (clean /\ ~writing /\ programmed # NoList) =>
        \A s \in sockets \ stray : s.back \in UdpBackends(programmed)

\* When no new list comes and writes stop failing, the kernel's maps come to
\* be the ones of the last list, whatever was half-written before.
MapsConverge ==
    <>[](wanted = NoList \/
         (/\ programmed = wanted
          /\ {k \in DOMAIN maps.services : k[2] = 0} = (DOMAIN wanted) \X {0}
          /\ \A f \in DOMAIN wanted :
               {maps.backends[maps.services[k].backend] :
                      k \in Slots(f, maps.services[<<f, 0>>].count)}
                   = OwnFamily(f, wanted[f])
          /\ {maps.backends[i] : i \in DOMAIN maps.backends}
                = UNION {OwnFamily(f, wanted[f]) : f \in DOMAIN wanted}))
------------------------------------------------------------------------------
(* The Maglev lookup table (flowsdn-lb/src/maglev.rs).  Each backend has a *)
(* permutation of the table's entries given by (offset, skip), two lanes   *)
(* of a hash of its address; here they are inputs, so that a result holds  *)
(* whatever the hash says.                                                 *)

\* permutation_slot(): the n-th entry of a backend's permutation.
PermutationSlot(b, n) == (b.offset + n * b.skip) % Size

Total(backends) == FoldLeft(LAMBDA sum, b : sum + b.weight, 0, backends)
Weighted(backends) == Total(backends) \div Len(backends) > 1

\* The next backend to place an entry of: round robin from n, passing over
\* the ones ahead of their weight.  A backend's counter starts at the part of
\* weight / count below one and grows by the sum of the weights.
TurnUnweighted(backends, placed, n) == 1 + (n % Len(backends))
Turn(backends, placed, n) ==
    LET len == Len(backends)
        At(k) == 1 + ((n + k) % len)
        Ahead(i) == /\ Weighted(backends)
                    /\ (n + 1) * backends[i].weight
                          < (backends[i].weight \div len) + placed[i] * Total(backends)
        due == {k \in 0..(len - 1) : ~Ahead(At(k))}
    IN At(CHOOSE k \in due : \A j \in due : k <= j)

\* One round: the backend's next entry that is free.
PlaceFixed(b, from, entries) == from
Place(b, from, entries) ==
    CHOOSE k \in from..(from + Size) :
        /\ entries[PermutationSlot(b, k)] = 0
        /\ \A j \in from..(k - 1) : entries[PermutationSlot(b, j)] # 0

Round(backends, acc, n) ==
    LET i == Turn(backends, acc.placed, n)
        k == Place(backends[i], acc.next[i], acc.entries)
    IN [entries |-> [acc.entries EXCEPT ![PermutationSlot(backends[i], k)] = i],
        next    |-> [acc.next EXCEPT ![i] = k + 1],
        placed  |-> [acc.placed EXCEPT ![i] = @ + 1]]

\* table(): which backend (by its place in the order of hash strings) each
\* entry names.
MaglevTable(backends) ==
    FoldLeft(LAMBDA acc, n : Round(backends, acc, n),
             [entries |-> [e \in 0..(Size - 1) |-> 0],
              next |-> [i \in DOMAIN backends |-> 0],
              placed |-> [i \in DOMAIN backends |-> 0]],
             [n \in 1..Size |-> n - 1]).entries
------------------------------------------------------------------------------
\* For every hash the table is full and fair: each backend has its weight's
\* share of the entries, to within one entry.
TableIsFair(backends) ==
    LET t == MaglevTable(backends)
        count(i) == Cardinality({e \in DOMAIN t : t[e] = i})
        total == Total(backends)
        weight(i) == IF Weighted(backends) THEN backends[i].weight * Len(backends)
                     ELSE total
    IN /\ \A e \in DOMAIN t : t[e] \in DOMAIN backends
       /\ \A i \in DOMAIN backends :
            /\ count(i) * total * Len(backends) < weight(i) * Size + total * Len(backends)
            /\ count(i) * total * Len(backends) + total * Len(backends) > weight(i) * Size
==============================================================================
