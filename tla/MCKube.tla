------------------------------- MODULE MCKube -------------------------------
(* The agent's Kubernetes side for TLC: one behaviour is of one part, the   *)
(* list and watch of a kind (watch), the direct routes (routes), the        *)
(* identities of two nodes (identities) or a Pod's annotations.             *)
EXTENDS Naturals, FiniteSets, Sequences, TLC

CONSTANTS Parts, MaxVersion, MaxFaults, MaxLists, MaxEvents

VARIABLES part,
    log, compacted, limit, phase, listing, table, rv, needsRelist, initialized,
    view, error, cursor,
    nodes, sent, desired, installed, file, kernel, step, left, now, reachable,
    unrecorded, lists, faults,
    objects, listed, local, held, waiting, todo, created, events,
    pod, seen, endpoints, published, tried, passing, lost

\* Two Pods, well formed or with an odd address list.
W == INSTANCE ListWatch WITH Kind <- "Pods", KeySeq <- <<"a", "b">>,
        Variants <- {{}, {"podIPs"}}, Limits <- {1, 2}

\* Nodes that claim CIDRs alone, together, and none (derived from g1 and g2,
\* which both give C1); one has a v6 address, so its derived v6 CIDR is routed.
V4(net) == [v6 |-> FALSE, net |-> net]
C1 == V4({1, 2})
C2 == V4({3})
C3 == V4({2, 3})
G(name) == [v6 |-> FALSE, name |-> name]
G6(name) == [v6 |-> TRUE, name |-> name]
NodeOf(cidrs, ips) == [cidrs |-> cidrs, ips |-> ips]
MCClusters ==
    {("n0" :> NodeOf(<<>>, <<G("g0")>>)) @@ ("n1" :> NodeOf(<<C1>>, <<G("g1"), G("g2")>>))
        @@ ("n2" :> NodeOf(<<C2>>, <<G6("h2"), G("g2")>>)),
     ("n0" :> NodeOf(<<>>, <<G("g0")>>)) @@ ("n1" :> NodeOf(<<C3>>, <<G("g1")>>))
        @@ ("n2" :> NodeOf(<<C2>>, <<G("g2")>>)),
     ("n0" :> NodeOf(<<C2>>, <<G("g0")>>)) @@ ("n1" :> NodeOf(<<>>, <<G("g1")>>))
        @@ ("n2" :> NodeOf(<<C3>>, <<G("g2")>>))}
MCDerived(v6, x) ==
    IF v6 THEN [v6 |-> TRUE, net |-> {CHOOSE a \in x.net : \A b \in x.net : a <= b}]
    ELSE IF x.name = "g0" THEN V4({9}) ELSE C1
D == INSTANCE DirectRoutes WITH LocalNode <- "n0", Clusters <- MCClusters,
        Derived <- MCDerived, Derive <- BOOLEAN,
        Reachables <- {{"g1"}, {"g1", "g2", "h2"}}, todo <- left,
        MaxFaults <- MaxFaults + 1

\* Two nodes with Pods of one label set; Pods of a second one, and of a
\* well-known one, may come.
I == INSTANCE Identities WITH Agents <- {"x", "y"}, KeySeq <- <<"k0", "k1", "k2">>,
        WellKnown <- {"k0"}, Ids <- {0, 1, 2},
        StartPods <- [x |-> {"k1"}, y |-> {"k1"}]

A == INSTANCE Annotations WITH Plugins <- {7, 8}, MaxEvents <- MaxEvents + 2

wvars == <<log, compacted, limit, phase, listing, table, rv, needsRelist,
           initialized, view, error, cursor>>
rvars == <<nodes, sent, desired, installed, file, kernel, step, left, now,
           reachable, unrecorded, lists>>
ivars == <<objects, listed, local, held, waiting, todo, created>>
avars == <<pod, seen, endpoints, published, tried, passing, lost>>
vars == <<part, wvars, rvars, ivars, avars, faults, events>>

Init ==
    /\ part \in Parts
    /\ W!Init /\ D!Init /\ I!Init /\ A!Init
    /\ part # "watch" => limit = 1
    /\ part # "routes" => reachable = {"g1"} /\ nodes = CHOOSE c \in MCClusters : TRUE
    /\ part # "annotations" => endpoints[1] = ""

WatchStep == part = "watch" /\ W!Next /\ UNCHANGED <<part, rvars, ivars, avars, events>>
RouteStep == part = "routes" /\ D!Next /\ UNCHANGED <<part, wvars, ivars, avars, events>>
IdentityStep == part = "identities" /\ I!Next /\ UNCHANGED <<part, wvars, rvars, avars, faults>>
AnnotationStep == part = "annotations" /\ A!Next /\ UNCHANGED <<part, wvars, rvars, ivars, faults>>
Next == WatchStep \/ RouteStep \/ IdentityStep \/ AnnotationStep

\* Threads run on, timers fire and an open watch delivers.  A pass of the
\* identity loop and the sending of its next write are named by what they do
\* to `waiting` and `todo`, which no other action does.
Fairness ==
    /\ WF_wvars(part = "watch" /\ W!Client)
    /\ WF_sent(part = "routes" /\ D!Relist) /\ WF_step(part = "routes" /\ D!Begin)
    /\ WF_left(part = "routes" /\ D!DeleteStale) /\ WF_step(part = "routes" /\ D!Deleted)
    /\ WF_rvars(part = "routes" /\ (D!Refuse \/ D!Record))
    /\ WF_rvars(part = "routes" /\ D!Replace) /\ WF_rvars(part = "routes" /\ D!Save)
    /\ \A a \in {"x", "y"} :
         /\ WF_waiting(part = "identities" /\ waiting' = waiting \ {a})
         /\ WF_todo(part = "identities" /\ todo[a] # <<>>
                      /\ todo' = [todo EXCEPT ![a] = Tail(@)])
         /\ WF_waiting(part = "identities" /\ I!Sent(a))
         /\ WF_listed(part = "identities" /\ I!Refresh(a))
    /\ WF_seen(part = "annotations" /\ A!Refresh)
    /\ WF_published(part = "annotations" /\ A!Publish)
    /\ WF_passing(part = "annotations" /\ A!Tick)
    /\ WF_passing(part = "annotations" /\ (A!Write \/ A!Send))
    /\ WF_tried(part = "annotations" /\ A!Forget)
Spec == Init /\ [][Next]_vars /\ Fairness
------------------------------------------------------------------------------
\* The view is one version of the cluster, whatever pages, events and broken
\* watches it was put together from (stage_page, apply_event).
ViewIsAVersion == part = "watch" => W!ViewIsAVersion
\* A route in the kernel is on disk before it is there (install), unless its
\* record could not be written or read, and another plugin's network-status
\* entry is never lost (AnnotationPatch::body).
OwnersRespected == D!OwnedAreRecorded /\ A!OthersEntriesKept
\* The view becomes the cluster when requests stop failing (watch_forever);
\* Pod addresses come to lead to the node that owns them (route_loop,
\* desired_routes); every local Pod comes to have an identity that exists
\* (identity_loop); the annotations come to say what the endpoint is
\* (annotation_loop).
AgentCatchesUp ==
    /\ part = "watch" => W!ViewCatchesUp
    /\ part = "routes" => D!RoutesReachOwners
    /\ part = "identities" => I!EveryPodIdentified
    /\ part = "annotations" => A!AnnotationsConverge
==============================================================================
