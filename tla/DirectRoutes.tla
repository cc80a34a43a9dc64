---------------------------- MODULE DirectRoutes ----------------------------
(***************************************************************************)
(* Direct routes to the other nodes' pod CIDRs: which ones are wanted      *)
(* (desired_routes and alloc_cidr of flowsdn-agent/src/kubernetes.rs) and  *)
(* the route_loop of kubernetes_controller.rs, which owns them in the      *)
(* kernel's main table and in direct-routes.json.  The process may be      *)
(* killed between any two of its system calls.                             *)
(*                                                                         *)
(* A CIDR is its family and its addresses, an IP its family and a name.  A *)
(* route is <<CIDR, gateway>>; the kernel keeps one per CIDR, of some      *)
(* protocol.                                                               *)
(***************************************************************************)
EXTENDS Naturals, FiniteSets, Sequences, SequencesExt

CONSTANTS
    LocalNode,
    Clusters,     \* the node lists the watch may show: name -> [cidrs, ips]
    Derived(_, _),   \* family, IP or v4 CIDR -> the CIDR derived from it
    Derive,       \* the families (v6 or not) of which this agent's pool is `auto`
    Reachables,   \* the sets of gateways this node may reach on a link
    MaxLists,     \* bound: node lists shown
    MaxFaults     \* bound: failed calls and crashes

VARIABLES
    nodes,       \* the node list
    sent,        \* the routes last sent to the loop
    desired,     \* what the loop last received
    installed,   \* its own routes, in memory
    file,        \* and on disk
    kernel,      \* CIDR -> [via, ours]: the main table
    step,        \* where a pass is: idle, delete, install, replace, save
    todo,        \* the routes still to delete or install
    now,         \* the route about to be installed
    reachable,   \* gateways this node reaches without a gateway
    unrecorded,  \* history: routes whose record was refused or unreadable
    lists, faults
vars == <<nodes, sent, desired, installed, file, kernel, step, todo, now,
          reachable, unrecorded, lists, faults>>

Nothing == {"nothing"}
------------------------------------------------------------------------------
(* desired_routes *)

FirstOf(list, v6) ==
    LET those == SelectSeq(list, LAMBDA x : x.v6 = v6)
    IN IF those = <<>> THEN {} ELSE {those[1]}

\* alloc_cidr: the node's own CIDR, else one derived from its v4 address; for
\* v6 from its v4 CIDR, else from its v6 address.
AllocV4(n) == IF FirstOf(n.cidrs, FALSE) # {} THEN FirstOf(n.cidrs, FALSE)
              ELSE {Derived(FALSE, ip) : ip \in FirstOf(n.ips, FALSE)}
AllocCidr(n, v6) ==
    IF ~v6 THEN AllocV4(n)
    ELSE IF AllocV4(n) # {} THEN {Derived(TRUE, c) : c \in AllocV4(n)}
    ELSE {Derived(TRUE, ip) : ip \in FirstOf(n.ips, TRUE)}

\* node_cidrs: spec.podCIDRs, and a derived one for a family without.
NodeCidrs(n) == ToSet(n.cidrs) \cup
    UNION {AllocCidr(n, v6) : v6 \in {v6 \in Derive : FirstOf(n.cidrs, v6) = {}}}

Overlaps(a, b) == a.v6 = b.v6 /\ a.net \cap b.net # {}

\* A CIDR that shares an address with another node's is refused, for both.
Refused(cluster, name, cidr) ==
    \E other \in DOMAIN cluster \ {name} :
        \E c \in NodeCidrs(cluster[other]) : Overlaps(cidr, c)

\* Through the first InternalIP of the CIDR's family.
DesiredRoutes(cluster) ==
    UNION {UNION {{<<c, ip>> : ip \in FirstOf(cluster[n].ips, c.v6)} :
                    c \in {c \in NodeCidrs(cluster[n]) : ~Refused(cluster, n, c)}} :
             n \in DOMAIN cluster \ {LocalNode}}
------------------------------------------------------------------------------
\* The node watch publishes; the routes are sent only when they changed.
Publish ==
    /\ lists < MaxLists
    /\ lists' = lists + 1
    /\ nodes' \in Clusters
    /\ sent' = DesiredRoutes(nodes')
    /\ UNCHANGED <<desired, installed, file, kernel, step, todo, now, reachable, unrecorded,
                   faults>>

\* After a restart the list is the first one.
Relist ==
    /\ sent = Nothing /\ lists > 0
    /\ sent' = DesiredRoutes(nodes)
    /\ UNCHANGED <<nodes, desired, installed, file, kernel, step, todo, now,
                   reachable, unrecorded, lists, faults>>

\* A pass: the newest list, or the 30 s tick repeats the last one.  Nothing
\* is pruned before the first list.
Begin ==
    /\ step = "idle" /\ sent # Nothing
    /\ desired' = sent
    /\ todo' = installed \ sent
    /\ step' = "delete"
    /\ UNCHANGED <<nodes, sent, installed, file, kernel, now, reachable, unrecorded, lists,
                   faults>>

Has(r) == r[1] \in DOMAIN kernel /\ kernel[r[1]].ours /\ kernel[r[1]].via = r[2]
Fault == faults < MaxFaults /\ faults' = faults + 1

\* delete_gateway_route names the gateway; an absent route counts as deleted.
DeleteStale ==
    /\ step = "delete"
    /\ \E r \in todo :
         /\ todo' = todo \ {r}
         /\ \/ /\ kernel' = [c \in {c \in DOMAIN kernel : ~(c = r[1] /\ Has(r))} |-> kernel[c]]
               /\ installed' = installed \ {r}
               /\ UNCHANGED faults
            \/ Fault /\ UNCHANGED <<kernel, installed>>
    /\ UNCHANGED <<nodes, sent, desired, file, step, now, reachable, unrecorded, lists>>

\* Then the wanted routes, one after the other.
Deleted ==
    /\ step = "delete" /\ todo = {}
    /\ step' = "install" /\ todo' = desired
    /\ UNCHANGED <<nodes, sent, desired, installed, file, kernel, now, reachable, unrecorded,
                   lists, faults>>

\* install: the gateway must be on a link, the CIDR not another protocol's.
Allowed(r) == /\ r[2].name \in reachable
              /\ r[1] \in DOMAIN kernel => kernel[r[1]].ours
Refuse ==
    /\ step = "install"
    /\ \E r \in todo : ~Allowed(r) /\ todo' = todo \ {r}
    /\ UNCHANGED <<nodes, sent, desired, installed, file, kernel, step, now,
                   reachable, unrecorded, lists, faults>>

\* save_routes: all of `routes`, or an error and the file as it was.
Saved(routes) == file' = routes /\ unrecorded' = unrecorded \ routes

\* A route that is new to `installed` is saved before it is installed; when
\* the save fails it is not installed, but it stays in `installed`.
PersistNot(r) == UNCHANGED <<file, unrecorded>>
Persist(r) == IF r \in installed THEN UNCHANGED <<file, unrecorded>>
              ELSE Saved(installed \cup {r})
Record ==
    /\ step = "install"
    /\ \E r \in todo :
         /\ Allowed(r)
         /\ installed' = installed \cup {r}
         /\ todo' = todo \ {r}
         /\ \/ /\ Persist(r)
               /\ step' = "replace" /\ now' = r
               /\ UNCHANGED faults
            \/ /\ r \notin installed /\ Fault
               /\ unrecorded' = unrecorded \cup {r}
               /\ UNCHANGED <<file, step, now>>
    /\ UNCHANGED <<nodes, sent, desired, kernel, reachable, lists>>

\* replace_gateway_route: whatever route to the CIDR is there now.
Replace ==
    /\ step = "replace"
    /\ step' = "install"
    /\ \/ /\ kernel' = [c \in DOMAIN kernel \cup {now[1]} |->
                          IF c = now[1] THEN [via |-> now[2], ours |-> TRUE]
                          ELSE kernel[c]]
          /\ UNCHANGED faults
       \/ Fault /\ UNCHANGED kernel
    /\ UNCHANGED <<nodes, sent, desired, installed, file, todo, now, reachable, unrecorded,
                   lists>>

\* The pass ends with a save.
Save ==
    /\ step = "install" /\ todo = {}
    /\ step' = "idle"
    /\ \/ Saved(installed) /\ UNCHANGED faults
       \/ Fault /\ UNCHANGED <<file, unrecorded>>
    /\ UNCHANGED <<nodes, sent, desired, installed, kernel, todo, now, reachable,
                   lists>>

\* The process dies at any point; load_routes reads what it saved, and an
\* unreadable file counts as empty.
Crash ==
    /\ Fault
    /\ \/ installed' = file /\ UNCHANGED unrecorded
       \/ installed' = {} /\ unrecorded' = unrecorded \cup file
    /\ sent' = Nothing /\ desired' = Nothing
    /\ step' = "idle" /\ todo' = {}
    /\ UNCHANGED <<nodes, file, kernel, now, reachable, lists>>

\* Another program adds or removes a route of another protocol (external).
Admin ==
    /\ Fault
    /\ \E c \in UNION {NodeCidrs(nodes[n]) : n \in DOMAIN nodes} :
         \/ /\ c \notin DOMAIN kernel
            /\ kernel' = [d \in DOMAIN kernel \cup {c} |->
                            IF d = c THEN [via |-> "admin", ours |-> FALSE]
                            ELSE kernel[d]]
         \/ /\ c \in DOMAIN kernel /\ ~kernel[c].ours
            /\ kernel' = [d \in DOMAIN kernel \ {c} |-> kernel[d]]
    /\ UNCHANGED <<nodes, sent, desired, installed, file, step, todo, now,
                   reachable, unrecorded, lists>>
------------------------------------------------------------------------------
Init ==
    /\ nodes \in Clusters
    /\ sent = Nothing /\ desired = Nothing
    /\ installed = {} /\ file = {}
    /\ kernel = [c \in {} |-> 0]
    /\ step = "idle" /\ todo = {} /\ now = <<>>
    /\ reachable \in Reachables
    /\ unrecorded = {}
    /\ lists = 0 /\ faults = 0

Loop == Begin \/ DeleteStale \/ Deleted \/ Refuse \/ Record \/ Replace \/ Save
Next == Loop \/ Publish \/ Relist \/ Crash \/ Admin
------------------------------------------------------------------------------
\* Every route of the agent's in the kernel is in the file, so that whatever
\* moment the process dies at, its successor knows which ones to prune; only
\* a route whose own save failed, or a file that was unreadable at a start,
\* is exempt, and only until a save holds the route again.
OwnedAreRecorded ==
    \A c \in DOMAIN kernel : kernel[c].ours => <<c, kernel[c].via>> \in file \cup unrecorded

\* When the nodes stop changing and calls stop failing, a pod address leads
\* to the node that owns it - or nowhere, when two nodes claim its CIDR, when
\* the node is not directly reachable or when the CIDR has someone else's
\* route.  A route whose record was lost may be left behind.
Owners(c) == {n \in DOMAIN nodes : c \in NodeCidrs(nodes[n])}
Claimed(c) == {n \in DOMAIN nodes : \E d \in NodeCidrs(nodes[n]) : Overlaps(c, d)}
Proper(c, via) == \E n \in Owners(c) : /\ Claimed(c) = {n} /\ n # LocalNode
                                       /\ via \in FirstOf(nodes[n].ips, c.v6)
                                       /\ via.name \in reachable
RoutesReachOwners ==
    <>[](lists > 0 =>
           /\ \A c \in DOMAIN kernel : kernel[c].ours =>
                Proper(c, kernel[c].via) \/ <<c, kernel[c].via>> \in unrecorded
           /\ \A n \in DOMAIN nodes : \A c \in NodeCidrs(nodes[n]) :
                (\E via \in ToSet(nodes[n].ips) : Proper(c, via)) => c \in DOMAIN kernel)
==============================================================================
