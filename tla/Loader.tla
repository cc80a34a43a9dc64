------------------------------- MODULE Loader -------------------------------
(***************************************************************************)
(* The programs an agent attaches beside the endpoints' own (bpf-loader,   *)
(* socket_lb.rs and kernel.rs; agent, kubernetes_controller.rs): the       *)
(* socket load balancer's cgroup programs, whose maps and links are pinned *)
(* and outlive the agent, and on every uplink the NodePort programs and    *)
(* the host firewall, whose links end with their owner.                    *)
(*                                                                         *)
(* A link is the generation (start) of the agent that made it.  It is      *)
(* attached while a pin or an open descriptor refers to it; the kernel     *)
(* runs the programs of a TCX hook in the order of its list.               *)
(***************************************************************************)
EXTENDS Integers, Sequences, FiniteSets, SequencesExt

CONSTANTS
    Programs,     \* PROGRAMS, in order
    MapNames,     \* MAPS, in order
    Layouts,      \* what an agent's object may expect of a map
    Interfaces,
    MaxStarts,    \* bound: starts of the agent
    MaxFaults     \* bound: refused system calls

Directions == {"ingress", "egress"}
None == 0

VARIABLES
    maps,      \* name -> layout of the pinned map, or None
    pinned,    \* program -> link pinned for it, or None
    held,      \* program -> links the agent holds a descriptor of
    chain,     \* interface -> direction -> programs in order
    uplinks,   \* SocketLb::uplinks
    hosts,     \* LocalDelivery::hosts
    layout,    \* what this agent's object expects
    pc, at,    \* the agent's step, and the program or map it is at
    starts, faults,
    served,    \* programs that were attached for good once
    torn       \* programs whose old pin is gone and whose new one never came
vars == <<maps, pinned, held, chain, uplinks, hosts, layout, pc, at, starts, faults, served, torn>>
tcx == <<chain, uplinks, hosts>>
------------------------------------------------------------------------------
Fault == faults < MaxFaults /\ faults' = faults + 1
Attached(p) == (held[p] \cup {pinned[p]}) \ {None}
Mine == starts
P == Programs[at]
Bare(c) == [i \in Interfaces |-> [d \in Directions |-> SelectSeq(c[i][d], LAMBDA x : x = "foreign")]]

\* SocketLb is dropped: unpinned links go with their descriptors.  The
\* service thread is not started; the agent runs without load balancing.
Drops(next) == held' = [p \in ToSet(Programs) |-> {}] /\ pc' = next
\* load: every map pinned here must have the layout of the object.
Load ==
    /\ pc = "off" /\ starts < MaxStarts /\ starts' = starts + 1
    /\ \E l \in Layouts :
         /\ layout' = l /\ at' = 1
         /\ pc' = IF \A m \in DOMAIN maps : maps[m] \in {None, l} THEN "maps" ELSE "without"
    /\ UNCHANGED <<maps, pinned, held, tcx, faults, served, torn>>
\* The loader opens a pinned map, or creates one and pins it.
PinMap ==
    LET m == MapNames[at] IN
    /\ pc = "maps"
    /\ \/ /\ maps' = [maps EXCEPT ![m] = IF @ = None THEN layout ELSE @]
          /\ IF at < Len(MapNames) THEN at' = at + 1 /\ UNCHANGED pc
             ELSE at' = 1 /\ pc' = "attach"
          /\ UNCHANGED faults
       \/ Fault /\ pc' = "without" /\ UNCHANGED <<maps, at>>
    /\ UNCHANGED <<pinned, held, tcx, layout, starts, served, torn>>

AttachAfterRelease ==
    /\ pc = "attach"
    /\ \/ /\ held' = [held EXCEPT ![P] = @ \cup {Mine}] /\ pc' = "pin"
          /\ pinned' = [pinned EXCEPT ![P] = None] /\ UNCHANGED faults
       \/ Fault /\ pinned' = [pinned EXCEPT ![P] = None] /\ Drops("without")
    /\ UNCHANGED <<maps, tcx, layout, at, starts, served, torn>>
\* attach: the new link beside the old one.
AttachNew ==
    /\ pc = "attach"
    /\ \/ /\ held' = [held EXCEPT ![P] = @ \cup {Mine}] /\ pc' = "open" /\ UNCHANGED faults
       \/ Fault /\ Drops("without")
    /\ UNCHANGED <<maps, pinned, tcx, layout, at, starts, served, torn>>
\* The old link's pin is opened, ...
OpenOld ==
    /\ pc = "open"
    /\ \/ /\ pinned[P] # None /\ held' = [held EXCEPT ![P] = @ \cup {pinned[P]}]
          /\ pc' = "unlink" /\ UNCHANGED faults
       \/ pinned[P] = None /\ pc' = "pin" /\ UNCHANGED <<held, faults>>
       \/ Fault /\ Drops("without")
    /\ UNCHANGED <<maps, pinned, tcx, layout, at, starts, served, torn>>
\* ... removed, and its descriptor closed.
Unlink ==
    /\ pc = "unlink"
    /\ \/ /\ held' = [held EXCEPT ![P] = @ \ {pinned[P]}]
          /\ pinned' = [pinned EXCEPT ![P] = None]
          /\ pc' = "pin" /\ UNCHANGED faults
       \/ Fault /\ Drops("without") /\ UNCHANGED pinned
    /\ UNCHANGED <<maps, tcx, layout, at, starts, served, torn>>
Torn == torn' = IF pinned[P] = None /\ pc = "pin" THEN torn \cup {P} ELSE torn
Pin ==
    /\ pc = "pin"
    /\ \/ /\ pinned' = [pinned EXCEPT ![P] = Mine] /\ torn' = torn \ {P} /\ served' = served \cup {P}
          /\ IF at < Len(Programs) THEN at' = at + 1 /\ pc' = "attach"
             ELSE at' = 1 /\ pc' = "run"
          /\ UNCHANGED <<held, faults>>
       \/ Fault /\ Drops("without") /\ Torn /\ UNCHANGED <<pinned, at, served>>
    /\ UNCHANGED <<maps, tcx, layout, starts>>
------------------------------------------------------------------------------
(* The uplinks: two programs each, both or none.                           *)

Nodeport == "nodeport"
Firewall == "firewall"
Off(hook, x) == [d \in Directions |-> SelectSeq(hook[d], LAMBDA y : y # x)]
UplinkLast(hook) == [d \in Directions |-> Append(hook[d], Nodeport)]
\* attach_uplink with LinkOrder::first, attach_host with LinkOrder::last.
Uplink(hook) == [d \in Directions |-> <<Nodeport>> \o hook[d]]
Host(hook) == [d \in Directions |-> Append(hook[d], Firewall)]

\* attach_uplinks: stale ones are detached, then the wanted attached until
\* one fails; a second program that fails takes the first with it.
AttachUplinks ==
    /\ pc = "run"
    /\ \E want \in SUBSET Interfaces :
         \E done \in {d \in SUBSET want : want \cap uplinks \subseteq d} :
           LET stale == uplinks \ want
               new == done \ uplinks
               cut == [i \in Interfaces |-> IF i \in stale THEN Off(chain[i], Nodeport) ELSE chain[i]]
           IN /\ uplinks' = (uplinks \ stale) \cup new
              /\ chain' = [i \in Interfaces |-> IF i \in new THEN Uplink(cut[i]) ELSE cut[i]]
              /\ IF done = want THEN UNCHANGED faults ELSE Fault
    /\ UNCHANGED <<maps, pinned, held, hosts, layout, pc, at, starts, served, torn>>
\* sync_host_firewall: each interface on its own; a failed one waits for the
\* next second.
SyncHostFirewall ==
    /\ pc \in {"run", "without"}
    /\ \E want \in SUBSET Interfaces :
         \E done \in {d \in SUBSET want : want \cap hosts \subseteq d} :
           LET stale == hosts \ want
               new == done \ hosts
               cut == [i \in Interfaces |-> IF i \in stale THEN Off(chain[i], Firewall) ELSE chain[i]]
           IN /\ hosts' = (hosts \ stale) \cup new
              /\ chain' = [i \in Interfaces |-> IF i \in new THEN Host(cut[i]) ELSE cut[i]]
              /\ IF done = want THEN UNCHANGED faults ELSE Fault
    /\ UNCHANGED <<maps, pinned, held, uplinks, layout, pc, at, starts, served, torn>>

\* The agent stops or dies: descriptors close, what is not pinned detaches.
Exit ==
    /\ pc # "off" /\ Drops("off")
    /\ Torn /\ at' = 1
    /\ uplinks' = {} /\ hosts' = {} /\ chain' = Bare(chain)
    /\ UNCHANGED <<maps, pinned, layout, starts, faults, served>>
\* Another program attaches at either end of a hook.
Foreign ==
    /\ \E i \in Interfaces, d \in Directions :
         /\ "foreign" \notin ToSet(chain[i][d])
         /\ \E c \in {<<"foreign">> \o chain[i][d], Append(chain[i][d], "foreign")} :
              chain' = [chain EXCEPT ![i][d] = c]
    /\ UNCHANGED <<maps, pinned, held, uplinks, hosts, layout, pc, at, starts, faults, served, torn>>

Init ==
    /\ maps = [m \in ToSet(MapNames) |-> None]
    /\ pinned = [p \in ToSet(Programs) |-> None] /\ held = [p \in ToSet(Programs) |-> {}]
    /\ chain = [i \in Interfaces |-> [d \in Directions |-> <<>>]]
    /\ uplinks = {} /\ hosts = {} /\ layout \in Layouts /\ pc = "off" /\ at = 1
    /\ starts = 0 /\ faults = 0 /\ served = {} /\ torn = {}
Next ==
    \/ Load \/ PinMap \/ AttachNew \/ OpenOld \/ Unlink \/ Pin
    \/ AttachUplinks \/ SyncHostFirewall \/ Exit \/ Foreign
------------------------------------------------------------------------------
\* A program once attached stays attached through every restart, upgrade,
\* refused start and failed call ("the new owner attaches before it releases
\* the old links"), unless the agent died or the pin failed in the one step
\* between the old link's pin and the new one's; a complete start leaves
\* exactly the new owner's link on every program.
StaysAttached ==
    /\ \A p \in served : Attached(p) # {} \/ p \in torn
    /\ pc = "run" => \A p \in ToSet(Programs) : Attached(p) = {Mine}

\* What comes in is translated before the host firewall judges it, in
\* whichever order the two were attached and whatever else is on the hook.
TranslatedBeforeJudged ==
    \A i \in Interfaces, d \in Directions :
        LET c == chain[i][d]
        IN \A m, n \in DOMAIN c : c[m] = Nodeport /\ c[n] = Firewall => m < n
==============================================================================
