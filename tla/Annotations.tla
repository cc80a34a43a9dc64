---------------------------- MODULE Annotations ----------------------------
(***************************************************************************)
(* The annotations of one local Pod name: annotation_loop of               *)
(* flowsdn-agent/src/kubernetes_controller.rs writes flowsdn's pod-networks *)
(* value and merges its entry into network-status, which Multus writes     *)
(* too.  The Pod may be recreated, its endpoint replaced, the value edited *)
(* or removed; the list the loop works from may be old.                    *)
(***************************************************************************)
EXTENDS Naturals, Sequences, FiniteSets, SequencesExt, FiniteSetsExt

CONSTANTS
    Plugins,       \* the entries other plugins may write
    MaxEvents      \* bound: writes of others, recreations, lost requests

(* An endpoint is its number; the values derived from it (pod_networks and *)
(* network_status_entry of tagging.rs) are that number too.                *)
VARIABLES
    pod,        \* the Pod of the API server
    seen,       \* the Pod the watch has shown last
    endpoints,  \* number -> the uid it was created for ("" when unknown)
    published,  \* the two lists are complete
    tried,      \* the values tried lately
    passing,    \* the loop is at work
    events,
    lost        \* entries of other plugins that a write of ours removed
vars == <<pod, seen, endpoints, published, tried, passing, events, lost>>

None == 0
Pod(uid, version) == [uid |-> uid, version |-> version, networks |-> None,
                      status |-> <<>>, list |-> TRUE, oversized |-> FALSE]
------------------------------------------------------------------------------
(* The writes that bring the Pod up to date. *)

NetworkStatusLast(current, entry) ==
    Append(SelectSeq(IF current.list THEN current.status ELSE <<>>,
                     LAMBDA e : e \in Plugins), entry)
\* tagging::network_status: ours first, the entries of others kept; a value
\* that is no list is replaced.
NetworkStatus(current, entry) ==
    <<entry>> \o SelectSeq(IF current.list THEN current.status ELSE <<>>,
                           LAMBDA e : e \in Plugins)

\* local_pod: the same uid when both are known.
Mine(p, e) == endpoints[e] \in {"", p.uid}

\* annotation_patches: the newest endpoint, and what differs.
Patches ==
    IF ~published \/ DOMAIN endpoints = {} THEN {}
    ELSE LET e == Max(DOMAIN endpoints)
             wanted == NetworkStatus(seen, e)
             networks == seen.networks # e
             status == ~seen.oversized /\ (~seen.list \/ seen.status # wanted)
         IN IF ~Mine(seen, e) \/ ~(networks \/ status) THEN {}
            ELSE {[uid |-> IF endpoints[e] = "" THEN seen.uid ELSE endpoints[e],
                   version |-> seen.version,
                   networks |-> IF networks THEN <<e>> ELSE <<>>,
                   status |-> IF status THEN <<wanted>> ELSE <<>>]}

ConditionUid(p) == p.uid = pod.uid
\* AnnotationPatch::body: the uid is a precondition of every write, the
\* version one of a network-status write.
Condition(p) == /\ p.uid = pod.uid
                /\ p.status # <<>> => p.version = pod.version

Text(p) == <<p.networks, p.status>>
\* The server: a patch that changes nothing makes no new version.
Patched(p) ==
    LET new == [pod EXCEPT
                  !.networks = IF p.networks = <<>> THEN @ ELSE p.networks[1],
                  !.status = IF p.status = <<>> THEN @ ELSE p.status[1],
                  !.list = @ \/ p.status # <<>>]
    IN IF new = pod THEN pod ELSE [new EXCEPT !.version = @ + 1]

\* One tick of annotation_loop: what was not tried lately is sent; a failed
\* precondition lets it be tried again at once.
Write ==
    /\ passing /\ passing' = FALSE
    /\ \A p \in Patches : Text(p) \in tried
    /\ UNCHANGED <<pod, seen, endpoints, published, tried, events, lost>>
Send ==
    /\ passing /\ passing' = FALSE
    /\ \E p \in Patches :
         /\ Text(p) \notin tried
         /\ \/ /\ Condition(p)
               /\ pod' = Patched(p) /\ tried' = {Text(p)}
               /\ lost' = lost \cup ((ToSet(pod.status) \cap Plugins)
                                       \ ToSet(pod'.status))
               /\ UNCHANGED events
            \/ /\ ~Condition(p) /\ tried' = {}
               /\ UNCHANGED <<pod, events, lost>>
            \/ /\ events < MaxEvents /\ events' = events + 1
               /\ tried' = {Text(p)}
               /\ UNCHANGED <<pod, lost>>
    /\ UNCHANGED <<seen, endpoints, published>>
Tick ==
    /\ ~passing /\ passing' = TRUE
    /\ UNCHANGED <<pod, seen, endpoints, published, tried, events, lost>>
\* ANNOTATE_RETRY has gone by.
Forget ==
    /\ tried # {} /\ tried' = {}
    /\ UNCHANGED <<pod, seen, endpoints, published, passing, events, lost>>
------------------------------------------------------------------------------
(* Everyone else. *)

Refresh ==
    /\ seen # pod /\ seen' = pod
    /\ UNCHANGED <<pod, endpoints, published, tried, passing, events, lost>>
Publish ==
    /\ ~published /\ published' = TRUE
    /\ UNCHANGED <<pod, seen, endpoints, tried, passing, events, lost>>

Event == events < MaxEvents /\ events' = events + 1
\* Another plugin adds its entry; someone edits or removes ours, or writes
\* what is no list or too large to be kept.
Others ==
    /\ Event
    /\ \/ \E e \in Plugins \ ToSet(pod.status) :
            pod' = [pod EXCEPT !.status = IF pod.list THEN Append(@, e) ELSE <<e>>,
                               !.list = TRUE, !.version = @ + 1]
       \/ pod' = [pod EXCEPT !.networks = None, !.version = @ + 1,
                             !.status = SelectSeq(@, LAMBDA e : e \in Plugins)]
       \/ pod' = [pod EXCEPT !.list = FALSE, !.status = <<>>, !.version = @ + 1]
       \/ pod' = [pod EXCEPT !.oversized = ~@, !.version = @ + 1]
    /\ UNCHANGED <<seen, endpoints, published, tried, passing, lost>>
\* The Pod is deleted and created again under its name; its sandbox is
\* created: the endpoint of the next number.
Recreate ==
    /\ Event /\ pod.uid = "u1"
    /\ pod' = Pod("u2", pod.version + 1)
    /\ UNCHANGED <<seen, endpoints, published, tried, passing, lost>>
Sandbox ==
    /\ Event
    /\ \E uid \in {"", pod.uid} :
         endpoints' = [e \in DOMAIN endpoints \cup {Cardinality(DOMAIN endpoints) + 1}
                         |-> IF e \in DOMAIN endpoints THEN endpoints[e] ELSE uid]
    /\ UNCHANGED <<pod, seen, published, tried, passing, lost>>
------------------------------------------------------------------------------
Init ==
    /\ pod = Pod("u1", 1) /\ seen = pod
    /\ endpoints \in {[e \in {1} |-> uid] : uid \in {"", "u1"}}
    /\ published = FALSE /\ tried = {} /\ passing = FALSE
    /\ events = 0 /\ lost = {}

Next == Write \/ Send \/ Tick \/ Forget \/ Refresh \/ Publish
        \/ Others \/ Recreate \/ Sandbox
------------------------------------------------------------------------------
\* A write of ours never removes another plugin's network-status entry,
\* however old the list it was computed from.
OthersEntriesKept == lost = {}

\* When the others stop writing, the Pod carries the newest endpoint that is
\* its own in both annotations, unless the value is too large to merge into.
AnnotationsConverge ==
    <>[](LET e == Max(DOMAIN endpoints)
         IN Mine(pod, e) =>
              /\ pod.networks = e
              /\ pod.oversized \/ (pod.list /\ pod.status # <<>> /\ pod.status[1] = e))
==============================================================================
