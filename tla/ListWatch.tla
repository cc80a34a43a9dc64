----------------------------- MODULE ListWatch -----------------------------
(***************************************************************************)
(* One kind of Kubernetes object followed by list and watch: WatchState of *)
(* flowsdn-k8s/src/watch.rs and the agent's watch_forever, cycle and       *)
(* relist.  The API server is external: a history of changes whose length  *)
(* is the resourceVersion, that forgets its beginning (compaction), pages  *)
(* its lists, and may break, end or refuse any request.                    *)
(*                                                                         *)
(* An object is the set of its fields, each well formed or "odd" (of       *)
(* another type, or text that does not parse).                             *)
(***************************************************************************)
EXTENDS Naturals, Sequences, FiniteSets, SequencesExt

CONSTANTS
    Kind,        \* the Scope that is followed
    KeySeq,      \* the object names in the order of a list
    Variants,    \* the sets of odd fields an object may have
    Limits,      \* values of Limits::max_objects
    MaxVersion,  \* bound: changes at the server
    MaxFaults    \* bound: broken requests

VARIABLES
    log,          \* the server's history
    compacted,    \* versions up to this one are forgotten
    limit,        \* max_objects
    phase,        \* what the loop does next: cycle, page, open, frame, wait
    listing,      \* the staged list, or NoListing
    table,        \* key -> row
    rv,           \* resource_version
    needsRelist, initialized,
    view,         \* what was published
    error,        \* the view reports an error for this part
    cursor,       \* how far the open watch has sent the history
    faults
vars == <<log, compacted, limit, phase, listing, table, rv, needsRelist,
          initialized, view, error, cursor, faults>>

Keys == ToSet(KeySeq)
NoRows == [k \in {} |-> 0]
NoListing == [rows |-> NoRows, version |-> 0, next |-> 0]
------------------------------------------------------------------------------
(* Scope::parse: an odd required or strict field fails the object; an odd  *)
(* informational one is left out of the row.                               *)

MetadataFields == {"name", "uid", "resourceVersion"}
NodeFields == {"podCIDRs", "addresses", "labels"}
PodFields == {"nodeName", "hostNetwork", "podIPs", "serviceAccountName", "labels"}
ServiceFields == {"clusterIPs type", "port", "nodePort", "sessionAffinity",
                  "trafficPolicy"}
SliceFields == {"addressType", "addresses", "conditions", "nodeName", "port"}
IdentityFields == {"numeric name", "security-labels", "creationTimestamp"}

Strict ==
    MetadataFields \cup
    CASE Kind = "Nodes"          -> NodeFields
      [] Kind = "Pods"           -> PodFields
      [] Kind = "Services"       -> ServiceFields
      [] Kind = "EndpointSlices" -> SliceFields
      [] Kind = "Namespaces"     -> {"labels"}
      [] Kind = "Identities"     -> IdentityFields
      [] OTHER                   -> {}    \* policies are kept whole

\* owner_references, named_ports, container_statuses and the annotations of a
\* Pod; addresses, algorithm and forwarding mode of a Service.
Informational ==
    CASE Kind = "Pods"     -> {"ownerReferences", "ports", "containerStatuses",
                               "annotations"}
      [] Kind = "Services" -> {"clusterIPs", "externalIPs", "ingress",
                               "lb-algorithm", "forwarding-mode", "timeoutSeconds"}
      [] OTHER             -> {}

Parses(o) == o.odd \cap Strict = {}
Row(o) == [uid |-> o.uid, at |-> o.at, without |-> o.odd \cap Informational]
------------------------------------------------------------------------------
(* The API server. *)

\* The objects at version v: each key's last change, unless it deleted it.
LastChange(k, v) == {i \in 1..v : log[i].key = k /\ \A j \in (i + 1)..v : log[j].key # k}
Live(v) == {k \in Keys : \E i \in LastChange(k, v) : log[i].type # "DELETED"}
Store(v) == [k \in Live(v) |-> LET i == CHOOSE i \in LastChange(k, v) : TRUE
                               IN log[i]]
Rows(objects) == [k \in DOMAIN objects |-> Row(objects[k])]

Change(e) ==
    /\ Len(log) < MaxVersion
    /\ log' = Append(log, e)
    /\ UNCHANGED <<compacted, limit, phase, listing, table, rv, needsRelist,
                   initialized, view, error, cursor, faults>>
Event(type, k, uid, odd) ==
    [type |-> type, key |-> k, uid |-> uid, odd |-> odd, at |-> Len(log) + 1]

Create(k, odd) == k \notin Live(Len(log)) /\ Change(Event("ADDED", k, Len(log) + 1, odd))
Modify(k, odd) == /\ k \in Live(Len(log))
                  /\ Change(Event("MODIFIED", k, Store(Len(log))[k].uid, odd))
Delete(k) == /\ k \in Live(Len(log))
             /\ Change(Event("DELETED", k, Store(Len(log))[k].uid, {}))
\* A change of another kind: only a bookmark shows it to this watch.
Elsewhere == Change(Event("OTHER", "-", 0, {}))

Compact ==
    /\ compacted < Len(log)
    /\ compacted' = Len(log)
    /\ UNCHANGED <<log, limit, phase, listing, table, rv, needsRelist,
                   initialized, view, error, cursor, faults>>
------------------------------------------------------------------------------
(* The agent. *)

FailedResumes ==
    /\ listing' = NoListing
    /\ error' = TRUE
    /\ phase' = "wait"
    /\ UNCHANGED <<log, compacted, limit, table, rv, needsRelist, initialized,
                   view, cursor>>
\* WatchState::failed and watch_forever's error arm: staging is dropped, the
\* table stays, and the loop sleeps before it lists again.
Failed ==
    /\ listing' = NoListing
    /\ needsRelist' = TRUE
    /\ error' = TRUE
    /\ phase' = "wait"
    /\ UNCHANGED <<log, compacted, limit, table, rv, initialized, view, cursor>>

\* cycle: list if need be, else watch on from the last version.
Cycle ==
    /\ phase = "cycle"
    /\ phase' = IF needsRelist THEN "page" ELSE "open"
    /\ UNCHANGED <<log, compacted, limit, listing, table, rv, needsRelist,
                   initialized, view, error, cursor, faults>>

ChangedNever(v) == FALSE
\* stage_page: the server's next page holds one object of version v.  The
\* first page is the newest; a later one is of the same version, but the
\* server may also answer from a newer one.
Changed(v) == listing.next > 0 /\ v # listing.version

ItemsOf(v) == SelectSeq(KeySeq, LAMBDA k : k \in Live(v))
PageVersions == {Len(log)} \cup IF listing.next > 0 THEN {listing.version} ELSE {}

Page ==
    /\ phase = "page"
    /\ \E v \in PageVersions :
         LET items == ItemsOf(v)
             n == listing.next + 1
             more == IF n <= Len(items)
                     THEN [k \in {items[n]} |-> Row(Store(v)[k])] ELSE NoRows
             rows == more @@ listing.rows
         IN IF \/ listing.next > 0 /\ v < compacted    \* the token expired
               \/ Changed(v)
               \/ Cardinality(DOMAIN rows) > limit
               \/ n <= Len(items) /\ ~Parses(Store(v)[items[n]])
            THEN Failed /\ UNCHANGED faults
            ELSE IF n < Len(items)
            THEN /\ listing' = [rows |-> rows, version |-> v, next |-> n]
                 /\ UNCHANGED <<log, compacted, limit, phase, table, rv,
                                needsRelist, initialized, view, error, cursor,
                                faults>>
            ELSE \* the list replaces the table, and is published
                 /\ table' = rows
                 /\ view' = table'
                 /\ rv' = v
                 /\ needsRelist' = FALSE
                 /\ initialized' = TRUE
                 /\ error' = FALSE
                 /\ listing' = NoListing
                 /\ phase' = "open"
                 /\ UNCHANGED <<log, compacted, limit, cursor, faults>>

\* client.watch from rv; a forgotten version is refused (410).
Open ==
    /\ phase = "open"
    /\ IF rv < compacted THEN Failed /\ UNCHANGED faults
       ELSE /\ cursor' = rv
            /\ phase' = "frame"
            /\ UNCHANGED <<log, compacted, limit, listing, table, rv,
                           needsRelist, initialized, view, error, faults>>

\* apply_event: one frame of the watch.
SameObject(k, uid) == k \in DOMAIN table /\ table[k].uid = uid

Without(f, k) == [x \in DOMAIN f \ {k} |-> f[x]]
With(f, k, r) == [x \in DOMAIN f \cup {k} |-> IF x = k THEN r ELSE f[x]]

Frame ==
    /\ phase = "frame"
    /\ cursor < Len(log)
    /\ cursor' = cursor + 1
    /\ LET e == log[cursor + 1]
           full == e.key \notin DOMAIN table /\ Cardinality(DOMAIN table) >= limit
       IN \/ \* nothing to send, or a bookmark
             /\ e.type = "OTHER"
             /\ rv' \in {rv, cursor + 1}
             /\ UNCHANGED <<phase, listing, table, needsRelist, view, error>>
          \/ /\ e.type \in {"ADDED", "MODIFIED"}
             /\ Parses(e) /\ ~full
             /\ table' = With(table, e.key, Row(e))
             /\ view' = table'
             /\ rv' = cursor + 1
             /\ UNCHANGED <<phase, listing, needsRelist, error>>
          \/ /\ e.type = "DELETED"
             /\ table' = IF SameObject(e.key, e.uid) THEN Without(table, e.key)
                         ELSE table
             /\ view' = table'
             /\ rv' = cursor + 1
             /\ UNCHANGED <<phase, listing, needsRelist, error>>
          \/ /\ e.type \in {"ADDED", "MODIFIED"}
             /\ ~Parses(e) \/ full
             /\ listing' = NoListing
             /\ needsRelist' = TRUE
             /\ error' = TRUE
             /\ phase' = "wait"
             /\ UNCHANGED <<table, rv, view>>
    /\ UNCHANGED <<log, compacted, limit, initialized, faults>>

\* The server ends the watch (its timeout): the next cycle resumes at rv.
Ended ==
    /\ phase = "frame"
    /\ faults < MaxFaults
    /\ faults' = faults + 1
    /\ phase' = "cycle"
    /\ UNCHANGED <<log, compacted, limit, listing, table, rv, needsRelist,
                   initialized, view, error, cursor>>

\* A request or a stream breaks, or an ERROR frame comes.
Breaks ==
    /\ phase \in {"page", "open", "frame"}
    /\ faults < MaxFaults
    /\ faults' = faults + 1
    /\ Failed

\* next_wait is over.
Retry ==
    /\ phase = "wait"
    /\ phase' = "cycle"
    /\ UNCHANGED <<log, compacted, limit, listing, table, rv, needsRelist,
                   initialized, view, error, cursor, faults>>
------------------------------------------------------------------------------
Init ==
    /\ log = <<>> /\ compacted = 0
    /\ limit \in Limits
    /\ phase = "cycle"
    /\ listing = NoListing
    /\ table = NoRows /\ view = NoRows
    /\ rv = 0
    /\ needsRelist = TRUE /\ initialized = FALSE /\ error = FALSE
    /\ cursor = 0 /\ faults = 0

Client == Cycle \/ Page \/ Open \/ Frame \/ Retry
Server == \/ \E k \in Keys, odd \in Variants : Create(k, odd) \/ Modify(k, odd)
          \/ \E k \in Keys : Delete(k)
          \/ Elsewhere \/ Compact
Next == Client \/ Server \/ Ended \/ Breaks
------------------------------------------------------------------------------
\* What the agent shows of the cluster is, once it has listed, exactly what
\* the server held at the version it watches from: no list made of two
\* versions, no event missed or applied twice over a resumed or a broken
\* watch, no deletion that hits a successor of the same name.
ViewIsAVersion ==
    initialized => view = table /\ table = Rows(Store(rv))

\* When the cluster stops changing and requests stop failing, the view
\* becomes the cluster and the error is gone - if every object parses and
\* they fit the limit.
Acceptable == /\ Cardinality(Live(Len(log))) <= limit
              /\ \A k \in Live(Len(log)) : Parses(Store(Len(log))[k])
ViewCatchesUp ==
    <>[](Acceptable => (view = Rows(Store(Len(log))) /\ ~error))
==============================================================================
