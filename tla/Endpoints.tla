----------------------------- MODULE Endpoints -----------------------------
(***************************************************************************)
(* The agent's endpoint manager (crates/flowsdn-agent: endpoints.rs,       *)
(* state.rs and the endpoint and IPAM routes of api.rs): the only writer   *)
(* of the endpoint state directory, the forwarding map and the TCX links.  *)
(*                                                                         *)
(* Requests are served one at a time, so at most one operation is in       *)
(* progress; `pc` says how far it has come.  Every system call with a      *)
(* durable effect is a step of its own, so that the agent can be killed,   *)
(* the node can lose power, a kernel or file system call can fail and a    *)
(* host link can vanish between any two of them.                           *)
(*                                                                         *)
(* A link identity stands for the (ifindex, MAC) pair that the code        *)
(* compares; IndexOf gives its ifindex, which another link may reuse.      *)
(***************************************************************************)
EXTENDS Naturals, FiniteSets

CONSTANTS
    Attachments,    \* cni-attachment-id:<container>:<interface>
    Addrs,          \* addresses of the node's pools
    IdMax,          \* endpoint-id-max
    Links,          \* identities of host links
    IndexOf,        \* ifindex of each link identity
    Owners,         \* namespace/pod names
    OwnerOf,        \* the Pod each attachment belongs to
    Pinned,         \* is a bpffs pin root configured?
    None,           \* absent value
    Empty,          \* an endpoint directory without ep_config.json
    Dead            \* a TCX link whose device is gone

Ids == 1..IdMax
Recs == [id : Ids, att : Attachments, link : Links, ips : SUBSET Addrs \ {{}}]
Infos == Ids \X Links

ASSUME EndpointsConstants ==
    /\ IdMax \in Nat \ {0}
    /\ IndexOf \in [Links -> Nat \ {0}]
    /\ OwnerOf \in [Attachments -> Owners]
    /\ Pinned \in BOOLEAN
    /\ None \notin Recs \cup Infos \cup Links \cup Owners \cup Attachments
    /\ Empty \notin Recs \cup {None}
    /\ Dead \notin Links \cup {None}

VARIABLES
    \* the state directory
    disk,       \* <id>/: absent, present without ep_config.json, or a record
    staging,    \* ids with a <id>_next/ directory
    \* the kernel
    link,       \* host link of each attachment's interface name
    fwd,        \* flowsdn_lxc: address -> endpoint info
    tcx,        \* TCX link pin of each interface: absent, its device, or dead
    policy,     \* flowsdn_policy_ep: ifindex -> endpoint id (0: no entry)
    \* the agent's memory
    records, addresses, deleting, ids, ipam, leases,
    owned,      \* LocalDelivery::interfaces
    \* the operation in progress
    pc, kind, rec,
    todo,       \* addresses the current loop has still to visit
    saved,      \* install's snapshots
    stale, viable   \* what restore has left to do

durable == <<disk, staging>>
kernel == <<link, fwd, tcx, policy>>
memory == <<records, addresses, deleting, ids, ipam, leases, owned>>
operation == <<pc, kind, rec, todo, saved, stale, viable>>
vars == <<durable, kernel, memory, operation>>

Info(r) == <<r.id, r.link>>
Index(r) == IndexOf[r.link]
Indices == {IndexOf[l] : l \in Links}
OnDisk == {disk[i] : i \in Ids} \cap Recs
Live == {records[a] : a \in Attachments} \cap Recs
Put(f, S, v) == [x \in DOMAIN f |-> IF x \in S THEN v ELSE f[x]]

Init ==
    /\ disk = [i \in Ids |-> None]
    /\ staging = {}
    /\ link = [a \in Attachments |-> None]
    /\ fwd = [ip \in Addrs |-> None]
    /\ tcx = [a \in Attachments |-> None]
    /\ policy = [x \in Indices |-> 0]
    /\ records = [a \in Attachments |-> None]
    /\ addresses = [ip \in Addrs |-> None]
    /\ deleting = {}
    /\ ids = {}
    /\ ipam = [ip \in Addrs |-> None]
    /\ leases = [ip \in Addrs |-> None]
    /\ owned = {}
    /\ pc = "down"
    /\ kind = "none"
    /\ rec = None
    /\ todo = {}
    /\ saved = [ip \in Addrs |-> None]
    /\ stale = {}
    /\ viable = {}

(***************************************************************************)
(* Leaving an operation.                                                   *)
(***************************************************************************)
\* The server is idle again; the scratch state of the operation is gone.
EndOp(next) ==
    /\ pc' = next
    /\ kind' = "none"
    /\ rec' = None
    /\ todo' = {}
    /\ saved' = [ip \in Addrs |-> None]

\* The process is gone: its memory with it, and with anonymous BPF owners
\* also the maps and the attachments.
Die ==
    /\ records' = [a \in Attachments |-> None]
    /\ addresses' = [ip \in Addrs |-> None]
    /\ deleting' = {}
    /\ ids' = {}
    /\ ipam' = [ip \in Addrs |-> None]
    /\ leases' = [ip \in Addrs |-> None]
    /\ owned' = {}
    /\ EndOp("down")
    /\ stale' = {}
    /\ viable' = {}

KernelAfterExit ==
    IF Pinned
    THEN UNCHANGED <<fwd, tcx, policy>>
    ELSE /\ fwd' = [ip \in Addrs |-> None]
         /\ tcx' = [a \in Attachments |-> None]
         /\ policy' = [x \in Indices |-> 0]

\* A failed call ends the operation.  create and delete keep what they
\* registered, so that a DEL or a restart can finish; restore fails startup.
OpFails ==
    IF kind \in {"create", "delete"}
    THEN /\ EndOp("idle")
         /\ UNCHANGED <<memory, kernel, stale, viable>>
    ELSE /\ Die
         /\ KernelAfterExit
         /\ UNCHANGED link

(***************************************************************************)
(* The IPAM routes.  Which free address is handed out, and when a lease's  *)
(* ten minutes are over, is left open.                                     *)
(***************************************************************************)
\* POST /v1/ipam
Allocate(o, ip) ==
    /\ pc = "idle"
    /\ ipam[ip] = None
    /\ ipam' = [ipam EXCEPT ![ip] = o]
    /\ leases' = [leases EXCEPT ![ip] = o]
    /\ UNCHANGED <<durable, kernel, records, addresses, deleting, ids, owned,
                   operation>>

\* DELETE /v1/ipam/{ip}: refused (409) while an endpoint has the address.
Release(ip) ==
    /\ pc = "idle"
    /\ \A r \in Live : ip \notin r.ips
    /\ ipam' = [ipam EXCEPT ![ip] = None]
    /\ leases' = [leases EXCEPT ![ip] = None]
    /\ UNCHANGED <<durable, kernel, records, addresses, deleting, ids, owned,
                   operation>>

\* Server::expire, before the next request is accepted.
Expire(ip) ==
    /\ pc = "idle"
    /\ leases[ip] # None
    /\ ipam' = [ipam EXCEPT ![ip] = None]
    /\ leases' = [leases EXCEPT ![ip] = None]
    /\ UNCHANGED <<durable, kernel, records, addresses, deleting, ids, owned,
                   operation>>

(***************************************************************************)
(* Endpoint creation: PUT /v1/endpoint/{id}.                               *)
(***************************************************************************)
\* Server::create: a known attachment is answered 409 or 500; every address
\* must be pending for the Pod.
Accepted(a, ips) ==
    /\ records[a] = None
    /\ \A ip \in ips : leases[ip] = OwnerOf[a]

\* Mutant: validate_interface_owners accepts any interface.
AnyInterface(l) == TRUE

\* validate_interface_owners: no endpoint has the interface (the name is
\* the attachment's own).
InterfaceFree(l) == \A r \in Live : Index(r) # IndexOf[l]

\* IdPool::allocate
LowestFree(id) == id \in Ids \ ids /\ \A free \in Ids \ ids : id <= free

\* Every check of Manager::create before the first write.  A refused request
\* changes nothing: its id is released again.
Create(a, l, ips) ==
    /\ pc = "idle"
    /\ Accepted(a, ips)
    /\ InterfaceFree(l)
    /\ \A ip \in ips : addresses[ip] = None /\ ipam[ip] = OwnerOf[a]
    /\ link[a] = l
    /\ \A ip \in ips : fwd[ip] = None
    /\ \E id \in Ids :
        /\ LowestFree(id)
        /\ ids' = ids \cup {id}
        /\ rec' = [id |-> id, att |-> a, link |-> l, ips |-> ips]
    /\ pc' = "stage"
    /\ kind' = "create"
    /\ UNCHANGED <<durable, kernel, records, addresses, deleting, ipam, leases,
                   owned, todo, saved, stale, viable>>

\* create fails before anything was registered: the id is free again.
CreateRefused ==
    /\ EndOp("idle")
    /\ ids' = ids \ {rec.id}
    /\ UNCHANGED <<disk, kernel, records, addresses, deleting, ipam, leases,
                   owned, stale, viable>>

\* Dropping an unpublished Staged removes its directory, if that works.
DropStaged == staging' \in {staging, staging \ {rec.id}}

\* Store::stage up to the mkdir of <id>_next, which must not exist yet.
Stage ==
    /\ pc = "stage"
    /\ disk[rec.id] = None
    /\ rec.id \notin staging
    /\ staging' = staging \cup {rec.id}
    /\ pc' = "write"
    /\ UNCHANGED <<disk, kernel, memory, kind, rec, todo, saved, stale, viable>>

StageFails ==
    /\ pc = "stage"
    /\ UNCHANGED staging
    /\ CreateRefused

\* Mutant: create registers the endpoint without the deleting mark.
WriteUnmarked ==
    /\ pc = "write"
    /\ addresses' = Put(addresses, rec.ips, rec.att)
    /\ records' = [records EXCEPT ![rec.att] = rec]
    /\ pc' = "publish"
    /\ UNCHANGED <<durable, kernel, deleting, ids, ipam, leases, owned, kind, rec,
                   todo, saved, stale, viable>>

\* Store::stage writes and syncs the document; create then registers the
\* endpoint, still marked deleting, before it is published.
Write ==
    /\ pc = "write"
    /\ addresses' = Put(addresses, rec.ips, rec.att)
    /\ records' = [records EXCEPT ![rec.att] = rec]
    /\ deleting' = deleting \cup {rec.att}
    /\ pc' = "publish"
    /\ UNCHANGED <<durable, kernel, ids, ipam, leases, owned, kind, rec, todo,
                   saved, stale, viable>>

WriteFails ==
    /\ pc = "write"
    /\ DropStaged
    /\ CreateRefused

\* Mutant: forwarding is installed before the rename (the rename is left to
\* the end and never reached by a crash in between).
PublishLate ==
    /\ pc = "publish"
    /\ disk[rec.id] = None
    /\ pc' = "upsert"
    /\ todo' = rec.ips
    /\ UNCHANGED <<durable, kernel, memory, kind, rec, saved, stale, viable>>

\* Staged::publish: the rename.
Publish ==
    /\ pc = "publish"
    /\ disk[rec.id] = None
    /\ disk' = [disk EXCEPT ![rec.id] = rec]
    /\ staging' = staging \ {rec.id}
    /\ pc' = "upsert"
    /\ todo' = rec.ips
    /\ UNCHANGED <<kernel, memory, kind, rec, saved, stale, viable>>

PublishFails ==
    /\ pc = "publish"
    /\ DropStaged
    /\ OpFails
    /\ UNCHANGED disk

(***************************************************************************)
(* install(): for create, and for every viable record of restore.          *)
(***************************************************************************)
\* One address: remember the old entry, write the new one.
Upsert(ip) ==
    /\ pc = "upsert"
    /\ ip \in todo
    /\ saved' = [saved EXCEPT ![ip] = fwd[ip]]
    /\ fwd' = [fwd EXCEPT ![ip] = Info(rec)]
    /\ todo' = todo \ {ip}
    /\ UNCHANGED <<durable, link, tcx, policy, memory, pc, kind, rec, stale,
                   viable>>

\* A reused interface index must not inherit another endpoint's policy.
ClearPolicy ==
    /\ pc = "upsert"
    /\ todo = {}
    /\ policy' = IF policy[Index(rec)] = rec.id THEN policy
                 ELSE [policy EXCEPT ![Index(rec)] = 0]
    /\ pc' = "attach"
    /\ UNCHANGED <<durable, link, fwd, tcx, memory, kind, rec, todo, saved,
                   stale, viable>>

\* LocalDelivery::attach needs the device; an existing pin must be its.
CanAttach ==
    /\ rec.att \notin owned
    /\ link[rec.att] # None
    /\ tcx[rec.att] \in {None, link[rec.att]}

\* The last step of install (with the host routes of stack egress): create
\* answers 201 and the leases are consumed; restore registers the record.
Attach ==
    /\ pc = "attach"
    /\ CanAttach
    /\ tcx' = [tcx EXCEPT ![rec.att] = link[rec.att]]
    /\ owned' = owned \cup {rec.att}
    /\ IF kind = "create"
       THEN /\ deleting' = deleting \ {rec.att}
            /\ leases' = Put(leases, rec.ips, None)
            /\ EndOp("idle")
            /\ UNCHANGED <<records, viable>>
       ELSE /\ records' = [records EXCEPT ![rec.att] = rec]
            /\ viable' = viable \ {rec}
            /\ EndOp("restore")
            /\ UNCHANGED <<deleting, leases>>
    /\ UNCHANGED <<durable, link, fwd, policy, addresses, ids, ipam, stale>>

\* A failed attach may leave one of the two programs pinned and not owned;
\* a failed host route leaves both attached.
InstallFails ==
    /\ pc \in {"upsert", "attach"}
    /\ \/ UNCHANGED <<tcx, owned>>
       \/ /\ pc = "attach" /\ CanAttach
          /\ tcx' = [tcx EXCEPT ![rec.att] = link[rec.att]]
          /\ owned' \in {owned \cup {rec.att}}
                         \cup (IF Pinned THEN {owned} ELSE {})
    /\ pc' = "rollback"
    /\ UNCHANGED <<durable, link, fwd, policy, records, addresses, deleting, ids,
                   ipam, leases, kind, rec, todo, saved, stale, viable>>

\* Mutant: install's rollback removes the entry instead of restoring it.
RestoreSnapshotAsRemove(ip) ==
    /\ pc = "rollback"
    /\ ip \in rec.ips \ todo
    /\ fwd' = [fwd EXCEPT ![ip] = None]
    /\ todo' = todo \cup {ip}
    /\ UNCHANGED <<durable, link, tcx, policy, memory, pc, kind, rec, saved,
                   stale, viable>>

\* install's own rollback: written addresses get their snapshots back.
RestoreSnapshot(ip) ==
    /\ pc = "rollback"
    /\ ip \in rec.ips \ todo
    /\ fwd' = [fwd EXCEPT ![ip] = saved[ip]]
    /\ todo' = todo \cup {ip}
    /\ UNCHANGED <<durable, link, tcx, policy, memory, pc, kind, rec, saved,
                   stale, viable>>

\* The rollback is over, or one of its writes failed; either way install
\* fails.  create goes on to uninstall, restore fails startup.
RolledBack ==
    /\ pc = "rollback"
    /\ IF kind = "create"
       THEN /\ pc' = "unpolicy"
            /\ UNCHANGED <<kernel, memory, kind, rec, todo, saved, stale, viable>>
       ELSE OpFails
    /\ UNCHANGED durable

(***************************************************************************)
(* uninstall() and Store::remove: for delete, for a failed create and for  *)
(* every stale record of restore.                                          *)
(***************************************************************************)
\* DELETE /v1/endpoint/{id}; deleting a container runs it for each of its
\* endpoints.
Delete(a) ==
    /\ pc = "idle"
    /\ records[a] # None
    /\ deleting' = deleting \cup {a}
    /\ pc' = "unpolicy"
    /\ kind' = "delete"
    /\ rec' = records[a]
    /\ UNCHANGED <<durable, kernel, records, addresses, ids, ipam, leases, owned,
                   todo, saved, stale, viable>>

\* The index may be another link's by now: restore removes only its own entry.
RemovePolicy ==
    /\ pc = "unpolicy"
    /\ policy' = IF kind = "stale" /\ policy[Index(rec)] # rec.id THEN policy
                 ELSE [policy EXCEPT ![Index(rec)] = 0]
    /\ pc' = "detach"
    /\ UNCHANGED <<durable, link, fwd, tcx, memory, kind, rec, todo, saved,
                   stale, viable>>

\* LocalDelivery::detach: a pin this process does not own must belong to
\* the interface, or be dead with the interface gone.
Detach ==
    /\ pc = "detach"
    /\ \/ rec.att \in owned
       \/ tcx[rec.att] = None
       \/ tcx[rec.att] = (IF link[rec.att] = None THEN Dead ELSE link[rec.att])
    /\ tcx' = [tcx EXCEPT ![rec.att] = None]
    /\ owned' = owned \ {rec.att}
    /\ pc' = "unmap"
    /\ todo' = rec.ips
    /\ UNCHANGED <<durable, link, fwd, policy, records, addresses, deleting, ids,
                   ipam, leases, kind, rec, saved, stale, viable>>

Unmap(ip) ==
    /\ pc = "unmap"
    /\ ip \in todo
    /\ fwd' = [fwd EXCEPT ![ip] = None]
    /\ todo' = todo \ {ip}
    /\ UNCHANGED <<durable, link, tcx, policy, memory, pc, kind, rec, saved,
                   stale, viable>>

\* Uninstalled; delete also removes the host link (absent is fine).
Uninstalled ==
    /\ pc = "unmap"
    /\ todo = {}
    /\ link' = IF kind = "delete" THEN [link EXCEPT ![rec.att] = None] ELSE link
    /\ pc' = "rmfile"
    /\ UNCHANGED <<durable, fwd, tcx, policy, memory, kind, rec, todo, saved,
                   stale, viable>>

\* Nothing of the endpoint is left on disk: the indexes may forget it.  Only
\* delete gives the addresses back to IPAM.
Removed ==
    LET gone == rec.ips IN
    IF kind = "stale"
    THEN /\ stale' = stale \ {rec}
         /\ EndOp("restore")
         /\ UNCHANGED <<memory, viable>>
    ELSE /\ addresses' = Put(addresses, gone, None)
         /\ records' = [records EXCEPT ![rec.att] = None]
         /\ deleting' = deleting \ {rec.att}
         /\ ids' = ids \ {rec.id}
         /\ ipam' = IF kind = "delete" THEN Put(ipam, gone, None) ELSE ipam
         /\ EndOp("idle")
         /\ UNCHANGED <<leases, owned, stale, viable>>

\* Store::remove: a directory that does not exist is fine.
AlreadyRemoved ==
    /\ pc = "rmfile"
    /\ disk[rec.id] = None
    /\ Removed
    /\ UNCHANGED <<durable, kernel>>

RemoveFile ==
    /\ pc = "rmfile"
    /\ disk[rec.id] # None
    /\ disk' = [disk EXCEPT ![rec.id] = Empty]
    /\ pc' = "rmdir"
    /\ UNCHANGED <<staging, kernel, memory, kind, rec, todo, saved, stale, viable>>

RemoveDir ==
    /\ pc = "rmdir"
    /\ disk' = [disk EXCEPT ![rec.id] = None]
    /\ Removed
    /\ UNCHANGED <<staging, kernel>>

\* Any call of uninstall, the link deletion or Store::remove fails (the
\* directory may be gone already when its sync fails).
RemoveFails ==
    /\ pc \in {"unpolicy", "detach", "unmap", "rmfile", "rmdir"}
    /\ disk' \in {disk} \cup (IF pc = "rmdir" THEN {[disk EXCEPT ![rec.id] = None]}
                              ELSE {})
    /\ OpFails
    /\ UNCHANGED staging

(***************************************************************************)
(* Startup: Manager::restore_with_egress.                                  *)
(***************************************************************************)
\* Reading and validating, before any mutation.  A directory without its
\* file, a duplicate owner, a link that is not the recorded one or a
\* forwarding entry that is not the stale record's own fails startup.
Restore ==
    /\ pc = "down"
    /\ \A i \in Ids : disk[i] # Empty
    /\ \A r, s \in OnDisk : r # s => /\ r.att # s.att
                                     /\ Index(r) # Index(s)
                                     /\ r.ips \cap s.ips = {}
    /\ LET missing == {r \in OnDisk : link[r.att] = None}
           live == OnDisk \ missing
           OwnerAt(ip) == {r \in live : ip \in r.ips}
       IN  /\ \A r \in live : link[r.att] = r.link
           /\ \A r \in missing : \A ip \in r.ips : fwd[ip] \in {None, Info(r)}
           /\ ids' = {r.id : r \in live}
           /\ addresses' = [ip \in Addrs |->
                IF OwnerAt(ip) = {} THEN None
                ELSE (CHOOSE r \in OwnerAt(ip) : TRUE).att]
           /\ ipam' = [ip \in Addrs |->
                IF addresses'[ip] = None THEN None ELSE OwnerOf[addresses'[ip]]]
           /\ stale' = missing
           /\ viable' = live
    /\ pc' = "restore"
    /\ UNCHANGED <<durable, kernel, records, deleting, leases, owned, kind, rec,
                   todo, saved>>

\* All stale records are removed before the first viable one is installed.
RestoreStale(r) ==
    /\ pc = "restore"
    /\ r \in stale
    /\ pc' = "unpolicy"
    /\ kind' = "stale"
    /\ rec' = r
    /\ UNCHANGED <<durable, kernel, memory, todo, saved, stale, viable>>

RestoreViable(r) ==
    /\ pc = "restore"
    /\ stale = {}
    /\ r \in viable
    /\ pc' = "upsert"
    /\ kind' = "viable"
    /\ rec' = r
    /\ todo' = r.ips
    /\ UNCHANGED <<durable, kernel, memory, saved, stale, viable>>

\* Restored: the socket is bound and requests are accepted.
Serve ==
    /\ pc = "restore"
    /\ stale = {} /\ viable = {}
    /\ pc' = "idle"
    /\ UNCHANGED <<durable, kernel, memory, kind, rec, todo, saved, stale, viable>>

(***************************************************************************)
(* The environment.                                                        *)
(***************************************************************************)
Crash ==
    /\ pc # "down"
    /\ Die
    /\ KernelAfterExit
    /\ UNCHANGED <<durable, link>>

\* A power cut: links and bpffs are gone, and directory entries that were
\* never synced may be.
Reboot ==
    /\ Die
    /\ link' = [a \in Attachments |-> None]
    /\ fwd' = [ip \in Addrs |-> None]
    /\ tcx' = [a \in Attachments |-> None]
    /\ policy' = [x \in Indices |-> 0]
    /\ \E lost \in SUBSET Ids : disk' = Put(disk, lost, None)
    /\ UNCHANGED staging

\* CNI ADD creates the host link.  Its MAC is fresh: nothing remembers it.
Remembered ==
    {r.link : r \in OnDisk \cup Live \cup ({rec} \cap Recs)}
        \cup {link[a] : a \in Attachments} \cup {tcx[a] : a \in Attachments}
        \cup {fwd[ip][2] : ip \in {i \in Addrs : fwd[i] # None}}
        \cup {saved[ip][2] : ip \in {i \in Addrs : saved[i] # None}}

AddLink(a, l) ==
    /\ link[a] = None
    /\ l \notin Remembered
    /\ \A b \in Attachments : link[b] # None => IndexOf[link[b]] # IndexOf[l]
    /\ link' = [link EXCEPT ![a] = l]
    /\ UNCHANGED <<durable, fwd, tcx, policy, memory, operation>>

\* The namespace or the CNI plugin deletes the link; TCX links die with it.
LoseLink(a) ==
    /\ link[a] # None
    /\ link' = [link EXCEPT ![a] = None]
    /\ tcx' = IF tcx[a] = None THEN tcx ELSE [tcx EXCEPT ![a] = Dead]
    /\ UNCHANGED <<durable, fwd, policy, memory, operation>>

\* apply_policy writes and prunes the rows of a view compiled some time ago:
\* its endpoints may since have been deleted, and their indexes reused.
WritePolicy(x, id) ==
    /\ pc \notin {"down", "restore"} /\ kind \notin {"stale", "viable"}
    /\ policy[x] # id
    /\ policy' = [policy EXCEPT ![x] = id]
    /\ UNCHANGED <<durable, link, fwd, tcx, memory, operation>>

PrunePolicy(x) ==
    /\ pc \notin {"down", "restore"} /\ kind \notin {"stale", "viable"}
    /\ policy[x] # 0
    /\ policy' = [policy EXCEPT ![x] = 0]
    /\ UNCHANGED <<durable, link, fwd, tcx, memory, operation>>

\* Manager::healthy, as the health route and a repeated PUT report it.
Healthy(a) ==
    /\ records[a] # None
    /\ a \notin deleting
    /\ link[a] = records[a].link

Next ==
    \/ \E o \in Owners, ip \in Addrs : Allocate(o, ip)
    \/ \E ip \in Addrs : Release(ip) \/ Expire(ip) \/ Upsert(ip)
                         \/ RestoreSnapshot(ip) \/ Unmap(ip)
    \/ \E a \in Attachments, l \in Links, ips \in SUBSET Addrs \ {{}} :
         Create(a, l, ips)
    \/ Stage \/ StageFails \/ Write \/ WriteFails \/ Publish \/ PublishFails
    \/ ClearPolicy \/ Attach \/ InstallFails \/ RolledBack
    \/ \E a \in Attachments : Delete(a) \/ LoseLink(a)
    \/ RemovePolicy \/ Detach \/ Uninstalled \/ AlreadyRemoved \/ RemoveFile
    \/ RemoveDir \/ RemoveFails
    \/ Restore \/ Serve \/ Crash \/ Reboot
    \/ \E r \in OnDisk : RestoreStale(r) \/ RestoreViable(r)
    \/ \E a \in Attachments, l \in Links : AddLink(a, l)
    \/ \E x \in Indices, id \in Ids : WritePolicy(x, id)
    \/ \E x \in Indices : PrunePolicy(x)

Spec == Init /\ [][Next]_vars

(***************************************************************************)
(* Properties.                                                             *)
(***************************************************************************)
Working == {"stage", "write", "publish", "upsert", "attach", "rollback",
            "unpolicy", "detach", "unmap", "rmfile", "rmdir"}

\* Every variable stays in its type, and an operation in progress always
\* has the record it works on.
TypeOK ==
    /\ disk \in [Ids -> Recs \cup {None, Empty}]
    /\ staging \subseteq Ids
    /\ link \in [Attachments -> Links \cup {None}]
    /\ fwd \in [Addrs -> Infos \cup {None}]
    /\ tcx \in [Attachments -> Links \cup {None, Dead}]
    /\ policy \in [Indices -> Ids \cup {0}]
    /\ records \in [Attachments -> Recs \cup {None}]
    /\ addresses \in [Addrs -> Attachments \cup {None}]
    /\ deleting \subseteq Attachments
    /\ ids \subseteq Ids
    /\ ipam \in [Addrs -> Owners \cup {None}]
    /\ leases \in [Addrs -> Owners \cup {None}]
    /\ owned \subseteq Attachments
    /\ pc \in Working \cup {"idle", "down", "restore"}
    /\ kind \in {"none", "create", "delete", "stale", "viable"}
    /\ rec \in Recs \cup {None}
    /\ todo \subseteq Addrs
    /\ saved \in [Addrs -> Infos \cup {None}]
    /\ stale \subseteq Recs /\ viable \subseteq Recs
    /\ pc \in Working => rec \in Recs /\ kind # "none"

\* "Publish recoverable intent before any persistent forwarding"
\* (endpoints.rs:364): whatever the moment of a crash, every forwarding
\* entry and every TCX link belongs to a record on disk, so that a restart
\* can find and remove it.
IntentCoversKernel ==
    /\ \A ip \in Addrs : fwd[ip] # None =>
         \E r \in OnDisk : ip \in r.ips /\ fwd[ip] = Info(r)
    /\ \A a \in Attachments : tcx[a] # None => \E r \in OnDisk : r.att = a

\* No two records on disk share an attachment, an address or an interface
\* index, whatever was interrupted: restore never refuses its own state for
\* a duplicate owner (endpoints.rs:65-82 and 142-150).
DiskOwnersUnique ==
    \A i, j \in Ids : disk[i] \in Recs /\ disk[j] \in Recs /\ i # j =>
        /\ disk[i].id = i
        /\ disk[i].att # disk[j].att
        /\ Index(disk[i]) # Index(disk[j])
        /\ disk[i].ips \cap disk[j].ips = {}

\* An endpoint that healthy() reports healthy is complete: its record is
\* published, all its addresses are forwarded to it and its programs are on
\* its link, although healthy() looks at none of these.
HealthyIsInstalled ==
    \A a \in Attachments : Healthy(a) =>
        LET r == records[a] IN
        /\ disk[r.id] = r
        /\ \A ip \in r.ips : fwd[ip] = Info(r)
        /\ tcx[a] = r.link

\* Between requests the id pool and the address index hold exactly what the
\* records hold: nothing leaks and nothing is given away (endpoints.rs:395
\* and 404).
IndexesAgree ==
    pc = "idle" =>
        /\ ids = {r.id : r \in Live}
        /\ \A r, s \in Live : r.id = s.id => r = s
        /\ \A ip \in Addrs, a \in Attachments :
             addresses[ip] = a <=> records[a] # None /\ ip \in records[a].ips

\* When delete succeeds, no forwarding entry, TCX link or state directory of
\* the endpoint is left, even after earlier attempts that failed half way.
LeavesNothing ==
    kind = "delete" /\ pc' = "idle" /\ records'[rec.att] = None =>
        /\ \A ip \in rec.ips : fwd'[ip] = None /\ addresses'[ip] = None
        /\ tcx'[rec.att] = None
        /\ disk'[rec.id] = None

DeletedIsGone == [][LeavesNothing]_vars

\* A restart with pins does not interrupt forwarding: no step of restore,
\* its failures included, changes the entry of an endpoint whose link is
\* there ("a restored endpoint keeps its pinned entry", endpoints.rs:437).
\* Only an entry that this very restore added may be taken back.
CutsNothing ==
    Pinned /\ kind \in {"stale", "viable"} =>
        \A r \in viable : \A ip \in r.ips :
            link[r.att] = r.link /\ link'[r.att] = r.link
            /\ fwd[ip] = Info(r) /\ ~(r = rec /\ pc = "rollback" /\ saved[ip] = None)
                => fwd'[ip] = Info(r)

RestartKeepsForwarding == [][CutsNothing]_vars

\* While requests are served, the manager's memory tells the truth: a healthy
\* endpoint is installed (Manager::healthy), and its id and address indexes
\* are those of its records.
MemoryIsTrue == HealthyIsInstalled /\ IndexesAgree

\* Deletion leaves nothing of an endpoint (Manager::delete), and restore cuts
\* no forwarding of one that lives on (restore_with_egress).
NothingLeftNothingCut == DeletedIsGone /\ RestartKeepsForwarding
=============================================================================
