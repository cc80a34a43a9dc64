-------------------------- MODULE EndpointsTruth ---------------------------
(***************************************************************************)
(* What memory says is true. Truth relates the records, the indexes and    *)
(* the marks of an operation to the disk and the kernel; create, install   *)
(* and the steps outside an operation preserve it.                         *)
(***************************************************************************)
EXTENDS EndpointsProofs

USE EndpointsConstants

\* What create, delete and restore have marked.
Marks ==
    /\ kind \in {"create", "delete"} /\ pc \notin {"stage", "write"} => rec.att \in deleting
    /\ Serving => viable = {}
    /\ \A r \in viable : records[r.att] = None
    /\ Restoring => \A r \in stale : disk[r.id] = r \/ (r = rec /\ pc = "rmdir")

\* What install has written so far.
Written ==
    /\ pc \in {"upsert", "attach"} => \A ip \in rec.ips \ todo : fwd[ip] = Info(rec)
    /\ pc = "attach" => todo = {}

\* A record that no operation has marked is installed, unless its link is
\* not the one it was created on.
Installed ==
    \A a \in Attachments : records[a] # None /\ a \notin deleting =>
        /\ disk[records[a].id] = records[a]
        /\ \A ip \in records[a].ips : fwd[ip] = Info(records[a])
        /\ link[a] = records[a].link => tcx[a] = link[a]

\* The indexes know nothing but records, what restore is about to register,
\* and the id of the endpoint that is being created.
NoLeak ==
    /\ \A i \in ids :
        \/ \E a \in Attachments : records[a] # None /\ records[a].id = i
        \/ \E r \in viable : r.id = i
        \/ pc \in {"stage", "write"} /\ rec.id = i
    /\ \A ip \in Addrs : addresses[ip] # None =>
        \/ records[addresses[ip]] # None /\ ip \in records[addresses[ip]].ips
        \/ \E r \in viable : r.att = addresses[ip] /\ ip \in r.ips

Truth == Marks /\ Written /\ Installed /\ NoLeak

Begun == Working \ {"stage", "write"}

\* The operation has marked its record deleting, or not registered it yet.
LEMMA OwnIsMarked ==
    ASSUME Sound, Truth, pc \in Begun
    PROVE  /\ rec \in Recs
           /\ records[rec.att] = None \/ rec.att \in deleting
BY DEF Sound, IInv, Phases, TypeOK, Begun, Truth, Marks, RecordOK, RestoringOK, Restoring, Recs

\* An unmarked record has nothing in common with the operation's.
LEMMA UnmarkedIsOther ==
    ASSUME Sound, Truth, pc \in Begun,
           NEW a \in Attachments, records[a] # None, a \notin deleting
    PROVE  /\ a # rec.att
           /\ records[a].id # rec.id
           /\ records[a].ips \cap rec.ips = {}
<1>i. IInv
  BY DEF Sound
<1>1. rec \in Recs /\ a # rec.att
  BY OwnIsMarked
<1>2. /\ records[a].att = a
      /\ \A ip \in records[a].ips : addresses[ip] = a
      /\ disk[records[a].id] = records[a]
  BY <1>i DEF IInv, MemoryOK, Truth, Installed
<1>3. CASE kind \in {"create", "delete"}
  BY <1>i, <1>3, <1>1, <1>2 DEF IInv, RecordOK, Begun, MemoryOK, Recs
<1>4. CASE kind = "viable"
  BY <1>i, <1>4, <1>1, <1>2 DEF IInv, RecordOK, RestoringOK, Restoring
<1>5. CASE kind = "stale"
  BY <1>i, <1>5 DEF IInv, RecordOK, RestoringOK, Restoring
<1> QED BY <1>3, <1>4, <1>5, <1>i DEF IInv, TypeOK, Begun

\* An operation touches nothing but its own record's state.
OnlyOwn ==
    /\ \A i \in Ids : i # rec.id => disk'[i] = disk[i]
    /\ \A ip \in Addrs \ rec.ips : fwd'[ip] = fwd[ip]
    /\ \A a \in Attachments : a # rec.att =>
        /\ tcx'[a] = tcx[a] /\ link'[a] = link[a]
        /\ records'[a] = records[a]
        /\ a \in deleting => a \in deleting'

LEMMA InstalledKept ==
    ASSUME Sound, Truth, pc \in Begun, OnlyOwn
    PROVE  \A a \in Attachments : records'[a] # None /\ a \notin deleting /\ a # rec.att =>
             /\ disk'[records'[a].id] = records'[a]
             /\ \A ip \in records'[a].ips : fwd'[ip] = Info(records'[a])
             /\ link'[a] = records'[a].link => tcx'[a] = link'[a]
BY UnmarkedIsOther DEF OnlyOwn, Sound, IInv, TypeOK, Recs, Truth, Installed
\* An operation goes on: nothing is registered or forgotten.
GoesOn ==
    /\ pc \in Begun \ {"rmdir"} /\ pc' \in Begun
    /\ UNCHANGED <<records, addresses, deleting, ids, kind, rec, stale, viable>>
    /\ disk'[rec.id] = disk[rec.id] \/ kind = "create" \/ pc' = "rmdir"

LEMMA GoesOnTruth ==
    ASSUME Sound, Truth, GoesOn, OnlyOwn, Written'
    PROVE  Truth'
<1>2. Installed'
  BY InstalledKept, OwnIsMarked DEF GoesOn, Installed, OnlyOwn
<1> QED BY <1>2 DEF Truth, Marks, GoesOn, Begun, Serving, Working, Restoring, IInv, TypeOK, Recs,
           OnlyOwn, RecordOK, Sound, NoLeak

LEMMA DieTruth == Die => Truth'
BY DEF Die, EndOp, Truth, Marks, Written, Installed, NoLeak, Serving, Restoring

LEMMA OpFailsTruth ==
    ASSUME Sound, Truth, pc \in Begun, OpFails, \A i \in Ids : i # rec.id => disk'[i] = disk[i]
    PROVE  Truth'
BY InstalledKept, OwnIsMarked, DieTruth DEF Sound, OpFails, OnlyOwn, memory, kernel, EndOp, Truth,
   Marks, Written, Serving, Restoring, Installed, NoLeak, Begun

LEMMA RemovedTruth ==
    ASSUME Sound, Truth, pc \in {"rmfile", "rmdir"}, Removed, UNCHANGED kernel,
           \A i \in Ids : i # rec.id => disk'[i] = disk[i],
           pc = "rmfile" => disk[rec.id] = None
    PROVE  Truth'
<1>i. IInv
  BY DEF Sound
<1>0. pc \in Begun /\ rec \in Recs
  BY OwnIsMarked DEF Begun, Working
<1>2. CASE kind = "stale"
  BY <1>i, <1>2, <1>0 DEF Removed, IInv, RecordOK, RestoringOK, Restoring, memory, TypeOK, Truth,
     Marks, Recs, EndOp, Written, Serving, Installed, NoLeak, Begun
<1>3. CASE kind \in {"create", "delete"}
  <2>1. /\ addresses' = Put(addresses, rec.ips, None)
        /\ records' = [records EXCEPT ![rec.att] = None]
        /\ deleting' = deleting \ {rec.att}
        /\ ids' = ids \ {rec.id}
        /\ EndOp("idle") /\ UNCHANGED <<stale, viable>>
    BY <1>3 DEF Removed
  <2>2. records[rec.att] = rec /\ records \in [Attachments -> Recs \cup {None}]
    BY <1>i, <1>0, <1>3 DEF IInv, RecordOK, TypeOK, Begun
  <2>3. /\ records'[rec.att] = None
        /\ \A a \in Attachments : a # rec.att => records'[a] = records[a]
    BY <2>1, <2>2, <1>0 DEF Recs
  <2>7. viable = {}
    BY <1>3 DEF Truth, Marks, Serving
  <2>8. ASSUME NEW i \in ids' PROVE \E a \in Attachments : records'[a] # None /\ records'[a].id = i
    BY <1>0, <2>1, <2>2, <2>3, <2>7, <2>8 DEF Truth, NoLeak, Begun
  <2>9. ASSUME NEW ip \in Addrs, addresses'[ip] # None
        PROVE  records'[addresses'[ip]] # None /\ ip \in records'[addresses'[ip]].ips
    BY <1>i, <2>1, <2>9, <2>7, <2>2, <2>3 DEF Put, IInv, TypeOK, Truth, NoLeak
  <2> QED BY <2>8, <2>9, <1>3, <2>1, <1>0, <2>3, InstalledKept DEF Truth, NoLeak, EndOp, Marks,
             Written, Serving, Restoring, Installed, OnlyOwn, kernel
<1> QED BY <1>2, <1>3, <1>i DEF IInv, Phases, Removing

\* What happens outside of the operation does not disturb it.
LEMMA EnvironmentTruth ==
    ASSUME Truth, UNCHANGED <<disk, fwd, records, addresses, deleting, ids, operation>>,
           \A a \in Attachments : records[a] # None /\ link'[a] = records[a].link =>
             link[a] = link'[a] /\ tcx'[a] = tcx[a]
    PROVE  Truth'
BY DEF Truth, Marks, Written, NoLeak, Serving, Restoring, operation, Installed

LEMMA AddLinkTruth ==
    ASSUME Sound, Truth, NEW a \in Attachments, NEW l \in Links, AddLink(a, l)
    PROVE  Truth'
BY EnvironmentTruth DEF Sound, IInv, TypeOK, Live, Remembered, AddLink, durable, memory

LEMMA LoseLinkTruth ==
    ASSUME Sound, Truth, NEW a \in Attachments, LoseLink(a)
    PROVE  Truth'
BY EnvironmentTruth DEF Sound, IInv, TypeOK, Recs, LoseLink, durable, memory

LEMMA CreateTruth ==
    ASSUME Sound, Truth, NEW a \in Attachments, NEW l \in Links, NEW ips \in SUBSET Addrs \ {{}},
           Create(a, l, ips)
    PROVE  Truth'
BY DEF Create, Truth, Marks, Written, Serving, Restoring, Installed, durable, kernel, NoLeak

\* Store::stage and the checks before it.
LEMMA StagingTruth ==
    ASSUME Sound, Truth, Stage \/ StageFails \/ WriteFails
    PROVE  Truth'
<1>1. kind = "create" /\ rec \in Recs
  BY DEF Sound, IInv, Phases, TypeOK, Working, Stage, StageFails, WriteFails
<1>2. CASE Stage
  BY <1>1, <1>2 DEF Stage, Truth, Marks, Written, Installed, NoLeak, Serving, Restoring, kernel,
     memory
<1>3. CASE StageFails \/ WriteFails
  BY <1>1, <1>3 DEF StageFails, WriteFails, CreateRefused, EndOp, Truth, Marks, Written, Serving,
     Restoring, Installed, NoLeak, kernel
<1> QED BY <1>2, <1>3

LEMMA WriteTruth ==
    ASSUME Sound, Truth, Write
    PROVE  Truth'
<1>i. IInv
  BY DEF Sound
<1>1. kind = "create" /\ rec \in Recs /\ viable = {} /\ rec # None
  BY <1>i DEF IInv, Phases, TypeOK, Working, Write, Truth, Marks, Serving
<1>2. rec.att \in Attachments /\ rec.ips \subseteq Addrs
  BY <1>1 DEF Recs
<1>3. /\ records' = [records EXCEPT ![rec.att] = rec] /\ records'[rec.att] = rec
      /\ \A a \in Attachments : a # rec.att => records'[a] = records[a]
      /\ records[rec.att] = None
  BY <1>i, <1>2 DEF Write, IInv, TypeOK, RecordOK
<1> QED BY <1>1, <1>3, <1>2, <1>i DEF Truth, Write, Marks, Written, Serving, Restoring, Installed,
           durable, kernel, NoLeak, IInv, TypeOK, Put

\* The steps of install.
LEMMA InstallTruth ==
    ASSUME Sound, Truth,
           Publish \/ (\E ip \in Addrs : Upsert(ip)) \/ ClearPolicy \/ InstallFails
           \/ \E ip \in Addrs : RestoreSnapshot(ip)
    PROVE  Truth'
<1>i. IInv
  BY DEF Sound
<1>0. rec \in Recs /\ rec.ips \subseteq Addrs /\ rec.att \in Attachments /\ todo \subseteq Addrs
  BY <1>i DEF IInv, TypeOK, Working, Publish, Upsert, ClearPolicy, InstallFails, RestoreSnapshot,
     Recs
<1>1. CASE Publish
  BY <1>i, <1>1, GoesOnTruth DEF Publish, GoesOn, OnlyOwn, Begun, Working, kernel, memory, IInv,
     Phases, TypeOK, Written
<1>2. ASSUME NEW ip \in Addrs, Upsert(ip) PROVE Truth'
  <2>3. Written'
    BY <1>i, <1>0, <1>2 DEF Upsert, Truth, Written, IInv, TypeOK, Info
  <2> QED BY <2>3, GoesOnTruth, <1>i, <1>2 DEF Upsert, GoesOn, OnlyOwn, Begun, Working, durable,
             memory, IInv, TypeOK, ProgressOK, Installing
<1>3. CASE ClearPolicy
  BY <1>3, GoesOnTruth DEF ClearPolicy, GoesOn, OnlyOwn, Begun, Working, durable, memory, Truth,
     Written, Info
<1>4. CASE InstallFails
  BY <1>i, <1>4, GoesOnTruth DEF InstallFails, IInv, TypeOK, GoesOn, OnlyOwn, Begun, Working,
     durable, Written
<1>5. ASSUME NEW ip \in Addrs, RestoreSnapshot(ip) PROVE Truth'
  BY <1>i, <1>5, GoesOnTruth DEF RestoreSnapshot, GoesOn, OnlyOwn, Begun, Working, durable, memory,
     IInv, TypeOK, Written
<1> QED BY <1>1, <1>2, <1>3, <1>4, <1>5

LEMMA AttachTruth ==
    ASSUME Sound, Truth, Attach
    PROVE  Truth'
<1>i. IInv
  BY DEF Sound
<1>0. /\ pc \in Begun /\ pc = "attach" /\ rec \in Recs /\ rec # None
      /\ disk[rec.id] = rec /\ todo = {} /\ kind \in {"create", "viable"}
      /\ records \in [Attachments -> Recs \cup {None}] /\ tcx \in [Attachments -> Links \cup {None, Dead}]
  BY <1>i DEF Attach, Begun, Working, IInv, TypeOK, RecordOK, Installing, Phases, Truth, Written
<1>1. rec.att \in Attachments /\ rec.ips \subseteq Addrs
  BY <1>0 DEF Recs
<1>2. /\ records'[rec.att] = rec
      /\ \A a \in Attachments : a # rec.att => records'[a] = records[a]
  BY <1>i, <1>0, <1>1 DEF Attach, IInv, RecordOK
<1>4. Installed'
  BY <1>0, <1>2, InstalledKept, <1>1 DEF Attach, durable, Truth, Written, Installed, OnlyOwn
<1>5. CASE kind = "create"
  BY <1>2, <1>5, <1>0, <1>4 DEF Attach, EndOp, Truth, Marks, Written, Serving, Restoring, NoLeak
<1>6. CASE kind = "viable"
  <2>1. rec \in viable /\ stale = {} /\ viable' = viable \ {rec}
    BY <1>i, <1>6 DEF Attach, IInv, RecordOK
  <2>2. ASSUME NEW r \in viable' PROVE records'[r.att] = None
    <3>1. r \in viable /\ r # rec /\ r \in Recs /\ disk[r.id] = r
      BY <1>i, <1>6, <2>1 DEF IInv, TypeOK, RestoringOK, Restoring
    <3>2. r.id \in Ids /\ rec.id \in Ids /\ r.att \in Attachments
      BY <1>0, <3>1 DEF Recs
    <3> QED BY <1>2, <3>1, <3>2, <1>i, <1>0 DEF Truth, Marks, IInv, DiskOK
  <2>4. \A a \in Attachments : records[a] # None => records'[a] = records[a]
    BY <1>2, <2>1 DEF Truth, Marks
  <2>5. ASSUME NEW i \in ids'
        PROVE  (\E a \in Attachments : records'[a] # None /\ records'[a].id = i) \/ \E r \in viable' : r.id = i
    BY <1>0, <1>1, <1>2, <2>1, <2>4, <2>5 DEF Attach, Truth, NoLeak
  <2>6. ASSUME NEW ip \in Addrs, addresses'[ip] # None
        PROVE  \/ records'[addresses'[ip]] # None /\ ip \in records'[addresses'[ip]].ips
               \/ \E r \in viable' : r.att = addresses'[ip] /\ ip \in r.ips
    BY <1>i, <2>6, <1>0, <1>1, <1>2, <2>1, <2>4 DEF Attach, IInv, TypeOK, Truth, NoLeak
  <2> QED BY <1>4, <2>5, <2>6, <1>6, <2>1, <2>2 DEF Truth, NoLeak, Attach, EndOp, Marks, Written,
             Serving, Restoring
<1> QED BY <1>0, <1>5, <1>6
=============================================================================
