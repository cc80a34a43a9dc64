------------------------- MODULE EndpointsInvariant -------------------------
(***************************************************************************)
(* For any attachments, addresses, links and id limit: endpoint state on   *)
(* disk has unique owners and covers everything the agent left in the      *)
(* kernel, at every moment at which the agent or the node can die.         *)
(*                                                                         *)
(* Neither property is inductive.  The strengthening says what the memory  *)
(* knows about the disk in each phase: while requests are served, every    *)
(* record on disk is registered; while the agent restores, every record on *)
(* disk is registered or still to be handled; and the operation in         *)
(* progress has undone, or not yet done, what its position says.           *)
(***************************************************************************)
EXTENDS Endpoints, TLAPS


Installing == {"upsert", "attach", "rollback"}
Removing == {"unpolicy", "detach", "unmap", "rmfile", "rmdir"}

\* Which kind of operation is where.
Phases ==
    /\ pc \in {"idle", "down", "restore"} <=> kind = "none"
    /\ pc \in {"stage", "write", "publish"} => kind = "create"
    /\ pc \in Installing => kind \in {"create", "viable"}
    /\ pc \in Removing => kind \in {"create", "delete", "stale"}
    /\ pc \in Working => rec \in Recs
    /\ pc = "down" => records = [a \in Attachments |-> None]

Restoring == pc = "restore" \/ kind \in {"stale", "viable"}
Serving == pc = "idle" \/ kind \in {"create", "delete"}

\* A record is stored under its own id, and owners on disk are unique.
DiskOK ==
    /\ \A i \in Ids : disk[i] \in Recs => disk[i].id = i
    /\ \A i, j \in Ids : disk[i] \in Recs /\ disk[j] \in Recs /\ i # j =>
        /\ disk[i].att # disk[j].att
        /\ Index(disk[i]) # Index(disk[j])
        /\ disk[i].ips \cap disk[j].ips = {}

\* The same in memory, where the indexes know every record.
MemoryOK ==
    /\ \A a \in Attachments : records[a] # None =>
        /\ records[a].att = a
        /\ records[a].id \in ids
        /\ \A ip \in records[a].ips : addresses[ip] = a
    /\ \A a, b \in Attachments : records[a] # None /\ records[b] # None /\ a # b =>
        /\ records[a].id # records[b].id
        /\ Index(records[a]) # Index(records[b])

\* While requests are served, the manager knows every record on disk.
ServingOK ==
    Serving => \A i \in Ids : disk[i] \in Recs => records[disk[i].att] = disk[i]

\* While restoring, a record on disk is registered or still to be handled.
RestoringOK ==
    Restoring =>
        /\ stale # {} => \A a \in Attachments : records[a] = None
        /\ stale \cap viable = {}
        /\ \A i \in Ids : disk[i] \in Recs =>
            disk[i] \in stale \cup viable \/ records[disk[i].att] = disk[i]
        /\ \A a \in Attachments : records[a] # None => disk[records[a].id] = records[a]
        /\ \A r \in stale : disk[r.id] \in Recs => disk[r.id] = r
        /\ \A r \in viable :
            /\ disk[r.id] = r
            /\ r.id \in ids
            /\ \A ip \in r.ips : addresses[ip] = r.att

\* What the operation in progress has established.
RecordOK ==
    /\ pc \in {"stage", "write"} =>
        /\ rec.id \in ids
        /\ records[rec.att] = None
        /\ \A a \in Attachments : records[a] # None =>
            records[a].id # rec.id /\ Index(records[a]) # Index(rec)
        /\ \A ip \in rec.ips : addresses[ip] = None
    /\ kind \in {"create", "delete"} /\ pc \notin {"stage", "write"} =>
        records[rec.att] = rec
    /\ kind = "stale" => rec \in stale
    /\ kind = "viable" => rec \in viable /\ stale = {}
    /\ pc \in Installing => disk[rec.id] = rec
    /\ pc = "rmdir" => disk[rec.id] = Empty

ProgressOK ==
    /\ pc \in Installing \cup {"unmap"} => todo \subseteq rec.ips
    /\ pc = "unmap" => \A ip \in rec.ips \ todo : fwd[ip] = None
    /\ pc \in {"rmfile", "rmdir"} => \A ip \in rec.ips : fwd[ip] = None
    /\ pc \in {"unmap", "rmfile", "rmdir"} => tcx[rec.att] = None

\* A snapshot belongs to a record on disk, like the entry it was taken from.
SavedOK ==
    /\ pc \in Installing => \A ip \in Addrs : saved[ip] # None =>
        \E i \in Ids : disk[i] \in Recs /\ ip \in disk[i].ips /\ saved[ip] = Info(disk[i])
    /\ pc \notin Installing \cup Removing => saved = [ip \in Addrs |-> None]

FwdOK ==
    \A ip \in Addrs : fwd[ip] # None =>
        \E i \in Ids : disk[i] \in Recs /\ ip \in disk[i].ips /\ fwd[ip] = Info(disk[i])

TcxOK ==
    \A a \in Attachments : tcx[a] # None =>
        \E i \in Ids : disk[i] \in Recs /\ disk[i].att = a

IInv ==
    /\ TypeOK /\ Phases /\ DiskOK /\ MemoryOK /\ ServingOK /\ RestoringOK
    /\ RecordOK /\ ProgressOK /\ SavedOK /\ FwdOK /\ TcxOK

\* The invariant as the lemmas state it: its parts are opened where they are used.
Sound == IInv

USE EndpointsConstants

LEMMA PutType ==
    ASSUME NEW X, NEW Y, NEW f \in [X -> Y], NEW S, NEW v \in Y
    PROVE  Put(f, S, v) \in [X -> Y]
BY DEF Put

\* The directory of the operation's id holds its record, or nothing.
LEMMA OwnDirectory ==
    ASSUME Sound, pc \in Removing, disk[rec.id] \in Recs
    PROVE  disk[rec.id] = rec
<1>i. IInv
  BY DEF Sound
<1> USE <1>i
<1>1. rec \in Recs /\ rec.id \in Ids /\ rec.att \in Attachments
  BY DEF IInv, Phases, Removing, Working, Recs
<1>2. disk[rec.id].id = rec.id
  BY <1>1 DEF IInv, DiskOK
<1>3. CASE kind = "stale"
  BY <1>1, <1>3 DEF IInv, RestoringOK, Restoring, RecordOK
<1>4. CASE kind \in {"create", "delete"}
  <2>1. records[rec.att] = rec /\ rec.att \in Attachments
    BY <1>1, <1>4 DEF IInv, RecordOK, Removing
  <2>2. records[disk[rec.id].att] = disk[rec.id] /\ disk[rec.id].att \in Attachments
    BY <1>1, <1>4 DEF IInv, ServingOK, Serving, Recs
  <2>3. rec # None /\ disk[rec.id] # None
    BY <1>1
  <2> QED BY <2>1, <2>2, <2>3, <1>2 DEF IInv, MemoryOK
<1> QED BY <1>3, <1>4 DEF IInv, Phases

LEMMA InitIInv == Init => Sound
BY DEF Init, Sound, IInv, TypeOK, Phases, DiskOK, MemoryOK, ServingOK,
       RestoringOK, RecordOK, ProgressOK, SavedOK, FwdOK, TcxOK, Working,
       Installing, Removing

\* Removing directories other than through their records keeps owners unique.
LEMMA DiskShrinks ==
    ASSUME DiskOK, \A i \in Ids : disk'[i] \in Recs => disk'[i] = disk[i]
    PROVE  DiskOK'
BY DEF DiskOK

\* The process is gone and the disk and the kernel are as they should be.
LEMMA DieIInv ==
    ASSUME Sound, Die, DiskOK', FwdOK', TcxOK',
           disk' \in [Ids -> Recs \cup {None, Empty}],
           staging' \subseteq Ids,
           link' \in [Attachments -> Links \cup {None}],
           fwd' \in [Addrs -> Infos \cup {None}],
           tcx' \in [Attachments -> Links \cup {None, Dead}],
           policy' \in [Indices -> Ids \cup {0}]
    PROVE  Sound'
<1> SUFFICES ASSUME IInv PROVE IInv'
  BY DEF Sound
<1>1. TypeOK'
  BY DEF TypeOK, Die, EndOp, Working
<1>2. Phases'
  BY DEF Phases, Die, EndOp, Working, Installing, Removing
<1>4. MemoryOK'
  BY DEF MemoryOK, Die
<1>5. ServingOK' /\ RestoringOK'
  BY DEF ServingOK, RestoringOK, Serving, Restoring, Die, EndOp
<1>7. RecordOK' /\ ProgressOK' /\ SavedOK'
  BY DEF RecordOK, ProgressOK, SavedOK, Die, EndOp, Installing
<1> QED BY <1>1, <1>2, <1>4, <1>5, <1>7 DEF IInv

\* What an exit leaves in the kernel still belongs to the disk.
LEMMA ExitKernel ==
    ASSUME Sound, KernelAfterExit,
           \A i \in Ids : disk[i] \in Recs => disk'[i] = disk[i]
    PROVE  /\ FwdOK' /\ TcxOK'
           /\ fwd' \in [Addrs -> Infos \cup {None}]
           /\ tcx' \in [Attachments -> Links \cup {None, Dead}]
           /\ policy' \in [Indices -> Ids \cup {0}]
<1>i. IInv
  BY DEF Sound
<1> USE <1>i
<1>1. FwdOK'
  BY DEF FwdOK, IInv, KernelAfterExit
<1>2. TcxOK'
  BY DEF TcxOK, IInv, KernelAfterExit
<1> QED BY <1>1, <1>2 DEF TypeOK, IInv, KernelAfterExit

\* create or delete fails: the server is idle and remembers the endpoint.
LEMMA FailedIInv ==
    ASSUME Sound, kind \in {"create", "delete"}, EndOp("idle"),
           UNCHANGED <<memory, kernel, stale, viable>>,
           staging' \subseteq Ids,
           disk' \in [Ids -> Recs \cup {None, Empty}],
           \A i \in Ids : disk'[i] \in Recs <=> disk[i] \in Recs,
           \A i \in Ids : disk[i] \in Recs => disk'[i] = disk[i]
    PROVE  Sound'
<1> SUFFICES ASSUME IInv PROVE IInv'
  BY DEF Sound
<1>1. TypeOK'
  BY DEF TypeOK, IInv, EndOp, kernel, memory, Working
<1>2. Phases'
  BY DEF Phases, EndOp, Working, Installing, Removing
<1>3. DiskOK'
  BY DiskShrinks DEF IInv
<1>4. MemoryOK'
  BY DEF MemoryOK, IInv, memory
<1>5. ServingOK'
  BY DEF ServingOK, Serving, IInv, memory
<1>6. RestoringOK'
  BY DEF RestoringOK, Restoring, EndOp
<1>7. RecordOK' /\ ProgressOK' /\ SavedOK'
  BY DEF RecordOK, ProgressOK, SavedOK, EndOp, Installing
<1>8. FwdOK'
  BY DEF FwdOK, IInv, kernel
<1>9. TcxOK'
  BY DEF TcxOK, IInv, kernel
<1> QED BY <1>1, <1>2, <1>3, <1>4, <1>5, <1>6, <1>7, <1>8, <1>9 DEF IInv

LEMMA OpFailsIInv ==
    ASSUME Sound, OpFails, pc \in Working,
           staging' \subseteq Ids,
           disk' \in [Ids -> Recs \cup {None, Empty}],
           \A i \in Ids : disk'[i] \in Recs <=> disk[i] \in Recs,
           \A i \in Ids : disk[i] \in Recs => disk'[i] = disk[i]
    PROVE  Sound'
<1>i. IInv
  BY DEF Sound
<1> USE <1>i
<1>1. CASE kind \in {"create", "delete"}
  BY <1>1, FailedIInv DEF OpFails
<1>2. CASE kind \notin {"create", "delete"}
  <2>1. Die /\ KernelAfterExit /\ link' = link
    BY <1>2 DEF OpFails
  <2>2. DiskOK'
    BY DiskShrinks DEF IInv
  <2>3. link' \in [Attachments -> Links \cup {None}]
    BY <2>1 DEF IInv, TypeOK
  <2> QED BY <2>1, <2>2, <2>3, ExitKernel, DieIInv
<1> QED BY <1>1, <1>2

\* The record's directory is gone: its indexes are forgotten.
LEMMA RemovedIInv ==
    ASSUME Sound, pc \in {"rmfile", "rmdir"}, Removed,
           UNCHANGED <<staging, kernel>>,
           disk' \in [Ids -> Recs \cup {None, Empty}],
           disk[rec.id] \notin Recs, disk'[rec.id] \notin Recs,
           \A i \in Ids : i # rec.id => disk'[i] = disk[i]
    PROVE  Sound'
<1> SUFFICES ASSUME IInv PROVE IInv'
  BY DEF Sound
<1>a. /\ rec \in Recs /\ rec.id \in Ids /\ rec.att \in Attachments
      /\ rec.ips \subseteq Addrs /\ rec # None
      /\ kind \in {"create", "delete", "stale"}
  BY DEF Phases, Recs, IInv, Working, Removing
<1>b. /\ \A i \in Ids : disk'[i] \in Recs <=> disk[i] \in Recs
      /\ \A i \in Ids : disk[i] \in Recs => disk'[i] = disk[i] /\ i # rec.id
  BY <1>a
<1>c. DiskOK'
  BY <1>b, DiskShrinks DEF IInv
<1>d. FwdOK' /\ TcxOK'
  BY <1>b DEF FwdOK, TcxOK, IInv, kernel
<1>e. RecordOK' /\ ProgressOK' /\ SavedOK'
  BY <1>a DEF RecordOK, ProgressOK, SavedOK, Removed, EndOp, Installing
<1>1. CASE kind = "stale"
  <2>1. TypeOK' /\ Phases'
    BY <1>a, <1>1 DEF TypeOK, Phases, IInv, Removed, EndOp, kernel, memory,
           Working, Installing, Removing
  <2>2. MemoryOK' /\ ServingOK'
    BY <1>a, <1>1 DEF MemoryOK, ServingOK, Serving, IInv, Removed, EndOp, memory
  <2>3. RestoringOK'
    <3>1. \A i \in Ids : disk'[i] \in Recs =>
            disk'[i] \in stale' \cup viable' \/ records'[disk'[i].att] = disk'[i]
      BY <1>a, <1>b, <1>1 DEF RestoringOK, Restoring, DiskOK, IInv, Removed,
             memory
    <3>2. \A b \in Attachments : records'[b] # None => disk'[records'[b].id] = records'[b]
      BY <1>a, <1>1 DEF RestoringOK, Restoring, RecordOK, IInv, Removed, memory
    <3>3. \A r \in stale' : disk'[r.id] \in Recs => disk'[r.id] = r
      <4>1. \A r \in stale' : r \in stale /\ r.id \in Ids
        BY <1>1 DEF TypeOK, Recs, IInv, Removed
      <4>2. \A r \in stale : disk[r.id] \in Recs => disk[r.id] = r
        BY <1>1 DEF RestoringOK, Restoring, IInv
      <4> QED BY <1>b, <4>1, <4>2
    <3>4. \A r \in viable' : /\ disk'[r.id] = r
                              /\ r.id \in ids'
                              /\ \A ip \in r.ips : addresses'[ip] = r.att
      <4>1. \A r \in viable : r \in Recs /\ r.id \in Ids
        BY DEF TypeOK, Recs, IInv
      <4> QED BY <1>a, <1>b, <1>1, <4>1 DEF RestoringOK, Restoring, IInv,
                     Removed, memory
    <3>5. /\ stale' # {} => \A b \in Attachments : records'[b] = None
          /\ stale' \cap viable' = {}
      BY <1>a, <1>1 DEF RestoringOK, Restoring, IInv, Removed, memory
    <3> QED BY <3>1, <3>2, <3>3, <3>4, <3>5 DEF RestoringOK
  <2> QED BY <1>c, <1>d, <1>e, <2>1, <2>2, <2>3 DEF IInv
<1>2. CASE kind # "stale"
  <2>0. records[rec.att] = rec
    BY <1>a, <1>2 DEF RecordOK, IInv
  <2>a. /\ addresses' = Put(addresses, rec.ips, None)
        /\ records' = [records EXCEPT ![rec.att] = None]
        /\ ids' = ids \ {rec.id}
        /\ pc' = "idle" /\ kind' = "none"
    BY <1>2 DEF Removed, EndOp
  <2>1. TypeOK'
    <3>1. ipam' \in [Addrs -> Owners \cup {None}]
      <4>1. ipam \in [Addrs -> Owners \cup {None}]
        BY DEF TypeOK, IInv
      <4>2. Put(ipam, rec.ips, None) \in [Addrs -> Owners \cup {None}]
        BY Zenon, <4>1, PutType DEF IInv, Removed, EndOp, kernel, memory, Working,
               Installing, Removing
      <4>3. ipam' \in {ipam, Put(ipam, rec.ips, None)}
        BY <1>2 DEF Removed
      <4> QED BY <4>1, <4>2, <4>3
    <3>2. addresses' \in [Addrs -> Attachments \cup {None}]
      BY ZenonT(60), <2>a, PutType DEF TypeOK, IInv, Removed, EndOp, kernel, memory,
             Working, Installing, Removing
    <3> QED BY <1>a, <1>2, <3>1, <3>2 DEF TypeOK, IInv, Removed, EndOp, kernel,
                   Working
  <2>2. Phases' /\ RestoringOK'
    BY <1>2 DEF Phases, RestoringOK, Restoring, Removed, EndOp, Working,
           Installing, Removing
  <2>3. MemoryOK'
    <3>1. ASSUME NEW b \in Attachments, records'[b] # None
          PROVE  /\ b # rec.att /\ records'[b] = records[b]
                 /\ records[b].id # rec.id /\ records[b] \in Recs
                 /\ \A ip \in records[b].ips : ip \in Addrs /\ ip \notin rec.ips
      BY <1>a, <2>0, <2>a, <3>1 DEF MemoryOK, TypeOK, Recs, IInv
    <3>2. \A ip \in Addrs \ rec.ips : addresses'[ip] = addresses[ip]
      BY <2>a DEF Put, TypeOK, IInv
    <3> QED BY <2>a, <3>1, <3>2 DEF MemoryOK, IInv
  <2>4. ServingOK'
    <3>1. ASSUME NEW i \in Ids, disk'[i] \in Recs
          PROVE  records'[disk'[i].att] = disk'[i]
      <4>1. /\ disk'[i] = disk[i] /\ disk[i] \in Recs /\ i # rec.id
            /\ disk[i].att \in Attachments /\ disk[i].id = i
        BY Zenon, <1>b, <3>1 DEF DiskOK, Recs, IInv, Removed, EndOp, kernel, memory,
               Working, Installing, Removing
      <4>2. records[disk[i].att] = disk[i]
        BY <1>a, <1>2, <4>1 DEF ServingOK, Serving, IInv
      <4>3. disk[i].att # rec.att
        BY <2>0, <4>1, <4>2
      <4> QED BY <2>a, <4>1, <4>2, <4>3
    <3> QED BY <3>1 DEF ServingOK
  <2> QED BY <1>c, <1>d, <1>e, <2>1, <2>2, <2>3, <2>4 DEF IInv
<1> QED BY <1>1, <1>2

\* A step that leaves the records and what is known about them alone.
LEMMA KeepsDisk ==
    ASSUME Sound, UNCHANGED <<disk, records, addresses, stale, viable>>, ids \subseteq ids',
           Serving' => Serving, Restoring' => Restoring
    PROVE  DiskOK' /\ ServingOK' /\ RestoringOK'
<1>i. IInv
  BY DEF Sound
<1> USE <1>i
<1>1. DiskOK' /\ ServingOK'
  BY DEF DiskOK, ServingOK, IInv
<1>2. RestoringOK'
  BY DEF RestoringOK, IInv
<1> QED BY <1>1, <1>2

LEMMA KeepsRecords ==
    ASSUME Sound, UNCHANGED <<disk, records, addresses, ids, stale, viable>>,
           Serving' => Serving, Restoring' => Restoring
    PROVE  DiskOK' /\ MemoryOK' /\ ServingOK' /\ RestoringOK'
<1>i. IInv
  BY DEF Sound
<1> USE <1>i
<1>1. MemoryOK'
  BY DEF IInv, MemoryOK
<1> QED BY <1>1, KeepsDisk

LEMMA CreateIInv ==
    ASSUME Sound, NEW a \in Attachments, NEW l \in Links, NEW ips \in SUBSET Addrs \ {{}}, Create(a, l, ips)
    PROVE  Sound'
<1> SUFFICES ASSUME IInv PROVE IInv'
  BY DEF Sound
<1>1. TypeOK'
  BY DEF TypeOK, Recs, IInv, Create, durable, kernel, Working
<1>2. Phases'
  BY DEF Phases, Recs, Create
<1>3. DiskOK' /\ ServingOK' /\ RestoringOK'
  BY KeepsDisk DEF Serving, Restoring, Create, durable
<1>4. MemoryOK'
  BY DEF MemoryOK, IInv, Create
<1>7. RecordOK'
  <2>1. PICK id \in Ids :
           /\ LowestFree(id)
           /\ rec' = [id |-> id, att |-> a, link |-> l, ips |-> ips]
           /\ ids' = ids \cup {id}
    BY DEF Create
  <2>2. rec'.id = id /\ rec'.att = a /\ rec'.ips = ips /\ rec'.link = l
    BY <2>1
  <2>3. ASSUME NEW b \in Attachments, records[b] # None
        PROVE  records[b].id # id /\ IndexOf[records[b].link] # IndexOf[l]
    BY <2>1, <2>3 DEF TypeOK, MemoryOK, Index, IInv, Create, InterfaceFree,
           LowestFree, Live
  <2> QED BY <2>1, <2>2, <2>3 DEF RecordOK, Index, Create, Accepted, Installing
<1>8. ProgressOK' /\ SavedOK'
  BY DEF ProgressOK, SavedOK, IInv, Create, Installing, Removing
<1>10. FwdOK' /\ TcxOK'
  BY DEF FwdOK, TcxOK, IInv, Create, durable, kernel
<1> QED BY <1>1, <1>2, <1>3, <1>4, <1>7, <1>8, <1>10 DEF IInv

LEMMA StageIInv ==
    ASSUME Sound, Stage
    PROVE  Sound'
<1> SUFFICES ASSUME IInv PROVE IInv'
  BY DEF Sound
<1>1. TypeOK'
  BY DEF TypeOK, Recs, IInv, Stage, kernel, memory, Working
<1>2. Phases'
  BY DEF Phases, IInv, Stage, Working
<1>3. DiskOK' /\ MemoryOK' /\ ServingOK' /\ RestoringOK'
  BY KeepsRecords DEF Serving, Restoring, Stage, memory
<1>7. RecordOK'
  BY DEF RecordOK, IInv, Stage, memory, Installing
<1>8. ProgressOK' /\ SavedOK'
  BY DEF ProgressOK, SavedOK, IInv, Stage, Installing, Removing
<1>10. FwdOK' /\ TcxOK'
  BY DEF FwdOK, TcxOK, IInv, Stage, kernel
<1> QED BY <1>1, <1>2, <1>3, <1>7, <1>8, <1>10 DEF IInv

LEMMA StageFailsIInv ==
    ASSUME Sound, StageFails
    PROVE  Sound'
<1> SUFFICES ASSUME IInv PROVE IInv'
  BY DEF Sound
<1>1. TypeOK'
  BY DEF TypeOK, IInv, StageFails, CreateRefused, EndOp, kernel, Working
<1>2. Phases'
  BY DEF Phases, StageFails, CreateRefused, EndOp, Working, Installing, Removing
<1>3. DiskOK'
  BY DEF DiskOK, IInv, StageFails, CreateRefused
<1>4. MemoryOK'
  BY DEF MemoryOK, RecordOK, IInv, StageFails, CreateRefused
<1>5. ServingOK'
  BY DEF ServingOK, Serving, Phases, IInv, StageFails, CreateRefused
<1>6. RestoringOK'
  BY DEF RestoringOK, Restoring, StageFails, CreateRefused, EndOp
<1>7. RecordOK'
  BY DEF RecordOK, StageFails, CreateRefused, EndOp, Installing
<1>8. ProgressOK'
  BY DEF ProgressOK, StageFails, CreateRefused, EndOp
<1>9. SavedOK'
  BY DEF SavedOK, StageFails, CreateRefused, EndOp
<1>10. FwdOK'
  BY DEF FwdOK, IInv, StageFails, CreateRefused, kernel
<1>11. TcxOK'
  BY DEF TcxOK, IInv, StageFails, CreateRefused, kernel
<1> QED BY <1>1, <1>2, <1>3, <1>4, <1>5, <1>6, <1>7, <1>8, <1>9, <1>10, <1>11
           DEF IInv

\* The other routes, the CNI plugin and the policy thread do not touch what
\* the invariant is about.
LEMMA EnvironmentIInv ==
    ASSUME Sound, TypeOK', UNCHANGED <<disk, fwd, records, addresses, ids, operation>>,
           \A a \in Attachments : tcx'[a] = None <=> tcx[a] = None
    PROVE  Sound'
<1> SUFFICES ASSUME IInv PROVE IInv'
  BY DEF Sound
<1>1. Phases' /\ RecordOK'
  BY DEF Phases, RecordOK, IInv, operation
<1>2. DiskOK' /\ MemoryOK' /\ ServingOK' /\ RestoringOK'
  BY KeepsRecords DEF Serving, Restoring, operation
<1>3. ProgressOK' /\ SavedOK'
  BY ZenonT(60) DEF Phases, Working, Installing, Recs, ProgressOK, SavedOK, Info, IInv,
         operation
<1>4. FwdOK' /\ TcxOK'
  BY DEF FwdOK, TcxOK, IInv
<1> QED BY <1>1, <1>2, <1>3, <1>4 DEF IInv

LEMMA AllocateIInv ==
    ASSUME Sound, NEW o \in Owners, NEW ip \in Addrs, Allocate(o, ip)
    PROVE  Sound'
<1>i. IInv
  BY DEF Sound
<1> USE <1>i
<1>1. TypeOK'
  BY DEF IInv, TypeOK, Allocate, durable, kernel, operation
<1> QED BY <1>1, EnvironmentIInv DEF Allocate, durable, kernel

LEMMA ReleaseIInv ==
    ASSUME Sound, NEW ip \in Addrs, Release(ip)
    PROVE  Sound'
<1>i. IInv
  BY DEF Sound
<1> USE <1>i
<1>1. TypeOK'
  BY DEF IInv, TypeOK, Release, durable, kernel, operation
<1> QED BY <1>1, EnvironmentIInv DEF Release, durable, kernel

LEMMA ExpireIInv ==
    ASSUME Sound, NEW ip \in Addrs, Expire(ip)
    PROVE  Sound'
<1>i. IInv
  BY DEF Sound
<1> USE <1>i
<1>1. TypeOK'
  BY DEF IInv, TypeOK, Expire, durable, kernel, operation
<1> QED BY <1>1, EnvironmentIInv DEF Expire, durable, kernel

LEMMA AddLinkIInv ==
    ASSUME Sound, NEW a \in Attachments, NEW l \in Links, AddLink(a, l)
    PROVE  Sound'
<1>i. IInv
  BY DEF Sound
<1> USE <1>i
<1>1. TypeOK'
  BY DEF IInv, TypeOK, AddLink, durable, memory, operation
<1> QED BY <1>1, EnvironmentIInv DEF AddLink, durable, memory

LEMMA LoseLinkIInv ==
    ASSUME Sound, NEW a \in Attachments, LoseLink(a)
    PROVE  Sound'
<1>i. IInv
  BY DEF Sound
<1> USE <1>i
<1>1. TypeOK'
  BY DEF IInv, TypeOK, LoseLink, durable, memory, operation
<1> QED BY <1>1, EnvironmentIInv DEF LoseLink, durable, memory

LEMMA WritePolicyIInv ==
    ASSUME Sound, NEW x \in Indices, NEW id \in Ids, WritePolicy(x, id)
    PROVE  Sound'
<1>i. IInv
  BY DEF Sound
<1> USE <1>i
<1>1. TypeOK'
  BY DEF IInv, TypeOK, WritePolicy, durable, memory, operation
<1> QED BY <1>1, EnvironmentIInv DEF WritePolicy, durable, memory

LEMMA PrunePolicyIInv ==
    ASSUME Sound, NEW x \in Indices, PrunePolicy(x)
    PROVE  Sound'
<1>i. IInv
  BY DEF Sound
<1> USE <1>i
<1>1. TypeOK'
  BY DEF IInv, TypeOK, PrunePolicy, durable, memory, operation
<1> QED BY <1>1, EnvironmentIInv DEF PrunePolicy, durable, memory

=============================================================================
