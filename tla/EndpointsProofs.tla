-------------------------- MODULE EndpointsProofs ---------------------------
(***************************************************************************)
(* Deletion, restore and the deaths of the agent and the node keep the     *)
(* invariant, so every step does; what follows for any attachments,        *)
(* addresses, links and id limit.                                          *)
(***************************************************************************)
EXTENDS EndpointsCreate

USE EndpointsConstants

LEMMA DeleteIInv ==
    ASSUME Sound, NEW a \in Attachments, Delete(a)
    PROVE  Sound'
<1> SUFFICES ASSUME IInv PROVE IInv'
  BY DEF Sound
<1>1. TypeOK'
  BY DEF TypeOK, IInv, Delete, durable, kernel, Working
<1>2. Phases'
  BY DEF Phases, TypeOK, IInv, Delete, Installing
<1>3. DiskOK' /\ MemoryOK' /\ ServingOK' /\ RestoringOK'
  BY KeepsRecords DEF Serving, Restoring, Delete, durable
<1>7. RecordOK'
  BY DEF RecordOK, MemoryOK, IInv, Delete, Installing
<1>8. ProgressOK' /\ SavedOK'
  BY DEF ProgressOK, SavedOK, Delete, Installing, Removing
<1>10. FwdOK' /\ TcxOK'
  BY DEF FwdOK, TcxOK, IInv, Delete, durable, kernel
<1> QED BY <1>1, <1>2, <1>3, <1>7, <1>8, <1>10 DEF IInv

LEMMA RemovePolicyIInv ==
    ASSUME Sound, RemovePolicy
    PROVE  Sound'
<1> SUFFICES ASSUME IInv PROVE IInv'
  BY DEF Sound
<1>1. TypeOK'
  BY Zenon DEF TypeOK, Recs, Infos, IInv, RemovePolicy, Indices, durable, kernel,
         memory, operation, Working, Installing, Removing
<1>2. Phases'
  BY DEF Phases, IInv, RemovePolicy, Working, Installing, Removing
<1>3. DiskOK' /\ MemoryOK' /\ ServingOK' /\ RestoringOK'
  BY KeepsRecords DEF Serving, Restoring, RemovePolicy, durable, memory
<1>7. RecordOK'
  BY DEF RecordOK, IInv, RemovePolicy, memory, Installing
<1>8. ProgressOK' /\ SavedOK'
  BY DEF ProgressOK, SavedOK, RemovePolicy, Installing, Removing
<1>10. FwdOK' /\ TcxOK'
  BY DEF FwdOK, TcxOK, IInv, RemovePolicy, durable
<1> QED BY <1>1, <1>2, <1>3, <1>7, <1>8, <1>10 DEF IInv

LEMMA DetachIInv ==
    ASSUME Sound, Detach
    PROVE  Sound'
<1> SUFFICES ASSUME IInv PROVE IInv'
  BY DEF Sound
<1>1. TypeOK'
  BY DEF TypeOK, Recs, IInv, Detach, durable, Working
<1>2. Phases'
  BY DEF Phases, IInv, Detach, Working, Installing, Removing
<1>3. DiskOK' /\ MemoryOK' /\ ServingOK' /\ RestoringOK'
  BY KeepsRecords DEF Serving, Restoring, Detach, durable
<1>7. RecordOK'
  BY DEF RecordOK, IInv, Detach, Installing
<1>8. ProgressOK'
  BY DEF ProgressOK, TypeOK, Recs, IInv, Detach
<1>9. SavedOK'
  BY DEF SavedOK, Detach, Installing, Removing
<1>10. FwdOK' /\ TcxOK'
  BY DEF FwdOK, TcxOK, IInv, Detach, durable
<1> QED BY <1>1, <1>2, <1>3, <1>7, <1>8, <1>9, <1>10 DEF IInv

LEMMA UnmapIInv ==
    ASSUME Sound, NEW ip \in Addrs, Unmap(ip)
    PROVE  Sound'
<1> SUFFICES ASSUME IInv PROVE IInv'
  BY DEF Sound
<1>1. TypeOK'
  BY DEF TypeOK, IInv, Unmap, durable, memory
<1>2. Phases'
  BY DEF Phases, IInv, Unmap
<1>3. DiskOK' /\ MemoryOK' /\ ServingOK' /\ RestoringOK'
  BY KeepsRecords DEF Serving, Restoring, Unmap, durable, memory
<1>7. RecordOK'
  BY DEF RecordOK, IInv, Unmap, durable, memory
<1>8. ProgressOK' /\ SavedOK'
  BY DEF ProgressOK, SavedOK, TypeOK, IInv, Unmap, durable
<1>10. FwdOK' /\ TcxOK'
  BY DEF FwdOK, TcxOK, IInv, Unmap, durable
<1> QED BY <1>1, <1>2, <1>3, <1>7, <1>8, <1>10 DEF IInv

LEMMA UninstalledIInv ==
    ASSUME Sound, Uninstalled
    PROVE  Sound'
<1> SUFFICES ASSUME IInv PROVE IInv'
  BY DEF Sound
<1>1. TypeOK'
  BY DEF TypeOK, Recs, IInv, Uninstalled, durable, memory, Working
<1>2. Phases'
  BY DEF Phases, IInv, Uninstalled, Working, Installing, Removing
<1>3. DiskOK' /\ MemoryOK' /\ ServingOK' /\ RestoringOK'
  BY KeepsRecords DEF Serving, Restoring, Uninstalled, durable, memory
<1>7. RecordOK'
  BY DEF RecordOK, IInv, Uninstalled, memory, Installing
<1>8. ProgressOK' /\ SavedOK'
  BY DEF ProgressOK, SavedOK, IInv, Uninstalled, Installing, Removing
<1>10. FwdOK' /\ TcxOK'
  BY DEF FwdOK, TcxOK, IInv, Uninstalled, durable
<1> QED BY <1>1, <1>2, <1>3, <1>7, <1>8, <1>10 DEF IInv

LEMMA AlreadyRemovedIInv ==
    ASSUME Sound, AlreadyRemoved
    PROVE  Sound'
<1>1. TypeOK
  BY DEF Sound, IInv
<1> QED BY <1>1, RemovedIInv DEF AlreadyRemoved, durable, TypeOK

LEMMA RemoveFileIInv ==
    ASSUME Sound, RemoveFile
    PROVE  Sound'
<1> SUFFICES ASSUME IInv PROVE IInv'
  BY DEF Sound
<1>1. TypeOK'
  BY DEF TypeOK, Recs, IInv, RemoveFile, kernel, memory, Working
<1>2. Phases'
  BY DEF Phases, IInv, RemoveFile, Working, Installing, Removing
<1>3. DiskOK'
  <2>1. rec.id \in Ids
    BY DEF Phases, Recs, IInv, RemoveFile, Working
  <2>2. \A i \in Ids : disk'[i] \in Recs => disk'[i] = disk[i]
    BY <2>1 DEF RemoveFile
  <2> QED BY <2>2, DiskShrinks DEF IInv
<1>4. MemoryOK'
  BY DEF MemoryOK, IInv, RemoveFile, memory
<1>5. ServingOK'
  BY DEF ServingOK, Serving, IInv, RemoveFile, memory
<1>6. RestoringOK'
  <2>1. SUFFICES ASSUME kind = "stale"
                 PROVE  RestoringOK'
    BY DEF RestoringOK, Restoring, Phases, IInv, RemoveFile, Removing
  <2>2. /\ rec \in Recs /\ rec.id \in Ids /\ rec \in stale
        /\ disk' = [disk EXCEPT ![rec.id] = Empty]
        /\ disk \in [Ids -> Recs \cup {None, Empty}]
        /\ \A r \in viable : r \in Recs /\ r.id \in Ids
    BY <2>1 DEF Recs, RecordOK, TypeOK, IInv, RemoveFile
  <2>3. /\ \A i \in Ids : disk'[i] \in Recs => disk'[i] = disk[i]
        /\ \A i \in Ids : i # rec.id => disk'[i] = disk[i]
    BY <2>2
  <2>4. \A r \in viable : r.id # rec.id
    <3> SUFFICES ASSUME NEW r \in viable, r.id = rec.id
                 PROVE  FALSE
      OBVIOUS
    <3>1. disk[rec.id] = r
      BY <2>1 DEF RestoringOK, Restoring, IInv
    <3>2. disk[rec.id] = rec
      BY <2>2, <3>1, OwnDirectory DEF RemoveFile, Removing
    <3> QED BY <2>1, <2>2, <3>1, <3>2 DEF RestoringOK, Restoring, IInv
  <2>5. \A b \in Attachments : records[b] = None
    BY <2>1, <2>2 DEF RestoringOK, Restoring, IInv
  <2> QED BY <2>1, <2>2, <2>3, <2>4, <2>5 DEF RestoringOK, Restoring, IInv,
                 RemoveFile, memory
<1>7. RecordOK'
  BY DEF RecordOK, TypeOK, Recs, IInv, RemoveFile, memory, Installing
<1>8. ProgressOK'
  BY DEF ProgressOK, IInv, RemoveFile, kernel, Installing
<1>9. SavedOK'
  BY DEF SavedOK, RemoveFile, Installing, Removing
<1>10. FwdOK'
  <2>1. rec \in Recs /\ rec.id \in Ids
    BY DEF Phases, Recs, IInv, RemoveFile, Working
  <2>2. ASSUME NEW ip \in Addrs, fwd[ip] # None
        PROVE  \E i \in Ids : /\ disk'[i] \in Recs /\ ip \in disk'[i].ips
                              /\ fwd[ip] = Info(disk'[i])
    <3>1. PICK i \in Ids : disk[i] \in Recs /\ ip \in disk[i].ips /\ fwd[ip] = Info(disk[i])
      BY <2>2 DEF FwdOK, IInv
    <3>2. i # rec.id
      BY <2>1, <2>2, <3>1, OwnDirectory DEF ProgressOK, IInv, RemoveFile,
             Removing
    <3>3. disk'[i] = disk[i]
      BY <2>1, <3>2 DEF RemoveFile
    <3> QED BY <3>1, <3>3
  <2> QED BY <2>2 DEF FwdOK, RemoveFile, kernel
<1>11. TcxOK'
  BY OwnDirectory DEF TcxOK, ProgressOK, IInv, RemoveFile, kernel, Removing
<1> QED BY <1>1, <1>2, <1>3, <1>4, <1>5, <1>6, <1>7, <1>8, <1>9, <1>10, <1>11
           DEF IInv

LEMMA RemoveDirIInv ==
    ASSUME Sound, RemoveDir
    PROVE  Sound'
<1>i. IInv
  BY DEF Sound
<1> USE <1>i
<1>1. rec \in Recs /\ rec.id \in Ids /\ disk[rec.id] = Empty
  BY DEF RemoveDir, IInv, Phases, Working, Recs, RecordOK
<1>2. /\ disk' \in [Ids -> Recs \cup {None, Empty}]
      /\ disk'[rec.id] = None
      /\ \A i \in Ids : i # rec.id => disk'[i] = disk[i]
  BY <1>1 DEF RemoveDir, IInv, TypeOK
<1> QED BY <1>1, <1>2, RemovedIInv DEF RemoveDir

LEMMA RemoveFailsIInv ==
    ASSUME Sound, RemoveFails
    PROVE  Sound'
<1>i. IInv
  BY DEF Sound
<1> USE <1>i
<1>1. rec \in Recs /\ rec.id \in Ids
  BY DEF RemoveFails, IInv, Phases, Working, Recs
<1>2. disk \in [Ids -> Recs \cup {None, Empty}] /\ staging' \subseteq Ids
  BY DEF RemoveFails, IInv, TypeOK
<1>3. CASE disk' = disk
  BY <1>2, <1>3, OpFailsIInv DEF RemoveFails, Working
<1>4. CASE pc = "rmdir" /\ disk' = [disk EXCEPT ![rec.id] = None]
  <2>1. disk[rec.id] = Empty
    BY <1>4 DEF IInv, RecordOK
  <2>2. /\ disk' \in [Ids -> Recs \cup {None, Empty}]
        /\ \A i \in Ids : disk'[i] \in Recs <=> disk[i] \in Recs
        /\ \A i \in Ids : disk[i] \in Recs => disk'[i] = disk[i]
    BY <1>1, <1>2, <1>4, <2>1
  <2> QED BY <1>2, <2>2, OpFailsIInv DEF RemoveFails, Working
<1> QED BY <1>3, <1>4 DEF RemoveFails

LEMMA RolledBackIInv ==
    ASSUME Sound, RolledBack
    PROVE  Sound'
<1>i. IInv
  BY DEF Sound
<1> USE <1>i
<1>1. CASE kind = "create"
  <2> USE <1>1
  <2>1. TypeOK' /\ Phases'
    BY DEF TypeOK, Phases, IInv, RolledBack, durable, kernel, memory, Working
  <2>2. DiskOK' /\ MemoryOK'
    BY DEF DiskOK, MemoryOK, IInv, RolledBack, durable, memory
  <2>3. ServingOK' /\ RestoringOK'
    BY DEF ServingOK, RestoringOK, Serving, Restoring, IInv, RolledBack,
           durable, memory
  <2>4. RecordOK' /\ ProgressOK' /\ SavedOK'
    BY DEF RecordOK, ProgressOK, SavedOK, IInv, RolledBack, memory, Installing,
           Removing
  <2>5. FwdOK' /\ TcxOK'
    BY DEF FwdOK, TcxOK, IInv, RolledBack, durable, kernel
  <2>6. IInv'
    BY <2>1, <2>2, <2>3, <2>4, <2>5 DEF IInv
  <2> QED BY <2>6 DEF Sound
<1>2. CASE kind # "create"
  <2>1. disk' = disk /\ staging' = staging /\ pc \in Working /\ OpFails
    BY <1>2 DEF RolledBack, durable, Working
  <2>2. disk \in [Ids -> Recs \cup {None, Empty}] /\ staging \subseteq Ids
    BY DEF IInv, TypeOK
  <2> QED BY <2>1, <2>2, OpFailsIInv
<1> QED BY <1>1, <1>2

LEMMA RestoreStaleIInv ==
    ASSUME Sound, NEW r \in OnDisk, RestoreStale(r)
    PROVE  Sound'
<1> SUFFICES ASSUME IInv PROVE IInv'
  BY DEF Sound
<1>1. TypeOK'
  BY DEF TypeOK, IInv, RestoreStale, durable, kernel, memory, Working
<1>2. Phases'
  BY DEF Phases, TypeOK, IInv, RestoreStale, Installing
<1>3. DiskOK' /\ MemoryOK' /\ ServingOK' /\ RestoringOK'
  BY KeepsRecords DEF Serving, Restoring, RestoreStale, durable, memory
<1>7. RecordOK'
  BY DEF RecordOK, RestoreStale, Installing
<1>8. ProgressOK' /\ SavedOK'
  BY DEF ProgressOK, SavedOK, RestoreStale, Installing, Removing
<1>10. FwdOK' /\ TcxOK'
  BY DEF FwdOK, TcxOK, IInv, RestoreStale, durable, kernel
<1> QED BY <1>1, <1>2, <1>3, <1>7, <1>8, <1>10 DEF IInv

LEMMA RestoreViableIInv ==
    ASSUME Sound, NEW r \in OnDisk, RestoreViable(r)
    PROVE  Sound'
<1> SUFFICES ASSUME IInv PROVE IInv'
  BY DEF Sound
<1>1. TypeOK'
  BY DEF TypeOK, Recs, IInv, RestoreViable, durable, kernel, memory, Working
<1>2. Phases'
  BY DEF Phases, TypeOK, IInv, RestoreViable, Removing
<1>3. DiskOK' /\ MemoryOK' /\ ServingOK' /\ RestoringOK'
  BY KeepsRecords DEF Serving, Restoring, RestoreViable, durable, memory
<1>7. RecordOK'
  BY DEF RecordOK, RestoringOK, Restoring, IInv, RestoreViable, durable
<1>8. ProgressOK' /\ SavedOK'
  BY DEF ProgressOK, SavedOK, IInv, RestoreViable, Installing, Removing
<1>10. FwdOK' /\ TcxOK'
  BY DEF FwdOK, TcxOK, IInv, RestoreViable, durable, kernel
<1> QED BY <1>1, <1>2, <1>3, <1>7, <1>8, <1>10 DEF IInv

LEMMA ServeIInv ==
    ASSUME Sound, Serve
    PROVE  Sound'
<1> SUFFICES ASSUME IInv PROVE IInv'
  BY DEF Sound
<1>1. TypeOK'
  BY DEF TypeOK, IInv, Serve, durable, kernel, memory, Working
<1>2. Phases'
  BY DEF Phases, IInv, Serve, Working, Installing, Removing
<1>3. DiskOK'
  BY DEF DiskOK, IInv, Serve, durable
<1>4. MemoryOK'
  BY DEF MemoryOK, IInv, Serve, memory
<1>5. ServingOK'
  BY DEF ServingOK, RestoringOK, Restoring, IInv, Serve, durable, memory
<1>6. RestoringOK'
  BY DEF RestoringOK, Restoring, IInv, Serve, durable, memory
<1>7. RecordOK'
  BY DEF RecordOK, IInv, Serve, memory, Installing
<1>8. ProgressOK'
  BY DEF ProgressOK, Serve, Installing
<1>9. SavedOK'
  BY DEF SavedOK, IInv, Serve, Installing, Removing
<1>10. FwdOK'
  BY DEF FwdOK, IInv, Serve, durable, kernel
<1>11. TcxOK'
  BY DEF TcxOK, IInv, Serve, durable, kernel
<1> QED BY <1>1, <1>2, <1>3, <1>4, <1>5, <1>6, <1>7, <1>8, <1>9, <1>10, <1>11
           DEF IInv

LEMMA CrashIInv ==
    ASSUME Sound, Crash
    PROVE  Sound'
<1>i. IInv
  BY DEF Sound
<1> USE <1>i
<1>1. disk' = disk /\ staging' = staging /\ link' = link /\ Die /\ KernelAfterExit
  BY DEF Crash, durable
<1>2. /\ disk \in [Ids -> Recs \cup {None, Empty}] /\ staging \subseteq Ids
      /\ link \in [Attachments -> Links \cup {None}]
  BY DEF IInv, TypeOK
<1>3. DiskOK'
  BY <1>1, DiskShrinks DEF IInv
<1> QED BY <1>1, <1>2, <1>3, ExitKernel, DieIInv

LEMMA RebootIInv ==
    ASSUME Sound, Reboot
    PROVE  Sound'
<1>i. IInv
  BY DEF Sound
<1> USE <1>i
<1>1. PICK lost \in SUBSET Ids : disk' = Put(disk, lost, None)
  BY DEF Reboot
<1>2. disk \in [Ids -> Recs \cup {None, Empty}] /\ staging \subseteq Ids
  BY DEF IInv, TypeOK
<1>3. disk' \in [Ids -> Recs \cup {None, Empty}]
  BY ZenonT(60), <1>1, <1>2, PutType
<1>4. DiskOK'
  BY <1>1, <1>2, DiskShrinks DEF IInv, Put
<1>5. FwdOK' /\ TcxOK'
  BY DEF Reboot, FwdOK, TcxOK
<1>6. /\ staging' \subseteq Ids
      /\ link' \in [Attachments -> Links \cup {None}]
      /\ fwd' \in [Addrs -> Infos \cup {None}]
      /\ tcx' \in [Attachments -> Links \cup {None, Dead}]
      /\ policy' \in [Indices -> Ids \cup {0}]
  BY <1>2 DEF Reboot
<1> QED BY <1>3, <1>4, <1>5, <1>6, DieIInv DEF Reboot

\* Reading the disk: owners are unique, so each viable record gets its own
\* addresses, and no record is both stale and viable.
LEMMA RestoreIInv ==
    ASSUME Sound, Restore
    PROVE  Sound'
<1> SUFFICES ASSUME IInv PROVE IInv'
  BY DEF Sound
<1> DEFINE missing == {r \in OnDisk : link[r.att] = None}
           live == OnDisk \ missing
           OwnerAt(ip) == {r \in live : ip \in r.ips}
<1>1. /\ pc = "down" /\ pc' = "restore" /\ kind' = kind /\ kind = "none"
      /\ disk' = disk /\ records' = records /\ stale' = missing /\ viable' = live
      /\ ids' = {r.id : r \in live}
      /\ UNCHANGED <<staging, link, fwd, tcx, policy, deleting, leases, owned, rec,
                     todo, saved>>
  BY DEF Restore, Phases, IInv, durable, kernel
<1>2. \A a \in Attachments : records[a] = None
  BY <1>1 DEF Phases, IInv
<1>3. /\ OnDisk \subseteq Recs
      /\ \A r \in OnDisk : r.id \in Ids /\ disk[r.id] = r /\ r.att \in Attachments
  BY DEF OnDisk, DiskOK, Recs, IInv
<1>4. addresses' = [ip \in Addrs |-> IF OwnerAt(ip) = {} THEN None
                                    ELSE (CHOOSE r \in OwnerAt(ip) : TRUE).att]
  BY DEF Restore
<1>5. ASSUME NEW r \in live, NEW ip \in r.ips
      PROVE  addresses'[ip] = r.att
  <2>1. ip \in Addrs /\ r \in OwnerAt(ip)
    BY <1>3, <1>5 DEF Recs
  <2>2. \A s \in OwnerAt(ip) : s = r
    BY <1>3, <1>5 DEF DiskOK, IInv
  <2> QED BY <1>4, <2>1, <2>2
<1>6. addresses' \in [Addrs -> Attachments \cup {None}]
  <2>1. ASSUME NEW ip \in Addrs
        PROVE  addresses'[ip] \in Attachments \cup {None}
    BY <1>3, <1>4
  <2> QED BY <1>4, <2>1
<1>7. ipam' \in [Addrs -> Owners \cup {None}]
  BY <1>6 DEF Restore
<1>8. TypeOK'
  BY <1>1, <1>3, <1>6, <1>7 DEF TypeOK, IInv, Working
<1>9. Phases' /\ DiskOK' /\ MemoryOK' /\ ServingOK'
  BY <1>1, <1>2 DEF Phases, DiskOK, MemoryOK, ServingOK, Serving, IInv, Working,
         Installing, Removing
<1>10. RestoringOK'
  <2>1. \A i \in Ids : disk[i] \in Recs => disk[i] \in missing \cup live
    BY DEF OnDisk
  <2>2. \A r \in live : r.id \in ids'
    BY <1>1
  <2> QED BY <1>1, <1>2, <1>3, <1>5, <2>1, <2>2 DEF RestoringOK
<1>11. RecordOK' /\ ProgressOK' /\ SavedOK'
  BY <1>1 DEF RecordOK, ProgressOK, SavedOK, IInv, Installing, Removing
<1>12. FwdOK' /\ TcxOK'
  BY <1>1 DEF FwdOK, TcxOK, IInv
<1> QED BY <1>8, <1>9, <1>10, <1>11, <1>12 DEF IInv

LEMMA StutterIInv == Sound /\ UNCHANGED vars => Sound'
<1> SUFFICES ASSUME IInv, UNCHANGED vars PROVE IInv'
  BY DEF Sound
<1>1. TypeOK' /\ Phases'
  BY DEF TypeOK, Phases, IInv, vars, durable, kernel, memory, operation
<1>2. DiskOK' /\ MemoryOK'
  BY DEF DiskOK, MemoryOK, IInv, vars, durable, memory
<1>3. ServingOK' /\ RestoringOK'
  BY DEF ServingOK, RestoringOK, Serving, Restoring, IInv, vars, durable,
         memory, operation
<1>4. RecordOK' /\ ProgressOK'
  BY DEF RecordOK, ProgressOK, IInv, vars, durable, kernel, memory, operation
<1>5. SavedOK' /\ FwdOK' /\ TcxOK'
  BY ZenonT(60) DEF SavedOK, FwdOK, TcxOK, IInv, vars, durable, kernel, operation
<1> QED BY <1>1, <1>2, <1>3, <1>4, <1>5 DEF IInv

LEMMA NextIInv == Sound /\ [Next]_vars => Sound'
<1> SUFFICES ASSUME Sound, Next PROVE Sound'
  BY StutterIInv
<1>1. CASE \E o \in Owners, ip \in Addrs : Allocate(o, ip)
  BY <1>1, AllocateIInv
<1>2. CASE \E ip \in Addrs : Release(ip) \/ Expire(ip) \/ Upsert(ip)
                              \/ RestoreSnapshot(ip) \/ Unmap(ip)
  BY <1>2, ReleaseIInv, ExpireIInv, UpsertIInv, RestoreSnapshotIInv, UnmapIInv
<1>3. CASE \E a \in Attachments, l \in Links, ips \in SUBSET Addrs \ {{}} :
             Create(a, l, ips)
  BY <1>3, CreateIInv
<1>4. CASE Stage \/ StageFails \/ Write \/ WriteFails \/ Publish \/ PublishFails
  BY <1>4, StageIInv, StageFailsIInv, WriteIInv, WriteFailsIInv, PublishIInv,
     PublishFailsIInv
<1>5. CASE ClearPolicy \/ Attach \/ InstallFails \/ RolledBack
  BY <1>5, ClearPolicyIInv, AttachIInv, InstallFailsIInv, RolledBackIInv
<1>6. CASE \E a \in Attachments : Delete(a) \/ LoseLink(a)
  BY <1>6, DeleteIInv, LoseLinkIInv
<1>7. CASE RemovePolicy \/ Detach \/ Uninstalled \/ AlreadyRemoved \/ RemoveFile
  BY <1>7, RemovePolicyIInv, DetachIInv, UninstalledIInv, AlreadyRemovedIInv,
     RemoveFileIInv
<1>8. CASE RemoveDir \/ RemoveFails
  BY <1>8, RemoveDirIInv, RemoveFailsIInv
<1>9. CASE Restore \/ Serve \/ Crash \/ Reboot
  BY <1>9, RestoreIInv, ServeIInv, CrashIInv, RebootIInv
<1>10. CASE \E r \in OnDisk : RestoreStale(r) \/ RestoreViable(r)
  BY <1>10, RestoreStaleIInv, RestoreViableIInv
<1>11. CASE \E a \in Attachments, l \in Links : AddLink(a, l)
  BY <1>11, AddLinkIInv
<1>12. CASE \E x \in Indices, id \in Ids : WritePolicy(x, id)
  BY <1>12, WritePolicyIInv
<1>13. CASE \E x \in Indices : PrunePolicy(x)
  BY <1>13, PrunePolicyIInv
<1> QED BY <1>1, <1>2, <1>3, <1>4, <1>5, <1>6, <1>7, <1>8, <1>9, <1>10, <1>11,
           <1>12, <1>13 DEF Next

LEMMA AlwaysIInv == Spec => []Sound
BY InitIInv, NextIInv, PTL DEF Spec

\* Every variable of the endpoint manager keeps its type and an operation in
\* progress has the record it works on, for any instance.
THEOREM EndpointsType == Spec => []TypeOK
<1>1. Sound => TypeOK
  BY DEF Sound, IInv
<1> QED BY <1>1, AlwaysIInv, PTL

\* At every moment at which the agent or the node can die, each forwarding
\* entry and TCX link in the kernel belongs to a record in the state
\* directory (endpoints.rs:364, Store::remove last in delete).
THEOREM EndpointsIntent == Spec => []IntentCoversKernel
<1>1. Sound => IntentCoversKernel
  BY DEF Sound, IInv, FwdOK, TcxOK, IntentCoversKernel, OnDisk
<1> QED BY <1>1, AlwaysIInv, PTL

\* The state directory never holds two records with a common attachment,
\* address or interface index (endpoints.rs:65-82): restore accepts what the
\* agent wrote.
THEOREM EndpointsOwners == Spec => []DiskOwnersUnique
<1>1. Sound => DiskOwnersUnique
  BY DEF Sound, IInv, DiskOK, DiskOwnersUnique
<1> QED BY <1>1, AlwaysIInv, PTL
=============================================================================
