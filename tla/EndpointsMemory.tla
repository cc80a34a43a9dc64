-------------------------- MODULE EndpointsMemory --------------------------
(***************************************************************************)
(* Deletion and restore preserve Truth too, so in every instance what the  *)
(* endpoint manager calls healthy is on disk and in the kernel, a deletion *)
(* leaves nothing behind, and a restart cuts nothing that lives on.        *)
(***************************************************************************)
EXTENDS EndpointsTruth

USE EndpointsConstants

\* The calls that fail, and the roll back of install.
LEMMA FailureTruth ==
    ASSUME Sound, Truth, PublishFails \/ RolledBack \/ RemoveFails
    PROVE  Truth'
<1>i. IInv
  BY DEF Sound
<1>1. CASE RolledBack /\ kind = "create"
  BY <1>1, GoesOnTruth DEF RolledBack, GoesOn, OnlyOwn, Begun, Working, durable, kernel, memory,
     Written
<1>2. CASE ~(RolledBack /\ kind = "create")
  BY <1>2, <1>i, OpFailsTruth DEF PublishFails, RolledBack, RemoveFails, durable, IInv, TypeOK,
     Begun, Working
<1> QED BY <1>1, <1>2

\* The steps of uninstall and Store::remove.
LEMMA UninstallTruth ==
    ASSUME Sound, Truth,
           RemovePolicy \/ Detach \/ (\E ip \in Addrs : Unmap(ip)) \/ Uninstalled
           \/ AlreadyRemoved \/ RemoveFile \/ RemoveDir
    PROVE  Truth'
<1>i. IInv
  BY DEF Sound
<1>1. CASE RemovePolicy
  BY <1>1, GoesOnTruth DEF RemovePolicy, GoesOn, OnlyOwn, Begun, Working, durable, memory, Written
<1>2. CASE Detach
  BY <1>i, <1>2, GoesOnTruth DEF Detach, GoesOn, OnlyOwn, Begun, Working, durable, Written, IInv,
     TypeOK
<1>3. ASSUME NEW ip \in Addrs, Unmap(ip) PROVE Truth'
  BY <1>i, <1>3, GoesOnTruth DEF Unmap, IInv, ProgressOK, GoesOn, OnlyOwn, Begun, Working, durable,
     memory, Written, TypeOK
<1>4. CASE Uninstalled
  BY <1>i, <1>4, GoesOnTruth DEF Uninstalled, GoesOn, OnlyOwn, Begun, Working, durable, memory,
     Written, IInv, TypeOK
<1>5. CASE AlreadyRemoved \/ RemoveDir
  BY <1>i, <1>5, RemovedTruth DEF AlreadyRemoved, RemoveDir, durable, IInv, TypeOK
<1>6. CASE RemoveFile
  BY <1>i, <1>6, GoesOnTruth DEF RemoveFile, GoesOn, OnlyOwn, Begun, Working, kernel, memory,
     Written, IInv, TypeOK
<1> QED BY <1>1, <1>2, <1>3, <1>4, <1>5, <1>6

LEMMA DeleteTruth ==
    ASSUME Sound, Truth, NEW a \in Attachments, Delete(a)
    PROVE  Truth'
BY DEF Sound, IInv, MemoryOK, Delete, Truth, Marks, Written, Serving, Restoring, Installed, NoLeak,
   durable, kernel

LEMMA RestoringTruth ==
    ASSUME Sound, Truth, (\E r \in OnDisk : RestoreStale(r) \/ RestoreViable(r)) \/ Serve
    PROVE  Truth'
<1>1. kind = "none"
  BY DEF Sound, IInv, Phases, RestoreStale, RestoreViable, Serve
<1>2. Marks' /\ Written'
  BY <1>1 DEF RestoreStale, RestoreViable, Serve, memory, durable, Truth, Marks, Written, Serving, Restoring
<1>3. Installed' /\ NoLeak'
  BY DEF RestoreStale, RestoreViable, Serve, Truth, Installed, NoLeak, durable, kernel, memory
<1> QED BY <1>2, <1>3 DEF Truth

LEMMA RestoreTruth ==
    ASSUME Sound, Truth, Restore
    PROVE  Truth'
<1> DEFINE missing == {r \in OnDisk : link[r.att] = None}
           live == OnDisk \ missing
           OwnerAt(ip) == {r \in live : ip \in r.ips}
<1>i. IInv
  BY DEF Sound
<1>1. /\ kind = "none" /\ \A a \in Attachments : records'[a] = None
      /\ \A r \in OnDisk : r.att \in Attachments
  BY <1>i DEF Restore, IInv, Phases, OnDisk, Recs
<1>2. /\ stale' = missing /\ viable' = live /\ ids' = {r.id : r \in live}
      /\ addresses' = [ip \in Addrs |->
            IF OwnerAt(ip) = {} THEN None ELSE (CHOOSE r \in OwnerAt(ip) : TRUE).att]
  BY Zenon DEF Restore
<1>3. \A r \in OnDisk : disk[r.id] = r
  BY <1>i DEF OnDisk, IInv, DiskOK
<1>4. Marks'
  BY <1>1, <1>2, <1>3 DEF Restore, Marks, Serving, durable
<1>5. Written' /\ Installed'
  BY <1>1 DEF Restore, Written, Installed
<1>6. ASSUME NEW ip \in Addrs, addresses'[ip] # None
      PROVE  \E r \in viable' : r.att = addresses'[ip] /\ ip \in r.ips
  <2>1. OwnerAt(ip) # {} /\ addresses'[ip] = (CHOOSE r \in OwnerAt(ip) : TRUE).att
    BY <1>2, <1>6
  <2>2. (CHOOSE r \in OwnerAt(ip) : TRUE) \in OwnerAt(ip)
    BY <2>1
  <2> QED BY <1>2, <2>1, <2>2
<1>7. NoLeak'
  BY <1>2, <1>6 DEF NoLeak
<1> QED BY <1>4, <1>5, <1>7 DEF Truth

LEMMA TruthStep == Sound /\ Truth /\ [Next]_vars => Truth'
<1> SUFFICES ASSUME Sound, Truth, [Next]_vars PROVE Truth'
  OBVIOUS
<1>1. CASE UNCHANGED vars \/ \E x \in Indices : PrunePolicy(x)
  BY <1>1, EnvironmentTruth DEF vars, durable, kernel, memory, PrunePolicy
<1>2. CASE (\E x \in Indices, id \in Ids : WritePolicy(x, id)) \/ (\E o \in Owners, ip \in Addrs : Allocate(o, ip))
           \/ (\E ip \in Addrs : Release(ip) \/ Expire(ip))
  BY <1>2, EnvironmentTruth DEF durable, kernel, memory, WritePolicy, Allocate, Release, Expire
<1>3. CASE \E ip \in Addrs : Upsert(ip) \/ RestoreSnapshot(ip) \/ Unmap(ip)
  BY <1>3, InstallTruth, UninstallTruth
<1>4. CASE \E a \in Attachments, l \in Links, ips \in SUBSET Addrs \ {{}} : Create(a, l, ips)
  BY <1>4, CreateTruth
<1>5. CASE Stage \/ StageFails \/ Write \/ WriteFails
  BY <1>5, StagingTruth, WriteTruth
<1>6. CASE Publish \/ PublishFails \/ ClearPolicy \/ Attach \/ InstallFails \/ RolledBack
  BY <1>6, InstallTruth, AttachTruth, FailureTruth
<1>7. CASE \E a \in Attachments : Delete(a) \/ LoseLink(a)
  BY <1>7, DeleteTruth, LoseLinkTruth
<1>8. CASE RemovePolicy \/ Detach \/ Uninstalled \/ AlreadyRemoved \/ RemoveFile \/ RemoveDir \/ RemoveFails
  BY <1>8, UninstallTruth, FailureTruth
<1>9. CASE Restore \/ Crash \/ Reboot
  BY <1>9, RestoreTruth, DieTruth DEF Crash, Reboot
<1>10. CASE (\E r \in OnDisk : RestoreStale(r) \/ RestoreViable(r)) \/ Serve
  BY <1>10, RestoringTruth
<1>11. CASE \E a \in Attachments, l \in Links : AddLink(a, l)
  BY <1>11, AddLinkTruth
<1> QED BY <1>1, <1>2, <1>3, <1>4, <1>5, <1>6, <1>7, <1>8, <1>9, <1>10, <1>11 DEF Next

LEMMA AlwaysTruth == Spec => [](Sound /\ Truth)
<1>1. Init => Truth
  BY DEF Init, Truth, Marks, Written, Installed, NoLeak, Serving, Restoring
<1> QED BY <1>1, TruthStep, AlwaysIInv, PTL DEF Spec

\* Whatever the instance, what healthy() calls healthy is on disk and in the
\* kernel, and between requests the id pool and the address index hold what
\* the records hold (endpoints.rs:395 and 404, Manager::healthy).
THEOREM EndpointsMemoryIsTrue == Spec => []MemoryIsTrue
<1> SUFFICES ASSUME Sound, Truth PROVE MemoryIsTrue
  BY AlwaysTruth, PTL
<1>i. IInv
  BY DEF Sound
<1>2. ASSUME pc = "idle" PROVE ids = {r.id : r \in Live}
  BY <1>2, <1>i DEF Truth, NoLeak, Marks, Serving, Live, IInv, TypeOK, MemoryOK
<1>3. ASSUME NEW r \in Live, NEW q \in Live, r.id = q.id PROVE r = q
  BY <1>i, <1>3 DEF Live, IInv, TypeOK, MemoryOK
<1>4. ASSUME pc = "idle", NEW ip \in Addrs, NEW a \in Attachments
      PROVE  addresses[ip] = a <=> records[a] # None /\ ip \in records[a].ips
  BY <1>4, <1>i DEF Truth, NoLeak, Marks, Serving, IInv, MemoryOK
<1> QED BY <1>2, <1>3, <1>4 DEF MemoryIsTrue, IndexesAgree, Truth, Installed, Healthy,
           HealthyIsInstalled

LEMMA DeleteLeavesNothing == Sound /\ [Next]_vars => LeavesNothing
<1> SUFFICES ASSUME Sound, [Next]_vars, kind = "delete", pc' = "idle", records'[rec.att] = None
             PROVE  /\ \A ip \in rec.ips : fwd'[ip] = None /\ addresses'[ip] = None
                    /\ tcx'[rec.att] = None
                    /\ disk'[rec.id] = None
  BY DEF LeavesNothing
<1>i. IInv
  BY DEF Sound
<1>1. pc \in Removing /\ rec \in Recs
  BY <1>i DEF IInv, TypeOK, Phases, Working, Installing, Removing
<1>3. CASE UNCHANGED vars
  BY <1>1, <1>3 DEF vars, operation, Removing
<1>4. CASE Next
  <2>1. AlreadyRemoved \/ RemoveDir
    <3>1. ~((\E o \in Owners, ip \in Addrs : Allocate(o, ip)) \/ (\E ip \in Addrs : Release(ip) \/ Expire(ip))
            \/ (\E a \in Attachments, l \in Links, ips \in SUBSET Addrs \ {{}} : Create(a, l, ips))
            \/ (\E a \in Attachments : Delete(a)))
      BY <1>1 DEF Allocate, Release, Expire, Create, Delete, Removing
    <3>2. ~(Stage \/ StageFails \/ Write \/ WriteFails \/ Publish \/ PublishFails \/ ClearPolicy \/ Attach
            \/ InstallFails \/ RolledBack \/ Restore \/ Serve \/ (\E ip \in Addrs : Upsert(ip) \/ RestoreSnapshot(ip))
            \/ \E r \in OnDisk : RestoreStale(r) \/ RestoreViable(r))
      BY <1>1 DEF Stage, StageFails, Write, WriteFails, Publish, PublishFails, ClearPolicy, Attach,
         InstallFails, RolledBack, Restore, Serve, Upsert, RestoreSnapshot, RestoreStale,
         RestoreViable, Removing
    <3>3. ~(RemovePolicy \/ Detach \/ (\E ip \in Addrs : Unmap(ip)) \/ Uninstalled \/ RemoveFile \/ Crash \/ Reboot)
      BY <1>1 DEF RemovePolicy, Detach, Unmap, Uninstalled, RemoveFile, Crash, Reboot, Die, EndOp
    <3>4. ~((\E a \in Attachments : LoseLink(a)) \/ (\E a \in Attachments, l \in Links : AddLink(a, l))
            \/ (\E x \in Indices, id \in Ids : WritePolicy(x, id)) \/ (\E x \in Indices : PrunePolicy(x)) \/ RemoveFails)
      BY <1>1, <1>i DEF LoseLink, AddLink, WritePolicy, PrunePolicy, RemoveFails, OpFails,
         operation, memory, Removing, IInv, RecordOK
    <3> QED BY <1>4, <3>1, <3>2, <3>3, <3>4 DEF Next
  <2>2. rec.id \in Ids /\ rec.ips \subseteq Addrs /\ disk \in [Ids -> Recs \cup {None, Empty}]
        /\ addresses \in [Addrs -> Attachments \cup {None}]
    BY <1>i, <1>1 DEF Recs, IInv, TypeOK
  <2> QED BY <2>2, <2>1, <1>i DEF kernel, Put, AlreadyRemoved, RemoveDir, Removed, durable, IInv,
             ProgressOK
<1> QED BY <1>3, <1>4

LEMMA RestoreCutsNothing == Sound /\ Truth /\ [Next]_vars => CutsNothing
<1> SUFFICES ASSUME Sound, Truth, [Next]_vars, Pinned, kind \in {"stale", "viable"},
                    NEW r \in viable, NEW ip \in r.ips, link'[r.att] = r.link, fwd[ip] = Info(r),
                    ~(r = rec /\ pc = "rollback" /\ saved[ip] = None)
             PROVE  fwd'[ip] = Info(r)
  BY DEF CutsNothing
<1>i. IInv
  BY DEF Sound
<1>0. /\ r \in Recs /\ rec \in Recs /\ disk[r.id] = r /\ pc \in Working /\ pc \notin {"stage", "write", "publish"}
      /\ fwd \in [Addrs -> Infos \cup {None}]
  BY <1>i DEF IInv, TypeOK, Phases, Working, RestoringOK, Restoring
<1>1. ip \in Addrs /\ r.att \in Attachments /\ r.link # None /\ r.id \in Ids /\ rec.id \in Ids
  BY <1>0 DEF Recs
<1>2. ASSUME pc # "rmdir", r # rec PROVE ip \notin rec.ips
  <2>1. disk[rec.id] = rec
    <3>1. CASE kind = "stale"
      BY <1>i, <1>2, <3>1 DEF IInv, RecordOK, Truth, Marks, Restoring
    <3>2. CASE kind = "viable"
      BY <1>i, <3>2 DEF IInv, RecordOK, RestoringOK, Restoring
    <3> QED BY <3>1, <3>2
  <2> QED BY <1>i, <1>0, <1>1, <1>2, <2>1 DEF IInv, DiskOK
<1>3. CASE UNCHANGED fwd
  BY <1>3
<1>4. ASSUME NEW j \in Addrs, Upsert(j) PROVE fwd'[ip] = Info(r)
  BY <1>i, <1>4, <1>0, <1>1, <1>2 DEF Upsert, IInv, ProgressOK, Installing
<1>5. ASSUME NEW j \in Addrs, RestoreSnapshot(j) PROVE fwd'[ip] = Info(r)
  <2>1. j \in rec.ips /\ pc = "rollback" /\ rec \in viable /\ disk[rec.id] = rec
    BY <1>i, <1>5 DEF RestoreSnapshot, IInv, RecordOK, Phases, Installing
  <2>2. CASE j = ip
    <3>1. r = rec /\ saved[ip] # None
      BY <1>2, <2>1, <2>2
    <3>2. PICK i \in Ids : disk[i] \in Recs /\ ip \in disk[i].ips /\ saved[ip] = Info(disk[i])
      BY <1>i, <1>1, <2>1, <3>1 DEF IInv, SavedOK, Installing
    <3>3. disk[i] = r
      BY <1>i, <1>0, <1>1, <3>2 DEF IInv, DiskOK
    <3> QED BY <1>0, <1>1, <1>5, <2>2, <3>2, <3>3 DEF RestoreSnapshot
  <2> QED BY <1>0, <1>1, <1>5, <2>2 DEF RestoreSnapshot
<1>6. ASSUME NEW j \in Addrs, Unmap(j) PROVE fwd'[ip] = Info(r)
  <2>1. j \in rec.ips /\ pc = "unmap" /\ rec \in stale
    BY <1>i, <1>6 DEF Unmap, IInv, ProgressOK, RecordOK, Phases, Installing, Removing
  <2>2. r # rec
    BY <1>i, <2>1 DEF IInv, RestoringOK, Restoring
  <2> QED BY <1>0, <1>1, <1>2, <1>6, <2>1, <2>2 DEF Unmap
<1>7. CASE Reboot
  BY <1>1, <1>7 DEF Reboot
<1>8. CASE (\E o \in Owners, j \in Addrs : Allocate(o, j)) \/ (\E j \in Addrs : Release(j) \/ Expire(j))
           \/ (\E a \in Attachments, l \in Links, ips \in SUBSET Addrs \ {{}} : Create(a, l, ips))
           \/ (\E a \in Attachments : Delete(a) \/ LoseLink(a)) \/ (\E q \in OnDisk : RestoreStale(q) \/ RestoreViable(q))
           \/ (\E a \in Attachments, l \in Links : AddLink(a, l)) \/ (\E x \in Indices, id \in Ids : WritePolicy(x, id))
           \/ (\E x \in Indices : PrunePolicy(x)) \/ UNCHANGED vars
  BY <1>3, <1>8 DEF Allocate, Release, Expire, Create, Delete, LoseLink, RestoreStale,
     RestoreViable, AddLink, WritePolicy, PrunePolicy, kernel, vars
<1>9. CASE Stage \/ StageFails \/ Write \/ WriteFails \/ Publish \/ PublishFails \/ Restore \/ Serve
  BY ZenonT(40), <1>0, <1>9 DEF Stage, StageFails, Write, WriteFails, Publish, PublishFails, Restore, Serve,
     Working
<1>10. CASE ClearPolicy \/ Attach \/ InstallFails \/ RemovePolicy \/ Detach \/ Uninstalled \/ AlreadyRemoved
            \/ RemoveFile \/ RemoveDir
  BY ZenonT(40), <1>3, <1>10 DEF ClearPolicy, Attach, InstallFails, RemovePolicy, Detach, Uninstalled,
     AlreadyRemoved, RemoveFile, RemoveDir, kernel
<1>11. CASE RolledBack \/ RemoveFails \/ Crash
  BY ZenonT(40), <1>3, <1>11 DEF RolledBack, RemoveFails, Crash, OpFails, KernelAfterExit, kernel
<1> QED BY ZenonT(40), <1>4, <1>5, <1>6, <1>7, <1>8, <1>9, <1>10, <1>11 DEF Next

\* Whatever the instance: when Manager::delete succeeds nothing of the
\* endpoint is left in the kernel, on disk or in the indexes, and no step of
\* restore_with_egress cuts the pinned forwarding of an endpoint that lives on.
\* Only an entry that this very restore added may be taken back.
THEOREM EndpointsLeaveNothing == Spec => NothingLeftNothingCut
<1> QED BY AlwaysTruth, PTL, DeleteLeavesNothing, RestoreCutsNothing DEF Spec,
           NothingLeftNothingCut, DeletedIsGone, RestartKeepsForwarding
=============================================================================
