-------------------------- MODULE EndpointsCreate ---------------------------
(***************************************************************************)
(* The steps of Manager::create keep the invariant, up to the installed    *)
(* endpoint or the rollback.                                               *)
(***************************************************************************)
EXTENDS EndpointsInvariant

USE EndpointsConstants

LEMMA AttachIInv ==
    ASSUME Sound, Attach
    PROVE  Sound'
<1> SUFFICES ASSUME IInv PROVE IInv'
  BY DEF Sound
<1>1. TypeOK'
  <2>1. rec \in Recs /\ rec.att \in Attachments /\ rec.ips \subseteq Addrs
    BY DEF Phases, Recs, IInv, Attach, Working
  <2>2. CASE kind = "create"
    BY <2>1, <2>2, PutType DEF TypeOK, IInv, Attach, EndOp, Put, durable,
           Working
  <2>3. CASE kind # "create"
    BY <2>1, <2>3 DEF TypeOK, IInv, Attach, EndOp, durable, Working
  <2> QED BY <2>2, <2>3
<1>2. Phases'
  BY DEF Phases, Attach, EndOp, Working, Installing, Removing
<1>3. DiskOK'
  BY DEF DiskOK, IInv, Attach, durable
<1>4. MemoryOK'
  <2>1. CASE kind = "create"
    BY <2>1 DEF MemoryOK, IInv, Attach
  <2>2. CASE kind # "create"
    <3>1. /\ kind = "viable" /\ rec \in viable /\ rec \in Recs /\ rec # None
          /\ rec.id \in Ids /\ rec.att \in Attachments /\ disk[rec.id] = rec
          /\ rec.id \in ids /\ \A ip \in rec.ips : addresses[ip] = rec.att
          /\ records' = [records EXCEPT ![rec.att] = rec]
      BY <2>2 DEF Phases, RecordOK, Recs, RestoringOK, Restoring, IInv, Attach,
             Working, Installing
    <3>2. ASSUME NEW b \in Attachments, b # rec.att, records[b] # None
          PROVE  records[b].id # rec.id /\ Index(records[b]) # Index(rec)
      <4>1. records[b] \in Recs /\ records[b].id \in Ids /\ records[b].att = b
        BY <3>2 DEF TypeOK, MemoryOK, IInv
      <4>2. disk[records[b].id] = records[b]
        BY <3>1, <3>2 DEF RestoringOK, Restoring, IInv
      <4> QED BY <3>1, <3>2, <4>1, <4>2 DEF DiskOK, IInv
    <3>3. /\ addresses' = addresses /\ ids' = ids /\ records'[rec.att] = rec
          /\ \A b \in Attachments : b # rec.att => records'[b] = records[b]
      BY <3>1 DEF TypeOK, IInv, Attach
    <3>4. ASSUME NEW b \in Attachments, records'[b] # None
          PROVE  /\ records'[b].att = b
                 /\ records'[b].id \in ids'
                 /\ \A ip \in records'[b].ips : addresses'[ip] = b
      BY <3>1, <3>3, <3>4 DEF MemoryOK, IInv
    <3>5. ASSUME NEW b \in Attachments, NEW c \in Attachments,
                 records'[b] # None, records'[c] # None, b # c
          PROVE  /\ records'[b].id # records'[c].id
                 /\ Index(records'[b]) # Index(records'[c])
      <4>1. CASE b = rec.att
        BY <4>1, <3>2, <3>3, <3>5
      <4>2. CASE c = rec.att
        BY <4>2, <3>2, <3>3, <3>5
      <4>3. CASE b # rec.att /\ c # rec.att
        BY <4>3, <3>3, <3>5 DEF MemoryOK, IInv
      <4> QED BY <4>1, <4>2, <4>3
    <3> QED BY <3>4, <3>5 DEF MemoryOK
  <2> QED BY <2>1, <2>2
<1>5. ServingOK'
  BY DEF ServingOK, Serving, IInv, Attach, EndOp, durable
<1>6. RestoringOK'
  <2>1. CASE kind = "create"
    BY <2>1 DEF RestoringOK, Restoring, Attach, EndOp
  <2>2. CASE kind # "create"
    <3>1. /\ kind = "viable" /\ rec \in viable /\ rec \in Recs /\ stale = {}
          /\ rec.id \in Ids /\ rec.att \in Attachments /\ disk[rec.id] = rec
          /\ viable' = viable \ {rec} /\ stale' = stale /\ disk' = disk
      BY <2>2 DEF Phases, RecordOK, Recs, IInv, Attach, durable, Working,
             Installing
    <3>2. /\ addresses' = addresses /\ ids' = ids /\ records'[rec.att] = rec
          /\ \A b \in Attachments : b # rec.att => records'[b] = records[b]
      BY <2>2, <3>1 DEF TypeOK, IInv, Attach
    <3>3. ASSUME NEW i \in Ids, disk[i] \in Recs, disk[i] \notin viable'
          PROVE  records'[disk[i].att] = disk[i]
      <4>1. CASE i = rec.id
        BY <4>1, <3>1, <3>2
      <4>2. CASE i # rec.id
        <5>1. disk[i].att # rec.att /\ disk[i] # rec /\ disk[i].att \in Attachments
          <6>1. disk[i].att # disk[rec.id].att
            BY <4>2, <3>1, <3>3 DEF DiskOK, IInv
          <6>2. disk[i].att \in Attachments
            BY <3>3 DEF Recs
          <6> QED BY <6>1, <6>2, <3>1
        <5> QED BY <5>1, <3>1, <3>2, <3>3 DEF RestoringOK, Restoring, IInv
      <4> QED BY <4>1, <4>2
    <3>4. \A b \in Attachments : records'[b] # None => disk[records'[b].id] = records'[b]
      BY <3>1, <3>2 DEF RestoringOK, Restoring, IInv
    <3>5. \A r \in viable' : /\ disk[r.id] = r /\ r.id \in ids
                             /\ \A ip \in r.ips : addresses[ip] = r.att
      BY <3>1 DEF RestoringOK, Restoring, IInv
    <3> QED BY <3>1, <3>2, <3>3, <3>4, <3>5 DEF RestoringOK
  <2> QED BY <2>1, <2>2
<1>7. RecordOK'
  BY DEF RecordOK, Attach, EndOp, Installing
<1>8. ProgressOK'
  BY DEF ProgressOK, Attach, EndOp
<1>9. SavedOK'
  BY DEF SavedOK, Attach, EndOp
<1>10. FwdOK'
  BY DEF FwdOK, IInv, Attach, durable
<1>11. TcxOK'
  <2>1. rec \in Recs /\ rec.id \in Ids /\ disk[rec.id] = rec /\ rec.att \in Attachments
    BY DEF Phases, Recs, RecordOK, IInv, Attach, Working, Installing
  <2>2. ASSUME NEW b \in Attachments, tcx'[b] # None
        PROVE  \E i \in Ids : disk'[i] \in Recs /\ disk'[i].att = b
    <3>1. CASE b = rec.att
      BY <3>1, <2>1 DEF Attach, durable
    <3>2. CASE b # rec.att
      BY <3>2, <2>2 DEF TcxOK, IInv, Attach, durable
    <3> QED BY <3>1, <3>2
  <2> QED BY <2>2 DEF TcxOK
<1> QED BY <1>1, <1>2, <1>3, <1>4, <1>5, <1>6, <1>7, <1>8, <1>9, <1>10, <1>11
           DEF IInv

LEMMA InstallFailsIInv ==
    ASSUME Sound, InstallFails
    PROVE  Sound'
<1> SUFFICES ASSUME IInv PROVE IInv'
  BY DEF Sound
<1>1. TypeOK'
  BY DEF TypeOK, Recs, IInv, InstallFails, durable, Working
<1>2. Phases'
  BY DEF Phases, IInv, InstallFails, Working, Installing, Removing
<1>3. DiskOK' /\ MemoryOK' /\ ServingOK' /\ RestoringOK'
  BY KeepsRecords DEF Serving, Restoring, InstallFails, durable
<1>7. RecordOK'
  BY DEF RecordOK, IInv, InstallFails, durable, Installing
<1>8. ProgressOK' /\ SavedOK'
  BY DEF ProgressOK, SavedOK, IInv, InstallFails, durable, Installing
<1>10. FwdOK'
  BY ZenonT(60) DEF FwdOK, IInv, InstallFails, durable
<1>11. TcxOK'
  <2>1. rec \in Recs /\ rec.id \in Ids /\ disk[rec.id] = rec /\ rec.att \in Attachments
    BY DEF Phases, Recs, RecordOK, IInv, InstallFails, Working, Installing
  <2>2. ASSUME NEW b \in Attachments, tcx'[b] # None
        PROVE  \E i \in Ids : disk'[i] \in Recs /\ disk'[i].att = b
    <3>1. CASE b = rec.att
      BY <3>1, <2>1 DEF InstallFails, durable
    <3>2. CASE b # rec.att
      BY <3>2, <2>2 DEF TypeOK, TcxOK, IInv, InstallFails, durable
    <3> QED BY <3>1, <3>2
  <2> QED BY <2>2 DEF TcxOK
<1> QED BY <1>1, <1>2, <1>3, <1>7, <1>8, <1>10, <1>11 DEF IInv

LEMMA RestoreSnapshotIInv ==
    ASSUME Sound, NEW ip \in Addrs, RestoreSnapshot(ip)
    PROVE  Sound'
<1> SUFFICES ASSUME IInv PROVE IInv'
  BY DEF Sound
<1>1. TypeOK'
  BY DEF TypeOK, IInv, RestoreSnapshot, durable, memory
<1>2. Phases'
  BY DEF Phases, IInv, RestoreSnapshot
<1>3. DiskOK' /\ MemoryOK' /\ ServingOK' /\ RestoringOK'
  BY KeepsRecords DEF Serving, Restoring, RestoreSnapshot, durable, memory
<1>7. RecordOK'
  BY DEF RecordOK, IInv, RestoreSnapshot, durable, memory
<1>8. ProgressOK' /\ SavedOK'
  BY ZenonT(60) DEF ProgressOK, SavedOK, IInv, RestoreSnapshot, durable
<1>10. FwdOK'
  <2>1. rec \in Recs /\ rec.ips \subseteq Addrs
    BY DEF Phases, Recs, IInv, RestoreSnapshot, Working
  <2>2. ASSUME NEW q \in Addrs, fwd'[q] # None
        PROVE  \E i \in Ids : /\ disk'[i] \in Recs /\ q \in disk'[i].ips
                              /\ fwd'[q] = Info(disk'[i])
    <3>1. CASE q = ip
      BY <3>1, <2>1, <2>2 DEF TypeOK, SavedOK, IInv, RestoreSnapshot, durable,
             Removing
    <3>2. CASE q # ip
      <4>1. FwdOK /\ disk' = disk /\ fwd'[q] = fwd[q]
        BY <3>2 DEF IInv, TypeOK, RestoreSnapshot, durable
      <4> QED BY <4>1, <2>2 DEF FwdOK
    <3> QED BY <3>1, <3>2
  <2> QED BY <2>2 DEF FwdOK
<1>11. TcxOK'
  BY Zenon DEF TcxOK, IInv, RestoreSnapshot, durable
<1> QED BY <1>1, <1>2, <1>3, <1>7, <1>8, <1>10, <1>11 DEF IInv

LEMMA WriteIInv ==
    ASSUME Sound, Write
    PROVE  Sound'
<1> SUFFICES ASSUME IInv PROVE IInv'
  BY DEF Sound
<1>1. TypeOK'
  BY DEF TypeOK, Recs, IInv, Write, Put, durable, kernel, Working
<1>2. Phases'
  BY DEF Phases, IInv, Write, Working
<1>3. DiskOK'
  BY DEF DiskOK, IInv, Write, durable
<1>4. MemoryOK'
  BY DEF MemoryOK, TypeOK, Recs, RecordOK, IInv, Write, Put
<1>5. ServingOK'
  <2>1. rec \in Recs /\ rec.att \in Attachments /\ kind = "create"
    BY DEF Phases, Recs, IInv, Write, Working
  <2>2. ASSUME NEW i \in Ids, disk[i] \in Recs
        PROVE  records'[disk[i].att] = disk[i]
    <3>1. records[disk[i].att] = disk[i] /\ disk[i].att \in Attachments
      BY <2>1, <2>2 DEF ServingOK, Serving, Recs, IInv
    <3>2. disk[i].att # rec.att
      BY <3>1, <2>2 DEF RecordOK, IInv, Write
    <3> QED BY <3>1, <3>2 DEF Write
  <2> QED BY <2>2 DEF ServingOK, Write, durable
<1>6. RestoringOK'
  BY DEF RestoringOK, Restoring, Phases, IInv, Write
<1>7. RecordOK'
  BY DEF RecordOK, TypeOK, Recs, IInv, Write, Installing
<1>8. ProgressOK'
  BY DEF ProgressOK, Write, Installing
<1>9. SavedOK'
  BY DEF SavedOK, IInv, Write, Installing, Removing
<1>10. FwdOK'
  BY DEF FwdOK, IInv, Write, durable, kernel
<1>11. TcxOK'
  BY DEF TcxOK, IInv, Write, durable, kernel
<1> QED BY <1>1, <1>2, <1>3, <1>4, <1>5, <1>6, <1>7, <1>8, <1>9, <1>10, <1>11
           DEF IInv

LEMMA WriteFailsIInv ==
    ASSUME Sound, WriteFails
    PROVE  Sound'
<1> SUFFICES ASSUME IInv PROVE IInv'
  BY DEF Sound
<1>1. TypeOK'
  BY DEF TypeOK, IInv, WriteFails, CreateRefused, EndOp, DropStaged, kernel,
         Working
<1>2. Phases'
  BY DEF Phases, WriteFails, CreateRefused, EndOp, Working, Installing, Removing
<1>3. DiskOK'
  BY DEF DiskOK, IInv, WriteFails, CreateRefused
<1>4. MemoryOK'
  BY DEF MemoryOK, RecordOK, IInv, WriteFails, CreateRefused
<1>5. ServingOK'
  BY DEF ServingOK, Serving, Phases, IInv, WriteFails, CreateRefused
<1>6. RestoringOK'
  BY DEF RestoringOK, Restoring, WriteFails, CreateRefused, EndOp
<1>7. RecordOK'
  BY DEF RecordOK, WriteFails, CreateRefused, EndOp, Installing
<1>8. ProgressOK'
  BY DEF ProgressOK, WriteFails, CreateRefused, EndOp
<1>9. SavedOK'
  BY DEF SavedOK, WriteFails, CreateRefused, EndOp
<1>10. FwdOK'
  BY DEF FwdOK, IInv, WriteFails, CreateRefused, kernel
<1>11. TcxOK'
  BY DEF TcxOK, IInv, WriteFails, CreateRefused, kernel
<1> QED BY <1>1, <1>2, <1>3, <1>4, <1>5, <1>6, <1>7, <1>8, <1>9, <1>10, <1>11
           DEF IInv

LEMMA PublishIInv ==
    ASSUME Sound, Publish
    PROVE  Sound'
<1> SUFFICES ASSUME IInv PROVE IInv'
  BY DEF Sound
<1>1. TypeOK'
  BY DEF TypeOK, Recs, IInv, Publish, kernel, memory, Working
<1>2. Phases'
  BY DEF Phases, IInv, Publish, Working
<1>3. DiskOK'
  <2>1. /\ rec \in Recs /\ rec.att \in Attachments /\ rec.id \in Ids
        /\ kind = "create" /\ records[rec.att] = rec /\ rec # None
        /\ \A ip \in rec.ips : addresses[ip] = rec.att
    BY DEF Phases, Recs, RecordOK, MemoryOK, IInv, Publish, Working
  <2>2. ASSUME NEW i \in Ids, disk[i] \in Recs
        PROVE  /\ disk[i].att # rec.att
               /\ Index(disk[i]) # Index(rec)
               /\ disk[i].ips \cap rec.ips = {}
    <3>1. /\ records[disk[i].att] = disk[i] /\ disk[i].att \in Attachments
          /\ disk[i] # None /\ disk[i].id = i
      BY Zenon, <2>1, <2>2 DEF ServingOK, Serving, Recs, DiskOK, IInv, Publish,
             durable, kernel, memory, operation, Working, Installing, Removing
    <3>2. disk[i].att # rec.att
      BY <2>1, <2>2, <3>1 DEF Publish
    <3>3. Index(disk[i]) # Index(rec)
      BY <2>1, <3>1, <3>2 DEF MemoryOK, IInv
    <3>4. \A ip \in disk[i].ips : addresses[ip] = disk[i].att
      BY <3>1 DEF MemoryOK, IInv
    <3> QED BY <2>1, <3>2, <3>3, <3>4
  <2>3. /\ disk' \in [Ids -> Recs \cup {None, Empty}] /\ disk'[rec.id] = rec
        /\ \A i \in Ids : i # rec.id => disk'[i] = disk[i]
    BY <2>1 DEF TypeOK, IInv, Publish
  <2>4. \A i \in Ids : disk'[i] \in Recs => disk'[i].id = i
    BY <2>1, <2>3 DEF DiskOK, IInv
  <2>5. ASSUME NEW i \in Ids, NEW j \in Ids, disk'[i] \in Recs, disk'[j] \in Recs, i # j
        PROVE  /\ disk'[i].att # disk'[j].att
               /\ Index(disk'[i]) # Index(disk'[j])
               /\ disk'[i].ips \cap disk'[j].ips = {}
    <3>1. CASE i = rec.id
      BY <3>1, <2>2, <2>3, <2>5
    <3>2. CASE j = rec.id
      BY <3>2, <2>2, <2>3, <2>5
    <3>3. CASE i # rec.id /\ j # rec.id
      BY <3>3, <2>3, <2>5 DEF DiskOK, IInv
    <3> QED BY <3>1, <3>2, <3>3
  <2> QED BY <2>4, <2>5 DEF DiskOK
<1>4. MemoryOK'
  BY DEF MemoryOK, IInv, Publish, memory
<1>5. ServingOK'
  <2>1. rec \in Recs /\ rec.id \in Ids /\ kind = "create" /\ records[rec.att] = rec
    BY DEF Phases, Recs, RecordOK, IInv, Publish, Working
  <2>2. ASSUME NEW i \in Ids, disk'[i] \in Recs
        PROVE  records[disk'[i].att] = disk'[i]
    <3>1. CASE i = rec.id
      BY <3>1, <2>1 DEF TypeOK, IInv, Publish
    <3>2. CASE i # rec.id
      BY <3>2, <2>1, <2>2 DEF ServingOK, Serving, IInv, Publish
    <3> QED BY <3>1, <3>2
  <2> QED BY <2>2 DEF ServingOK, Publish, memory
<1>6. RestoringOK'
  BY DEF RestoringOK, Restoring, Phases, IInv, Publish
<1>7. RecordOK'
  BY DEF RecordOK, TypeOK, Recs, IInv, Publish, memory
<1>8. ProgressOK'
  BY DEF ProgressOK, Publish
<1>9. SavedOK'
  BY DEF SavedOK, IInv, Publish, Installing, Removing
<1>10. FwdOK'
  BY DEF FwdOK, IInv, Publish, kernel
<1>11. TcxOK'
  BY DEF TcxOK, IInv, Publish, kernel
<1> QED BY <1>1, <1>2, <1>3, <1>4, <1>5, <1>6, <1>7, <1>8, <1>9, <1>10, <1>11
           DEF IInv

LEMMA PublishFailsIInv ==
    ASSUME Sound, PublishFails
    PROVE  Sound'
<1> SUFFICES ASSUME IInv PROVE IInv'
  BY DEF Sound
<1>1. TypeOK'
  BY DEF TypeOK, Phases, IInv, PublishFails, OpFails, EndOp, DropStaged, kernel,
         memory, Working
<1>2. Phases'
  BY DEF Phases, IInv, PublishFails, OpFails, EndOp, Working, Installing,
         Removing
<1>3. DiskOK'
  BY DEF DiskOK, IInv, PublishFails
<1>4. MemoryOK'
  BY DEF MemoryOK, Phases, IInv, PublishFails, OpFails, memory
<1>5. ServingOK'
  BY DEF ServingOK, Serving, Phases, IInv, PublishFails, OpFails, memory
<1>6. RestoringOK'
  BY DEF RestoringOK, Restoring, Phases, IInv, PublishFails, OpFails, EndOp
<1>7. RecordOK'
  BY DEF RecordOK, Phases, IInv, PublishFails, OpFails, EndOp, Installing
<1>8. ProgressOK'
  BY DEF ProgressOK, Phases, IInv, PublishFails, OpFails, EndOp
<1>9. SavedOK'
  BY DEF SavedOK, Phases, IInv, PublishFails, OpFails, EndOp
<1>10. FwdOK'
  BY DEF FwdOK, Phases, IInv, PublishFails, OpFails, kernel
<1>11. TcxOK'
  BY DEF TcxOK, Phases, IInv, PublishFails, OpFails, kernel
<1> QED BY <1>1, <1>2, <1>3, <1>4, <1>5, <1>6, <1>7, <1>8, <1>9, <1>10, <1>11
           DEF IInv

LEMMA UpsertIInv ==
    ASSUME Sound, NEW ip \in Addrs, Upsert(ip)
    PROVE  Sound'
<1> SUFFICES ASSUME IInv PROVE IInv'
  BY DEF Sound
<1>1. TypeOK'
  BY DEF TypeOK, Recs, Infos, IInv, Upsert, Info, durable, memory
<1>2. Phases'
  BY DEF Phases, IInv, Upsert
<1>3. DiskOK' /\ MemoryOK' /\ ServingOK' /\ RestoringOK'
  BY KeepsRecords DEF Serving, Restoring, Upsert, durable, memory
<1>7. RecordOK'
  BY DEF RecordOK, IInv, Upsert, durable, memory
<1>8. ProgressOK'
  BY DEF ProgressOK, IInv, Upsert
<1>9. SavedOK'
  BY DEF SavedOK, FwdOK, IInv, Upsert, durable, Installing
<1>10. FwdOK'
  <2>1. rec \in Recs /\ rec.id \in Ids /\ disk[rec.id] = rec /\ ip \in rec.ips
    BY DEF Phases, Recs, RecordOK, ProgressOK, IInv, Upsert, Working, Installing
  <2>2. ASSUME NEW q \in Addrs, fwd'[q] # None
        PROVE  \E i \in Ids : /\ disk'[i] \in Recs /\ q \in disk'[i].ips
                              /\ fwd'[q] = Info(disk'[i])
    <3>1. CASE q = ip
      BY <3>1, <2>1 DEF TypeOK, IInv, Upsert, durable
    <3>2. CASE q # ip
      BY <3>2, <2>2 DEF FwdOK, IInv, Upsert, durable
    <3> QED BY <3>1, <3>2
  <2> QED BY <2>2 DEF FwdOK
<1>11. TcxOK'
  BY DEF TcxOK, IInv, Upsert, durable
<1> QED BY <1>1, <1>2, <1>3, <1>7, <1>8, <1>9, <1>10, <1>11 DEF IInv

LEMMA ClearPolicyIInv ==
    ASSUME Sound, ClearPolicy
    PROVE  Sound'
<1> SUFFICES ASSUME IInv PROVE IInv'
  BY DEF Sound
<1>1. TypeOK'
  BY ZenonT(60) DEF TypeOK, Recs, Infos, IInv, ClearPolicy, Indices, durable, kernel,
         memory, operation, Working, Installing, Removing
<1>2. Phases'
  BY DEF Phases, IInv, ClearPolicy, Working, Installing, Removing
<1>3. DiskOK' /\ MemoryOK' /\ ServingOK' /\ RestoringOK'
  BY KeepsRecords DEF Serving, Restoring, ClearPolicy, durable, memory
<1>7. RecordOK'
  BY DEF RecordOK, IInv, ClearPolicy, durable, memory, Installing
<1>8. ProgressOK' /\ SavedOK'
  BY DEF ProgressOK, SavedOK, IInv, ClearPolicy, durable, Installing
<1>10. FwdOK' /\ TcxOK'
  BY DEF FwdOK, TcxOK, IInv, ClearPolicy, durable
<1> QED BY <1>1, <1>2, <1>3, <1>7, <1>8, <1>10 DEF IInv

=============================================================================
