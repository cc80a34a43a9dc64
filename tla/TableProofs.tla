---------------------------- MODULE TableProofs -----------------------------
(***************************************************************************)
(* Proofs about Table, for any keys, subscribers and limits: no consumer   *)
(* misses a change, lagging consumers cannot make the table keep more than *)
(* tombstone_max_count deletions, and no wake-up is lost.                  *)
(***************************************************************************)
EXTENDS TableInvariant

-----------------------------------------------------------------------------
(* The steps of the consumers preserve the invariant. *)

LEMMA AckStep ==
    ASSUME TableInv, NEW s \in Subs, NEW at \in Revisions, Ack(s, at)
    PROVE  TableInv'
<1> DEFINE to == Max({acked[s], Min({at, delivered[s]})})
           a == [acked EXCEPT ![s] = to]
<1>1. PICK old :
        /\ Maintain(tombs, a, revision, old, live)
        /\ resync' = [r \in Subs |-> resync[r] \/ r \in Lagging(tombs, a, revision, old)]
  BY DEF Ack
<1>2. s \in live /\ UNCHANGED <<version, batch, notify, seen, live, stream, pc>>
  BY DEF Ack
<1>3. /\ acked[s] \in Nat /\ delivered[s] \in Nat /\ cursor[s] \in Nat /\ revision \in Nat
      /\ acked[s] <= revision /\ delivered[s] <= cursor[s] /\ cursor[s] <= revision
      /\ revision <= MaxRevision
  BY TableConstants DEF TableInv, TypeOK, Ordered, Revisions
<1>4. Min({at, delivered[s]}) \in Nat /\ Min({at, delivered[s]}) <= delivered[s]
  BY <1>3, MinOfTwo, TableConstants DEF Revisions
<1>5. /\ to \in Revisions /\ to <= revision
      /\ acked[s] <= cursor[s] => to <= cursor[s]
  BY <1>3, <1>4, MaxOfTwo, TableConstants DEF Revisions
<1> HIDE DEF to
<1>6. /\ a \in [Subs -> Revisions]
      /\ \A r \in Subs : a[r] = IF r = s THEN to ELSE acked[r]
  BY <1>5 DEF TableInv, TypeOK
<1> HIDE DEF a
<1>7. \A r \in live : a[r] <= revision /\ (~resync[r] => a[r] <= cursor[r])
  BY <1>5, <1>6 DEF TableInv, TypeOK, Ordered, Acks
<1>8. Maintainable(tombs, a, revision, live)
  BY <1>5, <1>6, TableConstants DEF Maintainable, TableInv, TypeOK, Ordered,
         Revisions
<1> DEFINE lag == Lagging(tombs, a, revision, old)
<1>9. Maintained(tombs, a, revision, lag, live) /\ ~TooMany(tombs')
  BY <1>1, <1>8, MaintainKeeps, MaintainBounds
<1>10. \A r \in Subs : resync'[r] <=> resync[r] \/ r \in lag
  BY <1>1
<1>11. resync' \in [Subs -> BOOLEAN]
  BY <1>1
<1> HIDE DEF lag
<1>12. TypeOK'
  BY <1>2, <1>9, <1>11 DEF TableInv, TypeOK, Maintained, version, batch, stream
<1>13. Ordered'
  BY <1>2, <1>9 DEF TableInv, Ordered, Maintained, version, stream
<1>14. BatchOK' /\ Wakeful'
  BY <1>2 DEF TableInv, BatchOK, Wakeful, version, batch, stream
<1>15. Acks'
  BY <1>2, <1>7, <1>9, <1>10 DEF TableInv, TypeOK, Acks, Maintained, stream
<1>16. Checkpoints'
  BY <1>2, <1>10 DEF TableInv, Checkpoints, Resumable, stream
<1>17. Complete'
  <2> SUFFICES ASSUME NEW r \in Subs, ~FeedLost(r)' PROVE Owed(r, rows, tombs)'
    BY DEF Complete
  <2>1. ~resync'[r] => ~resync[r] /\ ~(r \in live /\ r \in lag)
    BY <1>10
  <2>2. /\ rows' = rows /\ cursor'[r] = cursor[r] /\ pending'[r] = pending[r]
        /\ mirror'[r] = mirror[r] /\ live' = live
    BY <1>2 DEF version, stream
  <2> QED  BY <1>7, <1>9, <2>1, <2>2, OwedStill
<1>18. TombstonesBounded'
  BY <1>9 DEF TombstonesBounded
<1> QED  BY <1>12, <1>13, <1>14, <1>15, <1>16, <1>17, <1>18 DEF TableInv

LEMMA MarkWakeStep ==
    ASSUME TableInv, NEW s \in Subs, Mark(s) \/ Wake(s)
    PROVE  TableInv'
<1>1. /\ UNCHANGED <<version, batch, registry, notify, live, stream>>
      /\ seen' \in {seen, [seen EXCEPT ![s] = notify]}
      /\ pc' \in {[pc EXCEPT ![s] = "marked"], [pc EXCEPT ![s] = "ready"]}
  BY DEF Mark, Wake
<1>2. TypeOK'
  BY <1>1 DEF TableInv, TypeOK, version, batch, registry, stream
<1>3. Ordered'
  <2>1. \A r \in Subs : seen'[r] \in {seen[r], notify} /\ notify \in Nat
    BY <1>1, TableConstants DEF TableInv, TypeOK, Revisions
  <2> QED  BY <1>1, <2>1 DEF TableInv, Ordered, version, registry, stream
<1>4. BatchOK' /\ Acks' /\ Checkpoints'
  BY <1>1 DEF TableInv, BatchOK, Acks, Checkpoints, Resumable, version, batch,
         registry, stream
<1>5. Wakeful'
  <2>1. \A r \in Subs : pc'[r] = "waiting" => pc[r] = "waiting" /\ seen'[r] = seen[r]
    BY <1>1 DEF TableInv, TypeOK
  <2> QED  BY <1>1, <2>1 DEF TableInv, Wakeful, version, batch, stream
<1>6. Complete'
  BY <1>1 DEF TableInv, Complete, Owed, Known, FeedLost, Resumable, version,
         registry, stream
<1>7. TombstonesBounded'
  BY <1>1 DEF TableInv, TombstonesBounded, registry
<1> QED  BY <1>2, <1>3, <1>4, <1>5, <1>6, <1>7 DEF TableInv

\* A new subscriber is about to get every row; one that resumes knows what it
\* knew, and gets a Resync if tombstones it needs are gone.
LEMMA WatchStep ==
    ASSUME TableInv, NEW s \in Subs, NEW from \in {0, delivered[s], revision + 1},
           Watch(s, from)
    PROVE  TableInv'
<1> DEFINE start == Min({from, revision})
           at == IF from = 0 THEN revision ELSE start
<1>1. /\ s \notin live /\ live' = live \cup {s} /\ writer # "publishing"
      /\ from = 0 \/ from > revision \/ (from = delivered[s] /\ Resumable(s))
      /\ acked' = [acked EXCEPT ![s] = start] /\ delivered' = [delivered EXCEPT ![s] = start]
      /\ cursor' = [cursor EXCEPT ![s] = at]
      /\ resync' = [resync EXCEPT ![s] = from # 0 /\ (from < discarded \/ from > revision)]
      /\ pending' = [pending EXCEPT ![s] = IF from = 0 THEN rows ELSE Nothing]
      /\ mirror' = [mirror EXCEPT ![s] = IF from = 0 THEN Nothing ELSE @]
      /\ seen' = [seen EXCEPT ![s] = notify] /\ pc' = [pc EXCEPT ![s] = "ready"]
      /\ UNCHANGED <<version, batch, tombs, discarded, notify>>
  BY DEF Watch, Unlocked
<1>2. /\ revision \in Nat /\ revision <= MaxRevision /\ from \in Nat /\ notify \in Nat
      /\ notify <= revision /\ MaxRevision \in Nat
  BY TableConstants DEF TableInv, TypeOK, Ordered, Revisions
<1>3. /\ start \in Nat /\ start <= revision
      /\ start = IF from > revision THEN revision ELSE from
  BY <1>2, MinOfTwo
<1>4. at \in Nat /\ start <= at /\ at <= revision
  BY <1>2, <1>3
<1> HIDE DEF start, at
<1>5. TypeOK'
  BY <1>1, <1>2, <1>3, <1>4, TableConstants DEF TableInv, TypeOK, Nothing,
         Contents, Revisions, version, batch
<1>6. Ordered'
  <2>1. \A r \in Subs : IF r = s THEN /\ acked'[r] = start /\ delivered'[r] = start
                                      /\ cursor'[r] = at /\ seen'[r] = notify
                        ELSE /\ acked'[r] = acked[r] /\ delivered'[r] = delivered[r]
                             /\ cursor'[r] = cursor[r] /\ seen'[r] = seen[r]
    BY <1>1 DEF TableInv, TypeOK
  <2> QED  BY <1>1, <1>2, <1>3, <1>4, <2>1 DEF TableInv, Ordered, version
<1>7. BatchOK' /\ Wakeful'
  <2>1. \A r \in Subs : pc'[r] = "waiting" =>
            r # s /\ pc[r] = "waiting" /\ seen'[r] = seen[r] /\ cursor'[r] = cursor[r]
    BY <1>1 DEF TableInv, TypeOK
  <2> QED  BY <1>1, <2>1 DEF TableInv, BatchOK, Wakeful, version, batch
<1>8. Acks'
  BY <1>1, <1>4 DEF TableInv, TypeOK, Acks
<1>9. Checkpoints'
  <2> SUFFICES ASSUME NEW r \in Subs, Resumable(r)', delivered'[r] # 0
               PROVE  delivered'[r] = cursor'[r]
    BY DEF Checkpoints
  <2>1. CASE r = s
    BY <1>1, <1>2, <1>3, <2>1 DEF TableInv, TypeOK, at
  <2>2. CASE r # s
    BY <1>1, <2>2 DEF TableInv, Checkpoints, Resumable
  <2> QED  BY <2>1, <2>2
<1>10. Complete'
  <2> SUFFICES ASSUME NEW r \in Subs, ~FeedLost(r)' PROVE Owed(r, rows, tombs)'
    BY DEF Complete
  <2>1. CASE r # s
    <3>1. /\ cursor'[r] = cursor[r] /\ pending'[r] = pending[r] /\ mirror'[r] = mirror[r]
          /\ resync'[r] = resync[r] /\ (r \in live' <=> r \in live)
      BY <1>1, <2>1
    <3>2. ~FeedLost(r)
      BY <1>1, <3>1 DEF FeedLost, Resumable
    <3> QED  BY <1>1, <3>1, <3>2 DEF TableInv, Complete, Owed, Known, version
  <2>2. CASE r = s /\ from = 0
    <3>1. pending'[s] = rows /\ mirror'[s] = Nothing
      BY <1>1, <2>2 DEF TableInv, TypeOK
    <3> QED  BY <1>1, <2>2, <3>1 DEF Owed, Known, Nothing, version
  <2>3. CASE r = s /\ from # 0
    <3>1. ~(from < discarded) /\ ~(from > revision)
      BY <1>1, <2>3 DEF TableInv, TypeOK, FeedLost
    <3>2. from = delivered[s] /\ Resumable(s) /\ at = from /\ from = cursor[s]
      BY <1>1, <1>3, <2>3, <3>1 DEF TableInv, Checkpoints, at
    <3>3. /\ cursor'[s] = cursor[s] /\ pending'[s] = Nothing /\ mirror'[s] = mirror[s]
          /\ pending[s] = Nothing
      BY <1>1, <2>3, <3>2 DEF Resumable
    <3>4. ~FeedLost(s)
      BY <1>1, <3>1, <3>2 DEF FeedLost
    <3> QED  BY <1>1, <2>3, <3>3, <3>4 DEF TableInv, Complete, Owed, Known,
                    version
  <2> QED  BY <2>1, <2>2, <2>3
<1>11. TombstonesBounded'
  BY <1>1 DEF TableInv, TombstonesBounded
<1> QED  BY <1>5, <1>6, <1>7, <1>8, <1>9, <1>10, <1>11 DEF TableInv

\* What a drain leaves of the stream of s, and of the others.
Drained(s) ==
    /\ cursor' \in [Subs -> Revisions] /\ delivered' \in [Subs -> Revisions]
    /\ pending' \in [Subs -> Contents] /\ mirror' \in [Subs -> Contents]
    /\ pc' \in [Subs -> {"ready", "marked", "waiting"}]
    /\ delivered'[s] <= cursor'[s] /\ cursor'[s] <= revision /\ acked'[s] <= cursor'[s]
    /\ pending'[s] = Nothing => delivered'[s] = cursor'[s]
    /\ pc'[s] = "waiting" => cursor'[s] = revision
    /\ Owed(s, rows, tombs)'
    /\ \A r \in Subs \ {s} :
         /\ cursor'[r] = cursor[r] /\ delivered'[r] = delivered[r]
         /\ pending'[r] = pending[r] /\ mirror'[r] = mirror[r] /\ pc'[r] = pc[r]

LEMMA PopulationDrained ==
    ASSUME TableInv, NEW s \in live, NEW lag, NEW again \in BOOLEAN, rows' = rows,
           Maintained(tombs, acked, revision, lag, live),
           ~again => ~resync[s] /\ s \notin lag,
           DrainPopulation(s, again)
    PROVE  Drained(s)
<1> DEFINE population == IF again THEN rows ELSE pending[s]
           at == IF again THEN revision ELSE cursor[s]
           before == IF again THEN Nothing ELSE mirror[s]
<1>1. PICK d \in SUBSET Keys :
        /\ Prefix(d, population)
        /\ mirror' = [mirror EXCEPT ![s] =
                       [k \in Keys |-> IF k \in d THEN population[k] ELSE before[k]]]
        /\ pending' = [pending EXCEPT ![s] =
                        [k \in Keys |-> IF k \in d THEN 0 ELSE population[k]]]
        /\ cursor' = [cursor EXCEPT ![s] = at]
        /\ delivered' = [delivered EXCEPT ![s] = IF pending'[s] = Nothing THEN at ELSE @]
        /\ pc' = [pc EXCEPT ![s] = "ready"]
  BY DEF DrainPopulation
<1>2. s \in Subs /\ TypeOK /\ Ordered /\ Acks /\ Complete
  BY DEF TableInv, TypeOK
<1>3. population \in Contents /\ before \in Contents /\ at \in Revisions
  BY <1>2, TableConstants DEF TypeOK, Nothing, Contents, Revisions
<1>4. /\ delivered[s] <= at /\ at <= revision /\ acked'[s] <= at
      /\ at \in Nat /\ revision \in Nat /\ delivered[s] \in Nat /\ cursor[s] \in Nat
  <2>1. /\ delivered[s] <= cursor[s] /\ cursor[s] <= revision
        /\ acked'[s] <= revision /\ (~again => acked'[s] <= cursor[s])
    BY <1>2 DEF Ordered, Acks, Maintained
  <2>2. /\ at \in Nat /\ revision \in Nat /\ delivered[s] \in Nat /\ cursor[s] \in Nat
    BY <1>2, TableConstants DEF TypeOK, Revisions
  <2> QED  BY <2>1, <2>2
<1>5. again => population = rows /\ before = Nothing
  OBVIOUS
<1>6. ~again => population = pending[s] /\ before = mirror[s] /\ at = cursor[s]
  OBVIOUS
<1> HIDE DEF population, at, before
<1>7. /\ mirror'[s] = [k \in Keys |-> IF k \in d THEN population[k] ELSE before[k]]
      /\ pending'[s] = [k \in Keys |-> IF k \in d THEN 0 ELSE population[k]]
      /\ cursor'[s] = at /\ pc'[s] = "ready"
      /\ delivered'[s] = IF pending'[s] = Nothing THEN at ELSE delivered[s]
  BY <1>1, <1>2 DEF TypeOK
<1>8. mirror'[s] \in Contents /\ pending'[s] \in Contents
  BY <1>3, <1>7, TableConstants DEF Contents, Revisions
<1>9. \A k \in Keys : Known(s, k)' = IF population[k] # 0 THEN population[k] ELSE before[k]
  BY <1>1, <1>7 DEF Known, Prefix, Retained
<1>10. Owed(s, rows, tombs)'
  <2>1. CASE again
    BY <1>5, <1>9, <2>1 DEF Owed, Nothing
  <2>2. CASE ~again
    <3>1. ~FeedLost(s) /\ acked[s] <= cursor[s]
      BY <1>2, <2>2 DEF FeedLost, Acks
    <3>2. Owed(s, rows, tombs)
      BY <1>2, <3>1 DEF Complete
    <3>3. Owed(s, rows, tombs')
      BY <1>2, <2>2, <3>1, <3>2, OwedAfter DEF TypeOK
    <3>4. \A k \in Keys : Known(s, k)' = Known(s, k)
      BY <1>6, <1>9, <2>2 DEF Known
    <3> QED  BY <1>6, <1>7, <2>2, <3>3, <3>4 DEF Owed
  <2> QED  BY <2>1, <2>2
<1>11. /\ cursor' \in [Subs -> Revisions] /\ delivered' \in [Subs -> Revisions]
       /\ pc' \in [Subs -> {"ready", "marked", "waiting"}]
  BY <1>1, <1>2, <1>3 DEF TypeOK
<1>12. pending' \in [Subs -> Contents] /\ mirror' \in [Subs -> Contents]
  BY <1>1, <1>2, <1>7, <1>8 DEF TypeOK
<1>13. \A r \in Subs \ {s} :
         /\ cursor'[r] = cursor[r] /\ delivered'[r] = delivered[r]
         /\ pending'[r] = pending[r] /\ mirror'[r] = mirror[r] /\ pc'[r] = pc[r]
  BY <1>1, <1>2
<1> QED  BY <1>4, <1>7, <1>10, <1>11, <1>12, <1>13 DEF Drained

\* The changes that are left are later than all that were returned.
LEMMA LiveDrained ==
    ASSUME TableInv, NEW s \in live, NEW lag, rows' = rows,
           Maintained(tombs, acked, revision, lag, live),
           ~resync[s], s \notin lag, pending[s] = Nothing, DrainLive(s)
    PROVE  Drained(s)
<1> DEFINE changes == Changes(s, tombs')
<1>1. PICK d \in SUBSET Keys :
        /\ Prefix(d, changes) /\ (d = {} <=> Retained(changes) = {})
        /\ mirror' = [mirror EXCEPT ![s] = [k \in Keys |-> IF k \in d THEN rows[k] ELSE @[k]]]
        /\ cursor' = [cursor EXCEPT ![s] = IF d = {} THEN revision
                                          ELSE Max({changes[k] : k \in d})]
        /\ delivered' = [delivered EXCEPT ![s] = cursor'[s]]
        /\ pc' = [pc EXCEPT ![s] = IF d = {} THEN "waiting" ELSE "ready"]
        /\ UNCHANGED pending
  BY DEF DrainLive
<1>2. s \in Subs /\ TypeOK /\ Ordered /\ Acks /\ Complete
  BY DEF TableInv, TypeOK
<1>3. /\ cursor[s] \in Nat /\ revision \in Nat /\ cursor[s] <= revision
      /\ revision <= MaxRevision /\ MaxRevision \in Nat
  BY <1>2, TableConstants DEF TypeOK, Ordered, Revisions
<1>4. \A k \in Keys : /\ rows[k] \in Nat /\ rows[k] <= revision
                      /\ tombs'[k] \in Nat /\ tombs'[k] <= revision
  BY <1>2, TableConstants DEF TypeOK, Ordered, Maintained, Contents, Revisions
<1>5. /\ \A k \in Keys : changes[k] = IF rows[k] > cursor[s] THEN rows[k]
                                     ELSE IF tombs'[k] > cursor[s] THEN tombs'[k] ELSE 0
  BY DEF Changes
<1> HIDE DEF changes
<1>6. \A k \in Keys : /\ changes[k] \in 0 .. revision
                      /\ changes[k] # 0 => changes[k] > cursor[s]
                      /\ changes[k] # 0 => changes[k] \in {rows[k], tombs'[k]}
                      /\ changes[k] = 0 => ~(rows[k] > cursor[s] \/ tombs'[k] > cursor[s])
  BY <1>3, <1>4, <1>5
<1> DEFINE upto == IF d = {} THEN revision ELSE Max({changes[k] : k \in d})
<1>7. /\ upto \in Nat /\ cursor[s] <= upto /\ upto <= revision
      /\ \A k \in Retained(changes) \ d : upto < changes[k]
  <2>1. CASE d = {}
    BY <1>1, <1>3, <2>1
  <2>2. CASE d # {}
    <3> DEFINE S == {changes[k] : k \in d}
    <3>1. S # {} /\ S \subseteq 0 .. revision
      BY <1>6, <2>2
    <3>2. Max(S) \in S /\ \A y \in S : y <= Max(S)
      BY <1>3, <3>1, NatHasMax
    <3>3. PICK k \in d : Max(S) = changes[k]
      BY <3>2
    <3>4. upto = changes[k] /\ k \in Retained(changes)
      BY <1>1, <2>2, <3>3 DEF Prefix
    <3> HIDE DEF S, upto
    <3>5. changes[k] > cursor[s] /\ changes[k] \in 0 .. revision
      BY <1>6, <3>4 DEF Retained
    <3> QED  BY <1>1, <1>3, <3>4, <3>5 DEF Prefix
  <2> QED  BY <2>1, <2>2
<1>8. /\ mirror'[s] = [k \in Keys |-> IF k \in d THEN rows[k] ELSE mirror[s][k]]
      /\ cursor'[s] = upto /\ delivered'[s] = upto /\ pending' = pending
      /\ pc'[s] = IF d = {} THEN "waiting" ELSE "ready"
  BY <1>1, <1>2 DEF TypeOK
<1>9. d = {} => upto = revision
  OBVIOUS
<1>10. acked'[s] <= cursor[s] /\ acked'[s] \in Nat
  BY <1>2, TableConstants DEF Acks, Maintained, Revisions
<1>11. Owed(s, rows, tombs')
  <2>1. ~FeedLost(s) /\ acked[s] <= cursor[s]
    BY <1>2 DEF FeedLost, Acks
  <2>2. Owed(s, rows, tombs)
    BY <1>2, <2>1 DEF Complete
  <2> QED  BY <1>2, <2>1, <2>2, OwedAfter DEF TypeOK
<1>12. \A k \in Keys : Known(s, k) = mirror[s][k] /\ Known(s, k)' = mirror'[s][k]
  BY <1>8 DEF Known, Nothing
<1> HIDE DEF upto
<1>13. Owed(s, rows, tombs)'
  <2> SUFFICES ASSUME NEW k \in Keys
               PROVE  mirror'[s][k] = rows[k] \/ rows[k] > upto \/ tombs'[k] > upto
    BY <1>8, <1>12 DEF Owed
  <2>1. CASE k \in d
    BY <1>8, <2>1
  <2>2. CASE k \notin d /\ changes[k] # 0
    BY <1>6, <1>7, <2>2 DEF Retained
  <2>3. CASE k \notin d /\ changes[k] = 0
    BY <1>6, <1>8, <1>11, <1>12, <2>3 DEF Owed
  <2> QED  BY <2>1, <2>2, <2>3
<1>14. /\ cursor' \in [Subs -> Revisions] /\ delivered' \in [Subs -> Revisions]
       /\ pc' \in [Subs -> {"ready", "marked", "waiting"}]
  <2>1. upto \in Revisions
    BY <1>3, <1>7 DEF Revisions
  <2>2. cursor' = [cursor EXCEPT ![s] = upto] /\ delivered' = [delivered EXCEPT ![s] = upto]
    BY <1>1, <1>8 DEF upto
  <2> QED  BY <1>1, <1>2, <2>1, <2>2 DEF TypeOK
<1>15. pending' \in [Subs -> Contents] /\ mirror' \in [Subs -> Contents]
  BY <1>1, <1>2 DEF TypeOK, Contents
<1>16. \A r \in Subs \ {s} :
         /\ cursor'[r] = cursor[r] /\ delivered'[r] = delivered[r]
         /\ pending'[r] = pending[r] /\ mirror'[r] = mirror[r] /\ pc'[r] = pc[r]
  BY <1>1, <1>2
<1>17. acked'[s] <= upto
  BY <1>3, <1>7, <1>10
<1> QED  BY <1>7, <1>8, <1>9, <1>13, <1>14, <1>15, <1>16, <1>17 DEF Drained

LEMMA DrainStep ==
    ASSUME TableInv, NEW s \in Subs, Drain(s)
    PROVE  TableInv'
<1>1. PICK old \in SUBSET live :
        LET lag == Lagging(tombs, acked, revision, old)
            again == resync[s] \/ s \in lag
        IN  /\ Maintain(tombs, acked, revision, old, live)
            /\ resync' = [r \in Subs |-> r # s /\ (resync[r] \/ r \in lag)]
            /\ IF again \/ pending[s] # Nothing THEN DrainPopulation(s, again)
                                               ELSE DrainLive(s)
  BY DEF Drain
<1>2. s \in live /\ UNCHANGED <<version, batch, notify, seen, live>>
  BY DEF Drain
<1>3. Maintainable(tombs, acked, revision, live)
  BY TableConstants DEF Maintainable, TableInv, TypeOK, Ordered, Revisions
<1> DEFINE lag == Lagging(tombs, acked, revision, old)
           again == resync[s] \/ s \in lag
<1>4. Maintained(tombs, acked, revision, lag, live) /\ ~TooMany(tombs')
  BY <1>1, <1>3, MaintainKeeps, MaintainBounds
<1>5. \A r \in Subs : resync'[r] <=> r # s /\ (resync[r] \/ r \in lag)
  BY <1>1
<1>6. resync' \in [Subs -> BOOLEAN]
  BY <1>1
<1>7. IF again \/ pending[s] # Nothing THEN DrainPopulation(s, again) ELSE DrainLive(s)
  BY <1>1
<1>8. again \in BOOLEAN /\ (~again => ~resync[s] /\ s \notin lag)
  OBVIOUS
<1> HIDE DEF lag, again
<1>9. rows' = rows /\ revision' = revision
  BY <1>2 DEF version
<1>10. Drained(s)
  <2>1. CASE again \/ pending[s] # Nothing
    BY <1>2, <1>4, <1>7, <1>8, <1>9, <2>1, PopulationDrained
  <2>2. CASE ~(again \/ pending[s] # Nothing)
    BY <1>2, <1>4, <1>7, <1>8, <1>9, <2>2, LiveDrained
  <2> QED  BY <2>1, <2>2
<1>11. TypeOK'
  BY <1>2, <1>4, <1>6, <1>10 DEF TableInv, TypeOK, Maintained, Drained, version,
         batch
<1>12. Ordered'
  BY <1>2, <1>4, <1>10 DEF TableInv, Ordered, Maintained, Drained, version
<1>13. BatchOK'
  BY <1>2 DEF TableInv, BatchOK, version, batch
<1>14. Wakeful'
  <2>1. seen[s] <= revision
    <3>1. seen[s] <= notify /\ notify <= revision
      BY DEF TableInv, Ordered
    <3>2. seen[s] \in Nat /\ notify \in Nat /\ revision \in Nat
      BY TableConstants DEF TableInv, TypeOK, Revisions
    <3> QED  BY <3>1, <3>2
  <2> QED  BY <1>2, <1>10, <2>1 DEF TableInv, Wakeful, Drained, version, batch
<1>15. Acks'
  <2> SUFFICES ASSUME NEW r \in live, ~resync'[r] PROVE acked'[r] <= cursor'[r]
    BY <1>2 DEF Acks
  <2>1. r \in Subs
    BY DEF TableInv, TypeOK
  <2> QED  BY <1>4, <1>5, <1>10, <2>1 DEF TableInv, Acks, Maintained, Drained
<1>16. Checkpoints'
  BY <1>5, <1>10 DEF TableInv, Checkpoints, Resumable, Drained
<1>17. Complete'
  <2> SUFFICES ASSUME NEW r \in Subs, ~FeedLost(r)' PROVE Owed(r, rows, tombs)'
    BY DEF Complete
  <2>1. CASE r = s
    BY <1>10, <2>1 DEF Drained
  <2>2. CASE r # s
    <3>1. /\ cursor'[r] = cursor[r] /\ pending'[r] = pending[r] /\ mirror'[r] = mirror[r]
      BY <1>10, <2>2 DEF Drained
    <3>2. ~resync'[r] => ~resync[r] /\ ~(r \in live /\ r \in lag)
      BY <1>5, <2>2
    <3>3. r \in live /\ ~resync[r] => acked[r] <= cursor[r]
      BY DEF TableInv, Acks
    <3> QED  BY <1>2, <1>4, <1>9, <3>1, <3>2, <3>3, OwedStill
  <2> QED  BY <2>1, <2>2
<1>18. TombstonesBounded'
  BY <1>4 DEF TombstonesBounded
<1> QED  BY <1>11, <1>12, <1>13, <1>14, <1>15, <1>16, <1>17, <1>18 DEF TableInv

LEMMA InvStep == TableInv /\ [Next]_vars => TableInv'
<1> SUFFICES ASSUME TableInv, [Next]_vars PROVE TableInv'
  OBVIOUS
<1>1. CASE UNCHANGED vars
  <2>1. UNCHANGED <<version, batch, registry, notify, seen, live, stream, pc>>
    BY <1>1 DEF vars
  <2>2. TypeOK' /\ Ordered' /\ BatchOK' /\ Acks' /\ Checkpoints' /\ Wakeful'
    BY <2>1 DEF TableInv, TypeOK, Ordered, BatchOK, Acks, Checkpoints, Wakeful,
           Resumable, version, batch, registry, stream
  <2>3. Complete' /\ TombstonesBounded'
    BY <2>1 DEF TableInv, Complete, Owed, Known, FeedLost, Resumable,
           TombstonesBounded, version, registry, stream
  <2> QED  BY <2>2, <2>3 DEF TableInv
<1>2. CASE Begin \/ DeleteAll \/ Abandon \/ \E k \in Keys : Insert(k) \/ Delete(k)
  BY <1>2, BatchStep
<1>3. CASE Commit
  BY <1>3, CommitStep
<1>4. CASE Notify
  BY <1>4, NotifyStep
<1>5. ASSUME NEW s \in Subs, \E r \in {0, delivered[s], revision + 1} : Watch(s, r)
      PROVE  TableInv'
  BY <1>5, WatchStep
<1>6. ASSUME NEW s \in Subs, \E r \in Revisions : Ack(s, r) PROVE TableInv'
  BY <1>6, AckStep
<1>7. ASSUME NEW s \in Subs, Drop(s) PROVE TableInv'
  BY <1>7, DropStep
<1>8. ASSUME NEW s \in Subs, Drain(s) PROVE TableInv'
  BY <1>8, DrainStep
<1>9. ASSUME NEW s \in Subs, Mark(s) \/ Wake(s) PROVE TableInv'
  BY <1>9, MarkWakeStep
<1> QED  BY <1>1, <1>2, <1>3, <1>4, <1>5, <1>6, <1>7, <1>8, <1>9 DEF Next

LEMMA InvHolds == Spec => []TableInv
  BY InvInit, InvStep, PTL DEF Spec

\* Whatever the keys, the subscribers and the limit on tombstones: a consumer
\* that is not about to be resynchronised misses no insertion and no deletion
\* (streams.rs drain and maintain, lib.rs publish), the tombstones stay within
\* tombstone_max_count, and no consumer sleeps through a publication.
THEOREM StreamsAlwaysHold == Spec => []StreamsHold
<1>1. TableInv => StreamsHold
  <2> SUFFICES ASSUME TableInv PROVE StreamsHold
    OBVIOUS
  <2>1. NothingMissed
    BY DEF TableInv, TypeOK, Complete, FeedLost, Owed, NothingMissed
  <2>2. NoLostWakeup
    <3> SUFFICES ASSUME NEW s \in live, pc[s] = "waiting", writer # "publishing",
                        cursor[s] < revision
                 PROVE  notify # seen[s]
      BY DEF NoLostWakeup
    <3>1. notify = revision /\ seen[s] <= cursor[s]
      BY DEF TableInv, TypeOK, Wakeful
    <3>2. revision \in Nat /\ seen[s] \in Nat /\ cursor[s] \in Nat
      BY TableConstants DEF TableInv, TypeOK, Revisions
    <3> QED  BY <3>1, <3>2
  <2> QED  BY <2>1, <2>2 DEF TableInv, StreamsHold
<1> QED  BY <1>1, InvHolds, PTL
=============================================================================
