--------------------------- MODULE TableInvariant ---------------------------
(***************************************************************************)
(* The inductive invariant of Table, for any keys, subscribers and limits, *)
(* and that the writer's steps and a closed stream preserve it.            *)
(***************************************************************************)
EXTENDS Table, FiniteSetTheorems, TLAPS

----------------------------------------------------------------------------
(* The extremes of sets of revisions. *)

LEMMA NatHasMin ==
    ASSUME NEW S, S \subseteq Nat, S # {}
    PROVE  Min(S) \in S /\ \A y \in S : Min(S) <= y
<1>1. PICK x \in S : \A y \in S : ~(<<y, x>> \in OpToRel(<, Nat))
  BY NatLessThanWellFounded, WFMin
<1>2. \A i, j \in Nat : i < j => <<i, j>> \in OpToRel(<, Nat)
  BY DEF OpToRel
<1>3. \A y \in S : ~(y < x)
  BY <1>1, <1>2
<1>4. \A y \in S : x <= y
  BY <1>3
<1> QED  BY <1>4 DEF Min

LEMMA NatHasMax ==
    ASSUME NEW S, S # {}, NEW n \in Nat, S \subseteq 0 .. n
    PROVE  Max(S) \in S /\ \A y \in S : y <= Max(S)
<1> DEFINE T == {x \in Nat : \E y \in S : x = n - y}
<1>1. \A y \in S : y \in 0 .. n /\ n - y \in T
  OBVIOUS
<1>2. T \subseteq Nat /\ T # {}
  BY <1>1
<1> DEFINE m == Min(T)
<1>3. m \in T /\ \A y \in T : m <= y
  BY <1>2, NatHasMin
<1>4. PICK x \in S : m = n - x
  BY <1>3
<1> HIDE DEF m
<1>5. \A y \in S : x >= y
  <2> TAKE y \in S
  <2>1. m <= n - y
    BY <1>1, <1>3
  <2>2. x \in 0 .. n /\ y \in 0 .. n
    BY <1>1
  <2> QED  BY <1>4, <2>1, <2>2
<1>6. Max(S) \in S /\ \A y \in S : Max(S) >= y
  BY <1>5 DEF Max
<1> QED  BY <1>1, <1>6

LEMMA MinOfTwo ==
    ASSUME NEW i \in Nat, NEW j \in Nat
    PROVE  Min({i, j}) = IF i <= j THEN i ELSE j
<1>1. Min({i, j}) \in {i, j} /\ \A y \in {i, j} : Min({i, j}) <= y
  BY NatHasMin
<1> QED  BY <1>1

LEMMA MaxOfTwo ==
    ASSUME NEW i \in Nat, NEW j \in Nat
    PROVE  Max({i, j}) = IF i <= j THEN j ELSE i
<1> DEFINE n == i + j
<1>1. n \in Nat /\ {i, j} \subseteq 0 .. n
  OBVIOUS
<1>2. Max({i, j}) \in {i, j} /\ \A y \in {i, j} : y <= Max({i, j})
  BY <1>1, NatHasMax
<1> QED  BY <1>2

----------------------------------------------------------------------------
(* StreamState::maintain. *)

\* What one maintenance of the registry leaves behind: a tombstone goes only
\* when every subscriber acknowledged it, and its revision is remembered.
Maintained(t, a, rev, lag, subs) ==
    /\ tombs' \in Contents /\ discarded' \in Revisions /\ acked' \in [Subs -> Revisions]
    /\ discarded <= discarded' /\ discarded' <= rev
    /\ \A k \in Keys : tombs'[k] <= rev
    /\ \A s \in Subs : acked'[s] <= rev
    /\ \A s \in Subs : IF s \in lag \cap subs THEN acked'[s] = rev ELSE acked'[s] = a[s]
    /\ \A k \in Keys : \/ tombs'[k] = t[k]
                       \/ /\ tombs'[k] = 0 /\ t[k] <= discarded'
                          /\ \A s \in subs : t[k] <= acked'[s]

\* The arguments maintain is called with.
Maintainable(t, a, rev, subs) ==
    /\ t \in Contents /\ a \in [Subs -> Revisions] /\ rev \in Revisions
    /\ subs \subseteq live /\ live \subseteq Subs
    /\ discarded \in Nat /\ discarded <= rev
    /\ \A k \in Keys : t[k] <= rev
    /\ \A s \in Subs : a[s] <= rev

\* The oldest revision that is still needed.
LEMMA LowIsLeast ==
    ASSUME NEW a \in [Subs -> Revisions], NEW rev \in Revisions, NEW subs \in SUBSET Subs
    PROVE  /\ Low(a, rev, subs) \in {rev} \cup {a[s] : s \in subs}
           /\ Low(a, rev, subs) <= rev
           /\ \A s \in subs : Low(a, rev, subs) <= a[s]
<1> DEFINE S == {rev} \cup {a[s] : s \in subs}
<1>1. S \subseteq Nat /\ S # {}
  BY TableConstants DEF Revisions
<1>2. Min(S) \in S /\ \A y \in S : Min(S) <= y
  BY <1>1, NatHasMin
<1>3. rev \in S /\ \A s \in subs : a[s] \in S
  OBVIOUS
<1> HIDE DEF S
<1>4. Low(a, rev, subs) = Min(S)
  BY DEF Low, S
<1> QED  BY <1>2, <1>3, <1>4 DEF S

LEMMA MaintainKeeps ==
    ASSUME NEW t, NEW a, NEW rev, NEW old, NEW subs,
           Maintainable(t, a, rev, subs), Maintain(t, a, rev, old, subs)
    PROVE  Maintained(t, a, rev, Lagging(t, a, rev, old), subs)
<1> DEFINE lag == Lagging(t, a, rev, old)
           next == Advanced(a, lag \cap subs, rev)
           low == Low(next, rev, subs)
<1>1. /\ next \in [Subs -> Revisions]
      /\ \A s \in Subs : IF s \in lag \cap subs THEN next[s] = rev ELSE next[s] = a[s]
      /\ \A s \in Subs : next[s] <= rev
  BY TableConstants DEF Advanced, Maintainable, Revisions
<1>2. acked' = next /\ ((tombs' = t /\ UNCHANGED discarded) \/ Collect(t, low))
  BY DEF Maintain
<1>3. /\ low \in {rev} \cup {next[s] : s \in subs}
      /\ low <= rev /\ \A s \in subs : low <= next[s]
  BY <1>1, LowIsLeast DEF Maintainable
<1> SUFFICES Maintained(t, a, rev, lag, subs)
  OBVIOUS
<1> HIDE DEF low, next, lag
<1>4. CASE tombs' = t /\ UNCHANGED discarded
  BY <1>1, <1>2, <1>4, TableConstants DEF Maintained, Maintainable, Revisions
<1>5. CASE Collect(t, low)
  <2>1. low \in Nat /\ low <= rev /\ \A s \in subs : low <= next[s]
    BY <1>1, <1>3, TableConstants DEF Maintainable, Revisions
  <2> DEFINE S == {discarded} \cup {t[k] : k \in {j \in Keys : t[j] <= low}}
  <2>2. S \subseteq 0 .. rev /\ S # {} /\ rev \in Nat
    BY TableConstants DEF Maintainable, Contents, Revisions
  <2>3. Max(S) \in S /\ \A y \in S : y <= Max(S)
    BY <2>2, NatHasMax
  <2>4. discarded' = Max(S) /\ tombs' = [k \in Keys |-> IF t[k] <= low THEN 0 ELSE t[k]]
    BY <1>5 DEF Collect
  <2>5. discarded \in S /\ \A k \in Keys : t[k] <= low => t[k] \in S
    OBVIOUS
  <2> HIDE DEF S
  <2>6. discarded' \in Revisions /\ discarded <= discarded' /\ discarded' <= rev
    <3>1. discarded' \in 0 .. rev /\ discarded <= discarded'
      BY <2>2, <2>3, <2>4, <2>5
    <3> QED  BY <3>1, TableConstants DEF Maintainable, Revisions
  <2>7. \A k \in Keys : t[k] <= low => t[k] <= discarded'
    BY <2>3, <2>4, <2>5
  <2>8. tombs' \in Contents /\ \A k \in Keys : tombs'[k] <= rev
    BY <2>4, TableConstants DEF Maintainable, Contents, Revisions
  <2>9. \A k \in Keys : t[k] <= low => \A s \in subs : t[k] <= next[s]
    <3> SUFFICES ASSUME NEW k \in Keys, t[k] <= low, NEW s \in subs PROVE t[k] <= next[s]
      OBVIOUS
    <3>1. t[k] \in Nat /\ next[s] \in Nat
      BY <1>1, TableConstants DEF Maintainable, Contents, Revisions
    <3> QED  BY <2>1, <3>1
  <2> QED  BY <1>1, <1>2, <2>4, <2>6, <2>7, <2>8, <2>9 DEF Maintained
<1> QED  BY <1>2, <1>4, <1>5

\* Fewer tombstones are not too many.
LEMMA FewerAreFewer ==
    ASSUME NEW t, NEW D, Retained(t) \subseteq D, D \subseteq Keys,
           ~(Cardinality(D) > MaxTombstones)
    PROVE  ~TooMany(t)
<1>1. IsFiniteSet(D) /\ IsFiniteSet(Retained(t))
  BY TableConstants, FS_Subset
<1>2. Cardinality(Retained(t)) <= Cardinality(D)
  BY <1>1, FS_Subset
<1>3. Cardinality(D) \in Nat /\ Cardinality(Retained(t)) \in Nat /\ MaxTombstones \in Nat
  BY <1>1, FS_CardinalityType, TableConstants
<1> QED  BY <1>2, <1>3 DEF TooMany

\* The count is enforced: who still needs more than the limit is advanced.
LEMMA MaintainBounds ==
    ASSUME NEW t, NEW a, NEW rev, NEW old, NEW subs,
           Maintainable(t, a, rev, subs), Maintain(t, a, rev, old, subs)
    PROVE  ~TooMany(tombs')
<1> DEFINE lag == Lagging(t, a, rev, old)
           next == Advanced(a, lag \cap subs, rev)
           low == Low(next, rev, subs)
<1>1. /\ next \in [Subs -> Revisions]
      /\ \A s \in Subs : IF s \in lag \cap subs THEN next[s] = rev ELSE next[s] = a[s]
  BY TableConstants DEF Advanced, Maintainable
<1>2. (~TooMany(t) /\ tombs' = t) \/ Collect(t, low)
  BY DEF Maintain
<1>3. low \in {rev} \cup {next[s] : s \in subs}
  BY <1>1, LowIsLeast DEF Maintainable
<1>4. ASSUME NEW s \in subs, a[s] < rev, s \notin lag, TooMany(t)
      PROVE  ~(Cardinality({k \in Keys : t[k] > a[s]}) > MaxTombstones)
  BY <1>4 DEF Lagging, Maintainable
<1> HIDE DEF low, next, lag
<1>5. CASE ~TooMany(t) /\ tombs' = t
  BY <1>5
<1>6. CASE Collect(t, low)
  <2>0. low \in Nat
    BY <1>1, <1>3, TableConstants DEF Maintainable, Revisions
  <2>1. Retained(tombs') = {k \in Keys : t[k] > low}
    <3>1. \A k \in Keys : tombs'[k] = IF t[k] <= low THEN 0 ELSE t[k]
      BY <1>6 DEF Collect
    <3>2. \A k \in Keys : t[k] \in Nat
      BY TableConstants DEF Maintainable, Contents, Revisions
    <3> QED  BY <2>0, <3>1, <3>2 DEF Retained
  <2>2. CASE ~TooMany(t)
    <3>1. Retained(tombs') \subseteq Retained(t) /\ Retained(t) \subseteq Keys
      BY <2>0, <2>1 DEF Retained
    <3> QED  BY <2>2, <3>1, FewerAreFewer DEF TooMany
  <2>3. CASE low = rev
    <3>1. \A k \in Keys : t[k] \in Nat /\ t[k] <= rev
      BY TableConstants DEF Maintainable, Contents, Revisions
    <3>2. Retained(tombs') = {}
      BY <2>0, <2>1, <2>3, <3>1
    <3> QED  BY <3>2, FS_EmptySet, TableConstants, FewerAreFewer
  <2>4. ASSUME NEW s \in subs, low = next[s], low # rev, TooMany(t) PROVE ~TooMany(tombs')
    <3>1. s \in Subs /\ s \notin lag /\ low = a[s] /\ a[s] < rev
      BY <1>1, <2>4, TableConstants DEF Maintainable, Revisions
    <3>2. ~(Cardinality({k \in Keys : t[k] > a[s]}) > MaxTombstones)
      BY <1>4, <2>4, <3>1
    <3>3. Retained(tombs') = {k \in Keys : t[k] > a[s]}
      BY <2>1, <3>1
    <3> QED  BY <3>2, <3>3, FewerAreFewer
  <2> QED  BY <1>3, <2>2, <2>3, <2>4
<1> QED  BY <1>2, <1>5, <1>6

----------------------------------------------------------------------------
(* The inductive invariant. *)

\* No revision is ahead of the one it was taken from.
Ordered ==
    /\ \A k \in Keys : rows[k] <= revision /\ tombs[k] <= revision
    /\ discarded <= revision /\ notify <= revision
    /\ \A s \in Subs : /\ seen[s] <= notify /\ acked[s] <= revision
                       /\ delivered[s] <= cursor[s] /\ cursor[s] <= revision

\* The batch holds the published rows, but for the keys it touched, which it
\* gave a row or a tombstone of a later revision.
BatchOK ==
    writer = "open" =>
        /\ revision <= dRevision
        /\ \A k \in Keys :
             /\ dRows[k] <= dRevision /\ dTombs[k] <= dRevision
             /\ k \notin touched => dRows[k] = rows[k]
             /\ k \in touched => IF dRows[k] = 0 THEN dTombs[k] > revision
                                                ELSE dRows[k] > revision

\* A subscriber acknowledges only what it was sent.
Acks == \A s \in live : ~resync[s] => acked[s] <= cursor[s]

\* A checkpoint a consumer may resume from is where its stream stood.
Checkpoints == \A s \in Subs : Resumable(s) /\ delivered[s] # 0 => delivered[s] = cursor[s]

\* What s knows of the rows r is outdated only where r or the tombstones t
\* have something later.
Owed(s, r, t) == \A k \in Keys : Known(s, k) = r[k] \/ r[k] > cursor[s] \/ t[k] > cursor[s]

\* NothingMissed, also of the consumers that may come back.
Complete == \A s \in Subs : ~FeedLost(s) => Owed(s, rows, tombs)

\* Between publications the notification is of the version, and who waits
\* took none that is newer than what it was sent.
Wakeful ==
    /\ writer # "publishing" => notify = revision
    /\ \A s \in Subs : pc[s] = "waiting" => seen[s] <= cursor[s]

TableInv ==
    /\ TypeOK /\ Ordered /\ BatchOK /\ Acks /\ Checkpoints /\ Complete /\ Wakeful
    /\ TombstonesBounded

LEMMA InvInit == Init => TableInv
<1> SUFFICES ASSUME Init PROVE TableInv
  OBVIOUS
<1>1. TypeOK
  BY TableConstants DEF Init, TypeOK, Nothing, Contents, Revisions
<1>2. Ordered /\ BatchOK /\ Acks /\ Checkpoints /\ Wakeful
  BY DEF Init, Ordered, BatchOK, Acks, Checkpoints, Wakeful, Nothing
<1>3. Complete
  BY DEF Init, Complete, Owed, Known
<1>4. Retained(tombs) = {}
  BY DEF Init, Retained, Nothing
<1>5. TombstonesBounded
  BY <1>4, FS_EmptySet, TableConstants DEF TombstonesBounded, TooMany
<1> QED  BY <1>1, <1>2, <1>3, <1>5 DEF TableInv

\* A step of the batch alone concerns no stream.
LEMMA BatchAlone ==
    ASSUME TableInv, UNCHANGED <<version, registry, notify, seen, live, stream, pc>>,
           writer \in {"idle", "open"}, writer' \in {"idle", "open"},
           dRows' \in Contents, dRevision' \in Revisions, dTombs' \in Contents,
           touched' \subseteq Keys, BatchOK'
    PROVE  TableInv'
<1>1. TypeOK'
  BY DEF TableInv, TypeOK, version, registry, stream
<1>2. Ordered' /\ Acks' /\ Checkpoints' /\ Wakeful'
  BY DEF TableInv, Ordered, Acks, Checkpoints, Wakeful, Resumable, version,
         registry, stream
<1>3. Complete'
  BY DEF TableInv, Complete, Owed, Known, FeedLost, Resumable, version,
         registry, stream
<1>4. TombstonesBounded'
  BY DEF TableInv, TombstonesBounded, registry
<1> QED  BY <1>1, <1>2, <1>3, <1>4 DEF TableInv

LEMMA BatchStep ==
    ASSUME TableInv, Begin \/ DeleteAll \/ Abandon \/ \E k \in Keys : Insert(k) \/ Delete(k)
    PROVE  TableInv'
<1>1. CASE Begin
  <2>1. BatchOK'
    BY <1>1, TableConstants DEF Begin, TableInv, TypeOK, Ordered, BatchOK,
           Nothing, Revisions, version
  <2> QED  BY <1>1, <2>1, BatchAlone, TableConstants DEF Begin, TableInv,
                  TypeOK, Nothing, Contents, Revisions
<1>2. CASE Abandon
  <2>1. BatchOK'
    BY <1>2 DEF Abandon, EndBatch, BatchOK
  <2> QED  BY <1>2, <2>1, BatchAlone, TableConstants DEF Abandon, EndBatch,
                  Nothing, Contents, Revisions
<1>3. ASSUME NEW k \in Keys, Insert(k) PROVE TableInv'
  <2>1. dRevision + 1 \in Revisions /\ revision \in Nat /\ dRevision \in Nat
    BY <1>3, TableConstants DEF Insert, Numbered, TableInv, TypeOK, Revisions
  <2>2. dRows' \in Contents /\ dTombs' \in Contents /\ touched' \subseteq Keys
    BY <1>3, <2>1, TableConstants DEF Insert, TableInv, TypeOK, Contents,
           Revisions
  <2>3. BatchOK'
    BY <1>3, <2>1, TableConstants DEF Insert, TableInv, TypeOK, BatchOK,
           Contents, Revisions, version
  <2> QED  BY <1>3, <2>1, <2>2, <2>3, BatchAlone DEF Insert
<1>4. ASSUME NEW k \in Keys, Delete(k) PROVE TableInv'
  <2>1. dRevision + 1 \in Revisions /\ revision \in Nat /\ dRevision \in Nat
    BY <1>4, TableConstants DEF Delete, Numbered, TableInv, TypeOK, Revisions
  <2>2. dRows' \in Contents /\ dTombs' \in Contents /\ touched' \subseteq Keys
    BY <1>4, <2>1, TableConstants DEF Delete, TableInv, TypeOK, Contents,
           Revisions
  <2>3. BatchOK'
    BY <1>4, <2>1, TableConstants DEF Delete, TableInv, TypeOK, BatchOK,
           Contents, Revisions, version
  <2> QED  BY <1>4, <2>1, <2>2, <2>3, BatchAlone DEF Delete
<1>5. CASE DeleteAll
  <2> DEFINE present == {k \in Keys : dRows[k] # 0}
             n == Cardinality(present)
  <2>1. IsFiniteSet(present) /\ n \in Nat
    BY TableConstants, FS_Subset, FS_CardinalityType
  <2>2. PICK at \in [present -> (dRevision + 1) .. (dRevision + n)] :
            dTombs' = [k \in Keys |-> IF k \in present THEN at[k] ELSE dTombs[k]]
    BY <1>5 DEF DeleteAll
  <2>3. /\ writer = "open" /\ writer' = writer /\ dRevision + n <= MaxRevision
        /\ dRevision' = dRevision + n /\ dRows' = Nothing
        /\ touched' = touched \cup present
        /\ UNCHANGED <<version, registry, notify, seen, live, stream, pc>>
    BY <1>5 DEF DeleteAll, Numbered
  <2>4. present \subseteq Keys /\ \A k \in Keys : k \in present <=> dRows[k] # 0
    OBVIOUS
  <2> HIDE DEF n, present
  <2>5. /\ dRevision' \in Revisions /\ revision \in Nat /\ dRevision \in Nat
        /\ dRevision <= dRevision'
    BY <2>1, <2>3, TableConstants DEF TableInv, TypeOK, Revisions
  <2>6. \A k \in present : at[k] \in Revisions /\ at[k] > dRevision /\ at[k] <= dRevision'
    BY <2>1, <2>2, <2>3, <2>5, TableConstants DEF Revisions
  <2>7. dRows' \in Contents /\ dTombs' \in Contents /\ touched' \subseteq Keys
    BY <2>2, <2>3, <2>4, <2>6, TableConstants DEF TableInv, TypeOK, Contents,
           Nothing, Revisions
  <2>8. BatchOK'
    BY <2>2, <2>3, <2>4, <2>5, <2>6, TableConstants DEF TableInv, TypeOK,
           BatchOK, Contents, Nothing, Revisions, version
  <2> QED  BY <2>3, <2>5, <2>7, <2>8, BatchAlone
<1> QED  BY <1>1, <1>2, <1>3, <1>4, <1>5

\* A collection takes nothing from a consumer that still counts on it.
LEMMA OwedAfter ==
    ASSUME NEW t \in Contents, NEW a, NEW rev, NEW lag, NEW subs, NEW r \in Contents,
           Maintained(t, a, rev, lag, subs), TypeOK, NEW s \in Subs, Owed(s, r, t),
           \/ s \in subs \ lag /\ a[s] <= cursor[s]
           \/ discarded' <= cursor[s]
    PROVE  Owed(s, r, tombs')
<1> SUFFICES ASSUME NEW k \in Keys, tombs'[k] # t[k], t[k] > cursor[s] PROVE FALSE
  BY DEF Owed
<1>1. t[k] \in Nat /\ cursor[s] \in Nat /\ discarded' \in Nat
  BY TableConstants DEF TypeOK, Maintained, Contents, Revisions
<1>2. t[k] <= discarded' /\ (s \in subs \ lag => t[k] <= a[s] /\ a[s] \in Nat)
  BY TableConstants DEF Maintained, Revisions
<1> QED  BY <1>1, <1>2

LEMMA CommitStep ==
    ASSUME TableInv, Commit
    PROVE  TableInv'
<1> DEFINE t == [k \in Keys |-> IF k \in touched THEN dTombs[k] ELSE tombs[k]]
<1>1. PICK old \in SUBSET live :
        /\ Maintain(t, acked, dRevision, old, live)
        /\ resync' = [s \in Subs |-> resync[s] \/ s \in Lagging(t, acked, dRevision, old)]
  BY DEF Commit
<1>2. /\ writer = "open" /\ writer' = "publishing" /\ rows' = dRows /\ revision' = dRevision
      /\ dRows' = Nothing /\ dRevision' = 0 /\ dTombs' = Nothing /\ touched' = {}
      /\ UNCHANGED <<notify, seen, live, stream, pc>>
  BY DEF Commit, EndBatch
<1>3. \A k \in Keys : t[k] = IF k \in touched THEN dTombs[k] ELSE tombs[k]
  OBVIOUS
<1>4. t \in Contents
  BY TableConstants DEF TableInv, TypeOK, Contents
<1> HIDE DEF t
<1>5. revision <= dRevision /\ revision \in Nat /\ dRevision \in Nat
  BY <1>2, TableConstants DEF TableInv, TypeOK, BatchOK, Revisions
<1>6. Maintainable(t, acked, dRevision, live)
  <2>1. \A k \in Keys : t[k] <= dRevision
    <3> SUFFICES ASSUME NEW k \in Keys PROVE t[k] <= dRevision
      OBVIOUS
    <3>1. dTombs[k] <= dRevision
      BY <1>2 DEF TableInv, BatchOK
    <3>2. tombs[k] <= revision /\ tombs[k] \in Nat
      BY TableConstants DEF TableInv, TypeOK, Ordered, Contents, Revisions
    <3> QED  BY <1>3, <1>5, <3>1, <3>2
  <2> QED  BY <1>4, <1>5, <2>1, TableConstants DEF Maintainable, TableInv,
                  TypeOK, Ordered, Revisions
<1> DEFINE lag == Lagging(t, acked, dRevision, old)
<1>7. Maintained(t, acked, dRevision, lag, live) /\ ~TooMany(tombs')
  BY <1>1, <1>6, MaintainKeeps, MaintainBounds
<1>8. \A s \in Subs : resync'[s] = (resync[s] \/ s \in lag)
  BY <1>1
<1>9. resync' \in [Subs -> BOOLEAN]
  BY <1>1
<1> HIDE DEF lag
<1>10. TypeOK'
  BY <1>2, <1>7, <1>9, TableConstants DEF TableInv, TypeOK, Maintained, stream,
         Nothing, Contents, Revisions
<1>11. Ordered'
  BY <1>2, <1>5, <1>7, TableConstants DEF TableInv, TypeOK, Ordered, BatchOK,
         Maintained, stream, Revisions
<1>12. BatchOK' /\ Wakeful'
  BY <1>2 DEF TableInv, BatchOK, Wakeful, stream
<1>13. Acks'
  BY <1>2, <1>7, <1>8 DEF TableInv, TypeOK, Acks, Maintained, stream
<1>14. Checkpoints'
  BY <1>2, <1>8 DEF TableInv, Checkpoints, Resumable, stream
<1>15. Complete'
  <2> SUFFICES ASSUME NEW s \in Subs, ~FeedLost(s)' PROVE Owed(s, rows, tombs)'
    BY DEF Complete
  <2>1. cursor[s] \in Nat /\ discarded \in Nat /\ discarded' \in Nat /\ discarded <= discarded'
    BY <1>7, TableConstants DEF TableInv, TypeOK, Maintained, Revisions
  <2>2. ~FeedLost(s)
    <3>1. CASE s \in live
      BY <1>2, <1>8, <3>1 DEF FeedLost
    <3>2. CASE s \notin live
      <4>1. Resumable(s)' /\ ~(cursor[s] < discarded')
        BY <1>2, <3>2 DEF FeedLost, stream
      <4>2. Resumable(s)
        BY <1>2, <1>8, <4>1 DEF Resumable, stream
      <4> QED  BY <2>1, <3>2, <4>1, <4>2 DEF FeedLost
    <3> QED  BY <3>1, <3>2
  <2>3. Owed(s, dRows, t)
    <3>1. Owed(s, rows, tombs) /\ cursor[s] <= revision
      BY <2>2 DEF TableInv, Complete, Ordered
    <3>2. SUFFICES ASSUME NEW k \in Keys
                   PROVE  Known(s, k) = dRows[k] \/ dRows[k] > cursor[s] \/ t[k] > cursor[s]
      BY DEF Owed
    <3>3. dRows[k] \in Nat /\ t[k] \in Nat
      BY <1>4, TableConstants DEF TableInv, TypeOK, Contents, Revisions
    <3>4. CASE k \in touched
      BY <1>2, <1>3, <1>5, <2>1, <3>1, <3>3, <3>4 DEF TableInv, BatchOK
    <3>5. CASE k \notin touched
      BY <1>2, <1>3, <3>1, <3>5 DEF TableInv, BatchOK, Owed
    <3> QED  BY <3>4, <3>5
  <2>4. (s \in live \ lag /\ acked[s] <= cursor[s]) \/ discarded' <= cursor[s]
    <3>1. CASE s \in live
      BY <1>2, <1>8, <3>1 DEF TableInv, Acks, FeedLost
    <3>2. CASE s \notin live
      BY <1>2, <2>1, <3>2 DEF FeedLost, stream
    <3> QED  BY <3>1, <3>2
  <2>5. Owed(s, dRows, tombs')
    <3>1. dRows \in Contents /\ TypeOK
      BY DEF TableInv, TypeOK
    <3> QED  BY <1>4, <1>7, <2>3, <2>4, <3>1, OwedAfter
  <2> QED  BY <1>2, <2>5 DEF Owed, Known, stream
<1>16. TombstonesBounded'
  BY <1>7 DEF TombstonesBounded
<1> QED  BY <1>10, <1>11, <1>12, <1>13, <1>14, <1>15, <1>16 DEF TableInv

LEMMA NotifyStep ==
    ASSUME TableInv, Notify
    PROVE  TableInv'
<1>1. TypeOK'
  BY DEF TableInv, TypeOK, Notify, version, registry, stream
<1>2. Ordered'
  BY TableConstants DEF TableInv, TypeOK, Ordered, Notify, version, registry,
         stream, Revisions
<1>3. BatchOK' /\ Acks' /\ Checkpoints' /\ Wakeful'
  BY DEF TableInv, BatchOK, Acks, Checkpoints, Wakeful, Resumable, Notify,
         version, registry, stream
<1>4. Complete'
  BY DEF TableInv, Complete, Owed, Known, FeedLost, Resumable, Notify, version,
         registry, stream
<1>5. TombstonesBounded'
  BY DEF TableInv, TombstonesBounded, Notify, registry
<1> QED  BY <1>1, <1>2, <1>3, <1>4, <1>5 DEF TableInv

\* A consumer whose stream a step of the registry left alone still counts on
\* what it has.
LEMMA OwedStill ==
    ASSUME TableInv, NEW a, NEW lag, NEW subs,
           Maintained(tombs, a, revision, lag, subs), live' = subs, subs \subseteq live,
           rows' = rows, NEW s \in Subs, cursor'[s] = cursor[s],
           pending'[s] = pending[s], mirror'[s] = mirror[s],
           s \in subs /\ ~resync[s] => a[s] <= cursor[s],
           ~resync'[s] => ~resync[s] /\ ~(s \in subs /\ s \in lag),
           ~FeedLost(s)'
    PROVE  Owed(s, rows, tombs)'
<1>1. cursor[s] \in Nat /\ discarded \in Nat /\ discarded' \in Nat /\ discarded <= discarded'
  BY TableConstants DEF TableInv, TypeOK, Maintained, Revisions
<1>2. ~FeedLost(s) /\ ((s \in subs \ lag /\ a[s] <= cursor[s]) \/ discarded' <= cursor[s])
  <2>1. CASE s \in subs
    BY <2>1 DEF FeedLost
  <2>2. CASE s \notin subs
    <3>1. Resumable(s)' /\ ~(cursor[s] < discarded')
      BY <2>2 DEF FeedLost
    <3>2. Resumable(s)
      BY <3>1 DEF Resumable
    <3> QED  BY <1>1, <3>1, <3>2 DEF FeedLost, Resumable
  <2> QED  BY <2>1, <2>2
<1>3. Owed(s, rows, tombs) /\ TypeOK /\ rows \in Contents /\ tombs \in Contents
  BY <1>2 DEF TableInv, TypeOK, Complete
<1>4. Owed(s, rows, tombs')
  BY <1>2, <1>3, OwedAfter
<1> QED  BY <1>4 DEF Owed, Known

LEMMA DropStep ==
    ASSUME TableInv, NEW s \in Subs, Drop(s)
    PROVE  TableInv'
<1>1. PICK old \in SUBSET live' :
        /\ Maintain(tombs, acked, revision, old, live')
        /\ resync' = [r \in Subs |->
               resync[r] \/ (r # s /\ r \in Lagging(tombs, acked, revision, old))]
  BY DEF Drop
<1>2. /\ live' = live \ {s} /\ writer # "publishing"
      /\ UNCHANGED <<version, batch, notify, seen, stream, pc>>
  BY DEF Drop, Unlocked
<1>3. Maintainable(tombs, acked, revision, live')
  BY <1>2, TableConstants DEF Maintainable, TableInv, TypeOK, Ordered, Revisions
<1> DEFINE lag == Lagging(tombs, acked, revision, old)
<1>4. Maintained(tombs, acked, revision, lag, live') /\ ~TooMany(tombs')
  BY <1>1, <1>3, MaintainKeeps, MaintainBounds
<1>5. \A r \in Subs : resync'[r] <=> resync[r] \/ (r # s /\ r \in lag)
  BY <1>1
<1>6. resync' \in [Subs -> BOOLEAN]
  BY <1>1
<1> HIDE DEF lag
<1>7. TypeOK'
  BY <1>2, <1>4, <1>6 DEF TableInv, TypeOK, Maintained, version, batch, stream
<1>8. Ordered'
  BY <1>2, <1>4 DEF TableInv, Ordered, Maintained, version, stream
<1>9. BatchOK' /\ Wakeful'
  BY <1>2 DEF TableInv, BatchOK, Wakeful, version, batch, stream
<1>10. Acks'
  BY <1>2, <1>4, <1>5 DEF TableInv, TypeOK, Acks, Maintained, stream
<1>11. Checkpoints'
  BY <1>2, <1>5 DEF TableInv, Checkpoints, Resumable, stream
<1>12. Complete'
  <2> SUFFICES ASSUME NEW r \in Subs, ~FeedLost(r)' PROVE Owed(r, rows, tombs)'
    BY DEF Complete
  <2>1. r \in live' /\ ~resync[r] => acked[r] <= cursor[r]
    BY <1>2 DEF TableInv, Acks
  <2>2. ~resync'[r] => ~resync[r] /\ ~(r \in live' /\ r \in lag)
    BY <1>2, <1>5
  <2>3. /\ rows' = rows /\ cursor'[r] = cursor[r] /\ pending'[r] = pending[r]
        /\ mirror'[r] = mirror[r] /\ live' \subseteq live
    BY <1>2 DEF version, stream
  <2> QED  BY <1>4, <2>1, <2>2, <2>3, OwedStill
<1>13. TombstonesBounded'
  BY <1>4 DEF TombstonesBounded
<1> QED  BY <1>7, <1>8, <1>9, <1>10, <1>11, <1>12, <1>13 DEF TableInv
=============================================================================
