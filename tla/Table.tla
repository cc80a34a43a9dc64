------------------------------- MODULE Table -------------------------------
(***************************************************************************)
(* flowsdn-table: one table with serialised writers, published versions,   *)
(* and change streams whose deletions are kept as tombstones until every   *)
(* subscriber has acknowledged them or lags too far behind (lib.rs,        *)
(* streams.rs).                                                            *)
(*                                                                         *)
(* A row is identified by the revision that inserted it; 0 is "absent".    *)
(* The contents of rows and the secondary indexes are left out.  Time is   *)
(* left open: any unacknowledged subscriber may be over tombstone_max_age, *)
(* and a collection may or may not be throttled.                           *)
(***************************************************************************)
EXTENDS Naturals, FiniteSets, FiniteSetsExt

CONSTANTS
    Keys,
    Subs,            \* change streams
    MaxRevision,     \* the largest revision (u64::MAX)
    MaxTombstones    \* tombstone_max_count

ASSUME TableConstants ==
    /\ MaxRevision \in Nat
    /\ MaxTombstones \in Nat
    /\ IsFiniteSet(Keys) /\ IsFiniteSet(Subs)

VARIABLES
    \* the published version
    rows, revision,
    \* the batch in progress
    writer, dRows, dRevision, dTombs, touched,
    \* StreamState
    tombs, discarded,
    \* the watch channel
    notify, seen,
    \* the streams, and what their consumers made of them
    live, acked, resync, cursor, delivered, pending, mirror, pc

version == <<rows, revision>>
batch == <<writer, dRows, dRevision, dTombs, touched>>
registry == <<tombs, discarded, acked, resync>>
stream == <<cursor, delivered, pending, mirror>>
vars == <<version, batch, registry, notify, seen, live, stream, pc>>

Revisions == 0 .. MaxRevision
Contents == [Keys -> Revisions]
Nothing == [k \in Keys |-> 0]

Init ==
    /\ rows = Nothing /\ revision = 0
    /\ writer = "idle" /\ dRows = Nothing /\ dRevision = 0 /\ dTombs = Nothing
    /\ touched = {}
    /\ tombs = Nothing /\ discarded = 0
    /\ notify = 0 /\ seen = [s \in Subs |-> 0]
    /\ live = {}
    /\ acked = [s \in Subs |-> 0]
    /\ resync = [s \in Subs |-> FALSE]
    /\ cursor = [s \in Subs |-> 0]
    /\ delivered = [s \in Subs |-> 0]
    /\ pending = [s \in Subs |-> Nothing]
    /\ mirror = [s \in Subs |-> Nothing]
    /\ pc = [s \in Subs |-> "ready"]

----------------------------------------------------------------------------
(* StreamState::maintain, run with the registry locked. *)

Retained(t) == {k \in Keys : t[k] # 0}
TooMany(t) == Cardinality(Retained(t)) > MaxTombstones

\* Subscribers that are resynchronised: over the count, or over the age.
Lagging(t, a, rev, old) ==
    {s \in live : /\ a[s] < rev
                  /\ \/ s \in old
                     \/ /\ TooMany(t)
                        /\ Cardinality({k \in Keys : t[k] > a[s]}) > MaxTombstones}

Advanced(a, lag, rev) == [s \in Subs |-> IF s \in lag THEN rev ELSE a[s]]

\* Collect the tombstones that every subscriber has acknowledged.
Collect(t, low) ==
    /\ tombs' = [k \in Keys |-> IF t[k] <= low THEN 0 ELSE t[k]]
    /\ discarded' = Max({discarded} \cup {t[k] : k \in {j \in Keys : t[j] <= low}})

\* Mutant: a collection that does not wait for acknowledgements.
LowIgnoringSubscribers(a, rev, subs) == rev

\* The oldest revision some subscriber may still need.
Low(a, rev, subs) == Min({rev} \cup {a[s] : s \in subs})

\* t and a are the tombstones and acknowledgements so far, old the
\* subscribers whose last acknowledgement is too long ago.
Maintain(t, a, rev, old, subs) ==
    LET lag == Lagging(t, a, rev, old) \cap subs
        next == Advanced(a, lag, rev)
    IN  /\ acked' = next
        /\ \/ /\ ~TooMany(t)
              /\ tombs' = t
              /\ UNCHANGED discarded
           \/ Collect(t, Low(next, rev, subs))

----------------------------------------------------------------------------
(* Writers. *)

\* Table::batch: the writer lock and a private copy of the version.
Begin ==
    /\ writer = "idle"
    /\ writer' = "open"
    /\ dRows' = rows
    /\ dRevision' = revision
    /\ dTombs' = Nothing
    /\ touched' = {}
    /\ UNCHANGED <<version, registry, notify, seen, live, stream, pc>>

\* Write::next_revision: n more revisions can be numbered.
Numbered(n) == dRevision + n <= MaxRevision

\* Write::insert; a failed operation changes nothing.  insert_if_revision and
\* modify are this action, or Delete, under a further condition on the row.
Insert(k) ==
    /\ writer = "open"
    /\ Numbered(1)
    /\ dRevision' = dRevision + 1
    /\ dRows' = [dRows EXCEPT ![k] = dRevision + 1]
    /\ dTombs' = [dTombs EXCEPT ![k] = 0]
    /\ touched' = touched \cup {k}
    /\ UNCHANGED <<version, writer, registry, notify, seen, live, stream, pc>>

\* Write::delete: also of an absent key.
Delete(k) ==
    /\ writer = "open"
    /\ Numbered(1)
    /\ dRevision' = dRevision + 1
    /\ dRows' = [dRows EXCEPT ![k] = 0]
    /\ dTombs' = [dTombs EXCEPT ![k] = dRevision + 1]
    /\ touched' = touched \cup {k}
    /\ UNCHANGED <<version, writer, registry, notify, seen, live, stream, pc>>

\* Write::delete_all, in the order of the keys: all of them or none.
DeleteAll ==
    LET present == {k \in Keys : dRows[k] # 0}
        n == Cardinality(present)
    IN  /\ writer = "open"
        /\ present # {}
        /\ Numbered(n)
        /\ dRevision' = dRevision + n
        /\ dRows' = Nothing
        /\ \E at \in [present -> (dRevision + 1) .. (dRevision + n)] :
             /\ \A j, k \in present : at[j] = at[k] => j = k
             /\ dTombs' = [k \in Keys |-> IF k \in present THEN at[k] ELSE dTombs[k]]
        /\ touched' = touched \cup present
        /\ UNCHANGED <<version, writer, registry, notify, seen, live, stream, pc>>

\* The private copy is gone.
EndBatch(next) ==
    /\ writer' = next
    /\ dRows' = Nothing /\ dRevision' = 0 /\ dTombs' = Nothing
    /\ touched' = {}

\* Commit: publish to the streams, then store the version; the registry lock
\* is kept until subscribers are notified.  Nothing changed, nothing published.
Commit ==
    /\ writer = "open"
    /\ dRevision # revision
    /\ \E old \in SUBSET live :
         LET t == [k \in Keys |-> IF k \in touched THEN dTombs[k] ELSE tombs[k]]
         IN  /\ Maintain(t, acked, dRevision, old, live)
             /\ resync' = [s \in Subs |->
                            resync[s] \/ s \in Lagging(t, acked, dRevision, old)]
    /\ rows' = dRows
    /\ revision' = dRevision
    /\ EndBatch("publishing")
    /\ UNCHANGED <<notify, seen, live, stream, pc>>

Abandon ==
    /\ writer = "open"
    /\ dRevision = revision
    /\ EndBatch("idle")
    /\ UNCHANGED <<version, registry, notify, seen, live, stream, pc>>

\* Mutant: a publication nobody is told of.
NotifyNobody ==
    /\ writer = "publishing"
    /\ writer' = "idle"
    /\ UNCHANGED <<version, dRows, dRevision, dTombs, touched, registry, notify, seen,
                   live, stream, pc>>

Notify ==
    /\ writer = "publishing"
    /\ notify' = revision
    /\ writer' = "idle"
    /\ UNCHANGED <<version, dRows, dRevision, dTombs, touched, registry, seen, live,
                   stream, pc>>

----------------------------------------------------------------------------
(* Subscribers.  Every operation below holds the registry lock. *)

Unlocked == writer # "publishing"

\* Table::watch.  A consumer starts anew, or resumes from the checkpoint up
\* to which its mirror is complete, or brings one the table never reached.
Resumable(s) == pending[s] = Nothing /\ ~resync[s]

Watch(s, from) ==
    /\ s \notin live
    /\ Unlocked
    /\ from = 0 \/ from > revision \/ (from = delivered[s] /\ Resumable(s))
    /\ live' = live \cup {s}
    /\ LET start == Min({from, revision}) IN
         /\ acked' = [acked EXCEPT ![s] = start]
         /\ delivered' = [delivered EXCEPT ![s] = start]
         /\ cursor' = [cursor EXCEPT ![s] = IF from = 0 THEN revision ELSE start]
    /\ resync' = [resync EXCEPT ![s] = from # 0 /\ (from < discarded \/ from > revision)]
    /\ pending' = [pending EXCEPT ![s] = IF from = 0 THEN rows ELSE Nothing]
    /\ mirror' = [mirror EXCEPT ![s] = IF from = 0 THEN Nothing ELSE @]
    /\ seen' = [seen EXCEPT ![s] = notify]
    /\ pc' = [pc EXCEPT ![s] = "ready"]
    /\ UNCHANGED <<version, batch, tombs, discarded, notify>>

\* Dropping a stream releases its retention.
Drop(s) ==
    /\ s \in live
    /\ Unlocked
    /\ live' = live \ {s}
    /\ \E old \in SUBSET live' :
         /\ Maintain(tombs, acked, revision, old, live')
         /\ resync' = [r \in Subs |->
                \/ resync[r]
                \/ r # s /\ r \in Lagging(tombs, acked, revision, old)]
    /\ UNCHANGED <<version, batch, notify, seen, stream, pc>>

\* ChangeStream::ack
Ack(s, at) ==
    /\ s \in live
    /\ Unlocked
    /\ LET a == [acked EXCEPT ![s] = Max({@, Min({at, delivered[s]})}) ] IN
         \E old \in SUBSET (IF a[s] = acked[s] THEN live ELSE live \ {s}) :
           /\ Maintain(tombs, a, revision, old, live)
           /\ resync' = [r \in Subs |-> resync[r] \/ r \in Lagging(tombs, a, revision, old)]
    /\ UNCHANGED <<version, batch, notify, seen, live, stream, pc>>

\* drain, first step: the notification is taken before the version is read.
Mark(s) ==
    /\ s \in live
    /\ pc[s] = "ready"
    /\ seen' = [seen EXCEPT ![s] = notify]
    /\ pc' = [pc EXCEPT ![s] = "marked"]
    /\ UNCHANGED <<version, batch, registry, notify, live, stream>>

\* The first changes by revision: d is what a drain of size max returns.
Prefix(d, changes) ==
    /\ d \subseteq Retained(changes)
    /\ \A k \in d, j \in Retained(changes) \ d : changes[k] < changes[j]

\* A population, of which the first changes are delivered; with a Resync
\* before them if the consumer's mirror is to be discarded.
DrainPopulation(s, again) ==
    LET population == IF again THEN rows ELSE pending[s]
        at == IF again THEN revision ELSE cursor[s]
        before == IF again THEN Nothing ELSE mirror[s]
    IN  \E d \in SUBSET Keys :
          /\ Prefix(d, population)
          /\ again \/ d # {}
          /\ mirror' = [mirror EXCEPT ![s] =
                         [k \in Keys |-> IF k \in d THEN population[k] ELSE before[k]]]
          /\ pending' = [pending EXCEPT ![s] =
                         [k \in Keys |-> IF k \in d THEN 0 ELSE population[k]]]
          /\ cursor' = [cursor EXCEPT ![s] = at]
          /\ delivered' = [delivered EXCEPT ![s] = IF pending'[s] = Nothing THEN at ELSE @]
          /\ pc' = [pc EXCEPT ![s] = "ready"]

\* Mutant: deletions are not part of the live changes.
ChangesWithoutDeletions(s, t) == [k \in Keys |-> IF rows[k] > cursor[s] THEN rows[k] ELSE 0]

\* The current state of every key that changed after the cursor.
Changes(s, t) ==
    [k \in Keys |-> IF rows[k] > cursor[s] THEN rows[k]
                    ELSE IF t[k] > cursor[s] THEN t[k] ELSE 0]

DrainLive(s) ==
    LET changes == Changes(s, tombs') IN
    \E d \in SUBSET Keys :
      /\ Prefix(d, changes)
      /\ d = {} <=> Retained(changes) = {}
      /\ mirror' = [mirror EXCEPT ![s] = [k \in Keys |-> IF k \in d THEN rows[k] ELSE @[k]]]
      /\ cursor' = [cursor EXCEPT ![s] = IF d = {} THEN revision
                                        ELSE Max({changes[k] : k \in d})]
      /\ delivered' = [delivered EXCEPT ![s] = cursor'[s]]
      /\ pc' = [pc EXCEPT ![s] = IF d = {} THEN "waiting" ELSE "ready"]
      /\ UNCHANGED pending

Drain(s) ==
    /\ s \in live
    /\ pc[s] = "marked"
    /\ Unlocked
    /\ \E old \in SUBSET live :
         LET lag == Lagging(tombs, acked, revision, old)
             again == resync[s] \/ s \in lag
         IN  /\ Maintain(tombs, acked, revision, old, live)
             /\ resync' = [r \in Subs |-> r # s /\ (resync[r] \/ r \in lag)]
             /\ IF again \/ pending[s] # Nothing THEN DrainPopulation(s, again)
                                                ELSE DrainLive(s)
    /\ UNCHANGED <<version, batch, notify, seen, live>>

\* next: wait until something newer than the taken notification is published.
Wake(s) ==
    /\ s \in live
    /\ pc[s] = "waiting"
    /\ notify # seen[s]
    /\ pc' = [pc EXCEPT ![s] = "ready"]
    /\ UNCHANGED <<version, batch, registry, notify, seen, live, stream>>

----------------------------------------------------------------------------
Next ==
    \/ Begin \/ DeleteAll \/ Commit \/ Abandon \/ Notify
    \/ \E k \in Keys : Insert(k) \/ Delete(k)
    \/ \E s \in Subs :
         \/ \E r \in {0, delivered[s], revision + 1} : Watch(s, r)
         \/ \E r \in Revisions : Ack(s, r)
         \/ Drop(s) \/ Mark(s) \/ Drain(s) \/ Wake(s)

\* Publication finishes and a consumer that can go on goes on.
Fairness ==
    /\ WF_vars(Commit) /\ WF_vars(Notify)
    /\ \A s \in Subs : WF_vars(Mark(s)) /\ WF_vars(Drain(s)) /\ WF_vars(Wake(s))

Spec == Init /\ [][Next]_vars /\ Fairness

----------------------------------------------------------------------------
(* Properties. *)

\* The shape of the table, of the batch in progress and of the streams.
TypeOK ==
    /\ rows \in Contents /\ revision \in Revisions
    /\ writer \in {"idle", "open", "publishing"}
    /\ dRows \in Contents /\ dRevision \in Revisions /\ dTombs \in Contents
    /\ touched \subseteq Keys
    /\ tombs \in Contents /\ discarded \in Revisions
    /\ notify \in Revisions /\ seen \in [Subs -> Revisions]
    /\ live \subseteq Subs
    /\ acked \in [Subs -> Revisions] /\ resync \in [Subs -> BOOLEAN]
    /\ cursor \in [Subs -> Revisions] /\ delivered \in [Subs -> Revisions]
    /\ pending \in [Subs -> Contents] /\ mirror \in [Subs -> Contents]
    /\ pc \in [Subs -> {"ready", "marked", "waiting"}]

\* What the consumer has of a key, or is about to get from the population.
Known(s, k) == IF pending[s][k] # 0 THEN pending[s][k] ELSE mirror[s][k]

\* No change is lost: a key of which a consumer knows something outdated has
\* a later row or a retained tombstone, unless a Resync is on its way.
NothingMissed ==
    \A s \in live : ~resync[s] =>
        \A k \in Keys : \/ Known(s, k) = rows[k]
                        \/ rows[k] > cursor[s]
                        \/ tombs[k] > cursor[s]

\* The abstract feed: a stream that can no longer be resumed is lost.
FeedLost(s) ==
    IF s \in live THEN resync[s] ELSE ~Resumable(s) \/ cursor[s] < discarded

FeedDirty(s) ==
    [k \in Keys |-> IF FeedLost(s) THEN 0
                    ELSE IF Changes(s, tombs)[k] # 0 THEN Changes(s, tombs)[k]
                    ELSE pending[s][k]]

Dirty == [s \in Subs |-> FeedDirty(s)]
Lost == [s \in Subs |-> FeedLost(s)]
Acked == [s \in Subs |-> IF s \in live THEN acked[s] ELSE 0]

Feed == INSTANCE ChangeFeed WITH
    dirty <- Dirty, lost <- Lost, checkpoint <- delivered, acked <- Acked

\* The tombstones, cursors and acknowledgements of streams.rs are an
\* implementation of the feed: every step of the table is one of the feed's,
\* so no subscriber is ever told less than the feed owes it.
ImplementsFeed == Feed!FeedSpec

\* Lagging consumers cannot make the table keep more than the configured
\* number of tombstones.
TombstonesBounded == ~TooMany(tombs)

\* "Publication between draining and awaiting cannot be lost": a consumer
\* that waits in next() while the table has something new is woken.
NoLostWakeup ==
    \A s \in live : pc[s] = "waiting" /\ writer # "publishing" /\ cursor[s] < revision =>
        notify # seen[s]

\* Together: the streams tell everything, within the bound, and wake up.
StreamsHold == NothingMissed /\ TombstonesBounded /\ NoLostWakeup

\* A consumer that stays subscribed ends with the table's rows.
Converges == \A s \in Subs : <>[](s \in live) => <>[](mirror[s] = rows)
=============================================================================
