----------------------------- MODULE ChangeFeed -----------------------------
(***************************************************************************)
(* What a table promises its consumers, without tombstones and cursors:    *)
(* for every subscriber the keys whose latest change it has yet to be      *)
(* told, the checkpoint up to which it was told, and how far it has        *)
(* acknowledged.  Table implements this specification, and Reconcile is    *)
(* written over it.                                                        *)
(*                                                                         *)
(* The table may lose track of a subscriber that has not acknowledged      *)
(* everything.  It then tells it so, and starts again with all rows that   *)
(* exist (Change::Resync).                                                 *)
(***************************************************************************)
EXTENDS Naturals

CONSTANTS
    Keys,
    Subs,
    MaxRevision      \* the largest revision (u64::MAX)

ASSUME RevisionsAssumption == MaxRevision \in Nat

VARIABLES
    rows,        \* the revision of the row of a key, 0 if there is none
    revision,    \* the revision of the table
    live,        \* who is subscribed
    dirty,       \* the revision of a change a subscriber is yet to be told, or 0
    lost,        \* the table lost track of a subscriber
    checkpoint,  \* ChangeStream::revision
    acked        \* what a subscriber has acknowledged

feed == <<rows, revision, live, dirty, lost, checkpoint, acked>>

Revisions == 0 .. MaxRevision
Contents == [Keys -> Revisions]
Nothing == [k \in Keys |-> 0]
Present == {k \in Keys : rows[k] # 0}

FeedInit ==
    /\ rows = Nothing
    /\ revision = 0
    /\ live = {}
    /\ dirty = [s \in Subs |-> Nothing]
    /\ lost = [s \in Subs |-> FALSE]
    /\ checkpoint = [s \in Subs |-> 0]
    /\ acked = [s \in Subs |-> 0]

\* d, l and a are what the step makes of dirty, lost and acked; whenever
\* somebody uses the table, it may lose track of lagging subscribers too.
Track(d, l, a) ==
    \E gone \in SUBSET {s \in Subs : s \in live' => a[s] < revision'} :
      /\ lost' = [s \in Subs |-> l[s] \/ s \in gone]
      /\ dirty' = [s \in Subs |-> IF lost'[s] THEN Nothing ELSE d[s]]
      /\ acked' = [s \in Subs |-> IF s \in gone \cap live' THEN revision' ELSE a[s]]

\* A batch changes the keys of at, each at its revision, and removes the rows
\* of the keys in removed.
Publish(at, removed) ==
    /\ \A k \in DOMAIN at : at[k] > revision
    /\ removed \subseteq DOMAIN at
    /\ \E last \in DOMAIN at :
         /\ \A k \in DOMAIN at : at[k] <= at[last]
         /\ revision' = at[last]
    /\ rows' = [k \in Keys |-> IF k \in removed THEN 0
                              ELSE IF k \in DOMAIN at THEN at[k] ELSE rows[k]]
    /\ UNCHANGED <<live, checkpoint>>
    /\ Track([s \in Subs |->
               [k \in Keys |-> IF k \in DOMAIN at THEN at[k] ELSE dirty[s][k]]], lost, acked)

\* A new subscriber is told about every row.
Subscribe(s) ==
    /\ s \notin live
    /\ live' = live \cup {s}
    /\ lost' = [lost EXCEPT ![s] = FALSE]
    /\ dirty' = [dirty EXCEPT ![s] = rows]
    /\ checkpoint' = [checkpoint EXCEPT ![s] = 0]
    /\ UNCHANGED <<rows, revision, acked>>

\* A former subscriber is told what it missed, or that the table lost track,
\* as of one that brings a checkpoint the table never reached.
Resume(s) ==
    /\ s \notin live
    /\ live' = live \cup {s}
    /\ \/ UNCHANGED <<lost, dirty, checkpoint>>
       \/ /\ lost' = [lost EXCEPT ![s] = TRUE]
          /\ dirty' = [dirty EXCEPT ![s] = Nothing]
          /\ checkpoint' = [checkpoint EXCEPT ![s] = revision]
    /\ acked' = [acked EXCEPT ![s] = checkpoint'[s]]
    /\ UNCHANGED <<rows, revision>>

Unsubscribe(s) ==
    /\ s \in live
    /\ live' = live \ {s}
    /\ UNCHANGED <<rows, revision, checkpoint>>
    /\ Track(dirty, lost, [acked EXCEPT ![s] = 0])

\* ChangeStream::ack
Acknowledge(s, at) ==
    /\ s \in live
    /\ UNCHANGED <<rows, revision, live, checkpoint>>
    /\ Track(dirty, lost,
             [acked EXCEPT ![s] = IF at <= checkpoint[s] /\ @ < at THEN at ELSE @])

\* d without the changes of told; the rest is still to be told.
Without(d, told) ==
    [k \in Keys |-> IF k \in DOMAIN told /\ told[k] = d[k] THEN 0 ELSE d[k]]

\* The checkpoint moves only past what the subscriber was told.
Advance(s, d) ==
    \E c \in checkpoint[s] .. revision :
      /\ c # checkpoint[s] => \A k \in Keys : d[k] = 0 \/ d[k] > c
      /\ checkpoint' = [checkpoint EXCEPT ![s] = c]

\* told: the changes the subscriber is told, as revisions of the keys.  An
\* older row of a key is told only if the later change is still to be told.
Deliver(s, told) ==
    LET d == Without(dirty[s], told) IN
    /\ s \in live
    /\ ~lost[s]
    /\ \A k \in DOMAIN told : told[k] \in 1 .. dirty[s][k]
    /\ Advance(s, d)
    /\ UNCHANGED <<rows, revision, live>>
    /\ Track([dirty EXCEPT ![s] = d], lost, acked)
    /\ ~lost'[s]

\* Change::Resync: everything told before is void, and all rows are told.
Resync(s, told) ==
    LET d == Without(rows, told) IN
    /\ s \in live
    /\ lost[s] \/ acked[s] < revision
    /\ \A k \in DOMAIN told : told[k] = rows[k] /\ rows[k] # 0
    /\ Advance(s, d)
    /\ UNCHANGED <<rows, revision, live>>
    /\ \E a \in IF lost[s] THEN {acked[s], revision} ELSE {revision} :
         Track([dirty EXCEPT ![s] = d], [lost EXCEPT ![s] = FALSE], [acked EXCEPT ![s] = a])
    /\ ~lost'[s]

\* Revisions given to some of the keys.
Some == UNION {[ks -> Revisions \ {0}] : ks \in SUBSET Keys}

FeedNext ==
    \/ \E s \in Subs :
         \/ Subscribe(s) \/ Resume(s) \/ Unsubscribe(s)
         \/ \E at \in Revisions : Acknowledge(s, at)
         \/ \E told \in Some : Deliver(s, told) \/ Resync(s, told)
    \/ \E at \in Some : \E removed \in SUBSET DOMAIN at : Publish(at, removed)

FeedSpec == FeedInit /\ [][FeedNext]_feed
=============================================================================
