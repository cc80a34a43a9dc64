----------------------------- MODULE Reconcile -----------------------------
(***************************************************************************)
(* flowsdn-reconcile: one reconciler that applies the rows of a table to a *)
(* target which may fail, over the table's change feed (lib.rs, batch.rs,  *)
(* prune.rs, refresh.rs, observer.rs, run.rs).                             *)
(*                                                                         *)
(* A row is the revision that inserted it.  Deadlines are left open: a     *)
(* retry may be due, the prune interval over and a row old enough for a    *)
(* refresh at any time.  A target call may fail having changed the target, *)
(* and may be cancelled: run's future is dropped at an await.              *)
(***************************************************************************)
EXTENDS ChangeFeed, FiniteSetsExt, TLC

CONSTANTS
    me,         \* the reconciler's subscription
    Batched,    \* Target::supports_batches
    Lossy       \* the reconciler may lag behind so far that it is resynchronised

ASSUME ReconcileConstants ==
    /\ Subs = {me}
    /\ Batched \in BOOLEAN /\ Lossy \in BOOLEAN

VARIABLES
    initialized,      \* Table::initialized
    work,             \* the pending queue, by key
    retries,          \* the retry queue, by key
    status,           \* the status store
    attempted,        \* attempted_revision
    resyncRequired, requested, inFlight, pruned,   \* prune state
    phase, group, call, desired,                   \* where the round is
    target,           \* the revision of a key in the target, 0 if there is none
    tried, swept      \* history: rows handed to the target; a prune succeeded

prune == <<resyncRequired, requested, inFlight, pruned, desired>>
queues == <<work, retries, status, attempted>>
vars == <<feed, initialized, queues, prune, phase, group, call, target, tried, swept>>

\* A target object the table never had, left from before.
Foreign == MaxRevision + 1

\* Work and Retry; of the failure count it matters whether it is 0.
Item == [rev : Revisions, update : BOOLEAN, failed : BOOLEAN, refresh : BOOLEAN]
NoItem == [rev |-> 0, update |-> FALSE, failed |-> FALSE, refresh |-> FALSE]
Queue == [Keys -> Item]
NoItems == [k \in Keys |-> NoItem]
Queued(q) == {k \in Keys : q[k].rev # 0}

Status == [rev : Revisions, kind : {"none", "pending", "done", "error"}]
NoStatus == [rev |-> 0, kind |-> "none"]

Init ==
    /\ FeedInit
    /\ initialized = FALSE
    /\ work = NoItems /\ retries = NoItems
    /\ status = [k \in Keys |-> NoStatus]
    /\ attempted = 0
    /\ resyncRequired = FALSE /\ requested = FALSE /\ inFlight = FALSE /\ pruned = FALSE
    /\ desired = Nothing
    /\ phase = "new"
    /\ group = {} /\ call = {}
    /\ target \in [Keys -> {0, Foreign}]
    /\ tried = {} /\ swept = FALSE

----------------------------------------------------------------------------
(* The table's side. *)

Table == UNCHANGED <<initialized, queues, prune, phase, group, call, target, swept>>

Numbered == revision < MaxRevision

Insert(k) ==
    /\ Numbered
    /\ Publish([x \in {k} |-> revision + 1], {})
    /\ tried' = tried \ {k}
    /\ Table

Remove(k) ==
    /\ Numbered
    /\ Publish([x \in {k} |-> revision + 1], {k})
    /\ tried' = tried \ {k}
    /\ Table

Initialize ==
    /\ ~initialized
    /\ initialized' = TRUE
    /\ UNCHANGED <<feed, queues, prune, phase, group, call, target, tried, swept>>

\* PruneHandle::prune_now
PruneNow ==
    /\ ~requested
    /\ requested' = TRUE
    /\ UNCHANGED <<feed, initialized, queues, resyncRequired, inFlight, pruned, desired,
                   phase, group, call, target, tried, swept>>

----------------------------------------------------------------------------
(* Rounds. *)

\* A first attempt holds the published checkpoint back; a failure does not.
FirstAttempt(w) == w.rev # 0 /\ ~w.failed /\ ~w.refresh

\* publish_progress, for the queue w and the stream's checkpoint c.
Progress(w, c) ==
    Max({attempted} \cup {r \in 0 .. c : \A k \in Keys : FirstAttempt(w[k]) => r < w[k].rev})

\* The work is still what the table says.
Current(k) == IF rows[k] = 0 THEN ~work[k].update
                             ELSE work[k].update /\ work[k].rev = rows[k]

\* Reconciler::new
New ==
    /\ phase = "new"
    /\ Subscribe(me)
    /\ phase' = "idle"
    /\ UNCHANGED <<initialized, queues, prune, group, call, target, tried, swept>>

\* enqueue_changes: a change of a key replaces its retry.
Enqueue(told, updates, oldRetries) ==
    /\ work' = [k \in Keys |-> IF k \in DOMAIN told
                               THEN [NoItem EXCEPT !.rev = told[k], !.update = k \in updates]
                               ELSE work[k]]
    /\ retries' = [k \in Keys |-> IF k \in DOMAIN told THEN NoItem ELSE oldRetries[k]]
    /\ attempted' = Progress(work', checkpoint'[me])

\* A round loads changes only when nothing is pending.
Load(told) ==
    /\ phase = "idle" /\ Queued(work) = {}
    /\ DOMAIN told = {} <=> dirty[me] = Nothing
    /\ Deliver(me, told)
    /\ Enqueue(told, {k \in DOMAIN told : told[k] < dirty[me][k] \/ rows[k] # 0}, retries)
    /\ phase' = "fill"
    /\ UNCHANGED <<initialized, status, prune, group, call, target, tried, swept>>

\* Change::Resync voids retries and statuses and asks for a prune.
LoadResync(told) ==
    /\ phase = "idle" /\ Queued(work) = {}
    /\ Lossy
    /\ Resync(me, told)
    /\ Enqueue(told, DOMAIN told, NoItems)
    /\ status' = [k \in Keys |-> NoStatus]
    /\ resyncRequired' = TRUE
    /\ requested' = TRUE
    /\ phase' = "fill"
    /\ UNCHANGED <<initialized, inFlight, pruned, desired, group, call, target, tried, swept>>

\* What a cancelled round left pending comes first.
Continue ==
    /\ phase = "idle" /\ Queued(work) # {}
    /\ phase' = "fill"
    /\ UNCHANGED <<feed, initialized, queues, prune, group, call, target, tried, swept>>

\* Retries and refreshes join an empty queue; in batches, any queue that no
\* call was made for in this round.
Filling == IF Batched THEN phase = "fill"
                      ELSE phase \in {"fill", "work"} /\ Queued(work) = {}

\* A retry is due: the failed operation on the row as it is now.  The retry
\* of an update whose row is gone is dropped.
Retry(k) ==
    /\ Filling
    /\ k \in Queued(retries)
    /\ retries' = [retries EXCEPT ![k] = NoItem]
    /\ IF retries[k].update /\ rows[k] = 0
       THEN /\ status' = [status EXCEPT ![k] = NoStatus]
            /\ UNCHANGED work
       ELSE /\ work' = [work EXCEPT ![k] = retries[k]]
            /\ UNCHANGED status
    /\ UNCHANGED <<feed, initialized, attempted, prune, phase, group, call, target, tried,
                   swept>>

\* refresh_eligible
Refreshable(k) == rows[k] # 0 /\ status[k] = [rev |-> rows[k], kind |-> "done"]

\* next_refresh_work
Refresh(k) ==
    /\ Filling
    /\ \A j \in Keys : ~work[j].refresh
    /\ Refreshable(k)
    /\ work' = [work EXCEPT ![k] = [NoItem EXCEPT !.rev = rows[k], !.update = TRUE,
                                                  !.refresh = TRUE]]
    /\ UNCHANGED <<feed, initialized, retries, status, attempted, prune, phase, group, call,
                   target, tried, swept>>

\* The front of the queue: deletions before updates, each by revision.
Before(j, k) == \/ ~work[j].update /\ work[k].update
                \/ work[j].update = work[k].update /\ work[j].rev <= work[k].rev

Front(g) ==
    /\ g # {}
    /\ \A j, k \in g : work[j].update = work[k].update
    /\ \A k \in g : \A j \in Queued(work) \ g : Before(k, j)
    /\ ~Batched => Cardinality(g) = 1

\* The target is called for those of the front that are still current.
Dispatch(g) ==
    /\ phase \in {"fill", "work"}
    /\ g \subseteq Queued(work)
    /\ Front(g)
    /\ group' = g
    /\ call' = {k \in g : Current(k)}
    /\ status' = [k \in Keys |-> IF k \in call' THEN [rev |-> work[k].rev, kind |-> "pending"]
                                 ELSE status[k]]
    /\ phase' = "call"
    /\ UNCHANGED <<feed, initialized, work, retries, attempted, prune, target, tried, swept>>

Apply(ks) == [k \in Keys |-> IF k \in ks THEN (IF work[k].update THEN work[k].rev ELSE 0)
                             ELSE target[k]]

\* A result counts if the row is the same as before the call.
Recorded == {k \in call : Current(k)}

\* Mutant: a result is recorded for the row the table has after the call.
OutcomeOfLatest(k, ok) ==
    IF rows[k] # 0 /\ k \in ok THEN [rev |-> rows[k], kind |-> "done"] ELSE NoStatus

\* record_result
Outcome(k, ok) ==
    IF k \notin Recorded THEN NoStatus
    ELSE IF k \notin ok THEN [rev |-> work[k].rev, kind |-> "error"]
    ELSE IF work[k].update THEN [rev |-> work[k].rev, kind |-> "done"]
    ELSE NoStatus

\* ok: the keys whose operation succeeded; applied: also those that failed
\* after they had changed the target.
Return(ok, applied) ==
    /\ phase = "call"
    /\ ok \subseteq applied /\ applied \subseteq call
    /\ target' = Apply(applied)
    /\ status' = [k \in Keys |-> IF k \in group THEN Outcome(k, ok) ELSE status[k]]
    /\ retries' = [k \in Keys |-> IF k \notin Recorded THEN retries[k]
                                  ELSE IF k \in ok THEN NoItem
                                  ELSE [work[k] EXCEPT !.failed = TRUE]]
    /\ work' = [k \in Keys |-> IF k \in group THEN NoItem ELSE work[k]]
    /\ attempted' = Progress(work', checkpoint[me])
    /\ tried' = tried \cup Recorded
    /\ phase' = "work"
    /\ group' = {} /\ call' = {}
    /\ UNCHANGED <<feed, initialized, prune, swept>>

\* Mutant: work is taken from the queue before its result is known.
CancelDropping(applied) ==
    /\ phase = "call"
    /\ applied \subseteq call
    /\ target' = Apply(applied)
    /\ work' = [k \in Keys |-> IF k \in group THEN NoItem ELSE work[k]]
    /\ phase' = "idle"
    /\ group' = {} /\ call' = {}
    /\ UNCHANGED <<feed, initialized, retries, status, attempted, prune, tried, swept>>

\* Shutdown, or batch results that do not match: the group stays pending.
Cancel(applied) ==
    /\ phase = "call"
    /\ applied \subseteq call
    /\ target' = Apply(applied)
    /\ phase' = "idle"
    /\ group' = {} /\ call' = {}
    /\ UNCHANGED <<feed, initialized, queues, prune, tried, swept>>

\* Nothing is left to do, or the round is full; what was attempted is
\* acknowledged if nothing is pending.
EndWork ==
    /\ phase = "work" \/ (phase = "fill" /\ Queued(work) = {})
    /\ phase' = "prune"
    /\ IF Queued(work) = {} THEN Acknowledge(me, attempted) ELSE UNCHANGED feed
    /\ UNCHANGED <<initialized, queues, prune, group, call, target, tried, swept>>

----------------------------------------------------------------------------
(* run_prune *)

SkipPrune ==
    /\ phase = "prune"
    /\ ~initialized \/ (~inFlight /\ ~requested /\ pruned)
    /\ phase' = "idle"
    /\ UNCHANGED <<feed, initialized, queues, prune, group, call, target, tried, swept>>

\* Also when the interval is over.
StartPrune ==
    /\ phase = "prune"
    /\ initialized
    /\ inFlight' = TRUE
    /\ requested' = FALSE
    /\ desired' = rows
    /\ phase' = "pruning"
    /\ UNCHANGED <<feed, initialized, queues, resyncRequired, pruned, group, call, target,
                   tried, swept>>

Undesired == {k \in Keys : desired[k] = 0}
Sweep(ks) == [k \in Keys |-> IF k \in ks THEN 0 ELSE target[k]]

PruneReturns(ok, swept0) ==
    /\ phase = "pruning"
    /\ swept0 \subseteq Undesired
    /\ ok => swept0 = Undesired
    /\ target' = Sweep(swept0)
    /\ inFlight' = FALSE
    /\ pruned' = TRUE
    /\ resyncRequired' = (resyncRequired /\ ~ok)
    /\ swept' = (swept \/ ok)
    /\ desired' = Nothing
    /\ phase' = "idle"
    /\ UNCHANGED <<feed, initialized, queues, requested, group, call, tried>>

\* A cancelled prune is replayed.
CancelPrune(swept0) ==
    /\ phase = "pruning"
    /\ swept0 \subseteq Undesired
    /\ target' = Sweep(swept0)
    /\ desired' = Nothing
    /\ phase' = "idle"
    /\ UNCHANGED <<feed, initialized, queues, resyncRequired, requested, inFlight, pruned,
                   group, call, tried, swept>>

----------------------------------------------------------------------------
Steps ==
    \/ Initialize \/ PruneNow \/ New \/ Continue \/ EndWork \/ SkipPrune \/ StartPrune
    \/ \E k \in Keys : Insert(k) \/ Remove(k) \/ Retry(k) \/ Refresh(k)
    \/ \E told \in Some : Load(told) \/ LoadResync(told)
    \/ \E ks \in SUBSET Keys :
         \/ Dispatch(ks)
         \/ \E ok \in SUBSET ks : Return(ok, ks)
         \/ Cancel(ks)
         \/ CancelPrune(ks)
         \/ \E ok \in BOOLEAN : PruneReturns(ok, ks)

Next == Steps /\ (Lossy \/ ~lost'[me])

\* The latest change of a key, not an older row of a population.
Told(k, told) == k \in DOMAIN told /\ told[k] = dirty[me][k]

\* The loop goes on, the target succeeds now and then, deadlines are reached.
Fairness ==
    /\ WF_vars(Initialize) /\ WF_vars(New) /\ WF_vars(Continue) /\ WF_vars(EndWork)
    /\ WF_vars(SkipPrune) /\ SF_vars(StartPrune)
    /\ WF_vars(\E told \in Some : Load(told)) /\ WF_vars(\E told \in Some : LoadResync(told))
    /\ \A k \in Keys : SF_vars(\E told \in Some : Load(told) /\ Told(k, told))
    /\ WF_vars(\E ks \in SUBSET Keys : Dispatch(ks))
    /\ SF_vars(call = {} /\ Return({}, {}))
    /\ SF_vars(PruneReturns(TRUE, Undesired))
    /\ \A k \in Keys : SF_vars(Retry(k)) /\ SF_vars(k \in call /\ Return(call, call))

Spec == Init /\ [][Next]_vars /\ Fairness

----------------------------------------------------------------------------
(* Properties. *)

\* The shape of the feed, the queues and the target.
TypeOK ==
    /\ rows \in Contents /\ revision \in Revisions
    /\ live \subseteq Subs
    /\ dirty \in [Subs -> Contents] /\ lost \in [Subs -> BOOLEAN]
    /\ checkpoint \in [Subs -> Revisions] /\ acked \in [Subs -> Revisions]
    /\ initialized \in BOOLEAN
    /\ work \in Queue /\ retries \in Queue
    /\ status \in [Keys -> Status]
    /\ attempted \in Revisions
    /\ {resyncRequired, requested, inFlight, pruned, swept} \subseteq BOOLEAN
    /\ phase \in {"new", "idle", "fill", "work", "call", "prune", "pruning"}
    /\ group \subseteq Keys /\ call \subseteq group
    /\ desired \in Contents
    /\ target \in [Keys -> Revisions \cup {Foreign}]
    /\ tried \subseteq Keys

\* Something will still be done about the key.
Owed(k) ==
    \/ lost[me] \/ dirty[me][k] # 0
    \/ k \in Queued(work) \cup Queued(retries)
    \/ (rows[k] = 0) /\ (resyncRequired \/ ~swept)

\* However calls fail, are cancelled or overtaken by writes: where the target
\* differs from the table there is a change to load, queued work, a retry or,
\* for what should not be there, a prune.
NothingForgotten ==
    phase # "new" => \A k \in Keys : target[k] # rows[k] => Owed(k)

\* Reconciler::status says Done of a row only while the target has that row.
DoneIsInstalled == \A k \in Keys : Refreshable(k) => target[k] = rows[k]

\* A key is queued once: a retry or a refresh never joins other work on it.
QueuedOnce ==
    \A k \in Queued(work) : k \notin Queued(retries) /\ (Refreshable(k) => work[k].refresh)

\* wait_until_reconciled: every row up to the attempted revision was handed
\* to the target.
AttemptedIsTried == \A k \in Present : rows[k] <= attempted => k \in tried

\* What the reconciler reports is true, and its queues hold a key once.
ReportsAreTrue == DoneIsInstalled /\ QueuedOnce /\ AttemptedIsTried

\* In the end the target has the rows of the table and nothing else.
Converges == <>[](target = rows)

\* Keys are interchangeable.
Symmetry == Permutations(Keys)
=============================================================================
