--------------------------- MODULE StartupProofs ---------------------------
(***************************************************************************)
(* Proofs about the two parts that make a start of the agent safe: the     *)
(* fence, behind which the API waits for what must have been restored, and *)
(* the deletion queue, which is replayed before the socket is bound.       *)
(*                                                                         *)
(* DeleteQueue, for any attachments, requests, foreign files and limits:   *)
(* no promised deletion is lost, the directory never holds more than       *)
(* MAX_ENTRIES files, and while the API listens the queue holds only       *)
(* requests that this API failed to answer in time.                        *)
(*                                                                         *)
(* Fence, for any set of waiters and any number of concurrent, cancellable *)
(* callers: the mutex queue needs no invariant of its own beyond "somebody *)
(* queues only on a sealed fence".  What keeps a resumed or restarted loop *)
(* right is that everything before the loop position has succeeded, and    *)
(* that a future, its start count and its retained result agree.           *)
(***************************************************************************)
EXTENDS DeleteQueue, Sequences, FiniteSetTheorems, TLAPS

----------------------------------------------------------------------------
(* The startup fence. *)

CONSTANTS Names, Callers
VARIABLES sealed, waiters, result, future, starts, mutex, pos, call

F == INSTANCE Fence WITH queue <- mutex

FenceTypes ==
    /\ sealed \in BOOLEAN
    /\ waiters \in Seq(Names)
    /\ result \in [Names -> {"none", "ok", "err"}]
    /\ future \in [Names -> {"new", "started", "ok", "err"}]
    /\ starts \in [Names -> Nat]
    /\ call \in [Callers -> {"idle", "waiting"} \cup F!Answers]
    /\ pos \in Nat \ {0}

(* Only callers of a sealed fence queue, move the loop or get Ok.          *)
CallersSealed ==
    /\ ~sealed => pos = 1
    /\ mutex # <<>> => sealed
    /\ \A c \in Callers : call[c] \in {"waiting", "ok"} => sealed

(* Future, start count and retained result of one waiter agree.            *)
FuturesAgree ==
    \A n \in Names :
        /\ starts[n] = (IF future[n] = "new" THEN 0 ELSE 1)
        /\ result[n] # "none" => result[n] = future[n]

(* Only registered waiters have run.                                       *)
OnlyRegisteredRun == \A n \in Names : future[n] # "new" => n \in F!Registered

(* Names are registered once.                                              *)
DistinctNames ==
    \A i, j \in 1..Len(waiters) : waiters[i] = waiters[j] => i = j

(* Everything before the loop position has succeeded.                      *)
BehindPosition == \A i \in 1..Len(waiters) : i < pos => result[waiters[i]] = "ok"

FenceInv ==
    /\ FenceTypes
    /\ CallersSealed
    /\ FuturesAgree
    /\ OnlyRegisteredRun
    /\ DistinctNames
    /\ BehindPosition
    /\ F!RunsInOrder
    /\ F!OkMeansAllSucceeded

LEMMA FenceInit == F!Init => FenceInv
  <1> SUFFICES ASSUME F!Init PROVE FenceInv
    OBVIOUS
  <1> USE DEF F!Init
  <1>1. FenceTypes
    <2>1. waiters \in Seq(Names)
      OBVIOUS
    <2>3. sealed \in BOOLEAN
      OBVIOUS
    <2>4. pos \in Nat \ {0}
      OBVIOUS
    <2>2. /\ result \in [Names -> {"none", "ok", "err"}]
          /\ future \in [Names -> {"new", "started", "ok", "err"}]
          /\ starts \in [Names -> Nat]
          /\ call \in [Callers -> {"idle", "waiting"} \cup F!Answers]
      OBVIOUS
    <2> QED BY <2>1, <2>2, <2>3, <2>4 DEF FenceTypes
  <1>2. Len(waiters) = 0
    OBVIOUS
  <1>3. CallersSealed /\ FuturesAgree /\ OnlyRegisteredRun /\ F!OkMeansAllSucceeded
    BY DEF CallersSealed, FuturesAgree, OnlyRegisteredRun, F!OkMeansAllSucceeded
  <1>4. DistinctNames /\ BehindPosition /\ F!RunsInOrder
    BY <1>2 DEF DistinctNames, BehindPosition, F!RunsInOrder
  <1> QED BY <1>1, <1>3, <1>4 DEF FenceInv

LEMMA AddInv == ASSUME FenceInv, NEW n \in Names, F!Add(n) PROVE FenceInv'
  <1> USE DEF FenceInv, F!Add
  <1>1. FenceTypes'
    BY DEF FenceTypes
  <1>2. /\ Len(waiters') = Len(waiters) + 1
        /\ waiters'[Len(waiters) + 1] = n
        /\ \A i \in 1..Len(waiters) : waiters'[i] = waiters[i] /\ waiters[i] \in Names
        /\ Len(waiters) \in Nat
    BY DEF FenceTypes
  <1>3. CallersSealed' /\ FuturesAgree'
    BY DEF CallersSealed, FuturesAgree
  <1>4. F!Registered' = F!Registered \cup {n}
    BY <1>2 DEF F!Registered
  <1>5. OnlyRegisteredRun'
    BY <1>4 DEF OnlyRegisteredRun
  <1>6. DistinctNames'
    BY <1>2 DEF DistinctNames, F!Registered
  <1>7. future[n] = "new" /\ \A c \in Callers : call[c] # "ok"
    BY DEF OnlyRegisteredRun, CallersSealed
  <1>8. BehindPosition'
    BY <1>1, <1>2 DEF BehindPosition, CallersSealed
  <1>9. F!RunsInOrder'
    BY <1>2, <1>7 DEF F!RunsInOrder
  <1>10. F!OkMeansAllSucceeded'
    BY <1>7 DEF F!OkMeansAllSucceeded
  <1> QED BY <1>1, <1>3, <1>5, <1>6, <1>8, <1>9, <1>10

(* Steps that leave the waiters, their futures and results alone.          *)
LEMMA CallerStepInv ==
  ASSUME FenceInv, UNCHANGED <<sealed, waiters, result, future, starts>>,
         FenceTypes', CallersSealed',
         pos' = pos \/ pos' = 1 \/ (pos' = pos + 1 /\ result[waiters[pos]] = "ok"),
         \A c \in Callers : call'[c] = "ok" => call[c] = "ok" \/ pos > Len(waiters)
  PROVE  FenceInv'
  <1> USE DEF FenceInv
  <1>1. FuturesAgree' /\ OnlyRegisteredRun' /\ DistinctNames' /\ F!RunsInOrder'
    BY DEF FuturesAgree, OnlyRegisteredRun, F!Registered, DistinctNames, F!RunsInOrder
  <1>2. BehindPosition'
    BY DEF BehindPosition, FenceTypes
  <1>3. pos > Len(waiters) => \A n \in F!Registered : result[n] = "ok"
    BY DEF BehindPosition, F!Registered, FenceTypes
  <1>4. F!OkMeansAllSucceeded'
    BY <1>3 DEF F!OkMeansAllSucceeded, F!Registered
  <1> QED BY <1>1, <1>2, <1>4

LEMMA SealInv == FenceInv /\ F!Seal => FenceInv'
  <1> SUFFICES ASSUME FenceInv, F!Seal PROVE FenceInv'
    OBVIOUS
  <1> USE DEF FenceInv, F!Seal
  <1>1. FenceTypes' /\ CallersSealed'
    BY DEF FenceTypes, CallersSealed
  <1> QED BY <1>1 DEF FuturesAgree, OnlyRegisteredRun, F!Registered, DistinctNames,
               BehindPosition, F!RunsInOrder, F!OkMeansAllSucceeded

LEMMA WaitInv == ASSUME FenceInv, NEW c \in Callers, F!Wait(c) PROVE FenceInv'
  <1> USE DEF F!Wait
  <1>1. FenceTypes'
    BY DEF FenceInv, FenceTypes, F!Answers
  <1>2. CallersSealed'
    BY DEF FenceInv, FenceTypes, CallersSealed
  <1>3. \A d \in Callers : call'[d] = "ok" => call[d] = "ok"
    BY DEF FenceInv, FenceTypes
  <1> QED BY <1>1, <1>2, <1>3, CallerStepInv

LEMMA CancelInv == ASSUME FenceInv, NEW c \in Callers, F!Cancel(c) PROVE FenceInv'
  <1> USE DEF F!Cancel
  <1>1. FenceTypes'
    BY DEF FenceInv, FenceTypes, F!Answers
  <1>2. CallersSealed'
    BY DEF FenceInv, FenceTypes, CallersSealed
  <1>3. \A d \in Callers : call'[d] = "ok" => call[d] = "ok"
    BY DEF FenceInv, FenceTypes
  <1> QED BY <1>1, <1>2, <1>3, CallerStepInv

LEMMA DoneInv == ASSUME FenceInv, NEW c \in Callers, F!Done(c) PROVE FenceInv'
  <1> USE DEF F!Done, F!Return, F!Holds
  <1>1. FenceTypes'
    BY DEF FenceInv, FenceTypes, F!Answers
  <1>2. CallersSealed'
    BY DEF FenceInv, FenceTypes, CallersSealed
  <1>3. \A d \in Callers : call'[d] = "ok" => call[d] = "ok" \/ pos > Len(waiters)
    BY DEF FenceInv, FenceTypes
  <1> QED BY <1>1, <1>2, <1>3, CallerStepInv

LEMMA ReuseInv == ASSUME FenceInv, NEW c \in Callers, F!Reuse(c) PROVE FenceInv'
  <1> USE DEF F!Reuse, F!Return, F!Holds
  <1>0. waiters[pos] \in Names
    BY DEF FenceInv, FenceTypes
  <1>1. FenceTypes'
    <2>1. call' \in [Callers -> {"idle", "waiting"} \cup F!Answers]
      BY DEF FenceInv, FenceTypes, F!Answers
    <2>2. pos' \in Nat \ {0}
      BY DEF FenceInv, FenceTypes
    <2> QED BY <2>1, <2>2 DEF FenceInv, FenceTypes
  <1>2. CallersSealed'
    BY DEF FenceInv, FenceTypes, CallersSealed
  <1>3. \A d \in Callers : call'[d] = "ok" => call[d] = "ok"
    BY DEF FenceInv, FenceTypes
  <1>4. pos' = 1 \/ (pos' = pos + 1 /\ result[waiters[pos]] = "ok")
    BY <1>0 DEF FenceInv, FenceTypes
  <1> QED BY <1>1, <1>2, <1>3, <1>4, CallerStepInv

LEMMA StartInv == ASSUME FenceInv, NEW c \in Callers, F!Start(c) PROVE FenceInv'
  <1> USE DEF FenceInv, F!Start, F!Holds
  <1>0. waiters[pos] \in Names /\ pos \in 1..Len(waiters) /\ waiters[pos] \in F!Registered
    BY DEF FenceTypes, F!Registered
  <1>1. FenceTypes'
    BY <1>0 DEF FenceTypes
  <1>2. CallersSealed' /\ DistinctNames' /\ BehindPosition' /\ F!OkMeansAllSucceeded'
    BY DEF CallersSealed, DistinctNames, BehindPosition, F!OkMeansAllSucceeded, F!Registered
  <1>3. FuturesAgree'
    BY <1>0 DEF FuturesAgree, FenceTypes
  <1>4. OnlyRegisteredRun'
    BY <1>0 DEF OnlyRegisteredRun, FenceTypes, F!Registered
  <1>5. F!RunsInOrder'
    <2> SUFFICES ASSUME NEW i \in 1..Len(waiters), NEW j \in 1..Len(waiters),
                        i < j, future'[waiters[j]] # "new"
                 PROVE  result[waiters[i]] = "ok"
      BY DEF F!RunsInOrder
    <2>1. CASE j = pos
      BY <2>1 DEF BehindPosition
    <2>2. CASE j # pos
      <3>1. waiters[j] # waiters[pos] /\ waiters[j] \in Names
        BY <1>0, <2>2 DEF DistinctNames, FenceTypes
      <3> QED BY <3>1 DEF F!RunsInOrder, FenceTypes
    <2> QED BY <2>1, <2>2
  <1> QED BY <1>1, <1>2, <1>3, <1>4, <1>5

LEMMA FinishInv == ASSUME FenceInv, NEW c \in Callers, F!Finish(c) PROVE FenceInv'
  <1> USE DEF FenceInv, F!Finish, F!Return, F!Holds
  <1> DEFINE n == waiters[pos]
  <1>0. n \in Names /\ pos \in 1..Len(waiters) /\ result[n] = "none"
    BY DEF FenceTypes
  <1>1. FenceTypes'
    <2>1. call' \in [Callers -> {"idle", "waiting"} \cup F!Answers]
      BY DEF FenceInv, FenceTypes, F!Answers
    <2>2. pos' \in Nat \ {0}
      BY DEF FenceInv, FenceTypes
    <2>3. result' \in [Names -> {"none", "ok", "err"}]
      BY <1>0 DEF FenceInv, FenceTypes
    <2> QED BY <2>1, <2>2, <2>3 DEF FenceInv, FenceTypes
  <1>2. CallersSealed'
    BY DEF CallersSealed, FenceTypes
  <1>3. /\ \A m \in Names : result[m] = "ok" => result'[m] = "ok"
        /\ result'[n] = future[n]
        /\ \A m \in Names : m # n => result'[m] = result[m]
    BY <1>0 DEF FenceTypes
  <1>4. DistinctNames' /\ OnlyRegisteredRun' /\ FuturesAgree'
    BY <1>0, <1>3 DEF DistinctNames, OnlyRegisteredRun, F!Registered, FuturesAgree, FenceTypes
  <1>5. \A i \in 1..Len(waiters) : waiters[i] \in Names
    BY DEF FenceTypes
  <1>6. F!RunsInOrder'
    BY <1>3, <1>5 DEF F!RunsInOrder
  <1>7. BehindPosition'
    BY <1>0, <1>3, <1>5 DEF BehindPosition, FenceTypes
  <1>8. F!OkMeansAllSucceeded'
    <2>1. \A d \in Callers : call'[d] = "ok" => call[d] = "ok"
      BY DEF FenceTypes
    <2>2. \A m \in F!Registered : m \in Names
      BY <1>5 DEF F!Registered
    <2> QED BY <1>3, <2>1, <2>2 DEF F!OkMeansAllSucceeded, F!Registered
  <1> QED BY <1>1, <1>2, <1>4, <1>6, <1>7, <1>8

LEMMA CompleteInv ==
  ASSUME FenceInv, NEW n \in Names, NEW o \in {"ok", "err"}, F!Complete(n, o) PROVE FenceInv'
  <1> USE DEF FenceInv, F!Complete
  <1>1. FenceTypes' /\ CallersSealed' /\ DistinctNames' /\ BehindPosition' /\ F!OkMeansAllSucceeded'
    BY DEF FenceTypes, CallersSealed, DistinctNames, BehindPosition, F!OkMeansAllSucceeded, F!Registered
  <1>2. FuturesAgree' /\ OnlyRegisteredRun'
    BY DEF FuturesAgree, OnlyRegisteredRun, FenceTypes, F!Registered
  <1>3. \A i \in 1..Len(waiters) : waiters[i] \in Names
    BY DEF FenceTypes
  <1>4. F!RunsInOrder'
    BY <1>3 DEF F!RunsInOrder, FenceTypes
  <1> QED BY <1>1, <1>2, <1>4

LEMMA FenceStep == FenceInv /\ [F!Next]_(F!vars) => FenceInv'
  <1> SUFFICES ASSUME FenceInv, [F!Next]_(F!vars) PROVE FenceInv'
    OBVIOUS
  <1>1. CASE UNCHANGED F!vars
    BY <1>1 DEF F!vars, FenceInv, FenceTypes, CallersSealed, FuturesAgree, OnlyRegisteredRun, F!Registered,
                DistinctNames, BehindPosition, F!RunsInOrder, F!OkMeansAllSucceeded
  <1>2. CASE F!Seal
    BY <1>2, SealInv
  <1>3. ASSUME NEW n \in Names, F!Add(n) PROVE FenceInv'
    BY <1>3, AddInv
  <1>4. ASSUME NEW c \in Callers, F!Wait(c) \/ F!Drive(c) \/ F!Cancel(c) PROVE FenceInv'
    BY <1>4, WaitInv, CancelInv, StartInv, FinishInv, ReuseInv, DoneInv DEF F!Drive
  <1>5. ASSUME NEW n \in Names, F!Answered(n) PROVE FenceInv'
    BY <1>5, CompleteInv DEF F!Answered
  <1> QED BY <1>1, <1>2, <1>3, <1>4, <1>5 DEF F!Next

(* Waiters run in registration order and none runs after a failure, none   *)
(* runs twice however callers are dropped, and Fence::wait answers Ok only *)
(* when every registered waiter succeeded: for every number of waiters and *)
(* callers.                                                                *)
THEOREM FenceHolds == F!Spec => []F!BarrierHolds
  <1>1. FenceInv => F!BarrierHolds
    BY DEF FenceInv, F!BarrierHolds, FuturesAgree, F!StartedAtMostOnce
  <1> QED BY <1>1, FenceInit, FenceStep, PTL DEF F!Spec

(* Fence::wait never forgets or changes a result it retained, so a later   *)
(* caller is told what an earlier one was.                                 *)
THEOREM FenceResultsFinal == F!Spec => F!ResultsAreFinal
  <1>1. ASSUME FenceInv, [F!Next]_(F!vars), NEW n \in Names, result[n] # "none" PROVE result'[n] = result[n]
    <2>1. ASSUME NEW c \in Callers, F!Finish(c) PROVE result'[n] = result[n]
      BY <1>1, <2>1 DEF F!Finish, FenceInv, FenceTypes
    <2>2. CASE UNCHANGED F!vars
      BY <2>2 DEF F!vars
    <2>3. ASSUME NEW c \in Callers, F!Wait(c) \/ F!Start(c) \/ F!Reuse(c) \/ F!Done(c) \/ F!Cancel(c)
          PROVE  result'[n] = result[n]
      BY <2>3 DEF F!Wait, F!Start, F!Reuse, F!Done, F!Cancel
    <2>4. ASSUME NEW m \in Names, F!Add(m) \/ F!Answered(m) PROVE result'[n] = result[n]
      BY <2>4 DEF F!Add, F!Answered, F!Complete
    <2>5. CASE F!Seal
      BY <2>5 DEF F!Seal
    <2> QED BY <1>1, <2>1, <2>2, <2>3, <2>4, <2>5 DEF F!Next, F!Drive
  <1>2. FenceInv /\ [F!Next]_(F!vars) => [F!KeepsResults]_(F!vars)
    BY <1>1 DEF F!KeepsResults
  <1> QED BY <1>2, FenceInit, FenceStep, PTL DEF F!Spec, F!ResultsAreFinal

----------------------------------------------------------------------------
(* The deletion queue. *)

\* Whoever holds the directory lock holds it alone and has counted room.
OneWriter ==
    \A r \in Requests : pc[r] = "publish" =>
        /\ \A s \in Requests : pc[s] = "publish" => s = r
        /\ Cardinality(queue) < MaxEntries

\* The two uses of the lockfile exclude each other.
LocksExclude == Exclusive => \A r \in Requests : r \notin Shared

\* Under the exclusive lock the replay has read every file there is.
ReplayIsWhole == agent = "replay" => queue \subseteq todo

\* Who is about to queue while the API listens was not answered in time.
WritersAreLate ==
    Listening => \A r \in Requests : pc[r] \in {"enqueue", "publish"} => r \in late

\* Room for one more entry is all a writer needs.
LEMMA QueueGrows ==
    ASSUME TypeOK, NEW r \in Requests, Cardinality(queue) < MaxEntries
    PROVE  Cardinality(queue \cup {r}) <= MaxEntries
<1>1. IsFiniteSet(queue)
  BY QueueConstants, FS_Union, FS_Subset DEF TypeOK
<1>2. Cardinality(queue) \in Nat /\ MaxEntries \in Nat
  BY <1>1, FS_CardinalityType, QueueConstants
<1>3. Cardinality(queue \cup {r}) \in {Cardinality(queue), Cardinality(queue) + 1}
  BY <1>1, <1>2, FS_AddElement
<1> QED  BY <1>2, <1>3

\* Replay only takes files away.
LEMMA QueueShrinks ==
    ASSUME TypeOK, QueueBounded, NEW e
    PROVE  Cardinality(queue \ {e}) <= Cardinality(queue)
           /\ Cardinality(queue) \in Nat /\ Cardinality(queue \ {e}) \in Nat
<1>1. IsFiniteSet(queue)
  BY QueueConstants, FS_Union, FS_Subset DEF TypeOK
<1>2. IsFiniteSet(queue \ {e})
  BY <1>1, FS_Subset
<1>3. Cardinality(queue \ {e}) <= Cardinality(queue)
  BY <1>1, FS_Subset
<1> QED  BY <1>1, <1>2, <1>3, FS_CardinalityType

\* The state the proofs are about.
LEMMA TypeInit == Init => TypeOK
  BY QueueConstants DEF Init, TypeOK, AgentStates, Calls

LEMMA TypeStep == TypeOK /\ [Next]_vars => TypeOK'
<1> SUFFICES ASSUME TypeOK, [Next]_vars PROVE TypeOK'
  OBVIOUS
<1> USE QueueConstants DEF TypeOK, AgentStates, Calls, agentVars, bounds
<1>1. ASSUME NEW r \in Requests, Call(r) PROVE TypeOK'
  <2>1. ASSUME NEW attempt \in {1, 2}, TryDelete(r, attempt) PROVE TypeOK'
    BY <2>1 DEF TryDelete, Unavailable, Goto, Waiting
  <2>2. CASE LockQueue(r) \/ LockQueueFails(r) \/ LockDirectoryFails(r)
    BY <2>2 DEF LockQueue, LockQueueFails, LockDirectoryFails, Goto
  <2>3. CASE Enqueue(r) \/ Publish(r)
    BY <2>3 DEF Enqueue, Publish, Goto
  <2>4. CASE Finish(r)
    BY <2>4 DEF Finish
  <2> QED  BY <1>1, <2>1, <2>2, <2>3, <2>4 DEF Call
<1>2. ASSUME NEW r \in Requests, EnqueueFails(r) \/ Kill(r) \/ Again(r) PROVE TypeOK'
  BY <1>2 DEF EnqueueFails, Kill, Again, Goto
<1>3. ASSUME NEW r \in Requests, NEW attempt \in {1, 2}, TimesOut(r, attempt) PROVE TypeOK'
  BY <1>3 DEF TimesOut, Unavailable, Goto
<1>4. ASSUME NEW r \in Requests, Replay(r) \/ ReplayFails(r) PROVE TypeOK'
  BY <1>4 DEF Replay, ReplayFails
<1>5. ASSUME NEW e \in Junk, Discard(e) PROVE TypeOK'
  BY <1>5 DEF Discard
<1>6. ASSUME NEW q \in Requests \X {1, 2}, Handle(q) \/ HandleFails(q) PROVE TypeOK'
  BY <1>6 DEF Handle, HandleFails, Goto
<1>7. CASE Restore \/ LockExclusive \/ LockExclusiveFails \/ Bind \/ Unlock
  BY <1>7 DEF Restore, LockExclusive, LockExclusiveFails, Bind, Unlock
<1>8. CASE Crash
  BY <1>8 DEF Crash
<1>9. CASE Idle \/ UNCHANGED vars
  BY <1>9 DEF Idle, vars
<1> QED  BY <1>1, <1>2, <1>3, <1>4, <1>5, <1>6, <1>7, <1>8, <1>9 DEF Next

----------------------------------------------------------------------------
\* NoDeletionLost is inductive: endpoints only go, an entry leaves the queue
\* with its endpoints, and a promise is made with one or the other.
LEMMA LostStep == TypeOK /\ NoDeletionLost /\ [Next]_vars => NoDeletionLost'
<1> SUFFICES ASSUME TypeOK, NoDeletionLost, [Next]_vars PROVE NoDeletionLost'
  OBVIOUS
<1> USE QueueConstants DEF TypeOK, NoDeletionLost, agentVars, bounds
<1>1. ASSUME NEW r \in Requests, Call(r) PROVE NoDeletionLost'
  BY <1>1 DEF Call, TryDelete, LockQueue, LockQueueFails, LockDirectoryFails, Enqueue, Publish,
              Finish
<1>2. ASSUME NEW r \in Requests, EnqueueFails(r) \/ Kill(r) \/ Again(r) PROVE NoDeletionLost'
  BY <1>2 DEF EnqueueFails, Kill, Again
<1>3. ASSUME NEW r \in Requests, NEW attempt \in {1, 2}, TimesOut(r, attempt)
      PROVE  NoDeletionLost'
  BY <1>3 DEF TimesOut
<1>4. ASSUME NEW r \in Requests, Replay(r) \/ ReplayFails(r) PROVE NoDeletionLost'
  BY <1>4 DEF Replay, ReplayFails
<1>5. ASSUME NEW e \in Junk, Discard(e) PROVE NoDeletionLost'
  BY <1>5 DEF Discard
<1>6. ASSUME NEW q \in Requests \X {1, 2}, Handle(q) \/ HandleFails(q) PROVE NoDeletionLost'
  BY <1>6 DEF Handle, HandleFails
<1>7. CASE Restore \/ LockExclusive \/ LockExclusiveFails \/ Bind \/ Unlock \/ Crash
  BY <1>7 DEF Restore, LockExclusive, LockExclusiveFails, Bind, Unlock, Crash
<1>8. CASE Idle \/ UNCHANGED vars
  BY <1>8 DEF Idle, vars
<1> QED  BY <1>1, <1>2, <1>3, <1>4, <1>5, <1>6, <1>7, <1>8 DEF Next

\* The count a writer made under the directory lock stays true until it links
\* its file: nobody else adds one.
Counted == QueueBounded /\ OneWriter

\* A step that leaves the queue alone and makes nobody a writer.
LEMMA NoNewWriter ==
    ASSUME Counted, UNCHANGED queue,
           \A r \in Requests : pc'[r] = "publish" => pc[r] = "publish"
    PROVE  Counted'
  BY DEF Counted, QueueBounded, OneWriter

LEMMA BoundStep == TypeOK /\ Counted /\ [Next]_vars => Counted'
<1> SUFFICES ASSUME TypeOK, Counted, [Next]_vars PROVE Counted'
  OBVIOUS
<1> USE DEF TypeOK, agentVars, bounds
<1>1. ASSUME NEW r \in Requests, Enqueue(r) PROVE Counted'
  <2>0. Cardinality(queue) \in Nat /\ MaxEntries \in Nat
    BY QueueShrinks, QueueConstants DEF Counted
  <2>1. CASE r \in queue \/ Full
    BY <1>1, <2>1, NoNewWriter DEF Enqueue, Goto
  <2>2. CASE r \notin queue /\ ~Full
    BY <1>1, <2>0, <2>2
    DEF Enqueue, Goto, DirectoryLocked, Full, Counted, QueueBounded, OneWriter
  <2> QED  BY <2>1, <2>2
<1>2. ASSUME NEW r \in Requests, Publish(r) \/ EnqueueFails(r) PROVE Counted'
  <2>1. CASE pc[r] = "publish"
    <3>1. queue' \in {queue, queue \cup {r}} /\ \A s \in Requests : pc'[s] # "publish"
      BY <1>2, <2>1 DEF Publish, EnqueueFails, Goto, Counted, OneWriter
    <3>2. Cardinality(queue \cup {r}) <= MaxEntries
      BY <2>1, QueueGrows DEF Counted, OneWriter
    <3> QED  BY <3>1, <3>2 DEF Counted, QueueBounded, OneWriter
  <2>2. CASE pc[r] # "publish"
    BY <1>2, <2>2, NoNewWriter DEF Publish, EnqueueFails, Goto
  <2> QED  BY <2>1, <2>2
<1>3. ASSUME NEW r \in Requests, Call(r), ~Enqueue(r), ~Publish(r) PROVE Counted'
  <2>1. ASSUME NEW attempt \in {1, 2}, TryDelete(r, attempt) PROVE Counted'
    BY <2>1, NoNewWriter DEF TryDelete, Unavailable, Goto, Waiting
  <2>2. CASE LockQueue(r) \/ LockQueueFails(r) \/ LockDirectoryFails(r)
    BY <2>2, NoNewWriter DEF LockQueue, LockQueueFails, LockDirectoryFails, Goto
  <2>3. CASE Finish(r)
    BY <2>3, NoNewWriter DEF Finish
  <2> QED  BY <1>3, <2>1, <2>2, <2>3 DEF Call
<1>4. ASSUME NEW r \in Requests, Kill(r) \/ Again(r) PROVE Counted'
  BY <1>4, NoNewWriter DEF Kill, Again, Goto
<1>5. ASSUME NEW r \in Requests, NEW attempt \in {1, 2}, TimesOut(r, attempt) PROVE Counted'
  BY <1>5, NoNewWriter DEF TimesOut, Unavailable, Goto
<1>6. ASSUME NEW e, queue' = queue \ {e}, UNCHANGED pc PROVE Counted'
  <2>1. /\ Cardinality(queue') <= Cardinality(queue)
        /\ Cardinality(queue) \in Nat /\ Cardinality(queue') \in Nat /\ MaxEntries \in Nat
    BY <1>6, QueueShrinks, QueueConstants DEF Counted
  <2>2. Cardinality(queue') <= MaxEntries
    BY <2>1 DEF Counted, QueueBounded
  <2>3. Cardinality(queue) < MaxEntries => Cardinality(queue') < MaxEntries
    BY <2>1
  <2> QED  BY <1>6, <2>2, <2>3 DEF Counted, QueueBounded, OneWriter
<1>7. ASSUME NEW r \in Requests, Replay(r) \/ ReplayFails(r) PROVE Counted'
  BY <1>6, <1>7, NoNewWriter DEF Replay, ReplayFails
<1>8. ASSUME NEW e \in Junk, Discard(e) PROVE Counted'
  BY <1>6, <1>8 DEF Discard
<1>9. ASSUME NEW q \in Requests \X {1, 2}, Handle(q) \/ HandleFails(q) PROVE Counted'
  BY <1>9, NoNewWriter DEF Handle, HandleFails, Goto
<1>10. CASE Restore \/ LockExclusive \/ LockExclusiveFails \/ Bind \/ Unlock
  BY <1>10, NoNewWriter DEF Restore, LockExclusive, LockExclusiveFails, Bind, Unlock
<1>11. CASE Crash
  BY <1>11, NoNewWriter DEF Crash
<1>12. CASE Idle \/ UNCHANGED vars
  BY <1>12, NoNewWriter DEF Idle, vars
<1> QED
  BY <1>1, <1>2, <1>3, <1>4, <1>5, <1>7, <1>8, <1>9, <1>10, <1>11, <1>12 DEF Next

----------------------------------------------------------------------------
\* What makes a replay complete: it holds the lock that writers need, so what
\* it read is all there is, and who comes after it was heard twice.
Replayed == LocksExclude /\ ReplayIsWhole /\ WritersAreLate /\ NothingMissed

LEMMA ReplayStep == TypeOK /\ Replayed /\ [Next]_vars => Replayed'
<1> SUFFICES ASSUME TypeOK, Replayed, [Next]_vars PROVE Replayed'
  OBVIOUS
<1> USE DEF TypeOK, agentVars, bounds, Replayed, LocksExclude, ReplayIsWhole, WritersAreLate,
            NothingMissed, Exclusive, Shared, Listening
<1>1. ASSUME NEW r \in Requests, Call(r) PROVE Replayed'
  <2>1. ASSUME NEW attempt \in {1, 2}, TryDelete(r, attempt) PROVE Replayed'
    BY <2>1 DEF TryDelete, Unavailable, Goto, Waiting
  <2>2. CASE LockQueue(r) \/ LockQueueFails(r) \/ LockDirectoryFails(r)
    BY <2>2 DEF LockQueue, LockQueueFails, LockDirectoryFails, Goto
  <2>3. CASE Enqueue(r) \/ Publish(r)
    BY <2>3 DEF Enqueue, Publish, Goto
  <2>4. CASE Finish(r)
    BY <2>4 DEF Finish
  <2> QED  BY <1>1, <2>1, <2>2, <2>3, <2>4 DEF Call
<1>2. ASSUME NEW r \in Requests, EnqueueFails(r) \/ Kill(r) \/ Again(r) PROVE Replayed'
  BY <1>2 DEF EnqueueFails, Kill, Again, Goto
<1>3. ASSUME NEW r \in Requests, NEW attempt \in {1, 2}, TimesOut(r, attempt) PROVE Replayed'
  BY <1>3 DEF TimesOut, Unavailable, Goto, Waiting
<1>4. ASSUME NEW r \in Requests, Replay(r) \/ ReplayFails(r) PROVE Replayed'
  BY <1>4 DEF Replay, ReplayFails
<1>5. ASSUME NEW e \in Junk, Discard(e) PROVE Replayed'
  BY <1>5 DEF Discard
<1>6. ASSUME NEW q \in Requests \X {1, 2}, Handle(q) \/ HandleFails(q) PROVE Replayed'
  BY <1>6 DEF Handle, HandleFails, Goto
<1>7. CASE Restore \/ LockExclusive \/ LockExclusiveFails \/ Bind \/ Unlock
  BY <1>7 DEF Restore, LockExclusive, LockExclusiveFails, Bind, Unlock
<1>8. CASE Crash
  BY <1>8 DEF Crash
<1>9. CASE Idle \/ UNCHANGED vars
  BY <1>9 DEF Idle, vars
<1> QED  BY <1>1, <1>2, <1>3, <1>4, <1>5, <1>6, <1>7, <1>8, <1>9 DEF Next

----------------------------------------------------------------------------
\* The inductive invariant.
QueueInv == TypeOK /\ NoDeletionLost /\ Counted /\ Replayed

LEMMA InvInit == Init => QueueInv
<1> SUFFICES ASSUME Init PROVE QueueInv
  OBVIOUS
<1>1. TypeOK
  BY TypeInit
<1>2. NoDeletionLost
  BY DEF Init, NoDeletionLost
<1>3. Counted
  <2>1. queue \subseteq Junk
    BY DEF Init
  <2>2. IsFiniteSet(Junk) /\ MaxEntries \in Nat /\ Cardinality(Junk) <= MaxEntries
    BY QueueConstants
  <2>3. /\ Cardinality(queue) <= Cardinality(Junk)
        /\ Cardinality(queue) \in Nat /\ Cardinality(Junk) \in Nat
    BY <2>1, <2>2, FS_Subset, FS_CardinalityType
  <2> QED  BY <2>2, <2>3 DEF Init, Counted, QueueBounded, OneWriter
<1>4. Replayed
  BY DEF Init, Replayed, LocksExclude, ReplayIsWhole, WritersAreLate, NothingMissed, Exclusive,
         Shared, Listening
<1> QED  BY <1>1, <1>2, <1>3, <1>4 DEF QueueInv

LEMMA InvStep == QueueInv /\ [Next]_vars => QueueInv'
  BY TypeStep, LostStep, BoundStep, ReplayStep DEF QueueInv

\* What DEL reported deleted or queued (delete.rs, queue.rs, replay_pending)
\* is deleted or still queued, for any requests, crashes, kills and timeouts.
THEOREM QueueLosesNothing == Spec => []NoDeletionLost
<1>1. QueueInv => NoDeletionLost
  BY DEF QueueInv
<1> QED  BY <1>1, InvInit, InvStep, PTL DEF Spec

\* However many DEL calls count and publish (SharedGuard::enqueue), the
\* directory stays within MAX_ENTRIES.
THEOREM QueueStaysBounded == Spec => []QueueBounded
<1>1. QueueInv => QueueBounded
  BY DEF QueueInv, Counted
<1> QED  BY <1>1, InvInit, InvStep, PTL DEF Spec

\* An agent that binds its socket under the exclusive lock (run) has missed no
\* entry: what is queued while it listens are requests it failed to answer.
THEOREM QueueMissesNothing == Spec => []NothingMissed
<1>1. QueueInv => NothingMissed
  BY DEF QueueInv, Replayed
<1> QED  BY <1>1, InvInit, InvStep, PTL DEF Spec
=============================================================================
