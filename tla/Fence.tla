------------------------------- MODULE Fence -------------------------------
(***************************************************************************)
(* The named one-shot startup barrier of crates/flowsdn-fence.  Waiters    *)
(* are registered while the fence is under construction, the fence is      *)
(* sealed, and any number of callers then wait concurrently: they queue on *)
(* one asynchronous mutex (FIFO) and the holder drives the waiters in      *)
(* registration order.  A caller may be dropped at any await, which        *)
(* releases the mutex and leaves the in-flight waiter for the next caller. *)
(*                                                                         *)
(* The waiters' futures are the environment: a started future ends, once,  *)
(* with success or failure.  Names stand for the registered waiters.       *)
(***************************************************************************)
EXTENDS Integers, Sequences

CONSTANTS
    Names,      \* waiter names that may be registered
    Callers     \* concurrent callers of wait()

VARIABLES
    sealed,     \* Fence::sealed
    waiters,    \* Fence::waiters: the names in registration order
    result,     \* Waiter::result of each name: "none", "ok" or "err"
    future,     \* the future of each name: "new", "started", "ok" or "err"
    starts,     \* ghost: how many times each future was started
    queue,      \* callers holding (head) or queued for the waiters mutex
    pos,        \* loop position of the caller that holds the mutex
    call        \* state of each caller: "idle", "waiting", or its answer

vars == <<sealed, waiters, result, future, starts, queue, pos, call>>

Answers == {"ok", "err", "unsealed"}

Init ==
    /\ sealed = FALSE
    /\ waiters = <<>>
    /\ result = [n \in Names |-> "none"]
    /\ future = [n \in Names |-> "new"]
    /\ starts = [n \in Names |-> 0]
    /\ queue = <<>>
    /\ pos = 1
    /\ call = [c \in Callers |-> "idle"]

Registered == {waiters[i] : i \in 1..Len(waiters)}

(* Fence::add takes &mut self, so nobody is waiting.  An invalid           *)
(* registration returns an error and changes nothing.                      *)
Add(n) ==
    /\ queue = <<>>
    /\ ~sealed
    /\ n \notin Registered
    /\ waiters' = Append(waiters, n)
    /\ UNCHANGED <<sealed, result, future, starts, queue, pos, call>>

(* Fence::seal also takes &mut self; sealing twice is harmless.            *)
Seal ==
    /\ queue = <<>>
    /\ sealed' = TRUE
    /\ UNCHANGED <<waiters, result, future, starts, queue, pos, call>>

(* Entry of Fence::wait: refused before sealing, otherwise the caller      *)
(* queues for the mutex (and holds it when the queue was empty).           *)
Wait(c) ==
    /\ call[c] # "waiting"
    /\ IF sealed
       THEN /\ call' = [call EXCEPT ![c] = "waiting"]
            /\ queue' = Append(queue, c)
            /\ pos' = IF queue = <<>> THEN 1 ELSE pos
       ELSE /\ call' = [call EXCEPT ![c] = "unsealed"]
            /\ UNCHANGED <<queue, pos>>
    /\ UNCHANGED <<sealed, waiters, result, future, starts>>

Holds(c) == queue # <<>> /\ Head(queue) = c

(* The holder returns: the guard is dropped, the next caller starts its    *)
(* own loop from the first waiter.                                         *)
Return(c, answer) ==
    /\ queue' = Tail(queue)
    /\ pos' = 1
    /\ call' = [call EXCEPT ![c] = answer]

(* Mutant: the waiters are polled together, as in a join.                  *)
StartAnyWaiter(c) ==
    /\ Holds(c)
    /\ \E i \in pos .. Len(waiters) :
        /\ future[waiters[i]] = "new"
        /\ future' = [future EXCEPT ![waiters[i]] = "started"]
        /\ starts' = [starts EXCEPT ![waiters[i]] = @ + 1]
    /\ UNCHANGED <<sealed, waiters, result, queue, pos, call>>

(* The holder reaches a waiter without a result and polls its future for   *)
(* the first time.                                                         *)
Start(c) ==
    /\ Holds(c)
    /\ pos <= Len(waiters)
    /\ result[waiters[pos]] = "none"
    /\ future[waiters[pos]] = "new"
    /\ future' = [future EXCEPT ![waiters[pos]] = "started"]
    /\ starts' = [starts EXCEPT ![waiters[pos]] = @ + 1]
    /\ UNCHANGED <<sealed, waiters, result, queue, pos, call>>

(* Mutant: a failed waiter is skipped, as if `?` were missing.             *)
FinishIgnoresFailure(c) ==
    /\ Holds(c)
    /\ pos <= Len(waiters)
    /\ LET n == waiters[pos] IN
        /\ result[n] = "none"
        /\ future[n] \in {"ok", "err"}
        /\ result' = [result EXCEPT ![n] = future[n]]
        /\ pos' = pos + 1
    /\ UNCHANGED <<sealed, waiters, future, starts, queue, call>>

(* The awaited future is ready: its result is stored and the future        *)
(* dropped; a failure is returned through `?`, a success moves on.         *)
Finish(c) ==
    /\ Holds(c)
    /\ pos <= Len(waiters)
    /\ LET n == waiters[pos] IN
        /\ result[n] = "none"
        /\ future[n] \in {"ok", "err"}
        /\ result' = [result EXCEPT ![n] = future[n]]
        /\ IF future[n] = "err"
           THEN Return(c, "err")
           ELSE pos' = pos + 1 /\ UNCHANGED <<queue, call>>
    /\ UNCHANGED <<sealed, waiters, future, starts>>

(* Mutant: a retained failure is cleared so that the next caller retries.  *)
ReuseClearsFailure(c) ==
    /\ Holds(c)
    /\ pos <= Len(waiters)
    /\ result[waiters[pos]] # "none"
    /\ IF result[waiters[pos]] = "err"
       THEN /\ result' = [result EXCEPT ![waiters[pos]] = "none"]
            /\ Return(c, "err")
       ELSE pos' = pos + 1 /\ UNCHANGED <<result, queue, call>>
    /\ UNCHANGED <<sealed, waiters, future, starts>>

(* A waiter that already has a result is not run again: the retained       *)
(* result is returned if it failed, skipped if it succeeded.               *)
Reuse(c) ==
    /\ Holds(c)
    /\ pos <= Len(waiters)
    /\ result[waiters[pos]] # "none"
    /\ IF result[waiters[pos]] = "err"
       THEN Return(c, "err")
       ELSE pos' = pos + 1 /\ UNCHANGED <<queue, call>>
    /\ UNCHANGED <<sealed, waiters, result, future, starts>>

(* The loop ran off the end: every waiter succeeded.                       *)
Done(c) ==
    /\ Holds(c)
    /\ pos > Len(waiters)
    /\ Return(c, "ok")
    /\ UNCHANGED <<sealed, waiters, result, future, starts>>

(* Mutant: dropping a caller leaves it in the mutex queue.                 *)
CancelKeepsLock(c) ==
    /\ call[c] = "waiting"
    /\ call' = [call EXCEPT ![c] = "idle"]
    /\ UNCHANGED <<sealed, waiters, result, future, starts, queue, pos>>

(* Mutant: the in-flight future is dropped with the caller that polled it. *)
CancelRestartsWaiter(c) ==
    /\ call[c] = "waiting"
    /\ queue' = SelectSeq(queue, LAMBDA d : d # c)
    /\ pos' = IF Holds(c) THEN 1 ELSE pos
    /\ call' = [call EXCEPT ![c] = "idle"]
    /\ future' = [n \in Names |->
                    IF Holds(c) /\ pos <= Len(waiters) /\ n = waiters[pos] /\ result[n] = "none"
                    THEN "new" ELSE future[n]]
    /\ UNCHANGED <<sealed, waiters, result, starts>>

(* The wait() future is dropped while queued or at an await.               *)
Cancel(c) ==
    /\ call[c] = "waiting"
    /\ queue' = SelectSeq(queue, LAMBDA d : d # c)
    /\ pos' = IF Holds(c) THEN 1 ELSE pos
    /\ call' = [call EXCEPT ![c] = "idle"]
    /\ UNCHANGED <<sealed, waiters, result, future, starts>>

(* The environment completes a started future.                             *)
Complete(n, outcome) ==
    /\ future[n] = "started"
    /\ future' = [future EXCEPT ![n] = outcome]
    /\ UNCHANGED <<sealed, waiters, result, starts, queue, pos, call>>

Answered(n) == \E outcome \in {"ok", "err"} : Complete(n, outcome)

(* Mutant: a caller that meets a retained failure never returns.           *)
DriveStopsAtFailure(c) == Start(c) \/ Finish(c) \/ Done(c)

(* One turn of the loop of Fence::wait for the caller holding the mutex.   *)
Drive(c) == Start(c) \/ Finish(c) \/ Reuse(c) \/ Done(c)

Next ==
    \/ \E n \in Names : Add(n)
    \/ Seal
    \/ \E c \in Callers : Wait(c) \/ Drive(c) \/ Cancel(c)
    \/ \E n \in Names : Answered(n)

Spec == Init /\ [][Next]_vars

-----------------------------------------------------------------------------
(* The shape of the state, and that the mutex queue holds exactly the      *)
(* callers inside Fence::wait, each once.                                  *)
TypeOK ==
    /\ sealed \in BOOLEAN
    /\ waiters \in Seq(Names)
    /\ \A i, j \in 1..Len(waiters) : waiters[i] = waiters[j] => i = j
    /\ result \in [Names -> {"none", "ok", "err"}]
    /\ future \in [Names -> {"new", "started", "ok", "err"}]
    /\ starts \in [Names -> Nat]
    /\ call \in [Callers -> {"idle", "waiting"} \cup Answers]
    /\ queue \in Seq(Callers)
    /\ \A i, j \in 1..Len(queue) : queue[i] = queue[j] => i = j
    /\ \A c \in Callers : call[c] = "waiting" <=> \E i \in 1..Len(queue) : queue[i] = c
    /\ pos \in 1..(Len(waiters) + 1)

(* Waiters run in registration order, and none runs after a failure: the   *)
(* future of a waiter is polled only when every earlier waiter's retained  *)
(* result is a success.                                                    *)
RunsInOrder ==
    \A i, j \in 1..Len(waiters) :
        i < j /\ future[waiters[j]] # "new" => result[waiters[i]] = "ok"

(* wait() answers Ok only when every registered waiter has succeeded, even *)
(* if the caller that drove some of them was dropped half-way.             *)
OkMeansAllSucceeded ==
    \A c \in Callers : call[c] = "ok" => \A n \in Registered : result[n] = "ok"

(* Dropping a caller preserves the in-flight waiter for the next one: no   *)
(* future is ever started a second time.                                   *)
StartedAtMostOnce == \A n \in Names : starts[n] <= 1

(* The three together: what the startup code relies on when it waits at    *)
(* the fence from several tasks (Fence::wait).                             *)
BarrierHolds == RunsInOrder /\ OkMeansAllSucceeded /\ StartedAtMostOnce

(* Successful and failed results are retained for the fence's lifetime.    *)
KeepsResults == \A n \in Names : result[n] # "none" => result'[n] = result[n]
ResultsAreFinal == [][KeepsResults]_vars
=============================================================================
