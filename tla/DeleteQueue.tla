---------------------------- MODULE DeleteQueue ----------------------------
(***************************************************************************)
(* CNI DEL against an agent that may be down (flowsdn-cni delete.rs,       *)
(* queue.rs) and the replay of queued deletions by the agent's start       *)
(* (flowsdn-agent api.rs).  DEL calls are processes of the container       *)
(* runtime; they and the agent share only the socket, the queue directory  *)
(* and two advisory file locks.                                            *)
(***************************************************************************)
EXTENDS Naturals, FiniteSets

CONSTANTS
    Attachments,  \* the endpoints of the node, by CNI attachment
    Requests,     \* deletions that are asked for
    Covers,       \* the attachments a request names: one, or a container's
    Junk,         \* queue files whose contents do not decode
    MaxEntries,   \* MAX_ENTRIES
    MaxCrashes,   \* bound: agent crashes in one behaviour
    MaxRepeats    \* bound: repeated DEL calls in one behaviour

ASSUME QueueConstants ==
    /\ Covers \in [Requests -> SUBSET Attachments]
    /\ IsFiniteSet(Requests) /\ IsFiniteSet(Junk)
    /\ Requests \cap Junk = {}
    /\ MaxEntries \in Nat /\ MaxCrashes \in Nat /\ MaxRepeats \in Nat
    /\ Cardinality(Junk) <= MaxEntries

VARIABLES
    endpoints,   \* attachments the endpoint manager has
    agent,       \* the agent process
    todo,        \* files the running replay has still to process
    backlog,     \* requests on the API socket: <<request, attempt>>
    queue,       \* *.delete files
    pc,          \* the DEL call of each request
    promised,    \* requests a DEL call reported deleted or queued
    late,        \* history: requests a listening agent did not answer in time
    crashes,
    repeats

agentVars == <<endpoints, agent, todo>>
bounds == <<crashes, repeats>>
vars == <<endpoints, agent, todo, backlog, queue, pc, promised, late, bounds>>

AgentStates == {"down", "restored", "replay", "bound", "serving"}
Listening == agent \in {"bound", "serving"}
Waiting == [attempt \in {1, 2} |-> IF attempt = 1 THEN "sent" ELSE "resent"]
Calls == {"idle", "sent", "lock", "retry", "resent", "enqueue", "publish", "ns",
          "done", "failed"}

\* The two flocks: the lockfile (shared by DEL calls, exclusive to the agent)
\* and the directory, which serialises count-and-publish.
Shared == {r \in Requests : pc[r] \in {"retry", "resent", "enqueue", "publish"}}
Exclusive == agent \in {"replay", "bound"}
\* Mutant: count-and-publish is not serialised.
UnlockedDirectory == FALSE

DirectoryLocked == \E r \in Requests : pc[r] = "publish"

Init ==
    /\ endpoints = Attachments
    /\ agent \in {"down", "serving"}
    /\ todo = {}
    /\ backlog = {}
    /\ queue \in IF agent = "down" THEN SUBSET Junk ELSE {{}}
    /\ pc = [r \in Requests |-> "idle"]
    /\ promised = {}
    /\ late = {}
    /\ crashes = 0
    /\ repeats = 0

----------------------------------------------------------------------------
(* The DEL call. *)

Goto(r, to) == pc' = [pc EXCEPT ![r] = to]

\* The agent cannot be reached: take the queue lock, or queue the request.
Unavailable(r, attempt) == Goto(r, IF attempt = 1 THEN "lock" ELSE "enqueue")

\* try_delete: connect and send, or find nobody listening.
TryDelete(r, attempt) ==
    /\ pc[r] = IF attempt = 1 THEN "idle" ELSE "retry"
    /\ \/ /\ Listening
          /\ backlog' = backlog \cup {<<r, attempt>>}
          /\ Goto(r, Waiting[attempt])
       \/ /\ ~Listening
          /\ Unavailable(r, attempt)
          /\ UNCHANGED backlog
    /\ UNCHANGED <<agentVars, queue, promised, late, bounds>>

\* The client's budget of 1.5 s ends; the agent still has the request.
TimesOut(r, attempt) ==
    /\ pc[r] = Waiting[attempt]
    /\ Unavailable(r, attempt)
    /\ late' = IF attempt = 2 THEN late \cup {r} ELSE late
    /\ UNCHANGED <<agentVars, backlog, queue, promised, bounds>>

\* Mutant: the API is not tried again under the lock.
LockQueueWithoutRecheck(r) ==
    /\ pc[r] = "lock"
    /\ ~Exclusive
    /\ Goto(r, "enqueue")
    /\ UNCHANGED <<agentVars, backlog, queue, promised, late, bounds>>

LockQueue(r) ==
    /\ pc[r] = "lock"
    /\ ~Exclusive
    /\ Goto(r, "retry")
    /\ UNCHANGED <<agentVars, backlog, queue, promised, late, bounds>>

LockQueueFails(r) ==
    /\ pc[r] = "lock"
    /\ Exclusive
    /\ Goto(r, "failed")
    /\ UNCHANGED <<agentVars, backlog, queue, promised, late, bounds>>

Full == Cardinality(queue) >= MaxEntries

\* SharedGuard::enqueue under the directory lock: an equal entry is enough,
\* a full directory is an error, otherwise write a temporary file.
Enqueue(r) ==
    /\ pc[r] = "enqueue"
    /\ ~DirectoryLocked
    /\ \/ /\ r \in queue
          /\ Goto(r, "ns")
          /\ promised' = promised \cup {r}
       \/ /\ r \notin queue
          /\ Goto(r, IF Full THEN "failed" ELSE "publish")
          /\ UNCHANGED promised
    /\ UNCHANGED <<agentVars, backlog, queue, late, bounds>>

\* hard_link makes the entry visible; unlocking comes with the guards.
Publish(r) ==
    /\ pc[r] = "publish"
    /\ queue' = queue \cup {r}
    /\ promised' = promised \cup {r}
    /\ Goto(r, "ns")
    /\ UNCHANGED <<agentVars, backlog, late, bounds>>

LockDirectoryFails(r) ==
    /\ pc[r] = "enqueue"
    /\ DirectoryLocked
    /\ Goto(r, "failed")
    /\ UNCHANGED <<agentVars, backlog, queue, promised, late, bounds>>

\* An I/O error strikes before or after the link: the call fails.
EnqueueFails(r) ==
    /\ \/ pc[r] = "enqueue" /\ UNCHANGED queue
       \/ pc[r] = "publish" /\ queue' \in {queue, queue \cup {r}}
    /\ Goto(r, "failed")
    /\ UNCHANGED <<agentVars, backlog, promised, late, bounds>>

\* Delegated IPAM and the namespace's interface come last.
Finish(r) ==
    /\ pc[r] = "ns"
    /\ pc' \in {[pc EXCEPT ![r] = "done"], [pc EXCEPT ![r] = "failed"]}
    /\ UNCHANGED <<agentVars, backlog, queue, promised, late, bounds>>

\* The runtime kills a call that takes too long; its locks go with it.
Kill(r) ==
    /\ pc[r] \notin {"idle", "done", "failed"}
    /\ Goto(r, "failed")
    /\ UNCHANGED <<agentVars, backlog, queue, promised, late, bounds>>

\* The kubelet repeats DEL, after a failure or to be sure.
Again(r) ==
    /\ pc[r] \in {"done", "failed"}
    /\ repeats < MaxRepeats
    /\ repeats' = repeats + 1
    /\ Goto(r, "idle")
    /\ UNCHANGED <<agentVars, backlog, queue, promised, late, crashes>>

----------------------------------------------------------------------------
(* The agent. *)

\* Restore of the endpoint state; Endpoints.tla has the details.
Restore ==
    /\ agent = "down"
    /\ agent' = "restored"
    /\ UNCHANGED <<endpoints, todo, backlog, queue, pc, promised, late, bounds>>

\* Mutant: a start refuses a queue that is not empty.
LockExclusiveRefuses ==
    /\ agent = "restored"
    /\ Shared = {}
    /\ agent' = IF queue = {} THEN "replay" ELSE "down"
    /\ UNCHANGED <<endpoints, todo, backlog, queue, pc, promised, late, bounds>>

LockExclusive ==
    /\ agent = "restored"
    /\ Shared = {}
    /\ agent' = "replay"
    /\ todo' = queue
    /\ UNCHANGED <<endpoints, backlog, queue, pc, promised, late, bounds>>

\* The lock times out: startup fails and the supervisor starts a new process.
LockExclusiveFails ==
    /\ agent = "restored"
    /\ Shared # {}
    /\ agent' = "down"
    /\ UNCHANGED <<endpoints, todo, backlog, queue, pc, promised, late, bounds>>

\* replay_pending: delete what the entry names, then remove the file.
Replay(e) ==
    /\ agent = "replay"
    /\ e \in todo \cap Requests
    /\ endpoints' = endpoints \ Covers[e]
    /\ todo' = todo \ {e}
    /\ queue' = queue \ {e}
    /\ late' = late \ {e}
    /\ UNCHANGED <<agent, backlog, pc, promised, bounds>>

Discard(e) ==
    /\ agent = "replay"
    /\ e \in todo \cap Junk
    /\ todo' = todo \ {e}
    /\ queue' = queue \ {e}
    /\ UNCHANGED <<endpoints, agent, backlog, pc, promised, late, bounds>>

\* Mutant: the file is removed whatever the deletion's outcome.
ReplayForgets(e) ==
    /\ agent = "replay"
    /\ e \in todo \cap Requests
    /\ agent' = "down"
    /\ todo' = {}
    /\ queue' = queue \ {e}
    /\ UNCHANGED <<endpoints, backlog, pc, promised, late, bounds>>

\* A deletion fails, perhaps after others of the same container: the entry
\* stays and startup fails.
ReplayFails(e) ==
    /\ agent = "replay"
    /\ e \in todo \cap Requests
    /\ \E some \in SUBSET Covers[e] : endpoints' = endpoints \ some
    /\ agent' = "down"
    /\ todo' = {}
    /\ UNCHANGED <<backlog, queue, pc, promised, late, bounds>>

\* publish and bind; the lock is still held.
Bind ==
    /\ agent = "replay"
    /\ todo = {}
    /\ agent' = "bound"
    /\ UNCHANGED <<endpoints, todo, backlog, queue, pc, promised, late, bounds>>

Unlock ==
    /\ agent = "bound"
    /\ agent' = "serving"
    /\ UNCHANGED <<endpoints, todo, backlog, queue, pc, promised, late, bounds>>

\* The answer, when the client still waits for it.
Answered(q) == pc[q[1]] = Waiting[q[2]]

Handle(q) ==
    /\ agent = "serving"
    /\ q \in backlog
    /\ backlog' = backlog \ {q}
    /\ endpoints' = endpoints \ Covers[q[1]]
    /\ IF Answered(q) THEN Goto(q[1], "ns") /\ promised' = promised \cup {q[1]}
                      ELSE UNCHANGED <<pc, promised>>
    /\ UNCHANGED <<agent, todo, queue, late, bounds>>

\* 206, 4xx or 500: DEL goes on with a warning and promises nothing.
HandleFails(q) ==
    /\ agent = "serving"
    /\ q \in backlog
    /\ backlog' = backlog \ {q}
    /\ \E some \in SUBSET Covers[q[1]] : endpoints' = endpoints \ some
    /\ IF Answered(q) THEN Goto(q[1], "ns") ELSE UNCHANGED pc
    /\ UNCHANGED <<agent, todo, queue, promised, late, bounds>>

\* wait_for_request: nothing to accept.
Idle ==
    /\ agent = "serving"
    /\ backlog = {}
    /\ UNCHANGED vars

\* The agent dies, perhaps inside a deletion; clients see the connection drop.
Crash ==
    /\ agent # "down"
    /\ crashes < MaxCrashes
    /\ crashes' = crashes + 1
    /\ agent' = "down"
    /\ todo' = {}
    /\ backlog' = {}
    /\ pc' = [r \in Requests |-> CASE pc[r] = "sent" -> "lock"
                                   [] pc[r] = "resent" -> "enqueue"
                                   [] OTHER -> pc[r]]
    /\ UNCHANGED <<endpoints, queue, promised, late, repeats>>

----------------------------------------------------------------------------
Call(r) ==
    \/ \E attempt \in {1, 2} : TryDelete(r, attempt)
    \/ LockQueue(r) \/ LockQueueFails(r)
    \/ LockDirectoryFails(r) \/ Enqueue(r) \/ Publish(r) \/ Finish(r)

Next ==
    \/ \E r \in Requests :
          \/ Call(r) \/ EnqueueFails(r) \/ Kill(r) \/ Again(r)
          \/ \E attempt \in {1, 2} : TimesOut(r, attempt)
          \/ Replay(r) \/ ReplayFails(r)
    \/ \E e \in Junk : Discard(e)
    \/ \E q \in Requests \X {1, 2} : Handle(q) \/ HandleFails(q)
    \/ Restore \/ LockExclusive \/ LockExclusiveFails \/ Bind \/ Unlock
    \/ Idle \/ Crash

\* A call that can move moves, the supervisor restarts the agent, and a
\* deletion that every start retries succeeds at last (strong fairness).
Fairness ==
    /\ \A r \in Requests : WF_vars(Call(r))
    /\ \A q \in Requests \X {1, 2} : WF_vars(Handle(q) \/ HandleFails(q))
    /\ WF_vars(Restore) /\ WF_vars(LockExclusive)
    /\ WF_vars(Bind) /\ WF_vars(Unlock)
    /\ \A r \in Requests : SF_vars(Replay(r))
    /\ \A e \in Junk : WF_vars(Discard(e))

Spec == Init /\ [][Next]_vars /\ Fairness

----------------------------------------------------------------------------
(* Properties. *)

\* The shape of the processes, of the queue directory and of the socket.
TypeOK ==
    /\ endpoints \subseteq Attachments
    /\ agent \in AgentStates
    /\ todo \subseteq queue
    /\ backlog \subseteq Requests \X {1, 2}
    /\ queue \subseteq Requests \cup Junk
    /\ pc \in [Requests -> Calls]
    /\ promised \subseteq Requests /\ late \subseteq Requests
    /\ crashes \in 0 .. MaxCrashes
    /\ repeats \in 0 .. MaxRepeats

\* What DEL reported deleted or queued is deleted, or waits in the queue for
\* the next start, whatever crashed, timed out or was killed in between.
NoDeletionLost ==
    \A r \in promised : Covers[r] \cap endpoints = {} \/ r \in queue

\* Concurrent DEL calls never fill the directory beyond MAX_ENTRIES.
QueueBounded == Cardinality(queue) <= MaxEntries

\* Replay empties the queue and every writer that waited for it finds the API
\* instead: while the API listens, the queue holds only requests that this
\* API failed to answer in time, twice.
NothingMissed == Listening => queue \subseteq late

\* A promised deletion happens, or the agent was late with it and has it in
\* the queue for its next start.
Done(r) == Covers[r] \cap endpoints = {} \/ r \in late
DeletedAtLast == \A r \in Requests : r \in promised ~> Done(r)
=============================================================================
