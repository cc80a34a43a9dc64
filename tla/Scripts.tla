------------------------------- MODULE Scripts -------------------------------
(***************************************************************************)
(* The script engine (flowsdn-scripttest): run_async steps through the     *)
(* lines of a script, replays a section whose retried command did not end  *)
(* as its line expects, starts exec jobs in the background and joins them  *)
(* (engine.rs); a supervisor task owns every child process, its group and  *)
(* its output (process.rs).                                                *)
(*                                                                         *)
(* What a command does is one of the outcomes its handler can return; the  *)
(* children, the deadline and a cancelling caller are the environment.     *)
(***************************************************************************)
EXTENDS Integers, Sequences

CONSTANTS
    Script,       \* the lines: [kind, status, conditional]
    Outcomes,     \* what a command's handler may return
    ChildEnds,    \* how a child may end: [result, descendants], "stolen" when
                  \* another reaper took its status
    Captures,     \* how reading its output may end: "ok" or "Limit"
    MaxJobs,      \* background jobs at once (32)
    MaxReplays    \* bound: replays before the deadline has passed

VARIABLES
    at,        \* "step", "exec", "discard", "sleep", "wait", "final" or "end"
    position, sectionStart, checkpoint,
    retry,     \* RetryEpisode: the line it must pass, or 0
    replays,
    jobs,      \* the background jobs not joined yet, in order: [id, status]
    failures,  \* errors of the join under way
    result,    \* "running", "ok", "failed" or "dropped"
    over,      \* the deadline has passed or the caller has cancelled
    children   \* every child started: group, supervisor, result
engine == <<at, position, sectionStart, checkpoint, retry, replays, jobs, failures, result, over>>
vars == <<engine, children>>

NextId == Len(children) + 1
Fatal(r) == r \notin {"ok", "Failure"}
Retried(status) == status \in {"SuccessRetry", "FailureRetry"}
\* The outcomes a line's prefix accepts.
Accepted(status) ==
    CASE status \in {"Success", "SuccessRetry"} -> {"ok"}
      [] status \in {"Failure", "FailureRetry"} -> {"Failure"}
      [] status = "SuccessOrFailure" -> {"ok", "Failure"}
------------------------------------------------------------------------------
(* process.rs: child i and its supervisor. *)

\* launch: the child leads a process group of its own.
Child(status, job) ==
    [group |-> {"leader"}, sup |-> "watch", ended |-> "no", result |-> "none",
     stop |-> "no", status |-> status, job |-> job]
\* A command that cannot be spawned: the error stands for its output.
Unspawned(status, job) ==
    [Child(status, job) EXCEPT !.group = {}, !.sup = "sent", !.result = "Failure"]
Launch(status, job) ==
    \E c \in {Child(status, job), Unspawned(status, job)} : children' = Append(children, c)

\* The environment: a child ends, perhaps leaving descendants in its group.
ChildEnd(i) ==
    /\ children[i].ended = "no" /\ "leader" \in children[i].group
    /\ \E e \in ChildEnds :
         children' = [children EXCEPT ![i].group = IF e.descendants THEN {"descendant"} ELSE {},
                                      ![i].ended = e.result]
    /\ UNCHANGED engine

\* interrupted: the caller's cancellation or the deadline, the cancellation
\* of this job, a receiver that is gone.
Interruption(i) ==
    IF over THEN "Deadline"
    ELSE IF children[i].stop # "no" THEN children[i].stop
    ELSE IF result = "dropped" THEN "Cancelled" ELSE "none"
\* supervise: interrupted, out of its output budget, or ended.  A child whose
\* status another reaper took is left alone: its group may not be its own.
Observe(i) ==
    /\ children[i].sup = "watch"
    /\ \/ /\ children[i].ended = "stolen"
          /\ children' = [children EXCEPT ![i].sup = "sent", ![i].result = "ProcessOwnershipLost"]
       \/ /\ Interruption(i) # "none" /\ children[i].ended # "stolen"
          /\ children' = [children EXCEPT ![i].sup = "stop", ![i].result = Interruption(i)]
       \/ /\ Interruption(i) = "none" /\ children[i].ended \notin {"no", "stolen"}
          /\ children' = [children EXCEPT ![i].sup = "kill", ![i].result = children[i].ended]
       \/ /\ Interruption(i) = "none" /\ children[i].ended # "stolen" /\ "Limit" \in Captures
          /\ children' = [children EXCEPT ![i].sup = "stop", ![i].result = "Limit"]
    /\ UNCHANGED engine
\* SIGINT to the group, which the leader may obey, and the grace period.
Grace(i) ==
    /\ children[i].sup = "stop"
    /\ \E obeys \in BOOLEAN :
         children' = [children EXCEPT ![i].sup = "kill",
                        ![i].group = IF obeys THEN @ \ {"leader"} ELSE @]
    /\ UNCHANGED engine
\* preserve_capture_failure.
Preserved(r, capture) ==
    IF capture = "Limit" /\ r \in {"ok", "ReplayCancelled"} THEN "Limit" ELSE r
KillLeader(i) ==
    /\ children[i].sup = "kill"
    /\ children' = [children EXCEPT ![i].sup = "sent", ![i].group = @ \ {"leader"}]
    /\ UNCHANGED engine
\* SIGKILL to the group while its leader is unreaped, the reaping, what is
\* left of the output, and the result.
Kill(i) ==
    /\ children[i].sup = "kill"
    /\ IF children[i].ended = "stolen"
       THEN children' = [children EXCEPT ![i].sup = "sent", ![i].result = "ProcessOwnershipLost"]
       ELSE \E c \in Captures :
              children' = [children EXCEPT ![i].sup = "sent", ![i].group = {},
                                           ![i].result = Preserved(@, c)]
    /\ UNCHANGED engine
------------------------------------------------------------------------------
(* engine.rs and Jobs of process.rs. *)

Line == Script[position]
Running == at = "step" /\ position <= Len(Script) /\ Line.kind # "section"
Ready(kind) == Running /\ Line.kind = kind /\ ~over
\* finish_retry: the episode is over once its line has been passed.
Passed == IF position > retry THEN 0 ELSE retry
Advance == position' = position + 1 /\ retry' = Passed

\* Jobs::cancel, or the cancellation for a replay.
Stopped(js, why) ==
    [i \in DOMAIN children |->
       IF children[i].stop = "no" /\ \E n \in DOMAIN js : js[n].id = i
       THEN [children[i] EXCEPT !.stop = why] ELSE children[i]]
\* run_inner: run_commands returns; the jobs still out are cancelled and joined.
Finish(r) ==
    /\ result' = r /\ children' = Stopped(jobs, "Cancelled") /\ failures' = {}
    /\ at' = IF jobs = <<>> THEN "end" ELSE "final"
Attempt == SelectSeq(jobs, LAMBDA j : j.id >= checkpoint)
\* A command did not end as expected: the end of the run, or the replay of
\* its section, the jobs of this attempt being cancelled first.
Mismatch ==
    IF ~Retried(Line.status) /\ Passed = 0
    THEN Finish("failed") /\ UNCHANGED <<position, retry>>
    ELSE /\ at' = "discard" /\ retry' = IF Passed = 0 THEN position ELSE Passed
         /\ children' = Stopped(Attempt, "ReplayCancelled")
         /\ UNCHANGED <<position, result, failures>>
\* What a command returns: a stop, a fatal error, its expected outcome or not.
Handled(r) ==
    /\ \/ r = "stop" /\ Finish("ok") /\ Advance
       \/ r # "stop" /\ Fatal(r) /\ Finish("failed") /\ Advance
       \/ /\ r \in Accepted(Line.status) /\ at' = "step" /\ Advance
          /\ UNCHANGED <<result, children, failures>>
       \/ ~Fatal(r) /\ r \notin Accepted(Line.status) /\ Mismatch
    /\ UNCHANGED <<sectionStart, checkpoint, replays, jobs, over>>

Section ==
    /\ at = "step" /\ position <= Len(Script) /\ Line.kind = "section" /\ Advance
    /\ sectionStart' = position + 1 /\ checkpoint' = NextId
    /\ UNCHANGED <<at, replays, jobs, failures, result, over, children>>
\* options.check before a command.
Interrupted ==
    /\ Running /\ over /\ Finish("failed")
    /\ UNCHANGED <<position, sectionStart, checkpoint, retry, replays, jobs, over>>
\* selected: a condition of the line does not hold.
Skip ==
    /\ Running /\ ~over /\ Line.conditional /\ Advance
    /\ UNCHANGED <<at, sectionStart, checkpoint, replays, jobs, failures, result, over, children>>
Handler == Ready("command") /\ \E r \in Outcomes : Handled(r)
Foreground ==
    /\ Ready("exec") /\ Launch(Line.status, FALSE) /\ at' = "exec"
    /\ UNCHANGED <<position, sectionStart, checkpoint, retry, replays, jobs, failures, result, over>>
ForegroundDone ==
    LET c == children[Len(children)]
    IN at = "exec" /\ c.sup = "sent" /\ Handled(c.result)
\* Jobs::start.
Background ==
    /\ Ready("background") /\ Advance
    /\ IF Len(jobs) >= MaxJobs THEN Finish("failed") /\ UNCHANGED jobs
       ELSE /\ jobs' = Append(jobs, [id |-> NextId, status |-> Line.status])
            /\ Launch(Line.status, TRUE) /\ UNCHANGED <<at, result, failures>>
    /\ UNCHANGED <<sectionStart, checkpoint, replays, over>>

Wait ==
    /\ Ready("wait") /\ at' = "wait" /\ failures' = {}
    /\ UNCHANGED <<position, sectionStart, checkpoint, retry, replays, jobs, result, over, children>>
\* Jobs::wait: one after the other in the order they were started, each judged
\* by the prefix of its own line; after a fatal error the rest are cancelled.
Join ==
    /\ at \in {"wait", "final"} /\ jobs # <<>>
    /\ LET j == Head(jobs)
           r == children[j.id].result
       IN /\ children[j.id].sup = "sent"
          /\ failures' = failures \cup (IF r \in Accepted(j.status) THEN {}
                                        ELSE {IF r = "ok" THEN "Failure" ELSE r})
    /\ children' = IF \E f \in failures' : Fatal(f) THEN Stopped(Tail(jobs), "Cancelled")
                   ELSE children
    /\ jobs' = Tail(jobs)
    /\ UNCHANGED <<at, position, sectionStart, checkpoint, retry, replays, result, over>>
WaitMasked ==
    /\ at = "wait" /\ jobs = <<>>
    /\ Handled(IF failures = {} THEN "ok"
               ELSE IF failures = {"Failure"} THEN "Failure" ELSE "BackgroundFailure")
\* The errors of a wait end the run, whatever the prefix of the wait line.
WaitDone ==
    /\ at = "wait" /\ jobs = <<>>
    /\ IF failures = {} THEN Handled("ok")
       ELSE /\ Finish("failed") /\ Advance
            /\ UNCHANGED <<sectionStart, checkpoint, replays, jobs, over>>
\* The implicit wait at the end of a run: its errors fail a run that passed.
FinalDone ==
    /\ at = "final" /\ jobs = <<>> /\ at' = "end"
    /\ result' = IF failures = {} THEN result ELSE "failed"
    /\ UNCHANGED <<position, sectionStart, checkpoint, retry, replays, jobs, failures, over, children>>

\* discard_attempt: the jobs of this attempt are joined; one that had already
\* gone wrong by itself ends the run.
Discard ==
    /\ at = "discard"
    /\ \A n \in DOMAIN Attempt : children[Attempt[n].id].sup = "sent"
    /\ LET kept == SelectSeq(jobs, LAMBDA j : j.id < checkpoint)
           wrong == \E n \in DOMAIN Attempt :
                       children[Attempt[n].id].result
                          \notin Accepted(Attempt[n].status) \cup {"ReplayCancelled"}
       IN /\ jobs' = kept
          /\ IF over \/ wrong
             THEN /\ result' = "failed" /\ failures' = {}
                  /\ children' = Stopped(kept, "Cancelled")
                  /\ at' = IF kept = <<>> THEN "end" ELSE "final"
             ELSE at' = "sleep" /\ UNCHANGED <<result, failures, children>>
    /\ UNCHANGED <<position, sectionStart, checkpoint, retry, replays, over>>
\* The pause before the replay, which the deadline or the caller may end.
Replay ==
    /\ at = "sleep"
    /\ IF over THEN Finish("failed") /\ UNCHANGED <<position, replays>>
       ELSE /\ replays < MaxReplays /\ replays' = replays + 1
            /\ at' = "step" /\ position' = sectionStart
            /\ UNCHANGED <<result, failures, children>>
    /\ UNCHANGED <<sectionStart, checkpoint, retry, jobs, over>>
\* The end of the script.
Complete ==
    /\ at = "step" /\ position > Len(Script) /\ Finish("ok") /\ retry' = Passed
    /\ UNCHANGED <<position, sectionStart, checkpoint, replays, jobs, over>>

\* The deadline passes or the caller cancels; the caller drops the run.
Over ==
    /\ ~over /\ at # "end" /\ over' = TRUE
    /\ UNCHANGED <<at, position, sectionStart, checkpoint, retry, replays, jobs, failures,
                   result, children>>
Drop ==
    /\ at # "end" /\ at' = "end" /\ result' = "dropped" /\ jobs' = <<>>
    /\ UNCHANGED <<position, sectionStart, checkpoint, retry, replays, failures, over, children>>

Init ==
    /\ at = "step" /\ position = 1 /\ sectionStart = 1 /\ checkpoint = 1 /\ retry = 0
    /\ replays = 0 /\ jobs = <<>> /\ failures = {} /\ result = "running"
    /\ over = FALSE /\ children = <<>>
Engine == \/ Section \/ Interrupted \/ Skip \/ Handler \/ Foreground \/ ForegroundDone
          \/ Background \/ Wait \/ Join \/ WaitDone \/ FinalDone \/ Discard \/ Replay \/ Complete
Supervise(i) == Observe(i) \/ Grace(i) \/ Kill(i)
Next == Engine \/ Over \/ Drop \/ \E i \in DOMAIN children : Supervise(i) \/ ChildEnd(i)
------------------------------------------------------------------------------
\* A run that reports success had every background job judged by the prefix
\* of its own line: each was joined with an outcome its line accepts, or was
\* cancelled for a replay of its section - whatever the prefix of the wait
\* line, and however replays and joins mixed with the ends of the jobs.
SuccessIsEarned ==
    at = "end" /\ result = "ok" =>
        \A i \in DOMAIN children :
            children[i].job =>
               /\ children[i].sup = "sent"
               /\ children[i].result \in Accepted(children[i].status) \cup {"ReplayCancelled"}

\* Every run ends, by its deadline if not before, and then no process of a
\* group it started is left, descendants included, also when the caller
\* dropped the run - unless another reaper took the child.
CleanEnd ==
    at = "end" /\ \A i \in DOMAIN children :
        children[i].group = {} \/ children[i].ended = "stolen"
NothingLeftBehind == <>[]CleanEnd
==============================================================================
