------------------------------- MODULE Events -------------------------------
(***************************************************************************)
(* The recorder of Kubernetes Events (agent, events.rs): callers put       *)
(* reports into a bounded queue, one thread aggregates repeats and writes  *)
(* each Event as one object of the API server with a growing count.        *)
(*                                                                         *)
(* A key is <<object, text>>, the text being reason and message.  An entry *)
(* keeps the age, in ticks, of its last report and of its last write.      *)
(***************************************************************************)
EXTENDS Integers, Sequences, FiniteSets, FiniteSetsExt

CONSTANTS
    Keys,         \* <<object, text>>
    Node,         \* the object that is the agent's own Node
    QUEUE, ENTRIES, REWRITE, FORGET,
    MaxReports,   \* bound: reports made
    MaxFaults     \* bound: failed requests, answers lost, objects created anew

Objects == {k[1] : k \in Keys}
Never == -1       \* not written yet
Unknown == 0      \* a report without a UID

VARIABLES
    queue,     \* reports on their way: [key, uid]
    entries,   \* key -> [id, uid, count, written, dirty, seen]
    uids,      \* node_uid and pod_uids: object -> UID
    todo,      \* the keys flush has still to write, in the thread's hands
    pc,        \* the thread: "wait", "retain" or "flush"
    events,    \* id -> [key, uid, count]: the objects of the API server
    live,      \* object -> its UID now
    made, faults,
    taken,     \* key -> reports the thread took from the queue
    lost       \* key -> reports given up for a reason the code names
vars == <<queue, entries, uids, todo, pc, events, live, made, faults, taken, lost>>
------------------------------------------------------------------------------
Fault == faults < MaxFaults /\ faults' = faults + 1
Without(f, k) == [x \in DOMAIN f \ {k} |-> f[x]]
With(f, k, v) == [x \in DOMAIN f \cup {k} |-> IF x = k THEN v ELSE f[x]]
Count(id) == IF id \in DOMAIN events THEN events[id].count ELSE 0
\* What of an entry the API server does not show.
Unshown(e) == e.count - Count(e.id)
Losing(m) == lost' = [k \in Keys |-> IF k \in DOMAIN m THEN lost[k] + m[k] ELSE lost[k]]

\* record: a full queue drops the report; nobody waits.
Record(k, uid) ==
    /\ made < MaxReports /\ made' = made + 1
    /\ queue' = IF Len(queue) < QUEUE THEN Append(queue, [key |-> k, uid |-> uid]) ELSE queue
    /\ UNCHANGED <<entries, uids, todo, pc, events, live, faults, taken, lost>>

RepeatUnmarked(e) == [e EXCEPT !.count = @ + 1, !.seen = 0]
\* add: a repeat counts and marks its entry.
Repeat(e) == [e EXCEPT !.count = @ + 1, !.dirty = TRUE, !.seen = 0]

\* involved: the UID a report carries, the one looked up before, or the one
\* the API server gives; None when the lookup fails.
None == [ok |-> FALSE, uid |-> Unknown]
Found(uid) == [ok |-> TRUE, uid |-> uid]
Involved(r) ==
    LET o == r.key[1]
    IN IF o # Node /\ r.uid # Unknown THEN {Found(r.uid)}
       ELSE IF o \in DOMAIN uids THEN {Found(uids[o])}
       ELSE {Found(live[o]), None}
Cached(r, uid) ==
    LET o == r.key[1]
        pods == DOMAIN uids \ {Node}
        kept == IF o # Node /\ Cardinality(pods) >= ENTRIES
                THEN [x \in DOMAIN uids \cap {Node} |-> uids[x]] ELSE uids
    IN IF (o # Node /\ r.uid # Unknown) \/ o \in DOMAIN uids THEN uids ELSE With(kept, o, uid)

\* add: a new key may push out the one not seen for longest, even when the
\* lookup that follows fails.
Insert(r) ==
    LET k == r.key
        full == Cardinality(DOMAIN entries) >= ENTRIES
        oldest == {x \in DOMAIN entries : \A y \in DOMAIN entries : entries[x].seen >= entries[y].seen}
    IN \E out \in (IF full THEN {{x} : x \in oldest} ELSE {{}}), i \in Involved(r) :
         LET kept == [x \in DOMAIN entries \ out |-> entries[x]]
             new == [id |-> <<k, taken[k]>>, uid |-> i.uid, count |-> 1, written |-> Never,
                     dirty |-> TRUE, seen |-> 0]
             gone == [x \in out |-> Unshown(entries[x])]
         IN /\ IF i.ok THEN entries' = With(kept, k, new) /\ uids' = Cached(r, i.uid) /\ UNCHANGED faults
               ELSE entries' = kept /\ Fault /\ UNCHANGED uids
            /\ Losing(IF i.ok THEN gone ELSE With(gone, k, 1))
Add(r) ==
    /\ taken' = [taken EXCEPT ![r.key] = @ + 1]
    /\ IF r.key \in DOMAIN entries
       THEN /\ entries' = [entries EXCEPT ![r.key] = Repeat(@)]
            /\ UNCHANGED <<uids, faults, lost>>
       ELSE Insert(r)

\* run: a report, or ten seconds without one; then flush.
Receive ==
    /\ pc = "wait" /\ pc' = "retain"
    /\ \/ queue # <<>> /\ Add(Head(queue)) /\ queue' = Tail(queue)
       \/ queue = <<>> /\ UNCHANGED <<queue, entries, uids, faults, taken, lost>>
    /\ UNCHANGED <<todo, events, live, made>>
\* flush: entries not seen for long are forgotten; the due ones are written.
Due(e) == e.dirty /\ (e.written = Never \/ e.written >= REWRITE)
Retain ==
    LET kept == {k \in DOMAIN entries : entries[k].seen < FORGET}
        gone == DOMAIN entries \ kept
    IN /\ pc = "retain"
       /\ entries' = [k \in kept |-> entries[k]]
       /\ todo' = {k \in kept : Due(entries[k])}
       /\ Losing([k \in gone |-> Unshown(entries[k])])
       /\ pc' = IF todo' = {} THEN "wait" ELSE "flush"
       /\ UNCHANGED <<queue, uids, events, live, made, faults, taken>>
\* One write: POST for an Event not written yet, PUT after that.  A refused
\* or lost POST is given up; a failed PUT stays for the next flush.
Write(k) ==
    LET e == entries[k]
        shown == With(events, e.id, [key |-> k, uid |-> e.uid, count |-> e.count])
    IN /\ pc = "flush" /\ k \in todo
       /\ todo' = todo \ {k} /\ pc' = IF todo' = {} THEN "wait" ELSE "flush"
       /\ \/ /\ events' = shown /\ UNCHANGED <<faults, lost>>
             /\ entries' = [entries EXCEPT ![k].written = 0, ![k].dirty = FALSE]
          \/ /\ Fault /\ events' \in {events, shown}
             /\ IF e.written = Never
                THEN /\ entries' = Without(entries, k)
                     /\ lost' = [lost EXCEPT ![k] = @ + (IF events' = shown THEN 0 ELSE e.count)]
                ELSE UNCHANGED <<entries, lost>>
       /\ UNCHANGED <<queue, uids, live, made, taken>>
------------------------------------------------------------------------------
\* A Pod is created again under its name; time passes.
Recreate(o) ==
    /\ o # Node /\ Fault /\ live' = [live EXCEPT ![o] = @ + 1]
    /\ UNCHANGED <<queue, entries, uids, todo, pc, events, made, taken, lost>>
Older(t, cap) == IF t \in 0..(cap - 1) THEN t + 1 ELSE t
Tick ==
    /\ entries' = [k \in DOMAIN entries |->
                     [entries[k] EXCEPT !.seen = Older(@, FORGET), !.written = Older(@, REWRITE)]]
    /\ entries' # entries
    /\ UNCHANGED <<queue, uids, todo, pc, events, live, made, faults, taken, lost>>

Init ==
    /\ queue = <<>> /\ entries = <<>> /\ uids = <<>> /\ todo = {} /\ pc = "wait"
    /\ events = <<>> /\ live = [o \in Objects |-> 1] /\ made = 0 /\ faults = 0
    /\ taken = [k \in Keys |-> 0] /\ lost = [k \in Keys |-> 0]
Next ==
    \/ \E k \in Keys : \E uid \in {Unknown, live[k[1]]} : Record(k, uid)
    \/ Receive \/ Retain \/ \E k \in todo : Write(k)
    \/ \E o \in Objects : Recreate(o)
    \/ Tick
------------------------------------------------------------------------------
\* No report disappears on the way: every one the thread took is counted by
\* an object of the API server, or waits in an entry marked for writing, or
\* was given up for a reason the code names (no UID, pushed out, forgotten,
\* not created); none is counted twice, whichever answers were lost.
ReportsAccounted ==
    \A k \in Keys :
        LET objects == {i \in DOMAIN events : events[i].key = k}
            waiting == IF k \in DOMAIN entries /\ entries[k].dirty THEN Unshown(entries[k]) ELSE 0
        IN taken[k] = MapThenSumSet(Count, objects) + waiting + lost[k]
==============================================================================
