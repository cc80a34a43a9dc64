------------------------------- MODULE Observer -------------------------------
(***************************************************************************)
(* The observer's bounded structures: the event ring (flowsdn-hubble       *)
(* ring.rs) with a reader of it, and the admission gate of packet-drop     *)
(* events (drop_events.rs). They share no state; `part` names the one a    *)
(* behaviour is about.                                                     *)
(***************************************************************************)
EXTENDS Integers, Sequences, FiniteSets, FiniteSetsExt, Functions

CONSTANTS
    Mask, Width,           \* ring: capacity 2^n - 1, sequence numbers modulo Width
    MaxPushes,             \* bound: events pushed
    Keys, Interval, Second, Maximum, PerSecond,  \* Gate::new; Second is one second
    MaxNow, MaxTickets     \* bounds: the clock, admissions

VARIABLES part,
    slots, next, filled,                 \* MemoryRing
    reader, position, pushed, got,       \* a reader's cursor; ghosts
    entries, attempts, sequence,         \* Gate: key -> [at, sequence], times, last
    tickets, admitted,                   \* tickets handed out; ghost: all admissions
    now
ring == <<slots, next, filled, reader, position, pushed, got>>
gate == <<entries, attempts, sequence, tickets, admitted>>
vars == <<part, ring, gate, now>>
------------------------------------------------------------------------------
\* MemoryRing. A slot holds the true number of its event.
Half == Width \div 2
Slot(s) == s % (Mask + 1)
Push ==
    /\ slots' = [slots EXCEPT ![Slot(next)] = pushed]
    /\ next' = (next + 1) % Width
    /\ filled' = Min({filled + 1, Mask + 1})
    /\ pushed' = pushed + 1
    /\ UNCHANGED <<reader, position, got>>
Oldest == (next - filled) % Width
Newest == (next - 1) % Width

ReadOneLapLate(s) ==
    LET distance == (Newest - s) % Width IN
    IF filled = 0 \/ distance = 0 \/ distance >= Half THEN -2
    ELSE IF distance > Mask + 1 THEN -1 ELSE slots[Slot(s)]
\* read: the event's number, -1 for a loss, -2 for the end.
Read(s) ==
    LET distance == (Newest - s) % Width IN
    IF filled = 0 \/ distance = 0 \/ distance >= Half THEN -2
    ELSE IF distance > Mask THEN -1 ELSE slots[Slot(s)]
\* read_next: the cursor moves on an event and on a loss.
ReadNext ==
    /\ Read(reader) # -2
    /\ reader' = (reader + 1) % Width
    /\ got' = [at |-> position, value |-> Read(reader), newest |-> pushed - 1]
    /\ position' = position + 1
    /\ UNCHANGED <<slots, next, filled, pushed>>
\* A reader joins at the oldest event, or at the next one.
Join ==
    \/ reader' = Oldest /\ position' = pushed - filled
    \/ reader' = next /\ position' = pushed
Attach == Join /\ UNCHANGED <<slots, next, filled, pushed, got>>
\* The documented limit: a cursor is less than half the numbers behind.
RingNext ==
    /\ part = "ring"
    /\ \/ pushed < MaxPushes /\ pushed - position < Half /\ Push
       \/ ReadNext \/ Attach
    /\ UNCHANGED <<part, gate, now>>
RingInit ==
    /\ slots = [i \in 0..Mask |-> -1] /\ next = 0 /\ filled = 0
    /\ reader = 0 /\ position = 0 /\ pushed = 0
    /\ got = [at |-> 0, value |-> 0, newest |-> 0]
------------------------------------------------------------------------------
\* Gate::admit; `kept` and `recent` are what the expiry leaves.
Admit(k) ==
    LET kept == {x \in DOMAIN entries : now - entries[x].at < Interval}
        recent == SelectSeq(attempts, LAMBDA at : now - at < Second)
        given == sequence + 1 IN
    /\ \/ /\ (k \in kept \/ Cardinality(kept) >= Maximum
              \/ (PerSecond # 0 /\ Len(recent) >= PerSecond))
          /\ entries' = Restrict(entries, kept) /\ attempts' = recent
          /\ UNCHANGED <<sequence, tickets, admitted>>
       \/ /\ k \notin kept /\ Cardinality(kept) < Maximum
          /\ PerSecond = 0 \/ Len(recent) < PerSecond
          /\ sequence' = given
          /\ entries' = [x \in kept \cup {k} |->
                           IF x = k THEN [at |-> now, sequence |-> given] ELSE entries[x]]
          /\ attempts' = IF PerSecond # 0 THEN Append(recent, now) ELSE recent
          /\ tickets' = tickets \cup {[key |-> k, sequence |-> given]}
          /\ admitted' = admitted \cup {[key |-> k, sequence |-> given, at |-> now, failed |-> FALSE]}

AnyReservation(t) == t.key \in DOMAIN entries
Held(t) == t.key \in DOMAIN entries /\ entries[t.key].sequence = t.sequence
\* Gate::finish: a failed write frees its own reservation only.
FinishTicket(t, success) ==
    /\ entries' = IF ~success /\ Held(t)
                  THEN Restrict(entries, DOMAIN entries \ {t.key}) ELSE entries
    /\ tickets' = tickets \ {t}
    /\ admitted' = {IF a.sequence = t.sequence THEN [a EXCEPT !.failed = ~success] ELSE a : a \in admitted}
    /\ UNCHANGED <<attempts, sequence>>
Later == now < MaxNow /\ now' = now + 1
GateNext ==
    /\ part = "gate"
    /\ \/ sequence < MaxTickets /\ (\E k \in Keys : Admit(k)) /\ UNCHANGED now
       \/ (\E t \in tickets, ok \in BOOLEAN : FinishTicket(t, ok)) /\ UNCHANGED now
       \/ Later /\ UNCHANGED gate
    /\ UNCHANGED <<part, ring>>
GateInit ==
    /\ entries = <<>> /\ attempts = <<>> /\ sequence = 0 /\ tickets = {} /\ admitted = {}

Init ==
    /\ part \in {"ring", "gate"} /\ RingInit /\ GateInit /\ now = 0
Next == RingNext \/ GateNext
------------------------------------------------------------------------------
\* What read_next gives a reader at its n-th position is the n-th event, or a
\* loss when - and only when - that event has been overwritten, across the
\* wrap of the sequence numbers; the newest event is never given out.
ReadsInOrder ==
    /\ got.value # -1 => got.value = got.at
    /\ got.value = -1 <=> got.newest - got.at > Mask
    /\ got.newest > 0 => got.at < got.newest

\* The gate reports a drop of one pod, reason and message once per interval:
\* two admissions of a key are an interval apart unless the earlier one's
\* write failed - whenever its completion arrives - and never more than the
\* limit fall into one second, failed ones included.
OncePerInterval ==
    /\ \A a, b \in admitted :
         a.key = b.key /\ a.sequence < b.sequence => b.at - a.at >= Interval \/ a.failed
    /\ PerSecond # 0 => \A a \in admitted :
         Cardinality({b \in admitted : b.at \in a.at..(a.at + Second - 1)}) <= PerSecond
==============================================================================
