------------------------------- MODULE ApiWire -------------------------------
(***************************************************************************)
(* One request over the agent's socket: the client (flowsdn-api-client     *)
(* lib.rs, wire.rs) and the agent's side of it (flowsdn-agent api.rs, from *)
(* read_request to write_response). The agent serves one connection at a   *)
(* time, may crash between any two steps, and a client may be killed.      *)
(*                                                                         *)
(* A stream is a sequence of tokens: a block of headers, a unit of body,   *)
(* a chunk's size line, a line end, a block of trailers. Reads and writes  *)
(* move any number of tokens; Room is what the socket's buffer holds.      *)
(***************************************************************************)
EXTENDS Integers, Sequences, FiniteSets, FiniteSetsExt, SequencesExt, Functions

CONSTANTS
    Calls,         \* calls, one request each
    Workloads,     \* what they ask: call -> [method, target, length, body, flaw, head, tcp, unbounded]
    Replies(_, _), \* status, result -> the streams a server may frame it in
    HeaderLimit, BodyLimit,  \* the agent's and the client's limits, in tokens
    Backlog, Room,
    Timeout, Budget,  \* the client's deadline and REQUEST_BUDGET, in ticks
    MaxCrashes     \* bound

VARIABLES
    Request,   \* the workload
    client,    \* call -> [pc, sent, got, since, result]
    up, backlog, crashes,
    agent,     \* the connection served: [call, pc, received, since, reply]
    wire,      \* call -> [to, from]: tokens written and not read
    open,      \* call -> [client, agent]: that end is open
    done       \* ghost: call -> the statuses its executions ended with
vars == <<Request, client, up, backlog, crashes, agent, wire, open, done>>

NoLength == -1
Idle == [call |-> "none", pc |-> "idle", received |-> 0, since |-> 0, reply |-> <<>>]
------------------------------------------------------------------------------
\* read_request over the n tokens received: a status that refuses it, 0 to
\* read on, 1 when the request is whole. The order is the code's.
FlawStatus == [version |-> 505, encoding |-> 501, expect |-> 417, length |-> 400,
               expiration |-> 400, target |-> 400]
NeedsLength(r) == r.method = "PUT" \/ (r.method = "DELETE" /\ r.target = "endpoint")
ReadRequestEager(r, n) ==
    IF n = 0 THEN 0 ELSE IF r.flaw \in DOMAIN FlawStatus THEN FlawStatus[r.flaw] ELSE 1
ReadRequest(r, n) ==
    LET length == IF r.length = NoLength THEN 0 ELSE r.length IN
    CASE n = 0 -> 0
      [] n > 0 /\ r.head + n - 1 > HeaderLimit + BodyLimit -> 413
      [] n > 0 /\ r.head > HeaderLimit /\ r.head + n - 1 <= HeaderLimit + BodyLimit -> 431
      [] n > 0 /\ r.head <= HeaderLimit /\ r.flaw \in DOMAIN FlawStatus -> FlawStatus[r.flaw]
      [] OTHER ->
           CASE r.length = NoLength /\ NeedsLength(r) -> 411
             [] length > BodyLimit -> 413
             [] length <= BodyLimit /\ n - 1 < length -> 0
             [] length <= BodyLimit /\ n - 1 > length -> 400
             [] OTHER -> IF r.flaw = "json" /\ length > 0 THEN 400 ELSE 1
\* serve's refusal on the TCP listener, which only reads (read_only).
Refused(r) == r.tcp /\ ~(r.method = "GET" \/ (r.method = "POST" /\ r.target = "query"))
------------------------------------------------------------------------------
\* wire.rs. `more` is an answer that is not complete yet.
More == [ok |-> FALSE, more |-> TRUE, status |-> 0, body |-> 0]
Broken == [More EXCEPT !.more = FALSE]
Whole(status, body) == [ok |-> TRUE, more |-> FALSE, status |-> status, body |-> body]

Interim(h) == h.status \in 100..199
\* The headers of a response: framing that contradicts itself is refused.
BadHead(h) ==
    \/ h.t # "head" \/ h.twice \/ (h.chunked /\ h.length # NoLength)
    \/ (Interim(h) /\ (h.status = 101 \/ h.chunked \/ h.length > 0))
    \/ h.status \notin 100..599
    \/ (h.status = 204 /\ (h.chunked \/ h.length > 0))
\* Reader::exact: n units of body after position i of s, or the end of s.
Units(s, i, n) ==
    IF n > BodyLimit THEN Broken
    ELSE IF \E j \in i + 1..Min({i + n, Len(s)}) : s[j].t # "b" THEN Broken
    ELSE IF i + n <= Len(s) THEN Whole(0, n) ELSE More
\* The chunks of s after position i.
Chunked(s, i, status) ==
    LET From[j \in 0..Len(s), body \in 0..BodyLimit] ==
          IF j = Len(s) THEN More
          ELSE IF s[j + 1].t # "size" THEN Broken
          ELSE LET n == s[j + 1].n
                   after == j + 1 + n IN
               IF n = 0 THEN IF j + 2 > Len(s) THEN More
                             ELSE IF s[j + 2].t # "trailer" \/ s[j + 2].framing THEN Broken
                             ELSE Whole(status, body)
               ELSE IF body + n > BodyLimit THEN Broken
               ELSE IF ~Units(s, j + 1, n).ok THEN Units(s, j + 1, n)
               ELSE IF after + 1 > Len(s) THEN More
               ELSE IF s[after + 1].t # "crlf" THEN Broken
               ELSE From[after + 1, body + n]
    IN From[i, 0]
ResponseShort(s, closed) ==
    IF s = <<>> THEN IF closed THEN Broken ELSE More
    ELSE IF s[1].t = "head" /\ ~Interim(s[1]) /\ closed
         THEN Whole(s[1].status, Cardinality({i \in DOMAIN s : s[i].t = "b"}))
    ELSE IF closed THEN Broken ELSE More
\* response: informational heads (at most eight), one head, and the body it
\* frames; without a framing the body ends with the stream.
Response(s, closed) ==
    LET heads == {i \in DOMAIN s : s[i].t = "head"}
        firsts == {i \in heads : ~Interim(s[i])}
        read ==
          IF heads = {} THEN IF s = <<>> THEN More ELSE Broken
          ELSE IF \E i \in heads : BadHead(s[i]) THEN Broken
          ELSE IF firsts = {} THEN (IF Cardinality(heads) > 8 THEN Broken ELSE More)
          ELSE LET i == Min(firsts)
                   h == s[i]
                   rest == Len(s) - i IN
               IF i > 9 THEN Broken
               ELSE IF h.status \in {204, 304} THEN Whole(h.status, 0)
               ELSE IF h.chunked THEN Chunked(s, i, h.status)
               ELSE IF h.length # NoLength
                    THEN LET u == Units(s, i, h.length) IN
                         IF u.ok THEN Whole(h.status, h.length) ELSE u
               ELSE IF rest > BodyLimit THEN Broken
               ELSE IF closed THEN Whole(h.status, rest) ELSE More
    IN IF read.more /\ closed THEN Broken ELSE read
------------------------------------------------------------------------------
\* The clock is the age of what waits: ticks since the call began and since
\* the agent took the connection.
Set(c, r) == client' = [client EXCEPT ![c] = r]
Left(c) == Timeout - client[c].since
\* The call is over; its end of the stream closes.
Return(c, result) ==
    /\ Set(c, [client[c] EXCEPT !.pc = "over", !.result = result])
    /\ open' = [open EXCEPT ![c].client = FALSE]
Failed(kind) == [ok |-> FALSE, error |-> kind, status |-> 0, body |-> 0]

\* Nothing is sent for a body that is too large.
Start(c) ==
    /\ client[c].pc = "idle" /\ Request[c].method # "NONE"
    /\ IF Request[c].body > BodyLimit THEN Return(c, Failed("Limit"))
       ELSE Set(c, [client[c] EXCEPT !.pc = "connect"]) /\ UNCHANGED open
    /\ UNCHANGED <<up, backlog, crashes, agent, wire, done>>
\* connect_deadline: a full backlog is tried again until the deadline.
Connect(c) ==
    /\ client[c].pc = "connect"
    /\ \/ Left(c) = 0 /\ Return(c, Failed("Timeout")) /\ UNCHANGED <<backlog, wire>>
       \/ ~up /\ Return(c, Failed("Transport")) /\ UNCHANGED <<backlog, wire>>
       \/ /\ up /\ Left(c) > 0 /\ Len(backlog) < Backlog
          /\ backlog' = Append(backlog, c)
          /\ open' = [open EXCEPT ![c] = [client |-> TRUE, agent |-> TRUE]]
          /\ Set(c, [client[c] EXCEPT !.pc = "write"])
          /\ UNCHANGED wire
    /\ UNCHANGED <<up, crashes, agent, done>>
Total(c) == 1 + Request[c].body
\* write_deadline, for the head and then the body.
WriteDeadline(c) ==
    /\ client[c].pc = "write"
    /\ \/ /\ ~open[c].agent /\ Return(c, Failed("Transport")) /\ UNCHANGED wire
       \/ /\ open[c].agent /\ Left(c) = 0 /\ Return(c, Failed("Timeout")) /\ UNCHANGED wire
       \/ /\ open[c].agent /\ Left(c) > 0
          /\ \E n \in 1..(Total(c) - client[c].sent) :
               /\ wire[c].to + n <= Room
               /\ wire' = [wire EXCEPT ![c].to = @ + n]
               /\ Set(c, [client[c] EXCEPT !.sent = @ + n,
                            !.pc = IF client[c].sent + n = Total(c) THEN "read" ELSE "write"])
          /\ UNCHANGED open
    /\ UNCHANGED <<up, backlog, crashes, agent, done>>
\* Reader::fill, and what the bytes read so far amount to.
ReadResponse(c) ==
    /\ client[c].pc = "read"
    /\ \/ /\ wire[c].from # <<>>
          /\ \E n \in 1..Len(wire[c].from) :
               LET got == client[c].got \o SubSeq(wire[c].from, 1, n)
                   r == Response(got, FALSE) IN
               /\ wire' = [wire EXCEPT ![c].from = SubSeq(@, n + 1, Len(@))]
               /\ IF r.more THEN Set(c, [client[c] EXCEPT !.got = got]) /\ UNCHANGED open
                  ELSE Return(c, IF r.ok THEN [ok |-> TRUE, error |-> "none", status |-> r.status, body |-> r.body]
                                 ELSE Failed("Protocol"))
       \/ /\ wire[c].from = <<>> /\ ~open[c].agent
          /\ LET r == Response(client[c].got, TRUE) IN
             Return(c, IF r.ok THEN [ok |-> TRUE, error |-> "none", status |-> r.status, body |-> r.body]
                       ELSE Failed("Protocol"))
          /\ UNCHANGED wire
       \/ /\ ~Request[c].unbounded /\ Left(c) = 0 /\ Return(c, Failed("Timeout")) /\ UNCHANGED wire
    /\ UNCHANGED <<up, backlog, crashes, agent, done>>
------------------------------------------------------------------------------
\* The run loop takes the next connection.
Accept ==
    /\ up /\ agent.pc = "idle" /\ backlog # <<>>
    /\ agent' = [Idle EXCEPT !.call = backlog[1], !.pc = "read"]
    /\ backlog' = Tail(backlog)
    /\ UNCHANGED <<client, up, crashes, wire, open, done>>
\* What the agent will write: an error says so in a body of one unit.
Answer(c, status, body) ==
    \E s \in Replies(status, body) : agent' = [agent EXCEPT !.pc = "write", !.since = 0, !.reply = s]
\* Api::handle; what it does is one step here, and its status any.
Execute(c) ==
    \E status \in {200, 500} :
      /\ done' = [done EXCEPT ![c] = Append(@, status)]
      /\ Answer(c, status, 2)
ReadStep ==
    LET c == agent.call
        r == Request[c] IN
    /\ agent.pc = "read"
    /\ \/ /\ agent.since < Budget /\ wire[c].to > 0
          /\ \E n \in 1..wire[c].to :
               LET got == agent.received + n
                   v == ReadRequest(r, got) IN
               /\ wire' = [wire EXCEPT ![c].to = @ - n]
               /\ \/ v = 0 /\ agent' = [agent EXCEPT !.received = got] /\ UNCHANGED done
                  \/ v = 1 /\ ~Refused(r) /\ Execute(c)
                  \/ v = 1 /\ Refused(r) /\ Answer(c, 403, 1) /\ UNCHANGED done
                  \/ v > 1 /\ Answer(c, v, 1) /\ UNCHANGED done
       \/ /\ agent.since < Budget /\ wire[c].to = 0 /\ ~open[c].client
          /\ Answer(c, 400, 1) /\ UNCHANGED <<wire, done>>
       \/ /\ agent.since = Budget /\ Answer(c, 408, 1) /\ UNCHANGED <<wire, done>>
    /\ UNCHANGED <<client, up, backlog, crashes, open>>
\* write_response, and the connection is closed whatever came of it.
WriteStep ==
    LET c == agent.call IN
    /\ agent.pc = "write"
    /\ \/ /\ open[c].client /\ agent.since < Budget /\ agent.reply # <<>>
          /\ \E n \in 1..Len(agent.reply) :
               /\ Len(wire[c].from) + n <= Room
               /\ wire' = [wire EXCEPT ![c].from = @ \o SubSeq(agent.reply, 1, n)]
               /\ agent' = [agent EXCEPT !.reply = SubSeq(@, n + 1, Len(@))]
          /\ UNCHANGED open
       \/ /\ ~open[c].client \/ agent.since = Budget \/ agent.reply = <<>>
          /\ agent' = Idle /\ open' = [open EXCEPT ![c].agent = FALSE] /\ UNCHANGED wire
    /\ UNCHANGED <<client, up, backlog, crashes, done>>
------------------------------------------------------------------------------
Crash ==
    /\ up /\ crashes < MaxCrashes /\ crashes' = crashes + 1
    /\ up' = FALSE /\ backlog' = <<>> /\ agent' = Idle
    /\ open' = [c \in Calls |-> [open[c] EXCEPT !.agent = FALSE]]
    /\ UNCHANGED <<client, wire, done>>
Restart == ~up /\ up' = TRUE /\ UNCHANGED <<client, backlog, crashes, agent, wire, open, done>>
Killed(c) ==
    /\ client[c].pc \in {"write", "read"} /\ crashes < MaxCrashes /\ crashes' = crashes + 1
    /\ Set(c, [client[c] EXCEPT !.pc = "killed"])
    /\ open' = [open EXCEPT ![c].client = FALSE]
    /\ UNCHANGED <<up, backlog, agent, wire, done>>
\* A deadline that has come is acted on before the next tick.
Bounded(c) == client[c].pc \in {"connect", "write"} \/ (client[c].pc = "read" /\ ~Request[c].unbounded)
Tick ==
    LET timed == {c \in Calls : Bounded(c)} IN
    /\ timed # {} \/ agent.pc # "idle"
    /\ \A c \in timed : Left(c) > 0
    /\ agent.pc # "idle" => agent.since < Budget
    /\ client' = [c \in Calls |-> IF c \in timed THEN [client[c] EXCEPT !.since = @ + 1] ELSE client[c]]
    /\ agent' = IF agent.pc = "idle" THEN agent ELSE [agent EXCEPT !.since = @ + 1]
    /\ UNCHANGED <<up, backlog, crashes, wire, open, done>>

Init ==
    /\ Request \in Workloads
    /\ client = [c \in Calls |-> [pc |-> "idle", sent |-> 0, got |-> <<>>, since |-> 0,
                                  result |-> Failed("none")]]
    /\ up = TRUE /\ backlog = <<>> /\ crashes = 0 /\ agent = Idle
    /\ wire = [c \in Calls |-> [to |-> 0, from |-> <<>>]]
    /\ open = [c \in Calls |-> [client |-> FALSE, agent |-> FALSE]]
    /\ done = [c \in Calls |-> <<>>]
Client(c) == Start(c) \/ Connect(c) \/ WriteDeadline(c) \/ ReadResponse(c)
Agent == Accept \/ ReadStep \/ WriteStep
Next ==
    /\ \/ \E c \in Calls : Client(c) \/ Killed(c)
       \/ Agent \/ Crash \/ Restart \/ Tick
    /\ UNCHANGED Request
------------------------------------------------------------------------------
\* What a client is told is what the agent did. A response that is not a
\* refusal carries the status of the one execution of its request, and the
\* whole of its body; a refusal, or an error before the request was wholly
\* written, means it was not executed; nothing is executed twice, and only
\* when all that its Content-Length announces was sent.
ToldAsDone ==
    \A c \in Calls :
      LET k == client[c]
          r == k.result IN
      /\ Len(done[c]) <= 1
      /\ done[c] # <<>> => k.sent >= 1 + Request[c].length /\ Request[c].flaw = "none"
      /\ r.ok => \/ done[c] = <<r.status>> /\ r.body = 2
                 \/ done[c] = <<>> /\ r.status \notin {200, 500} /\ r.body = 1
==============================================================================
