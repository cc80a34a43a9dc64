----------------------------- MODULE BgpSession -----------------------------
(***************************************************************************)
(* Two BGP speakers of flowsdn-bgp-proto: Session of session.rs on either  *)
(* side (one that connects and one that listens), OPEN negotiation and     *)
(* notifications, over TCP connections that fail, break and deliver in     *)
(* order.  Time is in units of a third of the hold time; a timer holds the *)
(* units left, 0 when it is due and None when it is not set.               *)
(*                                                                         *)
(* A connection generation is the connection it was made for: a callback   *)
(* of another connection is one of another generation.  The transport      *)
(* (external) runs the actions in order.                                   *)
(***************************************************************************)
EXTENDS Integers, Sequences, FiniteSets

CONSTANTS
    Config,       \* speaker -> [passive, listen, open, peerAsn, graceful, strict]
    Hold,         \* the units of a hold time
    RetryDelays,  \* what retry_delay may return
    IdleDelay, OpenHold,
    Slots,        \* connections that may exist at once
    Foreign,      \* frames a peer of another make may send
    MaxFaults     \* bound: breaks, slow ticks, resets and foreign frames

Speakers == DOMAIN Config
Other(p) == CHOOSE q \in Speakers : q # p
None == -1

VARIABLES
    session,   \* speaker -> its Session
    tcp,       \* slot -> [by, end, inbox]
    believed,  \* the last notification's dispositions: sender's and receiver's
    faults
vars == <<session, tcp, believed, faults>>
------------------------------------------------------------------------------
(* OPEN: validate_peer and negotiate. *)

Refused(local, peer, asn) ==
    \/ asn # 0 /\ peer.asn # asn
    \/ peer.id \in {0, local.id}
    \/ peer.hold \in {1, 2} \/ local.hold \in {1, 2}
    \/ local.families \cap peer.families = {}
Smaller(a, b) == IF a < b THEN a ELSE b
\* Graceful restart, and for notifications too, needs both sides.
Graceful(local, peer) ==
    [gr |-> "gr" \in local.caps \cap peer.caps,
     notifications |-> {"gr", "N"} \subseteq local.caps \cap peer.caps]
Negotiated(local, peer) ==
    [hold |-> Smaller(local.hold, peer.hold),
     families |-> local.families \cap peer.families,
     gr |-> Graceful(local, peer).gr,
     notifications |-> Graceful(local, peer).notifications]
NotYet == [hold |-> 0, families |-> {}, gr |-> FALSE, notifications |-> FALSE]

\* A negotiated hold time of 0 sets no timer; keepalives go out three to a
\* hold time.
HoldDelay(n) == IF n.hold = 0 THEN None ELSE Hold
KeepaliveDelay(n) == IF n.hold = 0 THEN None ELSE Hold \div 3
------------------------------------------------------------------------------
(* A Session: x.s is its state, x.out the actions it has returned.         *)

Clear(s) == [s EXCEPT !.retry = None, !.hold = None, !.keepalive = None, !.idle = None]
Send(c, frame) == [do |-> "send", on |-> c, frame |-> frame]
Frame(kind) == [kind |-> kind, code |-> 0, subcode |-> 0, close |-> "-"]
Close(c) == [do |-> "close", on |-> c, frame |-> Frame("-")]
Connect(c) == [do |-> "connect", on |-> c, frame |-> Frame("-")]

\* connect: a new generation in slot c.
Connects(p, x, c, delay) ==
    [s |-> [Clear(x.s) EXCEPT !.state = IF Config[p].passive THEN "Active" ELSE "Connect",
                              !.conn = IF Config[p].passive THEN 0 ELSE c,
                              !.retry = delay],
     out |-> x.out \o (IF Config[p].passive THEN <<>> ELSE <<Connect(c)>>)]

Note(code, subcode) == [kind |-> "notification", code |-> code, subcode |-> subcode]
Quiet == Note(0, 0)
Hard(n) == n.code = 6 /\ n.subcode \in {2, 3, 4, 9}
NeverWrapped(n, both) == n
\* hard_reset: the cause travels inside Cease/9 when both sides know it.
Wrapped(n, both) == IF Hard(n) /\ both THEN Note(6, 9) ELSE n

\* reset_notification: what the peer may keep of the exports, the
\* notification, the close, and Idle for a while.
Reset(x, n) ==
    LET neg == x.s.negotiated
        retain == neg.gr /\ ~Hard(n) /\ (n = Quiet \/ neg.notifications)
        close == IF retain THEN "PeerMayRetainExports" ELSE "Hard"
        w == Wrapped(n, neg.notifications)
        frame == [kind |-> "notification", code |-> w.code, subcode |-> w.subcode,
                  close |-> IF x.s.state = "Established" THEN close ELSE "-"]
    IN [s |-> [Clear(x.s) EXCEPT !.state = "Idle", !.conn = 0, !.negotiated = NotYet,
                                 !.close = close,
                                 !.idle = IF x.s.running THEN IdleDelay ELSE None],
        out |-> x.out \o (IF n = Quiet THEN <<>> ELSE <<Send(x.s.conn, frame)>>)
                      \o <<Close(x.s.conn)>>]

\* advance: what is due.  A hold timer wins over everything else.
Advance(p, x, c, delay) ==
    IF x.s.hold = 0 THEN Reset(x, Note(4, 0))
    ELSE LET y == IF x.s.idle = 0 THEN Connects(p, x, c, delay)
                  ELSE IF x.s.retry = 0 /\ x.s.state \in {"Connect", "Active"}
                  THEN Connects(p, [x EXCEPT !.out = Append(@, Close(x.s.conn))], c, delay)
                  ELSE x
         IN IF y.s.keepalive = 0 /\ y.s.state \in {"OpenConfirm", "Established"}
            THEN [s |-> [y.s EXCEPT !.keepalive = KeepaliveDelay(y.s.negotiated)],
                  out |-> Append(y.out, Send(y.s.conn, Frame("keepalive")))]
            ELSE y

Export(x) == [x EXCEPT !.out = Append(@, Send(x.s.conn, Frame("update")))]

\* message: a frame of this generation.
Message(p, x, f) ==
    LET s == x.s
        n == s.negotiated
        held == [s EXCEPT !.hold = HoldDelay(n)]
        peer == Config[Other(p)].open
    IN IF s.state \notin {"OpenSent", "OpenConfirm", "Established"} THEN x
       ELSE IF f.kind = "malformed" THEN Reset(x, Note(1, 2))
       ELSE IF f.kind = "notification"
       THEN LET y == Reset(x, Quiet)
                graceful == n.notifications /\ ~(f.code = 6 /\ f.subcode = 9)
            IN IF graceful THEN y ELSE [y EXCEPT !.s.close = "Hard"]
       ELSE IF s.state = "OpenSent" /\ f.kind = "open"
       THEN IF Refused(Config[p].open, peer, Config[p].peerAsn)
            THEN Reset(x, Note(2, 2))
            ELSE LET m == Negotiated(Config[p].open, peer)
                 IN [s |-> [Clear(s) EXCEPT !.state = "OpenConfirm", !.negotiated = m,
                                            !.hold = HoldDelay(m),
                                            !.keepalive = KeepaliveDelay(m)],
                     out |-> Append(x.out, Send(s.conn, Frame("keepalive")))]
       ELSE IF s.state = "OpenConfirm" /\ f.kind = "keepalive"
       THEN Export([x EXCEPT !.s = [held EXCEPT !.state = "Established"]])
       ELSE IF s.state = "Established" /\ f.kind \in {"keepalive", "update"}
       THEN [x EXCEPT !.s = held]
       ELSE IF s.state = "Established" /\ f.kind = "malformed update"
       THEN IF Config[p].strict THEN Reset(x, Note(3, 1)) ELSE x
       ELSE IF s.state = "Established" /\ f.kind = "refresh" THEN Export(x)
       ELSE Reset(x, Note(5, 1))

\* process: TcpEstablished on connection c.
Established(p, x, c, inbound) ==
    LET s == x.s
        current == inbound \/ s.conn = c
    IN IF \/ ~current \/ ~s.running \/ s.idle # None
          \/ inbound /\ ~Config[p].listen
          \/ s.state \in {"OpenSent", "OpenConfirm", "Established"}
          \/ ~inbound /\ (Config[p].passive \/ s.state = "Idle")
       THEN [x EXCEPT !.out = Append(@, Close(c))]       \* DropConnection
       ELSE [s |-> [Clear(s) EXCEPT !.state = "OpenSent", !.hold = OpenHold, !.conn = c],
             out |-> Append(x.out, Send(c, Frame("open")))]

LostForGood(x, c, delay) ==
    IF x.s.conn # c THEN x
    ELSE IF x.s.state \in {"OpenConfirm", "Established"} THEN Reset(x, Quiet)
    ELSE [x EXCEPT !.s = [Clear(x.s) EXCEPT !.state = "Active", !.conn = 0]]
\* process: TcpFailed and TcpClosed.
Lost(x, c, delay) ==
    LET s == x.s
    IN IF s.conn # c THEN x
       ELSE IF s.state \in {"OpenConfirm", "Established"} THEN Reset(x, Quiet)
       ELSE IF s.state = "OpenSent"
       THEN [x EXCEPT !.s = [Clear(s) EXCEPT !.state = "Active", !.conn = 0, !.retry = delay]]
       ELSE IF s.state \in {"Connect", "Active"}
       THEN [x EXCEPT !.s = [s EXCEPT !.state = "Active", !.conn = 0, !.retry = delay]]
       ELSE x

Start(p, x, c, delay) ==
    LET y == [x EXCEPT !.s.running = TRUE]
    IN IF y.s.state = "Idle" /\ y.s.idle = None THEN Connects(p, y, c, delay) ELSE y
Shutdown(p, x) ==
    Reset([x EXCEPT !.s.running = FALSE], IF Config[p].graceful THEN Quiet ELSE Note(6, 2))
------------------------------------------------------------------------------
(* The transport. *)

Gone == [by |-> "-", end |-> [p \in Speakers |-> "closed"],
         inbox |-> [p \in Speakers |-> <<>>]]
Free == {c \in Slots : \A p \in Speakers : tcp[c].end[p] = "closed"}

\* One action of speaker p on the connections t.
Run(p, t, a) ==
    IF a.do = "connect"
    THEN [t EXCEPT ![a.on] = [Gone EXCEPT !.by = p, !.end = [q \in Speakers |-> "wait"]]]
    ELSE IF a.on = 0 THEN t
    ELSE IF a.do = "close" THEN [t EXCEPT ![a.on].end[p] = "closed",
                                          ![a.on].inbox[p] = <<>>]
    ELSE IF t[a.on].end[Other(p)] = "closed" THEN t
    ELSE [t EXCEPT ![a.on].inbox[Other(p)] = Append(@, a.frame)]
RunAll(p, t, out) ==
    LET after[n \in 0..Len(out)] == IF n = 0 THEN t ELSE Run(p, after[n - 1], out[n])
    IN after[Len(out)]

\* poll and handle: what is due, then the event (Then, on the result), on
\* connections t.
Step(p, t, Then(_, _, _)) ==
    \E delay \in RetryDelays : \E c \in {IF Free = {} THEN 0 ELSE CHOOSE c \in Free : TRUE} :
        \E y \in {Then(Advance(p, [s |-> session[p], out |-> <<>>], c, delay), c, delay)} :
            /\ Connect(0) \notin {y.out[n] : n \in DOMAIN y.out}
            /\ session' = [session EXCEPT ![p] = y.s]
            /\ tcp' = RunAll(p, t, y.out)

Due(p) == LET s == session[p] IN 0 \in {s.hold, s.keepalive, s.idle, s.retry}
Poll(p) ==
    /\ Due(p)
    /\ Step(p, tcp, LAMBDA x, c, d : x)
    /\ UNCHANGED <<believed, faults>>
Deliver(p, i) ==
    /\ tcp[i].end[p] = "open" /\ tcp[i].inbox[p] # <<>>
    /\ LET f == Head(tcp[i].inbox[p])
           was == session[p].state
       IN /\ Step(p, [tcp EXCEPT ![i].inbox[p] = Tail(@)],
                  LAMBDA x, c, d : IF x.s.conn = i THEN Message(p, x, f) ELSE x)
          /\ believed' = IF /\ f.kind = "notification" /\ f.close # "-"
                            /\ was = "Established" /\ session[p].hold # 0
                         THEN {f.close, session'[p].close} ELSE {}
    /\ UNCHANGED faults
Up(p, i) ==
    /\ tcp[i].end[p] = "wait" /\ tcp[i].end[Other(p)] # "closed"
    /\ Step(p, [tcp EXCEPT ![i].end[p] = "open"],
            LAMBDA x, c, d : Established(p, x, i, tcp[i].by # p))
    /\ UNCHANGED <<believed, faults>>
\* The other end is closed and everything it sent has been read.
Closed(p, i) ==
    /\ tcp[i].end[p] # "closed" /\ tcp[i].end[Other(p)] = "closed"
    /\ tcp[i].inbox[p] = <<>>
    /\ Step(p, [tcp EXCEPT ![i].end[p] = "closed"], LAMBDA x, c, d : Lost(x, i, d))
    /\ UNCHANGED <<believed, faults>>
\* A speaker that closed while the peer had not accepted yet.
Unaccepted(p, i) ==
    /\ tcp[i].end[p] = "wait" /\ tcp[i].end[Other(p)] = "closed" /\ tcp[i].inbox[p] # <<>>
    /\ tcp' = [tcp EXCEPT ![i] = Gone]
    /\ UNCHANGED <<session, believed, faults>>

Fault == faults < MaxFaults /\ faults' = faults + 1
\* The connection breaks under one end; what was in flight to it is lost.
Break(p, i) ==
    /\ Fault /\ tcp[i].end[p] # "closed"
    /\ Step(p, [tcp EXCEPT ![i].end[p] = "closed", ![i].inbox[p] = <<>>],
            LAMBDA x, c, d : Lost(x, i, d))
    /\ UNCHANGED believed
\* An operator resets or restarts the session; a peer of another make sends
\* what this one would not.
HardReset(p) ==
    /\ Fault /\ Step(p, tcp, LAMBDA x, c, d : Reset(x, Note(6, 4)))
    /\ UNCHANGED believed
SoftReset(p) ==
    /\ Fault /\ session[p].state = "Established"
    /\ Step(p, tcp, LAMBDA x, c, d : IF x.s.state = "Established" THEN Export(x) ELSE x)
    /\ UNCHANGED believed
Stop(p) ==
    /\ Fault /\ session[p].running
    /\ Step(p, tcp, LAMBDA x, c, d : Shutdown(p, x))
    /\ UNCHANGED believed
Begin(p) ==
    /\ ~session[p].running
    /\ Step(p, tcp, LAMBDA x, c, d : Start(p, x, c, d))
    /\ UNCHANGED <<believed, faults>>
Strange(p, i) ==
    /\ Fault /\ tcp[i].end[p] = "open" /\ tcp[i].end[Other(p)] = "open"
    /\ \E kind \in Foreign : tcp' = [tcp EXCEPT ![i].inbox[p] = Append(@, Frame(kind))]
    /\ UNCHANGED <<session, believed>>

\* Time passes once everything due and delivered is handled; a slow tick
\* does not wait for that.
Idle == \A p \in Speakers :
           /\ session[p].running /\ ~Due(p)
           /\ \A i \in Slots : tcp[i].inbox[p] = <<>>
                 /\ (tcp[i].end[p] # "closed" => tcp[i].end[p] = "open"
                                                 /\ tcp[i].end[Other(p)] # "closed")
Less(t) == IF t > 0 THEN t - 1 ELSE t
Tick ==
    /\ (Idle /\ UNCHANGED faults) \/ Fault
    /\ session' = [p \in Speakers |->
                     [session[p] EXCEPT !.retry = Less(@), !.hold = Less(@),
                                        !.keepalive = Less(@), !.idle = Less(@)]]
    /\ UNCHANGED <<tcp, believed>>
------------------------------------------------------------------------------
Init ==
    /\ session = [p \in Speakers |->
                    [state |-> "Idle", retry |-> None, hold |-> None, keepalive |-> None,
                     idle |-> None, negotiated |-> NotYet, running |-> FALSE,
                     close |-> "Hard", conn |-> 0]]
    /\ tcp = [c \in Slots |-> Gone]
    /\ believed = {} /\ faults = 0

Works == \/ \E p \in Speakers : Poll(p) \/ Begin(p)
         \/ \E p \in Speakers, i \in Slots :
              Deliver(p, i) \/ Up(p, i) \/ Closed(p, i) \/ Unaccepted(p, i)
Faults == \/ \E p \in Speakers : HardReset(p) \/ SoftReset(p) \/ Stop(p)
          \/ \E p \in Speakers, i \in Slots : Break(p, i) \/ Strange(p, i)
Next == Works \/ Faults \/ Tick
------------------------------------------------------------------------------
\* Both ends of an established session judge its end the same way: the side
\* that notified and the side that was told agree on whether exports may be
\* kept (reset_notification, permits_graceful_restart).
DispositionsAgree == Cardinality(believed) <= 1

\* However the connection broke, frames came late or an operator interfered,
\* the session comes up again and stays up.
AllUp == \A p \in Speakers : session[p].state = "Established"
SessionUp == <>[]AllUp
==============================================================================
