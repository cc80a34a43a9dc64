----------------------------- MODULE ProxyBarrier -----------------------------
(***************************************************************************)
(* The proxy's acknowledgement barrier (flowsdn-proxy ack.rs): one         *)
(* regeneration attempt of an endpoint may publish its policy only once    *)
(* the proxy has acknowledged every resource type it waits for.            *)
(*                                                                         *)
(* The proxy and the stream are the environment: responses and answers     *)
(* travel in order per connection and type, an answer of an old connection *)
(* may still be observed after a reconnect, and the proxy that accepted a  *)
(* version may be restarted without it.                                    *)
(***************************************************************************)
EXTENDS Integers, Sequences, FiniteSets

CONSTANTS
    Kinds, Required,   \* the resource types and the version each must reach
    MaxVersion,        \* bound: versions sent
    Deadline,          \* tick of the deadline
    MaxEpoch           \* bound: reconnects

VARIABLES
    state, epoch, sent, acked,   \* Barrier
    now,                         \* the caller's clock
    proxy,     \* kind -> the version the proxy runs on its current connection
    toProxy,   \* responses under way: sequence of [epoch, kind, version]
    answers,   \* observations under way: set of Observation
    running    \* ghost: what the proxy ran when the permit was given
barrier == <<state, epoch, sent, acked>>
vars == <<barrier, now, proxy, toProxy, answers, running>>

Live == state \in {"Pending", "Ready"}
\* live: a terminal barrier refuses; one past its deadline times out.
Late == Live /\ now >= Deadline
TimeOut == Late /\ state' = "TimedOut" /\ UNCHANGED <<epoch, sent, acked>>

\* sent: a response of the current stream, newer than the last of its type.
Sent(k, v) ==
    /\ Live
    /\ \/ TimeOut /\ UNCHANGED toProxy
       \/ /\ ~Late /\ v >= Required[k] /\ v > sent[k]
          /\ sent' = [sent EXCEPT ![k] = v] /\ acked' = acked \ {k} /\ state' = "Pending"
          /\ toProxy' = Append(toProxy, [epoch |-> epoch, kind |-> k, version |-> v])
          /\ UNCHANGED epoch
    /\ UNCHANGED <<now, proxy, answers, running>>

StaleEpochAccepted(o) == sent[o.kind] = o.nonce
\* observe: an answer counts for the response it names on this connection.
Current(o) == o.epoch = epoch /\ sent[o.kind] = o.nonce
Observe(o) ==
    /\ Live /\ o \in answers
    /\ \/ TimeOut
       \/ ~Late /\ ~Current(o) /\ UNCHANGED barrier
       \/ /\ ~Late /\ Current(o) /\ (o.nack \/ o.version # o.nonce)
          /\ state' = "Rejected" /\ UNCHANGED <<epoch, sent, acked>>
       \/ /\ ~Late /\ Current(o) /\ ~o.nack /\ o.version = o.nonce
          /\ acked' = acked \cup {o.kind}
          /\ state' = IF acked' = Kinds THEN "Ready" ELSE state
          /\ UNCHANGED <<epoch, sent>>
    /\ answers' = answers \ {o}
    /\ UNCHANGED <<now, proxy, toProxy, running>>

ReconnectKeepingAcks ==
    /\ Live /\ epoch < MaxEpoch /\ ~Late
    /\ epoch' = epoch + 1 /\ sent' = [k \in Kinds |-> 0] /\ UNCHANGED <<state, acked>>
    /\ proxy' = [k \in Kinds |-> 0] /\ UNCHANGED <<now, toProxy, answers, running>>
\* reconnect: the proxy is back without what it had; nothing it acknowledged
\* on the old connection counts.
Reconnect ==
    /\ Live /\ epoch < MaxEpoch
    /\ \/ TimeOut /\ UNCHANGED proxy
       \/ /\ ~Late /\ epoch' = epoch + 1 /\ sent' = [k \in Kinds |-> 0] /\ acked' = {}
          /\ state' = "Pending" /\ proxy' = [k \in Kinds |-> 0]
    /\ UNCHANGED <<now, toProxy, answers, running>>

Cancel ==
    /\ Live /\ state' = "Cancelled"
    /\ UNCHANGED <<epoch, sent, acked, now, proxy, toProxy, answers, running>>
Commit ==
    /\ Live
    /\ \/ TimeOut /\ UNCHANGED running
       \/ ~Late /\ state = "Ready" /\ state' = "Committed" /\ running' = proxy
          /\ UNCHANGED <<epoch, sent, acked>>
    /\ UNCHANGED <<now, proxy, toProxy, answers>>

\* The proxy takes the next response: it runs it and says so, or refuses it.
\* A response of an old connection is answered there, and runs no more.
Proxy ==
    /\ toProxy # <<>> /\ toProxy' = Tail(toProxy)
    /\ LET r == Head(toProxy) IN
       \E nack \in BOOLEAN :
         /\ answers' = answers \cup
              {[epoch |-> r.epoch, kind |-> r.kind, nonce |-> r.version, nack |-> nack,
                version |-> IF nack THEN proxy[r.kind] ELSE r.version]}
         /\ proxy' = IF nack \/ r.epoch # epoch THEN proxy ELSE [proxy EXCEPT ![r.kind] = r.version]
    /\ UNCHANGED <<barrier, now, running>>
Tick == now < Deadline /\ now' = now + 1
        /\ UNCHANGED <<barrier, proxy, toProxy, answers, running>>

Init ==
    /\ state = "Pending" /\ epoch = 0 /\ sent = [k \in Kinds |-> 0] /\ acked = {}
    /\ now = 0 /\ proxy = [k \in Kinds |-> 0] /\ toProxy = <<>> /\ answers = {}
    /\ running = [k \in Kinds |-> 0]
Next ==
    \/ \E k \in Kinds, v \in 1..MaxVersion : Sent(k, v)
    \/ \E o \in answers : Observe(o)
    \/ Reconnect \/ Cancel \/ Commit \/ Proxy \/ Tick
------------------------------------------------------------------------------
\* A commit permit is given only for what the proxy really runs: when commit
\* returned it, the proxy on the other end ran, for every type, the version
\* last sent, and at least the one the attempt requires - with late answers of
\* old connections, reordered answers and re-sent types on the way.
CommitIsRunning ==
    state = "Committed" => \A k \in Kinds : running[k] = sent[k] /\ running[k] >= Required[k]
==============================================================================
