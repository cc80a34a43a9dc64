------------------------------- MODULE BgpRib -------------------------------
(***************************************************************************)
(* What one BGP speaker originates and what the other observes             *)
(* (flowsdn-bgp-proto): LocalRib and its path handles, Export, which packs *)
(* prefixes into UPDATEs of bounded size (encode_update.rs), validation on *)
(* receipt (update.rs) and the capped ObservedRib (rib.rs).  A prefix is a *)
(* name with the size of its encoding; an UPDATE is its attributes, its    *)
(* prefixes and its size.                                                  *)
(***************************************************************************)
EXTENDS Integers, Sequences, SequencesExt, FiniteSets

CONSTANTS
    Size,         \* prefix -> bytes of its NLRI
    FamilyOf,     \* prefix -> 4 or 6
    Exporter,     \* [family, hop, external, four, wide, asns]: Export, hop the next hop's family
    Limit,        \* bytes of an UPDATE body (4077)
    WithdrawLimit,\* bytes of withdrawn prefixes in one UPDATE (4000)
    Short,        \* the longest attribute with a one-byte length (255)
    Segment,      \* ASNs of one AS_PATH segment (255)
    Cap,          \* what ObservedRib keeps
    Lenient,      \* ~strict_update_errors
    Foreign,      \* broken UPDATEs a peer of another make may send
    MaxEvents     \* bound: advertisements, withdrawals and foreign UPDATEs

Nets == DOMAIN Size

VARIABLES
    handles,   \* LocalRib: prefix -> its incarnation, for those advertised
    held,      \* path handles given out: <<prefix, incarnation>>
    wire,      \* UPDATEs on their way
    observed,  \* ObservedRib
    overflow,  \* overflow_reported
    up,
    unsent,    \* prefixes whose export to this session was an error
    events
vars == <<handles, held, wire, observed, overflow, up, unsent, events>>
------------------------------------------------------------------------------
Codes(u) == {u.attrs[n].code : n \in DOMAIN u.attrs}
\* validate_inner: the length of every attribute before the content of any;
\* no attribute twice; the mandatory ones with an announcement.
Validate(u) ==
    IF u.size > Limit THEN "Framing"
    ELSE IF \E n \in DOMAIN u.attrs : ~u.attrs[n].whole THEN "AttributeStructure"
    ELSE IF \/ Cardinality(Codes(u)) < Len(u.attrs)
            \/ \E n \in DOMAIN u.attrs : ~u.attrs[n].valid
            \/ u.announced \o u.mpAnnounced # <<>> /\ ~({1, 2} \subseteq Codes(u))
            \/ u.announced # <<>> /\ 3 \notin Codes(u)
    THEN "UpdateContent" ELSE "ok"

------------------------------------------------------------------------------
(* Export. *)

Attribute(code, len) ==
    [code |-> code, len |-> len, whole |-> TRUE, valid |-> TRUE,
     size |-> len + (IF len > Short THEN 4 ELSE 3)]
SumSizes(as) ==
    LET sum[n \in 0..Len(as)] == IF n = 0 THEN 0 ELSE sum[n - 1] + as[n].size
    IN sum[Len(as)]
Nlri(ps) ==
    LET sum[n \in 0..Len(ps)] == IF n = 0 THEN 0 ELSE sum[n - 1] + Size[ps[n]]
    IN sum[Len(ps)]

\* path: segments of at most Segment numbers, each with a two-byte header.
Path(asns, width) == 2 * ((asns + Segment - 1) \div Segment) + asns * width

\* attributes: ORIGIN, AS_PATH, AS4_PATH, LOCAL_PREF and the IPv4 NEXT_HOP.
Attributes(e) ==
    LET asns == e.asns + (IF e.external THEN 1 ELSE 0)
    IN <<Attribute(1, 1), Attribute(2, Path(asns, IF e.four THEN 4 ELSE 2))>>
       \o (IF ~e.four /\ e.wide THEN <<Attribute(17, Path(asns, 4))>> ELSE <<>>)
       \o (IF e.external THEN <<>> ELSE <<Attribute(5, 4)>>)
       \o (IF e.hop = 4 THEN <<Attribute(3, 4)>> ELSE <<>>)

\* body: the prefixes follow the attributes, or travel in MP_REACH_NLRI.
Body(e, ps) ==
    LET legacy == e.family = 4 /\ e.hop = 4
        mp == IF legacy THEN <<>> ELSE <<Attribute(14, 21 + Nlri(ps))>>
        as == Attributes(e) \o mp
    IN [attrs |-> as, withdrawn |-> <<>>,
        announced |-> IF legacy THEN ps ELSE <<>>,
        mpAnnounced |-> IF legacy THEN <<>> ELSE ps,
        size |-> 4 + SumSizes(as) + (IF legacy THEN Nlri(ps) ELSE 0)]

\* The prefixes of each UPDATE: added until the body would be too large; the one that did
\* not fit starts the next.
Batches(e, ps) ==
    LET pack[n \in 0..Len(ps)] ==
            IF n = 0 THEN << <<>> >>
            ELSE LET batch == Append(Last(pack[n - 1]), ps[n])
                 IN IF Body(e, batch).size > Limit THEN Append(pack[n - 1], <<ps[n]>>)
                    ELSE Append(Front(pack[n - 1]), batch)
    IN pack[Len(ps)]

\* announcements: <<>> is an error, of the exporter (an IPv4 next hop for IPv6, attributes
\* that leave no room), of a prefix's family, or of a prefix that does not fit by itself.
Announcements(e, ps) ==
    LET batches == Batches(e, ps)
        full == SelectSeq(batches, LAMBDA b : b # <<>>)
        updates == [n \in DOMAIN full |-> Body(e, full[n])]
    IN IF \/ e.hop = 4 /\ e.family = 6
          \/ Body(e, <<>>).size > Limit
          \/ \E n \in DOMAIN ps : FamilyOf[ps[n]] # e.family
          \/ ps # <<>> /\ Head(batches) = <<>>
          \/ \E n \in DOMAIN updates : Validate(updates[n]) # "ok"
       THEN <<>> ELSE <<updates>>

\* withdraw_body: IPv4 prefixes in the UPDATE's own field, whatever announced them.
WithdrawBody(family, ps) ==
    LET as == IF family = 4 THEN <<>> ELSE <<Attribute(15, 3 + Nlri(ps))>>
    IN [attrs |-> as, withdrawn |-> ps, announced |-> <<>>, mpAnnounced |-> <<>>,
        size |-> 4 + SumSizes(as) + (IF family = 4 THEN Nlri(ps) ELSE 0)]
\* withdrawals: <<>> is an error.
Withdrawals(family, ps) ==
    LET pack[n \in 0..Len(ps)] ==
            IF n = 0 THEN << <<>> >>
            ELSE LET batch == Append(Last(pack[n - 1]), ps[n])
                 IN IF Nlri(batch) > WithdrawLimit THEN Append(pack[n - 1], <<ps[n]>>)
                    ELSE Append(Front(pack[n - 1]), batch)
        batches == pack[Len(ps)]
        updates == [n \in DOMAIN batches |-> WithdrawBody(family, batches[n])]
    IN IF \/ \E n \in DOMAIN ps : FamilyOf[ps[n]] # family
          \/ \E n \in DOMAIN updates : Validate(updates[n]) # "ok"
       THEN <<>> ELSE <<updates>>
------------------------------------------------------------------------------
(* Receipt. *)

\* observe: withdrawals, then the announcements there is room for.
Observe(rib, u) ==
    LET ps == u.announced \o u.mpAnnounced
        add[n \in 0..Len(ps)] ==
            IF n = 0 THEN [rib |-> rib \ ToSet(u.withdrawn), full |-> FALSE]
            ELSE LET x == add[n - 1]
                 IN IF ps[n] \in x.rib THEN x
                    ELSE IF Cardinality(x.rib) < Cap THEN [x EXCEPT !.rib = @ \cup {ps[n]}]
                    ELSE [x EXCEPT !.full = TRUE]
    IN add[Len(ps)]
------------------------------------------------------------------------------
Event == events < MaxEvents /\ events' = events + 1
Local == DOMAIN handles
InOrder(S) == SetToSeq(S)
\* The transport sends what an export gives, and nothing when it is an error.
Sends(result) == wire' = wire \o (IF up /\ result # <<>> THEN result[1] ELSE <<>>)
All == Announcements(Exporter, InOrder(Local))

\* advertise: a new incarnation unless the prefix is advertised already.
Advertise(p) ==
    /\ Event
    /\ handles' = IF p \in Local THEN handles
                  ELSE [q \in Local \cup {p} |-> IF q = p THEN events ELSE handles[q]]
    /\ held' = held \cup {<<p, handles'[p]>>}
    /\ LET result == IF p \in Local THEN << <<>> >> ELSE Announcements(Exporter, <<p>>)
       IN Sends(result) /\ unsent' = unsent \cup (IF result = <<>> THEN {p} ELSE {})
    /\ UNCHANGED <<observed, overflow, up>>
\* withdraw: only by a handle of the present incarnation.
Withdraw(h) ==
    /\ Event /\ held' = held \ {h}
    /\ LET live == h[1] \in Local /\ handles[h[1]] = h[2]
       IN /\ handles' = IF live THEN [q \in Local \ {h[1]} |-> handles[q]] ELSE handles
          /\ Sends(IF live THEN Withdrawals(Exporter.family, <<h[1]>>) ELSE << <<>> >>)
          /\ unsent' = IF live THEN unsent \ {h[1]} ELSE unsent
    /\ UNCHANGED <<observed, overflow, up>>
\* Action::Export of a new session or a refresh: everything, after what the
\* new session did not see is withdrawn with its RIB.
ExportAll ==
    /\ ~up /\ up' = TRUE
    /\ wire' = IF All = <<>> THEN <<>> ELSE All[1]
    /\ unsent' = IF All = <<>> THEN Local ELSE {}
    /\ observed' = {} /\ overflow' = FALSE
    /\ UNCHANGED <<handles, held, events>>
Refresh ==
    /\ up /\ Event
    /\ Sends(All)
    /\ unsent' = IF All = <<>> THEN unsent ELSE {}
    /\ UNCHANGED <<handles, held, observed, overflow, up>>
Strange ==
    /\ up /\ Event /\ \E u \in Foreign : wire' = Append(wire, u)
    /\ UNCHANGED <<handles, held, observed, overflow, up, unsent>>
\* An UPDATE is read: observed, left out, or the end of the session.
Receive ==
    /\ wire # <<>>
    /\ LET u == Head(wire)
           v == Validate(u)
           seen == Observe(observed, u)
       IN IF v = "ok"
          THEN /\ wire' = Tail(wire) /\ observed' = seen.rib
               /\ overflow' = (overflow \/ seen.full) /\ UNCHANGED up
          ELSE IF v = "UpdateContent" /\ Lenient
          THEN wire' = Tail(wire) /\ UNCHANGED <<observed, overflow, up>>
          ELSE wire' = <<>> /\ up' = FALSE /\ UNCHANGED <<observed, overflow>>
    /\ UNCHANGED <<handles, held, unsent, events>>

Init ==
    /\ handles = <<>> /\ held = {} /\ wire = <<>> /\ observed = {} /\ overflow = FALSE
    /\ up = FALSE /\ unsent = {} /\ events = 0
Next ==
    \/ \E p \in Nets : Advertise(p)
    \/ \E h \in held : Withdraw(h)
    \/ ExportAll \/ Refresh \/ Strange \/ Receive
------------------------------------------------------------------------------
\* When nothing is on its way the peer observes exactly what is originated
\* here: no prefix is lost between two UPDATEs, none is left behind, nothing
\* from a broken UPDATE is observed; over the cap it observes a part and says so.  What the
\* export failed for is missing, and an error of one prefix fails an export of all of them.
RibMirrored ==
    up /\ wire = <<>> =>
        /\ observed \subseteq Local
        /\ ~overflow => observed = Local \ unsent
==============================================================================
