------------------------------ MODULE MCParts -------------------------------
(* The parts of the system that share no state with the others, for TLC: a  *)
(* behaviour is of one part, whose variables are the first of x1 .. x15.     *)
EXTENDS Integers, Sequences, FiniteSets, TLC

VARIABLES part, x1, x2, x3, x4, x5, x6, x7, x8, x9, x10, x11, x12, x13, x14, x15

------------------------------------------------------------------------------
\* Two speakers of one AS, one of them listening; both may restart gracefully.
Speaker(id, passive) ==
    [passive |-> passive, listen |-> passive, peerAsn |-> 65000,
     graceful |-> FALSE, strict |-> passive,
     open |-> [asn |-> 65000, id |-> id, hold |-> 9, families |-> {4}, caps |-> {"gr", "N"}]]
Session == INSTANCE BgpSession WITH
    Config <- [a |-> Speaker(1, FALSE), b |-> Speaker(2, TRUE)],
    Hold <- 3, RetryDelays <- {1, 2}, IdleDelay <- 1, OpenHold <- 4, Slots <- {1, 2, 3},
    Foreign <- {"malformed update", "malformed", "refresh"}, MaxFaults <- 2,
    session <- x1, tcp <- x2, believed <- x3, faults <- x4

\* IPv4 prefixes over an IPv6 next hop that do not fit into one UPDATE together, one that
\* fits into none, one of IPv6, and a peer that keeps two.
Attr(code, whole) == [code |-> code, len |-> 1, whole |-> whole, valid |-> TRUE, size |-> 4]
Update(attrs) ==
    [attrs |-> attrs, withdrawn |-> <<>>, announced |-> <<"p9">>, mpAnnounced |-> <<>>, size |-> 20]
Rib == INSTANCE BgpRib WITH
    Size <- [p1 |-> 4, p2 |-> 5, p3 |-> 2, p4 |-> 11, p5 |-> 3],
    FamilyOf <- [p1 |-> 4, p2 |-> 4, p3 |-> 4, p4 |-> 4, p5 |-> 6],
    Exporter <- [family |-> 4, hop |-> 6, external |-> TRUE, four |-> FALSE, wide |-> TRUE, asns |-> 2],
    Limit <- 75, WithdrawLimit <- 12, Short <- 28, Segment <- 2, Cap <- 2, Lenient <- TRUE,
    Foreign <- {Update(<<Attr(1, TRUE), Attr(2, TRUE)>>),
                Update(<<Attr(1, TRUE), Attr(1, TRUE), Attr(2, FALSE)>>)},
    MaxEvents <- 5,
    handles <- x1, held <- x2, wire <- x3, observed <- x4, overflow <- x5, up <- x6, unsent <- x7, events <- x8

------------------------------------------------------------------------------
\* Two versions of the agent, the later of which lets cluster-id change.
Key(kind, d, class) == [kind |-> kind, default |-> d, class |-> class]
Word(w) == [t |-> "word", w |-> w]
Number(n) == [t |-> "number", n |-> n]
Items(s) == [t |-> "items", s |-> s]
Enum(of) == [t |-> "Enum", of |-> of]
UInt == [t |-> "UInt", max |-> 511]
Released ==
    "monitor-aggregation" :> Key(Enum({"none", "medium"}), Word("none"), "Active")
    @@ "devices" :> Key([t |-> "List"], Items(<<>>), "Active")
    @@ "cluster-id" :> Key(UInt, Number(0), "Immutable")
    @@ "max-connected-clusters" :> Key(UInt, Number(255), "Immutable")
    @@ "force-config-change" :> Key([t |-> "Bool"], Word("no"), "Active")
    @@ "identity-allocation-mode" :> Key(Enum({"crd", "kvstore"}), Word("crd"), "Active")
    @@ "kvstore" :> Key([t |-> "String"], Word(""), "Active")
    @@ "strict-config" :> Key([t |-> "Bool"], Word("off"), "Active")
Later == [Released EXCEPT !["cluster-id"].class = "Active"]

\* Sources that disagree, an alias beside its key, a forced change, and two
\* configurations that foundation refuses.
Sources(file, dir, env, legacy, flags) ==
    [file |-> file, dir |-> dir, env |-> env, legacy |-> legacy, flags |-> flags]
Worlds ==
    {Sources(<<<<"devices", Items(<<"eth0">>)>>>>,
             "cluster-id" :> Number(1) @@ "..data" :> [t |-> "skipped"], <<>>, "LEGACY" :> Number(2),
             << <<"devices", Items(<<"eth1">>)>>, <<"devices", Items(<<"eth2">>)>> >>),
     Sources(<<<<"monitor-aggregation", Word("medium")>>>>, "cluster-id" :> Number(1),
             "cluster-id" :> Number(3), "LEGACY" :> Number(2),
             <<<<"monitor-aggregation-level", Word("none")>>>>),
     Sources(<<>>, <<>>, "monitor-aggregation-level" :> Word("medium") @@ "later" :> Word("x"),
             <<>>, << <<"cluster-id", Number(1)>>, <<"force-config-change", Word("yes")>> >>),
     Sources(<<>>, <<>>, <<>>, <<>>, << <<"cluster-id", Number(400)>> >>),
     Sources(<<>>, <<>>, <<>>, <<>>, << <<"identity-allocation-mode", Word("kvstore")>> >>)}
Settings == INSTANCE Settings WITH
    Registries <- {Released, Later},
    Aliases <- [x \in {"monitor-aggregation-level"} |-> "monitor-aggregation"],
    Variables <- [x \in {"LEGACY"} |-> "cluster-id"],
    Worlds <- Worlds, MaxStarts <- 3,
    pc <- x1, registry <- x2, resolved <- x3, world <- x4, files <- x5, published <- x6,
    endpoints <- x7, last <- x8, unwritten <- x9, starts <- x10, when <- x11, slipped <- x12

------------------------------------------------------------------------------
\* A section whose background job is cancelled by a replay, a wait that
\* accepts what the job's own line does not; and more jobs than the limit.
Line(kind, status, conditional) == [kind |-> kind, status |-> status, conditional |-> conditional]
Ends == {[result |-> "ok", descendants |-> TRUE], [result |-> "Failure", descendants |-> FALSE],
         [result |-> "stolen", descendants |-> TRUE]}
Runner == INSTANCE Scripts WITH
    Script <- <<Line("background", "Success", FALSE), Line("section", "Success", FALSE),
                Line("background", "Failure", FALSE), Line("command", "SuccessRetry", TRUE),
                Line("wait", "SuccessOrFailure", FALSE)>>,
    Outcomes <- {"ok", "Failure", "stop", "Harness"}, ChildEnds <- Ends,
    Captures <- {"ok"}, MaxJobs <- 2, MaxReplays <- 1,
    at <- x1, position <- x2, sectionStart <- x3, checkpoint <- x4, retry <- x5, replays <- x6,
    jobs <- x7, failures <- x8, result <- x9, over <- x10, children <- x11
Crowd == INSTANCE Scripts WITH
    Script <- <<Line("exec", "Failure", FALSE), Line("background", "Success", FALSE),
                Line("background", "Success", FALSE)>>,
    Outcomes <- {"ok"}, ChildEnds <- Ends, Captures <- {"ok", "Limit"}, MaxJobs <- 1,
    MaxReplays <- 1,
    at <- x1, position <- x2, sectionStart <- x3, checkpoint <- x4, retry <- x5, replays <- x6,
    jobs <- x7, failures <- x8, result <- x9, over <- x10, children <- x11

------------------------------------------------------------------------------
\* A proxy that must reach version 2 of one type and version 1 of another.
Barrier == INSTANCE ProxyBarrier WITH
    Kinds <- {"listener", "policy"}, Required <- [listener |-> 2, policy |-> 1],
    MaxVersion <- 2, Deadline <- 1, MaxEpoch <- 1,
    state <- x1, epoch <- x2, sent <- x3, acked <- x4, now <- x5, proxy <- x6, toProxy <- x7,
    answers <- x8, running <- x9

\* A ring of three events whose sequence numbers wrap at 16, read or not; a
\* gate of one entry.
Ring == INSTANCE Observer WITH
    Mask <- 3, Width <- 16, MaxPushes <- 20, Keys <- {"k1", "k2"}, Interval <- 3, Second <- 2,
    Maximum <- 1, PerSecond <- 2, MaxNow <- 5, MaxTickets <- 3,
    part <- x1, slots <- x2, next <- x3, filled <- x4, reader <- x5, position <- x6,
    pushed <- x7, got <- x8, entries <- x9, attempts <- x10, sequence <- x11, tickets <- x12,
    admitted <- x13, now <- x14

------------------------------------------------------------------------------
\* Five installers of one peer, of which b and c replace, d only checks and e
\* has a broken bundle; two instances of one cluster claim its name.
Mesh == INSTANCE ClusterMesh WITH
    Installers <- {"a", "b", "c", "d", "e"}, Replaces <- {"b", "c"}, DryRuns <- {"d"},
    BadBundle <- {"e"}, Instances <- {"i1", "i2"}, MaxFaults <- 2, MaxRevision <- 4,
    part <- x1, pc <- x2, locked <- x3, target <- x4, durable <- x5, files <- x6, synced <- x7,
    published <- x8, owner <- x9, config <- x10, revision <- x11, seen <- x12, faults <- x13,
    home <- x14, lost <- x15

------------------------------------------------------------------------------
\* A PUT without a timeout beside a GET; or one request with too short, too
\* long, absent or mistaken framing.
Asked(m, l, b, f, h, t, u) ==
    [method |-> m, target |-> "other", length |-> l, body |-> b, flaw |-> f, head |-> h, tcp |-> t, unbounded |-> u]
To(target, request) == [request EXCEPT !.target = target]
NoCall == Asked("NONE", 0, 0, "none", 1, FALSE, FALSE)
Workloads ==
    {[a |-> Asked("PUT", 2, 2, "none", 1, FALSE, TRUE),
      b |-> Asked("GET", 0, 0, "none", 1, FALSE, FALSE)]}
    \cup {[a |-> r, b |-> NoCall] : r \in
            {Asked("PUT", n[1], n[2], "none", 1, FALSE, FALSE) :
                 n \in {<<2, 1>>, <<1, 2>>, <<-1, 1>>, <<4, 2>>, <<4, 4>>}}
            \cup {Asked("PUT", 1, 1, f, 1, FALSE, FALSE) : f \in {"version", "json", "none"}}
            \cup {To("endpoint", Asked("DELETE", n, 0, "none", 1, TRUE, FALSE)) : n \in {-1, 0}}
            \cup {To("query", Asked("POST", 1, 1, "none", 1, TRUE, FALSE)),
                  Asked("PUT", 2, 2, "none", 4, FALSE, FALSE)}}
Heading(status, length, chunked) ==
    [t |-> "head", status |-> status, length |-> length, chunked |-> chunked, twice |-> FALSE]
Body(n) == [i \in 1..n |-> [t |-> "b"]]
\* The agent's own framing; for a refusal also chunks and doubled framing.
Replies(status, n) ==
    {<<Heading(status, n, FALSE)>> \o Body(n)} \cup
    IF status # 400 THEN {} ELSE
    {<<Heading(100, -1, FALSE), Heading(status, -1, TRUE), [t |-> "size", n |-> n]>> \o Body(n) \o
        <<[t |-> "crlf"], [t |-> "size", n |-> 0], [t |-> "trailer", framing |-> FALSE]>>,
     <<Heading(status, n, TRUE)>> \o Body(n)}
Api == INSTANCE ApiWire WITH
    Calls <- {"a", "b"}, Workloads <- Workloads, Replies <- Replies, HeaderLimit <- 2,
    BodyLimit <- 3, Backlog <- 1, Room <- 3, Timeout <- 1, Budget <- 1, MaxCrashes <- 1,
    Request <- x1, client <- x2, up <- x3, backlog <- x4, crashes <- x5, agent <- x6,
    wire <- x7, open <- x8, done <- x9

------------------------------------------------------------------------------
\* Two Pods and the Node with one message each; room for one report, one entry.
Reports == INSTANCE Events WITH
    Keys <- {<<"node", "x">>, <<"p", "x">>, <<"q", "x">>}, Node <- "node",
    QUEUE <- 1, ENTRIES <- 1, REWRITE <- 1, FORGET <- 2, MaxReports <- 3, MaxFaults <- 1,
    queue <- x1, entries <- x2, uids <- x3, todo <- x4, pc <- x5, events <- x6, live <- x7,
    made <- x8, faults <- x9, taken <- x10, lost <- x11

\* Two programs, two maps and an upgrade that changes their layout.
Kernel == INSTANCE Loader WITH
    Programs <- <<"connect", "sendmsg">>, MapNames <- <<"services", "backends">>,
    Layouts <- {1, 2}, Interfaces <- {"eth0"}, MaxStarts <- 3, MaxFaults <- 2,
    maps <- x1, pinned <- x2, held <- x3, chain <- x4, uplinks <- x5, hosts <- x6, layout <- x7,
    pc <- x8, at <- x9, starts <- x10, faults <- x11, served <- x12, torn <- x13

------------------------------------------------------------------------------
\* Configurations with derived, assigned and static pools, and refused ones.
Net(family, net, size) == [family |-> family, net |-> net, size |-> size]
NoNet == Net("none", 0, 0)
Derived ==
    [socketPath |-> "s", stateDir |-> "d", http |-> "", egress |-> "", kubernetes |-> TRUE,
     settings |-> [nodeName |-> "", env1 |-> "n1", env2 |-> "n2", lbAlgorithm |-> "",
                   lbMode |-> "dsr", hostFirewall |-> "", flags |-> "true", cgroupRoot |-> "",
                   clusterName |-> "label"],
     pool |-> [ipv4 |-> "auto", ipv6 |-> ""], cidr |-> [ipv4 |-> NoNet, ipv6 |-> NoNet],
     gateway |-> [ipv4 |-> "", ipv6 |-> ""],
     router |-> [ipv4 |-> <<"none", 0>>, ipv6 |-> <<"none", 0>>],
     deviceMtu |-> 1500, routeMtu |-> 1450, idMax |-> 4095]
Static == [Derived EXCEPT !.kubernetes = FALSE, !.pool["ipv4"] = "cidr",
                          !.cidr["ipv4"] = Net("ipv4", 0, 8), !.gateway["ipv4"] = "ip",
                          !.router["ipv4"] = <<"ipv4", 2>>]
Configs ==
    {Derived, Static, [Derived EXCEPT !.pool["ipv6"] = "auto", !.gateway["ipv6"] = "auto"],
     [Static EXCEPT !.routeMtu = 1501], [Derived EXCEPT !.settings.lbMode = "bad"],
     [Derived EXCEPT !.kubernetes = FALSE],
     [Derived EXCEPT !.settings.env1 = "", !.settings.env2 = ""]}
Node(cidrs, ips) == <<[cidrs |-> cidrs, ips |-> ips]>>
Boot == INSTANCE Startup WITH
    Configs <- Configs,
    NodeObjects <- {<<>>, Node(<<>>, <<<<"ipv4", 5>>>>),
                    Node(<<Net("ipv4", 0, 8)>>, <<<<"ipv4", 5>>>>),
                    Node(<<Net("ipv4", 16, 2)>>, <<>>),
                    Node(<<Net("ipv6", 0, 4), Net("ipv6", 8, 4)>>, <<>>)},
    Derived4 <- [n \in {5} |-> Net("ipv4", 4, 4)],
    Derived6 <- [n \in {0, 4, 16} |-> Net("ipv6", 16 + n, 4)],
    Pods <- {"p1", "p2"}, MaxStarts <- 2, MaxEdits <- 2,
    config <- x1, node <- x2, phase <- x3, run <- x4, seen <- x5, records <- x6, links <- x7,
    starts <- x8, edits <- x9

------------------------------------------------------------------------------
\* Calls of the two plugins: chained after a previous result or first, with
\* the agent up, down or refusing, and calls that lack their namespace.
Ip(gateway, interface) ==
    [family |-> 4, gateway |-> gateway, interface |-> interface, address |-> "a4"]
Previous(ip) ==
    <<[version |-> "1.1.0", arrays |-> TRUE, dns |-> TRUE, routes |-> {}, ips |-> {ip},
       interfaces |-> <<[name |-> "eth0", sandbox |-> TRUE]>>]>>
Conf(type, version, prev) ==
    [json |-> TRUE, type |-> type, version |-> version, name |-> TRUE, chaining |-> FALSE,
     prev |-> prev]
Call(name, command, conf, agent, missing) ==
    [name |-> name, command |-> command, conf |-> conf, agent |-> agent,
     env |-> [missing |-> missing, ifname |-> TRUE, args |-> TRUE]]
PluginCalls ==
    {Call(n, "ADD", Conf("loopback", "1.1.0", p), "OK", {}) : n \in {"flowsdn-cni", "loopback"},
        p \in {<<>>} \cup {Previous(i) : i \in {Ip(4, 0), Ip(6, 0), Ip(0, 1)}}}
    \cup {Call("loopback", c, Conf("loopback", "1.1.0", <<>>), "OK", {}) :
             c \in {"CHECK", "DEL", "VERSION", "STATUS", "GC"}}
    \cup {Call("flowsdn-cni", c, Conf("flowsdn-cni", "1.1.0", Previous(Ip(4, 0))), a, {}) :
             c \in {"ADD", "DEL", "CHECK", "STATUS", "GC"}, a \in {"down", "OK", "Failure"}}
    \cup {Call("flowsdn-cni", c, Conf(t, "0.4.0", <<>>), "OK", {"CNI_NETNS"}) :
             c \in {"ADD", "DEL"}, t \in {"loopback", "flowsdn-cni"}}
\* Two runs of the installer; and one run with two calls.
Install == INSTANCE CniNode WITH
    Inputs <- PluginCalls, MaxRuns <- 2, MaxCalls <- 0,
    dir <- x1, temps <- x2, installer <- x3, runs <- x4, sandbox <- x5, added <- x6, told <- x7,
    calls <- x8
Plugins == INSTANCE CniNode WITH
    Inputs <- PluginCalls, MaxRuns <- 1, MaxCalls <- 2,
    dir <- x1, temps <- x2, installer <- x3, runs <- x4, sandbox <- x5, added <- x6, told <- x7,
    calls <- x8

------------------------------------------------------------------------------
\* Three waiters of the startup barrier, driven by two callers that may be dropped.
Barriers == INSTANCE Fence WITH
    Names <- {"n1", "n2", "n3"}, Callers <- {"c1", "c2"},
    sealed <- x1, waiters <- x2, result <- x3, future <- x4, starts <- x5, queue <- x6,
    pos <- x7, call <- x8

\* Four blocks of two addresses, and prefixes wider and narrower than a block.
Blocks == INSTANCE CidrSet WITH
    Width <- 5, Cluster <- [address |-> 8, bits |-> 2], NodeMask <- 4, MaxDiff <- 2,
    used <- x1, next <- x2, held <- x3

------------------------------------------------------------------------------
\* What a part of so many variables leaves alone.
After14 == x15
After13 == <<x14, After14>>
After12 == <<x13, After13>>
After11 == <<x12, After12>>
After9 == <<x10, x11, After11>>
After8 == <<x9, After9>>
After4 == <<x5, x6, x7, x8, After8>>
After3 == <<x4, After4>>
Only14 == x15 = 0
Only13 == x14 = 0 /\ Only14
Only12 == x13 = 0 /\ Only13
Only11 == x12 = 0 /\ Only12
Only9 == x10 = 0 /\ x11 = 0 /\ Only11
Only8 == x9 = 0 /\ Only9
Only4 == x5 = 0 /\ x6 = 0 /\ x7 = 0 /\ x8 = 0 /\ Only8
Only3 == x4 = 0 /\ Only4
vars == <<part, x1, x2, x3, x4, After4>>

Init ==
    \/ part = "session" /\ Session!Init /\ Only4
    \/ part = "rib" /\ Rib!Init /\ Only8
    \/ part = "settings" /\ Settings!Init /\ Only12
    \/ part = "script" /\ Runner!Init /\ Only11
    \/ part = "crowd" /\ Crowd!Init /\ Only11
    \/ part = "barrier" /\ Barrier!Init /\ Only9
    \/ part = "observer" /\ Ring!Init /\ Only14
    \/ part = "mesh" /\ Mesh!Init
    \/ part = "api" /\ Api!Init /\ Only9
    \/ part = "reports" /\ Reports!Init /\ Only11
    \/ part = "kernel" /\ Kernel!Init /\ Only13
    \/ part = "boot" /\ Boot!Init /\ Only9
    \/ part = "install" /\ Install!Init /\ Only8
    \/ part = "plugins" /\ Plugins!Init /\ Only8
    \/ part = "fence" /\ Barriers!Init /\ Only8
    \/ part = "blocks" /\ Blocks!Init /\ Only3
Next ==
    \/ part = "session" /\ Session!Next /\ UNCHANGED <<part, After4>>
    \/ part = "rib" /\ Rib!Next /\ UNCHANGED <<part, After8>>
    \/ part = "settings" /\ Settings!Next /\ UNCHANGED <<part, After12>>
    \/ part = "script" /\ Runner!Next /\ UNCHANGED <<part, After11>>
    \/ part = "crowd" /\ Crowd!Next /\ UNCHANGED <<part, After11>>
    \/ part = "barrier" /\ Barrier!Next /\ UNCHANGED <<part, After9>>
    \/ part = "observer" /\ Ring!Next /\ UNCHANGED <<part, After14>>
    \/ part = "mesh" /\ Mesh!Next /\ UNCHANGED part
    \/ part = "api" /\ Api!Next /\ UNCHANGED <<part, After9>>
    \/ part = "reports" /\ Reports!Next /\ UNCHANGED <<part, After11>>
    \/ part = "kernel" /\ Kernel!Next /\ UNCHANGED <<part, After13>>
    \/ part = "boot" /\ Boot!Next /\ UNCHANGED <<part, After9>>
    \/ part = "install" /\ Install!Next /\ UNCHANGED <<part, After8>>
    \/ part = "plugins" /\ Plugins!Next /\ UNCHANGED <<part, After8>>
    \/ part = "fence" /\ Barriers!Next /\ UNCHANGED <<part, After8>>
    \/ part = "blocks" /\ Blocks!Next /\ UNCHANGED <<part, After3>>

\* The speakers' transport and clock go on; so do the engine of a script, its
\* deadline and the supervisors of its children (their threads and timers); the
\* runtime polls the caller that holds the barrier, and the sources answer.
SessionVars == <<x1, x2, x3, x4>>
FenceVars == <<SessionVars, x5, x6, x7, x8>>
ScriptVars == <<FenceVars, x9, x10, x11>>
Fairness ==
    /\ WF_SessionVars(part = "session" /\ Session!Works)
    /\ WF_SessionVars(part = "session" /\ Session!Tick)
    /\ WF_ScriptVars(part = "script" /\ Runner!Engine)
    /\ WF_x10(part = "script" /\ Runner!Over)
    /\ \A i \in 1..4 : WF_x11(part = "script" /\ i \in DOMAIN x11 /\ Runner!Supervise(i))
    /\ \A c \in {"c1", "c2"} : WF_FenceVars(part = "fence" /\ Barriers!Drive(c))
    /\ \A n \in {"n1", "n2", "n3"} : WF_FenceVars(part = "fence" /\ Barriers!Answered(n))
Spec == Init /\ [][Next]_vars /\ Fairness
------------------------------------------------------------------------------
\* Two BGP speakers agree: on how their session ended (BgpSession), and on
\* the routes the one advertises and the other observes (BgpRib).
SpeakersAgree ==
    /\ part = "session" => Session!DispositionsAgree
    /\ part = "rib" => Rib!RibMirrored
\* No agent takes over endpoints under another immutable value, a whole
\* snapshot is there through every rotation, and every value is the one its
\* strongest source gives (Settings).
SettingsSound ==
    part = "settings" =>
        Settings!NoSilentChange /\ Settings!CurrentSurvives /\ Settings!LayersDecide
\* A script that succeeds had every job judged by its own line (Scripts).
SuccessIsEarned ==
    /\ part = "script" => Runner!SuccessIsEarned
    /\ part = "crowd" => Crowd!SuccessIsEarned
\* A permit is given only for versions the proxy runs (ProxyBarrier).
CommitIsRunning == part = "barrier" => Barrier!CommitIsRunning
\* A reader of the ring gets every event in order or is told of the loss, and
\* the gate reports a drop once per interval (Observer).
ObserverSound == part = "observer" => Ring!ReadsInOrder /\ Ring!OncePerInterval
\* Whoever reads a peer's config finds its credential files (ClusterMesh).
ConfigComplete == part = "mesh" => Mesh!ConfigComplete
\* The name of a cluster keeps its first owner for good (ClusterMesh).
NameHasOneOwner == [][part = "mesh" => Mesh!KeepsOwner]_vars
\* What a client is told is what the agent did for it (ApiWire).
ToldAsDone == part = "api" => Api!ToldAsDone
\* Every report taken is in an Event, waits to be, or is given up for a
\* reason the code names (Events).
ReportsAccounted == part = "reports" => Reports!ReportsAccounted
\* A node's start leaves it whole: a program once attached stays attached and
\* what comes in is translated before the host firewall judges it (Loader), a
\* Pod a running agent serves is in a pool it routes (Startup), a published
\* plugin is a whole file at every moment, and CHECK confirms what ADD
\* answered (CniNode).
NodeIsWhole ==
    /\ part = "kernel" => Kernel!StaysAttached /\ Kernel!TranslatedBeforeJudged
    /\ part = "boot" => Boot!PodsAreRouted
    /\ part = "install" => Install!PublishedIsWhole
    /\ part = "plugins" => Plugins!PublishedIsWhole /\ Plugins!CheckConfirmsAdd
\* A node's block is marked exactly while its addresses are taken (CidrSet).
BlocksExact == part = "blocks" => Blocks!BlocksExact
\* The startup barrier's waiters run in order, each once, and a caller is told
\* of success only when all of them succeeded (Fence).
BarrierHolds == part = "fence" => Barriers!TypeOK /\ Barriers!BarrierHolds
\* However it broke, a BGP session comes up again and stays up (BgpSession);
\* every script ends and leaves no process of its groups behind (Scripts); no
\* caller of the startup barrier waits for good (Fence).
Progress ==
    /\ <>[](part = "session" => Session!AllUp)
    /\ <>[](part = "script" => Runner!CleanEnd)
    /\ \A c \in {"c1", "c2"} : []<>(part = "fence" => x8[c] # "waiting")
==============================================================================
