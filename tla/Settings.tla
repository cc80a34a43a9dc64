------------------------------ MODULE Settings ------------------------------
(***************************************************************************)
(* The agent's configuration (flowsdn-config): the layers of sources       *)
(* (sources.rs) resolved by the registry (lib.rs), checked (validation.rs, *)
(* immutable.rs) and kept across restarts in rotated snapshots             *)
(* (runtime.rs), with crashes between any two file operations and failing  *)
(* ones.                                                                   *)
(*                                                                         *)
(* Keys are canonical names.  A raw text is a record of its reading: a     *)
(* word, a number, or items.                                               *)
(***************************************************************************)
EXTENDS Integers, Sequences, SequencesExt, FiniteSets, TLC

CONSTANTS
    Registries,   \* the schemas of the versions run: key -> [kind, default, class]
    Aliases,      \* deprecated key -> key
    Variables,    \* legacy environment variable -> key
    Worlds,       \* what the sources may hold at a start
    MaxStarts     \* bound: starts of the agent

VARIABLES
    pc,        \* where the starting or running agent is
    registry, resolved,   \* of the agent that is starting or running
    world,     \* the sources it was started with
    files,     \* the directory: CURRENT, PREVIOUS, OLDEST, staging and history
    published, \* a snapshot has been published
    endpoints, \* endpoint state: "none", "new" of this agent, "old" of one before
    last,      \* the configuration of the agent that ran before
    unwritten, \* that agent ran without having published it
    starts,
    when,      \* check_previous is called "before" publication or "after" it
    slipped    \* history: PREVIOUS is not the snapshot of the agent that ran before
vars == <<pc, registry, resolved, world, files, published, endpoints, last, unwritten, starts,
          when, slipped>>

Absent == [config |-> <<>>, sources |-> <<>>, immutable |-> {}, unknown |-> {}]
Nothing == [ok |-> FALSE, values |-> <<>>, unknown |-> {}]
Invalid == [t |-> "invalid"]
------------------------------------------------------------------------------
(* parse.rs: a text by the kind of its key. *)

Words(b) == IF b THEN {"true", "1", "t", "yes", "on"} ELSE {"false", "0", "f", "no", "off"}
Word(w) == [t |-> "word", w |-> w]
Number(n) == [t |-> "number", n |-> n]
Items(s) == [t |-> "items", s |-> s]

Parse(kind, raw) ==
    CASE kind.t = "Bool" -> IF raw.t = "word" /\ \E b \in BOOLEAN : raw.w \in Words(b)
                            THEN [t |-> "bool", b |-> raw.w \in Words(TRUE)] ELSE Invalid
      [] kind.t = "UInt" -> IF raw.t = "number" /\ raw.n \in 0..kind.max
                            THEN [t |-> "int", n |-> raw.n] ELSE Invalid
      [] kind.t = "Duration" -> IF raw.t = "number" THEN [t |-> "int", n |-> raw.n] ELSE Invalid
      [] kind.t = "Enum" -> IF raw.t = "word" /\ raw.w \in kind.of
                            THEN [t |-> "text", w |-> raw.w] ELSE Invalid
      [] kind.t = "String" -> IF raw.t = "word" THEN [t |-> "text", w |-> raw.w] ELSE Invalid
      [] kind.t = "List" -> [t |-> "list", s |-> IF raw.t = "items" THEN raw.s ELSE <<raw.w>>]

\* encoded and typed: a value as JSON and back by the kind of its key;
\* untyped: the JSON of a key that the schema no longer has.
Encoded(v) ==
    CASE v.t = "bool" -> [j |-> "bool", b |-> v.b]
      [] v.t = "int" -> [j |-> "number", n |-> v.n]
      [] v.t = "text" -> [j |-> "string", w |-> v.w]
      [] v.t = "list" -> [j |-> "array", s |-> v.s]
Typed(j, kind) ==
    CASE kind.t = "List" -> IF j.j = "array" THEN [t |-> "list", s |-> j.s] ELSE Invalid
      [] kind.t = "Bool" -> IF j.j = "bool" THEN Parse(kind, Word(IF j.b THEN "true" ELSE "false"))
                            ELSE Invalid
      [] kind.t \in {"UInt", "Duration"} ->
            IF j.j = "number" THEN Parse(kind, Number(j.n)) ELSE Invalid
      [] OTHER -> IF j.j = "string" THEN Parse(kind, Word(j.w)) ELSE Invalid
Untyped(j) ==
    CASE j.j = "bool" -> [t |-> "bool", b |-> j.b]
      [] j.j = "number" -> [t |-> "int", n |-> j.n]
      [] j.j = "string" -> [t |-> "text", w |-> j.w]
      [] j.j = "array" -> [t |-> "list", s |-> j.s]
------------------------------------------------------------------------------
(* sources.rs and Registry::resolve. *)

Entry(source, key, raw) == [source |-> source, key |-> key, raw |-> raw]
Layer == [Default |-> 0, File |-> 1, Dir |-> 2, Env |-> 3, Flag |-> 4]
ByName(f) == SetToSeq(DOMAIN f)

\* directory: one file per key; a directory, a broken link and an unreadable
\* file are passed over.
Directory(dir) ==
    LET usable == SelectSeq(ByName(dir), LAMBDA k : dir[k].t # "skipped")
    IN [n \in DOMAIN usable |-> Entry("Dir", usable[n], dir[usable[n]])]
\* environment: the variable of a key hides the legacy variable of that key,
\* even when it is empty.
Environment(env, legacy) ==
    LET names == ByName(env)
        old == SelectSeq(ByName(legacy), LAMBDA v : Variables[v] \notin DOMAIN env)
    IN [n \in DOMAIN names |-> Entry("Env", names[n], env[names[n]])]
       \o [n \in DOMAIN old |-> Entry("Env", Variables[old[n]], legacy[old[n]])]
\* file: a flat mapping, in the order of the document.
Yaml(pairs) == [n \in DOMAIN pairs |-> Entry("File", pairs[n][1], pairs[n][2])]
Flags(pairs) == [n \in DOMAIN pairs |-> Entry("Flag", pairs[n][1], pairs[n][2])]
Entries(w) == Flags(w.flags) \o Yaml(w.file) \o Directory(w.dir) \o Environment(w.env, w.legacy)

\* apply: a flag given again adds to a list; everything else replaces.
Apply(values, key, spec, source, raw) ==
    LET v == Parse(spec.kind, raw)
        again == /\ source = "Flag" /\ key \in DOMAIN values
                 /\ values[key].source = "Flag" /\ spec.kind.t = "List"
        value == IF again THEN [v EXCEPT !.s = values[key].value.s \o @] ELSE v
    IN [k \in DOMAIN values \cup {key} |->
          IF k = key THEN [value |-> value, source |-> source, class |-> spec.class]
          ELSE values[k]]

CanonicalEven(es, reg) == {}
\* The keys given under their own name: they silence their aliases.
Canonical(es, reg) == {es[n].key : n \in DOMAIN es} \cap DOMAIN reg

\* Registry::new: no alias as a key, the two switches active booleans, every
\* default a value of its key.
Registered(reg) ==
    /\ DOMAIN reg \cap DOMAIN Aliases = {}
    /\ \A k \in {"strict-config", "force-config-change"} \cap DOMAIN reg :
          reg[k].kind.t = "Bool" /\ reg[k].class = "Active"
    /\ \A k \in DOMAIN reg : Parse(reg[k].kind, reg[k].default) # Invalid

\* resolve: the values and the unknown keys, or Nothing.
Resolve(es, reg) ==
    LET canonical == Canonical(es, reg)
        sorted == SortSeq(es, LAMBDA a, b : Layer[a.source] < Layer[b.source])
        none == [k \in DOMAIN reg |->
                   [value |-> Parse(reg[k].kind, reg[k].default), source |-> "Default",
                    class |-> reg[k].class]]
        step(x, e) ==
            LET aliased == e.key \in DOMAIN Aliases
                key == IF aliased THEN Aliases[e.key] ELSE e.key
            IN IF aliased /\ key \in canonical THEN x
               ELSE IF key \notin DOMAIN reg THEN [x EXCEPT !.unknown = @ \cup {key}]
               ELSE [x EXCEPT !.values = Apply(@, key, reg[key], e.source, e.raw),
                              !.bad = @ \/ Parse(reg[key].kind, e.raw) = Invalid]
        upto[n \in 0..Len(sorted)] ==
            IF n = 0 THEN [values |-> none, unknown |-> {}, bad |-> FALSE]
            ELSE step(upto[n - 1], sorted[n])
        x == upto[Len(sorted)]
        strict == /\ "strict-config" \in DOMAIN reg
                  /\ x.values["strict-config"].value.b
    IN IF x.bad \/ (strict /\ x.unknown # {}) THEN Nothing
       ELSE [ok |-> TRUE, values |-> x.values, unknown |-> x.unknown]
------------------------------------------------------------------------------
(* validation.rs. *)

Has(c, k) == k \in DOMAIN c.values /\ c.values[k].class \notin {"Ignored", "Script"}
Num(c, k) == c.values[k].value.n
On(c, k) == Has(c, k) /\ c.values[k].value.b
Says(c, k, ws) == Has(c, k) => c.values[k].value.w \in ws
Holds(c, k) == Has(c, k) /\ c.values[k].value.w \notin {"", "malformed"}
\* The words of the enumerations; the keys whose text has a form of its own.
Spellings == "routing-mode" :> {"tunnel", "native"} @@ "allow-localhost" :> {"auto", "always", "policy"}
           @@ "identity-allocation-mode" :> {"crd", "kvstore"}
Formed == {"fixed-identity-mapping", "ipv6-cluster-alloc-cidr", "cluster-name",
           "bpf-map-dynamic-size-ratio"}
\* foundation: the rules whose keys are present.
Foundation(c) ==
    /\ \A k \in Formed : Has(c, k) => Holds(c, k)
    /\ \A k \in DOMAIN Spellings : Says(c, k, Spellings[k])
    /\ Has(c, "endpoint-id-max") => Num(c, "endpoint-id-max") \in 1..65535
    /\ Has(c, "enable-ipv4") \/ Has(c, "enable-ipv6") =>
          /\ Has(c, "enable-ipv4") /\ Has(c, "enable-ipv6")
          /\ On(c, "enable-ipv4") \/ On(c, "enable-ipv6")
    /\ On(c, "enable-ipv6-ndp") => On(c, "enable-ipv6") /\ Holds(c, "ipv6-mcast-device")
    /\ Has(c, "route-metric") => Num(c, "route-metric") >= 0
    /\ Has(c, "max-connected-clusters") => Num(c, "max-connected-clusters") \in {255, 511}
    /\ Has(c, "cluster-id") =>
          /\ Has(c, "max-connected-clusters")
          /\ Num(c, "cluster-id") \in 0..Num(c, "max-connected-clusters")
    /\ Has(c, "bpf-policy-map-max") => Num(c, "bpf-policy-map-max") \in 256..65536
    /\ Has(c, "bpf-ipcache-map-max") => Num(c, "bpf-ipcache-map-max") >= 1
    /\ Has(c, "ipam") /\ Says(c, "ipam", {"delegated-plugin"}) =>
          /\ \A k \in {"enable-ipv4-masquerade", "enable-endpoint-health-checking"} :
                Has(c, k) /\ ~On(c, k)
          /\ On(c, "enable-endpoint-routes")
    /\ On(c, "enable-vtep") => Holds(c, "vtep-mask")
    /\ Has(c, "identity-allocation-mode") /\ Says(c, "identity-allocation-mode", {"kvstore"})
          => Holds(c, "kvstore")
------------------------------------------------------------------------------
(* runtime.rs and immutable.rs: a snapshot is the JSON of the values with  *)
(* their sources, the unknown keys and the immutable keys.                 *)

Encode(c) ==
    LET kept == {k \in DOMAIN c.values : c.values[k].class # "Script"}
    IN [config |-> [k \in kept |-> Encoded(c.values[k].value)],
        sources |-> [k \in kept |-> c.values[k].source],
        immutable |-> {k \in kept : c.values[k].class = "Immutable"},
        unknown |-> c.unknown]

\* decode: by the schema of the reader; Nothing when a value no longer fits it.
Decode(s, reg) ==
    LET value(k) == IF k \in DOMAIN reg THEN Typed(s.config[k], reg[k].kind)
                    ELSE Untyped(s.config[k])
        class(k) == IF k \in s.immutable THEN "Immutable"
                    ELSE IF k \in DOMAIN reg /\ reg[k].class \in {"Ignored", "Runtime", "Dynamic"}
                    THEN reg[k].class ELSE "Active"
        keys == DOMAIN s.config
    IN IF \/ \E k \in keys : value(k) = Invalid
          \/ \E k \in keys \cap DOMAIN reg : reg[k].class = "Script"
          \/ keys \cap s.unknown # {}
       THEN Nothing
       ELSE [ok |-> TRUE, values |-> [k \in keys |-> [value |-> value(k), source |-> s.sources[k],
                                         class |-> class(k)]],
             unknown |-> s.unknown]

ImmutableKeys(c) == {k \in DOMAIN c.values : c.values[k].class = "Immutable"}
ComparedNow(before, now) == ImmutableKeys(now)
\* A key is compared when either configuration calls it immutable.
Compared(before, now) == ImmutableKeys(before) \cup ImmutableKeys(now)
Changes(before, now) ==
    LET at(c, k) == IF k \in DOMAIN c.values THEN c.values[k].value ELSE Invalid
    IN {k \in Compared(before, now) : at(before, k) # at(now, k)}
Forced(c) ==
    /\ "force-config-change" \in DOMAIN c.values
    /\ c.values["force-config-change"].class = "Active"
    /\ c.values["force-config-change"].value.b

\* check_previous, restoring endpoints if there are any: a missing or
\* unreadable snapshot is no obstacle.
MayStart(now, reg, snapshot) ==
    LET before == IF snapshot = Absent THEN Nothing ELSE Decode(snapshot, reg)
    IN \/ ~before.ok
       \/ Changes(before, now) = {} \/ endpoints = "none" \/ Forced(now)
------------------------------------------------------------------------------
\* A start: resolve, validate and, "before publication with CURRENT", compare.
Start ==
    /\ pc = "off" /\ starts < MaxStarts /\ starts' = starts + 1
    /\ \E reg \in Registries, w \in Worlds :
        LET c == Resolve(Entries(w), reg)
        IN /\ Registered(reg) /\ c.ok /\ Foundation(c)
           /\ when = "before" => MayStart(c, reg, files.CURRENT)
           /\ registry' = reg /\ resolved' = c /\ world' = w
    /\ pc' = "stage"
    /\ endpoints' = IF endpoints = "new" THEN "old" ELSE endpoints
    /\ UNCHANGED <<files, published, last, unwritten, when, slipped>>

Runs(wrote) == /\ pc' = IF when = "before" THEN "run" ELSE "check"
               /\ unwritten' = ~wrote
\* store: the new snapshot is written and synced under a staging name.
Stage ==
    /\ pc = "stage"
    /\ \/ files' = [files EXCEPT !.staging = Encode(resolved)] /\ pc' = "link"
                /\ UNCHANGED <<unwritten, slipped>>
       \/ Runs(FALSE) /\ slipped' = TRUE /\ UNCHANGED files
    /\ UNCHANGED <<registry, resolved, world, published, endpoints, last, starts, when>>
\* The old snapshot gets a second name; failing that, history is not rotated.
Link ==
    /\ pc = "link"
    /\ IF files.CURRENT = Absent THEN pc' = "publish" /\ UNCHANGED <<files, slipped>>
       ELSE \/ files' = [files EXCEPT !.history = files.CURRENT] /\ pc' = "rotate-previous"
               /\ UNCHANGED slipped
            \/ pc' = "publish" /\ slipped' = TRUE /\ UNCHANGED files
    /\ UNCHANGED <<registry, resolved, world, published, endpoints, last, unwritten, starts, when>>
RotatePrevious ==
    /\ pc = "rotate-previous" /\ pc' = "rotate-current"
    /\ \/ /\ files.PREVIOUS # Absent
          /\ files' = [files EXCEPT !.OLDEST = files.PREVIOUS, !.PREVIOUS = Absent]
       \/ UNCHANGED files
    /\ UNCHANGED <<registry, resolved, world, published, endpoints, last, unwritten, starts,
                   when, slipped>>
RotateCurrent ==
    /\ pc = "rotate-current" /\ pc' = "publish"
    /\ \/ /\ files' = [files EXCEPT !.PREVIOUS = files.history, !.history = Absent]
          /\ UNCHANGED slipped
       \/ files' = [files EXCEPT !.history = Absent] /\ slipped' = TRUE
    /\ UNCHANGED <<registry, resolved, world, published, endpoints, last, unwritten, starts, when>>
Publish ==
    /\ pc = "publish"
    /\ \/ /\ files' = [files EXCEPT !.CURRENT = files.staging, !.staging = Absent]
          /\ published' = TRUE /\ Runs(TRUE)
       \/ files' = [files EXCEPT !.staging = Absent] /\ Runs(FALSE) /\ UNCHANGED published
    /\ UNCHANGED <<registry, resolved, world, endpoints, last, starts, when, slipped>>

\* What the process had in memory goes with it.
Ends ==
    /\ pc' = "off"
    /\ registry' = <<>> /\ resolved' = Nothing /\ world' = <<>> /\ unwritten' = FALSE
\* "After rotation with PREVIOUS": a start that is refused has published.
Check ==
    /\ pc = "check"
    /\ IF MayStart(resolved, registry, files.PREVIOUS)
       THEN pc' = "run" /\ UNCHANGED <<registry, resolved, world, unwritten, slipped>>
       ELSE Ends /\ slipped' = TRUE
    /\ UNCHANGED <<files, published, endpoints, last, starts, when>>

Serve ==
    /\ pc = "run" /\ endpoints' = IF endpoints = "none" THEN "new" ELSE "none"
    /\ UNCHANGED <<pc, registry, resolved, world, files, published, last, unwritten, starts,
                   when, slipped>>
\* The agent stops, or dies anywhere on the way.
Stop ==
    /\ pc # "off" /\ Ends
    /\ last' = IF pc = "run" THEN [config |-> resolved, written |-> ~unwritten] ELSE last
    /\ slipped' = IF pc = "run" THEN FALSE ELSE slipped \/ (pc = "check" /\ ~unwritten)
    /\ UNCHANGED <<files, published, endpoints, starts, when>>

Init ==
    /\ pc = "off" /\ registry = <<>> /\ resolved = Nothing /\ world = <<>> /\ unwritten = FALSE
    /\ files = [f \in {"CURRENT", "PREVIOUS", "OLDEST", "staging", "history"} |-> Absent]
    /\ published = FALSE /\ endpoints = "none" /\ starts = 0
    /\ last = [config |-> resolved, written |-> FALSE]
    /\ when \in {"before", "after"} /\ slipped = FALSE
Next == \/ Start \/ Stage \/ Link \/ RotatePrevious \/ RotateCurrent \/ Publish \/ Check
        \/ Serve \/ Stop
------------------------------------------------------------------------------
\* An agent never takes over endpoints under an immutable value other than
\* the one they ran with, unless forced, wherever earlier starts died and
\* whichever version wrote the snapshot; only an agent whose own snapshot was
\* never written or does not fit the new schema is not compared with.  When
\* the check comes after publication it must moreover be the first attempt
\* since that agent and its rotation must have worked: a start that was
\* refused, or died, has put its own snapshot in the place of the agent's.
NoSilentChange ==
    /\ pc = "run" /\ endpoints = "old" /\ last.written
    /\ when = "after" => ~slipped
    /\ Decode(Encode(last.config), registry).ok
    => \/ Forced(resolved)
       \/ \A k \in ImmutableKeys(last.config) \cup ImmutableKeys(resolved) :
             /\ k \in DOMAIN last.config.values \cap DOMAIN resolved.values
             /\ last.config.values[k].value = resolved.values[k].value

\* "Hard-linking the old current inode into its history staging name keeps
\* CURRENT readable throughout rotation": once published, a whole snapshot
\* is there whichever operation failed or was the last before a crash.
CurrentSurvives == published => files.CURRENT # Absent

\* Every value is the one its strongest source gives: its last entry there,
\* for a list of flags all of them in order; an alias speaks for its key only
\* where the key is not given itself.
LayersDecide ==
    pc # "off" =>
        LET es == Entries(world)
            given == {es[n].key : n \in DOMAIN es}
            names(k) == {k} \cup (IF k \in given THEN {} ELSE {a \in DOMAIN Aliases : Aliases[a] = k})
            mine(k) == SelectSeq(es, LAMBDA e : e.key \in names(k))
        IN \A k \in DOMAIN registry :
             LET m == mine(k)
                 kind == registry[k].kind
                 top(n) == \A i \in DOMAIN m : Layer[m[i].source] <= Layer[m[n].source]
                 best == SelectSeq(m, LAMBDA e : \E n \in DOMAIN m : m[n] = e /\ top(n))
             IN resolved.values[k].value =
                  IF m = <<>> THEN Parse(kind, registry[k].default)
                  ELSE IF kind.t = "List" /\ best[1].source = "Flag"
                  THEN [t |-> "list",
                        s |-> FlattenSeq([n \in DOMAIN best |-> Parse(kind, best[n].raw).s])]
                  ELSE Parse(kind, best[Len(best)].raw)
==============================================================================
