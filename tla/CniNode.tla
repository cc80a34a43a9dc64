------------------------------ MODULE CniNode ------------------------------
(***************************************************************************)
(* The CNI plugin on a node (crates/flowsdn-cni): its installation         *)
(* (install.rs), the adapter a call reaches (loopback.rs dispatch), the    *)
(* loopback adapter, and what the primary adapter (runtime.rs) answers to  *)
(* the calls that change nothing.  Its ADD, from the parsed request on,    *)
(* and DEL are CniAdd and DeleteQueue.                                     *)
(*                                                                         *)
(* A pod of the agent's DaemonSet runs the installer, one at a time, and   *)
(* every one has the same process number, so that a temporary file's name  *)
(* is its destination and the installer's counter.  An inode is a record   *)
(* with a number of its own; a published inode is never written again.     *)
(***************************************************************************)
EXTENDS Integers, Sequences, FiniteSets, SequencesExt

CONSTANTS
    Inputs,        \* the calls: their name, command, configuration, environment, agent
    MaxRuns,       \* bound: runs of the installer
    MaxCalls       \* bound: calls of the container runtime

VARIABLES
    dir,           \* the published names: an inode or None
    temps,         \* the temporary files: <<destination, counter>> -> inode
    installer,     \* the running installer
    runs,          \* how often one was started
    sandbox,       \* the network namespace: its lo and its pod interface
    added,         \* what the last loopback ADD answered, until DEL
    told,          \* the code of the last call's answer (-1: goes on elsewhere)
    calls
node == <<dir, temps, installer, runs>>
space == <<sandbox, added, told, calls>>
vars == <<node, space>>

(***************************************************************************)
(* install.rs                                                              *)
(***************************************************************************)
None == [id |-> 0]
Inode(id, image) == [id |-> id, image |-> image, regular |-> TRUE, whole |-> FALSE, exec |-> FALSE]
Whole(file) == file.id # 0 /\ file.whole
Runs(file) == Whole(file) /\ file.exec

\* install_node: the names in the order in which they are published.
Order == <<"flowsdn-cni", "flowsdn", "loopback", "conflist">>
NoInstaller == [step |-> "ended", name |-> "", next |-> 0, temp |-> 0, image |-> 0,
                plugin |-> TRUE, loopback |-> FALSE, ok |-> FALSE]
Fresh == 10 * runs + installer.next

Finished == [installer EXCEPT !.step = "ended", !.ok = TRUE]
After(name) ==
    IF name = "conflist" THEN Finished
    ELSE [installer EXCEPT !.step = "look",
                           !.name = Order[1 + CHOOSE i \in 1..3 : Order[i] = name]]

\* A new image's installer, with its environment's options.
Install(plugin, loopback) ==
    /\ installer.step = "ended" /\ runs < MaxRuns
    /\ runs' = runs + 1
    /\ installer' = [NoInstaller EXCEPT !.step = "look", !.name = "flowsdn-cni", !.image = runs + 1,
                                        !.plugin = plugin, !.loopback = loopback]
    /\ UNCHANGED <<dir, temps, space>>

\* install: which names are replaced.  A retained plugin must be a regular file.
Look ==
    LET name == installer.name
        exists == dir[name].id # 0
    IN /\ installer.step = "look"
       /\ installer' =
            CASE name = "flowsdn-cni" /\ exists /\ ~installer.plugin ->
                     IF dir[name].regular THEN After(name) ELSE [installer EXCEPT !.step = "ended"]
              [] name = "loopback" /\ exists /\ ~installer.loopback -> After(name)
              [] OTHER -> [installer EXCEPT !.step = "create"]
       /\ UNCHANGED <<dir, temps, runs, space>>

\* temporary and create_new: a name that a killed installer left is passed over.
Temporary == CHOOSE n \in installer.next..100 :
                 /\ <<installer.name, n>> \notin DOMAIN temps
                 /\ \A m \in installer.next..(n - 1) : <<installer.name, m>> \in DOMAIN temps
With(key, file) == [k \in DOMAIN temps \cup {key} |-> IF k = key THEN file ELSE temps[k]]
Own == <<installer.name, installer.temp>>

\* copy_atomic and write_conflist create a file, link_atomic a second name of the plugin.
Create ==
    LET link == installer.name = "flowsdn"
    IN /\ installer.step = "create"
       /\ temps' = With(<<installer.name, Temporary>>,
                        IF link THEN dir["flowsdn-cni"] ELSE Inode(Fresh, installer.image))
       /\ installer' = [installer EXCEPT !.step = IF link THEN "rename" ELSE "write",
                                         !.temp = Temporary, !.next = Temporary + 1]
       /\ UNCHANGED <<dir, runs, space>>

\* io::copy, then (not of the conflist) set_permissions and sync_all.
Write ==
    /\ installer.step = "write"
    /\ temps' = [temps EXCEPT ![Own].whole = TRUE]
    /\ installer' = [installer EXCEPT !.step = IF installer.name = "conflist" THEN "rename" ELSE "chmod"]
    /\ UNCHANGED <<dir, runs, space>>
Chmod ==
    /\ installer.step = "chmod"
    /\ temps' = [temps EXCEPT ![Own].exec = TRUE]
    /\ installer' = [installer EXCEPT !.step = "rename"]
    /\ UNCHANGED <<dir, runs, space>>

Unlinked == [k \in DOMAIN temps \ {Own} |-> temps[k]]

\* The rename of a name to another name of the same inode leaves both.
Rename ==
    /\ installer.step = "rename"
    /\ dir' = [dir EXCEPT ![installer.name] = temps[Own]]
    /\ temps' = IF dir[installer.name].id = temps[Own].id THEN temps ELSE Unlinked
    /\ installer' = [installer EXCEPT !.step = "drop"]
    /\ UNCHANGED <<runs, space>>

\* Temporary::drop.
Drop ==
    /\ installer.step = "drop"
    /\ temps' = Unlinked
    /\ installer' = After(installer.name)
    /\ UNCHANGED <<dir, runs, space>>

\* A step fails: the temporary goes, and with it the run, unless it was of loopback.
Fail ==
    /\ installer.step \in {"create", "write", "chmod", "rename"}
    /\ temps' = IF installer.step = "create" THEN temps ELSE Unlinked
    /\ installer' = IF installer.name = "loopback" THEN After("loopback")
                    ELSE [installer EXCEPT !.step = "ended"]
    /\ UNCHANGED <<dir, runs, space>>

Killed ==
    /\ installer.step # "ended"
    /\ installer' = [installer EXCEPT !.step = "ended"]
    /\ UNCHANGED <<dir, temps, runs, space>>

(***************************************************************************)
(* Calls.  A configuration has the type and version it names, whether it   *)
(* is JSON, has a network name and asks for chaining, and the prevResult   *)
(* (a sequence of none or one); the environment has the variables that are *)
(* missing, and whether the interface's name and CNI_ARGS are well formed. *)
(***************************************************************************)
Versions == {"1.0.0", "1.1.0"}

\* validate_previous.  A family is 4 or 6 (0: no address, or a prefix too long);
\* a gateway 0 and an interface -1 are absent.
ValidPrevious(p, version) ==
    /\ p.version = version /\ p.arrays /\ p.dns
    /\ \A i \in DOMAIN p.interfaces : p.interfaces[i].name # ""
    /\ \A e \in p.ips \cup p.routes : e.family # 0 /\ e.gateway \in {0, e.family}
    /\ \A e \in p.ips : e.interface < Len(p.interfaces)
    /\ \A e \in p.routes : e.metrics

\* The code of the first error in a list of <<it applies, its code>>, 0 for none.
FirstError(errors) ==
    LET found == {i \in DOMAIN errors : errors[i][1]}
    IN IF found = {} THEN 0 ELSE errors[CHOOSE i \in found : \A j \in found : i <= j][2]

\* AddRequest::parse.
ParseAdd(conf, env) ==
    FirstError(<<<<~conf.json, 6>>,
                 <<conf.version \notin Versions, 1>>,
                 <<conf.prev # <<>> \/ ~conf.name, 999>>,
                 <<"CNI_IFNAME" \in env.missing, 4>>,
                 <<~env.ifname, 7>>,
                 <<~env.args, 999>>,
                 <<env.missing # {}, 4>>>>)

\* validate_health.
HealthCode(health) == IF health \in {"OK", "Bootstrap", "Pending", "Warning", "Disabled"} THEN 0
                      ELSE IF health = "Failure" THEN 101 ELSE 100

\* CHECK of the primary adapter; agent is the endpoint's health, "down" or "error".
Check(conf, env, agent) ==
    LET parsed == ParseAdd([conf EXCEPT !.prev = <<>>], env)
        prev == conf.prev[1]
        selected == {i \in DOMAIN prev.interfaces :
                        prev.interfaces[i].name = "eth0" /\ prev.interfaces[i].sandbox}
        expected == {e.address : e \in {e \in prev.ips : e.interface + 1 \in selected}}
        code == FirstError(<<<<parsed # 0, parsed>>, <<agent = "down", 11>>,
                             <<HealthCode(agent) # 0, HealthCode(agent)>>,
                             <<conf.prev = <<>>, 999>>>>)
    IN IF code # 0 THEN code
       ELSE IF /\ prev.arrays /\ selected # {}
               /\ sandbox.exists /\ expected \subseteq sandbox.addresses
            THEN 0 ELSE 999

\* runtime::run, but for ADD and DEL themselves (-1: they go on).
Primary(command, conf, env, agent) ==
    LET refused == FirstError(<<<<~conf.json, 999>>, <<conf.version \notin Versions, 1>>,
                                <<conf.chaining, 999>>>>)
    IN IF command = "VERSION" THEN 0
       ELSE IF refused # 0 THEN refused
       ELSE CASE command = "ADD" -> IF ParseAdd(conf, env) = 0 THEN -1 ELSE ParseAdd(conf, env)
              [] command = "DEL" -> -1
              [] command = "STATUS" -> IF agent \in {"down", "error"} THEN 50 ELSE 0
              [] command = "CHECK" -> Check(conf, env, agent)
              [] command = "GC" -> 1
              [] OTHER -> 999

\* The loopback adapter's checks before it touches the namespace.
LoopbackCode(command, conf, env) ==
    FirstError(<<<<~conf.json, 6>>,
                 <<conf.version \notin Versions, 1>>,
                 <<command \notin {"ADD", "CHECK", "STATUS", "DEL"}, 4>>,
                 <<command \in {"ADD", "CHECK"} /\ (env.missing # {} \/ ~conf.name), 999>>,
                 <<command \in {"ADD", "CHECK"} /\ conf.prev # <<>>
                     /\ ~ValidPrevious(conf.prev[1], conf.version), 999>>>>)

\* What ADD answers without a prevResult: lo, with the first address of each family.
AddResult(version) ==
    [version |-> version, arrays |-> TRUE, dns |-> TRUE, routes |-> {},
     interfaces |-> <<[name |-> "lo", sandbox |-> TRUE]>>,
     ips |-> {[family |-> 4, gateway |-> 0, interface |-> 0, address |-> "lo4"],
              [family |-> 6, gateway |-> 0, interface |-> 0, address |-> "lo6"]}]

\* Connector::loopback: state is "up", "down", or "" to look only; what it fails with.
LoopbackFails(state) ==
    \/ ~sandbox.exists
    \/ state = "" /\ ~sandbox.up
    \/ state = "up" /\ sandbox.odd

\* loopback::run; ADD brings lo up before it looks at its addresses.
LoopbackAdd(conf) ==
    /\ told' = IF LoopbackFails("up") THEN 999 ELSE 0
    /\ sandbox' = [sandbox EXCEPT !.up = sandbox.exists]
    /\ added' = IF LoopbackFails("up") THEN added
                ELSE IF conf.prev # <<>> THEN conf.prev ELSE <<AddResult(conf.version)>>
\* DEL without a namespace is done; one that cannot be entered or set is an error.
LoopbackDel(env) ==
    /\ added' = <<>>
    /\ IF "CNI_NETNS" \in env.missing \/ ~sandbox.exists THEN told' = 0 /\ UNCHANGED sandbox
       ELSE \/ told' = 0 /\ sandbox' = [sandbox EXCEPT !.up = FALSE]
            \/ told' = 999 /\ UNCHANGED sandbox
Loopback(command, conf, env) ==
    LET code == IF command = "VERSION" THEN 0 ELSE LoopbackCode(command, conf, env)
    IN CASE code = 0 /\ command = "ADD" -> LoopbackAdd(conf)
         [] code = 0 /\ command = "DEL" -> LoopbackDel(env)
         [] OTHER -> /\ told' = IF code = 0 /\ command = "CHECK" /\ LoopbackFails("") THEN 999 ELSE code
                     /\ UNCHANGED <<sandbox, added>>

IsLoopback(name) == name \in {"loopback", "flowsdn-loopback"}

\* dispatch, upon a call of the container runtime by the name of the executable.
Call(name, command, conf, env, agent) ==
    /\ calls < MaxCalls
    /\ Runs(dir[name])
    /\ calls' = calls + 1
    /\ IF IsLoopback(name) \/ (conf.json /\ IsLoopback(conf.type))
       THEN Loopback(command, conf, env)
       ELSE told' = Primary(command, conf, env, agent) /\ UNCHANGED <<sandbox, added>>
    /\ UNCHANGED node

\* The pod gives lo an address of its own; the namespace goes.
Assign == calls < MaxCalls /\ sandbox.exists /\ sandbox' = [sandbox EXCEPT !.odd = TRUE] /\ UNCHANGED <<node, added, told, calls>>
Gone == /\ calls < MaxCalls /\ sandbox.exists
        /\ sandbox' = [sandbox EXCEPT !.exists = FALSE, !.up = FALSE]
        /\ added' = <<>>
        /\ UNCHANGED <<node, told, calls>>

----------------------------------------------------------------------------
Installed(image) == [Inode(image, image) EXCEPT !.whole = TRUE, !.exec = TRUE]
Symlink == [Installed(900) EXCEPT !.regular = FALSE]

\* A node that had nothing, a plugin somebody copied or linked, another's loopback.
Init ==
    /\ \E p \in {None, Installed(901), Symlink}, l \in {None, Installed(902)} :
         dir = [n \in {"flowsdn-cni", "flowsdn", "loopback", "conflist"} |->
                  CASE n = "flowsdn-cni" -> p [] n = "loopback" -> l [] OTHER -> None]
    /\ temps = [k \in {} |-> None]
    /\ installer = NoInstaller /\ runs = 0
    /\ sandbox = [exists |-> TRUE, up |-> FALSE, odd |-> FALSE, addresses |-> {"a4"}]
    /\ added = <<>> /\ told = 0 /\ calls = 0

Next ==
    \/ \E plugin, loopback \in BOOLEAN : Install(plugin, loopback)
    \/ Look \/ Create \/ Write \/ Chmod \/ Rename \/ Drop \/ Fail \/ Killed
    \/ \E c \in Inputs, prev \in {<<>>, added} :
          Call(c.name, c.command, IF prev = <<>> THEN c.conf ELSE [c.conf EXCEPT !.prev = prev],
               c.env, c.agent)
    \/ Assign \/ Gone

Spec == Init /\ [][Next]_vars
----------------------------------------------------------------------------
\* Whatever run of the installer fails or is killed at any step, with or without
\* files earlier ones left: every published name is a whole file and a program
\* is executable, the conflist names a plugin that is there, and a run that
\* succeeds has put the image it was given in place, under both its names, and
\* left no temporary file of its own (install: "Each name is published atomically").
PublishedIsWhole ==
    /\ \A name \in DOMAIN dir : dir[name].id # 0 => Whole(dir[name])
    /\ \A name \in DOMAIN dir \ {"conflist"} : dir[name].id # 0 => Runs(dir[name])
    /\ dir["conflist"].id # 0 => dir["flowsdn-cni"].id # 0 /\ dir["flowsdn"].id # 0
    /\ installer.step = "ended" /\ installer.ok =>
         /\ dir["flowsdn"] = dir["flowsdn-cni"] /\ dir["flowsdn-cni"].regular
         /\ installer.plugin => dir["flowsdn-cni"].image = installer.image
         /\ \A k \in DOMAIN temps : temps[k].id \notin (10 * runs)..(10 * runs + 9)

\* The result a loopback ADD gave, its own or the one it was handed, is one that
\* CHECK accepts for as long as the sandbox is there and not deleted
\* (loopback::run, validate_previous), whatever other calls come in between.
CheckConfirmsAdd ==
    added # <<>> =>
        /\ ~LoopbackFails("")
        /\ ValidPrevious(added[1], added[1].version)
=============================================================================
