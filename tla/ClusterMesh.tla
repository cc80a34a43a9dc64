----------------------------- MODULE ClusterMesh -----------------------------
(***************************************************************************)
(* Joining a mesh of clusters (flowsdn-clustermesh): the installation of a *)
(* peer's bundle into the config directory (bootstrap.rs) and the claim of *)
(* the cluster's name in the shared store (ownership.rs). They share no    *)
(* state; `part` names the one a behaviour is about.                       *)
(*                                                                         *)
(* The file system: what was written is seen by everyone at once, and      *)
(* survives a power failure only once it was synced; a generation is the   *)
(* directory of one attempt. The store executes a plan atomically.         *)
(***************************************************************************)
EXTENDS Integers, Sequences, FiniteSets, FiniteSetsExt

CONSTANTS
    Installers,   \* runs of the installer; each is one attempt
    Replaces,     \* those run with --replace
    DryRuns,      \* those run with --dry-run
    BadBundle,    \* those whose bundle does not parse
    Instances,    \* cluster instances claiming the one name
    MaxFaults,    \* bound: crashes, failed system calls, expired leases
    MaxRevision   \* bound: writes to the store

VARIABLES part,
    pc, locked, target, durable, files, synced, home, lost, published,
    owner, config, revision, seen,
    faults
disk == <<pc, locked, target, durable, files, synced, home, lost, published>>
store == <<owner, config, revision, seen>>
vars == <<part, disk, store, faults>>

None == "none"
Credentials == {"ca", "cert", "key"}
Fault == faults < MaxFaults /\ faults' = faults + 1
------------------------------------------------------------------------------
\* `target` is the generation the peer's config names. `locked` is the run
\* whose lock file exists, `files[p]` what is in p's generation, `synced` the
\* generations whose names are on disk and `home` the directory of materials
\* itself: none, new (its name in the root not synced) or durable. `lost` are
\* the generations that went with it.
Go(p, next) == pc' = [pc EXCEPT ![p] = next]
ConfigTarget(p) == target = None \/ p \in Replaces

\* Bundle::read and parse; the first look at the target.
Begin(p) ==
    /\ pc[p] = "start"
    /\ Go(p, IF p \in BadBundle \/ ~ConfigTarget(p) \/ p \in DryRuns THEN "over" ELSE "lock")
    /\ UNCHANGED <<locked, target, durable, files, synced, home, lost, published>>
\* create_new of the lock file: an existing one, stale or not, refuses.
TakeLock(p) ==
    /\ pc[p] = "lock"
    /\ IF locked = None THEN locked' = p /\ Go(p, "recheck")
       ELSE Go(p, "over") /\ UNCHANGED locked
    /\ UNCHANGED <<target, durable, files, synced, home, lost, published>>
Release(p) == locked' = None /\ Go(p, "over")
\* The target again, the directory of materials, and a new generation in it.
Recheck(p) ==
    /\ pc[p] = "recheck"
    /\ IF ConfigTarget(p)
       THEN /\ home' = IF home = "none" THEN "new" ELSE home
            /\ Go(p, "ca") /\ UNCHANGED locked
       ELSE Release(p) /\ UNCHANGED home
    /\ UNCHANGED <<target, durable, files, synced, lost, published>>

After == [ca |-> "cert", cert |-> "key", key |-> "config", config |-> "sync"]
\* create_file: written and synced before the next one.
CreateFile(p) ==
    /\ pc[p] \in DOMAIN After
    /\ files' = [files EXCEPT ![p] = @ \cup {pc[p]}]
    /\ Go(p, After[pc[p]])
    /\ UNCHANGED <<locked, target, durable, synced, home, lost, published>>
\* The generation's files and its name in the materials directory reach the
\* disk; the directory's own name waits for SyncRoot.
Sync(p) ==
    /\ pc[p] = "sync" /\ synced' = synced \cup {p} /\ Go(p, "rename")
    /\ UNCHANGED <<locked, target, durable, files, home, lost, published>>

Abandon(p) == files' = [files EXCEPT ![p] = {}] /\ Release(p)
\* The last look at the target, and the rename that publishes.
Rename(p) ==
    /\ pc[p] = "rename"
    /\ IF ConfigTarget(p)
       THEN /\ target' = p /\ published' = published \cup {p}
            /\ files' = [files EXCEPT ![p] = @ \ {"config"}]
            /\ Go(p, "root") /\ UNCHANGED locked
       ELSE Abandon(p) /\ UNCHANGED <<target, published>>
    /\ UNCHANGED <<durable, synced, home, lost>>
SyncRoot(p) ==
    /\ pc[p] = "root" /\ durable' = target /\ home' = "durable"
    /\ locked' = None /\ Go(p, "done")
    /\ UNCHANGED <<target, files, synced, lost, published>>

Working == {"recheck", "ca", "cert", "key", "config", "sync", "rename", "root"}
FailsCleaning(p) ==
    /\ pc[p] \in Working \ {"recheck"}
    /\ Abandon(p)
    /\ UNCHANGED <<target, durable, synced, home, lost, published>>
\* A system call fails: before the rename the generation is removed, after
\* it nothing is.
Fails(p) ==
    /\ pc[p] \in Working
    /\ IF pc[p] \in {"recheck", "root"} THEN Release(p) /\ UNCHANGED files ELSE Abandon(p)
    /\ UNCHANGED <<target, durable, synced, home, lost, published>>

\* The process is killed: its lock file stays. An operator removes the lock
\* once the process is gone.
Killed(p) ==
    /\ pc[p] \in Working /\ Go(p, "dead")
    /\ UNCHANGED <<locked, target, durable, files, synced, home, lost, published>>
ClearLock ==
    /\ locked # None /\ pc[locked] = "dead" /\ locked' = None
    /\ UNCHANGED <<pc, target, durable, files, synced, home, lost, published>>
\* The node loses power: unsynced names are there or not, the directory of
\* materials among them.
PowerLoss ==
    /\ pc' = [p \in Installers |-> IF pc[p] \in Working \cup {"lock"} THEN "dead" ELSE pc[p]]
    /\ \E now \in {target, durable} :
         /\ target' = now /\ durable' = now
         /\ published' = IF now = None THEN {} ELSE {now}
    /\ \/ /\ \E kept \in SUBSET (Installers \ synced) :
               files' = [p \in Installers |-> IF p \in synced \cup kept THEN files[p] ELSE {}]
          /\ home' = IF home = "none" THEN home ELSE "durable"
          /\ UNCHANGED lost
       \/ /\ home = "new" /\ home' = "none"
          /\ lost' = lost \cup {p \in Installers : files[p] # {}}
          /\ files' = [p \in Installers |-> {}]
    /\ locked' \in {locked, None}
    /\ UNCHANGED synced

Step(p) ==
    \/ Begin(p) \/ TakeLock(p) \/ Recheck(p) \/ CreateFile(p)
    \/ Sync(p) \/ Rename(p) \/ SyncRoot(p)
InstallNext ==
    /\ part = "install"
    /\ \/ (\E p \in Installers : Step(p)) /\ UNCHANGED faults
       \/ Fault /\ \E p \in Installers : Fails(p) \/ Killed(p)
       \/ Fault /\ PowerLoss
       \/ ClearLock /\ UNCHANGED faults
    /\ UNCHANGED <<part, store>>
InstallInit ==
    /\ pc = [p \in Installers |-> "start"] /\ locked = None
    /\ target = None /\ durable = None
    /\ files = [p \in Installers |-> {}] /\ synced = {} /\ published = {}
    /\ home = "none" /\ lost = {}
------------------------------------------------------------------------------
\* A record of the store; `stamp` is the instance named in it, or "legacy".
Absent == [stamp |-> None, revision |-> 0, leased |-> FALSE]
Nothing == [owner |-> Absent, config |-> Absent, ok |-> FALSE]
\* The claimant reads owner and config, in two reads.
ReadOwner(i) ==
    /\ seen' = [seen EXCEPT ![i] = [Nothing EXCEPT !.owner = owner]]
    /\ UNCHANGED <<owner, config, revision>>
ReadConfig(i) ==
    /\ ~seen[i].ok
    /\ seen' = [seen EXCEPT ![i].config = config, ![i].ok = TRUE]
    /\ UNCHANGED <<owner, config, revision>>

\* plan_claim refuses a name another instance owns or a lease guards, and a
\* config that is not this instance's, or is but has no durable owner.
Claimable(i, o, c) ==
    /\ o = Absent \/ (~o.leased /\ o.stamp = i)
    /\ c = Absent \/ (c.stamp = i /\ o # Absent)
GuardOwner(i) == seen[i].owner = owner
Guards(i) == seen[i].owner = owner /\ seen[i].config = config
Put(i, leased) == [stamp |-> i, revision |-> revision + 1, leased |-> leased]
\* The plan, executed in one transaction when its guards still hold. The
\* config is put when it is missing, differs or is of an earlier lease of
\* this instance (`renew`).
Claim(i) ==
    LET s == seen[i] IN
    /\ s.ok /\ revision < MaxRevision
    /\ \/ /\ Claimable(i, s.owner, s.config) /\ Guards(i)
          /\ owner' = IF s.owner = Absent THEN Put(i, FALSE) ELSE owner
          /\ \E renew \in BOOLEAN :
               config' = IF s.config = Absent \/ renew THEN Put(i, TRUE) ELSE config
          /\ revision' = IF <<owner', config'>> = <<owner, config>> THEN revision ELSE revision + 1
       \/ /\ ~Claimable(i, s.owner, s.config) \/ ~Guards(i)
          /\ UNCHANGED <<owner, config, revision>>
    /\ seen' = [seen EXCEPT ![i] = Nothing]
\* The lease of a config expires with its instance; another tool may write
\* a config without a stamp where there is none.
Expire ==
    /\ config.leased /\ config' = Absent /\ Fault /\ UNCHANGED <<owner, revision, seen>>
Legacy ==
    /\ config = Absent /\ owner = Absent /\ revision < MaxRevision /\ Fault
    /\ config' = Put("legacy", FALSE) /\ revision' = revision + 1 /\ UNCHANGED <<owner, seen>>
ClaimNext ==
    /\ part = "claim"
    /\ \/ (\E i \in Instances : ReadOwner(i) \/ ReadConfig(i) \/ Claim(i)) /\ UNCHANGED faults
       \/ Expire \/ Legacy
    /\ UNCHANGED <<part, disk>>
ClaimInit ==
    /\ owner = Absent /\ config = Absent /\ revision = 0
    /\ seen = [i \in Instances |-> Nothing]
------------------------------------------------------------------------------
Init == part \in {"install", "claim"} /\ InstallInit /\ ClaimInit /\ faults = 0
Next == InstallNext \/ ClaimNext

\* Whoever reads a peer's config, now or from an earlier read of it, finds the
\* three credential files it names: through failed calls, killed installers,
\* cleared locks, replacements and power failures.  One case is exempt: the
\* directory of materials is new, its name in the root is synced only after
\* the rename, and the power fails in between; an install that has succeeded
\* is never lost.
ConfigComplete ==
    /\ \A g \in published \cup ({target} \ {None}) :
          Credentials \subseteq files[g] \/ g \in lost
    /\ \A g \in lost : pc[g] # "done"

\* The name of a cluster keeps its first owner for good; a config carrying a
\* stamp carries that owner's; a config written by anything else is never
\* replaced, whatever was read before the transaction.
KeepsOwner ==
    /\ owner # Absent => owner' = owner
    /\ config'.stamp \notin {None, "legacy"} => owner'.stamp = config'.stamp
    /\ config.stamp = "legacy" => config' = config
NameHasOneOwner == [][KeepsOwner]_<<owner, config>>
==============================================================================
