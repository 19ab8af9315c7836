# TLA+ models of the ScyllaDB-on-Kubernetes example

The repository creates Kubernetes clusters at four cloud providers, deploys
ScyllaDB with its operator and manager on them, and carries sample
applications: tools that migrate keyspaces from vnodes to tablets in place, bulk
loaders, and demonstrations. Almost everything it does is a program that drives
a remote system one request at a time, may be killed between any two, and finds
its place again from what the remote system reports. That is what is modelled
here: **programs without memory against systems that go on by themselves**, and
where a program has processes or threads of its own, those too.

Modelled are both tablet migration scripts, the OKE provisioning and teardown,
the Python and the Java bulk loader, the connection library and the tools that
share a table with the loader, the tools of the Alternator and the CQL user
table, the counter copy and the demonstration of index, view and counters. The
rest is listed in the inventory with the reason.

## 1. Inventory

| Component | State it keeps | Operations | Behaviours that are hard | Status |
|---|---|---|---|---|
| Tablet migration, in-cluster (`sample_app/convert_to_tablets.py`) | none between runs; in a run the phase, the node the rolling restart is at, a peer, a control node, and the address each node's API is believed to be at | migrate, rollback, status | interrupted runs, pods that change address, nodes that restart unasked, a Role that is missing or revoked, timeouts that are too short | modelled |
| Tablet migration by kubectl (`sample_app/convert_to_tablets_kubectl.bash`) | none between runs; in a run the pod the loop is at and one control pod | the same | the control pod is restarted by the run itself; a status that cannot be read is an empty string | modelled |
| ScyllaDB and Kubernetes below them | migration status, storage modes of each node, pods and their addresses | migration REST API, drain, pod deletion | nodes reshard while offline, addresses are handed out again | external module |
| OKE provisioning (`makeK8s_OKE/makeBasicCluster.bash`, `oke-lifecycle.bash`) | none between runs but the kubeconfig context; clusters, VCNs and pools carry an ownership tag | create, `--resume`, `-d`, `--preflight` | asynchronous work requests, listings that lag, same-named resources of others, quota, kills | modelled |
| OCI below it | clusters, VCNs, network resources, pools | create, list, delete | references that block a deletion, work that goes on unattended | external module |
| Python bulk loader (`sample_app/loader.py`) | the table; worker processes with a share and a batch each | drop, create, load | shares that do not divide, workers that fail or are killed, results collected in order | modelled |
| Connection library (`sample_app/scylla_connection_library.py`) | none | from flags to a session | TLS is decided by the port alone, local-only routing | modelled as operators |
| Readers and writers of that keyspace (`query.py`, `slow_loader.py`, `tombstone.py`) | a prepared statement each | look up, insert, drop | each may drop the table under the others | modelled |
| Java bulk loader (`ScyllaLoader.java`) | counters of each thread | drop, load, verify | failed batches, a main timeout that overtakes the threads | modelled |
| Alternator user table (`alternator-faker.py`, `cleanup_userid_mt.py`, `cql-alternator-faker.py`) | a table with a hash or a range key; threads of the clean-up, each with a range of tokens | fill, clean, drop | read and delete in two requests, fillers that write meanwhile, range boundaries | modelled |
| CQL user table (`cql-faker.py`) | the table; write timestamps of the tool's own choice | fill, drop | which of two writes stays | modelled |
| Counter copy (`copy_counter_table_vnodes_to_tablets.py`) | counters | seed, copy | increments are not idempotent | modelled |
| Index, view and counter demonstration (`create_vnodes_ks_index_mv_counters.py`) | the keyspace the copy reads from | drop, create, fill, query | index and view that are built later or never | modelled |
| Cluster deployment (`deployScylla.bash` and templates) | Kubernetes secrets and the hashes it compares them with | deploy, redeploy, delete | killed between a secret and the restart that makes it effective | planned |
| Manager operations (`update_scylla_manager.bash`, `remove_stuck_manager_tasks.bash`, backups, repairs) | Scylla Manager tasks | create, update, nudge | races with the operator's reconciliation, which is not in the repository | sketched |
| Time-window demonstration (`twcs/device_read_data_demo.py`) | none | write, read | none: one sequential writer | not modelled |
| Prerequisites (`setupK8s.bash`), local CSI, Seaweedfs, clean-up of stuck resources, clients and TLS access, AKS/EKS/GKE clusters, OKE images, proxy and encodings, Alternator-to-CQL library, sample deployment | none, or declarative manifests | straight-line installs, wrappers, encodings | none that two steps can disagree about | not modelled |

`PROJECT.json` lists every component with its reason, and under `hazards` each
place where this code can go wrong in a way a test would hardly reach, with the
properties that cover it.

How the components interact: `makeK8s_*` creates the cluster and a kubeconfig
context; `setupK8s.bash` and `deployScylla.bash` use that context to install the
operator and ScyllaDB; the sample applications and the migration tools talk to
the result over CQL, the nodes' REST API and the Kubernetes API. The programs
never call each other while running and share nothing but the remote system.
Where several use one table or keyspace they are composed: the loader with the
reader, the slow loader and the tombstone demonstration (`SampleTools`); the
fillers with each other and the clean-up (`UserIdTable`); the counter copy with the
demonstration that drops the keyspace it reads from (`VnodesKeyspace`).

What makes each correct:

- migration: nodes leave service one at a time; nothing is finalized while a
  node's storage is in between; a request acts on the node it is meant for;
  repeating the command finishes what was interrupted; a rollback undoes it all;
- OKE: one deployment per name; nothing of anybody else's is deleted; "ready" and
  "deleted" are the truth; following the printed advice gets to a deployment;
- loaders: a run that ends well has written every row it was asked for and no
  other, and what it prints agrees with what is there;
- user tables: what is counted is there; the clean-up keeps the latest item of
  every user and, when it ends well, only that;
- counters and demonstration: a finished copy adds up, a finished demonstration is
  complete, whatever broke off before;
- deployment (planned): the agents run with the credentials the secret holds; the
  encryption key the data was written with is never replaced.

## 2. Modules

| Module | What it is |
|---|---|
| `ScyllaCluster` | external: the cluster as the migration tools see it |
| `ConvertToTablets` | `convert_to_tablets.py`, extends `ScyllaCluster` |
| `ConvertToTabletsKubectl` | `convert_to_tablets_kubectl.bash`, extends `ScyllaCluster` |
| `RollingMigration` | abstract: what both promise |
| `MCConvertToTablets`, `MCConvertToTabletsKubectl` | instances for TLC, fairness, liveness |
| `ConvertToTablets_proofs`, `ConvertToTabletsKubectl_proofs` | inductive invariants and theorems |
| `RollingMigration_proofs` | plain migrations of `ConvertToTablets` implement `RollingMigration`; extends `ConvertToTablets_proofs` |
| `OciResources` | external: OCI's clusters, VCNs, network resources and pools |
| `OkeProvision` | `makeBasicCluster.bash` with `oke-lifecycle.bash`, extends `OciResources` |
| `MCOkeProvision`, `OkeProvision_proofs` | instance for TLC, invariants and theorems |
| `ScyllaConnection` | `scylla_connection_library.py`: operators from flags to the set of sessions |
| `BulkLoad` | `loader.py`: parent and worker processes, extends `ScyllaConnection` |
| `SampleTools` | composes `BulkLoad` with `query.py`, `slow_loader.py` and `tombstone.py` |
| `MCSampleTools`, `SampleTools_proofs` | command lines for TLC, invariants and theorems |
| `DemoClock` | the clock and the faults the demonstrations have in common |
| `UserIdTable` | `alternator-faker.py`, `cql-alternator-faker.py` and `cleanup_userid_mt.py` |
| `CqlFaker` | `cql-faker.py` |
| `VnodesKeyspace` | the counter copy and the demonstration that share the keyspace |
| `JavaLoad` | `ScyllaLoader.java` |
| `DemoTables` | composes the four above: `subject` picks one, which is explored by itself |
| `MCDemoTables`, `DemoTables_proofs`, `UserIdTable_proofs`, `JavaLoad_proofs` | instance for TLC, invariants and theorems |

A definition whose comment begins with "Mutant:" is a plausible bug in the
definition after it. No specification uses it; it is there to show that the
properties notice the bug.

### 2.1 The cluster and the migration

A node of `ScyllaCluster` has a storage mode its data is in (`current`), one it
adopts when it next starts (`intended`), the place of its process between two
starts (`life`) and the address of its pod. The modes are what
`GET .../vnode_tablet_migrations/keyspaces/{ks}` reports: "uses m" when both
agree, "migrating to m" when only `intended` is m. `Boot` converts the storage
while the node is offline, as the comments of the script say ScyllaDB does.
Addresses come from a small pool and are reused, because the script says
Kubernetes does so. One status answer for the whole cluster is an abstraction:
ScyllaDB keeps it in the replicated topology.

`ConvertToTablets` is one walk of `pc` per run:

    migrate:   cluster_up capability classify confirm (prepare)*
               (pick [mark drain delete wait_down wait_up wait_mode])*
               confirm_final (finalize)*
    rollback:  classify capability confirm
               (unmark needs_restart [drain delete wait_down wait_up] wait_mode)*
               (finalize)*

| Actions | Code |
|---|---|
| `Launch` | `main`, `discover_nodes`, `resolve_api_host`: every API must be found, at an address that reports the right host ID |
| `CheckClusterUp`, `CheckRestartCapability`, `ClassifyForMigration`, `ClassifyForRollback`, `Accept` | the guards of `migrate` and `rollback`, in their order, with `-F` where the code lets it through |
| `Prepare` | the loop over keyspaces of phase 1 |
| `PickPeer`, `NoPeer`, `Mark`, `Unmark`, `NeedsRestart` | the loop over nodes: one node, one peer that reports on it; a node that is done is skipped by the migration only |
| `DrainNode`, `DeleteNodePod`, `SeenDown`, `PollBackUp`, `PollMode`, `TimeOut` | `restart_node`, `node_back_up`, `refresh_api_host`, `wait_node_mode` and their deadlines |
| `LoopDone`, `AcceptFinal`, `Finalize` | phase 3, one request per keyspace and the check of its result |
| `Interrupt` | Ctrl-C, eviction of the pod the script runs in, a refused prompt, any exception |
| `GrantAccess`, `RevokeAccess`, `OperatorRestart`, `ClusterStep` | what moves beside the script |

`Exit` forgets everything of the run. The next `Launch` may be of either
procedure over any keyspaces: sequences of interrupted runs are behaviours of
the model, not of a scenario. A restart of a node that nobody asked for
(`Disrupt`) can come at any time and move its pod.

`RollingMigration` says what remains when script, requests and addresses are
taken away: nodes leave and return one at a time, convert only while they are
out and something is in flight, and a keyspace completes only when every node
has converted. The mapping is `storage <- current`, `out <- Out` (nodes that are
not up).

### 2.2 The migration by kubectl

`ConvertToTabletsKubectl` is the same migration driven from outside, over the same
cluster, by a script that differs in what it holds on to:

    migrate:   host_ids cluster_up classify confirm (prepare prepared)*
               (next_pod [drain delete wait_gone wait_ready wait_state])*
               confirm_final (finalize finalized)*
    rollback:  host_ids classify confirm
               (next_pod [needs_restart] [drain delete wait_gone wait_ready wait_state])*
               (finalize finalized)*

A pod is addressed by name, so that no request can reach another, and no addresses
are kept. What concerns the cluster is asked of `first_pod`, picked by `Launch` and kept while
the script restarts that very pod. `ReportsUses` and `ReportsMigrating` are false
of a node that does not answer: the script sees an empty string and goes on,
where the other one raises. Marking needs nobody but the pod itself. The variable
`plain` is history: only migrations without `-F` have been run so far; rollbacks have
the two gaps of section 5 here too.

### 2.3 OCI and the provisioning script

`OciResources` has the life of a cluster or VCN as listings show it (including
`lingering`, deleted but still listed as DELETING, and `deleted`, which OCI
forgets later), the nine network resources with what each refers to, the three
pools, and who owns what by tag. OCI refuses to delete what is in use or still
being created, and finishes what it was asked for whether or not the script is
still there. Strangers create and delete clusters and VCNs of the same name.

`OkeProvision` follows the three commands after `compartment`:

    create:    collide vcn vcn_wait (net net_wait)* cluster cluster_wait
               (pools [pool_wait])* context taint
    resume:    select network (pools [pool_wait])* context taint
    delete:    list_clusters (del_cluster [del_cluster_wait])* list_vcns
               (del_vcn (del_net [del_net_wait])* del_vcn_last del_vcn_wait)*
               del_context verify

The teardown acts on `seen` and `netSeen`, the listings made before the first
deletion, while OCI moves on; each request is checked against OCI's state at that
moment. Discovery retries are counted in `attempt`. `outcome` is what the last
run told the operator; it holds until OCI, somebody else or the configuration
changes. The operator follows the advice the messages print
(`Advised`: resume what can be resumed, otherwise delete and create again) unless
they change their mind, which counts as a fault.

### 2.4 The sample keyspace

`ScyllaConnection` has no state. A function of the library that may exit or raise is
the set of its results, so `Sessions(args)` is empty when the flags lead to no
session, and `Honours` says what a session owes to its flags.

`BulkLoad` has the parent (`pc`: drop, keyspace, table, join, collect) and
its pool of worker processes. `EnsureTableAndSubmit` hands out the shares; a worker
starts, writes the rows of its batch in any order (`execute_concurrent`), takes the next
batch, or fails. `pool.join()` returns when every submitted worker has ended, and a
worker that is killed never does; then results are collected in the order of the
workers until one raises. `gen` counts the creations of the table, so that a completed load
can be held against the table it was completed in. Launches come one after the other with
any of the command lines; what an earlier run left is there.

`SampleTools` puts the other tools next to it: the reader with its prepared
statement, the slow loader and the tombstone demonstration, each at any moment. All
of them drop or create the table or the keyspace; an insert into a table with other columns
fails.

### 2.5 The demonstrations

`DemoClock` has the clock, in units that tell timestamps apart, and the number of
faults. `UserIdTable` has any number of fillers, each taking batches of users and
putting them one by one with or without the condition on `LastUpdated`, and the
clean-up with its pool: `ScanRange` begins a range, `ReadNewest` reads a user's latest
time, `DeleteOlder` deletes what was not after it in a second step, and everything else
moves in between. In a table with the range key a user has an item for each time, otherwise one.
`Ranges` is the code's division of the token ring, `Selects` its query (`token > start
and token <= end`). `since`, `quiet` and `overtaken` are history: whether the clean-up
had the table to itself, and whether the table was made anew while it ran.

`CqlFaker` writes batches with a timestamp of its own (`Timestamp`: fixed or now, with
skew); `Merged` is the database's rule for two writes to one row. `told` is what it counted.
`VnodesKeyspace` has the counter copy (seed, read, add row by row) and the
demonstration, which drops the keyspace, creates its objects in order, inserts readings and counters
device by device, and queries with retries while `Build` happens or not.

`JavaLoad` has the main thread (`loader`: drop, schema, wait, gather, report) and one thread
for each share, which is queued, running, done or has thrown. A batch in a batch mode is one
request, which is carried out whole or, when it fails, may leave some of it behind; in
the other modes every row is one. The main thread waits for all threads or until its timeout, then
adds up what has ended; whatever it cannot reach counts as failed. The process is
over only when its threads are: `shutdownNow` does not stop one that is not waiting. A drop that
fails is only logged (`DropGoesWrong`).

## 3. What is checked

| Run | Instance | What it shows |
|---|---|---|
| `migrate_rolling` | 3 nodes, 2 keyspaces, 4 addresses, 2 faults; 0.18 M states | without restarts nobody asked for, `OneNodeOut`, `OneMarkAtATime`, `RequestsReachTheirNode`, `NoNeedlessRestart` hold over interrupted and repeated migrations, and the script implements `RollingMigration` (`ImplementsRolling`) |
| `migrate_rollback` | 2 nodes, 2 keyspaces (one blocked by preflight), both procedures, with and without `-F`, 3 faults, 1 disruption; 1.6 M states | `TypeOK`, `FinalizeOnlyConverted`, `RollbackOnlyReverted`, `NoStaleMark`, `NoAbandonedDrain`, `PreparesOnlyMigratable` in any mix of runs |
| `migrate_completes` | 2 nodes, 2 keyspaces, 1 fault, 1 disruption, fairness | `MigrationCompletes` |
| `rollback_completes` | 3 nodes, 1 keyspace, `--restart manual`, 1 fault, from every state an unfinalized migration can be left in | `RollbackCompletes` |
| `kubectl_migration` | 3 pods, 2 keyspaces (one blocked by preflight), 3 addresses, both procedures, with and without `-F`, 3 faults, 1 disruption; 3.5 M states | `TypeOK`, `FinalizeOnlySettled` in any mix of runs; as long as only migrations without `-F` were run and nothing restarted unasked, the script implements `RollingMigration` (`RollsWhilePlain`) |
| `oke_lifecycle` | 2 clusters, 2 VCNs, 2 attempts, 2 faults, fairness; 0.9 M states | `TypeOK`, `SingleDeployment`, `DeletesUnblocked`, `GoneMeansGone`, `ReadyMeansComplete`, `ForeignUntouched` over all sequences of create, resume and delete, and `ProvisionCompletes` |
| `sample_load` | nine command lines, up to 3 workers, 2 loads, 1 look-up, 1 fault, fairness; 0.4 M states | `TypeOK`, `CleanLoadComplete`, `NoStrayRows`, `TotalsExact`, `SessionsHonourFlags`, `MatchingReaderFinds`, `LoaderEnds` with the other tools running at any time |
| `sample_demos` | see below; 0.4 M states | `UserIdTypeOK`, `CountedUsersPresent`, `CleanupComplete`, `LatestSurvives`, `CleanupTerminates` of the Alternator table; `CountedWritesStay` of the CQL table; `CopyAddsUp`, `DemoComplete`, `DemoEnds` of the keyspace `vnodes_ks`; `PrintedRowsPresent` of the Java loader |
| `marks_after_rollback`, `drained_after_rollback`, `stale_address`, `stale_context` | as small as the disagreement allows | the findings of section 5 |

Bounds of the scripts. Two nodes are enough for a node before and one after the position of the
loop, three for a peer that is neither; four addresses for three nodes leave one
free, so that a pod can move and another can take the address it left (the kubectl script
keeps no address, and three do). A fault is
an interruption, a timeout that fires although the node would still have moved
on, a refusal, or in OKE also a failed work request, a stranger, a smaller limit
and a change of mind. Two faults allow a run that is interrupted, one that is
interrupted differently, and one that meets what both left; three where two
procedures leave different things. Two OCIDs of
each kind are enough for an owned record and a stranger, or an old record still
being deleted and a new one. `MaxFaults` and `MaxDisruptions` bound nothing that
the programs count.

Bounds of the loaders and demonstrations. The command lines of `MCSampleTools` differ where
the code does: shares that divide and do not, more workers than shares, no
rows, empty batches, no buckets, other ids and buckets, and connection flags that lead to each kind of
session or to none. Two loads and one fault are a run, what it left, and a run that meets it.
The token ring has eight tokens, -4 to 3, and ranges of four; the users' tokens
are the end of a range, the start of one (which no range selects) and one inside; two fillers, two runs,
one clean-up of one thread, and three times (0 to 2) make a late, an early and an equal write. The CQL table
has three runs whose clocks, skews and fixed times put a later run before an earlier one. The copy and
the demonstration run twice each: once broken off, once to the end. The Java loader runs twice, with two
threads, in each batch mode, with three mishaps: enough for a failed batch, a thread that breaks off
and one that outlasts the timeout in one run. Every maximum is a guard of the action that
would pass it and is named in the module that has it.

Symmetry is used over addresses (`migrate_rollback`, `kubectl_migration`) and over OCIDs
(`stale_context`), never in a run with a liveness property. Nodes are not
symmetric: the scripts visit them in order.

`CHECK_DEADLOCK FALSE` stands where the programs really may stop: in the OKE configurations, once the
deployment stands and the faults are spent, and in `sample_load` and `sample_demos`,
once every tool has had its runs. Both migrations are checked for deadlock.

### Fairness

Migration. Weak fairness of the script's own step (it runs), of `TimeOut`
(every wait has a deadline), of `GrantAccess` (operators apply the Role the
message names) and of each node's own steps (the StatefulSet replaces pods and
nodes start). Strong fairness of `OperatorRestart` and of launching the script
again on what is in flight or left: both are possible only between two runs or
inside a wait, so weak fairness would say nothing. No fairness is assumed of
faults or disruptions.

OKE. Weak fairness of the script, of OCI's progress, of the compartment's
propagation, of launching the command the messages advise, and of removing a
context that is in the way. `ProvisionCompletes` asks besides that from some time on there is
capacity and no stranger's record of the same name: nothing in the script can
bring either about.

Loader. Weak fairness of the parent's steps and of each worker's: they are processes
the operating system schedules. None of faults, kills or other tools. `LoaderEnds` names its two
exceptions, a worker that is killed (`pool.join()` waits for its result forever)
and `--batch_size 0` (the ids are never used up).

Demonstrations. Weak fairness of the clean-up's steps and of the demonstration's. None of
`Build`: index and view may never be built, and the demonstration ends all
the same because its retries are bounded. The kubectl script and the Java loader have no liveness
property and no fairness.

## 4. What is proved

`ConvertToTablets_proofs` proves, for every number of nodes, every set of
keyspaces and addresses, every choice of commands, and every bound on faults and
disruptions:

- `TypeCorrect`: `Spec => []TypeOK`;
- `MigrationFinalizedSafely`: `Spec => []FinalizeOnlyConverted`;
- `RollbackFinalizedSafely`: `Spec => []RollbackOnlyReverted`;
- `NoMarkLeftBehind`: `Spec => []NoStaleMark`;
- `NoDrainAbandoned`: `Spec => []NoAbandonedDrain`;
- `PreflightIsObeyed`: `Spec => PreparesOnlyMigratable`.

The assumptions are the named ones on the constants: there is at least one node
(`NAssumption`), the placeholder for a missing address is not an address
(`NoneAssumption`), and the bounds are natural numbers.

The first three follow from one inductive invariant,
`IInv == TypeOK /\ LabelInv /\ LoopInv /\ FlightInv /\ PassedInv`. The property to
prove is about `pc = "finalize"`, but what makes it true happens in the loop:
`PassedInv` says that the nodes before `pos` have settled in the mode the run
wants. Two things could take that back. Finalizing forgets the modes, so
`FlightInv` is needed: the run's keyspaces are in flight during the whole loop,
and then "uses tablets" of a keyspace is a fact about the node
(`UsesSettles`). Restarts could change `current`, but a node boots into
`intended`, and a settled node has `current = intended`, so `PassedInv` is stated
with both. Marking acts on whoever answers at an address, even the wrong node; it
sets what the run wants, so it cannot unsettle a passed node. `LabelInv` and `LoopInv`
say which procedure a label belongs to and where the loops stand when they end.
`NoStaleMark` is not part of `IInv`; it is preserved by each step given `IInv`:
marks are set only while something is in flight, and what ends the flight is a
finalization: of a migration, which finds every node on tablets, so that the marks
are cleared, or of a rollback, which has unmarked every node.

`NoDrainAbandoned` is about every command, both restart modes and a Role that is granted at any
time, and needs more than it says: that a run ends with nothing drained follows only if, all
along, a node is out of service for no other reason than the restart at hand. `CalmInv` says what holds
while there have been neither faults nor disruptions. `OutInv`: outside of a restart every node is up, and in one
every node but that of the loop. `RoleInv`: from the capability check on, pods may be deleted, so that
a drained node is not left for want of the right to restart it. `KnownInv` with `DrainedInv`: the
addresses the run believes in are right, so that what goes down is the node that was drained and the wait for it
does not end early; this rests on `AddrInv` (no two pods have one address).
`PreflightIsObeyed` rests on `PreflightInv`: what was blocked at `classify` keeps a run without `-F` away
from `confirm`, and nothing joins `todo` between there and the last `prepare`.

`RollingMigration_proofs` goes on to the properties that hold of plain migrations only. Each of
its theorems assumes `PlainMigrations` of the constants: only `migrate` is run, without
`-F`, restarts go through Kubernetes, and nothing restarts unasked. Runs may be killed, time out and be
refused any number of times, and the right to delete pods may come and go.

- `OutOneAtATime`: `Spec => []OneNodeOut`;
- `MarkedOneAtATime`: `Spec => []OneMarkAtATime`;
- `RequestsArrive`: `Spec => []RequestsReachTheirNode`;
- `ConvertedStayUp`: `Spec => NoNeedlessRestart`;
- `MigrationRolls`: `Spec => ImplementsRolling`, the **refinement**: every step is a step of
  `RollingMigration` or leaves nodes, storage and keyspaces as they are there.

The assumption is needed: `stale_address` breaks `RequestsReachTheirNode` with one restart that nobody
asked for, `marks_after_rollback` breaks `OneMarkAtATime` with a rollback in between. The invariant
is `RollInv`, on top of `IInv`. `OrderInv`: over all runs so far, nodes are marked and
converted in the order of the loop, so that whatever is marked has only settled nodes before it. `ServingInv`: a node out of
service is the only one and is marked; before the drain there is none, and from there until it serves
again it is the node of the loop. A run that is killed leaves it out, and the next run does not get past
`CheckClusterUp` before it is back. `HostInv` says what the run knows of addresses: those of the nodes it has yet to
come to are right, but for one case that only the proof brought out. A run may start while a node that an earlier run took
out is being replaced; that node then moves away from the address just
discovered. The loop skips it, because it is marked and, once back, converted; and nobody has
its old address, so a request sent there would reach no one (`Moved`).

`OkeProvision_proofs` proves, for every set of OCIDs, every number of discovery
attempts and every bound on faults, with strangers and OCI moving in between:

- `ProvisionTypeCorrect`: `Spec => []TypeOK`;
- `OneDeployment`: `Spec => []SingleDeployment`;
- `OthersUntouched`: `Spec => ForeignUntouched`;
- `TeardownUnblocked`: `Spec => []DeletesUnblocked`;
- `TeardownComplete`: `Spec => []GoneMeansGone`;
- `DeploymentComplete`: `Spec => []ReadyMeansComplete`.

The assumptions are `IdsAssumption` (clusters and VCNs have different OCIDs),
`AttemptsAssumption` and `FaultsAssumption`. `OneDeployment` rests on `OwnInv`: a
record that OCI has forgotten carries no tag (`TagInv`), so an id that somebody
else gets does not inherit one; and from the collision check to the request
for the cluster nothing tagged is live but the VCN of this run (`CreateInv`). All
other steps are `Quiet`: they make nothing live and tagged that was not.
`OthersUntouched` rests on `SeenInv`: a record that the listing showed as there to
stay is still tagged and still there when its turn comes, because strangers
delete only what is theirs and this run has not deleted it yet. A record listed
as being deleted may be gone and, in the model, its id taken over; the script waits for
those and sends no request. The proof thus shows why skipping the request
matters, not only the check of the tag.

The last three share `DeployInv`. `InsideInv` ties the three levels together: what is inside
a cluster or VCN belongs to a tagged one that still exists, and a cluster outlives neither its tag nor its
VCN; that is why "no tagged cluster or VCN is live" already means that nothing is left
(`NothingInside`). The loops are described by how far they have come: `VcnInv` and `PoolInv` say
that the network resources and pools before `step` are active, in a run that creates and in one that resumes
what was left; `TeardownInv` says that those before `step` are gone. What makes the
teardown's listings good enough, although OCI and strangers move on after them, is that nothing that the
listing of a VCN missed comes into being later: only a run of the script creates inside a tagged VCN, and
this run is a teardown. A launch after a
kill may find any mixture of these; the invariant holds of what is left because it is stated over OCI's records and
not over what a run remembers.

`ConvertToTabletsKubectl_proofs` proves, for every number of pods, every set of keyspaces and
addresses, and every bound:

- `KubectlTypeCorrect`: `Spec => []TypeOK`;
- `KubectlFinalizesSafely`: `Spec => []FinalizeOnlySettled`, from
  `IInv == TypeOK /\ LoopInv /\ FlightInv /\ PassedInv`, the same argument as for the other
  script; a status that cannot be read settles nothing, and a pod that is passed was read;
- `KubectlRollsOneAtATime`: `Spec => RollsWhilePlain`, a **refinement**: plain migrations, however
  often killed and repeated, take only steps of `RollingMigration`. Two further
  invariants carry it. `AddrInv`: no two pods have one address. `PlainInv`: while the
  history is plain and nothing restarted unasked, every node on tablets is meant to be
  (`Marked`), and `ServingInv`: at most one node is out of service (`OneOut`); from the check
  of the cluster to the drain none is, and from there to its readiness none but the pod of the loop.
  A run that is killed leaves at most that one out, and the next run does not get past
  `CheckClusterUp` before it is back. The step that finalizes uses `FinalizeOnlySettled`.

`SampleTools_proofs` proves, for every set of command lines, number of workers and bounds, with
the other tools running at any time:

- `Types`: `Spec => []TypeOK`;
- `LoadsAreComplete`: `Spec => []CleanLoadComplete`;
- `WorkersStayInRange`: `Spec => []NoStrayRows`;
- `TotalsAreExact`: `Spec => []TotalsExact`;
- `MatchingReadersFind`: `Spec => MatchingReaderFinds`;
- `FlagsAreHonoured`: `Spec => []SessionsHonourFlags`.

They rest on lemmas about the division of the range, which are worth having for themselves:
the span covers the range (`SpanCovers`), every share is in it (`ShareBounds`), each id of
the range is in a share (`SharesCover`), the sizes of the shares before a worker are what
its position says (`ShareSizes`, `AllBefore`), and a batch stays in its share (`NextChunkBounds`).
The invariant `LoadInv` says of each worker that what it has dealt with is in the table
as long as the table is the one of this run (`JobsInv`), and of the collection that the
total so far is that of the workers before (`CollectInv`). `SessionsInv` says that only sessions
of the run's flags are ever dialled.

`DemoTables_proofs` proves `CountedWritesRemain` (`Spec => []CountedWritesStay`), from what a batch has merged
so far (`BatchInv`) and from merging never taking a later write back (`MergedKeeps`);
`CopiesAddUp` (`Spec => []CopyAddsUp`), with `CopyProgress`: the rows copied so far have been added exactly once;
and `DemosAreComplete` (`Spec => []DemoComplete`), with `DemoProgress`: what each position in the
sequence of objects and devices leaves behind.

`UserIdTable_proofs` proves, for every number of users, fillers, ranges and threads and every assignment of
tokens to users:

- `UserIdTypesCorrect`: `Spec => []UserIdTypeOK`, with the bound on the ranges in work;
- `CountedUsersStay`: `Spec => []CountedUsersPresent`;
- `LatestItemSurvives`: `Spec => LatestSurvives`;
- `CleanupIsComplete`: `Spec => []CleanupComplete`;
- `RangesSelect`: a user is selected by exactly one range, or by none if its token is the start of
  one, for every width of the ranges (arithmetic with `%`, from `NoMultipleBetween`).

Type correctness needs to know where a filler stands (`FakerOK`): that it writes and counts only users it was
asked for follows from the bounds of its batch. `KeepInv` carries the next two. `ScanInv` is the heart: a
thread that has read a maximum deletes below it in a later request, when fillers have written and other
threads deleted; what is true all that time is that *some* item of that user is as late as that maximum,
because a put replaces only an item with the same `LastUpdated` (in a table with the range key) and another
deletion leaves the later of the two maxima. It does not need the ranges to be disjoint. `PutInv`
says the same of what a filler is past in its batch; both are lost only when the table is dropped, hence `overtaken`. For
`CleanupComplete` the other direction is needed, no item *later* than the maximum read, and that holds only
while nobody writes: `ThinInv` says so under `quiet`, range by range, and `RangesCover` puts the ranges together.

`JavaLoad_proofs` proves `PrintedRowsArePresent` (`Spec => []PrintedRowsPresent`) for every set of command lines,
any number of threads, any batch size and mode, and any number of mishaps. Counts are not exact: a
failed batch is in both totals and an unreachable worker is counted with its whole share. What
makes the difference of the totals a lower bound is, for each thread (`CountsInv`), that what it has
dealt with (`Handled`) less what it calls failed is at most what is there of it, and for the main thread (`PhaseInv`) the
same of the ids of all shares gathered so far. The step between is a sum over disjoint sets
(`ShareEnds`: a share ends before the next begins) and needs their finite cardinalities.

Only model-checked: the liveness properties `MigrationCompletes`, `RollbackCompletes`, `ProvisionCompletes`,
`LoaderEnds`, `CleanupTerminates` and `DemoEnds`. They speak of fairness and so of ENABLED, which is out of
the prover's reach. Every invariant and every other action property of a passing run is a theorem, those of
`RollingMigration_proofs` under the assumption named there, which its runs fulfil. The four
statements of section 5 that the code does not keep are shown by their runs.

## 5. Where the code and its own words differ

Each of the first four is shown by a run that is expected to end in a violation.

1. `marks_after_rollback`. "Marking is node-local and must be done for one node at
   a time" (`convert_to_tablets.py:987`). A migration that converted node 1 and was
   killed after marking node 2, a rollback killed once node 1 is back, and a new
   migration leave both marked. The run allows rollbacks; in
   `migrate_rolling`, without them, the statement holds.
2. `drained_after_rollback`. A migration killed between drain and pod deletion
   leaves a node that answers its API and serves nothing. The rollback clears its
   mark, sees "uses vnodes", skips the restart and reports success; the node stays
   down. The comment at `:876` knows only of nodes that "had the flag set".
3. `stale_address`. The host ID behind an address is verified at discovery and after
   the script's own restarts. A pod that is rescheduled meanwhile, and another that
   takes its address, are marked or drained in each other's place, which
   `resolve_api_host` says it prevents (`:259`). Without disruptions it cannot happen
   (`migrate_rolling`).
4. `stale_context`. `-d` "also removes the kubeconfig context". A teardown killed
   after the last owned record has disappeared and before the context is deleted
   leaves it; the next teardown finds nothing owned and therefore leaves it too, and
   reports success, and a later create refuses because of it.

The kubectl script has the first two in the same shape (`convert_to_tablets_kubectl.bash:555-557` and
`:434-444`), which is why `RollsWhilePlain` speaks of plain migrations only.

Noted while modelling, without a run of their own:

- OKE: a create that gives up on a slow compartment advises "rerun
  with --resume shortly" (`makeBasicCluster.bash:187`), but a resume needs a cluster
  and a VCN, which were never requested. The model launches `create` then (`Advised`).
- `query.py` prints query_count - error_count as "Successful queries" although
  failed look-ups were never in query_count.
- `scylla_connection_library.py`: several `host:port` in `-s` end in a ValueError unless TLS
  makes the port unnecessary (`ParsePort`).
- `tombstone.py` drops the loader's table without asking, and its rows share one key.
- `cql-alternator-faker.py -d` deletes the table and then fails on `args.range`, which it does not define
  (`:151`; `CqlAlternatorFaker` does no more than delete).
- `cleanup_userid_mt.py` "keeps only the latest row per UserID", but a user whose token is the
  start of a range is selected by none (`Boundary`, `RangesSelect`); errors of single users are
  printed and the exit status is 0 (`quiet`); and a maximum read from a table that was dropped and
  made anew meanwhile can delete a user's only item (`overtaken`).
- A conditional put of `alternator-faker.py` compares with the time of its batch, not with the time the item
  would get.
- `cql-faker.py` writes whole batches beyond `--num-inserts`, and `-t 0` counts as absent.
- The demonstration says its keyspace "can be migrated to tablets as is" although the counter copy's
  table may be in it.
- `ScyllaLoader.java`: "inserted" counts attempts; `--verify` never samples the last row and casts the row count to
  int; `--batch-size 0` loops without end; `main` ignores the exit code of the command line.
- `device_read_data_demo.py`: comments speak of two hours and of one where the TTL is 43200 s.

## 6. What the models leave out

- Migration: `-S` and `-s`, joining and leaving nodes, what preflight looks for in the
  schema (one set of keyspaces it blocks on), and two runs at once (nothing
  excludes them, nothing is promised for them). A node whose API answers is always
  found again by `refresh_api_host`.
- OKE: images, versions, availability domains and node readiness are data; their
  failures are `Interrupt`. Two network resources of the same name, two scripts at
  once, and `--preflight`, which changes nothing.
- Loaders and demonstrations: the generated values, statistics of latency, logging, racks and
  timeouts of the driver, `--concurrency` and `--verify` of the Java loader. A request is
  carried out as a whole or not at all, but for batches that fail; one that fails may have been carried out.
- External modules are what the programs rely on, not what ScyllaDB, Kubernetes or
  OCI implement.

### Not modelled

`deployScylla.bash` is planned (section 7). The Manager scripts race with a reconciliation loop of the operator
that is not in the repository. `device_read_data_demo.py` is one sequential writer of generated
readings whose connection code repeats that of the library: no step of it
can meet another. The remaining scripts install, wrap or encode in a straight line.

## 7. Plan

1. `DeployCredentials`: secrets, hashes and restarts of `deployScylla.bash` over runs
   that are killed; "the agents run with what the secret holds", "the encryption key is never replaced".
2. Abstract specifications of the OKE deployment and of the clean-up (one step per user), with proofs that the
   detailed ones implement them.
3. A small module for the Manager's nudge, if the operator's side can be stated.

Run the models inside this directory:

    tlc -workers 2 -config migrate_rolling.cfg MCConvertToTablets.tla
    tlc -workers 2 -config kubectl_migration.cfg MCConvertToTabletsKubectl.tla
    tlc -workers 2 -config oke_lifecycle.cfg MCOkeProvision.tla
    tlc -workers 2 -config sample_load.cfg MCSampleTools.tla
    tlc -workers 2 -config sample_demos.cfg MCDemoTables.tla
    for m in ConvertToTablets RollingMigration ConvertToTabletsKubectl OkeProvision SampleTools DemoTables UserIdTable JavaLoad
    do tlapm ${m}_proofs.tla; done
