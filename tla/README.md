# Caravanserai: a TLA+ verification project

Caravanserai places *Projects* (groups of containers with volumes) on *Nodes*
that may disappear at any time. A control-plane server keeps one record per
Project in PostgreSQL; an Agent on every Node polls the server and drives
Docker. The promise the system makes is about what may be forgotten: a record
outlives every resource created for it, a Project is not run in two places
unless somebody accepted that, and local data is not thrown away while it is
the only copy. This directory holds the TLA+ modules that state those promises,
the TLC configurations that check them and the TLAPS proofs of the central ones.

    tlc -workers 2 -config ProjectLifecycle.cfg MCProjectLifecycle
    tlapm ProjectLifecycle_proofs.tla

## 1. Inventory

| Component | State | Operations | Hard behaviour |
|---|---|---|---|
| **Project record** (`api/v1`) | phase, nodeRef, assignmentGeneration, assignmentHistory, failedNodes, workloadStopped, cleanup obligations, backup status, conditions | phase table per writer, obligation list operations, two deletion blockers, freeze of an assigned spec | sequences of releases, takeovers, deletions and reports |
| **Store** (`internal/store/postgres`) | one row per name with a resource_version | three compare-and-swap loops (by name, by UID, by fence), spec changes, finalization on a locked row, audited takeover | lost updates, retries, delete-and-recreate under a running call |
| **Project handlers** (`internal/server/handler/project`) | none | create, apply, delete, force delete, phase reports, evidence, takeover | late and duplicate calls of Agents |
| **Controllers** (`internal/server/controller`, `adapter`) | work queues, condition clocks | schedule, release from an unreachable Node, move a failed Project, finalize | decisions on stale reads, dropped events, timeouts |
| **Agent loop** (`internal/agent`) | snapshot of a tick, orphan tracker, recovery tracker | reconcile, health check and local recovery, terminate, cleanup tasks, orphan sweep | a tick acts on an old snapshot; lost reports; restarts |
| **Docker runtime** (`internal/agent/docker`) | containers, networks, volumes, labelled with an assignment | create, start, stop, remove by assignment | containers of another assignment under the same name |
| **Managed data** (`internal/agent/restore`, `restoresupport.go`) | active path and its provenance marker, quarantine | decide, restore, quarantine | crash between steps, data of another assignment |
| **Backups** (`internal/agent/backup`, `pgbackup`, `pgbackrest`) | coordinator claims, manifests, repo host | stop, archive, upload, commit, retain | crash while stopped, concurrent claims |
| **Scheduler** (`scheduler_*.go`, `capacity_ledger.go`) | none (reads the store) | filter, score, fit | stale reads |
| **Queue, manager, event bus** | dirty set, channels | enqueue, get, publish, resync | lost wake-ups, dropped events |
| **Nodes, tokens, enrolment** | node rows, tokens | register, heartbeat, join once, revoke | heartbeat against NotReady, token reuse |
| **Proxy** (`internal/agent/proxy`) | route table | update, remove, look up | routes of a lifetime that is gone |
| CLI, configuration, overlay, object store client, byte-stream handlers | – | I/O | – |

Interaction: users and operators call the handlers; controllers wake on events
or on their resync and write through the adapter; every write of a Project's
status goes through one of the store's loops; Agents learn of their assignments
only by polling and answer with *fenced* reports (UID, Node, generation). An
assignment that ends leaves a *cleanup obligation* in the record; the Node it
names removes what it holds and reports `ResourcesRemoved`, then moves Managed
data aside and reports `ManagedDataQuarantined`. The record of a deleted Project
is finalized once nothing is owed.

What makes each part correct:

* record: every assignment ever granted is held or owed for; nothing is assigned
  over a debt that forbids it; a deletion stands; an operator can always unblock;
* store: each operation takes effect as if at one instant, on the lifetime it
  was decided for;
* Agents: evidence is true when it is recorded and stays true; no other assignment's
  containers pass for those of a Running Project; what nobody owns is reclaimed;
* node health and rescheduling: every outage gets its full wait, no cleanup
  restarts one; a failing Project is moved a bounded number of times and never
  stays Failed in silence;
* scheduler: no wake-up is lost, what can be placed is placed, and a Project is
  not sent back to a Node it failed on;
* operations on a Node: backup, update and recovery keep off each other, and the
  service and its latest spec come back after all of them;
* backups and restores: the restore point is a complete generation of this
  lifetime; containers never see data of two moments, of another lifetime, or
  older than what they wrote; a differential backup has no gap under it;
* repo host: a lifetime found gone is served no more, an authorized one is served;
* whole: deletion completes.

`PROJECT.json` lists the hazards at their lines under `hazards`, with the
properties aimed at each.

## 2. Modules

| Module | Models | Uses |
|---|---|---|
| `ProjectRecord` | the status of a record and every mutation of it, as pure operators (guard and result) | |
| `ProjectLifecycle` | all writers of the record under one name; each whole read-mutate-write is one action | `ProjectRecord` |
| `StatusSwap` | the store's loops: read, closure, swap, miss, retry, several calls at once | `ProjectRecord`; refines `ProjectLifecycle` |
| `NodeAgent` | the Agents' ticks, Docker and Managed data beside the record | `ProjectLifecycle` |
| `OutageClocks` | heartbeats, the health controller, the rescheduler and the outage conditions, with a clock | `ProjectRecord` |
| `FailedBudget` | the Failed-Project rescheduler: reasons, waits, moves, alert, healthy window | `ProjectRecord` |
| `Scheduling` | event bus, work queue, timers, resync and the scheduler's Reconcile query by query | `ProjectRecord` |
| `NodeOperations` | one Agent's poll loop, backup goroutine and claim around the containers of one Running assignment | |
| `RestorePoint` | abstract: what offline backups promise | |
| `BackupRun` | supervisor, runner and retention of several Nodes against one bucket | `ProjectRecord`; refines `RestorePoint` |
| `VolumeRestore` | decision, staging, swap, rollback, marker and quarantine of Managed volumes on one Node | `ProjectRecord` |
| `RepoHost` | the pgBackRest repo host's authorizations, files, server and networks, write by write | |
| `PostgresBackup` | placement and runs of one database, the continuity latch, completions on the server | |
| `*_proofs` | theorems and proofs about the module they are named after; `Controllers_proofs` is about `OutageClocks`, `FailedBudget` and `Scheduling`, `Databases_proofs` about `RepoHost` and `PostgresBackup` | TLAPS |
| `MC*` | constants, bounds and symmetry for TLC | |

`map` in `PROJECT.json` gives the lines each definition stands for. Definitions
headed *Seeded fault* are deliberately wrong variants of the definition below
them; nothing uses them except the mutation runs that show each property can fail.

### Record and lifecycle

`status` keeps the fields some mutation reads back. An obligation carries its
Node, generation, release authorization, and whether resources are removed, data
is owed, data is quarantined. Messages, timestamps and all conditions other than
`TakeoverRequired` are dropped. `hasBackup` stands for a committed backup or a
backup completion, which the code only asks about together. `Init` is an empty
name or an unassigned row that migration 005 left with Unknown history; rows that
were assigned when they were migrated are not initial states. The other variables
of `ProjectLifecycle` (`grants`, `removal`) record history for the
properties and are read by no guard except that a UID is used once.

The caller of every action is unconstrained: an Agent presents any fence, a
controller decides for any earlier assignment, an operator names any generation,
a release may come without an outage. The guards are those of the code on the
row it commits to. A call that is refused is not a step. `SetProjectPhase` in
the adapter has no caller and no action. `DeleteImmediately` and
`MarkTerminating` are the two outcomes of one handler, which decides on a read
and re-decides when the locked row disagrees.

### Store

`StatusSwap` splits each status write into `Begin` (read and closure), `ReadSpec`
(the second query `ReleaseAssignment` and `MoveFailedProject` make inside their
closure), `Commit` or `Miss`, and `ReadAgain`. The three loops differ in what the
swap's WHERE asks for besides the version. `SetCondition` stands for all writes
that only touch fields the model leaves out: they matter because the version
moves. `INSTANCE ProjectLifecycle` with the same variable names is the
refinement mapping; `version` and `calls` are hidden.

### Agents

A Node's loop is one goroutine, so `pc[n]` walks through a tick: `Tick` lists and
sweeps orphans, `RevalidateCleanup` … `ReportManagedDataQuarantined` work off one
cleanup task, then `TerminateOne`, `ReconcileOne`, `ReportFailed` or
`RecheckBeforeRecovery` act on the *snapshot*. Everything else interleaves between
those steps. A report is answered, lost, or still arrives after its caller gave
up (`LateArrival`). A start that fails (`StartFails`, in `ReconcileFails`, in the
sweep and in `RecoverLocally`) may leave containers made, started, as they were, or
none: `ReconcileProject` rolls back by removing every container of the assignment, and
a recovery may remove a dead container and fail to make it again. `GiveUp` is any other
step that fails or has nothing to do. `Crash`
forgets the tick and the orphan tracker; the bootstrap health check after a
restart is a tick in which the sweep and the cleanup do nothing. `late` records
for the properties which assignments a tick created containers for after they
had ceased to be current. Container names are made of Project and service, so a
daemon holds containers of one assignment of the name at a time; one container
stands for all services with their networks and Ephemeral volumes. Managed data
is the provenance marker at the active path (`VolumeRestore` has the rest); an
object store is taken to be configured. No Agent reports `WorkloadStopped` in this
version of the code, so `NodeAgent` has no such step (`ProjectLifecycle` does,
since the endpoint exists). A Project assigned to a Node owes nothing there, so a
Node has one task at a time.

### Outages and failures

`OutageClocks` has a wall clock (`TimePasses`) and three parties. `Heartbeat` and
the health controller (`HealthDecides`, `SetNodeStateRead`, `SetNodeStateWrite`)
write the Node row whole, the latter from an earlier read. The rescheduler's
worker goes from `ReadNode` over `ListProjects`, where `HandleRunning`,
`HandleTerminating` or `ClearClocks` decide, to one write, and every write but the
release is keyed by the Project's name. `IncidentClock` is the code's test that a
stamp belongs to the present outage. All other writers of the record
(`Assigned`, `AgentReports`, `DeleteRequested`, `TakenOverByOperator`) interleave.
`heard` (when a heartbeat was last stored), `raced` (one was stored after a worker read
the row) and `undone` (one was taken out of the row by `SetNodeStateWrite`) are history.

`FailedBudget` measures time as the age of the Phase condition, up to
`StableAfter`, since nothing waits longer. Its worker judges a snapshot
(`ReconcileFailed`, `ReconcileRunning`) and writes later: `MoveFailedProject` is
fenced, `ClearFailedNodes` and `SetRescheduleExhausted` go by name. `lasted` and
`moves` are history.

### Scheduling

`dirty` and `notify` are the work queue and its one-slot signal: `GetSignal` takes
the signal, `GetPop` any waiting key (Go's map order). `Publish` drops an event
when the channel is full; `ResyncPending` and the retry timers make up for it.
`Reconcile` is one step per query: phase, Ready Nodes, placement, and one ledger
query per Node (`CheckNode`), then `SetProjectScheduled` or `NoCandidate`. The commit
refuses a Project with an obligation that does not permit an assignment (`blocking`)
and a Node that owes cleanup (`MayBeAssigned`). An error of a context ends the one
worker for good (`WorkerEnds`); every other error is retried. CPU and
memory are one number; the score is the order it induces (tier first, then the
emptier Node).

### Operations on a Node

`NodeOperations` runs the poll loop (`poll.pc`) and a backup (`backup.pc`)
concurrently over per-service containers that carry the hash of the spec they were
built from. `claim` is the coordinator's. The poll loop compares specs, updates
services with every partial failure (`LeftBehind`: some removed, some made, one stopped
and not removed or made and not started), judges health on an inspection
(`JudgeBroken`), claims afterwards (`ClaimRecovery`), and recovers through `tracker`,
container by container; the backup announces Maintenance, stops the services of the
supervisor's copy (`snapshot`), archives and restarts. Containers fail or restart,
specs change, Docker and requests fail, the Agent dies. Waits are
nondeterministic (`TimePasses`), a backup may follow another at once, since any
positive interval is accepted, and an upload is taken to end.

### Offline backups and restores

`BackupRun` is the whole pipeline of several Nodes against `bucket`, which holds
per backup ID whether a manifest is there and which archives are whole or short.
Uploads, the manifest and the commit fail or arrive late (`lateCommits`); pruning
lists, decides and deletes step by step. Nodes that lost the assignment go on until
the server refuses them. (`Captured` reads the bucket where the code holds the entries
in memory; a commit over a pruned archive is refused by the fence either way.) `Point == INSTANCE RestorePoint WITH …` maps the complete
generations to `vault`, `record.committed` to `point` and `record.uid` to
`lifetime`. Two things are assumed: clocks agree, so that backup IDs are
ordered as the runs began, and a prune does not outlast `Retain` further runs.

`VolumeRestore` gives every volume the moment at which it was last consistent.
`Decide` is the code's table over marker, data and committed backup; a restore
stages, fetches, displaces and swaps volume by volume, rolls back when a rename
fails (the rollback may fail too), drops what it displaced and writes the marker.
The Agent may die between any two of these. Three ways lead past the decision, and all
are steps of the model: a staging directory that cannot be removed is only warned about
(`StagingRemains`), so that the next tick restores again beneath the running containers
(`loose` holds the volumes whose directory was moved from under them); an Agent without
an object store decides nothing (`EnsureNothing`; PostgresDifferential Projects, which
are decided on every Agent, are not in this module); and the orphan sweep stops and
starts containers with no decision (`SweepStops`, `SweepStarts`, `SweepForgets`). `amiss`
is the history of that since data was last moved away. Extraction is one step; legacy
and unreadable markers are left out.

### Databases

In `RepoHost` every operation holds one lock and is a line of writes and Docker
calls (`call.pc`), each of which may fail, with the Agent's death between any two
and Docker restarting the server by itself. A failed reload may have been
delivered (`SignalFails`). A container made from another image than the one on record
(`server.other`) or one that does not start is replaced, and a replacement may stop
after the removal or after the creation (`LeftMidway`). `released` and `torn` are history; `torn` marks the
window in which the mounted file is ahead of the copy `Remaining` reads.

`PostgresBackup` keeps the container's log as line numbers, of which `dropped` say
WAL was lost. `Observed` reads the log against the latch file, `Choose` picks full
or differential, `RunBackup` runs it while the log goes on, `FullAccepted` clears
the latch, and `Report` is repeated and may arrive late. The latch file may be lost and
the log rotated at any time; `job.blind` and `astray` are the history of a run, and of
an accepted full, that lost sight of its log that way. A report is not delayed for half
of `MaxBackupCompletions` further runs (the guard of `RunBegins`, which the code does not
have): in the code that would be 10 runs, a backup interval apart, against a request
given up after 10 seconds. `Moves` ends the old Node's job: in the code it may go on for
a while, but the server refuses what it reports, and its latch is not the new Node's.

## 3. Runs

| Run | Instances | Properties |
|---|---|---|
| `lifecycle` | record: 2 Nodes, 1 lifetime, 3 assignments; outages: 1 Node, clock to 5, or 2 Nodes, clock to 3, 2 assignments; 2.4 M states | `TypeOK`, `GrantsAccounted`, `NoAssignmentOverDebt`, `OperatorCanUnblock`, `ManagedDataOwed`, `OnlyCopyKept`, `MarkNamesAssignment`, `FinalizedClean`, `DebtOnlyProgresses`, `DeletionIrrevocable`; `FullGrace`, `RunningClocksKept` |
| `swap` | 1 Node, 1 lifetime, 2 concurrent calls, 3 attempts, version ≤ 6; 1.6 M | `RefinesLifecycle`, `SnapshotCurrent` |
| `agent` | 2 Nodes with 2 assignments and a restart or a late report; 1 Node with Managed data, 3 assignments and a restart, or 2 and both; 1 Node with 2 lifetimes and both; 1.7 M | `ResourcesCovered`, `OverlapAuthorized`, `QuarantineProven`, `RunningIsNotStale` |
| `agent_progress` | 2 Nodes with 2 assignments; 1 Node, 2 lifetimes, 1 restart; fairness | `DeletionCompletes`, `LeftoversReclaimed` |
| `convergence` | scheduling: 3 Nodes in 2 tiers, 2 Projects; budget: 2 moves, 4 assignments; operations: 2 services, 3 revisions, up to 3 faults, 2 backups, 1 restart; fairness | `PendingIsPlaced`; `MovesBounded`, `BackoffServed`, `FailureIsAnswered`; `StoppedWhileArchiving`, `RolloutForward`, `ServiceReturns`, `SpecConverges` |
| `components` | scheduling: 2 Nodes, 2 Projects; backup: 2 Nodes, 4 runs and 2 assignments, or 3 runs and 2 lifetimes; restore: 2 volumes, 3 assignments, or 2 lifetimes, up to 2 stray events, with and without an object store; repo host: 3 lifetimes on 2 networks; database: up to 4 runs, 3 faults; 1.5 M | `NoLostWakeup`, `FitsWhenBound`, `NeverBackToFailed`; `RefinesRestorePoint`, `OtherLifetimesKept`; `NoMixedData`, `FreshData`, `WritesKept`; `ReleasedIsGone`; `DiffIsContinuous`, `AcceptedOnce` |

Runs that show a disagreement between code and documentation (section 6):
`stale_tick`, `orphan_return`, `swap_lifetimes`, `cold_archive`, `repo_host`,
`latch_loss`.

**One run, several instances.** `MCProjectLifecycle`, `MCConvergence` and
`MCComponents` choose a `focus` in the initial state: the behaviour is of that
component, and the variables of the others never change. The components in them share
no state, so each is checked as if alone. `Limits`, `Budget`, `OpLimits`,
`RestoreLimits`, `HostLimits` and `PgLimits` are sets of bounds of which a behaviour
is given one: many restarts with few revisions, few with many, and so on, instead
of one product that would be too large. `MCNodeAgent` does the same with Nodes,
lifetimes and assignments. A bound holds back users, faults and the environment,
never a step of which fairness is asked.

**Bounds.** Three assignments on two Nodes give A, B, A with two earlier debts in
different states, the smallest case in which the latest generation is not the
only one that could block and in which a Node is returned to. `MaxGen` bounds
grants, not obligations or calls. In `lifecycle` a lifetime more would only
add callers that the UID in every guard refuses, and what concerns several
lifetimes there is proved for any set of them; where a lifetime outlives its
record in containers or in a call in progress, the `NodeAgent` and `StatusSwap`
runs have two. With timeouts of 1 and 2 a clock of 5 has room for an outage, a
recovery and a second outage past its grace; with a clock of 3 the Project
moves between a healthy Node and one never heard from. In `NodeAgent` a late
report and a restart may come at any step of any tick, both in one behaviour on one Node; two assignments
already let the older Node's tick, cleanup and late report meet the newer
assignment. In `StatusSwap` two calls suffice because a swap depends on one read
and on whether anything was written since, and `SetCondition` and the spec change
write too; version 6 lets both calls retry with other writes in between.
`RefinesLifecycle` is checked for one lifetime: with two, the name-keyed loop
breaks it, which is finding 3. A channel of one place is full as soon as a second
Project is created. Two moves with waits 1 and 2 let the budget run out, be given
back by a healthy window of 3 and run out again. Three revisions have a service
that changes and one that is added and dropped again. Four backup runs with `Retain` 2 prune
generations while another Node commits; two volumes suffice for a
half-done restore. The server keeps 3 completions instead of 20, so that they are
trimmed while a report is late. Deadlock is not checked: a lifetime that used its last UID,
generation or run really stops. Symmetry sets permute Nodes, lifetimes, Projects,
volumes or calls; the liveness runs use none, and `swap` permutes only calls,
since `AnyNode` and `AnyUID` choose one.

**Fairness.**

* `LimitedFairness` (`LiveSystemSpec` for the Nodes that take part): the poll
  ticker fires for ever and a tick that began goes on, so weak fairness of
  `TickGoesOn` and strong fairness of `FullTick`, a tick in which Docker answers and
  every grace period is over (the tracker's clock runs on whatever else happens).
  The termination controller resyncs every 30 seconds: weak fairness of
  `FinalizeProject`. Calls and Docker operations may fail for any finite time but
  not for ever; without that no deletion could complete.
* `SchedFairness`: the resync ticker, the seed goroutine, the timers, and the worker as
  long as it has not ended, keep running. Strong fairness of `GetPop(p)`: the worker ranges over a Go map,
  whose order is random, so a key that waits again and again is taken.
* `BudgetFairness`: time passes and the worker runs (its resync seeds it).
* `OpFairness`: the poll ticker, a backup that began, the passing of waits and the
  expiry of the Maintenance condition.
* `HostFairness`: a call is a line of bounded steps, the supervisor calls
  `Reconcile` at every interval, Docker restarts an `unless-stopped` container.

Nothing is assumed about users, operators, releases or the order of faults.

**What the properties leave open.** `ResourcesCovered`, `OverlapAuthorized` and
`QuarantineProven` except assignments in `late`: containers (or data) that a stale
tick created after its assignment had ended. That exception is finding 1, not an
idealisation; `RecordOutlivesEveryResource` is the property without it.
`RunningIsNotStale` allows a Running Project without containers, since a rollback or a
failed recovery removes them and the next health check finds that. `FullGrace` is about
the heartbeats the Node sent, except in two races: one stored after the rescheduler read
the row, and one that a concurrent `SetNodeState` took out of it; the code releases a
Project of a living Node in both. `PendingIsPlaced` is for as long as the worker lives,
which nothing replaces, and for Projects no obligation blocks; that somebody can unblock
them is `OperatorCanUnblock`. `FitsWhenBound` is stated for a size and an offer that did not
change between read and commit, since the commit checks neither again.
`StoppedWhileArchiving` is about the services of the supervisor's copy;
`ColdArchive` is the property about all, which is finding 4. `NoMixedData`, `FreshData`
and `WritesKept` are what the decision vouches for: they except what went past it
(`amiss`) until the data is moved away. `Decide` itself accepts the loss of writes when
staging was left (`decision.go:148`), and the sweep's start is finding 2.
`DiffIsContinuous` excepts a full accepted after the run lost sight of its log (`astray`);
`LossCostsOneFull` is what the code says of it, which is finding 6. `ReleasedIsGone` and
`AuthorizedIsServed` except the `torn` window, between the mounted file and its copy. The
Agent's death opens it, and so does a failed chown (`repohost.go:536`): a `Revoke` that
follows looks only at the copy and leaves the lifetime in the mounted file, although
`applyWithout` says that what starts next "cannot serve uid" (`repohost.go:251`).

## 4. Proofs

Every theorem holds for all values of the constants under the named assumptions of
the module it is about. These only say that sets differ from their null values, that
bounds are natural numbers and limits are sets of records of naturals, and what the
code fixes: the waits between moves do not shrink and are shorter than the healthy
window (`FailedBudgetConstants`; the code has 1 and 5 minutes against 3 hours), and
`VolumeRestore` is about Projects with a Managed volume (`Mount # {}`; without one
`ensureVolumeData` returns at once). TLC evaluates the assumptions in the runs.

| Module | Theorem | States |
|---|---|---|
| `ProjectLifecycle_proofs` | `TypeCorrect` | `TypeOK` |
| | `LedgerInvariant` | the inductive invariant `IInv` |
| | `NoAssignmentForgotten` | `GrantsAccounted` |
| | `DebtsAreGrants` | `OneDebtPerGrant` |
| | `NeverAssignedOverDebt` | `NoAssignmentOverDebt` |
| | `TerminatedIsProven` | `TerminatedProven` |
| | `OperatorAlwaysCan` | `OperatorCanUnblock` |
| | `RemovalIsClean` | `FinalizedClean` |
| | `DeletionStands` | `DeletionIrrevocable` |
| | `DebtsOnlySettle` | `DebtOnlyProgresses` |
| | `MovedDataIsOwed` | `ManagedDataOwed` |
| | `OnlyCopyIsKept` | `OnlyCopyKept` |
| | `MarkIsCurrent` | `MarkNamesAssignment` |
| `StatusSwap_proofs` | `SnapshotIsCurrent` | `SnapshotCurrent` |
| | `LoopsAreAtomic` | `RefinesLifecycle`, for one lifetime |
| `NodeAgent_proofs` | `AgentsKeepLifecycle` | `SystemSpec` implements `ProjectLifecycle`'s `Spec` |
| | `ClaimsAreTrue` | the inductive invariant `SysInv` |
| | `ResourcesAreCovered` | `ResourcesCovered` |
| | `OverlapsAreAuthorized` | `OverlapAuthorized` |
| | `QuarantineIsProven` | `QuarantineProven` |
| | `NothingStaleUnderRunning` | `RunningIsNotStale` |
| `Controllers_proofs` | `OutagesGetTheirWait` | `FullGrace` |
| | `ClocksOutliveCleanups` | `RunningClocksKept` |
| | `MovesAreBounded` | `MovesBounded` |
| | `BackoffIsServed` | `BackoffServed` |
| | `WakeupsAreKept` | `NoLostWakeup` |
| | `FailedNodesAvoided` | `NeverBackToFailed` |
| `NodeOperations_proofs` | `ArchivesAreQuiet` | `StoppedWhileArchiving` |
| | `RolloutGoesForward` | `RolloutForward` |
| `BackupRun_proofs` | `BackupImplementsRestorePoint` | `RefinesRestorePoint` |
| | `RestorePointIsWhole` | `PointIsWhole` of the restore point |
| | `OldLifetimesAreKept` | `OtherLifetimesKept` |
| `VolumeRestore_proofs` | `NeverMixedData` | `NoMixedData` |
| | `DataIsFresh` | `FreshData` |
| | `WritesAreKept` | `WritesKept` |
| `Databases_proofs` | `ReleasedStaysGone` | `ReleasedIsGone` |
| | `NoStanzaForgotten` | `InventoryComplete` |
| | `CompletionsAcceptedOnce` | `AcceptedOnce` |
| | `DifferentialsAreContinuous` | `DiffIsContinuous` |

*The ledger.* None of the properties is inductive alone: that a release adds the
*right* debt needs to know that the assignment it ends was granted at the current
generation, that no debt for that generation exists yet unless a deletion made
it, and that an assigned phase has a Node. `IInv` is `TypeOK` and `StatusLedger`,
a conjunction of named parts: `Counted` (grants are numbered within 1 to the
current generation, one each), `Coherent` (phase and nodeRef agree), `Accounted` (each grant is
held or owed), `Granted` (each obligation is a grant's, once per generation) and
`Settled` (every earlier debt permitted the current assignment, and the current
Node owes nothing from before). Most writers only move existing entries forward; `Progressed`
describes that once, and `ProgressKeepsLedger` shows that it preserves the parts,
so that each mutation needs a lemma about one entry and not about the list.
`RemovalIsClean` is then local: `MayFinalize` asks that every listed obligation is
removed, and `Accounted` says that the list, with the reporting assignment, is all
there is. `OperatorAlwaysCan` rests on `Settled`: a Project could only be assigned
when no earlier debt blocked, and authorizations and evidence never go back, so
only the latest generation can block.

*Data in the ledger.* `DataInv` adds `DataLedger` to `IInv`: what a grant was given
with is still in the spec while the Project is assigned, because the freeze refuses to
remove a Managed volume then; a debt once owed stays owed; a takeover mark comes with
a Node. A release reads the spec of the row it commits to, and so records the debt.

*The store's loops.* `SwapInv` is `RowShape` and, per call that holds a row,
`ReadShape`, `ReadCurrent` (at the same version of the same lifetime, what was read is
what is there) and `ReadAccepted` (the closure's guard held of it). `Commit` then maps
to the action of `ProjectLifecycle` whose guard it was, on the present row, and every
other step to itself or to a stutter. Two of the loops ask for the UID as well; the
loop keyed by name does not, and `LoopsAreAtomic` needs the hypothesis `OneLifetime`
exactly there: with two lifetimes the refinement is false, which is finding 3.
`SnapshotIsCurrent` needs no such hypothesis.

*Agents.* `AgentsKeepLifecycle` comes first: every step of an Agent, the sweep or a
late report is a step of `ProjectLifecycle` on the record or leaves it alone, so every
theorem about the record holds beside any number of Agents that fail, restart and
report late. For the four properties, what the record says of a Node has to be true of
it, and a report is true only if it was true when the Agent decided to send it and
nothing undid it on the way. `SysInv` therefore follows each claim from its origin: the
tick is about to report it, a report of it is in flight, or it is on record
(`RemovedClaim`, `QuarantineClaim`, `RunningClaim`). A claim is about an assignment that
was granted (`Known`), and what it says holds from the first of these moments on
(`RemovedTrue`, `QuarantineTrue`, `RunningTrue`: the Node holds no other containers, and
its tick means no other assignment). A removal stays true because an
assignment that ended never becomes current again, because one that still is current is
being deleted and deletion is irrevocable, and because no tick that means to run it is
on its way (`Standing`); what a stale tick creates all the same is in `late`. `HeldFits`,
`SnapFits` and `TaskFits` say the same of what a Node has and of what its tick goes by:
containers outlive their record only by force or in `late`, which rests on finalization
asking for the evidence of every assignment; a cleanup task is never about the current
assignment. `OverlapsAreAuthorized` needs the ledger too: of two labelled assignments
the older one stands in the obligation list, and `Settled` says that the later one was
granted over it.

*Outages.* `OutageInv` is `Shapes`, `HeartbeatsHeard` (a heartbeat anyone holds,
in a row or in a worker's copy, is not later than the last one stored), `DecisionsSound`
(what the rescheduler is about to write was due on what it read) and `OnlyRacesMiss` (a
row or a worker that goes by an earlier heartbeat than the last one stored was raced by
it or read a row it was taken out of). A verdict follows a clock that passed
`IncidentClock`, so it is at least as late as the heartbeat read, time only grows between
decision and write, and outside the two races the heartbeat read is the last one sent.

*The budget.* The count of moves is not in the record; FailedNodes stands in for it
and is cleared by name. `BudgetInv` says that the moves since the last fresh start are
at most as many as the Nodes on the list (`MovesRecorded`), that what the worker has
judged is still true of the assignment it judged (`JudgedSound`), and that the stamp is
not older than the phase (`StampWithinPhase`). When the list is emptied between
decision and move, the move was judged by the wait of a longer list; that it has served
the wait of the shorter one too is where the waits must not shrink.

*Scheduling.* `SchedInv` adds to `NoLostWakeup` what the worker may rely on while
it decides (`WorkerSound`): from the look at the phase on, the Project is Pending,
going or gone, since only this worker binds, so its FailedNodes cannot grow
between the query and the commit.

*The claim and the rollout.* `ClaimInv` is `OpShapes`, `ClaimHeld` (whoever works on
containers holds the claim) and `Quiet` (nothing of the archived spec runs or is about
to restart by itself), which is what makes `StoppedWhileArchiving` inductive.
`RolloutInv` adds `ProjectShape` and `PollSound`: the revision the poll loop works on
lies between the one on record as applied and the spec's, and when it is about to
report one, every container is of it or of a later one.

*Offline backups.* The refinement maps the complete generations to `vault`. `BackupInv`
has seven parts: types; `Granted` and `IdsIssued` (assignments and backup IDs are
used once); `WritingSound` and `CommitSound` (a manifest is written over whole
archives, and a commit in progress or delayed names such a generation of its own
lifetime); `PruneOrder` and `DeleteSound` (what a run has decided to delete). That the
restore point is never among those is `NotDoomed`: a run keeps the newest `Retain`
generations it saw, its own among them, so nothing newer than it by at most `Retain`
IDs can be on its list; and since a run prunes only after its own commit, the restore
point is that commit or a later one. This is where the two assumptions of the model (clocks
agree, a prune does not outlast `Retain` runs) are used. `RestorePointIsWhole` follows
from the refinement.

*Restores.* `PlaceInv` follows the disk through a restore: `Order` (which moments and
lifetimes are older than which), `ServerSound` and `MarkerSound` (what a marker vouches
for is whole and not older than the assignment's base), `JobSound` (which volumes are
displaced or swapped at each step), `ReadySound`, `ServingSound` and `KeptSound` (what
was written in this assignment is still there). `Order` and the types hold always, the
rest (`Sound`) as long as nothing went past the decision: a step that does sets `amiss`,
and the quarantine that clears it leaves nothing to say of the disk. A cut-off restore leaves no marker for
the assignment, which is what sends the next placement back to the beginning.

*The repo host.* `ReleaseInv` says that a released lifetime is in no file and in
nothing the operation in progress may still write, the previous configuration that
a rollback puts back included, and that the mounted file equals the Agent's copy
outside the step that replaces it.

*Databases.* The stanza is recorded before it is created, and a placement about to
create it has recorded it (`InventoryInv`). `OnceInv` says that the completions kept
are the end of those accepted and that IDs in the history are in order up to the
longest delay; a late report that had fallen off the list would need more distinct
completions since than there were runs, a pigeonhole argument
over finite sets. `ContinuityInv` ties latch, log and repository: a dropped line that is not
behind the newest full is latched, visible in the log, or seen by the run in progress
(`LatchSound`, `JobSound`), unless the run is blind or the newest full astray.

**Only model-checked.**

* `FitsWhenBound`: about sums over sets, which the model takes with a fold, and an
  operator as a parameter is beyond the provers. That the Project avoids Nodes it
  failed on, the part of the decision that needs no sum, is `FailedNodesAvoided`.
* Liveness, `AuthorizedIsServed` and the properties of the runs in section 6; liveness
  and ENABLED are out of the prover's reach, and so is induction over data (a least
  counterexample from `WFMin` replaces it where a smallest or largest ID is needed).

Only proved: `OneDebtPerGrant`, `TerminatedProven`, `InventoryComplete`.

## 5. Plan

1. *(done)* `ProjectRecord`, `ProjectLifecycle`, `StatusSwap`, `NodeAgent`; the
   refinement of the first by the store's loops; the ledger theorems.
2. *(done)* `OutageClocks` and `FailedBudget`; `Scheduling` with queue and bus;
   `NodeOperations` with claims, rollout and local recovery; `RestorePoint` and
   `BackupRun`; `VolumeRestore`; `RepoHost` and `PostgresBackup`; their first theorems.
3. *(done)* Proofs: both refinements; the data invariants of the record;
   `SnapshotCurrent`; `MovesBounded` and `BackoffServed`; `RolloutForward`;
   `VolumeRestore`; completions and continuity of `PostgresBackup`.
4. *(done)* Proofs: `NodeAgent`, as an extension of the lifecycle and with the
   invariant of the claims.
5. Modules to come: enrolment (tokens, identity), the proxy's route table, the
   takeover's idempotent audit row in `StatusSwap`, the restore of a database
   (`pgrestore.go`).

## 6. Findings

1. **`stale_tick`** – `reconcileOne` acts on the listing the tick began with.
   When the assignment is released after the listing, `runCleanupTasks` in the same
   tick removes and reports its resources, and `reconcileOne` then creates them
   again. The orphan sweep stops and removes them later (`LeftoversReclaimed`), but
   for that time the record says they are gone and may itself be gone. The recovery
   path re-reads the Project for exactly this reason.
2. **`orphan_return`** – the sweep's return-of-ownership path starts containers
   without placing Managed data, and the later reconcile skips placement because
   they run.
3. **`swap_lifetimes`** – the name-keyed loop swaps on the version alone, and a
   recreated record counts versions from 1: a call that spans the recreate can
   write one lifetime's status over another's.
4. **`cold_archive`** – a backup stops the services of the supervisor's copy; a
   service that a rollout has added since runs while the volumes are archived.
5. **`repo_host`** – after a revocation whose reload took effect but was not
   confirmed, authorizing the lifetime again wants exactly the configuration still
   in `applied.conf`; if this call is cut off before its reload too, no later apply
   reloads.
6. **`latch_loss`** – a new latch file counts its events from 1, and `FullAccepted`
   compares only that count. A full chosen at count 2 during which WAL is dropped and the
   file is lost meets a new latch at count 2, and clears it: the next backup is a
   differential over the gap, and losing the file has cost more than one full backup.

## 7. Not modelled and known limits

CLI, configuration, tracing, overlay, object store and stream handlers are I/O
without state of their own. Secrets, validation of specs and formatting are left
out, and wall-clock time is nondeterminism except in `OutageClocks` and
`FailedBudget`. Tokens and enrolment, the proxy's routes, the takeover's audit row and
the restore of a database are listed in `PROJECT.json` as `not_modelled` or `partly`
with what stands in for them.

Behaviour seen while reading that no property covers:

* a Failed Project marked `TakeoverRequired` waits for a takeover that the store
  refuses from Failed (`adapter/project.go:500`, `store.go:2190`);
* scheduling turns an Unknown assignment history into Known (`adapter/project.go:133`);
* a stopped container of an earlier generation on the same Node is reclaimed by no
  path of the health check (`loop.go:970`);
* `deleteNode` lists Projects and then deletes the Node (`handler/node/handler.go:334`);
* two Projects may claim one ingress host (`proxy/route_table.go:94`);
* `UploadTimeout` is not set by the wiring, so an upload that hangs keeps the
  containers stopped (`backup/runner.go:286`);
* a staging directory left by an earlier lifetime of the name keeps the first
  placement of the next one blocked for want of a backup (`restore/decision.go:210`);
* recovery claims a Project after it has inspected it (`loop.go:960`, `loop.go:1115`): if
  a backup ends in between, it spends an attempt on containers that are up, and repeated
  often enough reports the Project Failed without a fault;
* an error that wraps a context's ends a controller's only worker while the server goes on
  (`manager.go:186`);
* a delayed completion report of an older backup becomes `LastCompletion`.
