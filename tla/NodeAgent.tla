------------------------------ MODULE NodeAgent ------------------------------
(***************************************************************************)
(* The Agents (internal/agent) next to the record of one Project: what     *)
(* each Node's Docker daemon holds for it, and the poll loop that creates, *)
(* stops, removes and accounts for it.                                     *)
(*                                                                         *)
(* A Node's poll loop is one goroutine, so a tick is a sequence of steps:  *)
(* list the assigned Projects and sweep orphans, work through the cleanup  *)
(* tasks, then act on the Project from the snapshot the tick began with.   *)
(* Between the steps the server moves on, other Nodes tick, and calls are  *)
(* lost or arrive after the caller has given up.  The sweep reads only the *)
(* snapshot and local state, so it shares the step that takes it.          *)
(*                                                                         *)
(* Container names are made of the Project and the service, so a daemon    *)
(* holds the containers of at most one assignment of the name; one         *)
(* container stands for all services.  Networks and Ephemeral volumes go   *)
(* with it.  Managed data is the provenance marker at the active path; an  *)
(* object store is configured.                                             *)
(***************************************************************************)
EXTENDS ProjectLifecycle

CONSTANTS ManagedChoices,  \* what CreateProject may declare, a subset of BOOLEAN
          MaxLate,         \* bound: reports in flight after their caller gave up
          MaxCrash         \* bound: Agent restarts

ASSUME AgentBounds == ManagedChoices \subseteq BOOLEAN /\ MaxLate \in Nat /\ MaxCrash \in Nat

VARIABLES
  held,      \* per Node: the assignment its containers are labelled with, and
             \* whether they run
  data,      \* per Node: the provenance marker of the local Managed data
  pc,        \* per Node: where its tick is
  snap,      \* per Node: the Project as the tick's listing showed it
  task,      \* per Node: the revalidated cleanup task
  tracked,   \* per Node and UID: the orphan tracker's state
  inflight,  \* reports that may still reach the server
  crashes,   \* Agent restarts so far
  late       \* for the properties only: the assignments a tick created something
             \* for when they were no longer the current one

agentVars == <<held, data, pc, snap, task, tracked, inflight, crashes, late>>
allVars == <<vars, agentVars>>

NoHold == [uid |-> NoUID, gen |-> 0, run |-> FALSE]
NoData == [uid |-> NoUID, gen |-> 0]
NoTask == [uid |-> NoUID, gen |-> 0, resolved |-> FALSE, owed |-> FALSE]
NoSnap == [uid |-> NoUID, gen |-> 0, phase |-> "Pending", managed |-> FALSE, restorable |-> FALSE]

\* ListProjectsAssignedToNode as n would read it now.  restorable: what an
\* empty active path can be filled with (InitializeEmpty on the first
\* placement, otherwise the committed backup).
Listing(n) ==
  IF uid # NoUID /\ status.nodeRef = n
    THEN [uid |-> uid, gen |-> status.gen, phase |-> status.phase, managed |-> managed,
          restorable |-> status.hasBackup \/ (status.gen = 1 /\ status.history # "Unknown")]
    ELSE NoSnap

FenceOf(p, n) == [uid |-> p.uid, node |-> n, gen |-> p.gen]

InitAgents ==
  /\ held = [n \in Node |-> NoHold]
  /\ data = [n \in Node |-> NoData]
  /\ pc = [n \in Node |-> "idle"]
  /\ snap = [n \in Node |-> NoSnap]
  /\ task = [n \in Node |-> NoTask]
  /\ tracked = [n \in Node |-> [u \in UID |-> "no"]]
  /\ inflight = {}
  /\ crashes = 0
  /\ late = {}

\* The tick goes on to next, keeping only what the rest of it reads.
Goto(n, next) ==
  /\ pc' = [pc EXCEPT ![n] = next]
  /\ snap' = IF next = "idle" THEN [snap EXCEPT ![n] = NoSnap] ELSE snap
  /\ task' = IF next \in {"idle", "act"} THEN [task EXCEPT ![n] = NoTask] ELSE task

------------------------------------------------------------------------------
(* Docker.                                                                 *)

\* checkStaleContainers and checkExistingOwnership: no container of the name
\* belongs to another assignment.
Adoptable(n, p) == held[n] = NoHold \/ (held[n].uid = p.uid /\ held[n].gen = p.gen)

\* For the properties: n creates, or tries to create, something for p.
Creates(n, p) ==
  late' = late \union (IF FenceMatches(FenceOf(p, n)) THEN {} ELSE {FenceOf(p, n)})

\* ReconcileProject and RecoverServices: the containers of p exist and run.
StartContainers(n, p) ==
  /\ held' = [held EXCEPT ![n] = [uid |-> p.uid, gen |-> p.gen, run |-> TRUE]]
  /\ Creates(n, p)

\* A start that fails: whatever of p it had made or started by then is left, or
\* rollback, the removal of a dead container before its recreation, or nothing
\* at all left none.
StartFails(n, p) ==
  \E h \in {NoHold, held[n]} \union [uid : {p.uid}, gen : {p.gen}, run : BOOLEAN] :
    held' = [held EXCEPT ![n] = h] /\ Creates(n, p)

\* RemoveAssignment: the containers for which gone holds, if they are there.
RemoveContainers(n, gone) == held' = [held EXCEPT ![n] = IF gone THEN NoHold ELSE @]

\* A container exits on its own.
ContainerExits(n) ==
  /\ held[n].run
  /\ held' = [held EXCEPT ![n].run = FALSE]
  /\ UNCHANGED <<vars, data, pc, snap, task, tracked, inflight, crashes, late>>

------------------------------------------------------------------------------
(* Reports.  A call reaches the server and is answered, or the caller gives *)
(* up on it and it is lost or still arrives later.                         *)

Accepted(m) ==
  CASE m.kind = "removed" -> RecordResourcesRemoved(m.fence)
    [] m.kind = "quarantined" -> RecordManagedDataQuarantined(m.fence)
    [] m.kind = "phase" -> PatchStatus(m.fence, m.phase)

Acceptable(m) ==
  CASE m.kind = "phase" -> FenceMatches(m.fence) /\ CanReport(status, m.phase)
    [] OTHER -> uid = m.fence.uid /\ HasObligation(status.obligations, m.fence.node, m.fence.gen)

\* The answered call: the tick goes on to next if it was accepted, to refused
\* if the server would not have it.
Call(n, m, next, refused) ==
  \/ /\ Accepted(m)
     /\ Goto(n, next)
     /\ UNCHANGED inflight
  \/ /\ ~Acceptable(m)
     /\ Goto(n, refused)
     /\ UNCHANGED <<vars, inflight>>

CallFails(n, m, next) ==
  /\ Goto(n, next)
  /\ \/ UNCHANGED inflight
     \/ /\ Cardinality(inflight) < MaxLate
        /\ inflight' = inflight \union {m}
  /\ UNCHANGED vars

LateArrival(m) ==
  /\ inflight' = inflight \ {m}
  /\ Accepted(m) \/ (~Acceptable(m) /\ UNCHANGED vars)
  /\ UNCHANGED <<held, data, pc, snap, task, tracked, crashes, late>>

------------------------------------------------------------------------------
(* The tick: listing and orphan sweep.                                     *)

Active(p) == p.phase \in {"Scheduled", "Running"}

IsStopped(st) == st \in {"stopped", "reset"}

\* Seeded fault: a grace period that was reset is never started again.
ObserveOnce(n, p, u, done) ==
  LET st == tracked[n][u] IN
  CASE p.uid = u -> IF IsStopped(st) /\ Active(p) /\ ~(u \in done /\ Adoptable(n, p)) THEN st ELSE "no"
    [] p.uid # u /\ st = "reset" -> "reset"
    [] p.uid # u /\ st = "stopped" -> IF u \in done THEN "no" ELSE "stopped"
    [] p.uid # u /\ st \in {"no", "seen"} ->
         IF held[n].uid # u THEN "no" ELSE IF u \in done THEN "stopped" ELSE "seen"

\* What one sweep makes of lifetime u, done holding the lifetimes whose Docker
\* call succeeded (and, for a removal, whose grace period is over).
Observe(n, p, u, done) ==
  LET st == tracked[n][u] IN
  CASE p.uid = u /\ IsStopped(st) /\ Active(p) /\ ~(u \in done /\ Adoptable(n, p)) -> st
    [] p.uid = u /\ ~(IsStopped(st) /\ Active(p) /\ ~(u \in done /\ Adoptable(n, p))) -> "no"
    [] p.uid # u /\ st = "reset" -> "stopped"
    [] p.uid # u /\ st = "stopped" -> IF u \in done THEN "no" ELSE "stopped"
    [] p.uid # u /\ st \in {"no", "seen"} ->
         IF held[n].uid # u THEN "no" ELSE IF u \in done THEN "stopped" ELSE "seen"

\* Containers whose ownership returned are started; containers of a lifetime
\* not assigned here are stopped first and removed after the grace period.
SweepOrphans(n, p, done) ==
  /\ tracked' = [tracked EXCEPT ![n] = [u \in UID |-> Observe(n, p, u, done)]]
  /\ LET h == held[n] IN
     IF p.uid # NoUID /\ IsStopped(tracked[n][p.uid]) /\ Active(p) /\ Adoptable(n, p)
       THEN IF p.uid \in done THEN StartContainers(n, p) ELSE StartFails(n, p)
     ELSE IF h = NoHold \/ h.uid = p.uid \/ h.uid \notin done \/ tracked[n][h.uid] = "reset"
       THEN UNCHANGED <<held, late>>
     ELSE IF tracked[n][h.uid] = "stopped"
       THEN RemoveContainers(n, TRUE) /\ UNCHANGED late
     ELSE held' = [held EXCEPT ![n].run = FALSE] /\ UNCHANGED late

Tick(n, done) ==
  /\ pc[n] = "idle"
  /\ snap' = [snap EXCEPT ![n] = Listing(n)]
  /\ SweepOrphans(n, Listing(n), done)
  /\ pc' = [pc EXCEPT ![n] = "cleanup"]
  /\ UNCHANGED <<vars, data, task, inflight, crashes>>

\* The listing fails: resetGrace, and nothing else happens this tick.
ListFails(n) ==
  /\ pc[n] = "idle"
  /\ tracked' = [tracked EXCEPT ![n] = [u \in UID |-> IF @[u] = "stopped" THEN "reset" ELSE @[u]]]
  /\ UNCHANGED <<vars, held, data, pc, snap, task, inflight, crashes, late>>

------------------------------------------------------------------------------
(* The tick: cleanup tasks.  A Node owes at most one at a time, because it *)
(* is not assigned again before the last is settled.                       *)

RevalidateCleanup(n) ==
  /\ pc[n] = "cleanup"
  /\ uid # NoUID /\ status.nodeRef # n
  /\ \E o \in Owing(status.obligations) :
       /\ o.node = n
       /\ task' = [task EXCEPT ![n] = [uid |-> uid, gen |-> o.gen, resolved |-> o.removed,
                                       owed |-> DataOutstanding(o)]]
  /\ pc' = [pc EXCEPT ![n] = "remove"]
  /\ UNCHANGED <<vars, held, data, snap, tracked, inflight, crashes, late>>

\* No task, or none that could be claimed or revalidated.
SkipCleanup(n) ==
  /\ pc[n] = "cleanup"
  /\ Goto(n, "act")
  /\ UNCHANGED <<vars, held, data, tracked, inflight, crashes, late>>

AfterRemoval(n) == IF ~task[n].resolved THEN "report" ELSE IF task[n].owed THEN "data" ELSE "act"

\* Seeded fault: the report goes out although the removal failed.
RunCleanupTaskUnchecked(n) ==
  /\ pc[n] = "remove"
  /\ Goto(n, AfterRemoval(n))
  /\ UNCHANGED <<vars, held, data, tracked, inflight, crashes, late>>

RunCleanupTask(n) ==
  /\ pc[n] = "remove"
  /\ RemoveContainers(n, held[n].uid = task[n].uid /\ held[n].gen = task[n].gen)
  /\ Goto(n, AfterRemoval(n))
  /\ UNCHANGED <<vars, data, tracked, inflight, crashes, late>>

CleanupReport(n) == [kind |-> "removed", fence |-> FenceOf(task[n], n), phase |-> "none"]

ReportResourcesRemoved(n) ==
  /\ pc[n] = "report"
  /\ Call(n, CleanupReport(n), IF task[n].owed THEN "data" ELSE "act", "act")
  /\ UNCHANGED <<held, data, tracked, crashes, late>>

\* Seeded fault: the data is reported moved and is not.
QuarantineNothing(n) ==
  /\ pc[n] = "data"
  /\ Goto(n, "quarantined")
  /\ UNCHANGED <<vars, held, data, tracked, inflight, crashes, late>>

\* restore.Quarantine: data of another assignment is left alone.
QuarantineManagedData(n) ==
  /\ pc[n] = "data"
  /\ data' = [data EXCEPT ![n] =
                 IF @ = [uid |-> task[n].uid, gen |-> task[n].gen] THEN NoData ELSE @]
  /\ Goto(n, "quarantined")
  /\ UNCHANGED <<vars, held, tracked, inflight, crashes, late>>

QuarantineReport(n) == [kind |-> "quarantined", fence |-> FenceOf(task[n], n), phase |-> "none"]

ReportManagedDataQuarantined(n) ==
  /\ pc[n] = "quarantined"
  /\ Call(n, QuarantineReport(n), "act", "act")
  /\ UNCHANGED <<held, data, tracked, crashes, late>>

------------------------------------------------------------------------------
(* The tick: the Project, from the snapshot.                               *)

TerminateOne(n) ==
  /\ pc[n] = "act" /\ snap[n].phase = "Terminating"
  /\ RemoveContainers(n, held[n].uid = snap[n].uid)
  /\ Goto(n, "resolve")
  /\ UNCHANGED <<vars, data, tracked, inflight, crashes, late>>

TeardownReport(n) == [kind |-> "removed", fence |-> FenceOf(snap[n], n), phase |-> "none"]

\* resolveOwnObligations.  A refusal lets termination go on only when the
\* record is still there and the obligation does not stand.
ResolveOwnObligations(n) ==
  /\ pc[n] = "resolve"
  /\ Call(n, TeardownReport(n), "terminated", IF uid = NoUID THEN "idle" ELSE "terminated")
  /\ UNCHANGED <<held, data, tracked, crashes, late>>

PhaseReport(n, ph) == [kind |-> "phase", fence |-> FenceOf(snap[n], n), phase |-> ph]

ReportTerminated(n) ==
  /\ pc[n] = "terminated"
  /\ Call(n, PhaseReport(n, "Terminated"), "idle", "idle")
  /\ UNCHANGED <<held, data, tracked, crashes, late>>

\* decideRestore: the local data is this assignment's, or the active path is
\* empty and can be filled.
Placeable(n, p) ==
  \/ ~p.managed
  \/ data[n] = [uid |-> p.uid, gen |-> p.gen]
  \/ data[n] = NoData /\ p.restorable

\* reconcileOne, up to the containers running.  When they already run the
\* data is not looked at again.
ReconcileOne(n) ==
  /\ pc[n] = "act" /\ snap[n].phase = "Scheduled"
  /\ Adoptable(n, snap[n])
  /\ IF held[n].run
       THEN UNCHANGED <<held, data, late>>
       ELSE /\ Placeable(n, snap[n])
            /\ data' = [data EXCEPT ![n] = IF snap[n].managed
                          THEN [uid |-> snap[n].uid, gen |-> snap[n].gen] ELSE @]
            /\ StartContainers(n, snap[n])
  /\ Goto(n, "started")
  /\ UNCHANGED <<vars, tracked, inflight, crashes>>

\* ensureVolumeData placed the data, ReconcileProject failed and rolled back.
ReconcileFails(n) ==
  /\ pc[n] = "act" /\ snap[n].phase = "Scheduled"
  /\ Adoptable(n, snap[n]) /\ ~held[n].run /\ Placeable(n, snap[n])
  /\ data' = [data EXCEPT ![n] = IF snap[n].managed
                THEN [uid |-> snap[n].uid, gen |-> snap[n].gen] ELSE @]
  /\ StartFails(n, snap[n])
  /\ Goto(n, "failed")
  /\ UNCHANGED <<vars, tracked, inflight, crashes>>

ReportRunning(n) ==
  /\ pc[n] = "started"
  /\ Call(n, PhaseReport(n, "Running"), "idle", "idle")
  /\ UNCHANGED <<held, data, tracked, crashes, late>>

\* Any of the failures reconcileOne, healthCheckOne and recoverLocally report, a
\* failed inspection of containers that run among them.
ReportFailed(n) ==
  /\ \/ pc[n] = "act" /\ Active(snap[n]) /\ Adoptable(n, snap[n])
     \/ pc[n] = "failed"
  /\ Call(n, PhaseReport(n, "Failed"), "idle", "idle")
  /\ UNCHANGED <<held, data, tracked, crashes, late>>

\* healthCheckOne finds containers down; recoverLocally re-reads the Project
\* and goes on only if this assignment still stands and is Running.
RecheckBeforeRecovery(n) ==
  /\ pc[n] = "act" /\ snap[n].phase = "Running"
  /\ Adoptable(n, snap[n]) /\ ~held[n].run
  /\ FenceMatches(FenceOf(snap[n], n)) /\ status.phase = "Running"
  /\ Goto(n, "recover")
  /\ UNCHANGED <<vars, held, data, tracked, inflight, crashes, late>>

\* RecoverServices.  Its preflight asks for the directory of every volume, not for
\* the marker; whether an unmarked directory is there is not modelled, so it may
\* pass or refuse (GiveUp).
RecoverLocally(n) ==
  /\ pc[n] = "recover"
  /\ StartContainers(n, snap[n]) \/ StartFails(n, snap[n])
  /\ Goto(n, "idle")
  /\ UNCHANGED <<vars, data, tracked, inflight, crashes>>

\* Nothing to do, blocked, busy, or a Docker call failed: a cleanup task is left
\* for the next tick, and so is the Project.
GiveUp(n) ==
  /\ pc[n] \in {"remove", "data", "act", "recover"}
  /\ Goto(n, IF pc[n] \in {"remove", "data"} THEN "act" ELSE "idle")
  /\ UNCHANGED <<vars, held, data, tracked, inflight, crashes, late>>

\* A report the caller gives up on.
ReportFails(n) ==
  /\ \/ pc[n] = "report" /\ CallFails(n, CleanupReport(n), "act")
     \/ pc[n] = "quarantined" /\ CallFails(n, QuarantineReport(n), "act")
     \/ pc[n] = "resolve" /\ CallFails(n, TeardownReport(n), "idle")
     \/ pc[n] = "terminated" /\ CallFails(n, PhaseReport(n, "Terminated"), "idle")
     \/ pc[n] = "started" /\ CallFails(n, PhaseReport(n, "Running"), "idle")
     \/ /\ pc[n] = "failed" \/ (pc[n] = "act" /\ Active(snap[n]) /\ Adoptable(n, snap[n]))
        /\ CallFails(n, PhaseReport(n, "Failed"), "idle")
  /\ UNCHANGED <<held, data, tracked, crashes, late>>

\* The Agent restarts: its containers and data stay, its memory does not.
Crash(n) ==
  /\ crashes < MaxCrash
  /\ crashes' = crashes + 1
  /\ pc' = [pc EXCEPT ![n] = "idle"]
  /\ snap' = [snap EXCEPT ![n] = NoSnap]
  /\ task' = [task EXCEPT ![n] = NoTask]
  /\ tracked' = [tracked EXCEPT ![n] = [u \in UID |-> "no"]]
  /\ UNCHANGED <<vars, held, data, inflight, late>>

------------------------------------------------------------------------------

\* The server's own steps.  No Agent reports WorkloadStopped yet, so a Failed
\* Project is never moved and a release goes through grace or an operator.
ServerSide ==
  /\ \/ \E u \in UID, m \in ManagedChoices : CreateProject(u, m)
     \/ ForceDelete
     \/ \E u \in UID : DeleteImmediately(u) \/ MarkTerminating(u) \/ FinalizeProject(u)
     \/ \E n \in Node : SetProjectScheduled(n) \/ ClearRescheduleClocks(n)
     \/ \E f \in Fence : ReleaseAssignment(f) \/ TakeoverProject(f) \/ RecordCommittedBackup(f)
  /\ UNCHANGED agentVars

AgentSide(n) ==
  \/ \E done \in SUBSET UID : Tick(n, done)
  \/ ListFails(n)
  \/ RevalidateCleanup(n) \/ SkipCleanup(n) \/ RunCleanupTask(n)
  \/ ReportResourcesRemoved(n) \/ QuarantineManagedData(n) \/ ReportManagedDataQuarantined(n)
  \/ TerminateOne(n) \/ ResolveOwnObligations(n) \/ ReportTerminated(n)
  \/ ReconcileOne(n) \/ ReconcileFails(n) \/ ReportRunning(n) \/ ReportFailed(n)
  \/ RecheckBeforeRecovery(n) \/ RecoverLocally(n)
  \/ GiveUp(n) \/ ReportFails(n) \/ Crash(n) \/ ContainerExits(n)

SystemInit ==
  /\ Init
  /\ uid = NoUID
  /\ InitAgents

SystemNext ==
  \/ ServerSide
  \/ \E n \in Node : AgentSide(n)
  \/ \E m \in inflight : LateArrival(m)

SystemSpec == SystemInit /\ [][SystemNext]_allVars
------------------------------------------------------------------------------
(* Fairness.  The poll ticker fires for ever, a tick that began goes on,   *)
(* and the termination controller resyncs.  Calls and Docker operations    *)
(* may fail for as long as they like but not for ever.  Nothing is assumed *)
(* of users, operators, scheduling or releases.                            *)

\* A call or a Docker operation of n fails, or a task that stands is not taken.
StepFails(n) ==
  \/ ListFails(n)
  \/ ReportFails(n)
  \/ GiveUp(n) /\ (pc[n] # "act" \/ snap[n].phase = "Terminating")
  \/ SkipCleanup(n) /\ uid # NoUID /\ status.nodeRef # n
                    /\ n \in NodesOwingCleanup(status.obligations)

TickGoesOn(n) == AgentSide(n) /\ pc'[n] # pc[n]

\* A tick that finds Docker working and every grace period over.
FullTick(n) == Tick(n, UID)

Fairness ==
  /\ <>[][\A n \in Node : ~StepFails(n)]_allVars
  /\ \A n \in Node : WF_allVars(TickGoesOn(n)) /\ SF_allVars(FullTick(n))
  /\ \A u \in UID : WF_allVars(FinalizeProject(u) /\ UNCHANGED agentVars)

LiveSystemSpec == SystemSpec /\ Fairness

------------------------------------------------------------------------------
(* Properties.                                                             *)

\* Whether the record still answers for the containers on n: their lifetime was
\* force-deleted, or it is live and nobody has reported them removed.
Covered(n) ==
  \/ held[n] = NoHold
  \/ removal[held[n].uid] = "forced"
  \/ uid = held[n].uid /\ ~ResourcesRemovedFor(status.obligations, n, held[n].gen)

\* The record outlives every runtime resource created under a standing
\* assignment: it is never finalized, and ResourcesRemoved is never on record,
\* while such containers are on the Node, whatever reports are lost, late or
\* repeated and whichever Agent restarts.
ResourcesCovered == \A n \in Node : Covered(n) \/ FenceOf(held[n], n) \in late

\* The same for every container, as FinalizationBlocker's comment has it ("The
\* record must outlive every runtime resource it represents, on every Node that
\* may hold some").
RecordOutlivesEveryResource == \A n \in Node : Covered(n)

\* While a Project reads Running, the Node it names holds no containers but the
\* current assignment's: neither a report that arrives late, a stale tick nor a
\* recovery leaves another generation's or another lifetime's workload to pass for
\* it.  It may hold none: the sweep's rollback and a failed recovery remove
\* containers, and the next health check finds that.
RunningIsNotStale ==
  (uid # NoUID /\ status.phase = "Running") =>
    \A n \in Node : status.nodeRef = n =>
      held[n] = NoHold \/ (held[n].uid = uid /\ held[n].gen = status.gen)

\* Two Nodes run the same lifetime at once only where the server accepted that:
\* the older assignment was released by grace or by an operator, not cleaned up
\* yet, or its containers were started for an assignment already gone.
OverlapAuthorized ==
  \A n, k \in Node :
    (n # k /\ held[n].run /\ held[k].run /\ held[n].uid = uid /\ held[k].uid = uid) =>
      \/ FenceOf(held[n], n) \in late \/ FenceOf(held[k], k) \in late
      \/ \E m \in {n, k}, o \in status.obligations :
           Names(o, m, held[m].gen) /\ o.auth \in {"GraceExpired", "OperatorOverride"}

\* Containers that may mount Managed data run only once this assignment's data is
\* in place (reconcileOne: "Managed volume data must be in place before any
\* container can mount it").
ManagedDataInPlace ==
  \A n \in Node :
    (managed /\ held[n].run /\ held[n].uid = uid /\ Held([node |-> n, gen |-> held[n].gen])) =>
      data[n] = [uid |-> held[n].uid, gen |-> held[n].gen]

\* ManagedDataQuarantined is a statement about the disk: once it is on record, the
\* released assignment's bytes are not at the path the next placement would use,
\* however often the task is retried, unless a stale tick put new ones there.
QuarantineProven ==
  \A o \in status.obligations :
    o.quarantined => \/ data[o.node] # [uid |-> uid, gen |-> o.gen]
                     \/ [uid |-> uid, node |-> o.node, gen |-> o.gen] \in late

\* A deletion completes: the record of a Project being deleted goes, since every
\* Node that ever held it gets to remove and report, and the termination
\* controller then finds nothing that blocks it.
DeletionCompletes == []<>(uid = NoUID \/ status.phase \notin {"Terminating", "Terminated"})

\* Nothing is left behind for ever: containers of a lifetime whose record is gone,
\* by force or because a stale tick created them after the evidence, are
\* stopped and removed by the orphan sweep.
LeftoversReclaimed ==
  []<>(\A n \in Node : held[n].uid # NoUID => removal[held[n].uid] = "live")
==============================================================================
