----------------------------- MODULE NodeOperations -----------------------------
(***************************************************************************)
(* What one Agent does to the containers of one Running assignment: the    *)
(* poll loop (health check, spec update, local recovery), the offline      *)
(* backup that stops and starts them, and the coordinator's claim that     *)
(* keeps the operations apart.  The poll loop and the backup goroutine run *)
(* concurrently and act on copies of the record; containers fail, Docker   *)
(* calls fail part-way, requests fail, and the Agent may die anywhere.     *)
(* Container labels are assumed to be this assignment's: NodeAgent models  *)
(* the others.                                                             *)
(***************************************************************************)
EXTENDS Integers, Sequences, FiniteSets

CONSTANTS Manifest,        \* spec revisions: per revision, each service's hash, 0 if not in it
          MaxRecoveryAttempts,
          OpLimits         \* bounds: how many faults, backups and Agent restarts a behaviour has

Service == DOMAIN Manifest[1]

ASSUME OperationsConstants ==
  /\ MaxRecoveryAttempts \in Nat \ {0}
  /\ \A r \in DOMAIN Manifest : Manifest[r] \in [Service -> Nat]
  /\ OpLimits \subseteq [faults: Nat, backups: Nat, restarts: Nat, revisions: Nat]

VARIABLES
  project,    \* the server's record of the Project
  container,  \* per service: what its container was built from and its Docker status
  claim,      \* the coordinator's claim
  poll,       \* the poll loop
  snapshot,   \* the supervisor's copy of the Project, 0 until Sync gives it one
  backup,     \* the backup goroutine
  tracker,    \* the recovery tracker
  routed,     \* the proxy's routes point at the containers as they are
  opLeft      \* what is left of the bounds

opVars == <<project, container, claim, poll, snapshot, backup, tracker, routed, opLeft>>

IdlePoll == [pc |-> "idle", p |-> 0, maintenance |-> FALSE, upToDate |-> FALSE, bad |-> {}]
IdleBackup == [pc |-> "idle", p |-> 0]
NewTracker == [attempts |-> 0, elapsed |-> FALSE, stuck |-> 0, failures |-> 0, of |-> 0]
NoContainer == [hash |-> 0, status |-> "missing"]

Declared(r) == {s \in Service : Manifest[r][s] # 0}

OpInit ==
  /\ project = [rev |-> 1, observed |-> 1, maintenance |-> FALSE, assigned |-> TRUE,
                failed |-> FALSE, blocked |-> FALSE]
  /\ container = [s \in Service |-> IF s \in Declared(1)
                    THEN [hash |-> Manifest[1][s], status |-> "running"] ELSE NoContainer]
  /\ claim = "none" /\ poll = IdlePoll /\ snapshot = 0 /\ backup = IdleBackup
  /\ tracker = NewTracker /\ routed = TRUE /\ opLeft \in OpLimits

Fault == opLeft.faults > 0 /\ opLeft' = [opLeft EXCEPT !.faults = @ - 1]

------------------------------------------------------------------------------
(* How containers differ from a spec.                                      *)

Outdated(r) == {s \in Declared(r) : container[s].status # "missing"
                                      /\ container[s].hash # Manifest[r][s]}
Missing(r) == {s \in Declared(r) : container[s].status = "missing"}
Removed(r) == {s \in Service \ Declared(r) : container[s].status # "missing"}
Changes(r) == Outdated(r) \union Removed(r) # {}

\* A missing container is an interrupted update only until the revision is
\* reported running; then it is a crash.
SpecUpdateNeeded(r, observed) == Changes(r) \/ (observed < r /\ Missing(r) # {})

Unhealthy(r) == {s \in Declared(r) : container[s].status # "running"}
HasStatus(bad, status) == \E s \in bad : container[s].status = status

------------------------------------------------------------------------------
(* The poll loop.  Each step ends the tick or goes on.                     *)

PollTo(pc) == poll' = [poll EXCEPT !.pc = pc]
EndTick == poll' = IdlePoll

\* reconcileProjects: the listing feeds the supervisor's Sync and the tracker.
ListProjects ==
  /\ poll.pc = "idle"
  /\ IF project.assigned /\ ~project.failed
       THEN /\ poll' = [IdlePoll EXCEPT !.pc = "listed", !.p = project.rev,
                          !.maintenance = project.maintenance]
            /\ snapshot' = project.rev
            /\ UNCHANGED tracker
       ELSE /\ poll' = IdlePoll /\ snapshot' = 0
            /\ tracker' = IF project.assigned THEN tracker ELSE NewTracker
  /\ UNCHANGED <<project, container, claim, backup, routed, opLeft>>

\* IsBusy, then the start of healthCheckOne: a Project under maintenance by the
\* listing is not judged.
Dispatch ==
  /\ poll.pc = "listed"
  /\ IF claim # "none" THEN EndTick /\ UNCHANGED tracker
     ELSE IF poll.maintenance THEN EndTick /\ tracker' = [tracker EXCEPT !.stuck = 0]
     ELSE PollTo("drift") /\ UNCHANGED tracker
  /\ UNCHANGED <<project, container, claim, snapshot, backup, routed, opLeft>>

\* applySpecUpdate up to its claim.  The retry interval is over when Docker's
\* and the images' state may have changed: any time.
CompareSpec ==
  /\ poll.pc = "drift"
  /\ IF ~SpecUpdateNeeded(poll.p, project.observed)
       THEN /\ poll' = [poll EXCEPT !.pc = "inspect",
                          !.upToDate = ~Changes(poll.p) /\ Missing(poll.p) = {}]
            /\ UNCHANGED claim
       ELSE IF claim = "none"
         THEN claim' = "update" /\ PollTo("update")
         ELSE EndTick /\ UNCHANGED claim
  /\ UNCHANGED <<project, container, snapshot, backup, tracker, routed, opLeft>>

\* The fence and the maintenance check, on a fresh copy.
StillOurs == project.assigned /\ ~project.failed /\ ~project.maintenance

\* The re-read: refused, nothing to do any more, or the revision to bring the
\* containers to.
BeginUpdate ==
  /\ poll.pc = "update"
  /\ IF StillOurs /\ SpecUpdateNeeded(project.rev, project.observed)
       THEN /\ poll' = [poll EXCEPT !.pc = "replace", !.p = project.rev]
            /\ UNCHANGED claim
       ELSE /\ IF StillOurs THEN PollTo("inspect") ELSE EndTick
            /\ claim' = "none"
  /\ UNCHANGED <<project, container, snapshot, backup, tracker, routed, opLeft>>

Built(r, s, status) == [hash |-> Manifest[r][s], status |-> status]

\* UpdateServices: outdated and removed containers go, then those of the spec
\* are created.
UpdateServices ==
  LET r == poll.p
      build == Outdated(r) \union Missing(r)
  IN /\ poll.pc = "replace"
     /\ container' = [s \in Service |->
                        IF s \in build THEN Built(r, s, "running")
                        ELSE IF s \in Removed(r) THEN NoContainer ELSE container[s]]
     /\ routed' = FALSE
     /\ tracker' = [tracker EXCEPT !.failures = 0, !.of = 0]
     /\ PollTo("report")
     /\ UNCHANGED <<project, claim, snapshot, backup, opLeft>>

\* It fails before anything is touched, with a Secret or a pull: not counted.
UpdateRefused ==
  /\ poll.pc = "replace" /\ Fault
  /\ tracker' = [tracker EXCEPT !.of = poll.p,
                                !.failures = IF tracker.of = poll.p THEN @ ELSE 0]
  /\ claim' = "none" /\ EndTick
  /\ UNCHANGED <<project, container, snapshot, backup, routed>>

\* The containers when some are gone, some are made, and the last one is half done.
LeftBehind(r, gone, made, half) ==
  [s \in Service |->
     IF s \in made THEN Built(r, s, IF s \in half THEN "exited" ELSE "running")
     ELSE IF s \in gone THEN NoContainer
     ELSE IF s \in half \ Missing(r) THEN [container[s] EXCEPT !.status = "exited"]
     ELSE container[s]]

\* It fails in Docker: at an inspect, at a container that stops and is not removed,
\* or at one that is created and does not start.  That is counted per revision,
\* whether or not anything was touched, and in the end reported Failed.
UpdateFails ==
  LET r == poll.p
      going == Outdated(r) \union Removed(r)
      build == Outdated(r) \union Missing(r)
  IN /\ poll.pc = "replace" /\ Fault
     /\ \E gone \in SUBSET going, made \in SUBSET build, half \in SUBSET (going \union build) :
          /\ \A s, t \in half : s = t
          /\ made # {} => gone = going
          /\ container' = LeftBehind(r, gone, made, half)
     /\ tracker' = [tracker EXCEPT !.of = r,
                                   !.failures = IF tracker.of = r THEN @ + 1 ELSE 1]
     /\ project' = [project EXCEPT !.failed = project.assigned
                                              /\ tracker'.failures >= MaxRecoveryAttempts]
     /\ routed' = FALSE
     /\ claim' = "none" /\ EndTick
     /\ UNCHANGED <<snapshot, backup>>

\* RecordSpecApplied on the server: a report of the past changes nothing.
SpecApplied(r) ==
  [project EXCEPT !.observed = IF project.assigned /\ r > @ THEN r ELSE @]

\* The report, lost or not, then the routes.
ReportSpecApplied ==
  /\ poll.pc = "report"
  /\ \/ project' = SpecApplied(poll.p) /\ UNCHANGED opLeft
     \/ Fault /\ UNCHANGED project
  /\ routed' = TRUE /\ claim' = "none" /\ EndTick
  /\ UNCHANGED <<container, snapshot, backup, tracker>>

\* Seeded fault: the newest revision is reported, not the one compared.
ReportRunningNewest == SpecApplied(project.rev)

\* Seeded fault: only an update reports the revision it brought.
ReportRunningNever == project

\* reportSpecRunning.
ReportRunning == SpecApplied(poll.p)

\* The rest of healthCheckOne: the containers are healthy, ...
JudgeHealthy ==
  /\ poll.pc = "inspect" /\ Unhealthy(poll.p) = {}
  /\ tracker' = [tracker EXCEPT !.attempts = 0, !.elapsed = FALSE, !.stuck = 0]
  /\ project' = [(IF poll.upToDate THEN ReportRunning ELSE project) EXCEPT !.blocked = FALSE]
  /\ routed' = TRUE /\ EndTick
  /\ UNCHANGED <<container, claim, snapshot, backup, opLeft>>

\* ... need a human (paused, stuck restarting, impossible to inspect), ...
JudgeFailed ==
  LET bad == Unhealthy(poll.p) IN
  /\ poll.pc = "inspect"
  /\ \/ HasStatus(bad, "paused") /\ UNCHANGED opLeft
     \/ HasStatus(bad, "restarting") /\ tracker.stuck = 2 /\ UNCHANGED opLeft
     \/ Fault
  /\ project' = [project EXCEPT !.failed = project.assigned]
  /\ tracker' = [tracker EXCEPT !.stuck = 0]
  /\ EndTick
  /\ UNCHANGED <<container, claim, snapshot, backup, routed>>

\* ... are restarting, which is left to settle, ...
JudgeRestarting ==
  LET bad == Unhealthy(poll.p) IN
  /\ poll.pc = "inspect" /\ HasStatus(bad, "restarting") /\ ~HasStatus(bad, "paused")
  /\ tracker.stuck < 2
  /\ tracker' = [tracker EXCEPT !.stuck = IF @ = 0 THEN 1 ELSE @]
  /\ EndTick
  /\ UNCHANGED <<project, container, claim, snapshot, backup, routed, opLeft>>

\* Seeded fault: recovery does not wait for the claim.
RecoveryMayRunUnclaimed == TRUE

\* TryClaim, in recoverLocally.
RecoveryMayRun == claim = "none"

\* ... or are for local recovery.
JudgeBroken ==
  LET bad == Unhealthy(poll.p) IN
  /\ poll.pc = "inspect" /\ bad # {}
  /\ \A s \in bad : container[s].status \in {"exited", "missing"}
  /\ tracker' = [tracker EXCEPT !.stuck = 0]
  /\ poll' = [poll EXCEPT !.pc = "broken", !.bad = bad]
  /\ UNCHANGED <<project, container, claim, snapshot, backup, routed, opLeft>>

\* recoverLocally claims the Project after that inspection: what is down may by now
\* be a backup's doing, or may have been when it was inspected.
ClaimRecovery ==
  /\ poll.pc = "broken"
  /\ IF RecoveryMayRun THEN claim' = "recovery" /\ PollTo("recover")
                       ELSE EndTick /\ UNCHANGED claim
  /\ UNCHANGED <<project, container, snapshot, backup, tracker, routed, opLeft>>

\* recoverLocally up to recovery.next(): a fresh copy refuses, or a precondition
\* does not hold, or the tracker says wait, give up, or try.
RefuseRecovery ==
  /\ poll.pc = "recover"
  /\ \/ ~StillOurs /\ UNCHANGED <<project, opLeft>>
     \/ StillOurs /\ Fault /\ project' = [project EXCEPT !.blocked = TRUE]
  /\ claim' = "none" /\ EndTick
  /\ UNCHANGED <<container, snapshot, backup, tracker, routed>>

TrackerNext ==
  /\ poll.pc = "recover" /\ StillOurs
  /\ IF tracker.attempts > 0 /\ ~tracker.elapsed
       THEN /\ project' = [project EXCEPT !.blocked = FALSE]
            /\ claim' = "none" /\ EndTick /\ UNCHANGED tracker
     ELSE IF tracker.attempts >= MaxRecoveryAttempts
       THEN /\ project' = [project EXCEPT !.blocked = FALSE, !.failed = TRUE]
            /\ claim' = "none" /\ EndTick /\ UNCHANGED tracker
     ELSE /\ project' = [project EXCEPT !.blocked = FALSE]
          /\ tracker' = [tracker EXCEPT !.attempts = @ + 1, !.elapsed = FALSE]
          /\ poll' = [poll EXCEPT !.pc = "start", !.p = project.rev]
          /\ UNCHANGED claim
  /\ UNCHANGED <<container, snapshot, backup, routed, opLeft>>

\* RecoverServices: stopped containers are started, missing ones (a dead one is
\* removed and counts as missing) created from the copy re-read.  A Docker call that
\* fails leaves the rest as it was, or a container created and not started.
RecoverServices ==
  LET due == poll.bad \intersect Declared(poll.p) IN
  /\ poll.pc = "start"
  /\ \E started, made \in SUBSET due :
       /\ IF started = due THEN UNCHANGED opLeft ELSE Fault
       /\ container' = [s \in Service |->
            CASE s \in started \union made /\ container[s].status = "missing" ->
                   Built(poll.p, s, IF s \in started THEN "running" ELSE "exited")
              [] s \in started /\ container[s].status = "exited" ->
                   [container[s] EXCEPT !.status = "running"]
              [] OTHER -> container[s]]
  /\ routed' = FALSE
  /\ claim' = "none" /\ EndTick
  /\ UNCHANGED <<project, snapshot, backup, tracker>>

\* Backoffs, the verification wait and the observation of a restart run out.
TimePasses ==
  /\ \/ tracker.attempts > 0 /\ ~tracker.elapsed
     \/ tracker.stuck = 1
  /\ tracker' = [tracker EXCEPT !.elapsed = (@ \/ tracker.attempts > 0),
                                !.stuck = IF @ = 1 THEN 2 ELSE @]
  /\ UNCHANGED <<project, container, claim, poll, snapshot, backup, routed, opLeft>>

------------------------------------------------------------------------------
(* The offline backup: Supervisor.loop and Runner.Run.                     *)

\* The timer fires on the copy of the last Sync.  The interval may be any positive
\* time, so a run may follow another within one tick of the poll loop.
BackupDue ==
  /\ backup.pc = "idle" /\ snapshot # 0 /\ opLeft.backups > 0
  /\ backup' = [pc |-> "claim", p |-> snapshot]
  /\ opLeft' = [opLeft EXCEPT !.backups = @ - 1]
  /\ UNCHANGED <<project, container, claim, poll, snapshot, tracker, routed>>

ClaimBackup ==
  /\ backup.pc = "claim"
  /\ IF claim = "none"
       THEN claim' = "backup" /\ backup' = [backup EXCEPT !.pc = "announce"]
       ELSE backup' = IdleBackup /\ UNCHANGED claim
  /\ UNCHANGED <<project, container, poll, snapshot, tracker, routed, opLeft>>

\* SetMaintenance, fenced; without it nothing is stopped.
SetMaintenance ==
  /\ backup.pc = "announce"
  /\ \/ /\ project.assigned
        /\ project' = [project EXCEPT !.maintenance = TRUE]
        /\ backup' = [backup EXCEPT !.pc = "stop"]
        /\ UNCHANGED <<claim, opLeft>>
     \/ /\ \/ ~project.assigned /\ UNCHANGED opLeft
           \/ Fault
        /\ backup' = IdleBackup /\ claim' = "none"
        /\ UNCHANGED project
  /\ UNCHANGED <<container, poll, snapshot, tracker, routed>>

Stopped(services) ==
  [s \in Service |-> IF s \in services /\ container[s].status # "missing"
                       THEN [container[s] EXCEPT !.status = "exited"] ELSE container[s]]

\* StopProject, which may fail after stopping some.
StopProject ==
  /\ backup.pc = "stop"
  /\ \/ /\ container' = Stopped(Declared(backup.p))
        /\ backup' = [backup EXCEPT !.pc = "archive"] /\ UNCHANGED opLeft
     \/ /\ \E some \in SUBSET Declared(backup.p) : container' = Stopped(some)
        /\ backup' = [backup EXCEPT !.pc = "restore"] /\ Fault
  /\ UNCHANGED <<project, claim, poll, snapshot, tracker, routed>>

\* captureVolumes to CommitBackup, which BackupRun details: it ends, well or not.
Archived ==
  /\ backup.pc = "archive"
  /\ backup' = [backup EXCEPT !.pc = "restore"]
  /\ UNCHANGED <<project, container, claim, poll, snapshot, tracker, routed, opLeft>>

\* Resolve and ShouldRestartContainers, by ownership and not by how the run
\* ended.  A server that cannot be reached, a Fault below, counts as still owning.
ShouldRestartContainers == project.assigned

\* restoreService.
RestoreService ==
  /\ backup.pc = "restore"
  /\ \/ ~ShouldRestartContainers /\ UNCHANGED <<container, routed, opLeft>>
     \/ \E started \in SUBSET Declared(backup.p) :
          /\ \/ ShouldRestartContainers /\ started = Declared(backup.p) /\ UNCHANGED opLeft
             \/ Fault
          /\ container' = [s \in Service |->
               IF s \in started /\ container[s].status = "exited"
                 THEN [container[s] EXCEPT !.status = "running"] ELSE container[s]]
          /\ routed' = (started = Declared(backup.p))
  /\ backup' = [backup EXCEPT !.pc = "clear"]
  /\ UNCHANGED <<project, claim, poll, snapshot, tracker>>

\* ClearMaintenance, logged when it fails, then the claim is released.
EndBackup ==
  /\ backup.pc = "clear"
  /\ \/ project' = [project EXCEPT !.maintenance = @ /\ ~project.assigned] /\ UNCHANGED opLeft
     \/ Fault /\ UNCHANGED project
  /\ backup' = IdleBackup /\ claim' = "none"
  /\ UNCHANGED <<container, poll, snapshot, tracker, routed>>

------------------------------------------------------------------------------
(* Faults and the server.                                                  *)

\* A container exits, is removed, is paused, or is restarted by hand.
ContainerFails(s, status) ==
  /\ container[s].status = "running" /\ Fault
  /\ container' = [container EXCEPT ![s] = IF status = "missing" THEN NoContainer
                                           ELSE [@ EXCEPT !.status = status]]
  /\ UNCHANGED <<project, claim, poll, snapshot, backup, tracker, routed>>

\* A restart by hand ends, or it never does.
RestartEnds(s) ==
  /\ container[s].status = "restarting"
  /\ \E status \in {"running", "exited"} :
       container' = [container EXCEPT ![s].status = status]
  /\ routed' = FALSE
  /\ UNCHANGED <<project, claim, poll, snapshot, backup, tracker, opLeft>>

\* Seeded fault: a Maintenance condition counts however old it is.
MaintenanceForever == FALSE /\ UNCHANGED opVars

\* A Maintenance condition older than MaintenanceStaleAfter is ignored.
MaintenanceExpires ==
  /\ project.maintenance
  /\ project' = [project EXCEPT !.maintenance = FALSE]
  /\ UNCHANGED <<container, claim, poll, snapshot, backup, tracker, routed, opLeft>>

ApplySpec ==
  /\ project.rev < opLeft.revisions /\ ~project.failed
  /\ project' = [project EXCEPT !.rev = @ + 1]
  /\ UNCHANGED <<container, claim, poll, snapshot, backup, tracker, routed, opLeft>>

\* Moved to another Node or deleted; the rest of that story is NodeAgent's.
Unassign ==
  /\ project.assigned /\ ~project.failed
  /\ project' = [project EXCEPT !.assigned = FALSE]
  /\ UNCHANGED <<container, claim, poll, snapshot, backup, tracker, routed, opLeft>>

\* The claims, the tracker and the routes are in memory.  bootstrapRunningProjects
\* is a tick of the poll loop.
AgentRestarts ==
  /\ opLeft.restarts > 0
  /\ opLeft' = [opLeft EXCEPT !.restarts = @ - 1]
  /\ claim' = "none" /\ poll' = IdlePoll /\ snapshot' = 0 /\ backup' = IdleBackup
  /\ tracker' = NewTracker /\ routed' = FALSE
  /\ UNCHANGED <<project, container>>

------------------------------------------------------------------------------

PollStep ==
  \/ ListProjects \/ Dispatch \/ CompareSpec \/ BeginUpdate \/ UpdateServices
  \/ ReportSpecApplied \/ JudgeHealthy \/ JudgeFailed \/ JudgeRestarting \/ JudgeBroken
  \/ ClaimRecovery \/ RefuseRecovery \/ TrackerNext \/ RecoverServices

BackupStep ==
  ClaimBackup \/ SetMaintenance \/ StopProject \/ Archived \/ RestoreService \/ EndBackup

OpNext ==
  \/ PollStep \/ UpdateRefused \/ UpdateFails \/ TimePasses
  \/ BackupDue \/ BackupStep
  \/ \E s \in Service : \/ \E status \in {"exited", "missing", "paused", "restarting"} : ContainerFails(s, status)
                        \/ RestartEnds(s)
  \/ MaintenanceExpires \/ ApplySpec \/ Unassign \/ AgentRestarts

\* The Agent polls for ever, a backup that has begun ends (uploads are taken to
\* end: UploadTimeout is not set), and time passes.
OpFairness ==
  /\ WF_opVars(PollStep) /\ WF_opVars(BackupStep)
  /\ WF_opVars(TimePasses) /\ WF_opVars(MaintenanceExpires)

OpSpec == OpInit /\ [][OpNext]_opVars /\ OpFairness

------------------------------------------------------------------------------
(* Properties.                                                             *)

\* While a backup archives the volumes, no container of the spec it stopped runs:
\* no recovery, update or health check of the concurrent poll loop starts one.
StoppedWhileArchiving ==
  backup.pc = "archive" => \A s \in Declared(backup.p) : container[s].status # "running"

\* A backup is taken of a Project whose containers are all stopped.
ColdArchive ==
  backup.pc = "archive" => \A s \in Service : container[s].status # "running"

\* Containers never go back: none is built from a spec older than the revision
\* the server shows as running.
RolloutForward ==
  \A s \in Service : container[s].status # "missing" =>
    \E r \in project.observed .. project.rev : container[s].hash = Manifest[r][s]

\* A Project assigned here does not stay down: every container runs and the proxy
\* points at it again and again, or the Project ends Failed.
ServiceReturns ==
  []<>(\/ Unhealthy(project.rev) = {} /\ routed
       \/ project.failed \/ ~project.assigned)

\* The latest spec is reported running in the end, or the Project ends Failed.
SpecConverges ==
  []<>(project.observed = project.rev \/ project.failed \/ ~project.assigned)
==============================================================================
