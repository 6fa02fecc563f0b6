-------------------------- MODULE NodeOperations_proofs --------------------------
(***************************************************************************)
(* The coordinator's claim and the rollout of spec revisions, for any      *)
(* services, revisions, number of recovery attempts, faults, backups and   *)
(* Agent restarts.                                                         *)
(***************************************************************************)
EXTENDS NodeOperations, TLAPS

Updating == {"update", "replace", "report"}
Recovering == {"recover", "start"}
BackingUp == {"announce", "stop", "archive", "restore", "clear"}

OpShapes ==
  /\ DOMAIN poll = DOMAIN IdlePoll
  /\ DOMAIN backup = DOMAIN IdleBackup
  /\ DOMAIN container = Service
  /\ \A s \in Service : DOMAIN container[s] = DOMAIN NoContainer

\* Whoever works on the containers holds the claim.
ClaimHeld ==
  /\ poll.pc \in Updating => claim = "update"
  /\ poll.pc \in Recovering => claim = "recovery"
  /\ backup.pc \in BackingUp => claim = "backup"

\* Nothing of the spec being archived runs, and nothing of it will come back by itself.
Quiet ==
  backup.pc = "archive" => \A s \in Declared(backup.p) : container[s].status \in {"exited", "missing"}

ClaimInv == OpShapes /\ ClaimHeld /\ Quiet

\* The poll loop ends its tick, or goes on to a step that needs no claim.
LEMMA FreeStep ==
  ASSUME ClaimInv, UNCHANGED <<container, backup>>, DOMAIN poll' = DOMAIN IdlePoll,
         poll'.pc \notin Updating \union Recovering,
         claim' = claim \/ backup.pc \notin BackingUp
  PROVE  ClaimInv'
  BY DEF ClaimInv, OpShapes, ClaimHeld, Quiet, BackingUp

LEMMA TickEnds ==
  ASSUME EndTick
  PROVE  DOMAIN poll' = DOMAIN IdlePoll /\ poll'.pc \notin Updating \union Recovering
  BY DEF EndTick, IdlePoll, Updating, Recovering

\* Holding another claim, the poll loop knows that no backup runs.
LEMMA NoBackup ==
  ASSUME ClaimInv, poll.pc \in Updating \union Recovering \/ claim = "none"
  PROVE  backup.pc \notin BackingUp
  BY DEF ClaimInv, ClaimHeld

LEMMA ContainersStep ==
  ASSUME ClaimInv, backup.pc \notin BackingUp, UNCHANGED backup,
         DOMAIN container' = Service, \A s \in Service : DOMAIN container'[s] = DOMAIN NoContainer,
         DOMAIN poll' = DOMAIN IdlePoll,
         \/ poll'.pc \notin Updating \union Recovering
         \/ poll'.pc \in Updating /\ claim' = "update"
         \/ poll'.pc \in Recovering /\ claim' = "recovery"
  PROVE  ClaimInv'
  BY DEF ClaimInv, OpShapes, ClaimHeld, Quiet, BackingUp, Updating, Recovering

LEMMA ListedPoll ==
  ASSUME NEW a, NEW b
  PROVE  LET q == [IdlePoll EXCEPT !.pc = "listed", !.p = a, !.maintenance = b]
         IN DOMAIN q = DOMAIN IdlePoll /\ q.pc = "listed"
  BY DEF IdlePoll

\* What a failed update leaves: each container is gone, built anew, or as it was but
\* for its status.
LEMMA FailedUpdate ==
  ASSUME UpdateFails, DOMAIN container = Service,
         \A s \in Service : DOMAIN container[s] = DOMAIN NoContainer
  PROVE  /\ DOMAIN container' = Service
         /\ \A s \in Service :
              /\ DOMAIN container'[s] = DOMAIN NoContainer
              /\ \/ container'[s].status = "missing"
                 \/ container'[s].hash = Manifest[poll.p][s]
                 \/ container[s].status # "missing" /\ container'[s].hash = container[s].hash
<1>1. PICK gone, made, half :
        /\ container' = LeftBehind(poll.p, gone, made, half)
        /\ half \subseteq Outdated(poll.p) \union Removed(poll.p) \union Missing(poll.p)
  BY DEF UpdateFails
<1>2. \A s \in half \ Missing(poll.p) : container[s].status # "missing"
  BY <1>1 DEF Outdated, Removed
<1> QED
  BY <1>1, <1>2 DEF LeftBehind, Built, NoContainer

LEMMA PollKeepsClaims == ClaimInv /\ (PollStep \/ UpdateRefused \/ UpdateFails) => ClaimInv'
<1> SUFFICES ASSUME ClaimInv, PollStep \/ UpdateRefused \/ UpdateFails
             PROVE  ClaimInv'
  OBVIOUS
<1>0. /\ DOMAIN poll = DOMAIN IdlePoll /\ DOMAIN container = Service
      /\ \A s \in Service : DOMAIN container[s] = DOMAIN NoContainer
  BY DEF ClaimInv, OpShapes
<1>1. ASSUME NEW pc, PollTo(pc)
      PROVE  DOMAIN poll' = DOMAIN IdlePoll /\ poll'.pc = pc
  BY <1>0, <1>1 DEF PollTo, IdlePoll
<1>2. CASE ListProjects
  <2>0. IdlePoll.pc = "idle"
    BY DEF IdlePoll
  <2>1. DOMAIN poll' = DOMAIN IdlePoll /\ poll'.pc \in {"idle", "listed"}
    <3>1. CASE poll' = [IdlePoll EXCEPT !.pc = "listed", !.p = project.rev,
                          !.maintenance = project.maintenance]
      BY <3>1, ListedPoll
    <3>2. CASE poll' = IdlePoll
      BY <2>0, <3>2
    <3> QED
      BY <1>2, <3>1, <3>2, Zenon DEF ListProjects
  <2> QED
    BY <1>2, <2>1, FreeStep DEF ListProjects, Updating, Recovering
<1>3. CASE Dispatch
  BY <1>1, <1>3, TickEnds, FreeStep DEF Dispatch, Updating, Recovering
<1>4. CASE CompareSpec
  <2>1. CASE ~SpecUpdateNeeded(poll.p, project.observed)
    BY <1>0, <1>4, <2>1, FreeStep DEF CompareSpec, IdlePoll, Updating, Recovering
  <2>2. CASE SpecUpdateNeeded(poll.p, project.observed) /\ claim = "none"
    BY <1>0, <1>1, <1>4, <2>2, NoBackup, ContainersStep DEF CompareSpec, Updating, Recovering
  <2>3. CASE SpecUpdateNeeded(poll.p, project.observed) /\ claim # "none"
    BY <1>4, <2>3, TickEnds, FreeStep DEF CompareSpec
  <2> QED
    BY <2>1, <2>2, <2>3
<1>5. CASE BeginUpdate
  <2>0. backup.pc \notin BackingUp /\ claim = "update"
    BY <1>5, NoBackup DEF BeginUpdate, Updating, ClaimInv, ClaimHeld
  <2>1. CASE StillOurs /\ SpecUpdateNeeded(project.rev, project.observed)
    <3>1. DOMAIN poll' = DOMAIN IdlePoll /\ poll'.pc = "replace" /\ UNCHANGED <<claim, container, backup>>
      BY <1>0, <1>5, <2>1 DEF BeginUpdate, IdlePoll
    <3> QED
      BY <1>0, <2>0, <3>1, ContainersStep DEF Updating
  <2>2. CASE ~(StillOurs /\ SpecUpdateNeeded(project.rev, project.observed))
    BY <1>1, <1>5, <2>0, <2>2, TickEnds, FreeStep DEF BeginUpdate, Updating, Recovering
  <2> QED
    BY <2>1, <2>2
<1>6. CASE UpdateServices
  <2>0. backup.pc \notin BackingUp /\ claim' = "update"
    BY <1>6, NoBackup DEF UpdateServices, Updating, ClaimInv, ClaimHeld
  <2>1. DOMAIN container' = Service /\ \A s \in Service : DOMAIN container'[s] = DOMAIN NoContainer
    BY <1>0, <1>6 DEF UpdateServices, NoContainer, Built
  <2>2. DOMAIN poll' = DOMAIN IdlePoll /\ poll'.pc = "report"
    BY <1>1, <1>6 DEF UpdateServices
  <2> QED
    BY <1>6, <2>0, <2>1, <2>2, ContainersStep DEF UpdateServices, Updating
<1>7. CASE UpdateFails
  <2>0. backup.pc \notin BackingUp
    BY <1>7, NoBackup DEF UpdateFails, Updating
  <2>1. DOMAIN container' = Service /\ \A s \in Service : DOMAIN container'[s] = DOMAIN NoContainer
    BY <1>0, <1>7, FailedUpdate
  <2>2. EndTick /\ UNCHANGED backup
    BY <1>7 DEF UpdateFails
  <2> QED
    BY <2>0, <2>1, <2>2, TickEnds, ContainersStep
<1>8. CASE ReportSpecApplied
  BY <1>8, NoBackup, TickEnds, FreeStep DEF ReportSpecApplied, Updating
<1>9. CASE JudgeHealthy \/ JudgeFailed \/ JudgeRestarting
  BY <1>9, TickEnds, FreeStep DEF JudgeHealthy, JudgeFailed, JudgeRestarting
<1>71. CASE UpdateRefused
  BY <1>71, NoBackup, TickEnds, FreeStep DEF UpdateRefused, Updating
<1>72. CASE JudgeBroken
  <2>1. DOMAIN poll' = DOMAIN IdlePoll /\ poll'.pc = "broken" /\ UNCHANGED <<container, claim, backup>>
    BY <1>0, <1>72 DEF JudgeBroken, IdlePoll
  <2> QED
    BY <2>1, FreeStep DEF Updating, Recovering
<1>10. CASE ClaimRecovery
  <2>1. CASE RecoveryMayRun
    <3>1. backup.pc \notin BackingUp
      BY <2>1, NoBackup DEF RecoveryMayRun
    <3>2. /\ DOMAIN poll' = DOMAIN IdlePoll /\ poll'.pc = "recover" /\ claim' = "recovery"
          /\ UNCHANGED <<container, backup>>
      BY <1>1, <1>10, <2>1 DEF ClaimRecovery
    <3> QED
      BY <1>0, <3>1, <3>2, ContainersStep DEF Recovering
  <2>2. CASE ~RecoveryMayRun
    BY <1>10, <2>2, TickEnds, FreeStep DEF ClaimRecovery
  <2> QED
    BY <2>1, <2>2
<1>11. CASE RefuseRecovery
  BY <1>11, NoBackup, TickEnds, FreeStep DEF RefuseRecovery, Recovering
<1>12. CASE TrackerNext
  <2>0. backup.pc \notin BackingUp /\ claim = "recovery" /\ UNCHANGED <<container, backup>>
    BY <1>12, NoBackup DEF TrackerNext, Recovering, ClaimInv, ClaimHeld
  <2>1. CASE EndTick
    BY <2>0, <2>1, TickEnds, FreeStep
  <2>2. CASE poll' = [poll EXCEPT !.pc = "start", !.p = project.rev] /\ UNCHANGED claim
    <3>1. DOMAIN poll' = DOMAIN IdlePoll /\ poll'.pc = "start"
      BY <1>0, <2>2 DEF IdlePoll
    <3> QED
      BY <1>0, <2>0, <2>2, <3>1, ContainersStep DEF Recovering
  <2> QED
    BY <1>12, <2>1, <2>2 DEF TrackerNext
<1>13. CASE RecoverServices
  <2>0. backup.pc \notin BackingUp
    BY <1>13, NoBackup DEF RecoverServices, Recovering
  <2>1. PICK started, made \in SUBSET (poll.bad \intersect Declared(poll.p)) :
          container' = [s \in Service |->
            CASE s \in started \union made /\ container[s].status = "missing" ->
                   Built(poll.p, s, IF s \in started THEN "running" ELSE "exited")
              [] s \in started /\ container[s].status = "exited" ->
                   [container[s] EXCEPT !.status = "running"]
              [] OTHER -> container[s]]
    BY <1>13 DEF RecoverServices
  <2>2. DOMAIN container' = Service /\ \A s \in Service : DOMAIN container'[s] = DOMAIN NoContainer
    BY <1>0, <2>1 DEF NoContainer, Built
  <2>3. EndTick /\ UNCHANGED backup
    BY <1>13 DEF RecoverServices
  <2> QED
    BY <2>0, <2>2, <2>3, TickEnds, ContainersStep
<1> QED
  BY <1>2, <1>3, <1>4, <1>5, <1>6, <1>7, <1>71, <1>72, <1>8, <1>9, <1>10, <1>11,
     <1>12, <1>13 DEF PollStep

\* The backup's own steps: the claim is taken before anything is announced, and
\* released with the last one.
LEMMA BackupKeepsClaims == ClaimInv /\ (BackupDue \/ BackupStep) => ClaimInv'
<1> SUFFICES ASSUME ClaimInv, BackupDue \/ BackupStep
             PROVE  ClaimInv'
  OBVIOUS
<1>0. /\ DOMAIN backup = DOMAIN IdleBackup /\ DOMAIN container = Service
      /\ \A s \in Service : DOMAIN container[s] = DOMAIN NoContainer
  BY DEF ClaimInv, OpShapes
<1>1. ASSUME NEW pc, backup' = [backup EXCEPT !.pc = pc]
      PROVE  DOMAIN backup' = DOMAIN IdleBackup /\ backup'.pc = pc /\ backup'.p = backup.p
  BY <1>0, <1>1 DEF IdleBackup
<1>2. ASSUME backup' = IdleBackup
      PROVE  DOMAIN backup' = DOMAIN IdleBackup /\ backup'.pc = "idle"
  BY <1>2 DEF IdleBackup
\* A step of a backup that holds the claim and keeps or releases it.
<1>3. ASSUME backup.pc \in BackingUp, UNCHANGED poll, DOMAIN backup' = DOMAIN IdleBackup,
             DOMAIN container' = Service, \A s \in Service : DOMAIN container'[s] = DOMAIN NoContainer,
             claim' = claim \/ backup'.pc \notin BackingUp, Quiet'
      PROVE  ClaimInv'
  <2>1. poll.pc \notin Updating \union Recovering /\ claim = "backup"
    BY <1>3 DEF ClaimInv, ClaimHeld
  <2> QED
    BY <1>3, <2>1 DEF ClaimInv, OpShapes, ClaimHeld
<1>4. CASE BackupDue
  BY <1>0, <1>4 DEF BackupDue, ClaimInv, OpShapes, ClaimHeld, Quiet, BackingUp, IdleBackup
<1>5. CASE ClaimBackup
  <2>1. CASE claim = "none"
    <3>1. poll.pc \notin Updating \union Recovering
      BY <2>1 DEF ClaimInv, ClaimHeld
    <3> QED
      BY <1>0, <1>1, <1>5, <2>1, <3>1 DEF ClaimBackup, ClaimInv, OpShapes, ClaimHeld, Quiet
  <2>2. CASE claim # "none"
    BY <1>0, <1>2, <1>5, <2>2 DEF ClaimBackup, ClaimInv, OpShapes, ClaimHeld, Quiet, BackingUp
  <2> QED
    BY <2>1, <2>2
<1>6. CASE SetMaintenance
  BY <1>0, <1>1, <1>2, <1>3, <1>6 DEF SetMaintenance, Quiet, BackingUp
<1>7. CASE StopProject
  <2>1. ASSUME NEW services, container' = Stopped(services)
        PROVE  /\ DOMAIN container' = Service /\ \A s \in Service : DOMAIN container'[s] = DOMAIN NoContainer
               /\ \A s \in services \intersect Service : container'[s].status \in {"exited", "missing"}
    BY <1>0, <2>1 DEF Stopped, NoContainer
  <2>2. CASE container' = Stopped(Declared(backup.p)) /\ backup' = [backup EXCEPT !.pc = "archive"]
    <3>1. Quiet'
      BY <1>1, <2>1, <2>2 DEF Quiet, Declared
    <3> QED
      BY <1>1, <1>3, <1>7, <2>1, <2>2, <3>1 DEF StopProject, BackingUp
  <2>3. CASE (\E some \in SUBSET Declared(backup.p) : container' = Stopped(some))
             /\ backup' = [backup EXCEPT !.pc = "restore"]
    <3>1. Quiet'
      BY <1>1, <2>3 DEF Quiet
    <3> QED
      BY <1>1, <1>3, <1>7, <2>1, <2>3, <3>1 DEF StopProject, BackingUp
  <2> QED
    BY <1>7, <2>2, <2>3 DEF StopProject
<1>8. CASE Archived
  BY <1>0, <1>1, <1>3, <1>8 DEF Archived, Quiet, BackingUp
<1>9. CASE RestoreService
  <2>1. DOMAIN container' = Service /\ \A s \in Service : DOMAIN container'[s] = DOMAIN NoContainer
    BY <1>0, <1>9 DEF RestoreService, NoContainer
  <2>2. backup' = [backup EXCEPT !.pc = "clear"] /\ UNCHANGED <<poll, claim>> /\ backup.pc = "restore"
    BY <1>9 DEF RestoreService
  <2> QED
    BY <1>1, <1>3, <2>1, <2>2 DEF Quiet, BackingUp
<1>10. CASE EndBackup
  BY <1>0, <1>2, <1>3, <1>10 DEF EndBackup, Quiet, BackingUp
<1> QED
  BY <1>4, <1>5, <1>6, <1>7, <1>8, <1>9, <1>10 DEF BackupStep

LEMMA ClaimStep == ClaimInv /\ [OpNext]_opVars => ClaimInv'
<1> SUFFICES ASSUME ClaimInv, [OpNext]_opVars
             PROVE  ClaimInv'
  OBVIOUS
<1>0. /\ DOMAIN container = Service
      /\ \A s \in Service : DOMAIN container[s] = DOMAIN NoContainer
  BY DEF ClaimInv, OpShapes
<1>1. CASE UNCHANGED <<container, claim, poll, backup>>
  BY <1>1 DEF ClaimInv, OpShapes, ClaimHeld, Quiet
<1>2. ASSUME NEW s \in Service, NEW status \in {"exited", "missing", "paused", "restarting"},
             ContainerFails(s, status)
      PROVE  ClaimInv'
  <2>1. /\ DOMAIN container' = Service /\ container[s].status = "running"
        /\ \A t \in Service : DOMAIN container'[t] = DOMAIN NoContainer
        /\ \A t \in Service \ {s} : container'[t] = container[t]
    BY <1>0, <1>2 DEF ContainerFails, NoContainer
  <2> QED
    BY <1>2, <2>1 DEF ContainerFails, ClaimInv, OpShapes, ClaimHeld, Quiet, Declared
<1>3. ASSUME NEW s \in Service, RestartEnds(s)
      PROVE  ClaimInv'
  <2>1. /\ DOMAIN container' = Service /\ container[s].status = "restarting"
        /\ \A t \in Service : DOMAIN container'[t] = DOMAIN NoContainer
        /\ \A t \in Service \ {s} : container'[t] = container[t]
    BY <1>0, <1>3 DEF RestartEnds, NoContainer
  <2> QED
    BY <1>3, <2>1 DEF RestartEnds, ClaimInv, OpShapes, ClaimHeld, Quiet, Declared
<1>4. CASE AgentRestarts
  BY <1>0, <1>4 DEF AgentRestarts, ClaimInv, OpShapes, ClaimHeld, Quiet, IdlePoll, IdleBackup,
     Updating, Recovering, BackingUp
<1> QED
  BY <1>1, <1>2, <1>3, <1>4, PollKeepsClaims, BackupKeepsClaims
     DEF OpNext, opVars, TimePasses, MaintenanceExpires, ApplySpec, Unassign

\* No container of the spec being backed up runs while its volumes are archived,
\* whatever the concurrent poll loop, the containers, Docker and the server do: the
\* coordinator's claim keeps update, recovery and backup apart, across Agent restarts.
THEOREM ArchivesAreQuiet == OpSpec => []StoppedWhileArchiving
<1>1. OpInit => ClaimInv
  BY DEF OpInit, ClaimInv, OpShapes, ClaimHeld, Quiet, IdlePoll, IdleBackup, NoContainer,
     Updating, Recovering, BackingUp
<1>2. ClaimInv => StoppedWhileArchiving
  BY DEF ClaimInv, Quiet, StoppedWhileArchiving
<1> QED
  BY <1>1, <1>2, ClaimStep, PTL DEF OpSpec

------------------------------------------------------------------------------
(* The rollout of a spec.                                                  *)

\* Every container there is was built from revision r.
BuiltFrom(r) ==
  \A s \in Service : container[s].status # "missing" => container[s].hash = Manifest[r][s]

ProjectShape ==
  /\ DOMAIN project = {"rev", "observed", "maintenance", "assigned", "failed", "blocked"}
  /\ project.rev \in Nat /\ project.observed \in Nat /\ project.observed <= project.rev

\* The tick found the containers up to date, and reports so when they are healthy.
CarriesReport == poll.upToDate # FALSE

\* What the poll loop has in hand: a revision of the past, which is not older than
\* the one reported when it is the copy re-read, and which the containers have when
\* it is about to be reported running.
PollSound ==
  /\ poll.p \in Nat
  /\ poll.pc # "idle" => poll.p <= project.rev
  /\ poll.pc \in {"replace", "report", "start"} => project.observed <= poll.p
  /\ poll.pc \in {"listed", "drift", "update"} => ~CarriesReport
  /\ (poll.pc = "report" \/ (poll.pc = "inspect" /\ CarriesReport)) => BuiltFrom(poll.p)

RolloutInv == ClaimInv /\ ProjectShape /\ PollSound /\ RolloutForward

\* No container is built: some go, stop or start.
NoneBuilt ==
  \A s \in Service : container'[s].status # "missing" =>
    container[s].status # "missing" /\ container'[s].hash = container[s].hash

\* The record moves on, if at all, to a later revision.
RevisionKept ==
  ProjectShape' /\ project'.observed = project.observed /\ project.rev <= project'.rev

LEMMA NoneBuiltForward ==
  ASSUME RolloutInv, NoneBuilt, RevisionKept
  PROVE  RolloutForward'
  BY DEF RolloutInv, RolloutForward, NoneBuilt, RevisionKept, ProjectShape

LEMMA NoneBuiltPoll ==
  ASSUME RolloutInv, NoneBuilt, RevisionKept, UNCHANGED poll
  PROVE  PollSound'
<1>1. CarriesReport' <=> CarriesReport
  BY DEF CarriesReport
<1> QED
  BY <1>1 DEF RolloutInv, PollSound, BuiltFrom, NoneBuilt, RevisionKept, ProjectShape

LEMMA IdlePollSound ==
  ASSUME poll' = IdlePoll
  PROVE  PollSound'
  BY DEF PollSound, IdlePoll

LEMMA SameContainers ==
  ASSUME UNCHANGED container
  PROVE  NoneBuilt
  BY DEF NoneBuilt

\* A container built from the copy re-read is of a revision not yet past.
LEMMA BuiltForward ==
  ASSUME RolloutInv, RevisionKept, poll.pc \in {"replace", "start"},
         \A s \in Service : container'[s].status # "missing" =>
           \/ container[s].status # "missing" /\ container'[s].hash = container[s].hash
           \/ container'[s].hash = Manifest[poll.p][s]
  PROVE  RolloutForward'
<1>1. poll.p \in project.observed .. project.rev
  BY DEF RolloutInv, PollSound, ProjectShape
<1> QED
  BY <1>1 DEF RolloutInv, RolloutForward, RevisionKept, ProjectShape

\* A report of the revision the containers have, or of one of the past.
LEMMA ReportForward ==
  ASSUME RolloutInv, UNCHANGED container, BuiltFrom(poll.p), poll.p <= project.rev, poll.p \in Nat,
         ProjectShape', project'.rev = project.rev, project'.observed \in {project.observed, poll.p}
  PROVE  RolloutForward'
  BY DEF RolloutInv, RolloutForward, BuiltFrom, ProjectShape

LEMMA AppliedShape ==
  ASSUME ProjectShape, NEW r \in Nat
  PROVE  /\ DOMAIN SpecApplied(r) = DOMAIN project
         /\ SpecApplied(r).rev = project.rev /\ SpecApplied(r).observed \in {project.observed, r}
  BY DEF SpecApplied, ProjectShape

LEMMA ProjectWrites ==
  ASSUME RolloutInv
  PROVE  /\ UNCHANGED project => RevisionKept
         /\ \A k \in {"maintenance", "assigned", "failed", "blocked"} : \A v :
              project' = [project EXCEPT ![k] = v] => RevisionKept
  BY DEF RolloutInv, RevisionKept, ProjectShape

LEMMA FieldWritten ==
  ASSUME NEW r, NEW k \in {"maintenance", "assigned", "failed", "blocked"}, NEW v,
         {"rev", "observed"} \subseteq DOMAIN r
  PROVE  /\ DOMAIN [r EXCEPT ![k] = v] = DOMAIN r
         /\ [r EXCEPT ![k] = v].rev = r.rev /\ [r EXCEPT ![k] = v].observed = r.observed
  OBVIOUS

LEMMA PollRolls == RolloutInv /\ ClaimInv' /\ (PollStep \/ UpdateRefused \/ UpdateFails) => RolloutInv'
<1> SUFFICES ASSUME RolloutInv, ClaimInv', PollStep \/ UpdateRefused \/ UpdateFails
             PROVE  ProjectShape' /\ PollSound' /\ RolloutForward'
  BY DEF RolloutInv
<1>0. /\ DOMAIN poll = DOMAIN IdlePoll /\ DOMAIN container = Service
      /\ \A s \in Service : DOMAIN container[s] = DOMAIN NoContainer
  BY DEF RolloutInv, ClaimInv, OpShapes
<1>1. ASSUME NEW pc, PollTo(pc)
      PROVE  poll'.pc = pc /\ poll'.p = poll.p /\ (CarriesReport' <=> CarriesReport)
  <2>1. poll'.upToDate = poll.upToDate
    BY <1>0, <1>1 DEF PollTo, IdlePoll
  <2> QED
    BY <1>0, <1>1, <2>1 DEF PollTo, IdlePoll, CarriesReport
<1>2. ASSUME EndTick, NoneBuilt, RevisionKept
      PROVE  ProjectShape' /\ PollSound' /\ RolloutForward'
  BY <1>2, NoneBuiltForward, IdlePollSound DEF EndTick, RevisionKept
<1>3. CASE ListProjects
  <2>1. RolloutForward' /\ ProjectShape' /\ UNCHANGED <<project, container>>
    BY <1>3, ProjectWrites, SameContainers, NoneBuiltForward DEF ListProjects, RevisionKept
  <2>2. CASE poll' = [IdlePoll EXCEPT !.pc = "listed", !.p = project.rev,
                          !.maintenance = project.maintenance]
    <3>1. poll'.pc = "listed" /\ poll'.p = project.rev /\ ~CarriesReport'
      BY <2>2 DEF IdlePoll, CarriesReport
    <3> QED
      BY <2>1, <3>1 DEF PollSound, ProjectShape
  <2>3. CASE poll' = IdlePoll
    BY <2>1, <2>3, IdlePollSound
  <2> QED
    BY <1>3, <2>2, <2>3, Zenon DEF ListProjects
<1>4. CASE Dispatch
  <2>1. RevisionKept /\ NoneBuilt /\ UNCHANGED <<project, container>>
    BY <1>4, ProjectWrites, SameContainers DEF Dispatch
  <2>2. CASE PollTo("drift")
    BY <1>1, <1>4, <2>1, <2>2, NoneBuiltForward DEF PollSound, RolloutInv, RevisionKept, Dispatch
  <2> QED
    BY <1>2, <1>4, <2>1, <2>2 DEF Dispatch
<1>5. CASE CompareSpec
  <2>1. RevisionKept /\ NoneBuilt /\ UNCHANGED <<project, container>>
    BY <1>5, ProjectWrites, SameContainers DEF CompareSpec
  <2>2. CASE poll' = [poll EXCEPT !.pc = "inspect", !.upToDate = ~Changes(poll.p) /\ Missing(poll.p) = {}]
    <3>1. poll'.pc = "inspect" /\ poll'.p = poll.p
      BY <1>0, <2>2 DEF IdlePoll
    <3>2. poll'.upToDate = (~Changes(poll.p) /\ Missing(poll.p) = {})
      BY <1>0, <2>2 DEF IdlePoll
    <3>3. ~Changes(poll.p) => BuiltFrom(poll.p)
      BY DEF Changes, BuiltFrom, Outdated, Removed, Declared
    <3>4. CarriesReport' => ~Changes(poll.p)
      BY <3>2 DEF CarriesReport
    <3>5. CarriesReport' => BuiltFrom(poll.p)'
      BY <2>1, <3>1, <3>3, <3>4 DEF BuiltFrom
    <3> QED
      BY <1>5, <2>1, <3>1, <3>5, NoneBuiltForward DEF PollSound, RolloutInv, RevisionKept, CompareSpec, BuiltFrom
  <2>3. CASE PollTo("update")
    BY <1>1, <1>5, <2>1, <2>3, NoneBuiltForward DEF PollSound, RolloutInv, RevisionKept, CompareSpec
  <2> QED
    BY <1>2, <1>5, <2>1, <2>2, <2>3, Zenon DEF CompareSpec
<1>6. CASE BeginUpdate
  <2>1. RevisionKept /\ NoneBuilt /\ UNCHANGED <<project, container>> /\ poll.pc = "update"
    BY <1>6, ProjectWrites, SameContainers DEF BeginUpdate
  <2>2. CASE poll' = [poll EXCEPT !.pc = "replace", !.p = project.rev]
    <3>1. poll'.pc = "replace" /\ poll'.p = project.rev
      BY <1>0, <2>2 DEF IdlePoll
    <3> QED
      BY <2>1, <3>1, NoneBuiltForward DEF PollSound, RolloutInv, RevisionKept, ProjectShape
  <2>3. CASE PollTo("inspect")
    BY <1>1, <2>1, <2>3, NoneBuiltForward DEF PollSound, RolloutInv, RevisionKept
  <2> QED
    BY <1>2, <1>6, <2>1, <2>2, <2>3, Zenon DEF BeginUpdate
<1>7. CASE UpdateServices
  <2>1. RevisionKept /\ UNCHANGED project
    BY <1>7, ProjectWrites DEF UpdateServices
  <2>2. poll'.pc = "report" /\ poll'.p = poll.p /\ poll.pc = "replace"
    BY <1>1, <1>7 DEF UpdateServices
  <2>3. \A s \in Service : container'[s].status # "missing" => container'[s].hash = Manifest[poll.p][s]
    BY <1>0, <1>7 DEF UpdateServices, Outdated, Missing, Removed, Declared, NoContainer, Built
  <2>4. RolloutForward'
    BY <2>1, <2>2, <2>3, BuiltForward
  <2> QED
    BY <2>1, <2>2, <2>3, <2>4 DEF PollSound, RolloutInv, RevisionKept, BuiltFrom
<1>8. CASE UpdateFails
  <2>1. RevisionKept
    BY <1>8, ProjectWrites DEF UpdateFails
  <2>3. \A s \in Service : container'[s].status # "missing" =>
          \/ container[s].status # "missing" /\ container'[s].hash = container[s].hash
          \/ container'[s].hash = Manifest[poll.p][s]
    BY <1>0, <1>8, FailedUpdate
  <2>4. RolloutForward' /\ PollSound'
    BY <1>8, <2>1, <2>3, BuiltForward, IdlePollSound DEF UpdateFails, EndTick
  <2> QED
    BY <2>1, <2>4 DEF RevisionKept
<1>9. CASE ReportSpecApplied
  <2>1. /\ poll.pc = "report" /\ EndTick /\ UNCHANGED container
        /\ project' = SpecApplied(poll.p) \/ UNCHANGED project
    BY <1>9 DEF ReportSpecApplied
  <2>2. CASE project' = SpecApplied(poll.p)
    <3>1. poll.p \in Nat /\ poll.p <= project.rev /\ BuiltFrom(poll.p) /\ ProjectShape
      BY <2>1 DEF RolloutInv, PollSound
    <3>2. ProjectShape' /\ project'.rev = project.rev /\ project'.observed \in {project.observed, poll.p}
      BY <2>2, <3>1, AppliedShape DEF ProjectShape
    <3> QED
      BY <2>1, <3>1, <3>2, ReportForward, IdlePollSound DEF EndTick
  <2>3. CASE UNCHANGED project
    BY <1>2, <2>1, <2>3, ProjectWrites, SameContainers
  <2> QED
    BY <2>1, <2>2, <2>3
<1>10. CASE JudgeHealthy
  <2> DEFINE reported == IF poll.upToDate THEN ReportRunning ELSE project
  <2>1. poll.pc = "inspect" /\ EndTick /\ UNCHANGED container /\ project' = [reported EXCEPT !.blocked = FALSE]
    BY <1>10 DEF JudgeHealthy
  <2>2. ProjectShape /\ poll.p \in Nat /\ poll.p <= project.rev
    BY <2>1 DEF RolloutInv, PollSound
  <2>3. CASE CarriesReport
    <3>1. BuiltFrom(poll.p)
      BY <2>1, <2>3 DEF RolloutInv, PollSound
    <3>2. /\ DOMAIN reported = DOMAIN project /\ reported.rev = project.rev
          /\ reported.observed \in {project.observed, poll.p}
      BY <2>2, AppliedShape DEF ReportRunning
    <3> HIDE DEF reported
    <3>3. ProjectShape' /\ project'.rev = project.rev /\ project'.observed \in {project.observed, poll.p}
      BY <2>1, <2>2, <3>2 DEF ProjectShape
    <3> QED
      BY <2>1, <2>2, <3>1, <3>3, ReportForward, IdlePollSound DEF EndTick
  <2>4. CASE ~CarriesReport
    BY <1>2, <2>1, <2>4, ProjectWrites, SameContainers DEF CarriesReport
  <2> QED
    BY <2>3, <2>4
<1>11. CASE JudgeFailed
  <2>1. RevisionKept
    BY <1>11, ProjectWrites DEF JudgeFailed
  <2> QED
    BY <1>2, <1>11, <2>1, SameContainers DEF JudgeFailed
<1>12. CASE JudgeRestarting
  BY <1>2, <1>12, ProjectWrites, SameContainers DEF JudgeRestarting
<1>17. CASE UpdateRefused
  BY <1>2, <1>17, ProjectWrites, SameContainers DEF UpdateRefused
<1>13. CASE JudgeBroken
  <2>1. RevisionKept /\ NoneBuilt /\ UNCHANGED project
    BY <1>13, ProjectWrites, SameContainers DEF JudgeBroken
  <2>2. poll'.pc = "broken" /\ poll'.p = poll.p /\ poll.pc = "inspect"
    BY <1>0, <1>13 DEF JudgeBroken, IdlePoll
  <2> QED
    BY <2>1, <2>2, NoneBuiltForward DEF RolloutInv, PollSound, RevisionKept
<1>18. CASE ClaimRecovery
  <2>1. RevisionKept /\ NoneBuilt /\ UNCHANGED project
    BY <1>18, ProjectWrites, SameContainers DEF ClaimRecovery
  <2>2. CASE RecoveryMayRun
    <3>1. poll'.pc = "recover" /\ poll'.p = poll.p /\ poll.pc = "broken"
      BY <1>1, <1>18, <2>2 DEF ClaimRecovery
    <3> QED
      BY <2>1, <3>1, NoneBuiltForward DEF RolloutInv, PollSound, RevisionKept
  <2>3. CASE ~RecoveryMayRun
    BY <1>2, <1>18, <2>1, <2>3 DEF ClaimRecovery
  <2> QED
    BY <2>2, <2>3
<1>14. CASE RefuseRecovery
  <2>1. RevisionKept
    BY <1>14, ProjectWrites DEF RefuseRecovery
  <2> QED
    BY <1>2, <1>14, <2>1, SameContainers DEF RefuseRecovery
<1>15. CASE TrackerNext
  <2>1. RevisionKept /\ NoneBuilt /\ project'.rev = project.rev
    <3>1. \/ project' = [project EXCEPT !.blocked = FALSE]
          \/ project' = [project EXCEPT !.blocked = FALSE, !.failed = TRUE]
      BY <1>15 DEF TrackerNext
    <3>2. /\ DOMAIN project' = DOMAIN project
          /\ project'.rev = project.rev /\ project'.observed = project.observed
      <4> DEFINE q == [project EXCEPT !.blocked = FALSE]
      <4>1. DOMAIN q = DOMAIN project /\ q.rev = project.rev /\ q.observed = project.observed
        BY FieldWritten DEF RolloutInv, ProjectShape
      <4>2. q = project' \/ project' = [q EXCEPT !.failed = TRUE]
        BY <3>1, Zenon
      <4> HIDE DEF q
      <4> QED
        BY <4>1, <4>2, FieldWritten DEF RolloutInv, ProjectShape
    <3>3. RevisionKept /\ project'.rev = project.rev
      BY <3>2 DEF RolloutInv, RevisionKept, ProjectShape
    <3> QED
      BY <1>15, <3>3, SameContainers DEF TrackerNext
  <2>2. CASE poll' = [poll EXCEPT !.pc = "start", !.p = project.rev]
    <3>1. poll'.pc = "start" /\ poll'.p = project.rev
      BY <1>0, <2>2 DEF IdlePoll
    <3> QED
      BY <2>1, <3>1, NoneBuiltForward DEF RolloutInv, PollSound, RevisionKept, ProjectShape
  <2>3. CASE EndTick
    BY <1>2, <2>1, <2>3
  <2> QED
    BY <1>15, <2>2, <2>3 DEF TrackerNext
<1>16. CASE RecoverServices
  <2>1. RevisionKept
    BY <1>16, ProjectWrites DEF RecoverServices
  <2>2. PICK started, made \in SUBSET (poll.bad \intersect Declared(poll.p)) :
          container' = [s \in Service |->
            CASE s \in started \union made /\ container[s].status = "missing" ->
                   Built(poll.p, s, IF s \in started THEN "running" ELSE "exited")
              [] s \in started /\ container[s].status = "exited" ->
                   [container[s] EXCEPT !.status = "running"]
              [] OTHER -> container[s]]
    BY <1>16 DEF RecoverServices
  <2>3. \A s \in Service : container'[s].status # "missing" =>
          \/ container[s].status # "missing" /\ container'[s].hash = container[s].hash
          \/ container'[s].hash = Manifest[poll.p][s]
    BY <1>0, <2>2 DEF NoContainer, Built
  <2>4. RolloutForward' /\ PollSound'
    BY <1>16, <2>1, <2>3, BuiltForward, IdlePollSound DEF RecoverServices, EndTick
  <2> QED
    BY <2>1, <2>4 DEF RevisionKept
<1> QED
  BY <1>3, <1>4, <1>5, <1>6, <1>7, <1>8, <1>9, <1>10, <1>11, <1>12, <1>13, <1>14, <1>15, <1>16,
     <1>17, <1>18 DEF PollStep

\* The other steps build nothing: the backup stops and starts what there is, containers
\* fail, the record moves on to the next revision.
LEMMA OthersRoll ==
  ASSUME RolloutInv, ClaimInv', NoneBuilt, RevisionKept, poll' \in {poll, IdlePoll}
  PROVE  RolloutInv'
  BY NoneBuiltForward, NoneBuiltPoll, IdlePollSound DEF RolloutInv, RevisionKept

LEMMA RolloutStep == RolloutInv /\ [OpNext]_opVars => RolloutInv'
<1> SUFFICES ASSUME RolloutInv, [OpNext]_opVars
             PROVE  RolloutInv'
  OBVIOUS
<1>0. /\ DOMAIN container = Service /\ ProjectShape
      /\ \A s \in Service : DOMAIN container[s] = DOMAIN NoContainer
  BY DEF RolloutInv, ClaimInv, OpShapes
<1>1. ClaimInv'
  BY ClaimStep DEF RolloutInv
<1>2. CASE UNCHANGED opVars \/ TimePasses \/ BackupDue \/ ClaimBackup \/ Archived
  <2>1. UNCHANGED <<project, container, poll>>
    BY <1>2 DEF opVars, TimePasses, BackupDue, ClaimBackup, Archived
  <2> QED
    BY <1>1, <2>1, ProjectWrites, SameContainers, OthersRoll
<1>3. CASE SetMaintenance \/ EndBackup \/ MaintenanceExpires \/ Unassign
  <2>1. UNCHANGED <<container, poll>>
    BY <1>3 DEF SetMaintenance, EndBackup, MaintenanceExpires, Unassign
  <2>2. RevisionKept
    BY <1>3, ProjectWrites DEF SetMaintenance, EndBackup, MaintenanceExpires, Unassign
  <2> QED
    BY <1>1, <2>1, <2>2, SameContainers, OthersRoll
<1>4. CASE ApplySpec
  <2>1. UNCHANGED <<container, poll>> /\ RevisionKept
    BY <1>0, <1>4 DEF ApplySpec, RevisionKept, ProjectShape
  <2> QED
    BY <1>1, <2>1, SameContainers, OthersRoll
<1>5. CASE StopProject
  <2>1. PICK services : container' = Stopped(services)
    BY <1>5 DEF StopProject
  <2>2. NoneBuilt
    BY <1>0, <2>1 DEF NoneBuilt, Stopped, NoContainer
  <2> QED
    BY <1>1, <1>5, <2>2, ProjectWrites, OthersRoll DEF StopProject
<1>6. CASE RestoreService
  <2>1. NoneBuilt
    BY <1>0, <1>6 DEF RestoreService, NoneBuilt, NoContainer
  <2> QED
    BY <1>1, <1>6, <2>1, ProjectWrites, OthersRoll DEF RestoreService
<1>7. ASSUME NEW s \in Service, NEW status \in {"exited", "missing", "paused", "restarting"},
             ContainerFails(s, status)
      PROVE  RolloutInv'
  <2>1. NoneBuilt
    BY <1>0, <1>7 DEF ContainerFails, NoneBuilt, NoContainer
  <2> QED
    BY <1>1, <1>7, <2>1, ProjectWrites, OthersRoll DEF ContainerFails
<1>8. ASSUME NEW s \in Service, RestartEnds(s)
      PROVE  RolloutInv'
  <2>1. NoneBuilt
    BY <1>0, <1>8 DEF RestartEnds, NoneBuilt, NoContainer
  <2> QED
    BY <1>1, <1>8, <2>1, ProjectWrites, OthersRoll DEF RestartEnds
<1>9. CASE AgentRestarts
  BY <1>1, <1>9, ProjectWrites, SameContainers, OthersRoll DEF AgentRestarts
<1> QED
  BY <1>1, <1>2, <1>3, <1>4, <1>5, <1>6, <1>7, <1>8, <1>9, PollRolls DEF OpNext, BackupStep

LEMMA RolloutInitially == OpInit => RolloutInv
<1>1. OpInit => ClaimInv
  BY DEF OpInit, ClaimInv, OpShapes, ClaimHeld, Quiet, IdlePoll, IdleBackup, NoContainer,
     Updating, Recovering, BackingUp
<1>2. OpInit => ProjectShape /\ PollSound
  BY DEF OpInit, ProjectShape, PollSound, IdlePoll
<1>3. OpInit => RolloutForward
  <2> SUFFICES ASSUME OpInit, NEW s \in Service, container[s].status # "missing"
               PROVE  \E r \in project.observed .. project.rev : container[s].hash = Manifest[r][s]
    BY DEF RolloutForward
  <2>1. container[s].hash = Manifest[1][s] /\ 1 \in project.observed .. project.rev
    BY DEF OpInit, NoContainer
  <2> QED
    BY <2>1
<1> QED
  BY <1>1, <1>2, <1>3 DEF RolloutInv

\* Containers never go back behind the revision the server shows as running, for
\* any manifests and whatever is applied while an update, a recovery or a health
\* check is between its read and its Docker calls or its report.
THEOREM RolloutGoesForward == OpSpec => []RolloutForward
<1>1. RolloutInv => RolloutForward
  BY DEF RolloutInv
<1> QED
  BY <1>1, RolloutInitially, RolloutStep, PTL DEF OpSpec
==============================================================================
