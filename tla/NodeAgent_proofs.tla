--------------------------- MODULE NodeAgent_proofs ---------------------------
(***************************************************************************)
(* The Agents beside the record, for any Nodes, lifetimes, assignments,    *)
(* late reports and restarts.  Everything an Agent says about an           *)
(* assignment is a claim: a step of a tick is about to report it, a report *)
(* of it is still on its way, or it is on record.  The invariant says what *)
(* makes each kind of claim true, and that nothing a Node does later makes *)
(* it false.                                                               *)
(***************************************************************************)
EXTENDS NodeAgent, ProjectLifecycle_proofs

------------------------------------------------------------------------------
(* The invariant.                                                          *)

Hold == {NoHold} \union [uid: UID, gen: 1..MaxGen, run: BOOLEAN]
Marker == {NoData} \union [uid: UID, gen: 1..MaxGen]
Snap == [uid: UID, gen: 1..MaxGen, phase: Phase, managed: BOOLEAN, restorable: BOOLEAN]
Task == [uid: UID, gen: 1..MaxGen, resolved: BOOLEAN, owed: BOOLEAN]
Message == [kind: {"removed", "quarantined"}, fence: Fence, phase: {"none"}]
             \union [kind: {"phase"}, fence: Fence, phase: Phase]

OnTask == {"remove", "report", "data", "quarantined"}
OnSnap == {"resolve", "terminated", "started", "failed", "recover"}

\* Every call an Agent makes or has made carries the fence of an assignment.
AgentTypes ==
  /\ held \in [Node -> Hold]
  /\ data \in [Node -> Marker]
  /\ DOMAIN pc = Node
  /\ snap \in [Node -> {NoSnap} \union Snap]
  /\ task \in [Node -> {NoTask} \union Task]
  /\ \A n \in Node : pc[n] \in OnTask => task[n] # NoTask
  /\ \A n \in Node : pc[n] \in OnSnap => snap[n] # NoSnap
  /\ inflight \subseteq Message

CallInv ==
  /\ IInv
  /\ status.gen <= MaxGen
  /\ uid # NoUID => removal[uid] = "live"
  /\ AgentTypes

Deleting == status.phase \in {"Terminating", "Terminated"}

\* An assignment that some record of the name was given.
Known(f) ==
  /\ removal[f.uid] # "unused"
  /\ f.uid = uid => \E gr \in grants : gr.node = f.node /\ gr.gen = f.gen

Labelled(f) == held[f.node].uid = f.uid /\ held[f.node].gen = f.gen

\* The tick of f's Node means to run f, and f is current.
Standing(f) ==
  /\ FenceMatches(f)
  /\ snap[f.node].uid = f.uid /\ snap[f.node].gen = f.gen /\ Active(snap[f.node])

InFlight(kind, f) == \E m \in inflight : m.kind = kind /\ m.fence = f

\* "Everything of this assignment is gone from its Node."
RemovedOnRecord(f) == uid = f.uid /\ ResourcesRemovedFor(status.obligations, f.node, f.gen)

RemovedClaim(f) ==
  \/ InFlight("removed", f)
  \/ pc[f.node] = "report" /\ FenceOf(task[f.node], f.node) = f
  \/ pc[f.node] = "resolve" /\ FenceOf(snap[f.node], f.node) = f
  \/ RemovedOnRecord(f)

RemovedTrue(f) ==
  /\ Labelled(f) => f \in late
  /\ FenceMatches(f) => Deleting
  /\ ~Standing(f)

\* "The Managed data of this assignment is out of the way."
QuarantinedOnRecord(f) ==
  uid = f.uid /\ \E o \in status.obligations : Names(o, f.node, f.gen) /\ o.quarantined

QuarantineClaim(f) ==
  \/ InFlight("quarantined", f)
  \/ pc[f.node] = "quarantined" /\ FenceOf(task[f.node], f.node) = f
  \/ QuarantinedOnRecord(f)

QuarantineTrue(f) ==
  /\ data[f.node] = [uid |-> f.uid, gen |-> f.gen] => f \in late
  /\ ~FenceMatches(f)

\* f's Node holds no containers but f's, and its tick is about nothing else.
HoldsOnly(f) == held[f.node] = NoHold \/ Labelled(f)
MeansOnly(f) == snap[f.node] = NoSnap \/ FenceOf(snap[f.node], f.node) = f

\* "The containers of this assignment run."  They may be gone by now; another's
\* have not taken their place.
RunningOnRecord(f) == FenceMatches(f) /\ status.phase = "Running"

RunningClaim(f) ==
  \/ \E m \in inflight : m.kind = "phase" /\ m.phase = "Running" /\ m.fence = f
  \/ pc[f.node] = "started" /\ FenceOf(snap[f.node], f.node) = f
  \/ RunningOnRecord(f)

RunningTrue(f) == FenceMatches(f) /\ Active(status) => HoldsOnly(f) /\ MeansOnly(f)

ClaimTrue(f) ==
  /\ RemovedClaim(f) => Known(f) /\ RemovedTrue(f)
  /\ QuarantineClaim(f) => Known(f) /\ QuarantineTrue(f)
  /\ RunningClaim(f) => Known(f) /\ RunningTrue(f)

ClaimsTrue == \A f \in Fence : ClaimTrue(f)

\* What a Node has, and what its tick goes by, was granted to it.
HeldFits(n) == held[n] # NoHold =>
  /\ Known(FenceOf(held[n], n))
  /\ \/ removal[held[n].uid] = "forced" \/ uid = held[n].uid
     \/ FenceOf(held[n], n) \in late

SnapFits(n) == snap[n] # NoSnap =>
  /\ Known(FenceOf(snap[n], n))
  /\ snap[n].phase = "Terminating" /\ snap[n].uid = uid => Deleting
  /\ pc[n] = "recover" => Adoptable(n, snap[n]) /\ Active(snap[n])

TaskFits(n) == task[n] # NoTask =>
  Known(FenceOf(task[n], n)) /\ ~FenceMatches(FenceOf(task[n], n))

HeldSound == \A n \in Node : HeldFits(n)
SnapSound == \A n \in Node : SnapFits(n)
TaskSound == \A n \in Node : TaskFits(n)

SysInv == CallInv /\ HeldSound /\ SnapSound /\ TaskSound /\ ClaimsTrue

------------------------------------------------------------------------------
(* The record: a step of the system is a step of ProjectLifecycle.         *)

\* A report that reaches the server is one of the record's own steps.
LEMMA AcceptedIsNext ==
  ASSUME NEW m \in Message, Accepted(m)
  PROVE  Next
<1>1. CASE m.kind = "removed"
  <2>1. m.fence \in Fence
    BY DEF Message
  <2>2. RecordResourcesRemoved(m.fence)
    BY <1>1 DEF Accepted
  <2> QED BY <2>1, <2>2 DEF Next, AgentStep
<1>2. CASE m.kind = "quarantined"
  <2>1. m.fence \in Fence
    BY DEF Message
  <2>2. RecordManagedDataQuarantined(m.fence)
    BY <1>2 DEF Accepted
  <2> QED BY <2>1, <2>2 DEF Next, AgentStep
<1>3. CASE m.kind = "phase"
  <2>1. m.fence \in Fence /\ m.phase \in Phase
    BY <1>3 DEF Message
  <2>2. PatchStatus(m.fence, m.phase)
    BY <1>3 DEF Accepted
  <2> QED BY <2>1, <2>2 DEF Next, AgentStep
<1> QED BY <1>1, <1>2, <1>3 DEF Message

\* A fence is its three fields.
LEMMA FenceFields == \A f \in Fence : f = [uid |-> f.uid, node |-> f.node, gen |-> f.gen]
BY DEF Fence

\* The fences of a Node's tick.
LEMMA Fences ==
  ASSUME CallInv, NEW n \in Node
  PROVE  /\ snap[n] # NoSnap => snap[n] \in Snap /\ FenceOf(snap[n], n) \in Fence
         /\ task[n] # NoTask => task[n] \in Task /\ FenceOf(task[n], n) \in Fence
         /\ held[n] # NoHold => FenceOf(held[n], n) \in Fence
<1>1. held[n] \in Hold /\ snap[n] \in {NoSnap} \union Snap /\ task[n] \in {NoTask} \union Task
  BY DEF CallInv, AgentTypes
<1>2. \A u \in UID, g \in 1..MaxGen : [uid |-> u, node |-> n, gen |-> g] \in Fence
  BY DEF Fence
<1>3. snap[n] # NoSnap => FenceOf(snap[n], n) \in Fence
  BY <1>1, <1>2 DEF Snap, FenceOf
<1>4. task[n] # NoTask => FenceOf(task[n], n) \in Fence
  BY <1>1, <1>2 DEF Task, FenceOf
<1>5. held[n] # NoHold => FenceOf(held[n], n) \in Fence
  BY <1>1, <1>2 DEF Hold, FenceOf
<1> QED BY <1>1, <1>3, <1>4, <1>5

\* What a tick reports is a message.
LEMMA ReportTypes ==
  ASSUME CallInv, NEW n \in Node
  PROVE  /\ pc[n] = "report" => CleanupReport(n) \in Message
         /\ pc[n] = "quarantined" => QuarantineReport(n) \in Message
         /\ pc[n] = "resolve" => TeardownReport(n) \in Message
         /\ \A ph \in Phase : snap[n] # NoSnap => PhaseReport(n, ph) \in Message
<1>1. \A f \in Fence : /\ [kind |-> "removed", fence |-> f, phase |-> "none"] \in Message
                       /\ [kind |-> "quarantined", fence |-> f, phase |-> "none"] \in Message
                       /\ \A ph \in Phase : [kind |-> "phase", fence |-> f, phase |-> ph] \in Message
  BY DEF Message
<1>2. /\ pc[n] \in {"report", "quarantined"} => FenceOf(task[n], n) \in Fence
      /\ pc[n] = "resolve" => FenceOf(snap[n], n) \in Fence
      /\ snap[n] # NoSnap => FenceOf(snap[n], n) \in Fence
  BY Fences DEF CallInv, AgentTypes, OnTask, OnSnap
<1> QED BY <1>1, <1>2 DEF CleanupReport, QuarantineReport, TeardownReport, PhaseReport

\* A call leaves the record alone or takes one of its steps.
LEMMA CallIsNext ==
  ASSUME NEW n, NEW m \in Message, NEW next, NEW refused, Call(n, m, next, refused)
  PROVE  [Next]_vars
BY AcceptedIsNext DEF Call

\* Nothing the Agents or the server do changes the record but as
\* ProjectLifecycle has it.
LEMMA SystemStepsRecord == CallInv /\ [SystemNext]_allVars => [Next]_vars
<1> SUFFICES ASSUME CallInv, [SystemNext]_allVars PROVE [Next]_vars
  OBVIOUS
<1>1. CASE UNCHANGED allVars
  BY <1>1 DEF allVars
<1>2. CASE ServerSide
  <2>1. \A u \in UID, m \in ManagedChoices : CreateProject(u, m) => UserStep
    BY AgentBounds DEF UserStep
  <2>2. ForceDelete => UserStep
    BY DEF UserStep
  <2>3. \A u \in UID : /\ DeleteImmediately(u) \/ MarkTerminating(u) => UserStep
                       /\ FinalizeProject(u) => ServerStep
    BY DEF UserStep, ServerStep
  <2>4. \A n \in Node : SetProjectScheduled(n) \/ ClearRescheduleClocks(n) => ServerStep
    BY DEF ServerStep
  <2>5. \A f \in Fence : /\ ReleaseAssignment(f) \/ TakeoverProject(f) => ServerStep
                         /\ RecordCommittedBackup(f) => AgentStep
    BY DEF ServerStep, AgentStep
  <2> QED BY <1>2, <2>1, <2>2, <2>3, <2>4, <2>5, Zenon DEF ServerSide, Next
<1>3. ASSUME NEW m \in inflight, LateArrival(m) PROVE [Next]_vars
  <2>1. m \in Message
    BY DEF CallInv, AgentTypes
  <2> QED BY <1>3, <2>1, AcceptedIsNext DEF LateArrival
<1>4. ASSUME NEW n \in Node, AgentSide(n) PROVE [Next]_vars
  <2>1. /\ pc[n] = "report" => CleanupReport(n) \in Message
        /\ pc[n] = "quarantined" => QuarantineReport(n) \in Message
        /\ pc[n] = "resolve" => TeardownReport(n) \in Message
        /\ pc[n] \in {"terminated", "started", "failed"} => snap[n] # NoSnap
        /\ Active(snap[n]) => snap[n] # NoSnap
        /\ \A ph \in {"Terminated", "Running", "Failed"} : snap[n] # NoSnap => PhaseReport(n, ph) \in Message
    BY ReportTypes DEF CallInv, AgentTypes, OnSnap, Active, NoSnap, Phase
  <2>2. \/ ReportResourcesRemoved(n) \/ ReportManagedDataQuarantined(n) \/ ResolveOwnObligations(n)
        \/ ReportTerminated(n) \/ ReportRunning(n) \/ ReportFailed(n)
        => [Next]_vars
    BY <2>1, CallIsNext DEF ReportResourcesRemoved, ReportManagedDataQuarantined,
       ResolveOwnObligations, ReportTerminated, ReportRunning, ReportFailed
  <2>3. ReportFails(n) => UNCHANGED vars
    BY DEF ReportFails, CallFails
  <2>4. \/ \E done \in SUBSET UID : Tick(n, done)
        \/ ListFails(n) \/ RevalidateCleanup(n) \/ SkipCleanup(n) \/ RunCleanupTask(n)
        \/ QuarantineManagedData(n) \/ TerminateOne(n) \/ ReconcileOne(n) \/ ReconcileFails(n)
        \/ RecheckBeforeRecovery(n) \/ RecoverLocally(n) \/ GiveUp(n) \/ Crash(n) \/ ContainerExits(n)
        => UNCHANGED vars
    BY DEF Tick, ListFails, RevalidateCleanup, SkipCleanup, RunCleanupTask, QuarantineManagedData,
       TerminateOne, ReconcileOne, ReconcileFails, RecheckBeforeRecovery, RecoverLocally, GiveUp, Crash, ContainerExits
  <2> QED BY <1>4, <2>2, <2>3, <2>4, Zenon DEF AgentSide
<1> QED BY <1>1, <1>2, <1>3, <1>4 DEF SystemNext

\* What a step of the record does to its lifetime and to its assignment: a
\* lifetime ends or a fresh one begins; an assignment ends or a later one begins.
LifetimeStep ==
  /\ \A u \in UID : removal[u] \in {"live", "forced"} /\ u # uid => removal'[u] = removal[u]
  /\ \A u \in UID : removal[u] # "unused" => removal'[u] # "unused"
  /\ \/ uid' = uid /\ (uid # NoUID => removal'[uid] = removal[uid])
     \/ uid' = NoUID /\ uid # NoUID /\ removal'[uid] \in {"immediate", "finalized", "forced"}
     \/ uid = NoUID /\ uid' \in UID /\ removal[uid'] = "unused" /\ removal'[uid'] = "live"
  /\ uid' # uid => status' = InitialProjectStatus /\ grants' = {}

AssignmentStep ==
  /\ \A gr \in grants : \E x \in grants' : x.node = gr.node /\ x.gen = gr.gen
  /\ \/ status'.gen = status.gen + 1 /\ status'.gen <= MaxGen
     \/ /\ status'.gen = status.gen
        /\ status'.nodeRef \in {status.nodeRef, NoNode}
        /\ Active(status') => Active(status)

LEMMA RecordSteps ==
  ASSUME IInv, [Next]_vars, uid # NoUID => removal[uid] = "live"
  PROVE  LifetimeStep /\ (uid' = uid => AssignmentStep)
<1>0. /\ status \in Status /\ managed \in BOOLEAN /\ grants \in SUBSET Grant
      /\ uid \in UID \union {NoUID} /\ removal \in [UID -> Removal]
  BY DEF IInv, TypeOK
<1>1. ASSUME uid' = uid, removal' = removal, AssignmentStep
      PROVE  LifetimeStep /\ (uid' = uid => AssignmentStep)
  BY <1>1 DEF LifetimeStep
<1>2. ASSUME grants' = grants, status'.gen = status.gen, status'.nodeRef \in {status.nodeRef, NoNode},
             Active(status') => Active(status)
      PROVE  AssignmentStep
  BY <1>2 DEF AssignmentStep
<1>3. ASSUME NEW u \in UID, NEW m \in BOOLEAN, CreateProject(u, m)
      PROVE  LifetimeStep /\ uid' # uid
  BY <1>0, <1>3, NoUIDAssumption DEF CreateProject, LifetimeStep
<1>4. ASSUME NEW how \in {"immediate", "finalized", "forced"}, uid # NoUID, RecordRemoved(how)
      PROVE  LifetimeStep /\ uid' # uid
  BY <1>0, <1>4, NoUIDAssumption DEF RecordRemoved, LifetimeStep
<1>5. ASSUME NEW m \in BOOLEAN, UpdateProjectSpec(m)
      PROVE  uid' = uid /\ removal' = removal /\ AssignmentStep
  <2> DEFINE F(gr) == IF status.nodeRef # NoNode /\ gr.gen = status.gen
                        THEN [gr EXCEPT !.managed = @ \/ m] ELSE gr
  <2>1. \A gr \in grants : F(gr).node = gr.node /\ F(gr).gen = gr.gen
    BY <1>0 DEF Grant
  <2>2. grants' = {F(gr) : gr \in grants}
    BY <1>5 DEF UpdateProjectSpec
  <2> HIDE DEF F
  <2>3. \A gr \in grants : \E x \in grants' : x.node = gr.node /\ x.gen = gr.gen
    BY <2>1, <2>2
  <2>4. /\ status'.gen = status.gen /\ status'.nodeRef = status.nodeRef
        /\ status'.phase = status.phase
    BY <1>0, <1>5 DEF UpdateProjectSpec, SpecChanged, Status
  <2> QED BY <1>5, <2>3, <2>4 DEF UpdateProjectSpec, AssignmentStep, Active
<1>6. ASSUME NEW n \in Node, SetProjectScheduled(n)
      PROVE  uid' = uid /\ removal' = removal /\ AssignmentStep
  <2>1. status'.gen = status.gen + 1 /\ status.gen < MaxGen /\ status.gen \in Nat
    BY <1>0, <1>6 DEF SetProjectScheduled, Scheduled, Status
  <2>2. status'.gen <= MaxGen
    BY <2>1, MaxGenAssumption
  <2> QED BY <1>6, <2>1, <2>2 DEF SetProjectScheduled, AssignmentStep
<1>7. ASSUME NEW t, Write(t), t.gen = status.gen, t.nodeRef \in {status.nodeRef, NoNode},
             t.phase \in {"Scheduled", "Running"} => status.phase \in {"Scheduled", "Running"}
      PROVE  uid' = uid /\ removal' = removal /\ AssignmentStep
  BY <1>2, <1>7 DEF Write, Active
<1>8. \A auth, m : LET t == Released(status, auth, m) IN
        t.gen = status.gen /\ t.nodeRef = NoNode /\ t.phase = "Pending"
  BY <1>0 DEF Released, Status
<1>9. ASSUME NEW u \in UID, MarkTerminating(u)
      PROVE  uid' = uid /\ removal' = removal /\ AssignmentStep
  <2>1. LET t == MarkedTerminating(status) IN
          t.gen = status.gen /\ t.nodeRef = status.nodeRef /\ t.phase = "Terminating"
    BY <1>0 DEF MarkedTerminating, Status
  <2> QED BY <1>7, <1>9, <2>1 DEF MarkTerminating
<1>10. ASSUME NEW f \in Fence, ReleaseAssignment(f)
       PROVE  uid' = uid /\ removal' = removal /\ AssignmentStep
  <2>1. LET t == [status EXCEPT !.takeover = TRUE] IN
          t.gen = status.gen /\ t.nodeRef = status.nodeRef /\ t.phase = status.phase
    BY <1>0 DEF Status
  <2>2. LET t == Unreachable(status, f.node, f.gen, managed, GraceExpiredRelease) IN
          /\ t.gen = status.gen /\ t.nodeRef \in {status.nodeRef, NoNode}
          /\ t.phase \in {status.phase, "Pending"}
    BY <1>8, <2>1 DEF Unreachable
  <2> QED BY <1>7, <1>10, <2>2 DEF ReleaseAssignment
<1>11. ASSUME NEW f \in Fence, MoveFailedProject(f)
       PROVE  uid' = uid /\ removal' = removal /\ AssignmentStep
  <2> DEFINE r == Released(status, "WorkloadStopped", managed)
  <2>1. LET t == [status EXCEPT !.takeover = TRUE] IN
          t.gen = status.gen /\ t.nodeRef = status.nodeRef /\ t.phase = status.phase
    BY <1>0 DEF Status
  <2>2. {"gen", "nodeRef", "phase", "failedNodes"} \subseteq DOMAIN r
    BY <1>0 DEF Released, Status
  <2>3. r.gen = status.gen /\ r.nodeRef = NoNode /\ r.phase = "Pending"
    BY <1>8
  <2> HIDE DEF r
  <2>4. LET t == [r EXCEPT !.failedNodes = @ \union {f.node}] IN
          t.gen = status.gen /\ t.nodeRef = NoNode /\ t.phase = "Pending"
    BY <2>2, <2>3
  <2>5. LET t == MovedAfterFailure(status, f.node, f.gen, managed) IN
          /\ t.gen = status.gen /\ t.nodeRef \in {status.nodeRef, NoNode}
          /\ t.phase \in {status.phase, "Pending"}
    BY <2>1, <2>4 DEF MovedAfterFailure, r
  <2> QED BY <1>7, <1>11, <2>5 DEF MoveFailedProject
<1>12. ASSUME NEW f \in Fence, TakeoverProject(f)
       PROVE  uid' = uid /\ removal' = removal /\ AssignmentStep
  <2>1. LET t == TakenOver(status, f.node, f.gen, managed) IN
          t.gen = status.gen /\ t.nodeRef = NoNode /\ t.phase = "Pending"
    BY <1>0 DEF TakenOver, Status
  <2> QED BY <1>7, <1>12, <2>1 DEF TakeoverProject
<1>13. ASSUME NEW f \in Fence, NEW ph \in Phase, PatchStatus(f, ph)
       PROVE  uid' = uid /\ removal' = removal /\ AssignmentStep
  <2>1. LET t == Reported(status, ph) IN
          t.gen = status.gen /\ t.nodeRef = status.nodeRef /\ t.phase = ph
    BY <1>0 DEF Reported, Status
  <2>2. ph \in {"Scheduled", "Running"} => status.phase \in {"Scheduled", "Running"}
    BY <1>13 DEF PatchStatus, CanReport, PhaseTransitionAllowed, phaseTransitions
  <2> QED BY <1>7, <1>13, <2>1, <2>2 DEF PatchStatus
<1>14. ASSUME \/ ClearFailedNodes
              \/ \E n \in Node : ClearRescheduleClocks(n)
              \/ \E f \in Fence : \/ RecordWorkloadStopped(f) \/ RecordCommittedBackup(f)
                                  \/ RecordBackupCompletion(f) \/ RecordResourcesRemoved(f)
                                  \/ RecordManagedDataQuarantined(f)
       PROVE  uid' = uid /\ removal' = removal /\ AssignmentStep
  <2>1. /\ status'.gen = status.gen /\ status'.nodeRef = status.nodeRef
        /\ status'.phase = status.phase /\ grants' = grants /\ uid' = uid /\ removal' = removal
    BY <1>0, <1>14 DEF ClearFailedNodes, ClearRescheduleClocks, RecordWorkloadStopped,
       RecordCommittedBackup, RecordBackupCompletion, RecordResourcesRemoved,
       RecordManagedDataQuarantined, Write, StoppedRecorded, BackupAccepted,
       ResourcesRemovedRecorded, QuarantineRecorded, Status
  <2> QED BY <1>2, <2>1 DEF Active
<1>15. ASSUME UNCHANGED vars PROVE uid' = uid /\ removal' = removal /\ AssignmentStep
  BY <1>2, <1>15 DEF vars
<1>16. ASSUME \/ ForceDelete
              \/ \E u \in UID : DeleteImmediately(u) \/ FinalizeProject(u)
       PROVE  LifetimeStep /\ uid' # uid
  BY <1>4, <1>16, NoUIDAssumption DEF ForceDelete, DeleteImmediately, FinalizeProject
<1> QED
  BY <1>1, <1>3, <1>5, <1>6, <1>9, <1>10, <1>11, <1>12, <1>13, <1>14, <1>15, <1>16
     DEF Next, UserStep, ServerStep, AgentStep

------------------------------------------------------------------------------
(* Every call carries the fence of an assignment.                          *)

\* The record an Agent lists or is asked to clean up after has an assignment.
LEMMA GenerationsGranted ==
  ASSUME CallInv
  PROVE  /\ \A gr \in grants : gr.gen \in 1..MaxGen /\ gr.gen <= status.gen /\ gr.node \in Node
         /\ status.nodeRef # NoNode => status.gen \in 1..MaxGen /\ status.nodeRef \in Node
         /\ \A o \in status.obligations : o.gen \in 1..MaxGen /\ o.node \in Node
<1>1. /\ status \in Status /\ grants \in SUBSET Grant /\ status.gen \in Nat /\ status.gen <= MaxGen
      /\ Ledger(status.phase, status.nodeRef, status.gen, status.obligations, grants)
  BY DEF CallInv, IInv, TypeOK, StatusLedger, Status
<1>2. \A gr \in grants : gr.gen \in 1..MaxGen /\ gr.gen <= status.gen /\ gr.node \in Node
  BY <1>1, MaxGenAssumption DEF Ledger, Counted, Grant
<1>3. status.nodeRef # NoNode => \E gr \in grants : gr.gen = status.gen
  BY <1>1 DEF Ledger, Coherent
<1>4. \A o \in status.obligations : o.node \in Node /\ \E gr \in grants : gr.gen = o.gen
  BY <1>1 DEF Ledger, Granted, Names, Status, Obligation
<1>5. status.nodeRef # NoNode => status.nodeRef \in Node
  BY <1>1 DEF Status
<1> QED BY <1>2, <1>3, <1>4, <1>5

LEMMA ListingType ==
  ASSUME CallInv, NEW n \in Node
  PROVE  Listing(n) \in {NoSnap} \union Snap
<1>1. /\ uid \in UID \union {NoUID} /\ managed \in BOOLEAN /\ status.phase \in Phase
      /\ status.hasBackup \in BOOLEAN
  BY DEF CallInv, IInv, TypeOK, Status
<1>2. status.nodeRef = n => status.gen \in 1..MaxGen
  BY GenerationsGranted, NoNodeAssumption
<1> QED BY <1>1, <1>2 DEF Listing, Snap

\* What a Node's tick may do to what it remembers.
LEMMA GotoTypes ==
  ASSUME AgentTypes, NEW n \in Node, NEW next, Goto(n, next),
         next \in OnTask => task[n] # NoTask, next \in OnSnap => snap[n] # NoSnap
  PROVE  /\ DOMAIN pc' = Node
         /\ snap' \in [Node -> {NoSnap} \union Snap] /\ task' \in [Node -> {NoTask} \union Task]
         /\ \A k \in Node : pc'[k] \in OnTask => task'[k] # NoTask
         /\ \A k \in Node : pc'[k] \in OnSnap => snap'[k] # NoSnap
<1>1. /\ snap' \in [Node -> {NoSnap} \union Snap] /\ task' \in [Node -> {NoTask} \union Task]
      /\ DOMAIN pc' = Node /\ pc'[n] = next
  BY DEF AgentTypes, Goto
<1>2. \A k \in Node : k # n => pc'[k] = pc[k] /\ snap'[k] = snap[k] /\ task'[k] = task[k]
  BY DEF AgentTypes, Goto
<1>3. next \in OnTask => task'[n] = task[n]
  BY DEF Goto, OnTask
<1>4. next \in OnSnap => snap'[n] = snap[n]
  BY DEF Goto, OnSnap
<1> QED BY <1>1, <1>2, <1>3, <1>4 DEF AgentTypes

LEMMA StartTypes ==
  ASSUME AgentTypes, NEW n \in Node, NEW p \in Snap, StartContainers(n, p) \/ StartFails(n, p)
  PROVE  held' \in [Node -> Hold]
<1>1. \A b \in BOOLEAN : [uid |-> p.uid, gen |-> p.gen, run |-> b] \in Hold
  BY DEF Snap, Hold
<1>2. NoHold \in Hold /\ held[n] \in Hold
  BY DEF AgentTypes, Hold
<1>3. CASE StartContainers(n, p)
  BY <1>1, <1>3 DEF AgentTypes, StartContainers
<1>4. CASE StartFails(n, p)
  <2>1. PICK h \in {NoHold, held[n]} \union [uid : {p.uid}, gen : {p.gen}, run : BOOLEAN] :
          held' = [held EXCEPT ![n] = h]
    BY <1>4 DEF StartFails
  <2>2. h \in [uid : {p.uid}, gen : {p.gen}, run : BOOLEAN] =>
          h = [uid |-> p.uid, gen |-> p.gen, run |-> h.run] /\ h.run \in BOOLEAN
    OBVIOUS
  <2>3. h \in Hold
    BY <1>1, <1>2, <2>2
  <2> QED BY <2>1, <2>3 DEF AgentTypes
<1> QED BY <1>3, <1>4

LEMMA SweepTypes ==
  ASSUME AgentTypes, NEW n \in Node, NEW p \in {NoSnap} \union Snap, NEW done, SweepOrphans(n, p, done)
  PROVE  held' \in [Node -> Hold]
<1>1. Active(p) => p \in Snap
  BY DEF Active, NoSnap
<1>2. CASE (StartContainers(n, p) \/ StartFails(n, p)) /\ Active(p)
  BY <1>1, <1>2, StartTypes
<1>3. CASE UNCHANGED held
  BY <1>3 DEF AgentTypes
<1>4. CASE RemoveContainers(n, TRUE)
  BY <1>4 DEF AgentTypes, RemoveContainers, Hold
<1>5. CASE held[n] # NoHold /\ held' = [held EXCEPT ![n].run = FALSE]
  <2>1. held[n] \in [uid: UID, gen: 1..MaxGen, run: BOOLEAN]
    BY <1>5 DEF AgentTypes, Hold
  <2>2. [held[n] EXCEPT !.run = FALSE] \in Hold
    BY <2>1 DEF Hold
  <2> QED BY <1>5, <2>2 DEF AgentTypes
<1> QED BY <1>2, <1>3, <1>4, <1>5 DEF SweepOrphans

\* A call, answered or given up.
LEMMA CallTypes ==
  ASSUME AgentTypes, NEW n \in Node, NEW m \in Message, NEW next, NEW refused,
         next \in OnTask => task[n] # NoTask, next \in OnSnap => snap[n] # NoSnap,
         refused \in OnTask => task[n] # NoTask, refused \in OnSnap => snap[n] # NoSnap,
         Call(n, m, next, refused) \/ CallFails(n, m, next),
         UNCHANGED <<held, data>>
  PROVE  AgentTypes'
<1>1. inflight' \subseteq Message
  BY DEF Call, CallFails, AgentTypes
<1>2. Goto(n, next) \/ Goto(n, refused)
  BY DEF Call, CallFails
<1>3. /\ DOMAIN pc' = Node
      /\ snap' \in [Node -> {NoSnap} \union Snap] /\ task' \in [Node -> {NoTask} \union Task]
      /\ \A k \in Node : pc'[k] \in OnTask => task'[k] # NoTask
      /\ \A k \in Node : pc'[k] \in OnSnap => snap'[k] # NoSnap
  BY <1>2, GotoTypes
<1>4. held' \in [Node -> Hold] /\ data' \in [Node -> Marker]
  BY DEF AgentTypes
<1> QED BY <1>1, <1>3, <1>4 DEF AgentTypes

LEMMA AgentTypesStep ==
  ASSUME CallInv, NEW n \in Node, AgentSide(n)
  PROVE  AgentTypes'
<1>0. AgentTypes /\ Phase = {"Pending", "Scheduled", "Running", "Failed", "Terminating", "Terminated"}
  BY DEF CallInv, Phase
<1>1. ASSUME NEW next, Goto(n, next), UNCHANGED <<held, data, inflight>>,
             next \in OnTask => task[n] # NoTask, next \in OnSnap => snap[n] # NoSnap
      PROVE  AgentTypes'
  BY <1>0, <1>1, GotoTypes DEF AgentTypes
<1>2. ASSUME NEW next, Goto(n, next), held' \in [Node -> Hold], data' \in [Node -> Marker],
             UNCHANGED inflight,
             next \in OnTask => task[n] # NoTask, next \in OnSnap => snap[n] # NoSnap
      PROVE  AgentTypes'
  BY <1>0, <1>2, GotoTypes DEF AgentTypes
<1>3. /\ pc[n] \in OnTask => task[n] # NoTask
      /\ pc[n] \in OnSnap => snap[n] # NoSnap
      /\ Active(snap[n]) \/ snap[n].phase = "Terminating" => snap[n] # NoSnap
  BY <1>0 DEF AgentTypes, Active, NoSnap
<1>4. \A gone : RemoveContainers(n, gone) => held' \in [Node -> Hold]
  BY <1>0 DEF AgentTypes, RemoveContainers, Hold
<1>5. snap[n] # NoSnap => snap[n] \in Snap /\ [uid |-> snap[n].uid, gen |-> snap[n].gen] \in Marker
  BY <1>0 DEF AgentTypes, Snap, Marker
<1>6. ASSUME NEW done \in SUBSET UID, Tick(n, done) PROVE AgentTypes'
  <2>1. Listing(n) \in {NoSnap} \union Snap
    BY ListingType
  <2>2. held' \in [Node -> Hold]
    BY <1>0, <1>6, <2>1, SweepTypes DEF Tick
  <2>3. /\ snap' \in [Node -> {NoSnap} \union Snap] /\ DOMAIN pc' = Node
        /\ pc'[n] = "cleanup" /\ \A k \in Node : k # n => pc'[k] = pc[k] /\ snap'[k] = snap[k]
        /\ UNCHANGED <<data, task, inflight>>
    BY <1>0, <1>6, <2>1 DEF Tick, AgentTypes
  <2> QED BY <1>0, <2>2, <2>3 DEF AgentTypes, OnTask, OnSnap
<1>7. ASSUME ListFails(n) PROVE AgentTypes'
  BY <1>0, <1>7 DEF ListFails, AgentTypes
<1>8. ASSUME RevalidateCleanup(n) PROVE AgentTypes'
  <2>1. PICK o \in Owing(status.obligations) :
          task' = [task EXCEPT ![n] = [uid |-> uid, gen |-> o.gen, resolved |-> o.removed,
                                       owed |-> DataOutstanding(o)]]
    BY <1>8 DEF RevalidateCleanup
  <2>2. o \in status.obligations
    BY DEF Owing
  <2>3. o.gen \in 1..MaxGen
    BY <2>2, GenerationsGranted
  <2>4. o.removed \in BOOLEAN /\ DataOutstanding(o) \in BOOLEAN /\ uid \in UID
    BY <1>8, <2>2 DEF RevalidateCleanup, CallInv, IInv, TypeOK, Status, Obligation, DataOutstanding
  <2>5. [uid |-> uid, gen |-> o.gen, resolved |-> o.removed, owed |-> DataOutstanding(o)] \in Task
    BY <2>3, <2>4 DEF Task
  <2>6. \A t \in Task : t # NoTask
    BY NoUIDAssumption DEF Task, NoTask
  <2> QED BY <1>0, <1>8, <2>1, <2>5, <2>6 DEF RevalidateCleanup, AgentTypes, OnTask, OnSnap
<1>9. ASSUME SkipCleanup(n) PROVE AgentTypes'
  BY <1>1, <1>9 DEF SkipCleanup, OnTask, OnSnap
<1>10. ASSUME RunCleanupTask(n) PROVE AgentTypes'
  <2>1. AfterRemoval(n) \notin OnSnap /\ task[n] # NoTask
    BY <1>3, <1>10 DEF RunCleanupTask, AfterRemoval, OnSnap, OnTask
  <2> QED BY <1>0, <1>2, <1>4, <1>10, <2>1 DEF RunCleanupTask, AgentTypes
<1>11. ASSUME QuarantineManagedData(n) PROVE AgentTypes'
  <2>1. data' \in [Node -> Marker] /\ task[n] # NoTask
    BY <1>0, <1>3, <1>11 DEF QuarantineManagedData, AgentTypes, Marker, OnTask
  <2> QED BY <1>0, <1>2, <1>11, <2>1 DEF QuarantineManagedData, AgentTypes, OnSnap
<1>12. ASSUME TerminateOne(n) PROVE AgentTypes'
  BY <1>0, <1>2, <1>3, <1>4, <1>12 DEF TerminateOne, AgentTypes, OnTask
<1>13. ASSUME ReconcileOne(n) PROVE AgentTypes'
  <2>1. snap[n] \in Snap
    BY <1>3, <1>5, <1>13 DEF ReconcileOne, Active
  <2>2. held' \in [Node -> Hold]
    BY <1>0, <1>13, <2>1, StartTypes DEF ReconcileOne, AgentTypes
  <2>3. data' \in [Node -> Marker]
    BY <1>0, <1>3, <1>5, <1>13 DEF ReconcileOne, AgentTypes, Active
  <2> QED BY <1>2, <1>3, <1>13, <2>2, <2>3 DEF ReconcileOne, Active, OnTask
<1>13a. ASSUME ReconcileFails(n) PROVE AgentTypes'
  <2>1. snap[n] \in Snap
    BY <1>3, <1>5, <1>13a DEF ReconcileFails, Active
  <2>2. held' \in [Node -> Hold]
    BY <1>0, <1>13a, <2>1, StartTypes DEF ReconcileFails
  <2>3. data' \in [Node -> Marker]
    BY <1>0, <1>3, <1>5, <1>13a DEF ReconcileFails, AgentTypes, Active
  <2> QED BY <1>2, <1>3, <1>13a, <2>2, <2>3 DEF ReconcileFails, Active, OnTask
<1>14. ASSUME RecheckBeforeRecovery(n) PROVE AgentTypes'
  BY <1>1, <1>3, <1>14 DEF RecheckBeforeRecovery, Active, OnTask
<1>15. ASSUME RecoverLocally(n) PROVE AgentTypes'
  <2>1. snap[n] \in Snap
    BY <1>3, <1>5, <1>15 DEF RecoverLocally, OnSnap
  <2>2. held' \in [Node -> Hold]
    BY <1>0, <1>15, <2>1, StartTypes DEF RecoverLocally
  <2> QED BY <1>0, <1>2, <1>15, <2>2 DEF RecoverLocally, AgentTypes, OnTask, OnSnap
<1>16. ASSUME GiveUp(n) PROVE AgentTypes'
  BY <1>1, <1>16 DEF GiveUp, OnTask, OnSnap
<1>17. ASSUME Crash(n) PROVE AgentTypes'
  BY <1>0, <1>17 DEF Crash, AgentTypes, OnTask, OnSnap
<1>18. ASSUME ContainerExits(n) PROVE AgentTypes'
  <2>1. held[n] \in [uid: UID, gen: 1..MaxGen, run: BOOLEAN]
    BY <1>0, <1>18 DEF ContainerExits, AgentTypes, Hold, NoHold
  <2>2. [held[n] EXCEPT !.run = FALSE] \in Hold
    BY <2>1 DEF Hold
  <2> QED BY <1>0, <1>18, <2>2 DEF ContainerExits, AgentTypes
<1>19. ASSUME NEW m \in Message, NEW next \in {"idle", "act", "data", "terminated"},
              NEW refused \in {"idle", "act", "terminated"},
              next = "data" => pc[n] \in OnTask,
              "terminated" \in {next, refused} => pc[n] \in OnSnap,
              Call(n, m, next, refused) \/ CallFails(n, m, next), UNCHANGED <<held, data>>
       PROVE  AgentTypes'
  <2>1. /\ next \in OnTask => task[n] # NoTask
        /\ next \in OnSnap => snap[n] # NoSnap
        /\ refused \in OnTask => task[n] # NoTask
        /\ refused \in OnSnap => snap[n] # NoSnap
    BY <1>3, <1>19 DEF OnTask, OnSnap
  <2>2. Call(n, m, next, refused) \/ CallFails(n, m, next)
    BY <1>19
  <2>3. UNCHANGED <<held, data>>
    BY <1>19
  <2> HIDE DEF OnTask, OnSnap
  <2> QED BY <1>0, <2>1, <2>2, <2>3, CallTypes, Zenon
<1>20. /\ pc[n] = "report" => CleanupReport(n) \in Message
       /\ pc[n] = "quarantined" => QuarantineReport(n) \in Message
       /\ pc[n] = "resolve" => TeardownReport(n) \in Message
       /\ pc[n] \in OnSnap \/ Active(snap[n]) =>
            \A ph \in Phase : PhaseReport(n, ph) \in Message
  BY <1>3, ReportTypes
<1>21. ASSUME \/ ReportResourcesRemoved(n) \/ ReportManagedDataQuarantined(n)
              \/ ResolveOwnObligations(n) \/ ReportTerminated(n) \/ ReportRunning(n) \/ ReportFailed(n)
       PROVE  AgentTypes'
  BY <1>0, <1>19, <1>20, <1>21 DEF ReportResourcesRemoved, ReportManagedDataQuarantined,
     ResolveOwnObligations, ReportTerminated, ReportRunning, ReportFailed, OnTask, OnSnap
<1>22. ASSUME ReportFails(n) PROVE AgentTypes'
  BY <1>0, <1>19, <1>20, <1>22 DEF ReportFails, OnTask, OnSnap
<1> QED
  BY <1>6, <1>7, <1>8, <1>9, <1>10, <1>11, <1>12, <1>13, <1>13a, <1>14, <1>15, <1>16, <1>17, <1>18,
     <1>21, <1>22, Zenon DEF AgentSide

LEMMA CallInvStep == CallInv /\ [SystemNext]_allVars => CallInv'
<1> SUFFICES ASSUME CallInv, [SystemNext]_allVars PROVE CallInv'
  OBVIOUS
<1>1. [Next]_vars
  BY SystemStepsRecord
<1>2. IInv'
  BY <1>1, InvariantStep DEF CallInv
<1>3. LifetimeStep /\ (uid' = uid => AssignmentStep)
  BY <1>1, RecordSteps DEF CallInv
<1>4. uid' # NoUID => removal'[uid'] = "live"
  BY <1>3 DEF CallInv, LifetimeStep
<1>5. status'.gen <= MaxGen
  <2>1. uid' # uid => status'.gen = 0
    BY <1>3 DEF LifetimeStep, InitialProjectStatus
  <2> QED BY <1>3, <2>1, MaxGenAssumption DEF CallInv, AssignmentStep
<1>6. AgentTypes'
  <2>1. CASE ServerSide \/ UNCHANGED allVars
    <3>1. UNCHANGED agentVars
      BY <2>1 DEF ServerSide, allVars
    <3> QED BY <3>1 DEF agentVars, CallInv, AgentTypes
  <2>2. CASE \E m \in inflight : LateArrival(m)
    BY <2>2 DEF LateArrival, CallInv, AgentTypes
  <2> QED BY <2>1, <2>2, AgentTypesStep DEF SystemNext
<1> QED BY <1>2, <1>4, <1>5, <1>6 DEF CallInv

LEMMA SystemStart == SystemInit => Init /\ CallInv
<1> SUFFICES ASSUME SystemInit PROVE Init /\ CallInv
  OBVIOUS
<1>1. Init /\ uid = NoUID /\ status = InitialProjectStatus /\ InitAgents
  BY NoUIDAssumption DEF SystemInit, Init
<1>2. IInv
  BY <1>1, InitialStatusType, EmptyLedger DEF Init, IInv, TypeOK, Removal
<1>3. AgentTypes
  BY <1>1 DEF InitAgents, AgentTypes, Hold, Marker, OnTask, OnSnap
<1>4. status.gen <= MaxGen
  BY <1>1, MaxGenAssumption DEF InitialProjectStatus
<1> QED BY <1>1, <1>2, <1>3, <1>4 DEF CallInv

LEMMA CallsAreFenced == SystemSpec => []CallInv
<1>1. SystemInit => CallInv
  BY SystemStart
<1>2. CallInv /\ [SystemNext]_allVars => CallInv'
  BY CallInvStep
<1> QED BY <1>1, <1>2, PTL DEF SystemSpec

\* The Agents and the server together do nothing to a record that
\* ProjectLifecycle does not have: whatever is proved of it holds while Agents
\* tick, fail, restart and report late.
THEOREM AgentsKeepLifecycle == SystemSpec => Spec
<1>1. SystemInit => Init
  BY SystemStart
<1>2. CallInv /\ [SystemNext]_allVars => [Next]_vars
  BY SystemStepsRecord
<1> QED BY <1>1, <1>2, CallsAreFenced, PTL DEF SystemSpec, Spec

------------------------------------------------------------------------------
(* What the record's steps do to what is known of an assignment.           *)

\* Stuttering included.
LEMMA RecordFacts ==
  ASSUME CallInv, [Next]_vars
  PROVE  /\ LifetimeStep
         /\ uid' = uid => AssignmentStep
         /\ CleanRemoval
         /\ KeepsDeleting
<1>1. IInv /\ (uid # NoUID => removal[uid] = "live")
  BY DEF CallInv
<1>2. LifetimeStep /\ (uid' = uid => AssignmentStep)
  BY <1>1, RecordSteps
<1>3. [CleanRemoval]_vars /\ [KeepsDeleting]_vars
  BY <1>1, RemovalStep, DeletionStep
<1>4. UNCHANGED vars => CleanRemoval /\ KeepsDeleting
  BY DEF vars, CleanRemoval, KeepsDeleting
<1> QED BY <1>2, <1>3, <1>4

\* A lifetime that was used is not begun again.
LEMMA SameLifetime ==
  ASSUME CallInv, [Next]_vars, NEW u \in UID, removal[u] # "unused", uid' = u
  PROVE  uid' = uid
BY RecordFacts, NoUIDAssumption DEF LifetimeStep

LEMMA KnownStays ==
  ASSUME CallInv, [Next]_vars, NEW f, f.uid \in UID, Known(f)
  PROVE  Known(f)'
<1>1. removal'[f.uid] # "unused"
  BY RecordFacts DEF LifetimeStep, Known
<1>2. ASSUME f.uid = uid' PROVE \E gr \in grants' : gr.node = f.node /\ gr.gen = f.gen
  <2>1. uid' = uid
    BY <1>2, SameLifetime DEF Known
  <2>2. AssignmentStep
    BY <2>1, RecordFacts
  <2> QED BY <1>2, <2>1, <2>2 DEF Known, AssignmentStep
<1> QED BY <1>1, <1>2 DEF Known

\* An assignment that is the current one after a step was so before it, unless
\* nobody knew of it.
LEMMA StillCurrent ==
  ASSUME CallInv, [Next]_vars, NEW f, f.uid \in UID, f.node \in Node, Known(f), FenceMatches(f)'
  PROVE  /\ FenceMatches(f)
         /\ uid' = uid
         /\ Active(status') => Active(status)
         /\ Deleting => Deleting'
<1>1. uid' = f.uid /\ status'.nodeRef = f.node /\ status'.gen = f.gen
  BY DEF FenceMatches
<1>2. uid' = uid
  BY <1>1, SameLifetime DEF Known
<1>3. AssignmentStep /\ KeepsDeleting
  BY <1>2, RecordFacts
<1>4. f.gen <= status.gen /\ status.gen \in Nat /\ f.gen \in Nat
  BY <1>1, <1>2, GenerationsGranted, MaxGenAssumption DEF Known, CallInv, IInv, TypeOK, Status
<1>5. ~(status'.gen = status.gen + 1)
  BY <1>1, <1>4
<1>6. /\ status'.gen = status.gen /\ status'.nodeRef = status.nodeRef
      /\ Active(status') => Active(status)
  BY <1>1, <1>3, <1>5, NoNodeAssumption DEF AssignmentStep
<1>7. Deleting => Deleting'
  BY <1>2, <1>3 DEF KeepsDeleting, Deleting
<1> QED BY <1>1, <1>2, <1>6, <1>7 DEF FenceMatches

------------------------------------------------------------------------------
(* What is on record was reported.                                         *)

SameEvidence(o, p) ==
  /\ Names(p, o.node, o.gen)
  /\ p.removed = o.removed
  /\ p.quarantined = o.quarantined

\* Every entry of new with evidence has it from old.
NothingNew(old, new) ==
  \A p \in new : p.removed \/ p.quarantined => \E o \in old : SameEvidence(o, p)

LEMMA NothingNewTransitive ==
  ASSUME NEW a, NEW b, NEW c, NothingNew(a, b), NothingNew(b, c)
  PROVE  NothingNew(a, c)
<1> SUFFICES ASSUME NEW p \in c, p.removed \/ p.quarantined
             PROVE  \E o \in a : SameEvidence(o, p)
  BY DEF NothingNew
<1>1. PICK q \in b : SameEvidence(q, p)
  BY DEF NothingNew
<1>2. q.removed \/ q.quarantined
  BY <1>1 DEF SameEvidence
<1>3. PICK o \in a : SameEvidence(o, q)
  BY <1>2 DEF NothingNew
<1> QED BY <1>1, <1>3 DEF SameEvidence, Names

\* A debt is recorded without evidence, and owing or overriding adds none.
LEMMA DebtsAreNoEvidence ==
  ASSUME NEW obls \in SUBSET Obligation, NEW n, NEW g, NEW auth, NEW m
  PROVE  /\ NothingNew(obls, AddObligation(obls, n, g, auth))
         /\ NothingNew(obls, OweManagedData(obls, n, g, m))
<1>1. \A o \in obls : SameEvidence(o, o)
  BY DEF SameEvidence, Names
<1>2. NothingNew(obls, AddObligation(obls, n, g, auth))
  BY <1>1 DEF NothingNew, AddObligation
<1> DEFINE F(o) == IF m /\ Names(o, n, g) THEN [o EXCEPT !.owed = TRUE] ELSE o
<1>3. \A o \in obls : SameEvidence(o, F(o))
  BY DEF SameEvidence, Names, Obligation
<1>4. OweManagedData(obls, n, g, m) = {F(o) : o \in obls}
  BY DEF OweManagedData
<1> HIDE DEF F
<1> QED BY <1>2, <1>3, <1>4 DEF NothingNew

LEMMA OverrideIsNoEvidence ==
  ASSUME NEW obls \in SUBSET Obligation, NEW n \in Node, NEW g \in Nat
  PROVE  NothingNew(obls, OverrideRelease(obls, n, g))
<1> DEFINE added == AddObligation(obls, n, g, "OperatorOverride")
           F(o) == IF Names(o, n, g) THEN [o EXCEPT !.auth = "OperatorOverride"] ELSE o
<1>1. NothingNew(obls, added)
  BY DebtsAreNoEvidence
<1>2. \A o \in added : o \in Obligation
  BY AddObligationType DEF Authorization
<1> HIDE DEF added
<1>3. \A o \in added : SameEvidence(o, F(o))
  BY <1>2 DEF SameEvidence, Names, Obligation
<1>4. OverrideRelease(obls, n, g) = {F(o) : o \in added}
  BY DEF OverrideRelease, added
<1> HIDE DEF F
<1>5. NothingNew(added, OverrideRelease(obls, n, g))
  BY <1>3, <1>4 DEF NothingNew
<1> QED BY <1>1, <1>5, NothingNewTransitive

LEMMA ReleaseIsNoEvidence ==
  ASSUME NEW s \in Status, s.nodeRef \in Node, NEW auth \in Authorization, NEW m
  PROVE  NothingNew(s.obligations, Released(s, auth, m).obligations)
<1> DEFINE added == AddObligation(s.obligations, s.nodeRef, s.gen, auth)
<1>1. s.obligations \in SUBSET Obligation /\ s.gen \in Nat
  BY DEF Status
<1>2. added \in SUBSET Obligation /\ NothingNew(s.obligations, added)
  BY <1>1, AddObligationType, DebtsAreNoEvidence
<1>3. Released(s, auth, m).obligations = OweManagedData(added, s.nodeRef, s.gen, m)
  BY DEF Released, Status
<1> HIDE DEF added
<1>4. NothingNew(added, OweManagedData(added, s.nodeRef, s.gen, m))
  BY <1>2, DebtsAreNoEvidence
<1> QED BY <1>2, <1>3, <1>4, NothingNewTransitive

LEMMA TakeoverIsNoEvidence ==
  ASSUME NEW s \in Status, NEW n \in Node, NEW g \in Nat, NEW m
  PROVE  NothingNew(s.obligations, TakenOver(s, n, g, m).obligations)
<1> DEFINE over == OverrideRelease(s.obligations, n, g)
<1>1. s.obligations \in SUBSET Obligation
  BY DEF Status
<1>2. over \in SUBSET Obligation /\ NothingNew(s.obligations, over)
  BY <1>1, OverrideReleaseType, OverrideIsNoEvidence
<1>3. TakenOver(s, n, g, m).obligations = OweManagedData(over, n, g, m)
  BY DEF TakenOver, Status
<1> HIDE DEF over
<1>4. NothingNew(over, OweManagedData(over, n, g, m))
  BY <1>2, DebtsAreNoEvidence
<1> QED BY <1>2, <1>3, <1>4, NothingNewTransitive

\* A step of the record that reports nothing.
QuietStep ==
  \/ uid' # uid /\ status' = InitialProjectStatus
  \/ /\ uid' = uid
     /\ NothingNew(status.obligations, status'.obligations)
     /\ status'.phase = "Running" =>
          status.phase = "Running" /\ status'.nodeRef = status.nodeRef /\ status'.gen = status.gen

LEMMA NothingChanged ==
  ASSUME NEW obls
  PROVE  NothingNew(obls, obls)
BY DEF NothingNew, SameEvidence, Names

LEMMA ServerIsQuiet ==
  ASSUME CallInv, ServerSide
  PROVE  QuietStep
<1>0. /\ status \in Status /\ managed \in BOOLEAN /\ uid \in UID \union {NoUID}
      /\ status.obligations \in SUBSET Obligation
      /\ \A f \in Fence : f.node \in Node /\ f.gen \in Nat /\ f.uid \in UID
  BY MaxGenAssumption DEF CallInv, IInv, TypeOK, Fence, Status
<1>1. ASSUME \/ \E u \in UID, m \in ManagedChoices : CreateProject(u, m)
             \/ ForceDelete
             \/ \E u \in UID : DeleteImmediately(u) \/ FinalizeProject(u)
      PROVE  QuietStep
  BY <1>1, NoUIDAssumption DEF CreateProject, ForceDelete, DeleteImmediately, FinalizeProject,
     RecordRemoved, QuietStep
<1>2. ASSUME NEW t, Write(t), t.phase # "Running", NothingNew(status.obligations, t.obligations)
      PROVE  QuietStep
  BY <1>2 DEF Write, QuietStep
<1>3. ASSUME NEW t, Write(t), t.obligations = status.obligations, t.phase = status.phase,
             t.nodeRef = status.nodeRef, t.gen = status.gen
      PROVE  QuietStep
  BY <1>3, NothingChanged DEF Write, QuietStep
<1>4. ASSUME NEW u \in UID, MarkTerminating(u) PROVE QuietStep
  <2> DEFINE t == MarkedTerminating(status)
  <2>1. t.phase = "Terminating"
    BY <1>0 DEF MarkedTerminating, Status
  <2>2. \/ t.obligations = status.obligations
        \/ t.obligations = AddObligation(status.obligations, status.nodeRef, status.gen, "Deletion")
    BY <1>0 DEF MarkedTerminating, Status
  <2> HIDE DEF t
  <2>3. NothingNew(status.obligations, t.obligations)
    BY <1>0, <2>2, NothingChanged, DebtsAreNoEvidence
  <2> QED BY <1>2, <1>4, <2>1, <2>3 DEF MarkTerminating, t
<1>5. ASSUME NEW n \in Node, SetProjectScheduled(n) PROVE QuietStep
  <2>1. status'.phase = "Scheduled" /\ status'.obligations = status.obligations /\ uid' = uid
    BY <1>0, <1>5 DEF SetProjectScheduled, Scheduled, Status
  <2> QED BY <2>1, NothingChanged DEF QuietStep
<1>6. ASSUME \/ \E n \in Node : ClearRescheduleClocks(n)
             \/ \E f \in Fence : RecordCommittedBackup(f)
      PROVE  QuietStep
  <2>1. \A t \in {[status EXCEPT !.takeover = FALSE], BackupAccepted(status)} :
          /\ t.obligations = status.obligations /\ t.phase = status.phase
          /\ t.nodeRef = status.nodeRef /\ t.gen = status.gen
    BY <1>0 DEF BackupAccepted, Status
  <2> QED BY <1>3, <1>6, <2>1 DEF ClearRescheduleClocks, RecordCommittedBackup
<1>7. ASSUME NEW f \in Fence, ReleaseAssignment(f) PROVE QuietStep
  <2>1. status.nodeRef \in Node
    BY <1>0, <1>7 DEF ReleaseAssignment, CanRelease
  <2>2. \A auth \in Authorization : LET t == Released(status, auth, managed) IN
          t.phase # "Running" /\ NothingNew(status.obligations, t.obligations)
    <3>1. \A auth \in Authorization : Released(status, auth, managed).phase = "Pending"
      BY <1>0 DEF Released, Status
    <3> QED BY <1>0, <2>1, <3>1, ReleaseIsNoEvidence
  <2>3. LET t == [status EXCEPT !.takeover = TRUE] IN
          /\ t.obligations = status.obligations /\ t.phase = status.phase
          /\ t.nodeRef = status.nodeRef /\ t.gen = status.gen
    BY <1>0 DEF Status
  <2>4. \/ \E auth \in Authorization : Write(Released(status, auth, managed))
        \/ Write([status EXCEPT !.takeover = TRUE])
    BY <1>7 DEF ReleaseAssignment, Unreachable, Authorization
  <2> QED BY <1>2, <1>3, <2>2, <2>3, <2>4
<1>8. ASSUME NEW f \in Fence, TakeoverProject(f) PROVE QuietStep
  <2> DEFINE t == TakenOver(status, f.node, f.gen, managed)
  <2>1. t.phase = "Pending"
    BY <1>0 DEF TakenOver, Status
  <2>2. NothingNew(status.obligations, t.obligations)
    BY <1>0, TakeoverIsNoEvidence
  <2> HIDE DEF t
  <2> QED BY <1>2, <1>8, <2>1, <2>2 DEF TakeoverProject, t
<1> QED
  BY <1>1, <1>4, <1>5, <1>6, <1>7, <1>8 DEF ServerSide

\* What a report says.
MessageClaimed(m) ==
  /\ m.kind = "removed" => RemovedClaim(m.fence)
  /\ m.kind = "quarantined" => QuarantineClaim(m.fence)
  /\ m.kind = "phase" /\ m.phase = "Running" => RunningClaim(m.fence)

\* What a step puts on record was claimed before.
NewsIsClaimed ==
  \A f \in Fence : /\ RemovedOnRecord(f)' => RemovedClaim(f)
                   /\ QuarantinedOnRecord(f)' => QuarantineClaim(f)
                   /\ RunningOnRecord(f)' => RunningClaim(f)

LEMMA QuietNews ==
  ASSUME QuietStep
  PROVE  NewsIsClaimed
<1> SUFFICES ASSUME NEW f \in Fence
             PROVE  /\ RemovedOnRecord(f)' => RemovedOnRecord(f)
                    /\ QuarantinedOnRecord(f)' => QuarantinedOnRecord(f)
                    /\ RunningOnRecord(f)' => RunningOnRecord(f)
  BY DEF NewsIsClaimed, RemovedClaim, QuarantineClaim, RunningClaim
<1>1. CASE uid' # uid /\ status' = InitialProjectStatus
  <2>1. status'.obligations = {} /\ status'.phase = "Pending"
    BY <1>1 DEF InitialProjectStatus
  <2> QED BY <2>1 DEF RemovedOnRecord, QuarantinedOnRecord, RunningOnRecord, ResourcesRemovedFor
<1>2. CASE uid' = uid /\ NothingNew(status.obligations, status'.obligations)
  <2>1. ASSUME NEW p \in status'.obligations, Names(p, f.node, f.gen), p.removed \/ p.quarantined
        PROVE  \E o \in status.obligations :
                 Names(o, f.node, f.gen) /\ o.removed = p.removed /\ o.quarantined = p.quarantined
    BY <1>2, <2>1 DEF NothingNew, SameEvidence, Names
  <2>2. RemovedOnRecord(f)' => RemovedOnRecord(f)
    BY <1>2, <2>1 DEF RemovedOnRecord, ResourcesRemovedFor
  <2>3. QuarantinedOnRecord(f)' => QuarantinedOnRecord(f)
    BY <1>2, <2>1 DEF QuarantinedOnRecord
  <2>4. RunningOnRecord(f)' => RunningOnRecord(f)
    BY <1>2 DEF QuietStep, RunningOnRecord, FenceMatches
  <2> QED BY <2>2, <2>3, <2>4
<1> QED BY <1>1, <1>2 DEF QuietStep

LEMMA AcceptedNews ==
  ASSUME CallInv, NEW m \in Message, MessageClaimed(m), Accepted(m)
  PROVE  NewsIsClaimed
<1>0. status \in Status /\ \A o \in status.obligations : o \in Obligation
  BY DEF CallInv, IInv, TypeOK, Status
<1>1. ASSUME NEW f \in Fence, RecordResourcesRemoved(f), RemovedClaim(f) PROVE NewsIsClaimed
  <2> DEFINE F(o) == IF Names(o, f.node, f.gen) THEN [o EXCEPT !.removed = TRUE] ELSE o
  <2>1. status'.obligations = {F(o) : o \in status.obligations}
    BY <1>0, <1>1 DEF RecordResourcesRemoved, Write, ResourcesRemovedRecorded, Status
  <2>2. \A o \in status.obligations : /\ Names(F(o), o.node, o.gen) /\ F(o).quarantined = o.quarantined
                                      /\ F(o).removed => o.removed \/ Names(o, f.node, f.gen)
    BY <1>0 DEF Names, Obligation
  <2>3. /\ uid' = uid /\ uid = f.uid /\ status'.phase = status.phase
        /\ status'.nodeRef = status.nodeRef /\ status'.gen = status.gen
    BY <1>0, <1>1 DEF RecordResourcesRemoved, Write, ResourcesRemovedRecorded, Status
  <2> HIDE DEF F
  <2> SUFFICES ASSUME NEW g \in Fence
               PROVE  /\ RemovedOnRecord(g)' => RemovedClaim(g)
                      /\ QuarantinedOnRecord(g)' => QuarantinedOnRecord(g)
                      /\ RunningOnRecord(g)' => RunningOnRecord(g)
    BY DEF NewsIsClaimed, QuarantineClaim, RunningClaim
  <2>4. ASSUME RemovedOnRecord(g)' PROVE RemovedClaim(g)
    <3>1. PICK o \in status.obligations : Names(F(o), g.node, g.gen) /\ F(o).removed
      BY <2>1, <2>4 DEF RemovedOnRecord, ResourcesRemovedFor
    <3>2. Names(o, g.node, g.gen) /\ (o.removed \/ Names(o, f.node, f.gen))
      BY <2>2, <3>1 DEF Names
    <3>3. Names(o, f.node, f.gen) => g = f
      BY <2>3, <2>4, <3>2, FenceFields DEF Names, RemovedOnRecord
    <3>4. o.removed => RemovedOnRecord(g)
      BY <2>3, <2>4, <3>2 DEF RemovedOnRecord, ResourcesRemovedFor
    <3> QED BY <1>1, <3>2, <3>3, <3>4 DEF RemovedClaim
  <2>5. QuarantinedOnRecord(g)' => QuarantinedOnRecord(g)
    BY <2>1, <2>2, <2>3 DEF QuarantinedOnRecord, Names
  <2>6. RunningOnRecord(g)' => RunningOnRecord(g)
    BY <2>3 DEF RunningOnRecord, FenceMatches
  <2> QED BY <2>4, <2>5, <2>6
<1>2. ASSUME NEW f \in Fence, RecordManagedDataQuarantined(f), QuarantineClaim(f) PROVE NewsIsClaimed
  <2> DEFINE F(o) == IF Names(o, f.node, f.gen) THEN [o EXCEPT !.quarantined = TRUE] ELSE o
  <2>1. status'.obligations = {F(o) : o \in status.obligations}
    BY <1>0, <1>2 DEF RecordManagedDataQuarantined, Write, QuarantineRecorded, Status
  <2>2. \A o \in status.obligations : /\ Names(F(o), o.node, o.gen) /\ F(o).removed = o.removed
                                      /\ F(o).quarantined => o.quarantined \/ Names(o, f.node, f.gen)
    BY <1>0 DEF Names, Obligation
  <2>3. /\ uid' = uid /\ uid = f.uid /\ status'.phase = status.phase
        /\ status'.nodeRef = status.nodeRef /\ status'.gen = status.gen
    BY <1>0, <1>2 DEF RecordManagedDataQuarantined, Write, QuarantineRecorded, Status
  <2> HIDE DEF F
  <2> SUFFICES ASSUME NEW g \in Fence
               PROVE  /\ RemovedOnRecord(g)' => RemovedOnRecord(g)
                      /\ QuarantinedOnRecord(g)' => QuarantineClaim(g)
                      /\ RunningOnRecord(g)' => RunningOnRecord(g)
    BY DEF NewsIsClaimed, RemovedClaim, RunningClaim
  <2>4. ASSUME QuarantinedOnRecord(g)' PROVE QuarantineClaim(g)
    <3>1. PICK o \in status.obligations : Names(F(o), g.node, g.gen) /\ F(o).quarantined
      BY <2>1, <2>4 DEF QuarantinedOnRecord
    <3>2. Names(o, g.node, g.gen) /\ (o.quarantined \/ Names(o, f.node, f.gen))
      BY <2>2, <3>1 DEF Names
    <3>3. Names(o, f.node, f.gen) => g = f
      BY <2>3, <2>4, <3>2, FenceFields DEF Names, QuarantinedOnRecord
    <3>4. o.quarantined => QuarantinedOnRecord(g)
      BY <2>3, <2>4, <3>2 DEF QuarantinedOnRecord
    <3> QED BY <1>2, <3>2, <3>3, <3>4 DEF QuarantineClaim
  <2>5. RemovedOnRecord(g)' => RemovedOnRecord(g)
    BY <2>1, <2>2, <2>3 DEF RemovedOnRecord, ResourcesRemovedFor, Names
  <2>6. RunningOnRecord(g)' => RunningOnRecord(g)
    BY <2>3 DEF RunningOnRecord, FenceMatches
  <2> QED BY <2>4, <2>5, <2>6
<1>3. ASSUME NEW f \in Fence, NEW ph \in Phase, PatchStatus(f, ph), ph = "Running" => RunningClaim(f)
      PROVE  NewsIsClaimed
  <2>1. /\ uid' = uid /\ FenceMatches(f) /\ status'.phase = ph
        /\ status'.nodeRef = status.nodeRef /\ status'.gen = status.gen
        /\ status'.obligations = status.obligations
    BY <1>0, <1>3 DEF PatchStatus, Write, Reported, Status
  <2> SUFFICES ASSUME NEW g \in Fence
               PROVE  /\ RemovedOnRecord(g)' => RemovedOnRecord(g)
                      /\ QuarantinedOnRecord(g)' => QuarantinedOnRecord(g)
                      /\ RunningOnRecord(g)' => RunningClaim(g)
    BY DEF NewsIsClaimed, RemovedClaim, QuarantineClaim
  <2>2. RunningOnRecord(g)' => g = f /\ ph = "Running"
    BY <2>1, FenceFields DEF RunningOnRecord, FenceMatches
  <2> QED BY <1>3, <2>1, <2>2 DEF RemovedOnRecord, QuarantinedOnRecord
<1>4. m.fence \in Fence /\ (m.kind = "phase" => m.phase \in Phase)
  BY DEF Message
<1>5. CASE m.kind = "removed"
  BY <1>1, <1>4, <1>5 DEF Accepted, MessageClaimed
<1>6. CASE m.kind = "quarantined"
  BY <1>2, <1>4, <1>6 DEF Accepted, MessageClaimed
<1>7. CASE m.kind = "phase"
  BY <1>3, <1>4, <1>7 DEF Accepted, MessageClaimed
<1> QED BY <1>5, <1>6, <1>7 DEF Message

------------------------------------------------------------------------------
(* Steps of the record, and of a tick that claims nothing new.             *)

\* The tick of k stands still, goes on to its next part or ends.
GoesOn(k) ==
  \/ pc'[k] = pc[k] /\ snap'[k] = snap[k] /\ task'[k] = task[k]
  \/ /\ pc'[k] \in {"data", "act", "idle", "terminated"}
     /\ snap'[k] \in {snap[k], NoSnap}
     /\ task'[k] \in {task[k], NoTask}

Unclaiming ==
  /\ [Next]_vars
  /\ UNCHANGED <<held, data, late>>
  /\ NewsIsClaimed
  /\ \A m \in inflight' : MessageClaimed(m)
  /\ \A k \in Node : GoesOn(k)

\* Such a step makes no claim.
LEMMA UnclaimingClaims ==
  ASSUME Unclaiming, NEW f \in Fence
  PROVE  /\ RemovedClaim(f)' => RemovedClaim(f)
         /\ QuarantineClaim(f)' => QuarantineClaim(f)
         /\ RunningClaim(f)' => RunningClaim(f)
<1>1. GoesOn(f.node)
  BY DEF Unclaiming, Fence
<1>2. ASSUME NEW m \in inflight', m.fence = f
      PROVE  /\ m.kind = "removed" => RemovedClaim(f)
             /\ m.kind = "quarantined" => QuarantineClaim(f)
             /\ m.kind = "phase" /\ m.phase = "Running" => RunningClaim(f)
  BY <1>2 DEF Unclaiming, MessageClaimed
<1>3. NewsIsClaimed
  BY DEF Unclaiming
<1>4. RemovedClaim(f)' => RemovedClaim(f)
  <2>1. InFlight("removed", f)' => RemovedClaim(f)
    BY <1>2 DEF InFlight
  <2>2. pc'[f.node] \in {"report", "resolve"} =>
          pc'[f.node] = pc[f.node] /\ snap'[f.node] = snap[f.node] /\ task'[f.node] = task[f.node]
    BY <1>1 DEF GoesOn
  <2> QED BY <1>3, <2>1, <2>2 DEF RemovedClaim, NewsIsClaimed, FenceOf
<1>5. QuarantineClaim(f)' => QuarantineClaim(f)
  <2>1. InFlight("quarantined", f)' => QuarantineClaim(f)
    BY <1>2 DEF InFlight
  <2>2. pc'[f.node] = "quarantined" => pc'[f.node] = pc[f.node] /\ task'[f.node] = task[f.node]
    BY <1>1 DEF GoesOn
  <2> QED BY <1>3, <2>1, <2>2 DEF QuarantineClaim, NewsIsClaimed, FenceOf
<1>6. RunningClaim(f)' => RunningClaim(f)
  <2>1. pc'[f.node] = "started" => pc'[f.node] = pc[f.node] /\ snap'[f.node] = snap[f.node]
    BY <1>1 DEF GoesOn
  <2> QED BY <1>2, <1>3, <2>1 DEF RunningClaim, NewsIsClaimed, FenceOf
<1> QED BY <1>4, <1>5, <1>6

\* A claim that was true stays true: its assignment does not become current
\* again, and a deletion stands.
LEMMA TruthStays ==
  ASSUME CallInv, [Next]_vars, UNCHANGED <<held, data, late>>, NEW f \in Fence, Known(f),
         snap'[f.node] \in {snap[f.node], NoSnap}
  PROVE  /\ Known(f)'
         /\ RemovedTrue(f) => RemovedTrue(f)'
         /\ QuarantineTrue(f) => QuarantineTrue(f)'
         /\ RunningTrue(f) => RunningTrue(f)'
<1>1. f.uid \in UID /\ f.node \in Node /\ f.uid # NoUID
  BY NoUIDAssumption DEF Fence
<1>2. Known(f)'
  BY <1>1, KnownStays
<1>3. FenceMatches(f)' => /\ FenceMatches(f)
                          /\ Active(status') => Active(status)
                          /\ Deleting => Deleting'
  BY <1>1, StillCurrent
<1>4. Labelled(f)' <=> Labelled(f)
  BY DEF Labelled
<1>5. ASSUME Standing(f)' PROVE Standing(f)
  <2>1. FenceMatches(f)' /\ snap'[f.node].uid = f.uid
    BY <1>5 DEF Standing
  <2>2. snap'[f.node] = snap[f.node]
    BY <1>1, <2>1 DEF NoSnap
  <2> QED BY <1>3, <1>5, <2>1, <2>2 DEF Standing, Active
<1>6. RemovedTrue(f) => RemovedTrue(f)'
  BY <1>3, <1>4, <1>5 DEF RemovedTrue
<1>7. QuarantineTrue(f) => QuarantineTrue(f)'
  BY <1>3 DEF QuarantineTrue
<1>8. RunningTrue(f) => RunningTrue(f)'
  <2>1. (HoldsOnly(f) => HoldsOnly(f)') /\ (MeansOnly(f) => MeansOnly(f)')
    BY <1>4 DEF HoldsOnly, MeansOnly, FenceOf
  <2> QED BY <1>3, <2>1 DEF RunningTrue, Active
<1> QED BY <1>2, <1>6, <1>7, <1>8

LEMMA UnclaimingHeld ==
  ASSUME SysInv, Unclaiming
  PROVE  HeldSound'
<1> SUFFICES ASSUME NEW n \in Node, held[n] # NoHold
             PROVE  \E f : /\ f = FenceOf(held[n], n) /\ Known(f)'
                           /\ \/ removal'[f.uid] = "forced" \/ uid' = f.uid \/ f \in late
  BY DEF HeldSound, HeldFits, Unclaiming, FenceOf, Known
<1>0. CallInv /\ [Next]_vars
  BY DEF SysInv, Unclaiming
<1>a. PICK f \in Fence : f = FenceOf(held[n], n)
  BY <1>0, Fences
<1>1. f.uid = held[n].uid /\ f.node = n /\ f.gen = held[n].gen /\ f.uid \in UID
  BY <1>a DEF FenceOf, Fence
<1>2. Known(f) /\ (removal[f.uid] = "forced" \/ uid = f.uid \/ f \in late)
  BY <1>a, <1>1 DEF SysInv, HeldSound, HeldFits
<1>3. Labelled(f)
  BY <1>1 DEF Labelled
<1>4. Known(f)'
  BY <1>0, <1>1, <1>2, KnownStays
<1>5. LifetimeStep /\ CleanRemoval
  BY <1>0, RecordFacts
<1>6. CASE removal[f.uid] = "forced"
  <2>1. f.uid # uid
    BY <1>0, <1>1, <1>6, NoUIDAssumption DEF CallInv
  <2> QED BY <1>1, <1>4, <1>5, <1>6, <1>a, <2>1 DEF LifetimeStep
<1>7. CASE uid = f.uid
  <2>1. CASE uid' = uid
    BY <1>a, <1>4, <1>7, <2>1
  <2>2. CASE uid' # uid
    <3>1. removal'[f.uid] \in {"immediate", "finalized", "forced"} /\ removal[f.uid] = "live"
      BY <1>0, <1>1, <1>5, <1>7, <2>2, NoUIDAssumption DEF LifetimeStep, CallInv
    <3>2. PICK gr \in grants : gr.node = f.node /\ gr.gen = f.gen
      BY <1>2, <1>7 DEF Known
    <3>3. removal'[f.uid] # "immediate"
      BY <1>1, <1>5, <3>1, <3>2 DEF CleanRemoval
    <3>4. ASSUME removal'[f.uid] = "finalized" PROVE f \in late
      <4>1. RemovedClaim(f)
        BY <1>1, <1>5, <1>7, <3>1, <3>2, <3>4 DEF CleanRemoval, RemovedClaim, RemovedOnRecord
      <4> QED BY <1>1, <1>3, <4>1 DEF SysInv, ClaimsTrue, ClaimTrue, RemovedTrue
    <3> QED BY <1>a, <1>4, <3>1, <3>3, <3>4
  <2> QED BY <2>1, <2>2
<1>8. CASE f \in late
  BY <1>a, <1>4, <1>8
<1> QED BY <1>2, <1>6, <1>7, <1>8

LEMMA UnclaimingSnap ==
  ASSUME SysInv, Unclaiming
  PROVE  SnapSound'
<1> SUFFICES ASSUME NEW n \in Node, snap'[n] # NoSnap
             PROVE  /\ snap'[n] = snap[n] /\ \E f : f = FenceOf(snap[n], n) /\ Known(f)'
                    /\ snap[n].phase = "Terminating" /\ snap[n].uid = uid' => Deleting'
                    /\ pc'[n] = "recover" => Adoptable(n, snap[n]) /\ Active(snap[n])
  BY DEF SnapSound, SnapFits, Unclaiming, Adoptable, FenceOf, Known
<1>0. CallInv /\ [Next]_vars /\ GoesOn(n)
  BY DEF SysInv, Unclaiming
<1>1. snap'[n] = snap[n] /\ snap[n] # NoSnap
  BY <1>0 DEF GoesOn
<1>a. PICK f \in Fence : f = FenceOf(snap[n], n)
  BY <1>0, <1>1, Fences
<1>2. f.uid = snap[n].uid /\ f.uid \in UID
  BY <1>a DEF FenceOf, Fence
<1>3. Known(f) /\ (snap[n].phase = "Terminating" /\ f.uid = uid => Deleting)
  BY <1>1, <1>a, <1>2 DEF SysInv, SnapSound, SnapFits
<1>4. Known(f)'
  BY <1>0, <1>2, <1>3, KnownStays
<1>5. ASSUME snap[n].phase = "Terminating", f.uid = uid' PROVE Deleting'
  <2>1. uid' = uid
    BY <1>0, <1>2, <1>3, <1>5, SameLifetime DEF Known
  <2> QED BY <1>0, <1>3, <1>5, <2>1, RecordFacts DEF KeepsDeleting, Deleting
<1>6. ASSUME pc'[n] = "recover" PROVE Adoptable(n, snap[n]) /\ Active(snap[n])
  <2>1. pc[n] = "recover"
    BY <1>0, <1>6 DEF GoesOn
  <2> QED BY <1>1, <2>1 DEF SysInv, SnapSound, SnapFits
<1> QED BY <1>1, <1>a, <1>2, <1>4, <1>5, <1>6

LEMMA UnclaimingTask ==
  ASSUME SysInv, Unclaiming
  PROVE  TaskSound'
<1> SUFFICES ASSUME NEW n \in Node, task'[n] # NoTask
             PROVE  /\ task'[n] = task[n]
                    /\ \E f : f = FenceOf(task[n], n) /\ Known(f)' /\ ~FenceMatches(f)'
  BY DEF TaskSound, TaskFits, FenceOf, Known, FenceMatches
<1>0. CallInv /\ [Next]_vars /\ GoesOn(n)
  BY DEF SysInv, Unclaiming
<1>1. task'[n] = task[n] /\ task[n] # NoTask
  BY <1>0 DEF GoesOn
<1>a. PICK f \in Fence : f = FenceOf(task[n], n)
  BY <1>0, <1>1, Fences
<1>2. f.uid \in UID /\ f.node \in Node
  BY DEF Fence
<1>3. Known(f) /\ ~FenceMatches(f)
  BY <1>1, <1>a DEF SysInv, TaskSound, TaskFits
<1>4. Known(f)' /\ ~FenceMatches(f)'
  BY <1>0, <1>2, <1>3, KnownStays, StillCurrent
<1> QED BY <1>1, <1>a, <1>4

LEMMA UnclaimingKeeps ==
  ASSUME SysInv, CallInv', Unclaiming
  PROVE  SysInv'
<1>0. CallInv /\ [Next]_vars /\ UNCHANGED <<held, data, late>> /\ ClaimsTrue
  BY DEF SysInv, Unclaiming
<1>1. \A f \in Fence : snap'[f.node] \in {snap[f.node], NoSnap}
  BY DEF Unclaiming, GoesOn, Fence
<1>2. \A f \in Fence : /\ RemovedClaim(f)' => Known(f)' /\ RemovedTrue(f)'
                       /\ QuarantineClaim(f)' => Known(f)' /\ QuarantineTrue(f)'
                       /\ RunningClaim(f)' => Known(f)' /\ RunningTrue(f)'
  <2> SUFFICES ASSUME NEW f \in Fence
               PROVE  /\ RemovedClaim(f)' => Known(f)' /\ RemovedTrue(f)'
                      /\ QuarantineClaim(f)' => Known(f)' /\ QuarantineTrue(f)'
                      /\ RunningClaim(f)' => Known(f)' /\ RunningTrue(f)'
    OBVIOUS
  <2>1. /\ RemovedClaim(f)' => Known(f) /\ RemovedTrue(f)
        /\ QuarantineClaim(f)' => Known(f) /\ QuarantineTrue(f)
        /\ RunningClaim(f)' => Known(f) /\ RunningTrue(f)
    BY <1>0, UnclaimingClaims DEF ClaimsTrue, ClaimTrue
  <2>2. Known(f) => /\ Known(f)'
                    /\ RemovedTrue(f) => RemovedTrue(f)'
                    /\ QuarantineTrue(f) => QuarantineTrue(f)'
                    /\ RunningTrue(f) => RunningTrue(f)'
    BY <1>0, <1>1, TruthStays
  <2> QED BY <2>1, <2>2
<1>3. ClaimsTrue'
  BY <1>2 DEF ClaimsTrue, ClaimTrue
<1> QED BY <1>3, UnclaimingHeld, UnclaimingSnap, UnclaimingTask DEF SysInv

LEMMA InflightClaimed == \A m \in inflight : MessageClaimed(m)
BY DEF MessageClaimed, RemovedClaim, QuarantineClaim, RunningClaim, InFlight

LEMMA UnchangedNews ==
  ASSUME UNCHANGED vars
  PROVE  NewsIsClaimed
<1>1. QuietStep
  BY NothingChanged DEF vars, QuietStep
<1> QED BY <1>1, QuietNews

LEMMA GotoGoesOn ==
  ASSUME AgentTypes, NEW n \in Node, NEW next \in {"data", "act", "idle", "terminated"}, Goto(n, next)
  PROVE  \A k \in Node : GoesOn(k)
<1> SUFFICES ASSUME NEW k \in Node PROVE GoesOn(k)
  OBVIOUS
<1>1. CASE k = n
  BY <1>1 DEF AgentTypes, Goto, GoesOn
<1>2. CASE k # n
  BY <1>2 DEF AgentTypes, Goto, GoesOn
<1> QED BY <1>1, <1>2

\* A call, answered or given up, of an Agent whose claim stands already.
LEMMA CallUnclaiming ==
  ASSUME CallInv, NEW n \in Node, NEW m \in Message, MessageClaimed(m),
         NEW next \in {"data", "act", "idle", "terminated"},
         NEW refused \in {"data", "act", "idle", "terminated"},
         Call(n, m, next, refused) \/ CallFails(n, m, next),
         UNCHANGED <<held, data, late>>
  PROVE  Unclaiming
<1>1. [Next]_vars
  BY AcceptedIsNext DEF Call, CallFails
<1>2. NewsIsClaimed
  BY AcceptedNews, UnchangedNews DEF Call, CallFails
<1>3. inflight' \subseteq inflight \union {m}
  BY DEF Call, CallFails
<1>4. \A x \in inflight' : MessageClaimed(x)
  BY <1>3, InflightClaimed
<1>5. AgentTypes /\ (Goto(n, next) \/ Goto(n, refused))
  BY DEF CallInv, Call, CallFails
<1>6. \A k \in Node : GoesOn(k)
  BY <1>5, GotoGoesOn
<1> QED BY <1>1, <1>2, <1>4, <1>6 DEF Unclaiming

\* What a tick is about to report is claimed.
LEMMA ReportsClaimed ==
  ASSUME CallInv, NEW n \in Node
  PROVE  /\ pc[n] = "report" => CleanupReport(n) \in Message /\ MessageClaimed(CleanupReport(n))
         /\ pc[n] = "quarantined" =>
              QuarantineReport(n) \in Message /\ MessageClaimed(QuarantineReport(n))
         /\ pc[n] = "resolve" => TeardownReport(n) \in Message /\ MessageClaimed(TeardownReport(n))
         /\ pc[n] = "started" =>
              PhaseReport(n, "Running") \in Message /\ MessageClaimed(PhaseReport(n, "Running"))
         /\ pc[n] = "terminated" =>
              PhaseReport(n, "Terminated") \in Message /\ MessageClaimed(PhaseReport(n, "Terminated"))
         /\ Active(snap[n]) \/ pc[n] = "failed" =>
              PhaseReport(n, "Failed") \in Message /\ MessageClaimed(PhaseReport(n, "Failed"))
<1>1. /\ pc[n] \in {"started", "terminated", "failed"} => snap[n] # NoSnap
      /\ Active(snap[n]) => snap[n] # NoSnap
  BY DEF CallInv, AgentTypes, OnSnap, Active, NoSnap
<1>2. FenceOf(task[n], n).node = n /\ FenceOf(snap[n], n).node = n
  BY DEF FenceOf
<1>3. pc[n] = "report" => MessageClaimed(CleanupReport(n))
  BY <1>2 DEF MessageClaimed, CleanupReport, RemovedClaim
<1>4. pc[n] = "quarantined" => MessageClaimed(QuarantineReport(n))
  BY <1>2 DEF MessageClaimed, QuarantineReport, QuarantineClaim
<1>5. pc[n] = "resolve" => MessageClaimed(TeardownReport(n))
  BY <1>2 DEF MessageClaimed, TeardownReport, RemovedClaim
<1>6. pc[n] = "started" => MessageClaimed(PhaseReport(n, "Running"))
  BY <1>2 DEF MessageClaimed, PhaseReport, RunningClaim
<1>7. MessageClaimed(PhaseReport(n, "Terminated")) /\ MessageClaimed(PhaseReport(n, "Failed"))
  BY DEF MessageClaimed, PhaseReport
<1> QED BY <1>1, <1>3, <1>4, <1>5, <1>6, <1>7, ReportTypes DEF Phase

LEMMA UnclaimingSteps ==
  ASSUME CallInv, NEW n \in Node,
         \/ ListFails(n) \/ SkipCleanup(n) \/ GiveUp(n) \/ Crash(n)
         \/ ReportResourcesRemoved(n) \/ ReportManagedDataQuarantined(n) \/ ResolveOwnObligations(n)
         \/ ReportTerminated(n) \/ ReportRunning(n) \/ ReportFailed(n) \/ ReportFails(n)
  PROVE  Unclaiming
<1>0. AgentTypes
  BY DEF CallInv
<1>1. ASSUME UNCHANGED vars, UNCHANGED <<held, data, late>>, UNCHANGED inflight,
             \A k \in Node : GoesOn(k)
      PROVE  Unclaiming
  BY <1>1, UnchangedNews, InflightClaimed DEF Unclaiming
<1>2. ASSUME ListFails(n) PROVE Unclaiming
  BY <1>1, <1>2 DEF ListFails, GoesOn
<1>3. ASSUME SkipCleanup(n) \/ GiveUp(n) PROVE Unclaiming
  <2>1. Goto(n, "act") \/ Goto(n, "idle")
    BY <1>3 DEF SkipCleanup, GiveUp
  <2>2. \A k \in Node : GoesOn(k)
    BY <1>0, <2>1, GotoGoesOn
  <2> QED BY <1>1, <1>3, <2>2 DEF SkipCleanup, GiveUp
<1>4. ASSUME Crash(n) PROVE Unclaiming
  <2>1. \A k \in Node : GoesOn(k)
    <3> SUFFICES ASSUME NEW k \in Node PROVE GoesOn(k)
      OBVIOUS
    <3>1. CASE k = n
      BY <1>0, <1>4, <3>1 DEF Crash, GoesOn, AgentTypes
    <3>2. CASE k # n
      BY <1>0, <1>4, <3>2 DEF Crash, GoesOn, AgentTypes
    <3> QED BY <3>1, <3>2
  <2> QED BY <1>1, <1>4, <2>1 DEF Crash
<1>5. ASSUME ReportResourcesRemoved(n) PROVE Unclaiming
  <2>1. (IF task[n].owed THEN "data" ELSE "act") \in {"data", "act", "idle", "terminated"}
    OBVIOUS
  <2> QED BY <1>5, <2>1, ReportsClaimed, CallUnclaiming DEF ReportResourcesRemoved
<1>6. ASSUME ReportManagedDataQuarantined(n) PROVE Unclaiming
  BY <1>6, ReportsClaimed, CallUnclaiming DEF ReportManagedDataQuarantined
<1>7. ASSUME ResolveOwnObligations(n) PROVE Unclaiming
  <2>1. (IF uid = NoUID THEN "idle" ELSE "terminated") \in {"data", "act", "idle", "terminated"}
    OBVIOUS
  <2> QED BY <1>7, <2>1, ReportsClaimed, CallUnclaiming DEF ResolveOwnObligations
<1>8. ASSUME ReportTerminated(n) \/ ReportRunning(n) \/ ReportFailed(n) PROVE Unclaiming
  BY <1>8, ReportsClaimed, CallUnclaiming DEF ReportTerminated, ReportRunning, ReportFailed
<1>9. ASSUME ReportFails(n) PROVE Unclaiming
  <2>1. \E m \in Message : /\ MessageClaimed(m)
                           /\ CallFails(n, m, "act") \/ CallFails(n, m, "idle")
    BY <1>9, ReportsClaimed DEF ReportFails
  <2> QED BY <1>9, <2>1, CallUnclaiming DEF ReportFails
<1> QED BY <1>2, <1>3, <1>4, <1>5, <1>6, <1>7, <1>8, <1>9

LEMMA ServerUnclaiming ==
  ASSUME CallInv,
         ServerSide \/ UNCHANGED allVars \/ \E m \in inflight : LateArrival(m)
  PROVE  Unclaiming
<1>1. [Next]_vars
  <2>1. [SystemNext]_allVars
    BY DEF SystemNext
  <2> QED BY <2>1, SystemStepsRecord
<1>2. CASE ServerSide \/ UNCHANGED allVars
  <2>1. NewsIsClaimed
    BY <1>2, ServerIsQuiet, QuietNews, UnchangedNews DEF allVars
  <2>2. UNCHANGED agentVars
    BY <1>2 DEF ServerSide, allVars
  <2>3. \A k \in Node : GoesOn(k)
    BY <2>2 DEF agentVars, GoesOn
  <2> QED BY <1>1, <2>1, <2>2, <2>3, InflightClaimed DEF agentVars, Unclaiming
<1>3. CASE \E m \in inflight : LateArrival(m)
  <2>1. PICK m \in inflight : LateArrival(m)
    BY <1>3
  <2>2. m \in Message /\ MessageClaimed(m)
    BY InflightClaimed DEF CallInv, AgentTypes
  <2>3. NewsIsClaimed
    BY <2>1, <2>2, AcceptedNews, UnchangedNews DEF LateArrival
  <2>4. \A k \in Node : GoesOn(k)
    BY <2>1 DEF LateArrival, GoesOn
  <2> QED BY <1>1, <2>1, <2>3, <2>4, InflightClaimed DEF LateArrival, Unclaiming
<1> QED BY <1>2, <1>3

------------------------------------------------------------------------------
(* Steps of one Node that leave the record alone.                          *)

LocalStep(n) ==
  /\ UNCHANGED vars
  /\ UNCHANGED inflight
  /\ late \subseteq late'
  /\ \A k \in Node : k # n => /\ held'[k] = held[k] /\ data'[k] = data[k]
                              /\ pc'[k] = pc[k] /\ snap'[k] = snap[k] /\ task'[k] = task[k]

\* What is known of an assignment, and what is on record, does not depend on
\* the Agents.
LEMMA SameRecord ==
  ASSUME UNCHANGED vars, NEW f
  PROVE  /\ Known(f)' <=> Known(f)
         /\ FenceMatches(f)' <=> FenceMatches(f)
         /\ Deleting' <=> Deleting
         /\ Active(status') <=> Active(status)
         /\ RemovedOnRecord(f)' <=> RemovedOnRecord(f)
         /\ QuarantinedOnRecord(f)' <=> QuarantinedOnRecord(f)
         /\ RunningOnRecord(f)' <=> RunningOnRecord(f)
BY DEF vars, Known, FenceMatches, Deleting, Active, RemovedOnRecord, QuarantinedOnRecord, RunningOnRecord

\* It is enough to look at that Node.
LEMMA LocalKeeps ==
  ASSUME SysInv, CallInv', NEW n \in Node, LocalStep(n),
         HeldFits(n)', SnapFits(n)', TaskFits(n)',
         \A f \in Fence : f.node = n => ClaimTrue(f)'
  PROVE  SysInv'
<1>0. UNCHANGED vars /\ UNCHANGED inflight /\ late \subseteq late'
  BY DEF LocalStep
<1>1. ASSUME NEW k \in Node, k # n PROVE HeldFits(k)' /\ SnapFits(k)' /\ TaskFits(k)'
  <2>1. /\ held'[k] = held[k] /\ pc'[k] = pc[k] /\ snap'[k] = snap[k] /\ task'[k] = task[k]
    BY <1>1 DEF LocalStep
  <2>2. HeldFits(k) /\ SnapFits(k) /\ TaskFits(k)
    BY DEF SysInv, HeldSound, SnapSound, TaskSound
  <2>3. HeldFits(k)'
    BY <1>0, <2>1, <2>2 DEF HeldFits, FenceOf, Known, vars
  <2>4. SnapFits(k)'
    BY <1>0, <2>1, <2>2 DEF SnapFits, FenceOf, Known, Deleting, Adoptable, Active, vars
  <2>5. TaskFits(k)'
    BY <1>0, <2>1, <2>2 DEF TaskFits, FenceOf, Known, FenceMatches, vars
  <2> QED BY <2>3, <2>4, <2>5
<1>2. ASSUME NEW f \in Fence, f.node # n PROVE ClaimTrue(f)'
  <2>0. f.node \in Node
    BY DEF Fence
  <2>1. /\ held'[f.node] = held[f.node] /\ data'[f.node] = data[f.node] /\ pc'[f.node] = pc[f.node]
        /\ snap'[f.node] = snap[f.node] /\ task'[f.node] = task[f.node]
    BY <1>2, <2>0 DEF LocalStep
  <2>2. ClaimTrue(f)
    BY DEF SysInv, ClaimsTrue
  <2>3. (RemovedClaim(f)' => RemovedClaim(f)) /\ (RemovedTrue(f) => RemovedTrue(f)')
    BY <1>0, <2>1, SameRecord DEF RemovedClaim, RemovedTrue, InFlight, FenceOf, Labelled, Standing, Active
  <2>4. (QuarantineClaim(f)' => QuarantineClaim(f)) /\ (QuarantineTrue(f) => QuarantineTrue(f)')
    BY <1>0, <2>1, SameRecord DEF QuarantineClaim, QuarantineTrue, InFlight, FenceOf
  <2>5. (RunningClaim(f)' => RunningClaim(f)) /\ (RunningTrue(f) => RunningTrue(f)')
    BY <1>0, <2>1, SameRecord DEF RunningClaim, RunningTrue, HoldsOnly, MeansOnly, FenceOf, Labelled, Active
  <2> QED BY <1>0, <2>2, <2>3, <2>4, <2>5, SameRecord DEF ClaimTrue
<1> QED BY <1>1, <1>2 DEF SysInv, HeldSound, SnapSound, TaskSound, ClaimsTrue

\* The claims after such a step: those before it, and the one its tick has
\* come to.
LEMMA LocalClaims ==
  ASSUME NEW n \in Node, LocalStep(n), NEW f \in Fence, f.node = n
  PROVE  /\ RemovedClaim(f)' => \/ RemovedClaim(f)
                                \/ pc'[n] = "report" /\ FenceOf(task'[n], n) = f
                                \/ pc'[n] = "resolve" /\ FenceOf(snap'[n], n) = f
         /\ QuarantineClaim(f)' => \/ QuarantineClaim(f)
                                   \/ pc'[n] = "quarantined" /\ FenceOf(task'[n], n) = f
         /\ RunningClaim(f)' => \/ RunningClaim(f)
                                \/ pc'[n] = "started" /\ FenceOf(snap'[n], n) = f
<1>0. UNCHANGED vars /\ UNCHANGED inflight
  BY DEF LocalStep
<1> QED BY <1>0, SameRecord DEF RemovedClaim, QuarantineClaim, RunningClaim, InFlight, FenceOf

\* What such a step must not do to a claim that stands, and owes to its own.
LEMMA LocalTruth ==
  ASSUME SysInv, NEW n \in Node, LocalStep(n), NEW f \in Fence, f.node = n,
         RemovedClaim(f) /\ Labelled(f)' => Labelled(f) \/ f \in late',
         RemovedClaim(f) /\ Standing(f)' => Standing(f),
         QuarantineClaim(f) /\ data'[n] = [uid |-> f.uid, gen |-> f.gen] =>
           data[n] = [uid |-> f.uid, gen |-> f.gen] \/ f \in late',
         FenceMatches(f) /\ Active(status) /\ HoldsOnly(f) /\ MeansOnly(f) =>
           HoldsOnly(f)' /\ MeansOnly(f)',
         pc'[n] = "report" /\ FenceOf(task'[n], n) = f => Known(f) /\ RemovedTrue(f)',
         pc'[n] = "resolve" /\ FenceOf(snap'[n], n) = f => Known(f) /\ RemovedTrue(f)',
         pc'[n] = "quarantined" /\ FenceOf(task'[n], n) = f => Known(f) /\ QuarantineTrue(f)',
         pc'[n] = "started" /\ FenceOf(snap'[n], n) = f => Known(f) /\ RunningTrue(f)'
  PROVE  ClaimTrue(f)'
<1>0. UNCHANGED vars /\ late \subseteq late' /\ ClaimTrue(f)
  BY DEF LocalStep, SysInv, ClaimsTrue
<1>1. /\ Known(f)' <=> Known(f)
      /\ FenceMatches(f)' <=> FenceMatches(f)
      /\ Deleting' <=> Deleting
      /\ Active(status)' <=> Active(status)
  BY <1>0, SameRecord DEF Active
<1>2. RemovedClaim(f) => Known(f)' /\ RemovedTrue(f)'
  BY <1>0, <1>1 DEF ClaimTrue, RemovedTrue
<1>3. QuarantineClaim(f) => Known(f)' /\ QuarantineTrue(f)'
  BY <1>0, <1>1 DEF ClaimTrue, QuarantineTrue
<1>4. RunningClaim(f) => Known(f)' /\ RunningTrue(f)'
  BY <1>0, <1>1 DEF ClaimTrue, RunningTrue
<1>5. /\ RemovedClaim(f)' => \/ RemovedClaim(f)
                             \/ pc'[n] = "report" /\ FenceOf(task'[n], n) = f
                             \/ pc'[n] = "resolve" /\ FenceOf(snap'[n], n) = f
      /\ QuarantineClaim(f)' => \/ QuarantineClaim(f)
                                \/ pc'[n] = "quarantined" /\ FenceOf(task'[n], n) = f
      /\ RunningClaim(f)' => \/ RunningClaim(f)
                             \/ pc'[n] = "started" /\ FenceOf(snap'[n], n) = f
  BY LocalClaims
<1>6. RemovedClaim(f)' => Known(f)' /\ RemovedTrue(f)'
  BY <1>1, <1>2, <1>5, Zenon
<1>7. QuarantineClaim(f)' => Known(f)' /\ QuarantineTrue(f)'
  BY <1>1, <1>3, <1>5, Zenon
<1>8. RunningClaim(f)' => Known(f)' /\ RunningTrue(f)'
  BY <1>1, <1>4, <1>5, Zenon
<1> QED BY <1>6, <1>7, <1>8 DEF ClaimTrue

\* Containers that stop or go leave nothing to answer for.
LEMMA FewerHeld ==
  ASSUME SysInv, NEW n \in Node, LocalStep(n),
         \/ held'[n] = NoHold
         \/ held[n] # NoHold /\ held'[n].uid = held[n].uid /\ held'[n].gen = held[n].gen
         \/ held'[n] = held[n]
  PROVE  /\ HeldFits(n)'
         /\ \A f \in Fence : f.node = n /\ Labelled(f)' => Labelled(f)
         /\ \A f \in Fence : f.node = n /\ HoldsOnly(f) => HoldsOnly(f)'
<1>0. UNCHANGED vars /\ late \subseteq late' /\ HeldFits(n)
  BY DEF LocalStep, SysInv, HeldSound
<1>1. CASE held'[n] = NoHold
  <2>1. HeldFits(n)'
    BY <1>1 DEF HeldFits
  <2>2. \A f \in Fence : f.node = n => ~Labelled(f)'
    BY <1>1, NoUIDAssumption DEF Labelled, Fence, NoHold
  <2> QED BY <1>1, <2>1, <2>2 DEF HoldsOnly
<1>2. CASE held'[n] # NoHold
  <2>1. held[n] # NoHold /\ held'[n].uid = held[n].uid /\ held'[n].gen = held[n].gen
    BY <1>2
  <2>2. HeldFits(n)'
    BY <1>0, <2>1 DEF HeldFits, FenceOf, Known, vars
  <2> QED BY <2>1, <2>2 DEF Labelled, HoldsOnly
<1> QED BY <1>1, <1>2

\* A tick that keeps its snapshot or drops it, and is not about to recover.
LEMMA SnapStays ==
  ASSUME SysInv, NEW n \in Node, LocalStep(n), snap'[n] \in {snap[n], NoSnap},
         pc'[n] # "recover"
  PROVE  /\ SnapFits(n)'
         /\ \A f \in Fence : f.node = n /\ Standing(f)' => Standing(f)
         /\ \A f \in Fence : f.node = n /\ MeansOnly(f) => MeansOnly(f)'
<1>0. UNCHANGED vars /\ SnapFits(n)
  BY DEF LocalStep, SysInv, SnapSound
<1>1. SnapFits(n)'
  BY <1>0 DEF SnapFits, FenceOf, Known, Deleting, vars
<1>2. ASSUME NEW f \in Fence, f.node = n, Standing(f)' PROVE Standing(f)
  <2>1. snap'[n] = snap[n]
    BY <1>2, NoUIDAssumption DEF Standing, NoSnap, Fence
  <2> QED BY <1>0, <1>2, <2>1, SameRecord DEF Standing, Active
<1>3. \A f \in Fence : f.node = n /\ MeansOnly(f) => MeansOnly(f)'
  BY DEF MeansOnly, FenceOf
<1> QED BY <1>1, <1>2, <1>3

LEMMA TaskStays ==
  ASSUME SysInv, NEW n \in Node, LocalStep(n), task'[n] \in {task[n], NoTask}
  PROVE  TaskFits(n)'
<1>0. UNCHANGED vars /\ TaskFits(n)
  BY DEF LocalStep, SysInv, TaskSound
<1> QED BY <1>0 DEF TaskFits, FenceOf, Known, FenceMatches, vars

\* Where a tick of n goes, n alone is concerned.
LEMMA GotoLocal ==
  ASSUME AgentTypes, NEW n \in Node, NEW next, Goto(n, next), UNCHANGED vars, UNCHANGED inflight,
         late \subseteq late',
         \A k \in Node : k # n => held'[k] = held[k] /\ data'[k] = data[k]
  PROVE  /\ LocalStep(n)
         /\ pc'[n] = next
         /\ snap'[n] = IF next = "idle" THEN NoSnap ELSE snap[n]
         /\ task'[n] = IF next \in {"idle", "act"} THEN NoTask ELSE task[n]
<1>1. \A k \in Node : k # n => pc'[k] = pc[k] /\ snap'[k] = snap[k] /\ task'[k] = task[k]
  BY DEF AgentTypes, Goto
<1>2. /\ pc'[n] = next
      /\ snap'[n] = IF next = "idle" THEN NoSnap ELSE snap[n]
      /\ task'[n] = IF next \in {"idle", "act"} THEN NoTask ELSE task[n]
  BY DEF AgentTypes, Goto
<1> QED BY <1>1, <1>2 DEF LocalStep

\* A container that exits keeps its label.
LEMMA ExitKeeps ==
  ASSUME SysInv, CallInv', NEW n \in Node, ContainerExits(n)
  PROVE  SysInv'
<1>0. AgentTypes /\ CallInv
  BY DEF SysInv, CallInv
<1>1. held[n] \in [uid: UID, gen: 1..MaxGen, run: BOOLEAN]
  BY <1>0 DEF ContainerExits, AgentTypes, Hold, NoHold
<1>2. held'[n] = [held[n] EXCEPT !.run = FALSE]
  BY <1>0 DEF ContainerExits, AgentTypes
<1>3. held'[n].uid = held[n].uid /\ held'[n].gen = held[n].gen /\ held[n] # NoHold
  BY <1>1, <1>2, NoUIDAssumption DEF NoHold
<1>4. LocalStep(n) /\ UNCHANGED vars /\ UNCHANGED <<data, pc, snap, task, inflight, late>>
  BY <1>0 DEF ContainerExits, LocalStep, AgentTypes
<1>5. HeldFits(n)' /\ \A f \in Fence : f.node = n /\ Labelled(f)' => Labelled(f)
  BY <1>3, <1>4, FewerHeld
<1>6. SnapFits(n)'
  <2>1. SnapFits(n)
    BY DEF SysInv, SnapSound
  <2> QED BY <1>3, <1>4, <2>1 DEF SnapFits, FenceOf, Known, Deleting, Adoptable, Active, vars
<1>7. TaskFits(n)'
  BY <1>4, TaskStays
<1>8. ASSUME NEW f \in Fence, f.node = n PROVE ClaimTrue(f)'
  <2>1. ClaimTrue(f)
    BY DEF SysInv, ClaimsTrue
  <2>2. Labelled(f)' <=> Labelled(f)
    BY <1>3, <1>8 DEF Labelled
  <2>3. (RemovedClaim(f)' => RemovedClaim(f)) /\ (RemovedTrue(f) => RemovedTrue(f)')
    BY <1>4, <2>2, SameRecord DEF RemovedClaim, RemovedTrue, InFlight, FenceOf, Standing, Active
  <2>4. (QuarantineClaim(f)' => QuarantineClaim(f)) /\ (QuarantineTrue(f) => QuarantineTrue(f)')
    BY <1>4, SameRecord DEF QuarantineClaim, QuarantineTrue, InFlight, FenceOf
  <2>5. (RunningClaim(f)' => RunningClaim(f)) /\ (RunningTrue(f) => RunningTrue(f)')
    <3>1. HoldsOnly(f) => HoldsOnly(f)'
      BY <1>3, <1>8, <2>2 DEF HoldsOnly
    <3>2. MeansOnly(f) => MeansOnly(f)'
      BY <1>4 DEF MeansOnly, FenceOf
    <3> QED BY <1>4, <3>1, <3>2, SameRecord DEF RunningClaim, RunningTrue, FenceOf, Active
  <2> QED BY <1>4, <2>1, <2>3, <2>4, <2>5, SameRecord DEF ClaimTrue
<1> QED BY <1>4, <1>5, <1>6, <1>7, <1>8, LocalKeeps

\* The task names an assignment that was granted and is over.
LEMMA RevalidateKeeps ==
  ASSUME SysInv, CallInv', NEW n \in Node, RevalidateCleanup(n)
  PROVE  SysInv'
<1>0. CallInv /\ AgentTypes
  BY DEF SysInv, CallInv
<1>1. LocalStep(n) /\ pc'[n] = "remove" /\ snap'[n] = snap[n] /\ UNCHANGED <<held, data, late>>
  BY <1>0 DEF RevalidateCleanup, LocalStep, AgentTypes
<1>2. /\ HeldFits(n)'
      /\ \A f \in Fence : f.node = n =>
           (Labelled(f)' => Labelled(f)) /\ (HoldsOnly(f) => HoldsOnly(f)')
  BY <1>1, FewerHeld
<1>3. /\ SnapFits(n)'
      /\ \A f \in Fence : f.node = n =>
           (Standing(f)' => Standing(f)) /\ (MeansOnly(f) => MeansOnly(f)')
  BY <1>1, SnapStays
<1>4. TaskFits(n)'
  <2>1. PICK o \in status.obligations : o.node = n /\ task'[n].uid = uid /\ task'[n].gen = o.gen
    BY <1>0 DEF RevalidateCleanup, AgentTypes, Owing
  <2>2. PICK gr \in grants : gr.node = n /\ gr.gen = o.gen
    BY <1>0, <2>1 DEF CallInv, IInv, StatusLedger, Ledger, Granted, Names
  <2>3. uid # NoUID /\ status.nodeRef # n /\ removal[uid] = "live" /\ UNCHANGED vars
    BY <1>0 DEF RevalidateCleanup, CallInv
  <2> QED BY <2>1, <2>2, <2>3 DEF TaskFits, Known, FenceMatches, FenceOf, vars
<1>5. ASSUME NEW f \in Fence, f.node = n PROVE ClaimTrue(f)'
  BY <1>1, <1>2, <1>3, <1>5, LocalTruth
<1> QED BY <1>1, <1>2, <1>3, <1>4, <1>5, LocalKeeps

\* After the removal nothing of the task's assignment is left, and nothing else
\* is gone.
LEMMA CleanupKeeps ==
  ASSUME SysInv, CallInv', NEW n \in Node, RunCleanupTask(n)
  PROVE  SysInv'
<1>0. CallInv /\ AgentTypes /\ task[n] # NoTask
  BY DEF SysInv, CallInv, RunCleanupTask, AgentTypes, OnTask
<1>1. Goto(n, AfterRemoval(n)) /\ UNCHANGED vars /\ UNCHANGED <<data, inflight, late>>
  BY DEF RunCleanupTask
<1>2. /\ \A k \in Node : k # n => held'[k] = held[k]
      /\ held'[n] = IF held[n].uid = task[n].uid /\ held[n].gen = task[n].gen THEN NoHold ELSE held[n]
  BY <1>0 DEF RunCleanupTask, RemoveContainers, AgentTypes
<1>3. /\ LocalStep(n) /\ pc'[n] = AfterRemoval(n)
      /\ snap'[n] = IF AfterRemoval(n) = "idle" THEN NoSnap ELSE snap[n]
      /\ task'[n] = IF AfterRemoval(n) \in {"idle", "act"} THEN NoTask ELSE task[n]
  BY <1>0, <1>1, <1>2, GotoLocal
<1>4. AfterRemoval(n) \in {"report", "data", "act"}
  BY DEF AfterRemoval
<1>5. /\ HeldFits(n)'
      /\ \A f \in Fence : f.node = n =>
           (Labelled(f)' => Labelled(f)) /\ (HoldsOnly(f) => HoldsOnly(f)')
  BY <1>2, <1>3, FewerHeld
<1>6. /\ SnapFits(n)'
      /\ \A f \in Fence : f.node = n =>
           (Standing(f)' => Standing(f)) /\ (MeansOnly(f) => MeansOnly(f)')
  BY <1>3, <1>4, SnapStays
<1>7. TaskFits(n)'
  BY <1>3, TaskStays
<1>8. Known(FenceOf(task[n], n)) /\ ~FenceMatches(FenceOf(task[n], n))
  BY <1>0 DEF SysInv, TaskSound, TaskFits
<1>9. ASSUME NEW f \in Fence, f.node = n PROVE ClaimTrue(f)'
  <2>1. f.uid # NoUID
    BY NoUIDAssumption DEF Fence
  <2>2. ASSUME FenceOf(task[n], n) = f PROVE Known(f) /\ RemovedTrue(f)'
    <3>1. f.uid = task[n].uid /\ f.gen = task[n].gen
      BY <2>2 DEF FenceOf
    <3>2. ~Labelled(f)'
      BY <1>2, <1>9, <2>1, <3>1 DEF Labelled, NoHold
    <3>3. ~FenceMatches(f)'
      BY <1>1, <1>8, <2>2, SameRecord
    <3> QED BY <1>8, <2>2, <3>2, <3>3 DEF RemovedTrue, Standing
  <2> QED BY <1>1, <1>3, <1>4, <1>5, <1>6, <1>9, <2>2, LocalTruth
<1> QED BY <1>3, <1>5, <1>6, <1>7, <1>9, LocalKeeps

LEMMA QuarantineKeeps ==
  ASSUME SysInv, CallInv', NEW n \in Node, QuarantineManagedData(n)
  PROVE  SysInv'
<1>0. CallInv /\ AgentTypes /\ task[n] # NoTask
  BY DEF SysInv, CallInv, QuarantineManagedData, AgentTypes, OnTask
<1>1. Goto(n, "quarantined") /\ UNCHANGED vars /\ UNCHANGED <<held, inflight, late>>
  BY DEF QuarantineManagedData
<1>2. /\ \A k \in Node : k # n => data'[k] = data[k]
      /\ data'[n] = IF data[n] = [uid |-> task[n].uid, gen |-> task[n].gen] THEN NoData ELSE data[n]
  BY <1>0 DEF QuarantineManagedData, AgentTypes
<1>3. /\ LocalStep(n) /\ pc'[n] = "quarantined" /\ snap'[n] = snap[n] /\ task'[n] = task[n]
  BY <1>0, <1>1, <1>2, GotoLocal
<1>5. /\ HeldFits(n)'
      /\ \A f \in Fence : f.node = n =>
           (Labelled(f)' => Labelled(f)) /\ (HoldsOnly(f) => HoldsOnly(f)')
  BY <1>1, <1>3, FewerHeld
<1>6. /\ SnapFits(n)'
      /\ \A f \in Fence : f.node = n =>
           (Standing(f)' => Standing(f)) /\ (MeansOnly(f) => MeansOnly(f)')
  BY <1>3, SnapStays
<1>7. TaskFits(n)'
  BY <1>3, TaskStays
<1>8. Known(FenceOf(task[n], n)) /\ ~FenceMatches(FenceOf(task[n], n))
  BY <1>0 DEF SysInv, TaskSound, TaskFits
<1>9. ASSUME NEW f \in Fence, f.node = n PROVE ClaimTrue(f)'
  <2>1. [uid |-> f.uid, gen |-> f.gen] # NoData
    BY NoUIDAssumption DEF Fence, NoData
  <2>2. ASSUME FenceOf(task[n], n) = f PROVE Known(f) /\ QuarantineTrue(f)'
    <3>1. [uid |-> f.uid, gen |-> f.gen] = [uid |-> task[n].uid, gen |-> task[n].gen]
      BY <2>2 DEF FenceOf
    <3>2. data'[n] # [uid |-> f.uid, gen |-> f.gen]
      BY <1>2, <2>1, <3>1
    <3>3. ~FenceMatches(f)'
      BY <1>1, <1>8, <2>2, SameRecord
    <3> QED BY <1>8, <1>9, <2>2, <3>2, <3>3 DEF QuarantineTrue
  <2>3. data'[n] = [uid |-> f.uid, gen |-> f.gen] => data[n] = [uid |-> f.uid, gen |-> f.gen]
    BY <1>2, <2>1
  <2> QED BY <1>3, <1>5, <1>6, <1>9, <2>2, <2>3, LocalTruth
<1> QED BY <1>3, <1>5, <1>6, <1>7, <1>9, LocalKeeps

\* A teardown is for a Project that is being deleted.
LEMMA TerminateKeeps ==
  ASSUME SysInv, CallInv', NEW n \in Node, TerminateOne(n)
  PROVE  SysInv'
<1>0. CallInv /\ AgentTypes /\ snap[n] # NoSnap /\ snap[n].phase = "Terminating"
  BY DEF SysInv, CallInv, TerminateOne, NoSnap
<1>1. Goto(n, "resolve") /\ UNCHANGED vars /\ UNCHANGED <<data, inflight, late>>
  BY DEF TerminateOne
<1>2. /\ \A k \in Node : k # n => held'[k] = held[k]
      /\ held'[n] = IF held[n].uid = snap[n].uid THEN NoHold ELSE held[n]
  BY <1>0 DEF TerminateOne, RemoveContainers, AgentTypes
<1>3. LocalStep(n) /\ pc'[n] = "resolve" /\ snap'[n] = snap[n] /\ task'[n] = task[n]
  BY <1>0, <1>1, <1>2, GotoLocal
<1>4. Known(FenceOf(snap[n], n)) /\ (snap[n].uid = uid => Deleting)
  BY <1>0 DEF SysInv, SnapSound, SnapFits
<1>5. /\ HeldFits(n)'
      /\ \A f \in Fence : f.node = n =>
           (Labelled(f)' => Labelled(f)) /\ (HoldsOnly(f) => HoldsOnly(f)')
  BY <1>2, <1>3, FewerHeld
<1>6. /\ SnapFits(n)'
      /\ \A f \in Fence : f.node = n =>
           (Standing(f)' => Standing(f)) /\ (MeansOnly(f) => MeansOnly(f)')
  BY <1>3, SnapStays
<1>7. TaskFits(n)'
  BY <1>3, TaskStays
<1>8. ASSUME NEW f \in Fence, f.node = n PROVE ClaimTrue(f)'
  <2>1. f.uid # NoUID
    BY NoUIDAssumption DEF Fence
  <2>2. ASSUME FenceOf(snap[n], n) = f PROVE Known(f) /\ RemovedTrue(f)'
    <3>1. f.uid = snap[n].uid
      BY <2>2 DEF FenceOf
    <3>2. ~Labelled(f)'
      BY <1>2, <1>8, <2>1, <3>1 DEF Labelled, NoHold
    <3>3. FenceMatches(f)' => Deleting'
      <4>1. FenceMatches(f) => Deleting
        BY <1>4, <3>1 DEF FenceMatches
      <4> QED BY <1>1, <4>1, SameRecord
    <3>4. ~Standing(f)'
      BY <1>0, <1>3, <1>8 DEF Standing, Active
    <3> QED BY <1>4, <2>2, <3>2, <3>3, <3>4 DEF RemovedTrue
  <2> QED BY <1>1, <1>3, <1>5, <1>6, <1>8, <2>2, LocalTruth
<1> QED BY <1>3, <1>5, <1>6, <1>7, <1>8, LocalKeeps

LEMMA RecheckKeeps ==
  ASSUME SysInv, CallInv', NEW n \in Node, RecheckBeforeRecovery(n)
  PROVE  SysInv'
<1>0. CallInv /\ AgentTypes
  BY DEF SysInv, CallInv
<1>1. Goto(n, "recover") /\ UNCHANGED vars /\ UNCHANGED <<held, data, inflight, late>>
  BY DEF RecheckBeforeRecovery
<1>2. LocalStep(n) /\ pc'[n] = "recover" /\ snap'[n] = snap[n] /\ task'[n] = task[n]
  BY <1>0, <1>1, GotoLocal
<1>3. /\ HeldFits(n)'
      /\ \A f \in Fence : f.node = n =>
           (Labelled(f)' => Labelled(f)) /\ (HoldsOnly(f) => HoldsOnly(f)')
  BY <1>1, <1>2, FewerHeld
<1>4. SnapFits(n)'
  <2>1. SnapFits(n)
    BY DEF SysInv, SnapSound
  <2>2. Adoptable(n, snap[n]) /\ Active(snap[n])
    BY DEF RecheckBeforeRecovery, Active
  <2> QED BY <1>1, <1>2, <2>1, <2>2 DEF SnapFits, FenceOf, Known, Deleting, Adoptable, Active, vars
<1>5. TaskFits(n)'
  BY <1>2, TaskStays
<1>6. ASSUME NEW f \in Fence, f.node = n PROVE ClaimTrue(f)'
  <2>1. MeansOnly(f) => MeansOnly(f)'
    BY <1>2, <1>6 DEF MeansOnly, FenceOf
  <2>2. Standing(f)' => Standing(f)
    BY <1>1, <1>2, <1>6, SameRecord DEF Standing, Active
  <2> QED BY <1>1, <1>2, <1>3, <1>6, <2>1, <2>2, LocalTruth
<1> QED BY <1>2, <1>3, <1>4, <1>5, <1>6, LocalKeeps

\* Containers started for p: for an assignment that is over they count as late;
\* for the current one nobody has said that they are gone.
LEMMA StartFits ==
  ASSUME SysInv, NEW n \in Node, NEW p \in Snap, NEW f \in Fence, f = FenceOf(p, n),
         StartContainers(n, p) \/ StartFails(n, p), UNCHANGED vars, Adoptable(n, p),
         Known(f), RemovedClaim(f) => ~FenceMatches(f)
  PROVE  /\ \A k \in Node : k # n => held'[k] = held[k]
         /\ late \subseteq late'
         /\ FenceMatches(f) \/ f \in late'
         /\ HeldFits(n)'
         /\ HoldsOnly(f)'
         /\ \A g \in Fence : g.node = n /\ RemovedClaim(g) /\ Labelled(g)' => g \in late'
<1>0. AgentTypes
  BY DEF SysInv, CallInv
<1>1. /\ \A k \in Node : k # n => held'[k] = held[k]
      /\ held'[n] = NoHold \/ (held'[n].uid = p.uid /\ held'[n].gen = p.gen)
      /\ late' = late \union (IF FenceMatches(f) THEN {} ELSE {f})
  <2>1. CASE StartContainers(n, p)
    BY <1>0, <2>1 DEF AgentTypes, StartContainers, Creates
  <2>2. CASE StartFails(n, p)
    <3>1. PICK h \in {NoHold, held[n]} \union [uid : {p.uid}, gen : {p.gen}, run : BOOLEAN] :
            held' = [held EXCEPT ![n] = h] /\ Creates(n, p)
      BY <2>2 DEF StartFails
    <3>2. h = NoHold \/ (h.uid = p.uid /\ h.gen = p.gen)
      BY DEF Adoptable
    <3> QED BY <1>0, <3>1, <3>2 DEF AgentTypes, Creates
  <2> QED BY <2>1, <2>2
<1>2. late \subseteq late' /\ (FenceMatches(f) \/ f \in late')
  BY <1>1
<1>3. f.uid = p.uid /\ f.gen = p.gen /\ f.node = n
  BY DEF FenceOf
<1>4. HeldFits(n)'
  <2>1. CASE held'[n] = NoHold
    BY <2>1 DEF HeldFits
  <2>2. CASE held'[n].uid = p.uid /\ held'[n].gen = p.gen
    <3>1. uid' = p.uid \/ f \in late'
      BY <1>2, <1>3 DEF FenceMatches, vars
    <3>2. FenceOf(held'[n], n) = f
      BY <2>2 DEF FenceOf
    <3>3. Known(f)'
      BY SameRecord
    <3>4. Known(FenceOf(held[n], n))'
      BY <3>2, <3>3 DEF Known, FenceOf
    <3> QED BY <2>2, <3>1, <3>2, <3>4 DEF HeldFits, FenceOf
  <2> QED BY <1>1, <2>1, <2>2
<1>5. HoldsOnly(f)'
  BY <1>1, <1>3 DEF HoldsOnly, Labelled
<1>6. ASSUME NEW g \in Fence, g.node = n, RemovedClaim(g), Labelled(g)' PROVE g \in late'
  <2>1. held'[n] # NoHold
    BY <1>6, NoUIDAssumption DEF Labelled, Fence, NoHold
  <2>2. g.uid = p.uid /\ g.gen = p.gen
    BY <1>1, <1>6, <2>1 DEF Labelled
  <2>3. g = f
    BY <1>3, <1>6, <2>2, FenceFields
  <2> QED BY <1>2, <1>6, <2>3
<1> QED BY <1>1, <1>2, <1>4, <1>5, <1>6

LEMMA RecoverKeeps ==
  ASSUME SysInv, CallInv', NEW n \in Node, RecoverLocally(n)
  PROVE  SysInv'
<1>0. CallInv /\ AgentTypes /\ pc[n] = "recover" /\ snap[n] # NoSnap
  BY DEF SysInv, CallInv, RecoverLocally, AgentTypes, OnSnap
<1>1. /\ Goto(n, "idle") /\ UNCHANGED vars /\ UNCHANGED <<data, inflight>>
      /\ StartContainers(n, snap[n]) \/ StartFails(n, snap[n])
  BY DEF RecoverLocally
<1>2. PICK f \in Fence : f = FenceOf(snap[n], n)
  BY <1>0, Fences
<1>3. snap[n] \in Snap /\ Known(f) /\ Adoptable(n, snap[n]) /\ Active(snap[n])
  BY <1>0, <1>2, Fences DEF SysInv, SnapSound, SnapFits
<1>4. RemovedClaim(f) => ~FenceMatches(f)
  <2>1. FenceMatches(f) => Standing(f)
    BY <1>2, <1>3 DEF Standing, FenceOf
  <2> QED BY <2>1 DEF SysInv, ClaimsTrue, ClaimTrue, RemovedTrue
<1>5. /\ \A k \in Node : k # n => held'[k] = held[k]
      /\ late \subseteq late'
      /\ HeldFits(n)' /\ HoldsOnly(f)'
      /\ \A g \in Fence : g.node = n /\ RemovedClaim(g) /\ Labelled(g)' => g \in late'
  BY <1>1, <1>2, <1>3, <1>4, StartFits
<1>6. LocalStep(n) /\ pc'[n] = "idle" /\ snap'[n] = NoSnap /\ task'[n] = NoTask
  BY <1>0, <1>1, <1>5, GotoLocal
<1>7. SnapFits(n)' /\ \A g \in Fence : g.node = n /\ Standing(g)' => Standing(g)
  BY <1>6, SnapStays
<1>8. TaskFits(n)'
  BY <1>6, TaskStays
<1>9. ASSUME NEW g \in Fence, g.node = n PROVE ClaimTrue(g)'
  <2>1. MeansOnly(g) => HoldsOnly(g)' /\ MeansOnly(g)'
    <3>1. MeansOnly(g) => g = f
      BY <1>0, <1>2, <1>9 DEF MeansOnly
    <3>2. MeansOnly(g)'
      BY <1>6, <1>9 DEF MeansOnly
    <3> QED BY <1>5, <3>1, <3>2
  <2> QED BY <1>1, <1>5, <1>6, <1>7, <1>9, <2>1, LocalTruth
<1> QED BY <1>5, <1>6, <1>7, <1>8, <1>9, LocalKeeps

\* reconcileOne, whether it comes to report Running or Failed: what it put in
\* place for an assignment that is over is late.
LEMMA ReconcileKeeps ==
  ASSUME SysInv, CallInv', NEW n \in Node, ReconcileOne(n) \/ ReconcileFails(n)
  PROVE  SysInv'
<1>0. CallInv /\ AgentTypes /\ snap[n] # NoSnap /\ snap[n].phase = "Scheduled"
  BY DEF SysInv, CallInv, ReconcileOne, ReconcileFails, NoSnap
<1>1. PICK next \in {"started", "failed"} :
        Goto(n, next) /\ UNCHANGED vars /\ UNCHANGED inflight /\ Adoptable(n, snap[n])
  BY DEF ReconcileOne, ReconcileFails
<1>2. PICK f \in Fence : f = FenceOf(snap[n], n)
  BY <1>0, Fences
<1>3. snap[n] \in Snap /\ Known(f) /\ Active(snap[n])
  BY <1>0, <1>2, Fences DEF SysInv, SnapSound, SnapFits, Active
<1>4. RemovedClaim(f) => ~FenceMatches(f)
  <2>1. FenceMatches(f) => Standing(f)
    BY <1>2, <1>3 DEF Standing, FenceOf
  <2> QED BY <2>1 DEF SysInv, ClaimsTrue, ClaimTrue, RemovedTrue
<1>5. f.uid = snap[n].uid /\ f.gen = snap[n].gen /\ f.node = n
  BY <1>2 DEF FenceOf
<1>6. /\ \A k \in Node : k # n => held'[k] = held[k] /\ data'[k] = data[k]
      /\ late \subseteq late'
      /\ HoldsOnly(f)'
      /\ data'[n] = data[n] \/ (data'[n] = [uid |-> f.uid, gen |-> f.gen]
                                 /\ (FenceMatches(f) \/ f \in late'))
      /\ \/ HeldFits(n)'
         \/ UNCHANGED held
      /\ \A g \in Fence : g.node = n /\ RemovedClaim(g) /\ Labelled(g)' => Labelled(g) \/ g \in late'
  <2>1. CASE UNCHANGED <<held, data, late>>
    <3>1. HoldsOnly(f)'
      BY <1>1, <1>5, <2>1 DEF Adoptable, HoldsOnly, Labelled
    <3> QED BY <2>1, <3>1 DEF Labelled
  <2>2. CASE /\ StartContainers(n, snap[n]) \/ StartFails(n, snap[n])
             /\ data' = [data EXCEPT ![n] = IF snap[n].managed
                           THEN [uid |-> snap[n].uid, gen |-> snap[n].gen] ELSE @]
    <3>1. /\ \A k \in Node : k # n => held'[k] = held[k]
          /\ late \subseteq late'
          /\ FenceMatches(f) \/ f \in late'
          /\ HeldFits(n)' /\ HoldsOnly(f)'
          /\ \A g \in Fence : g.node = n /\ RemovedClaim(g) /\ Labelled(g)' => g \in late'
      BY <1>1, <1>2, <1>3, <1>4, <2>2, StartFits
    <3>2. /\ \A k \in Node : k # n => data'[k] = data[k]
          /\ data'[n] = data[n] \/ data'[n] = [uid |-> f.uid, gen |-> f.gen]
      BY <1>0, <1>5, <2>2 DEF AgentTypes
    <3> QED BY <3>1, <3>2
  <2> QED BY <2>1, <2>2 DEF ReconcileOne, ReconcileFails
<1>7. LocalStep(n) /\ pc'[n] = next /\ snap'[n] = snap[n] /\ task'[n] = task[n]
  BY <1>0, <1>1, <1>6, GotoLocal
<1>8. HeldFits(n)'
  BY <1>6, <1>7, FewerHeld
<1>9. SnapFits(n)' /\ \A g \in Fence : g.node = n /\ Standing(g)' => Standing(g)
  BY <1>7, SnapStays
<1>10. TaskFits(n)'
  BY <1>7, TaskStays
<1>11. ASSUME NEW g \in Fence, g.node = n PROVE ClaimTrue(g)'
  <2>1. FenceOf(snap[n], n) = g \/ MeansOnly(g) => HoldsOnly(g)' /\ MeansOnly(g)' /\ Known(g)
    <3>1. FenceOf(snap[n], n) = g \/ MeansOnly(g) => g = f
      BY <1>0, <1>2, <1>11 DEF MeansOnly
    <3>2. MeansOnly(f)'
      BY <1>2, <1>5, <1>7 DEF MeansOnly, FenceOf
    <3> QED BY <1>3, <1>6, <3>1, <3>2
  <2>2. FenceOf(snap'[n], n) = g => Known(g) /\ RunningTrue(g)'
    BY <1>7, <2>1 DEF RunningTrue
  <2>3. ASSUME QuarantineClaim(g), data'[n] = [uid |-> g.uid, gen |-> g.gen]
        PROVE  data[n] = [uid |-> g.uid, gen |-> g.gen] \/ g \in late'
    <3>1. ~FenceMatches(g)
      BY <2>3 DEF SysInv, ClaimsTrue, ClaimTrue, QuarantineTrue
    <3>2. CASE data'[n] = data[n]
      BY <2>3, <3>2
    <3>3. CASE data'[n] = [uid |-> f.uid, gen |-> f.gen] /\ (FenceMatches(f) \/ f \in late')
      <4>1. g.uid = f.uid /\ g.gen = f.gen
        BY <2>3, <3>3
      <4>2. g = f
        BY <1>5, <1>11, <4>1, FenceFields
      <4> QED BY <3>1, <3>3, <4>2
    <3> QED BY <1>6, <3>2, <3>3
  <2> QED BY <1>6, <1>7, <1>9, <1>11, <2>1, <2>2, <2>3, LocalTruth
<1> QED BY <1>7, <1>8, <1>9, <1>10, <1>11, LocalKeeps

\* What the listing shows a Node it shows of its current assignment.
LEMMA ListingFits ==
  ASSUME CallInv, NEW n \in Node, Listing(n) # NoSnap
  PROVE  /\ Listing(n) \in Snap
         /\ FenceOf(Listing(n), n) \in Fence
         /\ Known(FenceOf(Listing(n), n)) /\ FenceMatches(FenceOf(Listing(n), n))
         /\ Listing(n).phase = status.phase /\ Listing(n).uid = uid
<1>1. uid # NoUID /\ status.nodeRef = n
  BY DEF Listing
<1>2. Listing(n) \in Snap
  BY ListingType
<1>3. Listing(n).uid = uid /\ Listing(n).gen = status.gen /\ Listing(n).phase = status.phase
  BY <1>1 DEF Listing
<1>4. FenceOf(Listing(n), n) \in Fence
  BY <1>2 DEF FenceOf, Fence, Snap
<1>5. \E gr \in grants : gr.node = n /\ gr.gen = status.gen
  BY <1>1, NoNodeAssumption DEF CallInv, IInv, StatusLedger, Ledger, Coherent
<1>6. removal[uid] # "unused"
  BY <1>1 DEF CallInv
<1> QED BY <1>1, <1>2, <1>3, <1>4, <1>5, <1>6 DEF Known, FenceMatches, FenceOf

\* The sweep starts containers only of the assignment the listing shows, which
\* nobody says is gone, and removes only those of other lifetimes.
LEMMA TickKeeps ==
  ASSUME SysInv, CallInv', NEW n \in Node, NEW done, Tick(n, done)
  PROVE  SysInv'
<1> DEFINE p == Listing(n)
<1>0. CallInv /\ AgentTypes /\ UNCHANGED vars /\ UNCHANGED <<data, task, inflight>>
  BY DEF SysInv, CallInv, Tick
<1>1. /\ snap' = [snap EXCEPT ![n] = p] /\ pc' = [pc EXCEPT ![n] = "cleanup"]
      /\ SweepOrphans(n, p, done)
  BY DEF Tick
<1>2. p # NoSnap => /\ p \in Snap /\ FenceOf(p, n) \in Fence
                    /\ Known(FenceOf(p, n)) /\ FenceMatches(FenceOf(p, n))
                    /\ p.phase = status.phase /\ p.uid = uid
  BY <1>0, ListingFits
<1>3. ASSUME NEW g \in Fence, g.node = n, FenceMatches(g) PROVE FenceOf(p, n) = g
  <2>1. p.uid = g.uid /\ p.gen = g.gen
    BY <1>3, NoUIDAssumption DEF FenceMatches, Listing, Fence
  <2> QED BY <1>3, <2>1, FenceFields DEF FenceOf
<1> HIDE DEF p
<1>4. ASSUME NEW g \in Fence, RemovedClaim(g), FenceMatches(g) PROVE ~Active(status)
  BY <1>4 DEF SysInv, ClaimsTrue, ClaimTrue, RemovedTrue, Deleting, Active
<1>5. /\ \A k \in Node : k # n => held'[k] = held[k]
      /\ late \subseteq late'
      /\ \/ HeldFits(n)'
         \/ held'[n] = NoHold
         \/ held[n] # NoHold /\ held'[n].uid = held[n].uid /\ held'[n].gen = held[n].gen
         \/ held'[n] = held[n]
      /\ \A g \in Fence : g.node = n =>
           /\ RemovedClaim(g) /\ Labelled(g)' => Labelled(g) \/ g \in late'
           /\ FenceMatches(g) /\ HoldsOnly(g) => HoldsOnly(g)'
  <2>1. CASE (StartContainers(n, p) \/ StartFails(n, p)) /\ Active(p) /\ Adoptable(n, p)
    <3>1. p # NoSnap
      BY <2>1 DEF Active, NoSnap
    <3>2. PICK f \in Fence : f = FenceOf(p, n)
      BY <1>2, <3>1
    <3>3. RemovedClaim(f) => ~FenceMatches(f)
      BY <1>2, <1>4, <2>1, <3>1 DEF Active
    <3>4. Known(f) /\ p \in Snap
      BY <1>2, <3>1, <3>2
    <3>5. /\ \A k \in Node : k # n => held'[k] = held[k]
          /\ late \subseteq late'
          /\ HeldFits(n)' /\ HoldsOnly(f)'
          /\ \A g \in Fence : g.node = n /\ RemovedClaim(g) /\ Labelled(g)' => g \in late'
      BY <1>0, <2>1, <3>2, <3>3, <3>4, StartFits
    <3> QED BY <1>3, <3>2, <3>5
  <2>2. CASE UNCHANGED <<held, late>>
    BY <2>2 DEF Labelled, HoldsOnly
  <2>3. CASE held[n] # NoHold /\ held[n].uid # p.uid /\ RemoveContainers(n, TRUE) /\ UNCHANGED late
    <3>1. held'[n] = NoHold /\ \A k \in Node : k # n => held'[k] = held[k]
      BY <1>0, <2>3 DEF RemoveContainers, AgentTypes
    <3>2. \A g \in Fence : g.node = n => ~Labelled(g)'
      BY <3>1, NoUIDAssumption DEF Labelled, Fence, NoHold
    <3> QED BY <2>3, <3>1, <3>2 DEF HoldsOnly
  <2>4. CASE held[n] # NoHold /\ held' = [held EXCEPT ![n].run = FALSE] /\ UNCHANGED late
    <3>1. held[n] \in [uid: UID, gen: 1..MaxGen, run: BOOLEAN]
      BY <1>0, <2>4 DEF AgentTypes, Hold
    <3>2. held'[n] = [held[n] EXCEPT !.run = FALSE] /\ \A k \in Node : k # n => held'[k] = held[k]
      BY <1>0, <2>4 DEF AgentTypes
    <3>3. held'[n].uid = held[n].uid /\ held'[n].gen = held[n].gen
      BY <3>1, <3>2
    <3> QED BY <2>4, <3>2, <3>3 DEF Labelled, HoldsOnly
  <2> QED BY <1>1, <2>1, <2>2, <2>3, <2>4 DEF SweepOrphans
<1>6. LocalStep(n) /\ pc'[n] = "cleanup" /\ snap'[n] = p /\ task'[n] = task[n]
  BY <1>0, <1>1, <1>5 DEF LocalStep, AgentTypes
<1>7. HeldFits(n)'
  BY <1>5, <1>6, FewerHeld
<1>8. SnapFits(n)'
  BY <1>0, <1>2, <1>6 DEF SnapFits, Known, FenceOf, Deleting, vars
<1>9. TaskFits(n)'
  BY <1>6, TaskStays
<1>10. ASSUME NEW g \in Fence, g.node = n PROVE ClaimTrue(g)'
  <2>1. ASSUME RemovedClaim(g), Standing(g)' PROVE FALSE
    <3>1. FenceMatches(g) /\ p.uid = g.uid /\ Active(p)
      BY <1>0, <1>6, <1>10, <2>1, SameRecord DEF Standing, Active
    <3>2. p # NoSnap
      BY <3>1 DEF Active, NoSnap
    <3> QED BY <1>2, <1>4, <2>1, <3>1, <3>2 DEF Active
  <2>2. FenceMatches(g) => MeansOnly(g)'
    BY <1>3, <1>6, <1>10 DEF MeansOnly, FenceOf
  <2> QED BY <1>0, <1>5, <1>6, <1>10, <2>1, <2>2, LocalTruth
<1> QED BY <1>6, <1>7, <1>8, <1>9, <1>10, LocalKeeps

------------------------------------------------------------------------------
(* The invariant holds throughout.                                         *)

LEMMA SysInvStep == SysInv /\ [SystemNext]_allVars => SysInv'
<1> SUFFICES ASSUME SysInv, [SystemNext]_allVars PROVE SysInv'
  OBVIOUS
<1>1. CallInv /\ CallInv'
  BY CallInvStep DEF SysInv
<1>2. CASE ServerSide \/ UNCHANGED allVars \/ \E m \in inflight : LateArrival(m)
  BY <1>1, <1>2, ServerUnclaiming, UnclaimingKeeps
<1>3. ASSUME NEW n \in Node, AgentSide(n) PROVE SysInv'
  <2>1. CASE \/ ListFails(n) \/ SkipCleanup(n) \/ GiveUp(n) \/ Crash(n)
             \/ ReportResourcesRemoved(n) \/ ReportManagedDataQuarantined(n) \/ ResolveOwnObligations(n)
             \/ ReportTerminated(n) \/ ReportRunning(n) \/ ReportFailed(n) \/ ReportFails(n)
    BY <1>1, <2>1, UnclaimingSteps, UnclaimingKeeps
  <2>2. CASE \E done \in SUBSET UID : Tick(n, done)
    BY <1>1, <2>2, TickKeeps
  <2>3. CASE RevalidateCleanup(n)
    BY <1>1, <2>3, RevalidateKeeps
  <2>4. CASE RunCleanupTask(n)
    BY <1>1, <2>4, CleanupKeeps
  <2>5. CASE QuarantineManagedData(n)
    BY <1>1, <2>5, QuarantineKeeps
  <2>6. CASE TerminateOne(n)
    BY <1>1, <2>6, TerminateKeeps
  <2>7. CASE ReconcileOne(n) \/ ReconcileFails(n)
    BY <1>1, <2>7, ReconcileKeeps
  <2>8. CASE RecheckBeforeRecovery(n)
    BY <1>1, <2>8, RecheckKeeps
  <2>9. CASE RecoverLocally(n)
    BY <1>1, <2>9, RecoverKeeps
  <2>10. CASE ContainerExits(n)
    BY <1>1, <2>10, ExitKeeps
  <2> QED
    BY <1>3, <2>1, <2>2, <2>3, <2>4, <2>5, <2>6, <2>7, <2>8, <2>9, <2>10, Zenon DEF AgentSide
<1> QED BY <1>2, <1>3 DEF SystemNext

LEMMA SysInvStart == SystemInit => SysInv
<1> SUFFICES ASSUME SystemInit PROVE SysInv
  OBVIOUS
<1>1. CallInv /\ InitAgents /\ uid = NoUID
  BY SystemStart DEF SystemInit
<1>2. HeldSound /\ SnapSound /\ TaskSound
  BY <1>1 DEF InitAgents, HeldSound, HeldFits, SnapSound, SnapFits, TaskSound, TaskFits
<1>3. ASSUME NEW f \in Fence PROVE ~RemovedClaim(f) /\ ~QuarantineClaim(f) /\ ~RunningClaim(f)
  <2>1. uid # f.uid /\ f.node \in Node
    BY <1>1, NoUIDAssumption DEF Fence
  <2>2. inflight = {} /\ pc[f.node] = "idle"
    BY <1>1, <2>1 DEF InitAgents
  <2> QED BY <2>1, <2>2 DEF RemovedClaim, QuarantineClaim, RunningClaim, InFlight,
     RemovedOnRecord, QuarantinedOnRecord, RunningOnRecord, FenceMatches
<1>4. ClaimsTrue
  BY <1>3 DEF ClaimsTrue, ClaimTrue
<1> QED BY <1>1, <1>2, <1>4 DEF SysInv

\* Whatever an Agent is about to report, has reported or has on record is true,
\* and stays so.
THEOREM ClaimsAreTrue == SystemSpec => []SysInv
<1>1. SystemInit => SysInv
  BY SysInvStart
<1>2. SysInv /\ [SystemNext]_allVars => SysInv'
  BY SysInvStep
<1> QED BY <1>1, <1>2, PTL DEF SystemSpec

------------------------------------------------------------------------------
(* What follows for every instance.                                        *)

\* The record outlives every resource created under a standing assignment.
THEOREM ResourcesAreCovered == SystemSpec => []ResourcesCovered
<1>1. SysInv => ResourcesCovered
  <2> SUFFICES ASSUME SysInv, NEW n \in Node, held[n] # NoHold, FenceOf(held[n], n) \notin late
               PROVE  \/ removal[held[n].uid] = "forced"
                      \/ uid = held[n].uid /\ ~ResourcesRemovedFor(status.obligations, n, held[n].gen)
    BY DEF ResourcesCovered, Covered
  <2> DEFINE f == FenceOf(held[n], n)
  <2>1. f \in Fence
    BY Fences DEF SysInv
  <2>2. f.uid = held[n].uid /\ f.node = n /\ f.gen = held[n].gen
    BY DEF FenceOf
  <2>3. removal[held[n].uid] = "forced" \/ uid = held[n].uid
    BY DEF SysInv, HeldSound, HeldFits
  <2> HIDE DEF f
  <2>4. Labelled(f) /\ f \notin late
    BY <2>2 DEF Labelled, f
  <2>5. ~RemovedClaim(f)
    BY <2>1, <2>4 DEF SysInv, ClaimsTrue, ClaimTrue, RemovedTrue
  <2> QED BY <2>2, <2>3, <2>5 DEF RemovedClaim, RemovedOnRecord
<1> QED BY <1>1, ClaimsAreTrue, PTL

\* While a Project reads Running its Node holds no other assignment's containers.
THEOREM NothingStaleUnderRunning == SystemSpec => []RunningIsNotStale
<1>1. SysInv => RunningIsNotStale
  <2> SUFFICES ASSUME SysInv, uid # NoUID, status.phase = "Running", NEW n \in Node, status.nodeRef = n
               PROVE  held[n] = NoHold \/ (held[n].uid = uid /\ held[n].gen = status.gen)
    BY DEF RunningIsNotStale
  <2>1. CallInv /\ uid \in UID
    BY DEF SysInv, CallInv, IInv, TypeOK
  <2>2. status.nodeRef # NoNode
    BY NoNodeAssumption
  <2>3. status.gen \in 1..MaxGen
    BY <2>1, <2>2, GenerationsGranted
  <2> DEFINE f == [uid |-> uid, node |-> n, gen |-> status.gen]
  <2>4. f \in Fence /\ FenceMatches(f) /\ RunningClaim(f)
    BY <2>1, <2>3 DEF Fence, FenceMatches, RunningClaim, RunningOnRecord
  <2>5. HoldsOnly(f)
    BY <2>4 DEF SysInv, ClaimsTrue, ClaimTrue, RunningTrue, Active
  <2> QED BY <2>5 DEF HoldsOnly, Labelled
<1> QED BY <1>1, ClaimsAreTrue, PTL

\* ManagedDataQuarantined on record is true of the disk.
THEOREM QuarantineIsProven == SystemSpec => []QuarantineProven
<1>1. SysInv => QuarantineProven
  <2> SUFFICES ASSUME SysInv, NEW o \in status.obligations, o.quarantined,
                      data[o.node] = [uid |-> uid, gen |-> o.gen]
               PROVE  [uid |-> uid, node |-> o.node, gen |-> o.gen] \in late
    BY DEF QuarantineProven
  <2> DEFINE f == [uid |-> uid, node |-> o.node, gen |-> o.gen]
  <2>1. o.gen \in 1..MaxGen /\ o.node \in Node
    BY GenerationsGranted DEF SysInv
  <2>2. uid \in UID
    BY <2>1, NoUIDAssumption DEF SysInv, CallInv, AgentTypes, Marker, NoData
  <2>3. f \in Fence
    BY <2>1, <2>2 DEF Fence
  <2>4. QuarantineClaim(f)
    BY DEF QuarantineClaim, QuarantinedOnRecord, Names
  <2> QED BY <2>3, <2>4 DEF SysInv, ClaimsTrue, ClaimTrue, QuarantineTrue
<1> QED BY <1>1, ClaimsAreTrue, PTL

\* Two Nodes run one lifetime at once only under an authorization that accepts
\* it: of two assignments one is older, it stands in the obligation list, and the
\* later one was granted over it.
THEOREM OverlapsAreAuthorized == SystemSpec => []OverlapAuthorized
<1>1. SysInv => OverlapAuthorized
  <2> SUFFICES ASSUME SysInv, NEW n \in Node, NEW k \in Node, n # k, held[n].run, held[k].run,
                      held[n].uid = uid, held[k].uid = uid,
                      FenceOf(held[n], n) \notin late, FenceOf(held[k], k) \notin late
               PROVE  \E m \in {n, k}, o \in status.obligations :
                        Names(o, m, held[m].gen) /\ o.auth \in {"GraceExpired", "OperatorOverride"}
    BY DEF OverlapAuthorized
  <2>0. /\ CallInv /\ status.gen \in Nat
        /\ Counted(status.gen, grants)
        /\ Accounted(status.nodeRef, status.gen, status.obligations, grants)
        /\ Settled(status.nodeRef, status.gen, status.obligations)
    BY DEF SysInv, CallInv, IInv, TypeOK, Status, StatusLedger, Ledger
  <2>1. \A m \in {n, k} : held[m] # NoHold
    BY DEF NoHold
  <2>2. ASSUME NEW m \in {n, k}
        PROVE  /\ \E gr \in grants : gr.node = m /\ gr.gen = held[m].gen
               /\ ~ResourcesRemovedFor(status.obligations, m, held[m].gen)
    <3> DEFINE f == FenceOf(held[m], m)
    <3>1. f \in Fence /\ f \notin late
      BY <2>0, <2>1, <2>2, Fences
    <3>2. f.uid = uid /\ f.node = m /\ f.gen = held[m].gen
      BY <2>2 DEF FenceOf
    <3>3. Known(f)
      BY <2>1, <2>2 DEF SysInv, HeldSound, HeldFits
    <3> HIDE DEF f
    <3>4. Labelled(f)
      BY <3>2 DEF Labelled
    <3>5. ~RemovedClaim(f)
      BY <3>1, <3>4 DEF SysInv, ClaimsTrue, ClaimTrue, RemovedTrue
    <3> QED BY <3>2, <3>3, <3>5 DEF Known, RemovedClaim, RemovedOnRecord
  <2>3. PICK m \in {n, k} : held[m].gen < status.gen
    <3>1. \A m \in {n, k} : held[m].gen \in 1..status.gen
      BY <2>0, <2>2 DEF Counted
    <3>2. held[n].gen # held[k].gen
      BY <2>0, <2>2 DEF Counted
    <3> QED BY <2>0, <3>1, <3>2
  <2>4. held[m].gen \in Nat
    BY <2>0, <2>2, <2>3 DEF Counted
  <2>5. PICK o \in status.obligations : Names(o, m, held[m].gen)
    BY <2>0, <2>2, <2>3, <2>4 DEF Accounted, HasObligation
  <2>6. PermitsAssignment(o) /\ ~o.removed
    BY <2>0, <2>2, <2>3, <2>5 DEF Settled, Names, ResourcesRemovedFor
  <2> QED BY <2>5, <2>6 DEF PermitsAssignment
<1> QED BY <1>1, ClaimsAreTrue, PTL
==============================================================================
