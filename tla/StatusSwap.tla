------------------------------ MODULE StatusSwap ------------------------------
(***************************************************************************)
(* How a mutation of ProjectRecord reaches the row (internal/store): read   *)
(* the Project and its resource_version, apply the closure to a copy, and   *)
(* swap the copy in if the row is still what it was.  A miss is retried up  *)
(* to MaxAttempts times.  Three loops do this and differ in what the swap's *)
(* WHERE asks for besides the version:                                      *)
(*   name  - nothing (UpdateProjectStatusWithRetry);                        *)
(*   uid   - the lifetime (UpdateProjectStatusForUID, TakeoverProject);     *)
(*   fence - the lifetime, the Node and the generation                      *)
(*           (ReportProjectStatusFenced).                                   *)
(* Create, spec changes and removals are single transactions on the locked  *)
(* row.  A record that is removed takes its version count with it; the next *)
(* one under the name starts again at 1.                                    *)
(***************************************************************************)
EXTENDS ProjectRecord

CONSTANTS UID, NoUID, GraceExpiredRelease, MaxGen,
          Call,         \* calls in progress at the same time
          MaxAttempts,  \* maxStatusUpdateAttempts
          MaxVersion    \* bound: resource_version of one lifetime

ASSUME SwapConstants == NoUID \notin UID /\ {MaxGen, MaxAttempts, MaxVersion} \subseteq Nat

VARIABLES
  uid, managed, status,       \* the row, as in ProjectLifecycle
  version,                    \* its resource_version, 0 when there is none
  grants, removal,  \* history, as in ProjectLifecycle
  calls                       \* per Call: the operation and what it has read

row == <<uid, managed, status, version, grants, removal>>
swapVars == <<uid, managed, status, version, grants, removal, calls>>

PL == INSTANCE ProjectLifecycle

------------------------------------------------------------------------------
(* Operations.  Fields an operation has no use for are fixed.              *)

NameKinds == {"schedule", "clearFailedNodes", "clearClocks"}
UidKinds == {"terminate", "release", "moveFailed", "takeover", "removed", "quarantined",
             "completion"}
FenceKinds == {"stopped", "committed", "phase"}

\* The closure reads the spec itself: ReleaseAssignment always, MoveFailedProject
\* once it knows that the workload stopped.
ReadsSpec(op, s) ==
  op.kind = "release" \/ (op.kind = "moveFailed" /\ WorkloadStoppedFor(s, op.node, op.gen))

AnyNode == CHOOSE n \in Node : TRUE
AnyUID == CHOOSE u \in UID : TRUE

Op ==
  [kind: {"schedule", "clearClocks"}, uid: {AnyUID}, node: Node, gen: {0}, phase: {"Pending"}]
    \union
  [kind: {"clearFailedNodes"}, uid: {AnyUID}, node: {AnyNode}, gen: {0}, phase: {"Pending"}]
    \union
  [kind: {"terminate"}, uid: UID, node: {AnyNode}, gen: {0}, phase: {"Pending"}]
    \union
  [kind: (UidKinds \ {"terminate"}) \union (FenceKinds \ {"phase"}),
   uid: UID, node: Node, gen: 1..MaxGen, phase: {"Pending"}]
    \union
  [kind: {"phase"}, uid: UID, node: Node, gen: 1..MaxGen,
   phase: {"Running", "Failed", "Terminated"}]

\* The checks a loop makes on the row it read, before the closure.
ReadMatches(op) ==
  /\ uid # NoUID
  /\ op.kind \notin NameKinds => uid = op.uid
  /\ op.kind \in FenceKinds => status.nodeRef = op.node /\ status.gen = op.gen

\* The closure accepts the status s it is handed.
Accepts(op, s) ==
  CASE op.kind = "schedule" -> s.gen < MaxGen /\ CanSchedule(s, op.node)
    [] op.kind = "clearFailedNodes" -> TRUE
    [] op.kind = "clearClocks" -> s.nodeRef = op.node
    [] op.kind = "terminate" -> CanTerminate(s)
    [] op.kind = "release" -> CanRelease(s, op.node, op.gen)
    [] op.kind = "moveFailed" -> CanMoveFailed(s, op.node, op.gen)
    [] op.kind = "takeover" -> CanTakeOver(s, op.node, op.gen)
    [] op.kind \in {"removed", "quarantined"} -> HasObligation(s.obligations, op.node, op.gen)
    [] op.kind = "completion" -> s.nodeRef = op.node /\ s.gen = op.gen /\ CanCompleteBackup(s)
    [] op.kind = "stopped" -> CanRecordStopped(s)
    [] op.kind = "committed" -> CanCommitBackup(s)
    [] op.kind = "phase" -> CanReport(s, op.phase)

\* What it makes of s, for a spec that declares a Managed volume or not.
Mutate(op, s, m) ==
  CASE op.kind = "schedule" -> Scheduled(s, op.node)
    [] op.kind = "clearFailedNodes" -> [s EXCEPT !.failedNodes = {}]
    [] op.kind = "clearClocks" -> [s EXCEPT !.takeover = FALSE]
    [] op.kind = "terminate" -> MarkedTerminating(s)
    [] op.kind = "release" -> Unreachable(s, op.node, op.gen, m, GraceExpiredRelease)
    [] op.kind = "moveFailed" -> MovedAfterFailure(s, op.node, op.gen, m)
    [] op.kind = "takeover" -> TakenOver(s, op.node, op.gen, m)
    [] op.kind = "removed" -> ResourcesRemovedRecorded(s, op.node, op.gen)
    [] op.kind = "quarantined" -> QuarantineRecorded(s, op.node, op.gen)
    [] op.kind \in {"completion", "committed"} -> BackupAccepted(s)
    [] op.kind = "stopped" -> StoppedRecorded(s, op.node, op.gen)
    [] op.kind = "phase" -> Reported(s, op.phase)

------------------------------------------------------------------------------
(* The loops.                                                              *)

Idle == [stage |-> "idle"]

\* The read: status, spec and version of one row.  A closure that reads the
\* spec itself does so in a second query.
Snapshot(op, attempt) ==
  [stage |-> IF ReadsSpec(op, status) THEN "spec" ELSE "swap", op |-> op, attempt |-> attempt,
   uid |-> uid, version |-> version, status |-> status, managed |-> managed]

Begin(c, op) ==
  /\ calls[c] = Idle
  /\ ReadMatches(op) /\ Accepts(op, status)
  /\ calls' = [calls EXCEPT ![c] = Snapshot(op, 1)]
  /\ UNCHANGED row

\* GetProject inside the closure: by name, whatever record is there now.
ReadSpec(c) ==
  /\ calls[c].stage = "spec"
  /\ calls' = [calls EXCEPT ![c] = IF uid = NoUID THEN Idle
                                   ELSE [@ EXCEPT !.stage = "swap", !.managed = managed]]
  /\ UNCHANGED row

\* Seeded fault: the version is left out of the WHERE.
SwapMatchesAnyVersion(k) ==
  /\ uid # NoUID
  /\ k.op.kind \notin NameKinds => uid = k.op.uid
  /\ k.op.kind \in FenceKinds => status.nodeRef = k.op.node /\ status.gen = k.op.gen

\* The swap's WHERE.
SwapMatches(k) ==
  /\ uid # NoUID
  /\ version = k.version
  /\ k.op.kind \notin NameKinds => uid = k.op.uid
  /\ k.op.kind \in FenceKinds => status.nodeRef = k.op.node /\ status.gen = k.op.gen

Written(k) == Mutate(k.op, k.status, k.managed)

\* The swap hits.  A closure that changed nothing commits nothing.
Commit(c) ==
  /\ calls[c].stage = "swap"
  /\ SwapMatches(calls[c]) \/ Written(calls[c]) = calls[c].status
  /\ calls' = [calls EXCEPT ![c] = Idle]
  /\ IF Written(calls[c]) = calls[c].status
       THEN UNCHANGED row
       ELSE /\ version < MaxVersion
            /\ status' = Written(calls[c])
            /\ version' = version + 1
            /\ grants' = IF calls[c].op.kind = "schedule"
                           THEN grants \union {[node |-> calls[c].op.node, gen |-> status'.gen,
                                                managed |-> managed]}
                           ELSE grants
            /\ UNCHANGED <<uid, managed, removal>>

\* The swap misses.  Only a version that moved is worth another attempt: a
\* record that is gone, another lifetime or a stale fence ends the call.
Miss(c) ==
  /\ calls[c].stage = "swap"
  /\ ~SwapMatches(calls[c]) /\ Written(calls[c]) # calls[c].status
  /\ calls' = [calls EXCEPT ![c] =
       IF ReadMatches(@.op) /\ @.attempt < MaxAttempts
         THEN [stage |-> "again", op |-> @.op, attempt |-> @.attempt + 1] ELSE Idle]
  /\ UNCHANGED row

ReadAgain(c) ==
  /\ calls[c].stage = "again"
  /\ calls' = [calls EXCEPT ![c] =
       IF ReadMatches(@.op) /\ Accepts(@.op, status) THEN Snapshot(@.op, @.attempt) ELSE Idle]
  /\ UNCHANGED row

------------------------------------------------------------------------------
(* Single transactions and statements.                                     *)

CreateProject(u, m) ==
  /\ uid = NoUID /\ removal[u] = "unused"
  /\ uid' = u /\ managed' = m /\ status' = InitialProjectStatus /\ version' = 1
  /\ grants' = {} /\ removal' = [removal EXCEPT ![u] = "live"]
  /\ UNCHANGED calls

\* Seeded fault: a spec change leaves resource_version alone.
UpdateProjectSpecUnversioned(m) ==
  /\ uid # NoUID
  /\ CanChangeSpec(status, managed, m)
  /\ managed' = m /\ status' = SpecChanged(status)
  /\ grants' = {IF status.nodeRef # NoNode /\ gr.gen = status.gen
                  THEN [gr EXCEPT !.managed = @ \/ m] ELSE gr : gr \in grants}
  /\ UNCHANGED <<uid, version, removal, calls>>

UpdateProjectSpec(m) ==
  /\ uid # NoUID /\ version < MaxVersion
  /\ CanChangeSpec(status, managed, m)
  /\ managed' = m /\ status' = SpecChanged(status) /\ version' = version + 1
  /\ grants' = {IF status.nodeRef # NoNode /\ gr.gen = status.gen
                  THEN [gr EXCEPT !.managed = @ \/ m] ELSE gr : gr \in grants}
  /\ UNCHANGED <<uid, removal, calls>>

\* Conditions this model leaves out are written by single statements or by the
\* same loops; either way the version moves.
SetCondition ==
  /\ uid # NoUID /\ version < MaxVersion
  /\ version' = version + 1
  /\ UNCHANGED <<uid, managed, status, grants, removal, calls>>

Remove(how) ==
  /\ uid' = NoUID /\ managed' = FALSE /\ status' = InitialProjectStatus /\ version' = 0
  /\ grants' = {} /\ removal' = [removal EXCEPT ![uid] = how]
  /\ UNCHANGED calls

DeleteProject == uid # NoUID /\ Remove("forced")

\* finalizeProject, with either blocker evaluated on the locked row.
FinalizeProject ==
  /\ uid # NoUID
  /\ \/ MayDeleteImmediately(status) /\ Remove("immediate")
     \/ MayFinalize(status) /\ Remove("finalized")

------------------------------------------------------------------------------

SwapInit ==
  /\ uid = NoUID /\ managed = FALSE /\ status = InitialProjectStatus /\ version = 0
  /\ grants = {} /\ removal = [u \in UID |-> "unused"]
  /\ calls = [c \in Call |-> Idle]

SwapNext ==
  \/ \E c \in Call, op \in Op : Begin(c, op)
  \/ \E c \in Call : ReadSpec(c)
  \/ \E c \in Call : Commit(c)
  \/ \E c \in Call : Miss(c)
  \/ \E c \in Call : ReadAgain(c)
  \/ \E u \in UID, m \in BOOLEAN : CreateProject(u, m)
  \/ \E m \in BOOLEAN : UpdateProjectSpec(m)
  \/ SetCondition
  \/ DeleteProject
  \/ FinalizeProject

SwapSpec == SwapInit /\ [][SwapNext]_swapVars
------------------------------------------------------------------------------
(* Properties.                                                             *)

\* The loops make every operation atomic: whatever they interleave with, the row
\* changes only as one action of ProjectLifecycle would change it, so nothing a
\* concurrent writer committed is ever lost.
RefinesLifecycle == PL!Spec

\* A call that still holds the row's version holds the row: the version moves
\* with every write to status or spec, also one by a statement of its own, and
\* the spec read inside a release is the one its swap is versioned on.
SnapshotCurrent ==
  \A c \in Call :
    (calls[c].stage = "swap" /\ calls[c].uid = uid /\ calls[c].version = version) =>
      calls[c].status = status /\ calls[c].managed = managed

\* "An obligation for another lifetime cannot be in p's list (the UID check
\* guards every write to it)" (CleanupTasksFor): every obligation is for an
\* assignment this lifetime was granted.
ObligationsOfOwnLifetime ==
  \A o \in status.obligations : \E gr \in grants : Names(o, gr.node, gr.gen)
==============================================================================
