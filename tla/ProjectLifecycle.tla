--------------------------- MODULE ProjectLifecycle ---------------------------
(***************************************************************************)
(* The life of the record kept under one Project name: created, assigned   *)
(* to Nodes, released, taken over, deleted, recreated under a new UID.     *)
(* Every writer of the row is one action, and every action is the whole    *)
(* read-mutate-write of that writer as one step; StatusSwap shows under    *)
(* which conditions the compare-and-swap makes it so.                      *)
(*                                                                         *)
(* Whoever calls is free to be late or wrong: an Agent presents any fence  *)
(* (a UID, a Node and a generation), a controller decides for any earlier  *)
(* assignment, an operator names any generation.  A call the server        *)
(* refuses changes nothing and is not a step.                              *)
(***************************************************************************)
EXTENDS ProjectRecord

CONSTANTS UID,                  \* lifetimes the name can have
          NoUID,                \* no record under the name
          GraceExpiredRelease,  \* the server's graceExpiredRelease option
          MaxGen                \* bound: assignments granted per lifetime

ASSUME NoUIDAssumption == NoUID \notin UID
ASSUME OptionAssumption == GraceExpiredRelease \in BOOLEAN
ASSUME MaxGenAssumption == MaxGen \in Nat

VARIABLES
  uid,       \* metadata.uid of the record, NoUID when there is none
  managed,   \* the spec declares a Managed volume
  status,    \* the record's status
  (* What happened, for the properties only. *)
  grants,    \* every assignment the current lifetime was given: its Node, its
             \* generation, and whether a Managed volume was declared under it
  removal    \* per UID: unused, live, or how its record was removed

vars == <<uid, managed, status, grants, removal>>

Fence == [uid: UID, node: Node, gen: 1..MaxGen]

Removal == {"unused", "live", "immediate", "finalized", "forced"}

Init ==
  /\ \/ /\ uid = NoUID
        /\ managed = FALSE
        /\ status = InitialProjectStatus
        /\ removal = [u \in UID |-> "unused"]
     \/ /\ uid \in UID
        /\ managed \in BOOLEAN
        /\ status = MigratedStatus
        /\ removal = [u \in UID |-> IF u = uid THEN "live" ELSE "unused"]
  /\ grants = {}

------------------------------------------------------------------------------
(* The user: create, apply, delete.                                        *)

\* CreateProject: a fresh UID and InitialProjectStatus.
CreateProject(u, m) ==
  /\ uid = NoUID
  /\ removal[u] = "unused"
  /\ uid' = u
  /\ managed' = m
  /\ status' = InitialProjectStatus
  /\ grants' = {}
  /\ removal' = [removal EXCEPT ![u] = "live"]

\* UpdateProjectSpec and RestartProject (m = managed).
UpdateProjectSpec(m) ==
  /\ uid # NoUID
  /\ CanChangeSpec(status, managed, m)
  /\ managed' = m
  /\ status' = SpecChanged(status)
  /\ grants' = {IF status.nodeRef # NoNode /\ gr.gen = status.gen
                  THEN [gr EXCEPT !.managed = @ \/ m] ELSE gr : gr \in grants}
  /\ UNCHANGED <<uid, removal>>

\* The row is gone: status and spec say nothing any more.
RecordRemoved(how) ==
  /\ uid' = NoUID
  /\ managed' = FALSE
  /\ status' = InitialProjectStatus
  /\ grants' = {}
  /\ removal' = [removal EXCEPT ![uid] = how]

\* DELETE ?force=true: DeleteProject by name, whatever the status says.
ForceDelete ==
  /\ uid # NoUID
  /\ RecordRemoved("forced")

\* DELETE of a record no Agent ever held: finalizeProject with
\* ImmediateDeletionBlocker, evaluated on the locked row.
DeleteImmediately(u) ==
  /\ uid = u
  /\ MayDeleteImmediately(status)
  /\ RecordRemoved("immediate")

\* A write that changes the status and nothing else.
Write(s) ==
  /\ status' = s
  /\ UNCHANGED <<uid, managed, grants, removal>>

\* DELETE of any other record.  The handler may have read it before the first
\* assignment was committed; it then decides again and lands here.
MarkTerminating(u) ==
  /\ uid = u
  /\ CanTerminate(status)
  /\ Write(MarkedTerminating(status))

------------------------------------------------------------------------------
(* The controllers and the operator.                                       *)

SetProjectScheduled(n) ==
  /\ uid # NoUID
  /\ status.gen < MaxGen
  /\ CanSchedule(status, n)
  /\ status' = Scheduled(status, n)
  /\ grants' = grants \union {[node |-> n, gen |-> status.gen + 1, managed |-> managed]}
  /\ UNCHANGED <<uid, managed, removal>>

\* The rescheduler's decision for a Node it holds unreachable.
ReleaseAssignment(f) ==
  /\ uid = f.uid
  /\ CanRelease(status, f.node, f.gen)
  /\ Write(Unreachable(status, f.node, f.gen, managed, GraceExpiredRelease))

MoveFailedProject(f) ==
  /\ uid = f.uid
  /\ CanMoveFailed(status, f.node, f.gen)
  /\ Write(MovedAfterFailure(status, f.node, f.gen, managed))

ClearFailedNodes ==
  /\ uid # NoUID
  /\ Write([status EXCEPT !.failedNodes = {}])

\* ClearRescheduleClocks, for a mark the Node's last heartbeat outdates.
ClearRescheduleClocks(n) ==
  /\ uid # NoUID
  /\ status.nodeRef = n
  /\ Write([status EXCEPT !.takeover = FALSE])

TakeoverProject(f) ==
  /\ uid = f.uid
  /\ CanTakeOver(status, f.node, f.gen)
  /\ Write(TakenOver(status, f.node, f.gen, managed))

\* The termination controller: finalizeProject with FinalizationBlocker,
\* evaluated on the locked row of the lifetime it read.
FinalizeProject(u) ==
  /\ uid = u
  /\ MayFinalize(status)
  /\ RecordRemoved("finalized")

------------------------------------------------------------------------------
(* The Agents.  The first four carry the fence of the current assignment,  *)
(* the last two the identity of any obligation in the list.                *)

\* Seeded fault: the lifetime is not part of the fence.
FenceMatchesAnyLifetime(f) ==
  /\ uid # NoUID
  /\ status.nodeRef = f.node
  /\ status.gen = f.gen

FenceMatches(f) ==
  /\ uid = f.uid
  /\ status.nodeRef = f.node
  /\ status.gen = f.gen

PatchStatus(f, ph) ==
  /\ FenceMatches(f)
  /\ CanReport(status, ph)
  /\ Write(Reported(status, ph))

RecordWorkloadStopped(f) ==
  /\ FenceMatches(f)
  /\ CanRecordStopped(status)
  /\ Write(StoppedRecorded(status, f.node, f.gen))

RecordCommittedBackup(f) ==
  /\ FenceMatches(f)
  /\ CanCommitBackup(status)
  /\ Write(BackupAccepted(status))

RecordBackupCompletion(f) ==
  /\ FenceMatches(f)
  /\ CanCompleteBackup(status)
  /\ Write(BackupAccepted(status))

RecordResourcesRemoved(f) ==
  /\ uid = f.uid
  /\ HasObligation(status.obligations, f.node, f.gen)
  /\ Write(ResourcesRemovedRecorded(status, f.node, f.gen))

RecordManagedDataQuarantined(f) ==
  /\ uid = f.uid
  /\ HasObligation(status.obligations, f.node, f.gen)
  /\ Write(QuarantineRecorded(status, f.node, f.gen))

------------------------------------------------------------------------------

UserStep ==
  \/ \E u \in UID, m \in BOOLEAN : CreateProject(u, m)
  \/ \E m \in BOOLEAN : UpdateProjectSpec(m)
  \/ ForceDelete
  \/ \E u \in UID : DeleteImmediately(u)
  \/ \E u \in UID : MarkTerminating(u)

ServerStep ==
  \/ \E n \in Node : SetProjectScheduled(n)
  \/ \E f \in Fence : ReleaseAssignment(f)
  \/ \E f \in Fence : MoveFailedProject(f)
  \/ ClearFailedNodes
  \/ \E n \in Node : ClearRescheduleClocks(n)
  \/ \E f \in Fence : TakeoverProject(f)
  \/ \E u \in UID : FinalizeProject(u)

AgentStep ==
  \/ \E f \in Fence, ph \in Phase : PatchStatus(f, ph)
  \/ \E f \in Fence : RecordWorkloadStopped(f)
  \/ \E f \in Fence : RecordCommittedBackup(f)
  \/ \E f \in Fence : RecordBackupCompletion(f)
  \/ \E f \in Fence : RecordResourcesRemoved(f)
  \/ \E f \in Fence : RecordManagedDataQuarantined(f)

Next == UserStep \/ ServerStep \/ AgentStep

Spec == Init /\ [][Next]_vars
------------------------------------------------------------------------------
(* Properties.                                                             *)

Held(gr) == status.nodeRef = gr.node /\ status.gen = gr.gen

Grant == [node: Node, gen: Nat, managed: BOOLEAN]

\* Every variable keeps its type; no record means an empty status.
TypeOK ==
  /\ uid \in UID \union {NoUID}
  /\ managed \in BOOLEAN
  /\ status \in Status
  /\ grants \in SUBSET Grant
  /\ removal \in [UID -> Removal]

\* No assignment is ever forgotten: whatever order releases, takeovers,
\* deletions and reports arrive in, every assignment this lifetime was granted
\* is the current one or stands in the obligation list ("no reader can see the
\* assignment gone without its debt recorded", ReleaseAssignment).
GrantsAccounted ==
  \A gr \in grants : Held(gr) \/ HasObligation(status.obligations, gr.node, gr.gen)

\* Nothing is owed that was never granted, and each assignment is owed for
\* once: a re-release, a takeover of a released assignment or a deletion never
\* adds a second entry for a generation (AddObligation, OverrideRelease).
OneDebtPerGrant ==
  \A o \in status.obligations :
    /\ \E gr \in grants : Names(o, gr.node, gr.gen)
    /\ \A p \in status.obligations : p.gen = o.gen => p = o

\* A Project is never assigned over an unsettled debt: while it is assigned,
\* every earlier assignment has been cleaned up or was released under an
\* authorization that accepts two copies, and the Node that holds it now owes
\* neither cleanup nor data from an earlier generation (A -> B -> A).
NoAssignmentOverDebt ==
  status.nodeRef # NoNode =>
    \A o \in status.obligations :
      o.gen < status.gen =>
        /\ PermitsAssignment(o)
        /\ o.node = status.nodeRef => o.removed /\ ~DataOutstanding(o)

\* A Pending Project that may not be scheduled is never beyond an operator: one
\* takeover of its latest generation is accepted and lifts every block
\* (applyOperatorTakeover refuses any other generation as stale).
OperatorCanUnblock ==
  (status.phase = "Pending" /\ Blocking(status.obligations) # {}) =>
    \E n \in Node :
      /\ CanTakeOver(status, n, status.gen)
      /\ Blocking(TakenOver(status, n, status.gen, managed).obligations) = {}

\* Local Managed data is owed by every Node the Project moved away from while
\* a Managed volume was declared at any time of that assignment, although the
\* release reads the spec only at its end: the freeze on removing a volume of
\* an assigned Project (CheckAssignedSpecChange) is what makes that enough.
ManagedDataOwed ==
  \A gr \in grants, o \in status.obligations :
    (gr.managed /\ Names(o, gr.node, gr.gen) /\ o.auth # "Deletion") => o.owed

\* An automatic release without stop evidence never leaves the only copy of
\* Managed data behind: a backup had been accepted (ReleaseAssignment).
OnlyCopyKept ==
  \A o \in status.obligations :
    (o.auth = "GraceExpired" /\ o.owed) => status.hasBackup

\* The operator's permission to take over is about the assignment that holds
\* the Project now: the mark of an outage never survives into Pending, from
\* where it would authorize taking over the next Node, and a mark a failed move
\* left never reaches Scheduled or Running, where it would pass for the
\* rescheduler's finding that the Node is gone (with grace releases on, that
\* finding is only made for a Project with Managed data).
MarkNamesAssignment ==
  status.takeover => /\ status.nodeRef # NoNode
                     /\ GraceExpiredRelease => managed \/ status.phase \notin {"Scheduled", "Running"}

\* Terminated is a statement about resources: the Node that held the Project
\* last has recorded that everything of that generation is gone.
TerminatedProven ==
  status.phase = "Terminated" => ResourcesRemovedFor(status.obligations, status.nodeRef, status.gen)

CleanRemoval ==
  \A u \in UID :
    removal[u] # removal'[u] =>
      /\ removal'[u] = "immediate" => grants = {}
      /\ removal'[u] = "finalized" =>
           \A gr \in grants : ResourcesRemovedFor(status.obligations, gr.node, gr.gen)

\* A record is removed without force only when no Node can hold anything for
\* it: immediately if it was never assigned, through finalization if every
\* assignment it ever had has ResourcesRemoved.  FinalizationBlocker sees only
\* the list; this says the list is all there is.
FinalizedClean == [][CleanRemoval]_vars

DebtProgress ==
  uid' = uid =>
    \A o \in status.obligations : \E p \in status'.obligations :
      /\ Names(p, o.node, o.gen)
      /\ o.removed => p.removed
      /\ o.owed => p.owed
      /\ o.quarantined => p.quarantined
      /\ p.auth \in {o.auth, "OperatorOverride"}

\* Within a lifetime the obligation list only makes progress: no entry leaves,
\* no evidence is withdrawn, no data debt is waived, and an authorization
\* changes only to an operator's override.
DebtOnlyProgresses == [][DebtProgress]_vars

KeepsDeleting ==
  (uid' = uid /\ status.phase \in {"Terminating", "Terminated"}) =>
    /\ status'.phase \in {"Terminating", "Terminated"}
    /\ status.phase = "Terminated" => status'.phase = "Terminated"
    /\ status'.nodeRef = status.nodeRef /\ status'.gen = status.gen

\* A deletion that was accepted is never undone: no late report, schedule,
\* release or takeover brings a Terminating lifetime back.
DeletionIrrevocable == [][KeepsDeleting]_vars
==============================================================================
