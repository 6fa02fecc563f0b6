---------------------------- MODULE ProjectRecord ----------------------------
(***************************************************************************)
(* The status of one Project record (api/v1) and the mutations the server  *)
(* applies to it.  A mutation is a pure operator: its guard says when the  *)
(* closure handed to the store commits a change, its result is the status  *)
(* the store then swaps in.  When and how a mutation reaches the row is    *)
(* the business of ProjectLifecycle (one atomic step) and of StatusSwap    *)
(* (a read, then a compare-and-swap).                                      *)
(*                                                                         *)
(* The status keeps the fields some mutation reads back: conditions other  *)
(* than TakeoverRequired, timestamps, messages, stanzas and the identity   *)
(* of backups are left out.  hasBackup merges CommittedBackup and          *)
(* Backup.LastCompletion, which are only ever asked about together.        *)
(***************************************************************************)
EXTENDS Integers, FiniteSets

CONSTANTS Node,     \* the Nodes a Project can be assigned to
          NoNode    \* the empty nodeRef

ASSUME NoNodeAssumption == NoNode \notin Node

------------------------------------------------------------------------------
(* Phases and who may move between them (phase_transition.go).             *)

Phase == {"Pending", "Scheduled", "Running", "Failed", "Terminating", "Terminated"}

History == {"NeverAssigned", "Known", "Unknown"}

phaseTransitions ==
  [DeleteAPI         |-> {"Pending", "Scheduled", "Running", "Failed"} \X {"Terminating"},
   Scheduler         |-> {<<"Pending", "Scheduled">>},
   Rescheduler       |-> {"Scheduled", "Running"} \X {"Pending"},
   FailedRescheduler |-> {<<"Failed", "Pending">>},
   OperatorTakeover  |-> {"Scheduled", "Running"} \X {"Pending"},
   Agent             |-> {<<"Scheduled", "Running">>, <<"Scheduled", "Failed">>,
                          <<"Running", "Failed">>, <<"Terminating", "Terminated">>}]

PhaseTransitionAllowed(writer, from, to) ==
  IF from = to
    THEN writer = "Agent" /\ to \in {"Running", "Failed", "Terminated"}
    ELSE <<from, to>> \in phaseTransitions[writer]

------------------------------------------------------------------------------
(* Cleanup obligations (project_types.go).  The list belongs to one        *)
(* lifetime, so an obligation is named by its Node and generation.         *)

Authorization == {"WorkloadStopped", "Deletion", "GraceExpired", "OperatorOverride"}

Obligation == [node: Node, gen: Nat, auth: Authorization, removed: BOOLEAN,
               owed: BOOLEAN, quarantined: BOOLEAN]

Names(o, n, g) == o.node = n /\ o.gen = g

DataOutstanding(o) == o.owed /\ ~o.quarantined

PermitsAssignment(o) == o.removed \/ o.auth \in {"OperatorOverride", "GraceExpired"}

HasObligation(obls, n, g) == \E o \in obls : Names(o, n, g)

AddObligation(obls, n, g, auth) ==
  IF HasObligation(obls, n, g)
    THEN obls
    ELSE obls \union {[node |-> n, gen |-> g, auth |-> auth, removed |-> FALSE,
                       owed |-> FALSE, quarantined |-> FALSE]}

OverrideRelease(obls, n, g) ==
  {IF Names(o, n, g) THEN [o EXCEPT !.auth = "OperatorOverride"] ELSE o :
     o \in AddObligation(obls, n, g, "OperatorOverride")}

OweManagedData(obls, n, g, managed) ==
  {IF managed /\ Names(o, n, g) THEN [o EXCEPT !.owed = TRUE] ELSE o : o \in obls}

Blocking(obls) == {o \in obls : ~PermitsAssignment(o)}

\* Seeded fault: an entry that no longer blocks the next assignment is not worked off.
OwingWhileBlocking(obls) == {o \in obls : ~PermitsAssignment(o) \/ DataOutstanding(o)}

Owing(obls) == {o \in obls : ~o.removed \/ DataOutstanding(o)}

NodesOwingCleanup(obls) == {o.node : o \in Owing(obls)}

ResourcesRemovedFor(obls, n, g) == \E o \in obls : Names(o, n, g) /\ o.removed

------------------------------------------------------------------------------
(* The status, and the two questions a final delete asks (finalization.go). *)

NoAssignment == [node |-> NoNode, gen |-> 0]

Status == [phase: Phase, nodeRef: Node \union {NoNode}, gen: Nat, history: History,
           failedNodes: SUBSET Node, stopped: [node: Node \union {NoNode}, gen: Nat],
           obligations: SUBSET Obligation, hasBackup: BOOLEAN, takeover: BOOLEAN]

InitialProjectStatus ==
  [phase |-> "Pending", nodeRef |-> NoNode, gen |-> 0, history |-> "NeverAssigned",
   failedNodes |-> {}, stopped |-> NoAssignment, obligations |-> {},
   hasBackup |-> FALSE, takeover |-> FALSE]

\* A row that predates assignment generations and had no nodeRef when
\* migration 005 rewrote it.
MigratedStatus == [InitialProjectStatus EXCEPT !.history = "Unknown"]

AwaitsFinalization(s) ==
  s.phase = "Terminated" \/ (s.phase = "Terminating" /\ s.nodeRef = NoNode)

\* Seeded fault: a Terminated Project answers only for its last Node.
MayFinalizeOnLastNode(s) ==
  /\ AwaitsFinalization(s)
  /\ s.phase = "Terminated" => ResourcesRemovedFor(s.obligations, s.nodeRef, s.gen)
  /\ s.phase # "Terminated" => s.history = "NeverAssigned" \/ \A o \in s.obligations : o.removed

\* FinalizationBlocker(p) = ""
MayFinalize(s) ==
  /\ AwaitsFinalization(s)
  /\ IF s.phase = "Terminated"
       THEN ResourcesRemovedFor(s.obligations, s.nodeRef, s.gen)
       ELSE \/ s.history = "NeverAssigned" /\ s.gen = 0
            \/ s.history = "Known" /\ s.obligations # {}
  /\ \A o \in s.obligations : o.removed

\* ImmediateDeletionBlocker(p) = ""
MayDeleteImmediately(s) ==
  /\ s.phase \in {"Pending", "Failed"}
  /\ s.history = "NeverAssigned"
  /\ s.nodeRef = NoNode
  /\ s.gen = 0
  /\ s.obligations = {}

WorkloadStoppedFor(s, n, g) == s.stopped = [node |-> n, gen |-> g]

------------------------------------------------------------------------------
(* The mutations.                                                          *)

\* Seeded fault: the Node itself may still owe cleanup.
CanScheduleBack(s, n) ==
  /\ PhaseTransitionAllowed("Scheduler", s.phase, "Scheduled")
  /\ Blocking(s.obligations) = {}

\* SetProjectScheduled: a grant of ownership to n.  Re-asserting the same
\* grant changes nothing and is not a case of its own here.
CanSchedule(s, n) ==
  /\ PhaseTransitionAllowed("Scheduler", s.phase, "Scheduled")
  /\ Blocking(s.obligations) = {}
  /\ n \notin NodesOwingCleanup(s.obligations)

Scheduled(s, n) ==
  [s EXCEPT !.phase = "Scheduled", !.nodeRef = n, !.gen = @ + 1, !.history = "Known",
            !.stopped = NoAssignment]

\* Seeded fault: the assignment goes in one write, its debt would follow in another.
ReleasedWithoutDebt(s, auth, managed) ==
  [s EXCEPT !.phase = "Pending", !.nodeRef = NoNode, !.takeover = FALSE]

\* The write every release shares: back to Pending, the debt recorded in the
\* same swap, the outage mark gone with the outage.
Released(s, auth, managed) ==
  [s EXCEPT !.phase = "Pending", !.nodeRef = NoNode, !.takeover = FALSE,
            !.obligations =
              OweManagedData(AddObligation(@, s.nodeRef, s.gen, auth), s.nodeRef, s.gen, managed)]

\* ReleaseAssignment, decided for the assignment n held at generation g.
CanRelease(s, n, g) ==
  /\ s.nodeRef = n /\ s.gen = g
  /\ PhaseTransitionAllowed("Rescheduler", s.phase, "Pending")

\* Seeded fault: the grace release does not ask for a backup.
UnreachableWithoutBackup(s, n, g, managed, graceExpiredRelease) ==
  IF WorkloadStoppedFor(s, n, g)
    THEN Released(s, "WorkloadStopped", managed)
  ELSE IF graceExpiredRelease
    THEN Released(s, "GraceExpired", managed)
  ELSE [s EXCEPT !.takeover = TRUE]

Unreachable(s, n, g, managed, graceExpiredRelease) ==
  IF WorkloadStoppedFor(s, n, g)
    THEN Released(s, "WorkloadStopped", managed)
  ELSE IF graceExpiredRelease /\ (~managed \/ s.hasBackup)
    THEN Released(s, "GraceExpired", managed)
  ELSE [s EXCEPT !.takeover = TRUE]

\* MoveFailedProject, decided for the assignment n held at generation g.
CanMoveFailed(s, n, g) ==
  /\ PhaseTransitionAllowed("FailedRescheduler", s.phase, "Pending")
  /\ s.nodeRef = n /\ s.gen = g

MovedAfterFailure(s, n, g, managed) ==
  IF WorkloadStoppedFor(s, n, g)
    THEN [Released(s, "WorkloadStopped", managed) EXCEPT !.failedNodes = @ \union {n}]
    ELSE [s EXCEPT !.takeover = TRUE]

\* Seeded fault: the mark is asked for although the assignment was released.
CanTakeOverMarked(s, n, g) ==
  /\ s.gen = g
  /\ s.takeover
  /\ IF s.nodeRef = NoNode
       THEN s.phase = "Pending" /\ (\E o \in Blocking(s.obligations) : Names(o, n, g))
       ELSE s.nodeRef = n /\ PhaseTransitionAllowed("OperatorTakeover", s.phase, "Pending")

\* applyOperatorTakeover, then OweManagedData in TakeoverProject.
CanTakeOver(s, n, g) ==
  /\ s.gen = g
  /\ IF s.nodeRef = NoNode
       THEN s.phase = "Pending" /\ (\E o \in Blocking(s.obligations) : Names(o, n, g))
       ELSE /\ s.nodeRef = n
            /\ PhaseTransitionAllowed("OperatorTakeover", s.phase, "Pending")
            /\ s.takeover

\* Seeded fault: the outage mark is carried along.
TakenOverStillMarked(s, n, g, managed) ==
  [s EXCEPT !.phase = "Pending", !.nodeRef = NoNode,
            !.obligations = OweManagedData(OverrideRelease(@, n, g), n, g, managed)]

TakenOver(s, n, g, managed) ==
  [s EXCEPT !.phase = "Pending", !.nodeRef = NoNode,
            !.takeover = IF s.nodeRef = NoNode THEN @ ELSE FALSE,
            !.obligations = OweManagedData(OverrideRelease(@, n, g), n, g, managed)]

\* The delete handler's write: Terminating, and the assigned Node's debt.
CanTerminate(s) == PhaseTransitionAllowed("DeleteAPI", s.phase, "Terminating")

\* Seeded fault: the empty nodeRef is not told apart.
MarkedTerminatingAnyNode(s) ==
  [s EXCEPT !.phase = "Terminating",
            !.obligations = AddObligation(@, s.nodeRef, s.gen, "Deletion")]

MarkedTerminating(s) ==
  [s EXCEPT !.phase = "Terminating",
            !.obligations = IF s.nodeRef = NoNode
                              THEN @ ELSE AddObligation(@, s.nodeRef, s.gen, "Deletion")]

\* Seeded fault: the phase a report finds is not looked at.
CanReportFromAnyPhase(s, ph) ==
  /\ ph \in {"Running", "Failed", "Terminated"}
  /\ ph = "Terminated" => ResourcesRemovedFor(s.obligations, s.nodeRef, s.gen)

\* patchStatus: the assigned Agent reports phase ph.
CanReport(s, ph) ==
  /\ PhaseTransitionAllowed("Agent", s.phase, ph)
  /\ (ph = "Terminated" /\ s.phase # "Terminated")
        => ResourcesRemovedFor(s.obligations, s.nodeRef, s.gen)

Reported(s, ph) == [s EXCEPT !.phase = ph]

\* RecordWorkloadStopped, RecordCommittedBackup and RecordBackupCompletion.
CanRecordStopped(s) == s.phase \in {"Scheduled", "Running", "Failed", "Terminating"}

StoppedRecorded(s, n, g) == [s EXCEPT !.stopped = [node |-> n, gen |-> g]]

CanCommitBackup(s) == s.phase \in {"Scheduled", "Running", "Failed"}

CanCompleteBackup(s) == s.phase = "Running"

BackupAccepted(s) == [s EXCEPT !.hasBackup = TRUE]

\* Seeded fault: a settled obligation is dropped from the list.
ResourcesRemovedDropsEntry(s, n, g) ==
  [s EXCEPT !.obligations = {o \in @ : ~Names(o, n, g)}]

\* RecordResourcesRemoved and RecordManagedDataQuarantined: the cleanup owner
\* is any obligation in the list.
ResourcesRemovedRecorded(s, n, g) ==
  [s EXCEPT !.obligations =
      {IF Names(o, n, g) THEN [o EXCEPT !.removed = TRUE] ELSE o : o \in @}]

QuarantineRecorded(s, n, g) ==
  [s EXCEPT !.obligations =
      {IF Names(o, n, g) THEN [o EXCEPT !.quarantined = TRUE] ELSE o : o \in @}]

\* Seeded fault: a Managed volume may go while a Node holds the Project.
CanChangeSpecUnfrozen(s, managed, m) == s.phase \in {"Pending", "Scheduled", "Running", "Failed"}

\* changeSpec: the phases whose spec may change, and what it resets.
CanChangeSpec(s, managed, m) ==
  /\ s.phase \in {"Pending", "Scheduled", "Running", "Failed"}
  /\ (s.nodeRef # NoNode /\ managed) => m      \* CheckAssignedSpecChange

SpecChanged(s) == [s EXCEPT !.failedNodes = {}]
==============================================================================
