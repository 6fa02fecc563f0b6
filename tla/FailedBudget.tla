----------------------------- MODULE FailedBudget -----------------------------
(***************************************************************************)
(* The Failed-Project rescheduler: a Project that failed for a reason      *)
(* another Node may fix is moved, after a wait that grows with the moves   *)
(* spent, until its moves are used up and the alert is raised; having run  *)
(* long enough it gets them back.  Its one worker judges a snapshot and    *)
(* writes later: the move is bound to the assignment it judged, the other  *)
(* two writes to the Project's name.                                       *)
(*                                                                         *)
(* Time is the age of the Phase condition, which stops growing at          *)
(* StableAfter since nothing waits longer.                                 *)
(***************************************************************************)
EXTENDS ProjectRecord, Integers, Sequences, FiniteSets

CONSTANTS Backoff,        \* rescheduleBackoff; its length is maxReschedules
          StableAfter,    \* rescheduleStableAfter
          MaxGrants,      \* bound: assignments granted
          MaxApplies,     \* bound: times the Project is applied again
          MaxBudgetFaults \* bound: failed store calls

ASSUME FailedBudgetConstants ==
  /\ Backoff \in Seq(Nat)
  /\ \A i \in DOMAIN Backoff : Backoff[i] < StableAfter
  /\ \A i, j \in DOMAIN Backoff : i <= j => Backoff[i] <= Backoff[j]
  /\ {StableAfter, MaxGrants, MaxApplies, MaxBudgetFaults} \subseteq Nat

VARIABLES
  subject,  \* the Project: assignment, Phase condition, FailedNodes, evidence, alert
  mover,    \* the worker
  lasted,   \* for the properties only: how long the Project has been in its phase
  moves,    \* for the properties only: moves since the Project last proved stable or was applied
  spent     \* what is used of the bounds

budgetVars == <<subject, mover, lasted, moves, spent>>

IdleMover == [op |-> "idle", node |-> NoNode, gen |-> 0]

BudgetInit ==
  /\ subject = [phase |-> "Pending", node |-> NoNode, gen |-> 0, reason |-> "none", age |-> 0,
                failed |-> {}, stopped |-> FALSE, marked |-> FALSE, exhausted |-> FALSE]
  /\ mover = IdleMover /\ lasted = 0 /\ moves = 0
  /\ spent = [applies |-> 0, faults |-> 0]

\* rescheduleReasons is an allowlist; one reason stands for its members and one
\* for the rest.
Reason(ph) == IF ph = "Failed" THEN {"movable", "other"} ELSE {"running"}

Older(a) == IF a < StableAfter THEN a + 1 ELSE a

AgeingStep ==
  /\ subject.age < StableAfter \/ lasted < StableAfter
  /\ subject' = [subject EXCEPT !.age = Older(@)]
  /\ lasted' = Older(lasted)
  /\ moves' = IF subject.phase = "Running" /\ Older(subject.age) = StableAfter THEN 0 ELSE moves
  /\ UNCHANGED <<mover, spent>>

------------------------------------------------------------------------------
(* The worker.                                                             *)

Judges(op) == mover' = [op |-> op, node |-> subject.node, gen |-> subject.gen]

\* Seeded fault: the wait does not grow with the moves spent.
WaitFirst(n) == Backoff[1]

Wait(n) == Backoff[n + 1]

\* reconcileFailed.
ReconcileFailed ==
  LET n == Cardinality(subject.failed) IN
  /\ subject.phase = "Failed" /\ subject.reason = "movable"
  /\ IF n >= Len(Backoff) THEN ~subject.exhausted /\ Judges("exhaust")
     ELSE subject.age >= Wait(n) /\ Judges("move")

\* Seeded fault: Running at all counts as recovered.
ReconcileRunningAtOnce ==
  /\ subject.phase = "Running" /\ subject.failed # {}
  /\ Judges("clear")

\* reconcileRunning.
ReconcileRunning ==
  /\ subject.phase = "Running" /\ subject.failed # {} /\ subject.reason = "running"
  /\ subject.age >= StableAfter
  /\ Judges("clear")

\* Reconcile reads one snapshot and decides on it.  A Project that still has to
\* wait is looked at again (Requeue, resync).
GetProjectSnapshot ==
  /\ mover.op = "idle"
  /\ ReconcileFailed \/ ReconcileRunning
  /\ UNCHANGED <<subject, lasted, moves, spent>>

\* A write, and how long its phase has lasted.
SetSubject(s) ==
  /\ subject' = s
  /\ lasted' = IF s.phase = subject.phase THEN lasted ELSE 0

MoverWrites(s) ==
  /\ SetSubject(s)
  /\ mover' = IdleMover
  /\ UNCHANGED spent

\* MoveFailedProject's write.
Moved(s) ==
  [s EXCEPT !.phase = "Pending", !.node = NoNode, !.reason = "none", !.age = 0, !.marked = FALSE,
            !.failed = @ \union {s.node}]

\* MoveFailedProject: Failed under the judged assignment, and stopped or else marked.
MoveFailedProject ==
  /\ mover.op = "move"
  /\ LET same == /\ PhaseTransitionAllowed("FailedRescheduler", subject.phase, "Pending")
                 /\ subject.node = mover.node /\ subject.gen = mover.gen
     IN /\ MoverWrites(IF ~same THEN subject
                       ELSE IF subject.stopped THEN Moved(subject) ELSE [subject EXCEPT !.marked = TRUE])
        /\ moves' = IF same /\ subject.stopped THEN moves + 1 ELSE moves

ClearFailedNodes ==
  /\ mover.op = "clear"
  /\ MoverWrites([subject EXCEPT !.failed = {}])
  /\ UNCHANGED moves

\* Seeded fault: the alert is never written.
SetRescheduleExhaustedNowhere ==
  /\ mover.op = "exhaust"
  /\ MoverWrites(subject)
  /\ UNCHANGED moves

SetRescheduleExhausted ==
  /\ mover.op = "exhaust"
  /\ MoverWrites(IF subject.phase = "Failed" THEN [subject EXCEPT !.exhausted = TRUE] ELSE subject)
  /\ UNCHANGED moves

MoverFails ==
  /\ mover.op # "idle" /\ spent.faults < MaxBudgetFaults
  /\ mover' = IdleMover
  /\ spent' = [spent EXCEPT !.faults = @ + 1]
  /\ UNCHANGED <<subject, lasted, moves>>

------------------------------------------------------------------------------
(* The other writers.                                                      *)

SubjectWrites(s) ==
  /\ SetSubject(s)
  /\ UNCHANGED <<mover, moves, spent>>

\* The scheduler leaves out FailedNodes (NeverBackToFailed of Scheduling).
SubjectAssigned(n) ==
  /\ subject.phase = "Pending" /\ n \notin subject.failed /\ subject.gen < MaxGrants
  /\ SubjectWrites([subject EXCEPT !.phase = "Scheduled", !.node = n, !.gen = @ + 1,
                                   !.reason = "none", !.age = 0, !.stopped = FALSE])

\* patchProjectStatus: a report that says the same as the last one keeps its stamp.
SubjectReported(ph, why) ==
  /\ PhaseTransitionAllowed("Agent", subject.phase, ph)
  /\ <<subject.phase, subject.reason>> # <<ph, why>>
  /\ SubjectWrites([subject EXCEPT !.phase = ph, !.reason = why, !.age = 0])

StopConfirmed ==
  /\ subject.node # NoNode /\ ~subject.stopped
  /\ SubjectWrites([subject EXCEPT !.stopped = TRUE])

\* ReleaseAssignment after an outage.
SubjectReleased ==
  /\ PhaseTransitionAllowed("Rescheduler", subject.phase, "Pending")
  /\ SubjectWrites([subject EXCEPT !.phase = "Pending", !.node = NoNode, !.reason = "none", !.age = 0,
                                   !.marked = FALSE])

SubjectDeleted ==
  /\ subject.phase # "Terminating" /\ PhaseTransitionAllowed("DeleteAPI", subject.phase, "Terminating")
  /\ SubjectWrites([subject EXCEPT !.phase = "Terminating"])

\* changeSpec: applying a Project gives its moves back.
SubjectApplied ==
  /\ subject.phase \in {"Pending", "Scheduled", "Running", "Failed"}
  /\ spent.applies < MaxApplies
  /\ subject' = [subject EXCEPT !.failed = {}, !.exhausted = FALSE]
  /\ moves' = 0
  /\ spent' = [spent EXCEPT !.applies = @ + 1]
  /\ UNCHANGED <<mover, lasted>>

------------------------------------------------------------------------------

MoverStep ==
  \/ GetProjectSnapshot \/ MoveFailedProject \/ ClearFailedNodes \/ SetRescheduleExhausted

BudgetNext ==
  \/ AgeingStep \/ MoverStep \/ MoverFails
  \/ \E n \in Node : SubjectAssigned(n)
  \/ \E ph \in {"Running", "Failed"} : \E why \in Reason(ph) : SubjectReported(ph, why)
  \/ StopConfirmed \/ SubjectReleased \/ SubjectDeleted \/ SubjectApplied

\* The clock, and the controller's worker with its 30 s resync.
BudgetFairness == WF_budgetVars(AgeingStep) /\ WF_budgetVars(MoverStep)

BudgetSpec == BudgetInit /\ [][BudgetNext]_budgetVars /\ BudgetFairness

------------------------------------------------------------------------------
(* Properties.                                                             *)

\* Between two times it proved stable or was applied again, a Project is moved at
\* most maxReschedules times: a service that crashes a while after every start is
\* not moved for ever, whichever late clear or apply comes between.
MovesBounded == moves <= Len(Backoff)

\* A move happens only once the Project has been Failed for the wait that the moves spent
\* by then ask for, although it was judged on an earlier snapshot.
BackoffServed ==
  [][moves' = moves + 1 => lasted >= Backoff[Cardinality(subject.failed) + 1]]_budgetVars

\* A Project that failed for a movable reason and is confirmed stopped does not
\* stay Failed in silence: it is moved, or deleted, or its alert is raised.
FailureIsAnswered ==
  []<>~(/\ subject.phase = "Failed" /\ subject.reason = "movable"
        /\ subject.stopped /\ ~subject.exhausted)
==============================================================================
