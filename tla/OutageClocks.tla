----------------------------- MODULE OutageClocks -----------------------------
(***************************************************************************)
(* Node health and the rescheduler: heartbeats, the Ready and NotReady     *)
(* mark, and the outage conditions a Project carries while its Node is     *)
(* away (NotReadyAt, TerminatingAt, TakeoverRequired, TerminationBlocked). *)
(*                                                                         *)
(* A Node's row is written whole by two parties that read it first, the    *)
(* heartbeat handler and the health controller, with no version check, so  *)
(* either can undo the other.  The rescheduler has one worker; it reads    *)
(* the Node, lists the Project, decides, and writes, and everything else   *)
(* may happen between these.  Most of its writes are keyed by the          *)
(* Project's name alone.                                                   *)
(*                                                                         *)
(* Of the Project only the phase, the assignment and the outage conditions *)
(* are kept; ProjectLifecycle has the rest.  Whether a release is          *)
(* authorized depends on that rest and is free here.                       *)
(***************************************************************************)
EXTENDS ProjectRecord, Integers

CONSTANTS HeartbeatTimeout,    \* NodeHeartbeatTimeout
          RunningGrace,        \* runningGracePeriod
          TerminatingTimeout,  \* terminatingTimeout
          MaxTime,             \* bound: the clock's last value
          MaxAssignments       \* bound: assignments granted

ASSUME OutageConstants ==
  /\ {HeartbeatTimeout, RunningGrace, TerminatingTimeout} \subseteq Nat \ {0}
  /\ MaxTime \in Nat /\ MaxAssignments \in Nat

VARIABLES
  now,      \* the wall clock
  nodeRow,  \* per Node: status.state and status.lastHeartbeat
  project,  \* phase, assignment and outage conditions
  health,   \* the health controller's worker
  resched,  \* the rescheduler's worker
  heard,    \* for the properties only: when each Node's last heartbeat was stored
  undone    \* for the properties only: the Nodes whose last heartbeat a write of
            \* the health controller took out of the row again

outageVars == <<now, nodeRow, project, health, resched, heard, undone>>

Never == -1
Time == 0..MaxTime
Stamp == Time \union {Never}

OutageCondition == {"notReadyAt", "terminatingAt", "takeoverAt", "blockedAt"}

\* raced, here and below, is for the properties only: a heartbeat of the Node was
\* stored after the worker had read the row.
IdleHealth == [pc |-> "idle", node |-> NoNode, state |-> "Ready", hb |-> Never, raced |-> FALSE]

IdleResched == [pc |-> "idle", node |-> NoNode, state |-> "Ready", hb |-> Never,
                op |-> "none", at |-> Never, gen |-> 0, phase |-> "Pending", raced |-> FALSE]

OutageInit ==
  /\ now = 0
  /\ nodeRow = [n \in Node |-> [state |-> "NotReady", hb |-> Never]]
  /\ project = [phase |-> "Pending", node |-> NoNode, gen |-> 0, notReadyAt |-> Never,
                terminatingAt |-> Never, takeoverAt |-> Never, blockedAt |-> Never]
  /\ health = IdleHealth
  /\ resched = IdleResched
  /\ heard = [n \in Node |-> Never]
  /\ undone = {}

TimePasses ==
  /\ now < MaxTime
  /\ now' = now + 1
  /\ UNCHANGED <<nodeRow, project, health, resched, heard, undone>>

------------------------------------------------------------------------------
(* Nodes.                                                                  *)

\* An Agent's heartbeat carries state Ready, so of the row the handler read
\* nothing that matters here survives; stamp and write are one step.
Heartbeat(n) ==
  /\ nodeRow' = [nodeRow EXCEPT ![n] = [state |-> "Ready", hb |-> now]]
  /\ heard' = [heard EXCEPT ![n] = now] /\ undone' = undone \ {n}
  /\ health' = [health EXCEPT !.raced = @ \/ (health.pc = "write" /\ health.node = n)]
  /\ resched' = [resched EXCEPT !.raced = @ \/ (resched.pc # "idle" /\ resched.node = n)]
  /\ UNCHANGED <<now, project>>

TimedOut(hb) == hb = Never \/ now - hb > HeartbeatTimeout

\* NodeHealthController.Reconcile up to its decision.
HealthDecides(n) ==
  /\ health.pc = "idle"
  /\ (nodeRow[n].state = "NotReady") # TimedOut(nodeRow[n].hb)
  /\ health' = [IdleHealth EXCEPT !.pc = "set", !.node = n,
                  !.state = IF TimedOut(nodeRow[n].hb) THEN "NotReady" ELSE "Ready"]
  /\ UNCHANGED <<now, nodeRow, project, resched, heard, undone>>

\* SetNodeState reads the row again and then writes all of it back.
SetNodeStateRead ==
  /\ health.pc = "set"
  /\ health' = [health EXCEPT !.pc = "write", !.hb = nodeRow[health.node].hb]
  /\ UNCHANGED <<now, nodeRow, project, resched, heard, undone>>

SetNodeStateWrite ==
  /\ health.pc = "write"
  /\ nodeRow' = [nodeRow EXCEPT ![health.node] = [state |-> health.state, hb |-> health.hb]]
  /\ health' = IdleHealth
  /\ undone' = undone \union (IF health.raced THEN {health.node} ELSE {})
  /\ UNCHANGED <<now, project, resched, heard>>

------------------------------------------------------------------------------
(* The rescheduler.                                                        *)

\* Seeded fault: a clock runs whichever outage started it.
IncidentClockAny(at, hb) == at # Never

\* incidentClock: a clock started before the Node's last heartbeat belongs to
\* an outage that is over.
IncidentClock(at, hb) == at # Never /\ at >= hb

HasRescheduleClock == \E c \in OutageCondition : project[c] # Never

\* Seed queues a Node when its row changes and at every resync while it is
\* NotReady, and errors queue it again: the free worker may get any Node.
Queued(n) == resched.pc = "idle"

\* Reconcile, first half: the Node's state and heartbeat.
ReadNode(n) ==
  /\ Queued(n)
  /\ resched' = [IdleResched EXCEPT !.pc = "node", !.node = n, !.state = nodeRow[n].state,
                                    !.hb = nodeRow[n].hb, !.raced = n \in undone]
  /\ UNCHANGED <<now, nodeRow, project, health, heard, undone>>

Decided(op, at) ==
  resched' = [resched EXCEPT !.pc = "write", !.op = op, !.at = at,
                             !.gen = project.gen, !.phase = project.phase]

\* handleRunning: start the clock, wait, or release.
HandleRunning ==
  LET at == project.notReadyAt IN
  IF ~IncidentClock(at, resched.hb) THEN Decided("setNotReadyAt", now)
  ELSE IF now - at < RunningGrace THEN resched' = IdleResched
  ELSE Decided("release", Never)

\* handleTerminating: start the clock, wait, report once per outage.
HandleTerminating ==
  LET at == project.terminatingAt IN
  IF ~IncidentClock(at, resched.hb) THEN Decided("setTerminatingAt", now)
  ELSE IF now - at < TerminatingTimeout \/ IncidentClock(project.blockedAt, resched.hb)
    THEN resched' = IdleResched
  ELSE Decided("setTerminationBlocked", now)

\* clearRescheduleClocks, for a Node that is back.
ClearClocks ==
  IF project.phase \in {"Scheduled", "Running", "Terminating", "Failed"} /\ HasRescheduleClock
    THEN Decided("clear", resched.hb) ELSE resched' = IdleResched

\* Reconcile, second half: the Projects of the Node, each by its phase.
ListProjects ==
  /\ resched.pc = "node"
  /\ IF project.node # resched.node THEN resched' = IdleResched
     ELSE IF resched.state # "NotReady" THEN ClearClocks
     ELSE CASE project.phase = "Scheduled" -> Decided("release", Never)
            [] project.phase = "Running" -> HandleRunning
            [] project.phase = "Terminating" -> HandleTerminating
            [] OTHER -> resched' = IdleResched
  /\ UNCHANGED <<now, nodeRow, project, health, heard, undone>>

Writes(p) ==
  /\ project' = p
  /\ resched' = IdleResched
  /\ UNCHANGED <<now, nodeRow, health, heard, undone>>

SetNotReadyAt ==
  /\ resched.pc = "write" /\ resched.op = "setNotReadyAt"
  /\ Writes([project EXCEPT !.notReadyAt = resched.at])

SetTerminatingAt ==
  /\ resched.pc = "write" /\ resched.op = "setTerminatingAt"
  /\ Writes([project EXCEPT !.terminatingAt = resched.at])

SetTerminationBlocked ==
  /\ resched.pc = "write" /\ resched.op = "setTerminationBlocked"
  /\ Writes(IF project.phase = "Terminating" THEN [project EXCEPT !.blockedAt = resched.at] ELSE project)

\* Seeded fault: whatever clock is there is removed.
ClearOutageConditionsAll ==
  /\ resched.pc = "write" /\ resched.op = "clear"
  /\ Writes([k \in DOMAIN project |->
               IF k \in OutageCondition /\ project.node = resched.node THEN Never ELSE project[k]])

\* The adapter's ClearRescheduleClocks: the conditions the heartbeat outdates, while the
\* Project is still on that Node.
ClearOutageConditions ==
  /\ resched.pc = "write" /\ resched.op = "clear"
  /\ Writes([k \in DOMAIN project |->
               IF k \in OutageCondition /\ project.node = resched.node /\ project[k] <= resched.at
                 THEN Never ELSE project[k]])

\* A released assignment takes its outage conditions with it.
WithoutAssignment(p) ==
  [p EXCEPT !.phase = "Pending", !.node = NoNode,
            !.notReadyAt = Never, !.terminatingAt = Never, !.takeoverAt = Never]

\* ReleaseAssignment: released if that is authorized, otherwise marked; a mark
\* that says the same keeps its stamp.  A Project that changed is skipped.
Release(authorized) ==
  /\ resched.pc = "write" /\ resched.op = "release"
  /\ Writes(IF \/ project.node # resched.node \/ project.gen # resched.gen
               \/ ~PhaseTransitionAllowed("Rescheduler", project.phase, "Pending") THEN project
            ELSE IF authorized THEN WithoutAssignment(project)
            ELSE [project EXCEPT !.takeoverAt = IF @ = Never THEN now ELSE @])

\* A store call fails; the key is queued again.
ReschedFails ==
  /\ resched.pc # "idle"
  /\ resched' = IdleResched
  /\ UNCHANGED <<now, nodeRow, project, health, heard, undone>>

------------------------------------------------------------------------------
(* The other writers of the Project.                                       *)

OtherWriter(p) ==
  /\ project' = p
  /\ UNCHANGED <<now, nodeRow, health, resched, heard, undone>>

\* SetProjectScheduled; the Ready list it chose from may be out of date.
Assigned(n) ==
  /\ project.phase = "Pending" /\ project.gen < MaxAssignments
  /\ OtherWriter([project EXCEPT !.phase = "Scheduled", !.node = n, !.gen = @ + 1])

AgentReports(ph) ==
  /\ ph # project.phase
  /\ PhaseTransitionAllowed("Agent", project.phase, ph)
  /\ OtherWriter([project EXCEPT !.phase = ph])

DeleteRequested ==
  /\ project.gen > 0
  /\ PhaseTransitionAllowed("DeleteAPI", project.phase, "Terminating")
  /\ OtherWriter([project EXCEPT !.phase = "Terminating"])

\* applyOperatorTakeover of the current assignment: only a marked one.
TakenOverByOperator ==
  /\ PhaseTransitionAllowed("OperatorTakeover", project.phase, "Pending")
  /\ project.takeoverAt # Never
  /\ OtherWriter(WithoutAssignment(project))

------------------------------------------------------------------------------

ReschedulerWrites ==
  \/ SetNotReadyAt \/ SetTerminatingAt \/ SetTerminationBlocked \/ ClearOutageConditions
  \/ \E authorized \in BOOLEAN : Release(authorized)

OutageNext ==
  \/ TimePasses
  \/ \E n \in Node : Heartbeat(n) \/ HealthDecides(n) \/ ReadNode(n)
  \/ SetNodeStateRead \/ SetNodeStateWrite
  \/ ListProjects \/ ReschedulerWrites \/ ReschedFails
  \/ \E n \in Node : Assigned(n)
  \/ \E ph \in {"Running", "Failed", "Terminated"} : AgentReports(ph)
  \/ DeleteRequested \/ TakenOverByOperator

OutageSpec == OutageInit /\ [][OutageNext]_outageVars

------------------------------------------------------------------------------
(* Properties.                                                             *)

\* The rescheduler gives a verdict on a Project it found Running or Terminating.
VerdictStep ==
  /\ resched.pc = "write" /\ resched'.pc = "idle" /\ project' # project
  /\ \/ resched.op = "release" /\ resched.phase = "Running"
     \/ resched.op = "setTerminationBlocked"

VerdictIsDue ==
  (VerdictStep /\ ~resched.raced /\ heard[resched.node] # Never) =>
    now - heard[resched.node] >= IF resched.op = "release" THEN RunningGrace ELSE TerminatingTimeout

\* Every outage is given its full wait: when a Running Project is released or
\* marked, or a Terminating one reported blocked, the Node has not been heard from
\* for the whole grace period or timeout, however many outages came before and
\* whichever clock was left behind by one of them, by another Node or by a write
\* that landed late ("the second failure is owed its own full grace period",
\* SetNotReadyAt).  Two races are the only exceptions: a heartbeat stored after the
\* worker read the Node, and one a concurrent SetNodeState took out of the row.
FullGrace == [][VerdictIsDue]_outageVars

ClockKept(c) ==
  (project[c] # Never /\ project'[c] = Never /\ project'.node = project.node) =>
    project[c] <= heard[project.node]

\* While a Project stays on its Node, no clock or mark is taken off it before the
\* Node has been heard from since it was set: a cleanup overtaken by the next
\* outage does not restart that outage's wait (ClearRescheduleClocks).
RunningClocksKept == [][\A c \in OutageCondition : project.node # NoNode => ClockKept(c)]_outageVars
==============================================================================
