--------------------------- MODULE Controllers_proofs ---------------------------
(***************************************************************************)
(* The server's controllers.  Rescheduling, for any Nodes, timeouts, grace *)
(* periods, backoffs and number of outages, heartbeats and moves: an       *)
(* outage gets its full grace before Projects leave the Node, and a        *)
(* Project that fails is moved a bounded number of times, each after its   *)
(* backoff.  Scheduling, for any Projects, Nodes, sizes, offers, channel   *)
(* capacity and budget: no Project is forgotten, and none goes to a Node   *)
(* it failed on.                                                           *)
(***************************************************************************)
EXTENDS OutageClocks, FailedBudget, Scheduling, FiniteSetTheorems, TLAPS

------------------------------------------------------------------------------
(* The outage clocks.                                                      *)

RecordShape(p) ==
  /\ DOMAIN p = {"phase", "node", "gen"} \union OutageCondition
  /\ \A c \in OutageCondition : p[c] \in Int

Shapes ==
  /\ now \in Nat
  /\ RecordShape(project)
  /\ nodeRow \in [Node -> [state: {"Ready", "NotReady"}, hb: Int]]
  /\ heard \in [Node -> Int]
  /\ DOMAIN resched = DOMAIN IdleResched /\ resched.hb \in Int /\ resched.at \in Int
  /\ resched.raced \in BOOLEAN /\ health.raced \in BOOLEAN
  /\ DOMAIN health = DOMAIN IdleHealth /\ health.hb \in Int /\ health.state \in {"Ready", "NotReady"}

\* A heartbeat anyone holds is not later than the last one stored for the Node.
HeartbeatsHeard ==
  /\ \A n \in Node : nodeRow[n].hb <= heard[n] /\ heard[n] <= now
  /\ health.pc \in {"set", "write"} => health.node \in Node
  /\ health.pc = "write" => health.hb <= heard[health.node]
  /\ resched.pc # "idle" => resched.node \in Node /\ resched.hb <= heard[resched.node]

\* What the rescheduler is about to write: a clock is a time, a cleanup is of the
\* heartbeat it read, and a verdict is due.
DecisionsSound ==
  resched.pc = "write" =>
    /\ resched.op \in {"setNotReadyAt", "setTerminatingAt", "setTerminationBlocked"} => resched.at \in Nat
    /\ resched.op = "clear" => resched.at = resched.hb
    /\ (resched.op = "release" /\ resched.phase = "Running" /\ resched.hb # Never) =>
         now - resched.hb >= RunningGrace
    /\ (resched.op = "setTerminationBlocked" /\ resched.hb # Never) =>
         now - resched.hb >= TerminatingTimeout

\* Who goes by another heartbeat than the last one stored was raced by it, or read
\* a row it had been taken out of.
OnlyRacesMiss ==
  /\ \A n \in Node : n \notin undone => nodeRow[n].hb = heard[n]
  /\ (health.pc = "write" /\ ~health.raced /\ health.node \notin undone) =>
       health.hb = heard[health.node]
  /\ (resched.pc # "idle" /\ ~resched.raced) => resched.hb = heard[resched.node]

OutageInv == Shapes /\ HeartbeatsHeard /\ DecisionsSound /\ OnlyRacesMiss

LEMMA OutageInitially == OutageInit => OutageInv
  BY DEF OutageInit, OutageInv, Shapes, RecordShape, HeartbeatsHeard, OnlyRacesMiss, DecisionsSound, IdleHealth, IdleResched,
         OutageCondition, Never

\* One field at a time keeps the shape: a stamp is a number.
LEMMA FieldShape ==
  ASSUME NEW p, RecordShape(p), NEW k, NEW v, k \in OutageCondition => v \in Int
  PROVE  RecordShape([p EXCEPT ![k] = v])
  BY DEF RecordShape

LEMMA ReleasedShape ==
  ASSUME NEW p, RecordShape(p)
  PROVE  RecordShape(WithoutAssignment(p))
<1> DEFINE q1 == [p EXCEPT !.phase = "Pending"]
           q2 == [q1 EXCEPT !.node = NoNode]
           q3 == [q2 EXCEPT !.notReadyAt = Never]
           q4 == [q3 EXCEPT !.terminatingAt = Never]
           q5 == [q4 EXCEPT !.takeoverAt = Never]
<1>0. Never \in Int
  BY DEF Never
<1>1. RecordShape(q1)
  BY FieldShape DEF OutageCondition
<1> HIDE DEF q1
<1>2. RecordShape(q2)
  BY <1>1, FieldShape DEF OutageCondition
<1> HIDE DEF q2
<1>3. RecordShape(q3)
  BY <1>0, <1>2, FieldShape
<1> HIDE DEF q3
<1>4. RecordShape(q4)
  BY <1>0, <1>3, FieldShape
<1> HIDE DEF q4
<1>5. RecordShape(q5)
  BY <1>0, <1>4, FieldShape
<1>6. WithoutAssignment(p) = q5
  BY DEF WithoutAssignment, q1, q2, q3, q4
<1> QED
  BY <1>5, <1>6

\* Deciding on a Project: the four conclusions of ListProjects.
LEMMA DecisionStep == OutageInv /\ ListProjects => OutageInv'
<1> SUFFICES ASSUME OutageInv, ListProjects
             PROVE  OutageInv'
  OBVIOUS
<1> USE OutageConstants
<1>0. UNCHANGED <<now, nodeRow, project, health, heard, undone>> /\ resched.pc = "node"
  BY DEF ListProjects
<1> DEFINE Same == /\ DOMAIN resched' = DOMAIN IdleResched /\ resched'.hb = resched.hb
                   /\ resched'.node = resched.node /\ resched'.pc = "write"
                   /\ resched'.raced = resched.raced
                   /\ resched'.phase = project.phase
<1>1. ASSUME NEW op, NEW at, Decided(op, at)
      PROVE  Same /\ resched'.op = op /\ resched'.at = at
  BY <1>1 DEF Decided, OutageInv, Shapes, IdleResched
<1>2. /\ project.notReadyAt \in Int /\ project.terminatingAt \in Int
      /\ now \in Nat /\ resched.hb \in Int
  BY DEF OutageInv, Shapes, RecordShape, OutageCondition
<1>3. CASE resched' = IdleResched
  BY <1>0, <1>3 DEF OutageInv, Shapes, HeartbeatsHeard, OnlyRacesMiss, DecisionsSound, IdleResched, Never
<1>4. CASE Decided("clear", resched.hb)
  BY <1>0, <1>1, <1>4 DEF OutageInv, Shapes, HeartbeatsHeard, OnlyRacesMiss, DecisionsSound
<1>5. CASE Decided("setNotReadyAt", now) \/ Decided("setTerminatingAt", now)
  BY <1>0, <1>1, <1>5 DEF OutageInv, Shapes, HeartbeatsHeard, OnlyRacesMiss, DecisionsSound
<1>6. CASE Decided("release", Never) /\ project.phase = "Scheduled"
  BY <1>0, <1>1, <1>6 DEF OutageInv, Shapes, HeartbeatsHeard, OnlyRacesMiss, DecisionsSound, Never
<1>7. CASE /\ Decided("release", Never) /\ project.notReadyAt >= resched.hb
           /\ ~(now - project.notReadyAt < RunningGrace)
  <2>1. now - resched.hb >= RunningGrace
    BY <1>2, <1>7
  <2> QED
    BY <1>0, <1>1, <1>7, <2>1 DEF OutageInv, Shapes, HeartbeatsHeard, OnlyRacesMiss, DecisionsSound, Never
<1>8. CASE /\ Decided("setTerminationBlocked", now) /\ project.terminatingAt >= resched.hb
           /\ ~(now - project.terminatingAt < TerminatingTimeout)
  <2>1. now - resched.hb >= TerminatingTimeout
    BY <1>2, <1>8
  <2> QED
    BY <1>0, <1>1, <1>8, <2>1 DEF OutageInv, Shapes, HeartbeatsHeard, OnlyRacesMiss, DecisionsSound, Never
<1>9. HandleRunning => (\/ resched' = IdleResched \/ Decided("setNotReadyAt", now)
                        \/ /\ Decided("release", Never) /\ project.notReadyAt >= resched.hb
                           /\ ~(now - project.notReadyAt < RunningGrace))
  BY DEF HandleRunning, IncidentClock
<1>10. HandleTerminating =>
         (\/ resched' = IdleResched \/ Decided("setTerminatingAt", now)
          \/ /\ Decided("setTerminationBlocked", now) /\ project.terminatingAt >= resched.hb
             /\ ~(now - project.terminatingAt < TerminatingTimeout))
  BY DEF HandleTerminating, IncidentClock
<1> QED
  BY <1>3, <1>4, <1>5, <1>6, <1>7, <1>8, <1>9, <1>10 DEF ListProjects, ClearClocks

\* The record's shape after each kind of write, and an idle rescheduler.
LEMMA WriteStep ==
  ASSUME OutageInv, ReschedulerWrites
  PROVE  OutageInv'
<1>1. /\ resched' = IdleResched /\ UNCHANGED <<now, nodeRow, health, heard, undone>>
  BY DEF ReschedulerWrites, SetNotReadyAt, SetTerminatingAt, SetTerminationBlocked,
         ClearOutageConditions, Release, Writes
<1>0. RecordShape(project) /\ now \in Int /\ resched.at \in Int
  BY DEF OutageInv, Shapes
<1>2. ASSUME SetNotReadyAt \/ SetTerminatingAt \/ SetTerminationBlocked
      PROVE  RecordShape(project')
  BY <1>0, <1>2 DEF SetNotReadyAt, SetTerminatingAt, SetTerminationBlocked, Writes, RecordShape
<1>3. ASSUME ClearOutageConditions
      PROVE  RecordShape(project')
  BY <1>0, <1>3 DEF ClearOutageConditions, Writes, Never, RecordShape
<1>4. ASSUME NEW authorized \in BOOLEAN, Release(authorized)
      PROVE  RecordShape(project')
  <2>1. CASE project' = project
    BY <1>0, <2>1
  <2>2. CASE project' = WithoutAssignment(project)
    BY <1>0, <2>2, ReleasedShape
  <2>3. CASE project' = [project EXCEPT !.takeoverAt = IF @ = Never THEN now ELSE @]
    BY <1>0, <2>3 DEF RecordShape
  <2> QED
    BY <1>4, <2>1, <2>2, <2>3 DEF Release, Writes
<1>5. RecordShape(project')
  BY <1>2, <1>3, <1>4 DEF ReschedulerWrites
<1> QED
  BY <1>1, <1>5 DEF OutageInv, Shapes, HeartbeatsHeard, OnlyRacesMiss, DecisionsSound, IdleResched, Never

\* The other steps, one by one.
LEMMA OutageStep == OutageInv /\ [OutageNext]_outageVars => OutageInv'
<1> SUFFICES ASSUME OutageInv, [OutageNext]_outageVars
             PROVE  OutageInv'
  OBVIOUS
<1> USE DEF OutageInv
<1>1. CASE TimePasses
  <2>1. /\ now \in Int /\ now' = now + 1 /\ resched.hb \in Int /\ RunningGrace \in Int /\ TerminatingTimeout \in Int
        /\ heard \in [Node -> Int]
        /\ UNCHANGED <<nodeRow, project, health, resched, heard, undone>>
    BY <1>1, OutageConstants DEF TimePasses, Shapes
  <2>2. Shapes'
    BY <2>1 DEF Shapes
  <2>3. HeartbeatsHeard' /\ OnlyRacesMiss'
    BY <2>1 DEF HeartbeatsHeard, OnlyRacesMiss
  <2>4. DecisionsSound'
    BY <2>1 DEF DecisionsSound
  <2> QED
    BY <2>2, <2>3, <2>4
<1>2. ASSUME NEW n \in Node, Heartbeat(n)
      PROVE  OutageInv'
  <2>0. /\ \A k \in DOMAIN IdleResched \ {"raced"} : resched'[k] = resched[k]
        /\ \A k \in DOMAIN IdleHealth \ {"raced"} : health'[k] = health[k]
        /\ DOMAIN resched' = DOMAIN resched /\ DOMAIN health' = DOMAIN health
        /\ resched'.raced = (resched.raced \/ (resched.pc # "idle" /\ resched.node = n))
        /\ health'.raced = (health.raced \/ (health.pc = "write" /\ health.node = n))
    BY <1>2 DEF Heartbeat, Shapes, IdleResched, IdleHealth
  <2>a. UNCHANGED <<now, project>>
        /\ resched'.pc = resched.pc /\ resched'.node = resched.node /\ resched'.hb = resched.hb
        /\ resched'.op = resched.op /\ resched'.at = resched.at /\ resched'.phase = resched.phase
        /\ health'.pc = health.pc /\ health'.node = health.node /\ health'.hb = health.hb
        /\ health'.state = health.state
    BY <1>2, <2>0 DEF Heartbeat, IdleResched, IdleHealth
  <2>b. /\ nodeRow' = [nodeRow EXCEPT ![n] = [state |-> "Ready", hb |-> now]]
        /\ heard' = [heard EXCEPT ![n] = now] /\ undone' = undone \ {n}
    BY <1>2 DEF Heartbeat
  <2>1. Shapes'
    BY <2>0, <2>a, <2>b DEF Shapes
  <2>2. HeartbeatsHeard'
    BY <2>0, <2>a, <2>b DEF Shapes, HeartbeatsHeard
  <2>3. DecisionsSound'
    BY <2>a DEF DecisionsSound
  <2>4. OnlyRacesMiss'
    BY <2>0, <2>a, <2>b DEF Shapes, HeartbeatsHeard, OnlyRacesMiss
  <2> QED
    BY <2>1, <2>2, <2>3, <2>4
<1>3. ASSUME NEW n \in Node, HealthDecides(n)
      PROVE  OutageInv'
  BY <1>3 DEF HealthDecides, Shapes, HeartbeatsHeard, OnlyRacesMiss, DecisionsSound, IdleHealth, Never
<1>4. CASE SetNodeStateRead
  BY <1>4 DEF SetNodeStateRead, Shapes, HeartbeatsHeard, OnlyRacesMiss, DecisionsSound
<1>5. CASE SetNodeStateWrite
  BY <1>5 DEF SetNodeStateWrite, Shapes, HeartbeatsHeard, OnlyRacesMiss, DecisionsSound, IdleHealth, Never
<1>6. ASSUME NEW n \in Node, ReadNode(n)
      PROVE  OutageInv'
  <2>1. /\ UNCHANGED <<now, nodeRow, project, health, heard, undone>>
        /\ DOMAIN resched' = DOMAIN IdleResched /\ resched'.pc = "node" /\ resched'.node = n
        /\ resched'.hb = nodeRow[n].hb /\ resched'.at = Never /\ resched'.raced = (n \in undone)
    BY <1>6 DEF ReadNode, IdleResched
  <2>2. Shapes' /\ HeartbeatsHeard' /\ DecisionsSound'
    BY <2>1 DEF Shapes, HeartbeatsHeard, DecisionsSound, Never
  <2>3. OnlyRacesMiss'
    BY <2>1 DEF OnlyRacesMiss
  <2> QED
    BY <2>2, <2>3
<1>7. CASE ListProjects
  BY <1>7, DecisionStep
<1>8. CASE ReschedulerWrites
  BY <1>8, WriteStep
<1>9. CASE ReschedFails
  BY <1>9 DEF ReschedFails, Shapes, HeartbeatsHeard, OnlyRacesMiss, DecisionsSound, IdleResched, Never
<1>10. ASSUME NEW p, RecordShape(p), OtherWriter(p)
       PROVE  OutageInv'
  BY <1>10 DEF OtherWriter, Shapes, HeartbeatsHeard, OnlyRacesMiss, DecisionsSound
<1>11. ASSUME NEW n \in Node, Assigned(n)
       PROVE  OutageInv'
  <2>1. RecordShape([project EXCEPT !.phase = "Scheduled", !.node = n, !.gen = @ + 1])
    BY DEF Shapes, RecordShape, OutageCondition
  <2> QED
    BY <1>10, <1>11, <2>1 DEF Assigned
<1>12. ASSUME NEW ph, AgentReports(ph)
       PROVE  OutageInv'
  <2>1. RecordShape([project EXCEPT !.phase = ph])
    BY DEF Shapes, RecordShape, OutageCondition
  <2> QED
    BY <1>10, <1>12, <2>1 DEF AgentReports
<1>13. CASE DeleteRequested
  <2>1. RecordShape([project EXCEPT !.phase = "Terminating"])
    BY DEF Shapes, RecordShape, OutageCondition
  <2> QED
    BY <1>10, <1>13, <2>1 DEF DeleteRequested
<1>14. CASE TakenOverByOperator
  <2>1. RecordShape(WithoutAssignment(project))
    BY ReleasedShape DEF Shapes
  <2> QED
    BY <1>10, <1>14, <2>1 DEF TakenOverByOperator
<1>15. CASE UNCHANGED outageVars
  BY <1>15 DEF outageVars, Shapes, HeartbeatsHeard, OnlyRacesMiss, DecisionsSound
<1> QED
  BY <1>1, <1>2, <1>3, <1>4, <1>5, <1>6, <1>7, <1>8, <1>9, <1>11, <1>12, <1>13, <1>14, <1>15
     DEF OutageNext

\* Every outage is given its full wait before a Running Project is released or
\* marked, or a Terminating one reported blocked: but for the two races, the last
\* heartbeat the server stored is that long ago, however many outages, late writes
\* and leftover clocks came before (incidentClock).
THEOREM OutagesGetTheirWait == OutageSpec => FullGrace
<1>1. OutageInv /\ [OutageNext]_outageVars => [VerdictIsDue]_outageVars
  <2> SUFFICES ASSUME OutageInv, VerdictStep, ~resched.raced, heard[resched.node] # Never
               PROVE  now - heard[resched.node] >=
                        IF resched.op = "release" THEN RunningGrace ELSE TerminatingTimeout
    BY DEF VerdictIsDue
  <2>1. resched.hb = heard[resched.node]
    BY DEF OutageInv, OnlyRacesMiss, VerdictStep
  <2> QED
    BY <2>1 DEF OutageInv, DecisionsSound, VerdictStep
<1> QED
  BY <1>1, OutageInitially, OutageStep, PTL DEF OutageSpec, FullGrace

\* A released Project is on no Node.
LEMMA ReleasedNowhere ==
  ASSUME NEW p, RecordShape(p)
  PROVE  WithoutAssignment(p).node = NoNode
  BY DEF WithoutAssignment, RecordShape

\* While a Project stays on its Node no running clock is taken off it before the
\* Node has been heard from since: what ClearRescheduleClocks removes is not
\* later than a heartbeat of that Node that was stored.
THEOREM ClocksOutliveCleanups == OutageSpec => RunningClocksKept
<1>1. ASSUME OutageInv, [OutageNext]_outageVars, NEW c \in OutageCondition, project.node # NoNode,
             project[c] # Never, project'[c] = Never, project'.node = project.node
      PROVE  project[c] <= heard[project.node]
  <2>0. RecordShape(project)
    BY <1>1 DEF OutageInv, Shapes
  <2>1. CASE ClearOutageConditions
    <3>1. project.node = resched.node /\ project[c] <= resched.at
      BY <1>1, <2>0, <2>1 DEF ClearOutageConditions, Writes, RecordShape
    <3>2. resched.at = resched.hb /\ resched.node \in Node /\ resched.hb <= heard[resched.node]
      BY <1>1, <2>1 DEF ClearOutageConditions, OutageInv, HeartbeatsHeard, OnlyRacesMiss, DecisionsSound
    <3>3. project[c] \in Int /\ resched.hb \in Int /\ heard[resched.node] \in Int
      BY <1>1, <2>0, <3>2 DEF RecordShape, OutageInv, Shapes
    <3> QED
      BY <3>1, <3>2, <3>3
  <2>2. CASE SetNotReadyAt \/ SetTerminatingAt \/ SetTerminationBlocked
    <3>1. resched.at # Never
      BY <1>1, <2>2 DEF SetNotReadyAt, SetTerminatingAt, SetTerminationBlocked, OutageInv, DecisionsSound, Never
    <3> QED
      BY <1>1, <2>0, <2>2, <3>1 DEF SetNotReadyAt, SetTerminatingAt, SetTerminationBlocked, Writes,
         RecordShape, OutageCondition
  <2>3. ASSUME NEW authorized \in BOOLEAN, Release(authorized)
        PROVE  FALSE
    <3>1. now # Never
      BY <1>1 DEF OutageInv, Shapes, Never
    <3>2. CASE project' = project
      BY <1>1, <3>2
    <3>3. CASE project' = WithoutAssignment(project)
      BY <1>1, <2>0, <3>3, ReleasedNowhere
    <3>4. CASE project' = [project EXCEPT !.takeoverAt = IF @ = Never THEN now ELSE @]
      BY <1>1, <2>0, <3>1, <3>4 DEF RecordShape, OutageCondition
    <3> QED
      BY <2>3, <3>2, <3>3, <3>4 DEF Release, Writes
  <2>4. CASE UNCHANGED project
    BY <1>1, <2>4
  <2>5. ASSUME NEW n \in Node, Assigned(n)
        PROVE  FALSE
    BY <1>1, <2>0, <2>5 DEF Assigned, OtherWriter, RecordShape, OutageCondition
  <2>6. ASSUME NEW ph, AgentReports(ph)
        PROVE  FALSE
    BY <1>1, <2>0, <2>6 DEF AgentReports, OtherWriter, RecordShape, OutageCondition
  <2>7. CASE DeleteRequested
    BY <1>1, <2>0, <2>7 DEF DeleteRequested, OtherWriter, RecordShape, OutageCondition
  <2>8. CASE TakenOverByOperator
    BY <1>1, <2>0, <2>8, ReleasedNowhere DEF TakenOverByOperator, OtherWriter
  <2> QED
    BY <1>1, <2>1, <2>2, <2>3, <2>4, <2>5, <2>6, <2>7, <2>8
       DEF OutageNext, outageVars, ReschedulerWrites, TimePasses, Heartbeat, HealthDecides, ReadNode,
           SetNodeStateRead, SetNodeStateWrite, ListProjects, ReschedFails
<1>2. OutageInv /\ [OutageNext]_outageVars =>
        [\A c \in OutageCondition : project.node # NoNode => ClockKept(c)]_outageVars
  BY <1>1 DEF ClockKept
<1> QED
  BY <1>2, OutageInitially, OutageStep, PTL DEF OutageSpec, RunningClocksKept

------------------------------------------------------------------------------
(* The moves of a Failed Project.                                          *)

HeldPhase == {"Scheduled", "Running", "Failed"}

BudgetShapes ==
  /\ DOMAIN subject = {"phase", "node", "gen", "reason", "age", "failed", "stopped", "marked", "exhausted"}
  /\ subject.phase \in Phase
  /\ subject.gen \in Nat /\ subject.age \in Nat /\ subject.age <= StableAfter
  /\ IsFiniteSet(subject.failed)
  /\ DOMAIN mover = DOMAIN IdleMover
  /\ mover.op \in {"idle", "move", "clear", "exhaust"} /\ mover.gen \in Nat
  /\ lasted \in Nat /\ lasted <= StableAfter /\ moves \in Nat

\* Each move since the Project last had its moves back left its Node among the
\* FailedNodes, where the next one is not.
MovesRecorded ==
  /\ moves <= Cardinality(subject.failed)
  /\ subject.phase \in HeldPhase => subject.node \notin subject.failed
  /\ subject.phase = "Running" /\ subject.age = StableAfter => moves = 0

\* What the worker judged stays true until it writes.
JudgedSound ==
  /\ mover.op = "clear" => moves = 0
  /\ mover.op = "move" =>
       /\ Cardinality(subject.failed) < Len(Backoff)
       /\ mover.gen <= subject.gen
       /\ subject.gen = mover.gen => subject.phase \notin {"Scheduled", "Running"}
       /\ (subject.gen = mover.gen /\ subject.phase = "Failed") =>
            lasted >= Backoff[Cardinality(subject.failed) + 1]

\* The stamp is never older than the phase it stamps.
StampWithinPhase == subject.phase # "Terminating" => subject.age <= lasted

BudgetInv == BudgetShapes /\ MovesBounded /\ MovesRecorded /\ JudgedSound /\ StampWithinPhase

\* What the phase table lets the writers of this module do.
LEMMA BudgetTransitions ==
  ASSUME NEW from, NEW to
  PROVE  /\ PhaseTransitionAllowed("FailedRescheduler", from, "Pending") <=> from = "Failed"
         /\ PhaseTransitionAllowed("Rescheduler", from, "Pending") => from \in {"Scheduled", "Running"}
         /\ (to \in {"Running", "Failed"} /\ PhaseTransitionAllowed("Agent", from, to)) =>
              /\ from \in HeldPhase
              /\ from = "Failed" => to = "Failed"
  BY DEF PhaseTransitionAllowed, phaseTransitions, HeldPhase

\* A wait is asked for while moves are left, and grows with the moves spent.
LEMMA Waits ==
  ASSUME NEW i \in Nat, NEW j \in Nat, i <= j, j < Len(Backoff)
  PROVE  /\ Backoff[i + 1] \in Nat /\ Backoff[j + 1] \in Nat
         /\ Backoff[i + 1] <= Backoff[j + 1]
         /\ 0 < StableAfter
<1>1. i + 1 \in DOMAIN Backoff /\ j + 1 \in DOMAIN Backoff
  BY FailedBudgetConstants
<1> QED
  BY <1>1, FailedBudgetConstants

LEMMA BudgetInitially == BudgetInit => BudgetInv
<1> SUFFICES ASSUME BudgetInit PROVE BudgetInv
  OBVIOUS
<1>1. IsFiniteSet(subject.failed) /\ Cardinality(subject.failed) = 0
  BY FS_EmptySet DEF BudgetInit
<1> QED
  BY <1>1, FailedBudgetConstants
  DEF BudgetInit, BudgetInv, BudgetShapes, MovesBounded, MovesRecorded, JudgedSound, StampWithinPhase, IdleMover,
      Phase, HeldPhase

\* A write that leaves FailedNodes and the moves alone, and stamps a phase it changes.
\* Of the phases the worker's move cannot follow, none comes back under its generation.
LEMMA QuietWrite ==
  ASSUME BudgetInv, NEW s, SubjectWrites(s),
         DOMAIN s = DOMAIN subject, s.phase \in Phase, s.failed = subject.failed,
         s.gen \in Nat, subject.gen <= s.gen, s.age \in {0, subject.age},
         s.phase \notin {"Terminating", subject.phase} => s.age = 0,
         s.phase \in HeldPhase => s.node \notin subject.failed,
         s.gen = subject.gen =>
           /\ s.phase \in HeldPhase => subject.phase \in HeldPhase
           /\ subject.phase = "Failed" => s.phase \notin {"Scheduled", "Running"}
  PROVE  BudgetInv'
<1> USE DEF SubjectWrites, SetSubject
<1>0. StableAfter \in Nat /\ Cardinality(subject.failed) \in Nat /\ Len(Backoff) \in Nat
  BY FailedBudgetConstants, FS_CardinalityType DEF BudgetInv, BudgetShapes
<1>1. BudgetShapes'
  BY <1>0 DEF BudgetInv, BudgetShapes
<1>2. MovesBounded'
  BY DEF BudgetInv, MovesBounded
<1>3. MovesRecorded'
  <2>1. CASE StableAfter = 0
    <3>1. 0 < Len(Backoff) => 0 < StableAfter
      BY <1>0, Waits
    <3>2. Len(Backoff) = 0
      BY <2>1, <1>0, <3>1
    <3> QED
      BY <1>0, <3>2, <1>2 DEF BudgetInv, BudgetShapes, MovesRecorded, MovesBounded
  <2>2. CASE StableAfter # 0
    BY <2>2, <1>0 DEF BudgetInv, BudgetShapes, MovesRecorded, Phase
  <2> QED
    BY <2>1, <2>2
<1>4. JudgedSound'
  BY <1>0 DEF BudgetInv, BudgetShapes, JudgedSound, HeldPhase
<1>5. StampWithinPhase'
  BY <1>0 DEF BudgetInv, BudgetShapes, StampWithinPhase
<1> QED
  BY <1>1, <1>2, <1>3, <1>4, <1>5 DEF BudgetInv

LEMMA AgeingBudget ==
  ASSUME BudgetInv, AgeingStep
  PROVE  BudgetInv'
<1>0. StableAfter \in Nat /\ Cardinality(subject.failed) \in Nat /\ Len(Backoff) \in Nat
  BY FailedBudgetConstants, FS_CardinalityType DEF BudgetInv, BudgetShapes
<1>1. /\ DOMAIN subject' = DOMAIN subject /\ subject'.phase = subject.phase /\ subject'.gen = subject.gen
      /\ subject'.failed = subject.failed /\ subject'.node = subject.node /\ subject'.age = Older(subject.age)
      /\ lasted' = Older(lasted) /\ lasted <= lasted' /\ mover' = mover /\ moves' \in {0, moves}
  BY <1>0 DEF AgeingStep, BudgetInv, BudgetShapes, Older
<1>2. BudgetShapes'
  BY <1>0, <1>1 DEF BudgetInv, BudgetShapes, Older
<1>3. MovesBounded' /\ JudgedSound'
  <2>1. MovesBounded'
    BY <1>0, <1>1 DEF BudgetInv, BudgetShapes, MovesBounded
  <2>2. JudgedSound'
    <3>1. mover.op = "move" => Backoff[Cardinality(subject.failed) + 1] \in Nat
      BY <1>0, Waits DEF BudgetInv, JudgedSound
    <3>2. (mover.op = "move" /\ subject.gen = mover.gen /\ subject.phase = "Failed") =>
            lasted' >= Backoff[Cardinality(subject.failed) + 1]
      <4> DEFINE w == Backoff[Cardinality(subject.failed) + 1]
      <4> HIDE DEF w
      <4>1. (mover.op = "move" /\ subject.gen = mover.gen /\ subject.phase = "Failed") => w \in Nat /\ lasted >= w
        BY <3>1 DEF BudgetInv, JudgedSound, w
      <4>2. lasted \in Nat /\ lasted' \in Nat /\ lasted <= lasted'
        BY <1>1, <1>2 DEF BudgetInv, BudgetShapes
      <4>3. (mover.op = "move" /\ subject.gen = mover.gen /\ subject.phase = "Failed") => lasted' >= w
        BY <4>1, <4>2
      <4> QED
        BY <4>3 DEF w
    <3>3. mover.op = "clear" => moves' = 0
      BY <1>1 DEF BudgetInv, JudgedSound
    <3> QED
      BY <1>1, <3>2, <3>3 DEF BudgetInv, JudgedSound
  <2> QED
    BY <2>1, <2>2
<1>4. MovesRecorded'
  <2>1. subject.phase = "Running" /\ Older(subject.age) = StableAfter => moves' = 0
    BY DEF AgeingStep
  <2> QED
    BY <1>0, <1>1, <2>1 DEF BudgetInv, BudgetShapes, MovesRecorded
<1>5. StampWithinPhase'
  BY <1>0, <1>1 DEF BudgetInv, BudgetShapes, StampWithinPhase, Older
<1> QED
  BY <1>2, <1>3, <1>4, <1>5 DEF BudgetInv

\* The worker's judgement of the snapshot, under which its write is sound.
LEMMA SnapshotBudget ==
  ASSUME BudgetInv, GetProjectSnapshot
  PROVE  BudgetInv'
<1>0. StableAfter \in Nat /\ Cardinality(subject.failed) \in Nat /\ Len(Backoff) \in Nat
  BY FailedBudgetConstants, FS_CardinalityType DEF BudgetInv, BudgetShapes
<1>1. UNCHANGED <<subject, lasted, moves>>
  BY DEF GetProjectSnapshot
<1>2. /\ DOMAIN mover' = DOMAIN IdleMover /\ mover'.op \in {"move", "clear", "exhaust"}
      /\ mover'.gen = subject.gen
  BY DEF GetProjectSnapshot, ReconcileFailed, ReconcileRunning, Judges, IdleMover
<1>3. mover'.op = "clear" => moves = 0
  <2>1. mover'.op = "clear" => subject.phase = "Running" /\ subject.age >= StableAfter
    BY DEF GetProjectSnapshot, ReconcileFailed, ReconcileRunning, Judges
  <2> QED
    BY <2>1, <1>0 DEF BudgetInv, BudgetShapes, MovesRecorded
<1>4. mover'.op = "move" =>
        /\ Cardinality(subject.failed) < Len(Backoff) /\ subject.phase = "Failed"
        /\ lasted >= Backoff[Cardinality(subject.failed) + 1]
  <2>1. mover'.op = "move" =>
          /\ ~(Cardinality(subject.failed) >= Len(Backoff)) /\ subject.phase = "Failed"
          /\ subject.age >= Wait(Cardinality(subject.failed))
    BY DEF GetProjectSnapshot, ReconcileFailed, ReconcileRunning, Judges
  <2>2. mover'.op = "move" => Wait(Cardinality(subject.failed)) \in Nat
    BY <1>0, <2>1, Waits DEF Wait
  <2>3. subject.phase = "Failed" => lasted >= subject.age
    BY DEF BudgetInv, BudgetShapes, StampWithinPhase
  <2>4. mover'.op = "move" => lasted >= Wait(Cardinality(subject.failed))
    BY <2>1, <2>2, <2>3 DEF BudgetInv, BudgetShapes
  <2> QED
    BY <1>0, <2>1, <2>4 DEF Wait
<1> QED
  BY <1>0, <1>1, <1>2, <1>3, <1>4
  DEF BudgetInv, BudgetShapes, MovesBounded, MovesRecorded, JudgedSound, StampWithinPhase

\* The move itself adds its Node to FailedNodes, which did not have it.
LEMMA MoveBudget ==
  ASSUME BudgetInv, MoveFailedProject
  PROVE  /\ BudgetInv'
         /\ moves' = moves + 1 => lasted >= Backoff[Cardinality(subject.failed) + 1]
<1> DEFINE same == /\ PhaseTransitionAllowed("FailedRescheduler", subject.phase, "Pending")
                   /\ subject.node = mover.node /\ subject.gen = mover.gen
<1>0. StableAfter \in Nat /\ Cardinality(subject.failed) \in Nat /\ Len(Backoff) \in Nat /\ moves \in Nat
  BY FailedBudgetConstants, FS_CardinalityType DEF BudgetInv, BudgetShapes
<1>1. mover' = IdleMover /\ IdleMover.op = "idle" /\ IdleMover.gen \in Nat /\ mover.op = "move"
  BY DEF MoveFailedProject, MoverWrites, IdleMover
<1>2. CASE same /\ subject.stopped
  <2>1. subject.phase = "Failed" /\ subject.gen = mover.gen
    BY <1>2, BudgetTransitions
  <2>2. /\ DOMAIN subject' = DOMAIN subject /\ subject'.phase = "Pending" /\ subject'.gen = subject.gen
        /\ subject'.age = 0 /\ subject'.failed = subject.failed \union {subject.node}
        /\ moves' = moves + 1 /\ lasted' = 0
    BY <1>2, <2>1 DEF MoveFailedProject, MoverWrites, SetSubject, Moved, BudgetInv, BudgetShapes
  <2>3. IsFiniteSet(subject'.failed) /\ Cardinality(subject'.failed) = Cardinality(subject.failed) + 1
    BY <2>1, <2>2, FS_AddElement DEF BudgetInv, BudgetShapes, MovesRecorded, HeldPhase
  <2>4. Cardinality(subject.failed) < Len(Backoff) /\ lasted >= Backoff[Cardinality(subject.failed) + 1]
    BY <1>1, <2>1 DEF BudgetInv, JudgedSound
  <2>5. BudgetShapes'
    BY <1>0, <1>1, <2>2, <2>3 DEF BudgetInv, BudgetShapes, Phase
  <2>6. MovesBounded' /\ MovesRecorded'
    BY <1>0, <2>2, <2>3, <2>4 DEF BudgetInv, MovesBounded, MovesRecorded, HeldPhase
  <2>7. JudgedSound' /\ StampWithinPhase'
    BY <1>1, <2>2 DEF JudgedSound, StampWithinPhase
  <2> QED
    BY <2>4, <2>5, <2>6, <2>7 DEF BudgetInv
<1>3. CASE ~(same /\ subject.stopped)
  <2>1. /\ DOMAIN subject' = DOMAIN subject /\ subject'.phase = subject.phase /\ subject'.gen = subject.gen
        /\ subject'.age = subject.age /\ subject'.failed = subject.failed /\ subject'.node = subject.node
        /\ lasted' = lasted /\ moves' = moves
    BY <1>3 DEF MoveFailedProject, MoverWrites, SetSubject, BudgetInv, BudgetShapes
  <2>2. BudgetShapes' /\ MovesBounded' /\ MovesRecorded' /\ StampWithinPhase'
    BY <1>1, <2>1 DEF BudgetInv, BudgetShapes, MovesBounded, MovesRecorded, StampWithinPhase
  <2>3. JudgedSound'
    BY <1>1 DEF JudgedSound
  <2> QED
    BY <1>0, <2>1, <2>2, <2>3 DEF BudgetInv
<1> QED
  BY <1>2, <1>3

\* Giving the moves back: by a late clear no less than by applying the Project again.
LEMMA ResetBudget ==
  ASSUME BudgetInv, moves' = 0, UNCHANGED lasted, mover' \in {mover, IdleMover},
         DOMAIN subject' = DOMAIN subject, subject'.phase = subject.phase, subject'.gen = subject.gen,
         subject'.age = subject.age, subject'.failed = {}
  PROVE  BudgetInv'
<1>0. /\ StableAfter \in Nat /\ Cardinality(subject.failed) \in Nat /\ Len(Backoff) \in Nat
      /\ IsFiniteSet(subject'.failed) /\ Cardinality(subject'.failed) = 0
  BY FailedBudgetConstants, FS_CardinalityType, FS_EmptySet DEF BudgetInv, BudgetShapes
<1>1. BudgetShapes' /\ MovesBounded' /\ MovesRecorded' /\ StampWithinPhase'
  BY <1>0 DEF BudgetInv, BudgetShapes, MovesBounded, MovesRecorded, StampWithinPhase, IdleMover
<1>2. JudgedSound'
  <2>1. CASE mover'.op = "move"
    <3>1. mover' = mover /\ mover.op = "move"
      BY <2>1 DEF IdleMover
    <3>2. Cardinality(subject.failed) < Len(Backoff)
      BY <3>1 DEF BudgetInv, JudgedSound
    <3>3. /\ Backoff[0 + 1] \in Nat /\ Backoff[Cardinality(subject.failed) + 1] \in Nat
          /\ Backoff[0 + 1] <= Backoff[Cardinality(subject.failed) + 1]
      <4>1. \A i, j \in Nat : (i <= j /\ j < Len(Backoff)) =>
              Backoff[i + 1] \in Nat /\ Backoff[j + 1] \in Nat /\ Backoff[i + 1] <= Backoff[j + 1]
        BY Waits
      <4>2. \A j \in Nat : j < Len(Backoff) =>
              Backoff[0 + 1] \in Nat /\ Backoff[j + 1] \in Nat /\ Backoff[0 + 1] <= Backoff[j + 1]
        <5> SUFFICES ASSUME NEW j \in Nat, j < Len(Backoff)
                     PROVE  Backoff[0 + 1] \in Nat /\ Backoff[j + 1] \in Nat /\ Backoff[0 + 1] <= Backoff[j + 1]
          OBVIOUS
        <5>1. 0 \in Nat /\ 0 <= j
          OBVIOUS
        <5> QED
          BY <4>1, <5>1, Zenon
      <4> QED
        BY <1>0, <3>2, <4>2
    <3>4. (subject.gen = mover.gen /\ subject.phase = "Failed") => lasted >= Backoff[0 + 1]
      BY <3>1, <3>3 DEF BudgetInv, BudgetShapes, JudgedSound
    <3> QED
      BY <1>0, <3>1, <3>2, <3>4 DEF BudgetInv, JudgedSound
  <2>2. CASE mover'.op # "move"
    BY <2>2 DEF JudgedSound
  <2> QED
    BY <2>1, <2>2
<1> QED
  BY <1>1, <1>2 DEF BudgetInv

LEMMA BudgetStep ==
  ASSUME BudgetInv, [BudgetNext]_budgetVars
  PROVE  /\ BudgetInv'
         /\ (moves' = moves + 1 /\ budgetVars' # budgetVars) =>
              lasted >= Backoff[Cardinality(subject.failed) + 1]
<1>0. moves \in Nat /\ ~(0 = moves + 1) /\ ~(moves = moves + 1)
  BY DEF BudgetInv, BudgetShapes
<1>1. CASE UNCHANGED budgetVars
  BY <1>1 DEF budgetVars, BudgetInv, BudgetShapes, MovesBounded, MovesRecorded, JudgedSound, StampWithinPhase
<1>2. CASE AgeingStep
  BY <1>0, <1>2, AgeingBudget DEF AgeingStep
<1>3. CASE GetProjectSnapshot
  BY <1>0, <1>3, SnapshotBudget DEF GetProjectSnapshot
<1>4. CASE MoveFailedProject
  BY <1>4, MoveBudget
<1>5. CASE ClearFailedNodes
  <2>1. moves' = 0 /\ mover' = IdleMover /\ lasted' = lasted
    BY <1>5 DEF ClearFailedNodes, MoverWrites, SetSubject, BudgetInv, BudgetShapes, JudgedSound
  <2>2. /\ DOMAIN subject' = DOMAIN subject /\ subject'.phase = subject.phase /\ subject'.gen = subject.gen
        /\ subject'.age = subject.age /\ subject'.failed = {}
    BY <1>5 DEF ClearFailedNodes, MoverWrites, SetSubject, BudgetInv, BudgetShapes
  <2> QED
    BY <1>0, <2>1, <2>2, ResetBudget
<1>6. CASE SetRescheduleExhausted
  <2>1. /\ DOMAIN subject' = DOMAIN subject /\ subject'.phase = subject.phase /\ subject'.gen = subject.gen
        /\ subject'.age = subject.age /\ subject'.failed = subject.failed /\ subject'.node = subject.node
        /\ lasted' = lasted /\ moves' = moves /\ mover' = IdleMover
    BY <1>6 DEF SetRescheduleExhausted, MoverWrites, SetSubject, BudgetInv, BudgetShapes
  <2> QED
    BY <1>0, <2>1 DEF BudgetInv, BudgetShapes, MovesBounded, MovesRecorded, JudgedSound, StampWithinPhase, IdleMover
<1>7. CASE MoverFails
  <2>1. UNCHANGED <<subject, lasted, moves>> /\ mover' = IdleMover
    BY <1>7 DEF MoverFails
  <2> QED
    BY <1>0, <2>1 DEF BudgetInv, BudgetShapes, MovesBounded, MovesRecorded, JudgedSound, StampWithinPhase, IdleMover
<1>8. ASSUME NEW n \in Node, SubjectAssigned(n)
      PROVE  BudgetInv' /\ moves' = moves
  <2> DEFINE s == [subject EXCEPT !.phase = "Scheduled", !.node = n, !.gen = @ + 1,
                                  !.reason = "none", !.age = 0, !.stopped = FALSE]
  <2>1. SubjectWrites(s)
    BY <1>8 DEF SubjectAssigned
  <2>2. /\ DOMAIN s = DOMAIN subject /\ s.phase = "Scheduled" /\ s.failed = subject.failed
        /\ s.gen = subject.gen + 1 /\ s.age = 0 /\ s.node = n /\ n \notin subject.failed
    BY <1>8 DEF SubjectAssigned, BudgetInv, BudgetShapes
  <2> HIDE DEF s
  <2>3. BudgetInv'
    BY <2>1, <2>2, QuietWrite DEF BudgetInv, BudgetShapes, Phase
  <2> QED
    BY <2>1, <2>3 DEF SubjectWrites
<1>9. ASSUME NEW ph \in {"Running", "Failed"}, NEW why \in Reason(ph), SubjectReported(ph, why)
      PROVE  BudgetInv' /\ moves' = moves
  <2> DEFINE s == [subject EXCEPT !.phase = ph, !.reason = why, !.age = 0]
  <2>1. SubjectWrites(s)
    BY <1>9 DEF SubjectReported
  <2>2. /\ DOMAIN s = DOMAIN subject /\ s.phase = ph /\ s.failed = subject.failed
        /\ s.gen = subject.gen /\ s.age = 0 /\ s.node = subject.node
    BY DEF BudgetInv, BudgetShapes
  <2>3. subject.phase \in HeldPhase /\ (subject.phase = "Failed" => ph = "Failed")
    BY <1>9, BudgetTransitions DEF SubjectReported
  <2> HIDE DEF s
  <2>4. BudgetInv'
    BY <2>1, <2>2, <2>3, QuietWrite DEF BudgetInv, BudgetShapes, MovesRecorded, Phase
  <2> QED
    BY <2>1, <2>4 DEF SubjectWrites
<1>10. CASE StopConfirmed
  <2> DEFINE s == [subject EXCEPT !.stopped = TRUE]
  <2>1. SubjectWrites(s)
    BY <1>10 DEF StopConfirmed
  <2>2. /\ DOMAIN s = DOMAIN subject /\ s.phase = subject.phase /\ s.failed = subject.failed
        /\ s.gen = subject.gen /\ s.age = subject.age /\ s.node = subject.node
    BY DEF BudgetInv, BudgetShapes
  <2> HIDE DEF s
  <2>3. BudgetInv'
    BY <2>1, <2>2, QuietWrite DEF BudgetInv, BudgetShapes, MovesRecorded
  <2> QED
    BY <1>0, <2>1, <2>3 DEF SubjectWrites
<1>11. CASE SubjectReleased
  <2> DEFINE s == [subject EXCEPT !.phase = "Pending", !.node = NoNode, !.reason = "none", !.age = 0,
                                  !.marked = FALSE]
  <2>1. SubjectWrites(s)
    BY <1>11 DEF SubjectReleased
  <2>2. /\ DOMAIN s = DOMAIN subject /\ s.phase = "Pending" /\ s.failed = subject.failed
        /\ s.gen = subject.gen /\ s.age = 0
    BY DEF BudgetInv, BudgetShapes
  <2> HIDE DEF s
  <2>3. BudgetInv'
    BY <2>1, <2>2, QuietWrite DEF BudgetInv, BudgetShapes, Phase, HeldPhase
  <2> QED
    BY <1>0, <2>1, <2>3 DEF SubjectWrites
<1>12. CASE SubjectDeleted
  <2> DEFINE s == [subject EXCEPT !.phase = "Terminating"]
  <2>1. SubjectWrites(s)
    BY <1>12 DEF SubjectDeleted
  <2>2. /\ DOMAIN s = DOMAIN subject /\ s.phase = "Terminating" /\ s.failed = subject.failed
        /\ s.gen = subject.gen /\ s.age = subject.age
    BY DEF BudgetInv, BudgetShapes
  <2> HIDE DEF s
  <2>3. BudgetInv'
    BY <2>1, <2>2, QuietWrite DEF BudgetInv, BudgetShapes, Phase, HeldPhase
  <2> QED
    BY <1>0, <2>1, <2>3 DEF SubjectWrites
<1>13. CASE SubjectApplied
  <2>1. moves' = 0 /\ mover' = mover /\ lasted' = lasted
    BY <1>13 DEF SubjectApplied
  <2>2. /\ DOMAIN subject' = DOMAIN subject /\ subject'.phase = subject.phase /\ subject'.gen = subject.gen
        /\ subject'.age = subject.age /\ subject'.failed = {}
    BY <1>13 DEF SubjectApplied, BudgetInv, BudgetShapes
  <2> QED
    BY <1>0, <2>1, <2>2, ResetBudget
<1> QED
  BY <1>0, <1>1, <1>2, <1>3, <1>4, <1>5, <1>6, <1>7, <1>8, <1>9, <1>10, <1>11, <1>12, <1>13
  DEF BudgetNext, MoverStep

\* The failed-Project rescheduler's bound holds for every backoff, and for any
\* number of Nodes, grants, applies and failed calls: whatever clear or apply is
\* written late, a Project is not moved more than maxReschedules times between
\* two times it proved stable or was applied.
THEOREM MovesAreBounded == BudgetSpec => []MovesBounded
<1>1. BudgetInv /\ [BudgetNext]_budgetVars => BudgetInv'
  BY BudgetStep
<1>2. BudgetInv => MovesBounded
  BY DEF BudgetInv
<1> QED
  BY <1>1, <1>2, BudgetInitially, PTL DEF BudgetSpec

\* Every move was preceded by the whole wait its FailedNodes ask for, spent in
\* Failed under the assignment that was judged, also when the Project was applied
\* or failed again for another reason between the judgement and the write.
THEOREM BackoffIsServed == BudgetSpec => BackoffServed
<1>1. BudgetInv /\ [BudgetNext]_budgetVars => BudgetInv'
  BY BudgetStep
<1>2. BudgetInv /\ [BudgetNext]_budgetVars =>
        [moves' = moves + 1 => lasted >= Backoff[Cardinality(subject.failed) + 1]]_budgetVars
  BY BudgetStep
<1> QED
  BY <1>1, <1>2, BudgetInitially, PTL DEF BudgetSpec, BackoffServed

------------------------------------------------------------------------------
(* The scheduler's queue and its placement decision.                       *)

PlacedShape(r) ==
  /\ DOMAIN r = DOMAIN Absent
  /\ r.phase \in Phase \union {"Absent"}

SchedShapes ==
  /\ DOMAIN placed = Project
  /\ \A p \in Project : PlacedShape(placed[p])
  /\ DOMAIN worker = DOMAIN IdleWorker
  /\ events \in Seq(Project) /\ dirty \subseteq Project /\ timers \subseteq Project
  /\ notify \in BOOLEAN

Deciding == {"nodes", "placement", "filter"}

\* From the look at the phase on, the Project is Pending, or going, or gone and
\* perhaps created again; and what it failed on is known to the worker.
WorkerSound ==
  /\ worker.pc \notin {"idle", "awake", "ended"} => worker.name \in Project
  /\ worker.pc \in Deciding => placed[worker.name].phase \in {"Pending", "Terminating", "Absent"}
  /\ (worker.pc = "filter" /\ placed[worker.name].phase = "Pending") =>
       placed[worker.name].failed \subseteq worker.excluded
  /\ worker.pc # "filter" => DOMAIN worker.used = {}
  /\ DOMAIN worker.used \intersect worker.excluded = {}

SchedInv == SchedShapes /\ WorkerSound /\ NoLostWakeup

LEMMA SchedInitially == SchedInit => SchedInv
<1> SUFFICES ASSUME SchedInit
             PROVE  SchedInv
  OBVIOUS
<1>0. \A p \in Project : PlacedShape(placed[p])
  BY DEF SchedInit, PlacedShape, Absent
<1>1. SchedShapes
  <2>1. <<>> \in Seq(Project)
    OBVIOUS
  <2>2. DOMAIN placed = Project
    BY DEF SchedInit
  <2> QED
    BY <1>0, <2>1, <2>2 DEF SchedInit, SchedShapes
<1>2. DOMAIN worker.used = {} /\ worker.pc = "idle"
  BY DEF SchedInit, IdleWorker
<1>3. WorkerSound
  BY <1>2 DEF WorkerSound, Deciding
<1>4. NoLostWakeup
  BY DEF SchedInit, NoLostWakeup
<1> QED
  BY <1>1, <1>3, <1>4 DEF SchedInv

\* A worker that has dropped its key holds nothing.
LEMMA IdleSound ==
  ASSUME worker' = IdleWorker
  PROVE  WorkerSound' /\ DOMAIN worker' = DOMAIN IdleWorker /\ worker'.pc = "idle"
  BY DEF WorkerSound, IdleWorker, Deciding

\* Steps that touch only the queue.
LEMMA QueueStep ==
  ASSUME SchedInv, NEW names \in SUBSET Project, Enqueue(names),
         UNCHANGED <<placed, worker>>, events' \in Seq(Project), timers' \subseteq Project
  PROVE  SchedInv'
<1>1. SchedShapes'
  BY DEF SchedInv, SchedShapes, Enqueue
<1>2. WorkerSound'
  BY DEF SchedInv, WorkerSound
<1>3. NoLostWakeup'
  BY DEF SchedInv, NoLostWakeup, Enqueue
<1> QED
  BY <1>1, <1>2, <1>3 DEF SchedInv

\* The worker gives its key up or goes on; the queue is as it was.
LEMMA WorkerStep ==
  ASSUME SchedInv, UNCHANGED <<dirty, notify>>, worker.pc # "awake",
         SchedShapes', WorkerSound'
  PROVE  SchedInv'
  BY DEF SchedInv, NoLostWakeup

LEMMA RetryStep ==
  ASSUME SchedInv, Retries, Reconciling
  PROVE  SchedInv'
<1>1. SchedShapes' /\ WorkerSound'
  BY IdleSound DEF Retries, SchedInv, SchedShapes, WorkerSound, Reconciling
<1> QED
  BY <1>1, WorkerStep DEF Retries, Reconciling

\* Another writer of one Project: it leaves the queue alone, and what it does to a
\* Project about to be placed is to end it, to begin it, or to forgive failures.
LEMMA OtherStep ==
  ASSUME SchedInv, NEW p \in Project, NEW r, PlacedShape(r), placed' = [placed EXCEPT ![p] = r],
         UNCHANGED <<dirty, notify, worker, timers>>, events' \in Seq(Project),
         placed[p].phase \in {"Pending", "Terminating", "Absent"} =>
            /\ r.phase \in {"Pending", "Terminating", "Absent"}
            /\ r.phase = "Pending" => r.failed = {} \/ (placed[p].phase = "Pending" /\ r.failed = placed[p].failed)
  PROVE  SchedInv'
<1>1. SchedShapes'
  BY DEF SchedInv, SchedShapes
<1>2. WorkerSound'
  <2>1. CASE worker.pc \in Deciding /\ worker.name = p
    BY <2>1 DEF SchedInv, SchedShapes, WorkerSound, Deciding
  <2>2. CASE ~(worker.pc \in Deciding /\ worker.name = p)
    BY <2>2 DEF SchedInv, SchedShapes, WorkerSound, Deciding
  <2> QED
    BY <2>1, <2>2
<1>3. NoLostWakeup'
  BY DEF SchedInv, NoLostWakeup
<1> QED
  BY <1>1, <1>2, <1>3 DEF SchedInv

LEMMA SchedStep == SchedInv /\ [SchedNext]_schedVars => SchedInv'
<1> SUFFICES ASSUME SchedInv, [SchedNext]_schedVars
             PROVE  SchedInv'
  OBVIOUS
<1>0. SchedShapes /\ WorkerSound
  BY DEF SchedInv
<1>1. CASE SeedReceives
  <2>1. Head(events) \in Project /\ Tail(events) \in Seq(Project)
    BY <1>0, <1>1 DEF SeedReceives, SchedShapes
  <2> QED
    BY <1>0, <1>1, <2>1, QueueStep DEF SeedReceives, SchedShapes
<1>2. CASE ResyncPending
  BY <1>0, <1>2, QueueStep DEF ResyncPending, SchedShapes
<1>3. ASSUME NEW p \in Project, TimerFires(p)
      PROVE  SchedInv'
  BY <1>0, <1>3, QueueStep DEF TimerFires, SchedShapes
<1>4. CASE GetSignal
  BY <1>4 DEF GetSignal, SchedInv, SchedShapes, WorkerSound, NoLostWakeup, IdleWorker, Deciding
<1>5. ASSUME NEW p \in Project, GetPop(p)
      PROVE  SchedInv'
  <2>1. /\ DOMAIN worker' = DOMAIN IdleWorker /\ worker'.pc = "phase" /\ worker'.name = p
        /\ DOMAIN worker'.used = {} /\ worker'.excluded = {}
    BY <1>5 DEF GetPop, IdleWorker
  <2>2. SchedShapes'
    BY <1>0, <1>5, <2>1 DEF GetPop, SchedShapes
  <2>3. WorkerSound'
    BY <2>1 DEF WorkerSound, Deciding
  <2>4. NoLostWakeup'
    BY <1>5 DEF GetPop, NoLostWakeup
  <2> QED
    BY <2>2, <2>3, <2>4 DEF SchedInv
<1>6. CASE GetProjectPhase
  BY <1>0, <1>6, IdleSound, WorkerStep
     DEF GetProjectPhase, Reads, SchedShapes, WorkerSound, IdleWorker, Deciding
<1>7. CASE ListReadyNodes
  <2>1. CASE Retries
    BY <1>7, <2>1, RetryStep DEF ListReadyNodes, Reconciling
  <2>2. CASE Reads([worker EXCEPT !.pc = "placement", !.nodes = [n \in ReadyNodes |-> offers[n]]])
    BY <1>0, <1>7, <2>2, WorkerStep DEF ListReadyNodes, Reads, SchedShapes, WorkerSound, IdleWorker, Deciding
  <2> QED
    BY <1>7, <2>1, <2>2 DEF ListReadyNodes
<1>8. CASE GetProjectPlacement
  <2>1. CASE placed[worker.name].phase = "Absent"
    BY <1>0, <1>8, <2>1, IdleSound, WorkerStep DEF GetProjectPlacement, Reads, SchedShapes
  <2>2. CASE placed[worker.name].phase # "Absent"
    <3>1. /\ DOMAIN worker' = DOMAIN IdleWorker /\ worker'.pc = "filter" /\ worker'.name = worker.name
          /\ worker'.excluded = placed[worker.name].failed \union placed[worker.name].owing
          /\ worker'.used = worker.used
      BY <1>0, <1>8, <2>2 DEF GetProjectPlacement, Reads, SchedShapes, IdleWorker
    <3> QED
      BY <1>0, <1>8, <3>1, WorkerStep DEF GetProjectPlacement, Reads, SchedShapes, WorkerSound, Deciding
  <2> QED
    BY <2>1, <2>2
<1>9. ASSUME NEW n \in Node, CheckNode(n)
      PROVE  SchedInv'
  <2>1. /\ DOMAIN worker' = DOMAIN IdleWorker /\ worker'.pc = worker.pc /\ worker'.name = worker.name
        /\ worker'.excluded = worker.excluded
        /\ \/ worker'.used = worker.used
           \/ n \notin worker.excluded /\ DOMAIN worker'.used = DOMAIN worker.used \union {n}
    BY <1>0, <1>9 DEF CheckNode, Eligible, Reads, SchedShapes, IdleWorker
  <2> QED
    BY <1>0, <1>9, <2>1, WorkerStep DEF CheckNode, Reads, SchedShapes, WorkerSound
<1>10. CASE NoCandidate \/ ReconcileFails
  BY <1>10, RetryStep DEF NoCandidate, ReconcileFails, Reconciling
<1>22. CASE WorkerEnds
  <2>1. /\ DOMAIN worker' = DOMAIN IdleWorker /\ worker'.pc = "ended" /\ DOMAIN worker'.used = {}
        /\ worker.pc # "awake"
    BY <1>22 DEF WorkerEnds, IdleWorker, Reconciling
  <2>2. SchedShapes' /\ WorkerSound'
    BY <1>0, <1>22, <2>1 DEF WorkerEnds, SchedShapes, WorkerSound, Deciding
  <2> QED
    BY <1>22, <2>1, <2>2, WorkerStep DEF WorkerEnds
<1>11. ASSUME NEW n \in Node, SetProjectScheduled(n)
       PROVE  SchedInv'
  <2>1. CASE Retries
    BY <1>11, <2>1, RetryStep DEF SetProjectScheduled, Reconciling
  <2>2. CASE worker' = IdleWorker /\ UNCHANGED <<dirty, notify, timers, events>>
    <3>1. worker.name \in Project
      BY <1>0, <1>11 DEF SetProjectScheduled, WorkerSound
    <3>2. \/ placed' = placed
          \/ placed' = [placed EXCEPT ![worker.name].phase = "Scheduled", ![worker.name].node = n]
          \/ Retries
      BY <1>11 DEF SetProjectScheduled
    <3>3. SchedShapes'
      BY <1>0, <2>1, <2>2, <3>1, <3>2, IdleSound DEF SchedShapes, PlacedShape, Absent, Phase, SchedInv
    <3> QED
      BY <1>11, <2>2, <3>3, IdleSound, WorkerStep DEF SetProjectScheduled
  <2> QED
    BY <1>11, <2>1, <2>2 DEF SetProjectScheduled
<1>12. ASSUME NEW p \in Project, NEW s \in Sizes, CreateProject(p, s)
       PROVE  SchedInv'
  <2> DEFINE r == [Absent EXCEPT !.phase = "Pending", !.size = s]
  <2>1. PlacedShape(r) /\ r.phase = "Pending" /\ r.failed = {}
    BY DEF PlacedShape, Absent, Phase
  <2>2. events' \in Seq(Project)
    BY <1>0, <1>12 DEF CreateProject, Publish, SchedShapes
  <2> HIDE DEF r
  <2>3. placed' = [placed EXCEPT ![p] = r]
    BY <1>12 DEF CreateProject, r
  <2> QED
    BY <1>12, <2>1, <2>2, <2>3, OtherStep DEF CreateProject
<1>13. ASSUME NEW p \in Project, NEW r, Updates(p, r), PlacedShape(r),
              placed[p].phase \in {"Pending", "Terminating", "Absent"} =>
                 /\ r.phase \in {"Pending", "Terminating", "Absent"}
                 /\ r.phase = "Pending" => r.failed = {} \/ (placed[p].phase = "Pending" /\ r.failed = placed[p].failed)
       PROVE  SchedInv'
  BY <1>0, <1>13, OtherStep DEF Updates, SchedShapes
<1>14. ASSUME NEW p \in Project, NEW s \in Sizes, UpdateProjectSpec(p, s)
       PROVE  SchedInv'
  <2>1. PlacedShape([placed[p] EXCEPT !.size = s, !.failed = {}])
    BY <1>0 DEF SchedShapes, PlacedShape, Absent
  <2> QED
    BY <1>0, <1>13, <1>14, <2>1 DEF UpdateProjectSpec, SchedShapes, PlacedShape, Absent
<1>15. ASSUME NEW p \in Project, NEW ph \in {"Running", "Failed"}, AgentReported(p, ph)
       PROVE  SchedInv'
  <2>1. PlacedShape([placed[p] EXCEPT !.phase = ph])
    BY <1>0 DEF SchedShapes, PlacedShape, Absent, Phase
  <2>2. placed[p].phase \notin {"Pending", "Terminating", "Absent"}
    BY <1>15 DEF AgentReported, PhaseTransitionAllowed, phaseTransitions
  <2> QED
    BY <1>13, <1>15, <2>1, <2>2 DEF AgentReported
<1>16. ASSUME NEW p \in Project, NEW failed \in BOOLEAN, NEW permits \in BOOLEAN,
              AssignmentReleased(p, failed, permits)
       PROVE  SchedInv'
  <2> DEFINE r == [placed[p] EXCEPT !.phase = "Pending", !.node = NoNode,
                     !.owing = @ \union {placed[p].node},
                     !.blocking = IF permits THEN @ ELSE @ \union {placed[p].node},
                     !.failed = IF failed THEN @ \union {placed[p].node} ELSE @]
  <2>1. PlacedShape(r)
    BY <1>0 DEF SchedShapes, PlacedShape, Absent, Phase
  <2>2. placed' = [placed EXCEPT ![p] = r]
    BY <1>16 DEF AssignmentReleased
  <2>3. placed[p].phase \notin {"Pending", "Terminating", "Absent"}
    BY <1>16 DEF AssignmentReleased
  <2> QED
    BY <1>0, <1>16, <2>1, <2>2, <2>3, OtherStep DEF AssignmentReleased, SchedShapes
<1>17. ASSUME NEW p \in Project, NEW n \in Node, ResourcesReported(p, n)
       PROVE  SchedInv'
  <2>1. PlacedShape([placed[p] EXCEPT !.owing = @ \ {n}, !.blocking = @ \ {n}])
    BY <1>0 DEF SchedShapes, PlacedShape, Absent
  <2> QED
    BY <1>0, <1>13, <1>17, <2>1 DEF ResourcesReported, SchedShapes, PlacedShape, Absent
<1>23. ASSUME NEW p \in Project, NEW n \in Node, AssignmentPermitted(p, n)
       PROVE  SchedInv'
  <2>1. PlacedShape([placed[p] EXCEPT !.blocking = @ \ {n}])
    BY <1>0 DEF SchedShapes, PlacedShape, Absent
  <2> QED
    BY <1>0, <1>13, <1>23, <2>1 DEF AssignmentPermitted, SchedShapes, PlacedShape, Absent
<1>18. ASSUME NEW p \in Project, MarkedForDeletion(p)
       PROVE  SchedInv'
  <2>1. /\ PlacedShape([placed[p] EXCEPT !.phase = "Terminating"])
        /\ [placed[p] EXCEPT !.phase = "Terminating"].phase = "Terminating"
    BY <1>0 DEF SchedShapes, PlacedShape, Absent, Phase
  <2> QED
    BY <1>13, <1>18, <2>1 DEF MarkedForDeletion
<1>19. ASSUME NEW p \in Project, ProjectRemoved(p)
       PROVE  SchedInv'
  <2>1. PlacedShape(Absent) /\ Absent.phase = "Absent"
    BY DEF PlacedShape, Absent
  <2> QED
    BY <1>13, <1>19, <2>1 DEF ProjectRemoved
<1>20. ASSUME NEW n \in Node, NEW offer \in Offer, NodeReports(n, offer)
       PROVE  SchedInv'
  BY <1>20 DEF NodeReports, SchedInv, SchedShapes, WorkerSound, NoLostWakeup
<1>21. CASE UNCHANGED schedVars
  BY <1>21 DEF schedVars, SchedInv, SchedShapes, WorkerSound, NoLostWakeup
<1> QED
  BY <1>1, <1>2, <1>3, <1>4, <1>5, <1>6, <1>7, <1>8, <1>9, <1>10, <1>11, <1>12, <1>14, <1>15, <1>16,
     <1>17, <1>18, <1>19, <1>20, <1>21, <1>22, <1>23 DEF SchedNext, ReconcileStep

\* A key that waits in the work queue is announced or about to be taken, whatever
\* the order of Enqueue, the signal and the pop: workQueue loses no wake-up.
THEOREM WakeupsAreKept == SchedSpec => []NoLostWakeup
<1>1. SchedInv => NoLostWakeup
  BY DEF SchedInv
<1> QED
  BY <1>1, SchedInitially, SchedStep, PTL DEF SchedSpec

\* Only SetProjectScheduled binds, and it binds the worker's Project to a Node that
\* is not among those excluded.
LEMMA BindStep ==
  ASSUME SchedInv, [SchedNext]_schedVars, NEW n \in Node, Binds(n)
  PROVE  n \notin placed[worker.name].failed
<1> PICK p \in Project : placed[p].phase = "Pending" /\ placed'[p].phase = "Scheduled" /\ placed'[p].node = n
  BY DEF Binds
<1>0. SchedShapes /\ WorkerSound
  BY DEF SchedInv
<1>1. ASSUME NEW m \in Node, SetProjectScheduled(m)
      PROVE  n \notin placed[worker.name].failed
  <2>1. /\ worker.name \in Project /\ worker.pc = "filter" /\ m \in DOMAIN worker.used
        /\ placed' = [placed EXCEPT ![worker.name].phase = "Scheduled", ![worker.name].node = m]
        /\ placed[worker.name].phase = "Pending"
    BY <1>0, <1>1 DEF SetProjectScheduled, MayBeAssigned, Best, WorkerSound, Retries
  <2>2. p = worker.name /\ m = n
    BY <1>0, <2>1 DEF SchedShapes, PlacedShape, Absent
  <2> QED
    BY <1>0, <2>1, <2>2 DEF WorkerSound
<1>2. ASSUME NEW q \in Project, NEW s \in Sizes, CreateProject(q, s) \/ UpdateProjectSpec(q, s)
      PROVE  FALSE
  BY <1>0, <1>2 DEF CreateProject, UpdateProjectSpec, Updates, SchedShapes, PlacedShape, Absent
<1>3. ASSUME NEW q \in Project, NEW ph \in {"Running", "Failed"}, AgentReported(q, ph)
      PROVE  FALSE
  BY <1>0, <1>3 DEF AgentReported, Updates, SchedShapes, PlacedShape, Absent
<1>4. ASSUME NEW q \in Project, NEW failed \in BOOLEAN, NEW permits \in BOOLEAN,
             AssignmentReleased(q, failed, permits)
      PROVE  FALSE
  BY <1>0, <1>4 DEF AssignmentReleased, SchedShapes, PlacedShape, Absent
<1>5. ASSUME NEW q \in Project, NEW m \in Node, AssignmentPermitted(q, m) \/ ResourcesReported(q, m)
      PROVE  FALSE
  <2>1. ASSUME NEW r, Updates(q, r), r.phase = placed[q].phase
        PROVE  FALSE
    BY <1>0, <2>1 DEF Updates, SchedShapes
  <2>2. /\ [placed[q] EXCEPT !.blocking = @ \ {m}].phase = placed[q].phase
        /\ [placed[q] EXCEPT !.owing = @ \ {m}, !.blocking = @ \ {m}].phase = placed[q].phase
    BY <1>0 DEF SchedShapes, PlacedShape, Absent
  <2> QED
    BY <1>5, <2>1, <2>2 DEF AssignmentPermitted, ResourcesReported
<1>6. ASSUME NEW q \in Project, MarkedForDeletion(q) \/ ProjectRemoved(q)
      PROVE  FALSE
  BY <1>0, <1>6 DEF MarkedForDeletion, ProjectRemoved, Updates, SchedShapes, PlacedShape, Absent
<1>7. CASE UNCHANGED placed
  BY <1>7
<1> QED
  BY <1>1, <1>2, <1>3, <1>4, <1>5, <1>6, <1>7
     DEF SchedNext, schedVars, SeedReceives, ResyncPending, ReconcileStep, ReconcileFails, WorkerEnds, GetSignal,
         GetProjectPhase, ListReadyNodes, GetProjectPlacement, CheckNode, NoCandidate, Retries, Reads,
         TimerFires, GetPop, NodeReports

\* A Project is never bound again to a Node it failed on and was moved off, although
\* FailedNodes is read several queries before the commit, which does not look at it.
THEOREM FailedNodesAvoided == SchedSpec => NeverBackToFailed
<1>1. SchedInv /\ [SchedNext]_schedVars =>
        [\A n \in Node : Binds(n) => n \notin placed[worker.name].failed]_schedVars
  BY BindStep
<1> QED
  BY <1>1, SchedInitially, SchedStep, PTL DEF SchedSpec, NeverBackToFailed
==============================================================================
