----------------------------- MODULE MCConvergence -----------------------------
(***************************************************************************)
(* Small instances of the three components that must make progress: the    *)
(* scheduler, the Failed-Project rescheduler, and one Agent's operations   *)
(* on its containers.  A behaviour is of one of them, chosen at the start. *)
(***************************************************************************)
EXTENDS Scheduling, FailedBudget, NodeOperations

CONSTANTS n1, n2, n3, p1, p2, web, db

MCNode == {n1, n2, n3}

\* One Node of the primary tier, one of another, and one that is not Ready at first.
MCProject == {p1, p2}
MCPrimary == {n1}
MCSizes == {1}
Room(k) == [ready |-> TRUE, pressure |-> FALSE, alloc |-> k]
MCOffer == {Room(1), [Room(1) EXCEPT !.ready = FALSE],
            [ready |-> TRUE, pressure |-> TRUE, alloc |-> NotReported]}
MCInitialOffer == [n \in MCNode |-> [Room(1) EXCEPT !.ready = (n # n3)]]
Allow(nodes, creates, releases, faults) ==
  [nodes |-> nodes, creates |-> creates, releases |-> releases, faults |-> faults]
MCBudget == {Allow(1, 1, 1, 0), Allow(0, 2, 0, 1), Allow(0, 1, 2, 1)}

MCBackoff == <<1, 2>>

\* The second revision changes web and adds db, the third drops db.
MCManifest == << [s \in {web, db} |-> IF s = web THEN 1 ELSE 0],
                 [s \in {web, db} |-> IF s = web THEN 2 ELSE 1],
                 [s \in {web, db} |-> IF s = web THEN 2 ELSE 0] >>
Op(faults, backups, restarts, revisions) ==
  [faults |-> faults, backups |-> backups, restarts |-> restarts, revisions |-> revisions]
MCOpLimits == {Op(1, 1, 1, 2), Op(0, 2, 1, 3), Op(2, 1, 0, 1), Op(3, 0, 0, 2)}

VARIABLE focus

ConvergenceInit ==
  /\ focus \in {"scheduling", "budget", "operations"}
  /\ SchedInit /\ (focus # "scheduling" => left = CHOOSE b \in Budget : TRUE)
  /\ BudgetInit
  /\ OpInit /\ (focus # "operations" => opLeft.faults = 0)

ConvergenceNext ==
  /\ UNCHANGED focus
  /\ \/ focus = "scheduling" /\ SchedNext /\ UNCHANGED <<budgetVars, opVars>>
     \/ focus = "budget" /\ BudgetNext /\ UNCHANGED <<schedVars, opVars>>
     \/ focus = "operations" /\ OpNext /\ UNCHANGED <<schedVars, budgetVars>>

\* The fairness of each component, in the behaviours that are about it.
ConvergenceFairness ==
  /\ WF_schedVars(focus = "scheduling" /\ SeedReceives)
  /\ WF_schedVars(focus = "scheduling" /\ ResyncPending)
  /\ WF_schedVars(focus = "scheduling" /\ ReconcileStep)
  /\ \A p \in Project : /\ WF_schedVars(focus = "scheduling" /\ TimerFires(p))
                        /\ SF_schedVars(focus = "scheduling" /\ GetPop(p))
  /\ WF_budgetVars(focus = "budget" /\ AgeingStep)
  /\ WF_budgetVars(focus = "budget" /\ MoverStep)
  /\ WF_opVars(focus = "operations" /\ PollStep)
  /\ WF_opVars(focus = "operations" /\ BackupStep)
  /\ WF_opVars(focus = "operations" /\ TimePasses)
  /\ WF_opVars(focus = "operations" /\ MaintenanceExpires)

ConvergenceSpec ==
  ConvergenceInit /\ [][ConvergenceNext]_<<schedVars, budgetVars, opVars, focus>> /\ ConvergenceFairness
================================================================================
