----------------------------- MODULE MCComponents -----------------------------
(***************************************************************************)
(* Small instances of the components whose safety is checked on their own: *)
(* the scheduler, offline backups, the restore of volumes, the repo host   *)
(* and database backups.  A behaviour is of one of them, chosen at the     *)
(* start; the others stay as they began.                                   *)
(***************************************************************************)
EXTENDS Scheduling, BackupRun, VolumeRestore, RepoHost, PostgresBackup, TLC

CONSTANTS n1, n2, p1, p2, v1, v2

MCNode == {n1, n2}

MCProject == {p1, p2}
MCPrimary == MCNode
MCSizes == {1}
Room(k) == [ready |-> TRUE, pressure |-> FALSE, alloc |-> k]
MCOffer == {Room(1), [Room(1) EXCEPT !.ready = FALSE],
            [ready |-> TRUE, pressure |-> TRUE, alloc |-> NotReported]}
MCInitialOffer == [n \in MCNode |-> Room(1)]
Allow(nodes, creates, releases, faults) ==
  [nodes |-> nodes, creates |-> creates, releases |-> releases, faults |-> faults]
MCBudget == {Allow(1, 2, 0, 0), Allow(0, 2, 1, 0), Allow(0, 1, 2, 1)}

MCLimits == {[runs |-> 4, grants |-> 2, uids |-> 1], [runs |-> 3, grants |-> 1, uids |-> 2]}

MCMount == {v1, v2}
Place(grants, uids, moments, restarts, strays, objectStore) ==
  [grants |-> grants, uids |-> uids, moments |-> moments, restarts |-> restarts,
   strays |-> strays, objectStore |-> objectStore]
MCRestoreLimits == {Place(3, 1, 3, 2, 0, TRUE), Place(3, 1, 2, 0, 1, TRUE), Place(1, 2, 2, 1, 1, TRUE),
                    Place(2, 1, 2, 1, 2, FALSE)}

\* Two lifetimes of one Project, which share its network, and one of another.
MCLifetime == {"a1", "a2", "b"}
MCNetworkOf == [u \in MCLifetime |-> IF u = "b" THEN "nb" ELSE "na"]
Host(calls, failures, exits, deaths) ==
  [calls |-> calls, failures |-> failures, exits |-> exits, deaths |-> deaths]
MCHostLimits == {Host(3, 2, 1, 0), Host(4, 0, 1, 1), Host(3, 1, 1, 1)}

Pg(lines, runs, moves, faults) ==
  [lines |-> lines, runs |-> runs, moves |-> moves, faults |-> faults]
MCPgLimits == {Pg(2, 3, 0, 2), Pg(1, 2, 1, 2), Pg(0, 4, 0, 3), Pg(2, 2, 0, 3)}

VARIABLE focus

ComponentsInit ==
  /\ focus \in {"scheduling", "backup", "restore", "repohost", "postgres"}
  /\ SchedInit /\ (focus # "scheduling" => left = CHOOSE l \in Budget : TRUE)
  /\ BackupInit /\ (focus # "backup" => limit = CHOOSE l \in Limits : TRUE)
  /\ RestoreInit /\ (focus # "restore" => spare = CHOOSE l \in RestoreLimits : TRUE)
  /\ HostInit /\ (focus # "repohost" => hostLeft = CHOOSE l \in HostLimits : TRUE)
  /\ PgInit /\ (focus # "postgres" => pgLeft.lines = 0)

ComponentsNext ==
  /\ UNCHANGED focus
  /\ IF focus = "scheduling" THEN SchedNext ELSE UNCHANGED schedVars
  /\ IF focus = "backup" THEN BackupNext ELSE UNCHANGED backupVars
  /\ IF focus = "restore" THEN RestoreNext ELSE UNCHANGED restoreVars
  /\ IF focus = "repohost" THEN HostNext ELSE UNCHANGED hostVars
  /\ IF focus = "postgres" THEN PgNext ELSE UNCHANGED pgVars

ComponentsSpec ==
  ComponentsInit
    /\ [][ComponentsNext]_<<focus, schedVars, backupVars, restoreVars, hostVars, pgVars>>

\* Nodes (all of one tier here), Projects and volumes are interchangeable.
Symmetry == Permutations(MCNode) \union Permutations(MCProject) \union Permutations(MCMount)
================================================================================
