--------------------------- MODULE MCPostgresBackup ---------------------------
(***************************************************************************)
(* An instance of PostgresBackup for TLC: two runs, two lines of the log   *)
(* and one thing that goes wrong.                                          *)
(***************************************************************************)
EXTENDS PostgresBackup

MCPgLimits == {[lines |-> 2, runs |-> 2, moves |-> 0, faults |-> 1]}
==============================================================================
