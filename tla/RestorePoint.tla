----------------------------- MODULE RestorePoint -----------------------------
(***************************************************************************)
(* What Managed volume backups promise, without Nodes, uploads or pruning: *)
(* a lifetime of a Project has at most one restore point, it is always a   *)
(* complete generation of that lifetime, and only other generations are    *)
(* ever given up.  BackupRun implements it.                                *)
(***************************************************************************)
EXTENDS Naturals

VARIABLES
  vault,    \* the generations that could be restored, with the lifetime of each
  point,    \* the restore point: the backup ID, or 0 for none
  lifetime  \* the Project's current lifetime

CONSTANTS BackupID, UID

PointIsWhole == point # 0 => [id |-> point, uid |-> lifetime] \in vault

PointInit == vault = {} /\ point = 0 /\ lifetime \in UID

\* A generation is written completely.
Complete(g) ==
  /\ g \notin vault
  /\ vault' = vault \union {g}
  /\ UNCHANGED <<point, lifetime>>

\* The restore point moves, to a complete generation of this lifetime.
Commit(id) ==
  /\ [id |-> id, uid |-> lifetime] \in vault
  /\ point' = id
  /\ UNCHANGED <<vault, lifetime>>

\* A generation other than the restore point is given up.
Forget(g) ==
  /\ g # [id |-> point, uid |-> lifetime]
  /\ vault' = vault \ {g}
  /\ UNCHANGED <<point, lifetime>>

\* The name gets another lifetime, with no restore point.
Recreate(u) ==
  /\ u # lifetime
  /\ lifetime' = u /\ point' = 0
  /\ UNCHANGED vault

pointVars == <<vault, point, lifetime>>

PointNext ==
  /\ pointVars' # pointVars
  /\ \/ \E g \in [id: BackupID, uid: UID] : Complete(g) \/ Forget(g)
     \/ \E id \in BackupID : Commit(id)
     \/ \E u \in UID : Recreate(u)

PointSpec == PointInit /\ [][PointNext]_pointVars
==============================================================================
