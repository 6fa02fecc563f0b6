------------------------------- MODULE BackupRun -------------------------------
(***************************************************************************)
(* Offline backups of one Project name by several Nodes: the Supervisor's  *)
(* entry, the Runner from its claim to its commit, and the pruning of old  *)
(* generations, against an object store shared by all Nodes and by every   *)
(* lifetime of the name.  A Node that lost the assignment goes on until    *)
(* the server refuses it.  Stopping and restarting the containers is the   *)
(* subject of NodeOperations; here a run passes through it.                *)
(*                                                                         *)
(* Backup IDs begin with the Node's clock.  The Nodes' clocks are taken to *)
(* agree, so that IDs are ordered as the runs began.                       *)
(***************************************************************************)
EXTENDS ProjectRecord, Integers, FiniteSets, FiniteSetsExt

CONSTANTS Volumes,        \* how many Offline Managed volumes the Project has
          Retain,         \* RetainGenerations
          Limits          \* bounds, each a choice of how many runs, assignments of a lifetime
                          \* and lifetimes a behaviour has

ASSUME BackupConstants ==
  /\ {Retain, Volumes} \subseteq Nat \ {0}
  /\ Limits \subseteq [runs: Nat, grants: Nat, uids: Nat \ {0}]

VARIABLES
  record,  \* the server's record: lifetime, assignment, phase, committed backup
  bucket,  \* per backup ID: the lifetime its manifest names (0: no manifest) and its archives
  entry,   \* per Node: the Project as the Supervisor last saw it
  run,     \* per Node: the Runner
  lateCommits, \* commits whose caller has given up on them
  issued,  \* backup IDs issued so far
  limit    \* the behaviour's bounds

backupVars == <<record, bucket, entry, run, lateCommits, issued, limit>>

Volume == 1..Volumes
ID == UNION {1..l.runs : l \in Limits}
Gone == [uid |-> 0, gen |-> 0]
NoObjects == [manifest |-> 0, whole |-> {}, short |-> {}]
IdleRun == [pc |-> "idle", of |-> Gone, id |-> 0, doomed |-> {}]

BackupInit ==
  /\ record = [uid |-> 1, node |-> NoNode, gen |-> 0, terminating |-> FALSE, committed |-> 0]
  /\ bucket = [i \in ID |-> NoObjects]
  /\ entry = [n \in Node |-> Gone]
  /\ run = [n \in Node |-> IdleRun]
  /\ lateCommits = {} /\ issued = 0 /\ limit \in Limits

Assignment == [uid |-> record.uid, gen |-> record.gen]

\* assignmentFenceWHERE.
Fenced(n, of) == record.node = n /\ Assignment = of

------------------------------------------------------------------------------
(* The Supervisor and the Runner.                                          *)

\* Sync with a fresh listing; an entry that is not ours any more is cancelled.
Sync(n) ==
  /\ entry' = [entry EXCEPT ![n] = IF record.node = n /\ ~record.terminating THEN Assignment ELSE Gone]
  /\ entry' # entry
  /\ UNCHANGED <<record, bucket, run, lateCommits, issued, limit>>

Goes(n, pc) == run' = [run EXCEPT ![n].pc = pc]

\* Run returns: its deferred steps put the service back and release the claim.
Returns(n) == run' = [run EXCEPT ![n] = IdleRun]

\* The timer fires; the run claims the Project and takes an ID.  A commit given
\* up on does not outlast the interval between two runs, and a prune does not
\* outlast Retain of them.
Begin(n) ==
  /\ run[n].pc = "idle" /\ entry[n] # Gone /\ issued < limit.runs
  /\ \A m \in Node : run[m].pc \in {"prune", "delete"} => issued - run[m].id < Retain
  /\ issued' = issued + 1
  /\ run' = [run EXCEPT ![n] = [IdleRun EXCEPT !.pc = "claimed", !.of = entry[n], !.id = issued']]
  /\ lateCommits' = {c \in lateCommits : c.node # n}
  /\ UNCHANGED <<record, bucket, entry, limit>>

\* A server that does not accept the condition would not accept the commit.
SetMaintenance(n) ==
  /\ run[n].pc = "claimed"
  /\ IF Fenced(n, run[n].of) THEN Goes(n, "capture") ELSE Returns(n)
  /\ UNCHANGED <<record, bucket, entry, lateCommits, issued, limit>>

\* Archive writes the whole volume into one object, which may be stored short.
Archive(i, v, stored) == [bucket EXCEPT ![i][stored] = @ \union {v}]

\* captureVolumes, one volume: archived, uploaded, and its stored size compared.
Capture(n, v, stored) ==
  LET i == run[n].id IN
  /\ run[n].pc = "capture" /\ v = Cardinality(bucket[i].whole) + 1
  /\ bucket' = Archive(i, v, stored)
  /\ IF stored = "whole" THEN UNCHANGED run ELSE Returns(n)
  /\ UNCHANGED <<record, entry, lateCommits, issued, limit>>

Captured(n) == bucket[run[n].id].whole \union bucket[run[n].id].short = Volume

WriteManifest(n) ==
  /\ run[n].pc = "capture" /\ Captured(n)
  /\ bucket' = [bucket EXCEPT ![run[n].id].manifest = run[n].of.uid]
  /\ Goes(n, "commit")
  /\ UNCHANGED <<record, entry, lateCommits, issued, limit>>

\* RecordCommittedBackup.
Accepts(n, of) == Fenced(n, of) /\ ~record.terminating

CommitBackup(n) ==
  LET ok == Accepts(n, run[n].of) IN
  /\ run[n].pc = "commit"
  /\ record' = IF ok THEN [record EXCEPT !.committed = run[n].id] ELSE record
  /\ IF ok THEN Goes(n, "prune") ELSE Returns(n)
  /\ UNCHANGED <<bucket, entry, lateCommits, issued, limit>>

\* The caller gives up; the commit may land at once, later or never.
CommitTimesOut(n) ==
  /\ run[n].pc = "commit"
  /\ lateCommits' = lateCommits \union {[node |-> n, of |-> run[n].of, id |-> run[n].id]}
  /\ Returns(n)
  /\ UNCHANGED <<record, bucket, entry, issued, limit>>

LateCommit(c) ==
  /\ lateCommits' = lateCommits \ {c}
  /\ record' = IF Accepts(c.node, c.of) THEN [record EXCEPT !.committed = c.id] ELSE record
  /\ UNCHANGED <<bucket, entry, run, issued, limit>>

\* Any step before the commit fails, or is cancelled; what was uploaded stays.
RunFails(n) ==
  /\ run[n].pc \in {"claimed", "capture", "commit"}
  /\ Returns(n)
  /\ UNCHANGED <<record, bucket, entry, lateCommits, issued, limit>>

------------------------------------------------------------------------------
(* pruneGenerations.                                                       *)

Newer(S, i) == {j \in S : j > i}

\* Seeded fault: generations of an earlier lifetime count as ours.
OursAnyLifetime(uid) == {i \in ID : bucket[i].manifest # 0}

Ours(uid) == {i \in ID : bucket[i].manifest = uid}

Abandoned == {i \in ID : bucket[i].manifest = 0 /\ bucket[i].whole \union bucket[i].short # {}}

Kept(uid) == {i \in Ours(uid) : Cardinality(Newer(Ours(uid), i)) < Retain}

\* Seeded fault: the newest generations go.
DoomedNewest(uid, id) ==
  IF Cardinality(Ours(uid)) < Retain THEN {}
  ELSE {i \in Ours(uid) : Cardinality({j \in Ours(uid) : j < i}) >= Retain}

\* The ones beyond Retain, and the abandoned ones older than all that are kept.
\* The committed backup of the run's snapshot is left out as well; it is the
\* next older one.
Doomed(uid, id) ==
  IF Cardinality(Ours(uid)) < Retain THEN {}
  ELSE (Ours(uid) \ (Kept(uid) \union {id})) \union {i \in Abandoned : i < Min(Kept(uid))}

\* The listing and the manifests, which never change once written.  What is
\* deleted later are the objects listed here.
ListGenerations(n) ==
  /\ run[n].pc = "prune"
  /\ run' = [run EXCEPT ![n].pc = "delete",
                        ![n].doomed = {[id |-> i, listed |-> bucket[i]] : i \in Doomed(run[n].of.uid, run[n].id)}]
  /\ UNCHANGED <<record, bucket, entry, lateCommits, issued, limit>>

HasManifest(g) == g.listed.manifest # 0

\* The generation's objects but the manifest.
WithoutArchives(g) ==
  [bucket EXCEPT ![g.id].whole = @ \ g.listed.whole, ![g.id].short = @ \ g.listed.short]

WithoutManifest(g) == [bucket EXCEPT ![g.id].manifest = 0]

Deletes(n, g, objects) ==
  /\ bucket' = objects
  /\ run' = [run EXCEPT ![n].doomed =
               (@ \ {g}) \union IF HasManifest(g) THEN {[g EXCEPT !.listed.manifest = 0]} ELSE {}]
  /\ UNCHANGED <<record, entry, lateCommits, issued, limit>>

\* deleteGeneration: the manifest first, then the archives.
DeleteObjects(n, g) ==
  /\ run[n].pc = "delete"
  /\ Deletes(n, g, IF HasManifest(g) THEN WithoutManifest(g) ELSE WithoutArchives(g))

\* A delete fails: the rest of that generation waits for the next run.
DeleteFails(n, g) ==
  /\ run[n].pc = "delete"
  /\ run' = [run EXCEPT ![n].doomed = @ \ {g}]
  /\ UNCHANGED <<record, bucket, entry, lateCommits, issued, limit>>

\* The claim is released.
EndRun(n) ==
  /\ run[n].pc = "delete" /\ run[n].doomed = {}
  /\ Returns(n)
  /\ UNCHANGED <<record, bucket, entry, lateCommits, issued, limit>>

\* The Agent process ends, wherever it was.
AgentRestarts(n) ==
  /\ run[n].pc # "idle"
  /\ run' = [run EXCEPT ![n] = IdleRun]
  /\ entry' = [entry EXCEPT ![n] = Gone]
  /\ UNCHANGED <<record, bucket, lateCommits, issued, limit>>

------------------------------------------------------------------------------
(* The server.                                                             *)

ServerWrites(r) == record' = r /\ UNCHANGED <<bucket, entry, run, lateCommits, issued, limit>>

\* Released or taken over, and scheduled.
Assign(n) ==
  /\ record.gen < limit.grants /\ ~record.terminating
  /\ ServerWrites([record EXCEPT !.node = n, !.gen = @ + 1])

MarkForDeletion ==
  /\ ~record.terminating /\ record.gen > 0
  /\ ServerWrites([record EXCEPT !.terminating = TRUE])

RecreateProject ==
  /\ record.terminating /\ record.uid < limit.uids
  /\ ServerWrites([uid |-> record.uid + 1, node |-> NoNode, gen |-> 0, terminating |-> FALSE, committed |-> 0])

------------------------------------------------------------------------------

BackupNext ==
  \/ \E n \in Node : \/ Sync(n) \/ Begin(n) \/ SetMaintenance(n) \/ WriteManifest(n)
                     \/ CommitBackup(n) \/ CommitTimesOut(n) \/ RunFails(n)
                     \/ ListGenerations(n) \/ EndRun(n) \/ AgentRestarts(n) \/ Assign(n)
  \/ \E n \in Node, v \in Volume, stored \in {"whole", "short"} : Capture(n, v, stored)
  \/ \E n \in Node : \E g \in run[n].doomed : DeleteObjects(n, g) \/ DeleteFails(n, g)
  \/ \E c \in lateCommits : LateCommit(c)
  \/ MarkForDeletion \/ RecreateProject

BackupSpec == BackupInit /\ [][BackupNext]_backupVars

------------------------------------------------------------------------------
(* Properties.                                                             *)

\* A generation that could be restored: its manifest and every archive, whole.
Complete == {i \in ID : bucket[i].manifest # 0 /\ bucket[i].whole = Volume}

Point == INSTANCE RestorePoint WITH
           vault <- {[id |-> i, uid |-> bucket[i].manifest] : i \in Complete},
           point <- record.committed,
           lifetime <- record.uid,
           BackupID <- ID,
           UID <- UNION {1..l.uids : l \in Limits}

\* Whatever Nodes do at once, wherever an Agent dies, whichever upload or answer
\* is lost: the restore point is only ever moved to a complete generation of this
\* lifetime, and pruning never takes it away.
RefinesRestorePoint == Point!PointSpec

\* What an earlier lifetime of the name backed up is never deleted by a later one.
OtherLifetimesKept ==
  [][\A i \in ID : (bucket[i].manifest # 0 /\ bucket'[i].manifest = 0) =>
       \E n \in Node : run[n].pc = "delete" /\ run[n].of.uid = bucket[i].manifest]_backupVars
==============================================================================
