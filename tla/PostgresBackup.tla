----------------------------- MODULE PostgresBackup -----------------------------
(***************************************************************************)
(* Backups of one PostgresDifferential database: the placement that makes  *)
(* it archive, the run that chooses a full or a differential backup from   *)
(* the container's log, the continuity latch that remembers what the log   *)
(* said, and the completion the server accepts.  WAL may be dropped at any *)
(* time, logs rotate and go with their container, the latch file may be    *)
(* lost, the Project may move, requests are lost, repeated and delayed,    *)
(* and the Agent may die between any two steps.                            *)
(***************************************************************************)
EXTENDS Integers, Sequences, FiniteSets

CONSTANTS MaxBackupCompletions, CompletionAttempts,
          PgLimits         \* bounds: log lines, runs, moves and faults of a behaviour

ASSUME PostgresConstants ==
  /\ MaxBackupCompletions \in Nat \ {0} /\ CompletionAttempts \in Nat \ {0}
  /\ PgLimits \subseteq [lines: Nat, runs: Nat, moves: Nat, faults: Nat]

VARIABLES
  granted,    \* the server's record: assignment, phase, stanza inventory, completions
  accepted,   \* history: every completion the server ever appended
  db,         \* the database: container, timeline, log, archive settings
  dropped,    \* the log lines that say WAL was dropped
  latch,      \* the continuity latch file: at most one latch
  repo,       \* the stanza in the repository and its backup sets, oldest first
  gap,        \* history: WAL was dropped since the newest full in the repository began
  job,        \* the placement or backup run holding the Project's claim
  late,       \* completion reports still on their way
  astray,     \* history: the last full accepted was of a run that lost sight of its log
  pgLeft      \* what is left of the bounds, and the next log line and backup ID

pgVars == <<granted, accepted, db, dropped, latch, repo, gap, job, late, astray, pgLeft>>

NoJob == [pc |-> "idle", gen |-> 0, container |-> 0, timeline |-> 0, version |-> 0,
          type |-> "none", gapSeen |-> FALSE, clean |-> TRUE, blind |-> FALSE, id |-> 0, attempt |-> 0]

PgInit ==
  /\ granted = [gen |-> 1, phase |-> "Scheduled", stanza |-> FALSE, completions |-> <<>>]
  /\ accepted = <<>>
  /\ db = [container |-> 1, timeline |-> 1, log |-> <<1>>, setting |-> FALSE, live |-> FALSE]
  /\ dropped = {} /\ latch = {} /\ repo = [stanza |-> FALSE, sets |-> <<>>]
  /\ gap = FALSE /\ job = NoJob /\ late = {} /\ astray = FALSE
  /\ \E l \in PgLimits : pgLeft = [lines |-> l.lines, runs |-> l.runs, moves |-> l.moves,
                                   faults |-> l.faults, line |-> 2, id |-> 1]

JobAt(pc) == job.pc = pc
JobTo(pc) == job' = [job EXCEPT !.pc = pc]
PgFault == pgLeft.faults > 0 /\ pgLeft' = [pgLeft EXCEPT !.faults = @ - 1]
Current(gen) == granted.gen = gen

------------------------------------------------------------------------------
(* Placement: placePostgres, from the containers being up to Running.      *)

PlaceBegins ==
  /\ JobAt("idle") /\ granted.phase = "Scheduled"
  /\ job' = [NoJob EXCEPT !.pc = "stanza", !.gen = granted.gen, !.container = db.container]
  /\ UNCHANGED <<granted, accepted, db, dropped, latch, repo, gap, late, astray, pgLeft>>

(* The stanza enters the server's inventory, under the assignment's fence, *)
(* before it is created.                                                   *)
RecordStanza ==
  /\ JobAt("stanza") /\ Current(job.gen)
  /\ granted' = [granted EXCEPT !.stanza = TRUE]
  /\ JobTo("create")
  /\ UNCHANGED <<accepted, db, dropped, latch, repo, gap, late, astray, pgLeft>>

StanzaCreate ==
  /\ JobAt("create")
  /\ repo' = [repo EXCEPT !.stanza = TRUE]
  /\ JobTo("archive")
  /\ UNCHANGED <<granted, accepted, db, dropped, latch, gap, late, astray, pgLeft>>

(* enableArchiving asks the running database; ALTER SYSTEM writes PGDATA,  *)
(* and takes effect when the container restarts.                           *)
EnableArchiving ==
  /\ JobAt("archive")
  /\ \/ db.live /\ JobTo("running") /\ UNCHANGED db
     \/ ~db.live /\ db' = [db EXCEPT !.setting = TRUE] /\ JobTo("restart")
  /\ UNCHANGED <<granted, accepted, dropped, latch, repo, gap, late, astray, pgLeft>>

RestartDatabase ==
  /\ JobAt("restart")
  /\ db' = [db EXCEPT !.live = db.setting]
  /\ JobTo("running")
  /\ UNCHANGED <<granted, accepted, dropped, latch, repo, gap, late, astray, pgLeft>>

(* pgbackrest check passes for a stanza that is archived to; only then is  *)
(* Running reported.                                                       *)
ReportPlaced ==
  /\ JobAt("running") /\ db.live /\ repo.stanza /\ Current(job.gen)
  /\ granted' = [granted EXCEPT !.phase = "Running"]
  /\ job' = NoJob
  /\ UNCHANGED <<accepted, db, dropped, latch, repo, gap, late, astray, pgLeft>>

------------------------------------------------------------------------------
(* The continuity latch.                                                   *)

Rebind(prev) ==
  [container |-> job.container, timeline |-> job.timeline,
   version |-> (IF prev = {} THEN 0 ELSE (CHOOSE l \in prev : TRUE).version) + 1,
   latched |-> TRUE, lines |-> 0, last |-> 0]

Bound(l) == l.container = job.container /\ l.timeline = job.timeline

Continues(l) == l.lines = 0 \/ (Len(db.log) >= l.lines /\ db.log[l.lines] = l.last)

(* observe: whatever cannot be proven continuous latches, then the lines   *)
(* not seen yet are searched for the dropped-WAL warning.                  *)
Observed ==
  LET base == IF \E l \in latch : Bound(l) /\ Continues(l) THEN CHOOSE l \in latch : TRUE
              ELSE Rebind(latch)
      gone == \E i \in base.lines + 1 .. Len(db.log) : db.log[i] \in dropped
  IN [base EXCEPT !.version = IF gone THEN @ + 1 ELSE @, !.latched = @ \/ gone,
                  !.lines = Len(db.log), !.last = db.log[Len(db.log)]]

------------------------------------------------------------------------------
(* One run of the backup.                                                  *)

NewestFull == LET fulls == SelectSeq(repo.sets, LAMBDA b : b.type = "full")
              IN IF fulls = <<>> THEN {} ELSE {fulls[Len(fulls)]}

(* chooseType: a differential only when nothing argues against it; due is  *)
(* the newest full's age reaching the full interval.                       *)
ChooseType(known, due) ==
  IF known /\ ~due /\ \E f \in NewestFull : f.timeline = job.timeline THEN "diff" ELSE "full"

(* Run claims the Project; a run is skipped while another holds it.  Runs  *)
(* are a backup interval apart and a request is given up after 10 seconds, *)
(* so a report is not delayed for half of MaxBackupCompletions runs.  Half *)
(* of them: while one is delayed, the runs that begin and those that were  *)
(* delayed before it are all accepted.                                     *)
RunBegins ==
  /\ JobAt("idle") /\ granted.phase = "Running" /\ pgLeft.runs > 0
  /\ \A r \in late : 2 * (pgLeft.id - r.id) < MaxBackupCompletions
  /\ job' = [NoJob EXCEPT !.pc = "choose", !.gen = granted.gen, !.container = db.container,
                          !.timeline = db.timeline, !.id = pgLeft.id]
  /\ pgLeft' = [pgLeft EXCEPT !.runs = @ - 1, !.id = @ + 1]
  /\ UNCHANGED <<granted, accepted, db, dropped, latch, repo, gap, late, astray>>

(* The log is read and the latch saved before the type is chosen; a log    *)
(* that cannot be read latches too.                                        *)
Choose(due) ==
  /\ JobAt("choose") /\ db.container = job.container
  /\ \/ latch' = {Observed} /\ UNCHANGED pgLeft
     \/ PgFault /\ latch' = {Rebind(latch)}
  /\ \E l \in latch' :
       job' = [job EXCEPT !.pc = "backup", !.version = l.version, !.gapSeen = gap,
                          !.type = ChooseType(~l.latched, due)]
  /\ UNCHANGED <<granted, accepted, db, dropped, repo, gap, late, astray>>

(* The backup finishes in the container.                                   *)
Finished ==
  /\ repo' = [repo EXCEPT !.sets = Append(@, [type |-> job.type, timeline |-> job.timeline])]
  /\ gap' = IF job.type = "full" THEN ~job.clean ELSE gap

RunBackup ==
  /\ JobAt("backup") /\ db.container = job.container
  /\ Finished
  /\ JobTo("report")
  /\ UNCHANGED <<granted, accepted, db, dropped, latch, late, astray, pgLeft>>

(* A run cancelled, failed or cut off; its backup process may finish all   *)
(* the same, unobserved.                                                   *)
BackupUnobserved ==
  /\ JobAt("backup") /\ PgFault
  /\ Finished
  /\ job' = NoJob
  /\ UNCHANGED <<granted, accepted, db, dropped, latch, late, astray>>

(* Seeded fault: one completion fewer is kept. *)
RecordBackupCompletionTrimmed(id, gen) ==
  IF Current(gen) /\ granted.phase = "Running"
     /\ ~\E i \in DOMAIN granted.completions : granted.completions[i] = id
  THEN /\ granted' = [granted EXCEPT !.completions =
            LET all == Append(@, id)
                over == Len(all) - MaxBackupCompletions
            IN IF over >= 0 THEN SubSeq(all, over + 2, Len(all)) ELSE all]
       /\ accepted' = Append(accepted, id)
  ELSE UNCHANGED <<granted, accepted>>

(* The server accepts a completion once per backup ID, whoever reports it; *)
(* a new one only from the current assignment, and only the last           *)
(* MaxBackupCompletions are kept.                                          *)
RecordBackupCompletion(id, gen) ==
  IF Current(gen) /\ granted.phase = "Running"
     /\ ~\E i \in DOMAIN granted.completions : granted.completions[i] = id
  THEN /\ granted' = [granted EXCEPT !.completions =
            LET all == Append(@, id)
                over == Len(all) - MaxBackupCompletions
            IN IF over > 0 THEN SubSeq(all, over + 1, Len(all)) ELSE all]
       /\ accepted' = Append(accepted, id)
  ELSE UNCHANGED <<granted, accepted>>

(* completionRecorder.Record: each attempt is handled and answered; handled *)
(* and its answer lost; or delayed beyond its timeout.                      *)
Report ==
  /\ JobAt("report")
  /\ \/ /\ RecordBackupCompletion(job.id, job.gen)
        /\ IF \E i \in DOMAIN granted'.completions : granted'.completions[i] = job.id THEN JobTo("clear") ELSE job' = NoJob
        /\ UNCHANGED <<late, pgLeft>>
     \/ /\ PgFault
        /\ \/ RecordBackupCompletion(job.id, job.gen) /\ UNCHANGED late
           \/ late' = late \cup {[id |-> job.id, gen |-> job.gen]} /\ UNCHANGED <<granted, accepted>>
        /\ job' = IF job.attempt + 1 = CompletionAttempts THEN NoJob
                  ELSE [job EXCEPT !.attempt = @ + 1]
  /\ UNCHANGED <<db, dropped, latch, repo, gap, astray>>

(* A delayed report reaches the server.                                     *)
LateReport(r) ==
  /\ r \in late
  /\ RecordBackupCompletion(r.id, r.gen)
  /\ late' = late \ {r}
  /\ UNCHANGED <<db, dropped, latch, repo, gap, job, astray, pgLeft>>

(* Seeded fault: the latch is cleared without looking at the log again. *)
FullAcceptedUnseen ==
  /\ JobAt("clear")
  /\ latch' = {[l EXCEPT !.latched = FALSE] : l \in latch}
  /\ job' = NoJob
  /\ UNCHANGED <<granted, accepted, db, dropped, repo, gap, late, astray, pgLeft>>

(* FullAccepted observes the log again, and clears the latch only if        *)
(* nothing has been latched since the full was chosen; a log that cannot be *)
(* read latches.                                                            *)
FullAccepted ==
  /\ JobAt("clear")
  /\ \/ /\ latch' = IF job.type # "full" THEN latch
                     ELSE {[Observed EXCEPT !.latched = @ /\ Observed.version # job.version]}
        /\ UNCHANGED pgLeft
     \/ job.type = "full" /\ PgFault /\ latch' = {Rebind(latch)}
  /\ astray' = IF job.type = "full" THEN job.blind ELSE astray
  /\ job' = NoJob
  /\ UNCHANGED <<granted, accepted, db, dropped, repo, gap, late>>

------------------------------------------------------------------------------
(* The environment.                                                        *)

(* The Agent dies, or the step in progress fails.                          *)
JobEnds ==
  /\ job.pc # "idle" /\ PgFault
  /\ job' = NoJob
  /\ UNCHANGED <<granted, accepted, db, dropped, latch, repo, gap, late, astray>>

(* PostgreSQL logs a line; it may say that WAL was dropped.                *)
LogLine(drop) ==
  /\ pgLeft.lines > 0
  /\ pgLeft' = [pgLeft EXCEPT !.lines = @ - 1, !.line = @ + 1]
  /\ db' = [db EXCEPT !.log = Append(@, pgLeft.line)]
  /\ dropped' = IF drop THEN dropped \cup {pgLeft.line} ELSE dropped
  /\ gap' = (gap \/ drop)
  /\ job' = [job EXCEPT !.clean = @ /\ ~(drop /\ JobAt("backup"))]
  /\ UNCHANGED <<granted, accepted, latch, repo, late, astray>>

(* A run that has chosen by the latch and has its full to clear it with.     *)
Blinded == [job EXCEPT !.blind = job.pc \in {"backup", "report", "clear"}]

(* The oldest line of the log is rotated away.  A latch with no cursor, as  *)
(* a log that could not be read leaves it, does not tell; a run that goes by *)
(* such a latch is blind from here.                                         *)
LogRotates ==
  /\ Len(db.log) > 1 /\ PgFault
  /\ db' = [db EXCEPT !.log = Tail(@)]
  /\ job' = IF \E l \in latch : l.lines = 0 THEN Blinded ELSE job
  /\ UNCHANGED <<granted, accepted, dropped, latch, repo, gap, late, astray>>

(* The latch file is lost.  A run remembers the version it began at, while  *)
(* the next latch counts from zero again.                                   *)
LatchLost ==
  /\ latch # {} /\ PgFault
  /\ latch' = {}
  /\ job' = Blinded
  /\ UNCHANGED <<granted, accepted, db, dropped, repo, gap, late, astray>>

Fresh(c, t) == [db EXCEPT !.container = c, !.timeline = t, !.log = <<pgLeft.line>>, !.live = db.setting]

(* Recovery recreates the container between runs: its log starts again.    *)
ContainerRecreated ==
  /\ JobAt("idle") /\ pgLeft.faults > 0
  /\ pgLeft' = [pgLeft EXCEPT !.faults = @ - 1, !.line = @ + 1]
  /\ db' = Fresh(db.container + 1, db.timeline)
  /\ UNCHANGED <<granted, accepted, dropped, latch, repo, gap, job, late, astray>>

(* The Project moves and comes back restored, on a new timeline, here or   *)
(* to a Node with no latch.  The job of the old assignment ends: it may go *)
(* on in the code, where the fence refuses what it reports.                *)
Moves ==
  /\ granted.phase = "Running" /\ pgLeft.moves > 0
  /\ pgLeft' = [pgLeft EXCEPT !.moves = @ - 1, !.line = @ + 1]
  /\ granted' = [granted EXCEPT !.gen = @ + 1, !.phase = "Scheduled"]
  /\ db' = Fresh(db.container + 1, db.timeline + 1)
  /\ latch' \in {latch, {}}
  /\ job' = NoJob
  /\ UNCHANGED <<accepted, dropped, repo, gap, late, astray>>

PgNext ==
  \/ PlaceBegins \/ RecordStanza \/ StanzaCreate \/ EnableArchiving \/ RestartDatabase \/ ReportPlaced
  \/ RunBegins \/ (\E due \in BOOLEAN : Choose(due)) \/ RunBackup \/ BackupUnobserved
  \/ Report \/ (\E r \in late : LateReport(r)) \/ FullAccepted
  \/ JobEnds \/ (\E drop \in BOOLEAN : LogLine(drop)) \/ LogRotates \/ LatchLost
  \/ ContainerRecreated \/ Moves

PgSpec == PgInit /\ [][PgNext]_pgVars

------------------------------------------------------------------------------
(* A differential is chosen only when the WAL back to the start of the      *)
(* newest full is unbroken, through dropped WAL, recreated containers, moves *)
(* and a latch or log lines lost between runs.  The exception is a full     *)
(* accepted after its own run lost the latch, or lines no cursor had passed. *)
DiffIsContinuous == JobAt("backup") /\ job.type = "diff" => astray \/ ~job.gapSeen

(* FileContinuity: the latch needs no copy, since "losing it costs one full *)
(* backup".  It does not hold of a latch lost during a run: the next one    *)
(* counts from zero, may come to the version the run began at, and is       *)
(* cleared by its full over a drop that full did not cover.                 *)
LossCostsOneFull == JobAt("backup") /\ job.type = "diff" => ~job.gapSeen

(* The inventory a deleted lifetime's cleanup reads never misses a stanza.  *)
InventoryComplete == repo.stanza => granted.stanza

(* A completion is accepted once, through retries, delays and moves, even   *)
(* though only the newest are remembered.                                   *)
AcceptedOnce == \A i, j \in DOMAIN accepted : i # j => accepted[i] # accepted[j]

================================================================================
