--------------------------- MODULE Databases_proofs ----------------------------
(***************************************************************************)
(* The repo host and the database backups, for every choice of their       *)
(* bounds: what Remaining's empty answer promises, a stanza inventory that *)
(* misses no stanza, completions that are accepted once, and differential  *)
(* backups that continue the newest full one.                              *)
(***************************************************************************)
EXTENDS RepoHost, PostgresBackup, FiniteSetTheorems, TLAPS

------------------------------------------------------------------------------
(* The repo host.                                                          *)

Without(u, f) == \A c \in f : u \notin c

\* No file, and nothing the operation in progress may still write, names u.
\* That includes the previous configuration, which recover puts back, and the
\* Agent's copies, which servesUID reads in place of the mounted file.
Gone(u) ==
  /\ u \notin authorized
  /\ Without(u, conf) /\ Without(u, written) /\ Without(u, applied)
  /\ u \notin call.data /\ Without(u, call.previous)

\* The mounted file is as the Agent's copy says, except while it is replaced.
CopyTrue == IF call.pc = "copy" THEN conf = {call.data} ELSE conf = written

CallShape ==
  /\ DOMAIN call = DOMAIN NoCall
  /\ call.pc = "idle" => call = NoCall
  /\ call.pc \in {"write", "copy"} => call.next \in {"ensure", "confirm", "revive"}

ReleaseInv ==
  /\ CallShape
  /\ torn \in BOOLEAN
  /\ ~torn => CopyTrue /\ \A u \in released : Gone(u)

LEMMA ReleaseInit == HostInit => ReleaseInv
<1> SUFFICES ASSUME HostInit
             PROVE  ReleaseInv
  OBVIOUS
<1>1. CallShape /\ call.pc = "idle"
  BY DEF HostInit, CallShape, NoCall
<1>2. torn = FALSE /\ released = {} /\ conf = written
  BY DEF HostInit
<1> QED
  BY <1>1, <1>2 DEF ReleaseInv, CopyTrue

LEMMA ReleaseStep == ReleaseInv /\ [HostNext]_hostVars => ReleaseInv'
<1> SUFFICES ASSUME ReleaseInv, [HostNext]_hostVars
             PROVE  ReleaseInv'
  OBVIOUS
<1> USE DEF ReleaseInv, CallShape, CopyTrue, Gone, Without, CallAt, CallTo, NoCall, NoFile, File, files
<1>1. ASSUME NEW u \in Lifetime, Authorize(u)
      PROVE  ReleaseInv'
  BY <1>1 DEF Authorize
<1>2. ASSUME NEW u \in Lifetime, Revoke(u)
      PROVE  ReleaseInv'
  BY <1>2 DEF Revoke
\* Nothing of u is left: with no operation in progress conf is as written.
<1>3. ASSUME NEW u \in Lifetime, RemainingNothing(u)
      PROVE  ReleaseInv'
  <2>1. ~torn => Gone(u)
    BY <1>3 DEF RemainingNothing, ServesUID
  <2> QED
    BY <1>3, <2>1 DEF RemainingNothing
<1>4. CASE ReconcileHost
  BY <1>4 DEF ReconcileHost
<1>5. CASE ApplyWithout
  BY <1>5 DEF ApplyWithout
<1>6. CASE Apply
  BY <1>6 DEF Apply
<1>7. CASE WriteConf
  BY <1>7 DEF WriteConf
<1>8. CASE WriteCopy
  BY <1>8 DEF WriteCopy
<1>9. CASE EnsureContainer
  BY <1>9 DEF EnsureContainer
<1>10. CASE StartOrRecreate
  BY <1>10 DEF StartOrRecreate
<1>11. CASE Signal
  BY <1>11 DEF Signal
<1>12. CASE SignalFails
  BY <1>12 DEF SignalFails
<1>13. CASE WaitReady
  <2>1. CASE Running /\ CallTo(IF call.changed THEN "confirm" ELSE "connect")
    BY <1>13, <2>1 DEF WaitReady
  <2>2. CASE call' = [call EXCEPT !.pc = IF call.previous = NoFile THEN "revive" ELSE "write",
                                  !.data = UNION call.previous, !.next = "revive"]
    <3>1. \A u \in released : Gone(u) => u \notin UNION call.previous
      OBVIOUS
    <3>2. call'.data = UNION call.previous /\ call'.previous = call.previous
      BY <2>2
    <3>3. CallShape'
      BY <2>2
    <3> QED
      BY <1>13, <2>2, <3>1, <3>2, <3>3 DEF WaitReady
  <2> QED
    BY <1>13, <2>1, <2>2 DEF WaitReady
<1>14. CASE Revive
  BY <1>14 DEF Revive
<1>15. CASE ConfirmApplied
  BY <1>15 DEF ConfirmApplied
<1>16. CASE ConnectNetworks
  BY <1>16 DEF ConnectNetworks
<1>17. CASE Detach
  BY <1>17 DEF Detach
<1>18. CASE CallFails
  BY <1>18 DEF CallFails, LeftMidway
<1>19. CASE HostAgentDies
  BY <1>19 DEF HostAgentDies, LeftMidway
<1>20. CASE ServerExits
  BY <1>20 DEF ServerExits
<1>21. CASE DockerRestarts
  BY <1>21 DEF DockerRestarts
<1>22. CASE UNCHANGED hostVars
  BY <1>22 DEF hostVars
<1> QED
  BY <1>1, <1>2, <1>3, <1>4, <1>5, <1>6, <1>7, <1>8, <1>9, <1>10, <1>11, <1>12, <1>13, <1>14,
     <1>15, <1>16, <1>17, <1>18, <1>19, <1>20, <1>21, <1>22 DEF HostNext, CallSteps

\* Once Remaining has answered that nothing of a lifetime is left, no failed
\* reload, rollback, Agent death or restart of the server brings it back, until
\* it is authorized again; provided conf never ran ahead of written.conf.
THEOREM ReleasedStaysGone == HostSpec => []ReleasedIsGone
<1>1. ReleaseInv => ReleasedIsGone
  BY DEF ReleaseInv, ReleasedIsGone, Gone, Without
<1> QED
  BY <1>1, ReleaseInit, ReleaseStep, PTL DEF HostSpec

------------------------------------------------------------------------------
(* The database backups.                                                   *)

\* InventoryComplete is not inductive by itself: a placement that is about to
\* create the stanza must have recorded it.
InventoryInv ==
  /\ "stanza" \in DOMAIN granted /\ "stanza" \in DOMAIN repo /\ "pc" \in DOMAIN job
  /\ repo.stanza => granted.stanza
  /\ job.pc = "create" => granted.stanza

LEMMA InventoryInit == PgInit => InventoryInv
  BY DEF PgInit, InventoryInv, NoJob

LEMMA InventoryStep == InventoryInv /\ [PgNext]_pgVars => InventoryInv'
<1> SUFFICES ASSUME InventoryInv, [PgNext]_pgVars
             PROVE  InventoryInv'
  OBVIOUS
<1> USE DEF InventoryInv, JobAt, JobTo, NoJob
<1>1. CASE PlaceBegins
  BY <1>1 DEF PlaceBegins
<1>2. CASE RecordStanza
  BY <1>2 DEF RecordStanza
<1>3. CASE StanzaCreate
  BY <1>3 DEF StanzaCreate
<1>4. CASE EnableArchiving
  BY <1>4 DEF EnableArchiving
<1>5. CASE RestartDatabase
  BY <1>5 DEF RestartDatabase
<1>6. CASE ReportPlaced
  BY <1>6 DEF ReportPlaced
<1>7. CASE RunBegins
  BY <1>7 DEF RunBegins
<1>8. ASSUME NEW due \in BOOLEAN, Choose(due)
      PROVE  InventoryInv'
  BY <1>8 DEF Choose
<1>9. CASE RunBackup
  BY <1>9 DEF RunBackup, Finished
<1>10. CASE BackupUnobserved
  BY <1>10 DEF BackupUnobserved, Finished
\* The two steps that report change the completions alone.
<1>11. ASSUME NEW id, NEW gen, RecordBackupCompletion(id, gen)
       PROVE  granted'.stanza = granted.stanza /\ "stanza" \in DOMAIN granted'
  BY <1>11 DEF RecordBackupCompletion
<1>12. CASE Report
  <2>1. granted'.stanza = granted.stanza /\ "stanza" \in DOMAIN granted'
    BY <1>11, <1>12 DEF Report
  <2>2. "pc" \in DOMAIN job' /\ job'.pc # "create"
    BY <1>12 DEF Report
  <2> QED
    BY <1>12, <2>1, <2>2 DEF Report
<1>13. ASSUME NEW r \in late, LateReport(r)
       PROVE  InventoryInv'
  BY <1>11, <1>13 DEF LateReport
<1>14. CASE FullAccepted
  BY <1>14 DEF FullAccepted
<1>15. CASE JobEnds
  BY <1>15 DEF JobEnds
<1>16. ASSUME NEW drop \in BOOLEAN, LogLine(drop)
       PROVE  InventoryInv'
  BY <1>16 DEF LogLine
<1>17. CASE LogRotates
  BY <1>17 DEF LogRotates, Blinded
<1>18. CASE LatchLost
  BY <1>18 DEF LatchLost, Blinded
<1>19. CASE ContainerRecreated
  BY <1>19 DEF ContainerRecreated
<1>20. CASE Moves
  BY <1>20 DEF Moves
<1>21. CASE UNCHANGED pgVars
  BY <1>21 DEF pgVars
<1> QED
  BY <1>1, <1>2, <1>3, <1>4, <1>5, <1>6, <1>7, <1>8, <1>9, <1>10, <1>12, <1>13, <1>14,
     <1>15, <1>16, <1>17, <1>18, <1>19, <1>20, <1>21 DEF PgNext

\* No stanza exists in the repository that the server's inventory does not name
\* (RecordStanza before stanza-create, on every placement and wherever one ends),
\* so the cleanup of a deleted lifetime misses none.
THEOREM NoStanzaForgotten == PgSpec => []InventoryComplete
<1>1. InventoryInv => InventoryComplete
  BY DEF InventoryInv, InventoryComplete
<1> QED
  BY <1>1, InventoryInit, InventoryStep, PTL DEF PgSpec

------------------------------------------------------------------------------
(* Completions.                                                            *)

\* kept is the end of all: everything, or the newest MaxBackupCompletions.
NewestOf(kept, all) ==
  /\ Len(kept) <= Len(all) /\ Len(kept) <= MaxBackupCompletions
  /\ Len(kept) = Len(all) \/ Len(kept) = MaxBackupCompletions
  /\ \A i \in 1 .. Len(kept) : kept[i] = all[Len(all) - Len(kept) + i]

\* No completion is accepted long after one of a later run.
InTurn(all) ==
  \A k, i \in DOMAIN all : k < i => 2 * (all[k] + 1 - all[i]) <= MaxBackupCompletions + 1

Distinct(all) == \A i, j \in DOMAIN all : i # j => all[i] # all[j]

\* A run still able to report: not long past.
Recent(id) == id \in Nat /\ id < pgLeft.id /\ 2 * (pgLeft.id - id) <= MaxBackupCompletions + 1

RunStage == {"choose", "backup", "report", "clear"}

OnceInv ==
  /\ pgLeft.id \in Nat /\ "id" \in DOMAIN pgLeft /\ "faults" \in DOMAIN pgLeft
  /\ "completions" \in DOMAIN granted /\ {"pc", "id"} \subseteq DOMAIN job
  /\ granted.completions \in Seq(Nat) /\ accepted \in Seq(Nat)
  /\ NewestOf(granted.completions, accepted)
  /\ InTurn(accepted) /\ Distinct(accepted)
  /\ \A i \in DOMAIN accepted : accepted[i] < pgLeft.id
  /\ \A r \in late : Recent(r.id)
  /\ job.pc \in RunStage => Recent(job.id) /\ job.id = pgLeft.id - 1

\* Of the runs that may still report, the server remembers all it has accepted: the
\* completions accepted since are distinct, and of at most MaxBackupCompletions runs
\* around it.
LEMMA RecentRemembered ==
  ASSUME OnceInv, NEW id, Recent(id), NEW k \in DOMAIN accepted, accepted[k] = id
  PROVE  \E i \in DOMAIN granted.completions : granted.completions[i] = id
<1> DEFINE A == accepted
           C == granted.completions
           M == MaxBackupCompletions
<1>0. /\ M \in Nat /\ M > 0 /\ A \in Seq(Nat) /\ C \in Seq(Nat) /\ NewestOf(C, A) /\ InTurn(A) /\ Distinct(A)
      /\ \A i \in DOMAIN A : A[i] < pgLeft.id
      /\ pgLeft.id \in Nat
  BY PostgresConstants DEF OnceInv
<1>1. k \in 1 .. Len(A) /\ DOMAIN A = 1 .. Len(A) /\ DOMAIN C = 1 .. Len(C) /\ Len(A) \in Nat /\ Len(C) \in Nat
  BY <1>0
<1>2. CASE k > Len(A) - Len(C)
  <2>1. k - (Len(A) - Len(C)) \in 1 .. Len(C)
    <3>1. \A a, c, n \in Nat : (n > a - c /\ n <= a) => n - (a - c) \in 1 .. c
      OBVIOUS
    <3>2. k \in Nat /\ k <= Len(A)
      BY <1>1
    <3> QED
      BY <1>1, <1>2, <3>1, <3>2, Zenon
  <2>2. C[k - (Len(A) - Len(C))] = A[Len(A) - Len(C) + (k - (Len(A) - Len(C)))]
    BY <1>0, <2>1 DEF NewestOf
  <2>3. Len(A) - Len(C) + (k - (Len(A) - Len(C))) = k
    BY <1>1
  <2> QED
    BY <1>1, <2>1, <2>2, <2>3
<1>3. CASE ~(k > Len(A) - Len(C))
  <2>1. Len(C) = M /\ k + M <= Len(A)
    BY <1>0, <1>1, <1>3 DEF NewestOf
  <2>2. PICK h \in Nat : 2 * h <= M + 1 /\ M + 1 < 2 * h + 2
    <3>1. /\ (M + 1) \div 2 \in Nat
          /\ 2 * ((M + 1) \div 2) <= M + 1 /\ M + 1 < 2 * ((M + 1) \div 2) + 2
      BY <1>0
    <3> QED
      BY <3>1, Zenon
  <2> DEFINE T == (id + 1 - h) .. (id + h - 1)
             f == [j \in 0 .. M |-> A[k + j]]
  <2>3. \A j \in 0 .. M : A[k + j] \in T
    <3> SUFFICES ASSUME NEW j \in 0 .. M
                 PROVE  A[k + j] \in T
      OBVIOUS
    <3>1. k + j \in DOMAIN A /\ A[k + j] \in Nat
      BY <1>0, <1>1, <2>1
    <3>2. A[k + j] < pgLeft.id /\ 2 * (pgLeft.id - id) <= M + 1 /\ id \in Nat
      BY <1>0, <3>1 DEF Recent
    <3>3. A[k + j] <= id + h - 1
      BY <1>0, <2>2, <3>1, <3>2
    <3>4. A[k + j] >= id + 1 - h
      <4>1. CASE j = 0
        <5>1. A[k + j] = id /\ h >= 1
          BY <1>0, <1>1, <2>2, <4>1
        <5> QED
          BY <3>2, <5>1
      <4>2. CASE j # 0
        <5>1. 2 * (A[k] + 1 - A[k + j]) <= M + 1
          BY <1>0, <1>1, <3>1, <4>2 DEF InTurn
        <5> QED
          BY <1>0, <2>2, <3>1, <3>2, <5>1
      <4> QED
        BY <4>1, <4>2
    <3> QED
      BY <2>2, <3>1, <3>2, <3>3, <3>4
  <2>4. f \in [0 .. M -> T]
    BY <2>3
  <2>5. /\ IsFiniteSet(0 .. M) /\ Cardinality(0 .. M) = M + 1
        /\ IsFiniteSet(T) /\ Cardinality(T) < M + 1
    <3>1. id + 1 - h \in Int /\ id + h - 1 \in Int
      BY <2>2 DEF Recent
    <3>2. /\ IsFiniteSet(T)
          /\ Cardinality(T) = IF id + 1 - h > id + h - 1 THEN 0 ELSE (id + h - 1) - (id + 1 - h) + 1
      BY <3>1, FS_Interval
    <3>3. IsFiniteSet(0 .. M) /\ Cardinality(0 .. M) = IF 0 > M THEN 0 ELSE M - 0 + 1
      <4>1. 0 \in Int /\ M \in Int
        BY <1>0
      <4> QED
        BY <4>1, FS_Interval, Zenon
    <3>4. id \in Nat
      BY DEF Recent
    <3> HIDE DEF T
    <3> QED
      BY <1>0, <2>2, <3>2, <3>3, <3>4
  <2>6. PICK x, y \in 0 .. M : x # y /\ f[x] = f[y]
    <3> HIDE DEF T, f
    <3>1. Cardinality(T) < Cardinality(0 .. M)
      BY <2>5
    <3> QED
      BY <2>4, <2>5, <3>1, FS_PigeonHole
  <2>7. k + x \in DOMAIN A /\ k + y \in DOMAIN A /\ k + x # k + y /\ A[k + x] = A[k + y]
    <3>1. f[x] = A[k + x] /\ f[y] = A[k + y] /\ x \in Nat /\ y \in Nat /\ x <= M /\ y <= M
      BY <1>0, <2>6
    <3> HIDE DEF f
    <3>2. k + x \in DOMAIN A /\ k + y \in DOMAIN A /\ k + x # k + y
      <4>1. /\ \A n, a, m, u \in Nat : (1 <= n /\ n + m <= a /\ u <= m) => n + u \in 1 .. a
            /\ \A n, u, w \in Nat : u # w => n + u # n + w
        OBVIOUS
      <4>2. k \in Nat /\ 1 <= k
        BY <1>1
      <4> QED
        BY <1>0, <1>1, <2>1, <2>6, <3>1, <4>1, <4>2, Zenon
    <3> QED
      BY <2>6, <3>1, <3>2
  <2> QED
    BY <1>0, <2>7 DEF Distinct
<1> QED
  BY <1>2, <1>3

\* What the server keeps when it appends one.
LEMMA KeepsNewest ==
  ASSUME NEW kept \in Seq(Nat), NEW all \in Seq(Nat), NewestOf(kept, all), NEW id \in Nat
  PROVE  LET more == Append(kept, id)
             over == Len(more) - MaxBackupCompletions
             next == IF over > 0 THEN SubSeq(more, over + 1, Len(more)) ELSE more
         IN next \in Seq(Nat) /\ NewestOf(next, Append(all, id))
<1> DEFINE more == Append(kept, id)
           M == MaxBackupCompletions
           over == Len(more) - M
           longer == Append(all, id)
<1>0. M \in Nat /\ M > 0 /\ Len(kept) \in Nat /\ Len(all) \in Nat
  BY PostgresConstants
<1>1. /\ more \in Seq(Nat) /\ Len(more) = Len(kept) + 1
      /\ \A i \in 1 .. Len(kept) : more[i] = kept[i]
      /\ more[Len(kept) + 1] = id
  OBVIOUS
<1>2. /\ longer \in Seq(Nat) /\ Len(longer) = Len(all) + 1
      /\ \A i \in 1 .. Len(all) : longer[i] = all[i]
      /\ longer[Len(all) + 1] = id
  OBVIOUS
<1> HIDE DEF more, longer
<1>3. CASE over > 0
  <2>1. Len(kept) = M /\ over = 1 /\ Len(kept) <= Len(all)
    BY <1>0, <1>1, <1>3 DEF NewestOf
  <2> DEFINE next == SubSeq(more, 2, Len(more))
  <2>2. next \in Seq(Nat) /\ Len(next) = M /\ \A i \in 1 .. M : next[i] = more[i + 1]
    BY <1>0, <1>1, <2>1
  <2> HIDE DEF next
  <2>3. ASSUME NEW i \in 1 .. M
        PROVE  next[i] = longer[Len(all) + 1 - M + i]
    <3>1. CASE i < M
      <4>1. i + 1 \in 1 .. Len(kept) /\ Len(all) - M + (i + 1) \in 1 .. Len(all)
        BY <1>0, <2>1, <3>1
      <4>2. kept[i + 1] = all[Len(all) - M + (i + 1)]
        BY <2>1, <4>1 DEF NewestOf
      <4>3. Len(all) - M + (i + 1) = Len(all) + 1 - M + i
        BY <1>0
      <4> QED
        BY <1>1, <1>2, <2>2, <4>1, <4>2, <4>3
    <3>2. CASE i = M
      BY <1>0, <1>1, <1>2, <2>1, <2>2, <3>2
    <3> QED
      <4>1. i < M \/ i = M
        BY <1>0
      <4> QED
        BY <3>1, <3>2, <4>1, Zenon
  <2>4. NewestOf(next, longer)
    <3>1. Len(next) = M /\ Len(longer) = Len(all) + 1 /\ M <= Len(all) + 1
      BY <1>0, <1>2, <2>1, <2>2
    <3>2. \A i \in 1 .. Len(next) : next[i] = longer[Len(longer) - Len(next) + i]
      <4> SUFFICES ASSUME NEW i \in 1 .. Len(next)
                   PROVE  next[i] = longer[Len(longer) - Len(next) + i]
        OBVIOUS
      <4>1. next[i] = longer[Len(all) + 1 - M + i]
        BY <2>3, <3>1
      <4>2. Len(longer) - Len(next) + i = Len(all) + 1 - M + i
        BY <3>1
      <4> QED
        BY <4>1, <4>2, Zenon
    <3>3. Len(next) <= Len(longer) /\ Len(next) <= M /\ Len(next) = M
      BY <1>0, <3>1
    <3> QED
      BY <3>2, <3>3, Zenon DEF NewestOf
  <2> QED
    BY <1>3, <2>1, <2>2, <2>4 DEF next, more, longer
<1>4. CASE ~(over > 0)
  <2>1. Len(kept) + 1 <= M /\ Len(kept) = Len(all)
    BY <1>0, <1>1, <1>4 DEF NewestOf
  <2>2. ASSUME NEW i \in 1 .. Len(more)
        PROVE  more[i] = longer[Len(longer) - Len(more) + i]
    <3>1. Len(longer) - Len(more) + i = i
      BY <1>0, <1>1, <1>2, <2>1
    <3>2. i \in 1 .. Len(kept) \/ i = Len(kept) + 1
      BY <1>0, <1>1
    <3>3. CASE i \in 1 .. Len(kept)
      <4>1. kept[i] = all[Len(all) - Len(kept) + i] /\ Len(all) - Len(kept) + i = i
        BY <1>0, <2>1, <3>3 DEF NewestOf
      <4> QED
        BY <1>1, <1>2, <2>1, <3>1, <3>3, <4>1, Zenon
    <3>4. CASE i = Len(kept) + 1
      BY <1>1, <1>2, <2>1, <3>1, <3>4, Zenon
    <3> QED
      BY <3>2, <3>3, <3>4
  <2>3. Len(more) <= Len(longer) /\ Len(more) <= M /\ Len(more) = Len(longer)
    BY <1>0, <1>1, <1>2, <2>1
  <2>4. NewestOf(more, longer)
    BY <2>2, <2>3, Zenon DEF NewestOf
  <2> QED
    BY <1>1, <1>4, <2>4 DEF more, longer
<1> QED
  BY <1>3, <1>4

\* The server handles a report of a run still able to report: accepted for the first
\* time, or ignored.
LEMMA RecordedOnce ==
  ASSUME OnceInv, NEW id, Recent(id), NEW gen, RecordBackupCompletion(id, gen)
  PROVE  /\ "completions" \in DOMAIN granted'
         /\ granted'.completions \in Seq(Nat) /\ accepted' \in Seq(Nat)
         /\ NewestOf(granted'.completions, accepted')
         /\ InTurn(accepted') /\ Distinct(accepted')
         /\ \A i \in DOMAIN accepted' : accepted'[i] < pgLeft.id
<1> DEFINE C == granted.completions
           more == Append(C, id)
           over == Len(more) - MaxBackupCompletions
           next == IF over > 0 THEN SubSeq(more, over + 1, Len(more)) ELSE more
<1>0. /\ "completions" \in DOMAIN granted /\ C \in Seq(Nat) /\ accepted \in Seq(Nat) /\ NewestOf(C, accepted)
      /\ InTurn(accepted) /\ Distinct(accepted) /\ id \in Nat /\ id < pgLeft.id
      /\ 2 * (pgLeft.id - id) <= MaxBackupCompletions + 1 /\ pgLeft.id \in Nat
      /\ \A i \in DOMAIN accepted : accepted[i] < pgLeft.id
  BY DEF OnceInv, Recent
<1>1. CASE UNCHANGED <<granted, accepted>>
  BY <1>0, <1>1
<1>2. CASE /\ ~\E i \in DOMAIN C : C[i] = id
           /\ granted' = [granted EXCEPT !.completions = next]
           /\ accepted' = Append(accepted, id)
  <2>1. next \in Seq(Nat) /\ NewestOf(next, accepted')
    BY <1>0, <1>2, KeepsNewest
  <2>2. "completions" \in DOMAIN granted' /\ granted'.completions = next
    <3> HIDE DEF next
    <3> QED
      BY <1>0, <1>2
  <2> HIDE DEF next
  <2>3. /\ accepted' \in Seq(Nat) /\ Len(accepted') = Len(accepted) + 1
        /\ DOMAIN accepted' = 1 .. Len(accepted) + 1 /\ DOMAIN accepted = 1 .. Len(accepted)
        /\ \A i \in 1 .. Len(accepted) : accepted'[i] = accepted[i]
        /\ accepted'[Len(accepted) + 1] = id /\ Len(accepted) \in Nat
    BY <1>0, <1>2
  <2>4. \A k \in DOMAIN accepted : accepted[k] # id
    BY <1>2, RecentRemembered
  <2>5. \A i \in DOMAIN accepted' : i \in DOMAIN accepted \/ i = Len(accepted) + 1
    BY <2>3
  <2>6. Distinct(accepted')
    BY <1>0, <2>3, <2>4, <2>5 DEF Distinct
  <2>7. InTurn(accepted')
    <3> SUFFICES ASSUME NEW k \in DOMAIN accepted', NEW i \in DOMAIN accepted', k < i
                 PROVE  2 * (accepted'[k] + 1 - accepted'[i]) <= MaxBackupCompletions + 1
      BY DEF InTurn
    <3>1. k \in DOMAIN accepted /\ accepted'[k] = accepted[k] /\ accepted[k] \in Nat /\ accepted[k] < pgLeft.id
      <4>1. \A n, u, w \in Nat : (u \in 1 .. n + 1 /\ w \in 1 .. n + 1 /\ u < w) => u \in 1 .. n
        OBVIOUS
      <4>2. k \in Nat /\ i \in Nat
        BY <2>3
      <4>3. k \in 1 .. Len(accepted)
        BY <2>3, <4>1, <4>2, Zenon
      <4> QED
        BY <1>0, <2>3, <4>3
    <3>2. CASE i \in DOMAIN accepted
      BY <1>0, <2>3, <3>1, <3>2 DEF InTurn
    <3>3. CASE i = Len(accepted) + 1
      <4>1. accepted'[i] = id
        BY <2>3, <3>3
      <4>2. MaxBackupCompletions \in Nat
        BY PostgresConstants
      <4> QED
        BY <1>0, <3>1, <4>1, <4>2
    <3> QED
      BY <2>5, <3>2, <3>3
  <2>8. \A i \in DOMAIN accepted' : accepted'[i] < pgLeft.id
    BY <1>0, <2>3, <2>5
  <2> QED
    BY <2>1, <2>2, <2>3, <2>6, <2>7, <2>8
<1> QED
  BY <1>1, <1>2, Zenon DEF RecordBackupCompletion, Current

\* The steps that neither report nor begin a run.
LEMMA QuietOnce ==
  ASSUME OnceInv, UNCHANGED <<accepted, late>>,
         "completions" \in DOMAIN granted', granted'.completions = granted.completions,
         "id" \in DOMAIN pgLeft', "faults" \in DOMAIN pgLeft', pgLeft'.id = pgLeft.id,
         {"pc", "id"} \subseteq DOMAIN job',
         job'.pc \in RunStage => job.pc \in RunStage /\ job'.id = job.id
  PROVE  OnceInv'
  BY DEF OnceInv, Recent

LEMMA OnceStep == OnceInv /\ [PgNext]_pgVars => OnceInv'
<1> SUFFICES ASSUME OnceInv, [PgNext]_pgVars
             PROVE  OnceInv'
  OBVIOUS
<1>0. /\ pgLeft.id \in Nat /\ {"id", "faults"} \subseteq DOMAIN pgLeft /\ "completions" \in DOMAIN granted
      /\ {"pc", "id"} \subseteq DOMAIN job
      /\ MaxBackupCompletions \in Nat /\ MaxBackupCompletions >= 1
  BY PostgresConstants DEF OnceInv
<1>1. {"pc", "id"} \subseteq DOMAIN NoJob /\ NoJob.pc = "idle" /\ NoJob.pc \notin RunStage
  BY DEF NoJob, RunStage
<1>2. ASSUME NEW pc, JobTo(pc)
      PROVE  {"pc", "id"} \subseteq DOMAIN job' /\ job'.pc = pc /\ job'.id = job.id
  BY <1>0, <1>2 DEF JobTo
<1>3. ASSUME PgFault
      PROVE  {"id", "faults"} \subseteq DOMAIN pgLeft' /\ pgLeft'.id = pgLeft.id
  BY <1>0, <1>3 DEF PgFault
<1>4. CASE PlaceBegins \/ RecordStanza \/ StanzaCreate \/ EnableArchiving \/ RestartDatabase \/ ReportPlaced
  <2>1. UNCHANGED <<accepted, late, pgLeft>>
    BY <1>4 DEF PlaceBegins, RecordStanza, StanzaCreate, EnableArchiving, RestartDatabase, ReportPlaced
  <2>2. "completions" \in DOMAIN granted' /\ granted'.completions = granted.completions
    BY <1>0, <1>4 DEF PlaceBegins, RecordStanza, StanzaCreate, EnableArchiving, RestartDatabase, ReportPlaced
  <2>3. {"pc", "id"} \subseteq DOMAIN job' /\ job'.pc \notin RunStage
    <3>1. CASE PlaceBegins
      BY <3>1 DEF PlaceBegins, NoJob, RunStage
    <3>2. CASE ReportPlaced
      BY <1>1, <3>2 DEF ReportPlaced
    <3>3. ASSUME NEW pc \in {"create", "archive", "running", "restart"}, JobTo(pc)
          PROVE  {"pc", "id"} \subseteq DOMAIN job' /\ job'.pc \notin RunStage
      BY <1>2, <3>3 DEF RunStage
    <3> QED
      BY <1>4, <3>1, <3>2, <3>3 DEF RecordStanza, StanzaCreate, EnableArchiving, RestartDatabase
  <2> QED
    BY <1>0, <2>1, <2>2, <2>3, QuietOnce
<1>5. CASE RunBegins
  <2>1. /\ UNCHANGED <<granted, accepted, late>> /\ pgLeft'.id = pgLeft.id + 1
        /\ {"id", "faults"} \subseteq DOMAIN pgLeft'
        /\ {"pc", "id"} \subseteq DOMAIN job' /\ job'.id = pgLeft.id
        /\ \A r \in late : 2 * (pgLeft.id - r.id) < MaxBackupCompletions
    BY <1>0, <1>5 DEF RunBegins, NoJob
  <2>2. \A r \in late : Recent(r.id)'
    <3> SUFFICES ASSUME NEW r \in late
                 PROVE  Recent(r.id)'
      OBVIOUS
    <3>1. r.id \in Nat /\ r.id < pgLeft.id /\ 2 * (pgLeft.id - r.id) < MaxBackupCompletions
      BY <2>1 DEF OnceInv, Recent
    <3>2. r.id < pgLeft'.id /\ 2 * (pgLeft'.id - r.id) <= MaxBackupCompletions + 1
      BY <1>0, <2>1, <3>1
    <3> QED
      BY <3>1, <3>2 DEF Recent
  <2>3. Recent(job.id)' /\ job'.id = pgLeft'.id - 1
    BY <1>0, <2>1 DEF Recent
  <2>4. \A i \in DOMAIN accepted : accepted[i] < pgLeft'.id
    <3> SUFFICES ASSUME NEW i \in DOMAIN accepted
                 PROVE  accepted[i] < pgLeft'.id
      OBVIOUS
    <3>1. accepted[i] \in Nat /\ accepted[i] < pgLeft.id
      BY DEF OnceInv
    <3> QED
      BY <1>0, <2>1, <3>1
  <2> QED
    BY <1>0, <2>1, <2>2, <2>3, <2>4 DEF OnceInv
<1>6. ASSUME NEW due \in BOOLEAN, Choose(due)
      PROVE  OnceInv'
  <2>1. /\ UNCHANGED <<granted, accepted, late>> /\ job.pc = "choose"
        /\ {"pc", "id"} \subseteq DOMAIN job' /\ job'.id = job.id
    BY <1>0, <1>6 DEF Choose, JobAt
  <2>2. {"id", "faults"} \subseteq DOMAIN pgLeft' /\ pgLeft'.id = pgLeft.id
    BY <1>0, <1>3, <1>6 DEF Choose
  <2> QED
    BY <1>0, <2>1, <2>2, QuietOnce DEF RunStage
<1>7. CASE RunBackup
  <2>1. UNCHANGED <<granted, accepted, late, pgLeft>> /\ job.pc = "backup" /\ JobTo("report")
    BY <1>7 DEF RunBackup, JobAt
  <2> QED
    BY <1>0, <1>2, <2>1, QuietOnce DEF RunStage
<1>8. CASE BackupUnobserved \/ JobEnds \/ LogRotates \/ LatchLost
  <2>1. /\ UNCHANGED <<granted, accepted, late>> /\ PgFault
        /\ job' = NoJob \/ job' = job \/ job' = Blinded
    BY <1>8 DEF BackupUnobserved, JobEnds, LogRotates, LatchLost
  <2>2. job' = Blinded => {"pc", "id"} \subseteq DOMAIN job' /\ job'.pc = job.pc /\ job'.id = job.id
    BY <1>0 DEF Blinded
  <2> QED
    BY <1>0, <1>1, <1>3, <2>1, <2>2, QuietOnce
<1>9. CASE FullAccepted
  <2>1. UNCHANGED <<granted, accepted, late>> /\ job' = NoJob /\ (UNCHANGED pgLeft \/ PgFault)
    BY <1>9 DEF FullAccepted
  <2> QED
    BY <1>0, <1>1, <1>3, <2>1, QuietOnce
<1>10. ASSUME NEW drop \in BOOLEAN, LogLine(drop)
       PROVE  OnceInv'
  <2>1. /\ UNCHANGED <<granted, accepted, late>> /\ {"id", "faults"} \subseteq DOMAIN pgLeft'
        /\ pgLeft'.id = pgLeft.id
    BY <1>0, <1>10 DEF LogLine
  <2>2. {"pc", "id"} \subseteq DOMAIN job' /\ job'.pc = job.pc /\ job'.id = job.id
    BY <1>0, <1>10 DEF LogLine
  <2> QED
    BY <1>0, <2>1, <2>2, QuietOnce
<1>11. CASE ContainerRecreated \/ Moves
  <2>1. /\ UNCHANGED <<accepted, late>>
        /\ job' = job \/ job' = NoJob
        /\ {"id", "faults"} \subseteq DOMAIN pgLeft' /\ pgLeft'.id = pgLeft.id
        /\ "completions" \in DOMAIN granted' /\ granted'.completions = granted.completions
    BY <1>0, <1>11 DEF ContainerRecreated, Moves
  <2> QED
    BY <1>0, <1>1, <2>1, QuietOnce
<1>12. CASE Report
  <2>1. job.pc = "report" /\ Recent(job.id) /\ job.id = pgLeft.id - 1
    BY <1>12 DEF Report, JobAt, OnceInv, RunStage
  <2>2. {"id", "faults"} \subseteq DOMAIN pgLeft' /\ pgLeft'.id = pgLeft.id
    BY <1>0, <1>3, <1>12 DEF Report
  <2>3. {"pc", "id"} \subseteq DOMAIN job' /\ (job'.pc \in RunStage => job'.id = job.id)
    <3>1. JobTo("clear") \/ job' = NoJob \/ job' = [job EXCEPT !.attempt = @ + 1]
      BY <1>12, Zenon DEF Report
    <3> QED
      BY <1>0, <1>1, <1>2, <3>1
  <2>4. /\ "completions" \in DOMAIN granted'
        /\ granted'.completions \in Seq(Nat) /\ accepted' \in Seq(Nat)
        /\ NewestOf(granted'.completions, accepted')
        /\ InTurn(accepted') /\ Distinct(accepted')
        /\ \A i \in DOMAIN accepted' : accepted'[i] < pgLeft.id
    <3>1. CASE RecordBackupCompletion(job.id, job.gen)
      BY <2>1, <3>1, RecordedOnce
    <3>2. CASE UNCHANGED <<granted, accepted>>
      BY <3>2 DEF OnceInv
    <3> QED
      BY <1>12, <3>1, <3>2 DEF Report
  <2>5. \A r \in late' : Recent(r.id)
    BY <1>12, <2>1 DEF Report, OnceInv
  <2> QED
    BY <1>0, <2>1, <2>2, <2>3, <2>4, <2>5 DEF OnceInv, Recent
<1>13. ASSUME NEW r \in late, LateReport(r)
       PROVE  OnceInv'
  <2>1. Recent(r.id) /\ RecordBackupCompletion(r.id, r.gen) /\ UNCHANGED <<job, pgLeft>> /\ late' \subseteq late
    BY <1>13 DEF LateReport, OnceInv
  <2> QED
    BY <2>1, RecordedOnce DEF OnceInv, Recent
<1>14. CASE UNCHANGED pgVars
  BY <1>0, <1>14, QuietOnce DEF pgVars
<1> QED
  BY <1>4, <1>5, <1>6, <1>7, <1>8, <1>9, <1>10, <1>11, <1>12, <1>13, <1>14 DEF PgNext

\* A backup's completion is accepted at most once, although the server remembers only the
\* newest MaxBackupCompletions and reports are retried, delayed and delivered after later
\* ones: for any number of runs, moves and faults, as long as no report is delayed for half
\* of MaxBackupCompletions runs.
THEOREM CompletionsAcceptedOnce == PgSpec => []AcceptedOnce
<1>1. PgInit => OnceInv
  BY PostgresConstants DEF PgInit, OnceInv, NewestOf, InTurn, Distinct, Recent, NoJob, RunStage
<1>2. OnceInv => AcceptedOnce
  BY DEF OnceInv, Distinct, AcceptedOnce
<1> QED
  BY <1>1, <1>2, OnceStep, PTL DEF PgSpec

------------------------------------------------------------------------------
(* The continuity latch.                                                   *)

LatchField == {"container", "timeline", "version", "latched", "lines", "last"}

\* The lines of a log are numbered as they are written.
LogShape ==
  /\ {"container", "timeline", "log"} \subseteq DOMAIN db /\ db.container \in Nat
  /\ db.log \in Seq(Nat) /\ Len(db.log) >= 1
  /\ {"line", "faults"} \subseteq DOMAIN pgLeft /\ pgLeft.line \in Nat
  /\ \A i \in 1 .. Len(db.log) : db.log[i] < pgLeft.line
  /\ \A i, j \in 1 .. Len(db.log) : i < j => db.log[i] < db.log[j]

OfDatabase(l) == l.container = db.container /\ l.timeline = db.timeline

\* The log says, after the lines the latch has seen, that WAL was dropped.
Unseen(l) == \E i \in l.lines + 1 .. Len(db.log) : db.log[i] \in dropped

Trusted(l) == ~l.latched

\* A cursor into this container's log: rotation has only brought later lines to its place.
CursorSound(l) ==
  (l.lines > 0 /\ l.container = db.container) =>
    /\ l.last < pgLeft.line
    /\ Len(db.log) >= l.lines => l.last <= db.log[l.lines]

LatchShape(l) ==
  /\ DOMAIN l = LatchField
  /\ l.version \in Nat /\ l.lines \in Nat /\ l.last \in Nat
  /\ l.container \in Nat /\ l.container <= db.container
  /\ Trusted(l) => l.lines > 0
  /\ CursorSound(l)

\* A drop the latch does not answer for is one its next observation finds, as a line it
\* has not seen or as a log it cannot continue.
WillNotice(l) == Unseen(l) \/ ~Continues(l)

Dirty == ~job.clean
Blind == job.blind

LatchSound ==
  /\ latch = {} \/ \E l : latch = {l}
  /\ \A l \in latch : LatchShape(l)
  /\ ~astray => \A l \in latch : (OfDatabase(l) /\ Trusted(l) /\ gap) => WillNotice(l)

JobField == {"pc", "type", "container", "timeline", "version", "clean", "gapSeen", "blind"}
Chosen == {"backup", "report", "clear"}

\* The run in progress is of the database as it is; unless it went blind, the latch is the
\* one it chose by, and of a full backup, what was dropped since it began will be noticed.
JobSound ==
  /\ JobField \subseteq DOMAIN job
  /\ job.pc \in RunStage => job.container = db.container /\ job.timeline = db.timeline
  /\ (job.pc \in Chosen /\ ~Blind) => \E l \in latch : OfDatabase(l) /\ l.version = job.version
  /\ (job.pc = "backup" /\ Dirty) => gap
  /\ (job.pc = "backup" /\ Dirty /\ ~Blind) => \A l \in latch : WillNotice(l)
  /\ (job.pc \in {"report", "clear"} /\ job.type = "full" /\ gap /\ ~Blind) =>
       \A l \in latch : WillNotice(l)
  /\ job.pc = "choose" => ~Dirty

ContinuityInv == LogShape /\ LatchSound /\ JobSound /\ DiffIsContinuous

LEMMA LogGrows ==
  ASSUME LogShape, db'.log = Append(db.log, pgLeft.line), db'.container = db.container,
         {"container", "timeline", "log"} \subseteq DOMAIN db',
         {"line", "faults"} \subseteq DOMAIN pgLeft', pgLeft'.line = pgLeft.line + 1
  PROVE  LogShape'
<1>1. /\ db'.log \in Seq(Nat) /\ Len(db'.log) = Len(db.log) + 1 /\ Len(db.log) \in Nat
      /\ \A i \in 1 .. Len(db.log) : db'.log[i] = db.log[i] /\ db.log[i] \in Nat
      /\ db'.log[Len(db.log) + 1] = pgLeft.line
  BY DEF LogShape
<1>2. \A i \in 1 .. Len(db'.log) : i \in 1 .. Len(db.log) \/ i = Len(db.log) + 1
  BY <1>1
<1>3. \A i \in 1 .. Len(db'.log) : db'.log[i] < pgLeft'.line
  BY <1>1, <1>2 DEF LogShape
<1>4. \A i, j \in 1 .. Len(db'.log) : i < j => db'.log[i] < db'.log[j]
  BY <1>1, <1>2 DEF LogShape
<1> QED
  BY <1>1, <1>3, <1>4 DEF LogShape

\* A line is written: the cursor stays, what was unseen stays unseen, and a log that no
\* longer continues never continues again.
LEMMA LineWritten ==
  ASSUME LogShape, NEW l, LatchShape(l),
         "log" \in DOMAIN db', db'.log = Append(db.log, pgLeft.line), db'.container = db.container,
         db'.timeline = db.timeline, {"container", "timeline", "log"} \subseteq DOMAIN db',
         {"line", "faults"} \subseteq DOMAIN pgLeft', pgLeft'.line = pgLeft.line + 1,
         dropped \subseteq dropped'
  PROVE  /\ LogShape' /\ LatchShape(l)'
         /\ (OfDatabase(l) /\ WillNotice(l)) => WillNotice(l)'
         /\ (OfDatabase(l) /\ pgLeft.line \in dropped') => WillNotice(l)'
<1>1. /\ db'.log \in Seq(Nat) /\ Len(db'.log) = Len(db.log) + 1 /\ Len(db.log) \in Nat
      /\ \A i \in 1 .. Len(db.log) : db'.log[i] = db.log[i] /\ db.log[i] \in Nat
      /\ db'.log[Len(db.log) + 1] = pgLeft.line
  BY DEF LogShape
<1>2. \A i \in 1 .. Len(db'.log) : i \in 1 .. Len(db.log) \/ i = Len(db.log) + 1
  BY <1>1
<1>3. LogShape'
  BY LogGrows
<1>4. CursorSound(l)'
  <2> SUFFICES ASSUME l.lines > 0, l.container = db.container
               PROVE  /\ l.last < pgLeft'.line
                      /\ Len(db'.log) >= l.lines => l.last <= db'.log[l.lines]
    BY DEF CursorSound
  <2>1. l.last < pgLeft.line /\ (Len(db.log) >= l.lines => l.last <= db.log[l.lines])
    BY DEF LatchShape, CursorSound
  <2> QED
    BY <1>1, <2>1 DEF LatchShape, LogShape
<1>5. LatchShape(l)'
  BY <1>4 DEF LatchShape, Trusted
<1>6. ASSUME OfDatabase(l), Continues(l)'
      PROVE  Continues(l) /\ l.lines <= Len(db.log)
  <2>1. CASE l.lines = 0
    BY <1>1, <2>1 DEF Continues
  <2>2. CASE l.lines # 0
    <3>1. l.lines \in Nat /\ l.lines > 0 /\ l.last < pgLeft.line /\ l.last \in Nat /\ pgLeft.line \in Nat
      BY <1>6, <2>2 DEF LatchShape, CursorSound, OfDatabase, LogShape
    <3>2. Len(db'.log) >= l.lines /\ db'.log[l.lines] = l.last
      BY <1>6, <2>2 DEF Continues
    <3>3. l.lines # Len(db.log) + 1
      BY <1>1, <3>1, <3>2
    <3>4. l.lines \in 1 .. Len(db.log)
      BY <1>1, <3>1, <3>2, <3>3
    <3> QED
      BY <1>1, <3>2, <3>4 DEF Continues
  <2> QED
    BY <2>1, <2>2
<1>7. Unseen(l) => Unseen(l)'
  <2> SUFFICES ASSUME NEW i \in l.lines + 1 .. Len(db.log), db.log[i] \in dropped
               PROVE  Unseen(l)'
    BY DEF Unseen
  <2>1. i \in 1 .. Len(db.log) /\ i \in l.lines + 1 .. Len(db'.log)
    BY <1>1 DEF LatchShape
  <2>2. db'.log[i] \in dropped'
    BY <1>1, <2>1
  <2> QED
    BY <2>1, <2>2 DEF Unseen
<1>8. ASSUME OfDatabase(l), pgLeft.line \in dropped', Continues(l)'
      PROVE  Unseen(l)'
  <2>1. Len(db.log) + 1 \in l.lines + 1 .. Len(db'.log)
    BY <1>1, <1>6, <1>8 DEF LatchShape
  <2> QED
    BY <1>1, <1>8, <2>1 DEF Unseen
<1> QED
  BY <1>3, <1>5, <1>6, <1>7, <1>8 DEF WillNotice

LEMMA LogShrinks ==
  ASSUME LogShape, Len(db.log) > 1, db'.log = Tail(db.log), db'.container = db.container,
         {"container", "timeline", "log"} \subseteq DOMAIN db',
         {"line", "faults"} \subseteq DOMAIN pgLeft', pgLeft'.line = pgLeft.line
  PROVE  LogShape'
<1>1. /\ db'.log \in Seq(Nat) /\ Len(db'.log) = Len(db.log) - 1 /\ Len(db.log) \in Nat
      /\ \A i \in 1 .. Len(db'.log) : db'.log[i] = db.log[i + 1] /\ db.log[i] \in Nat /\ db.log[i + 1] \in Nat
  BY DEF LogShape
<1>2. \A i \in 1 .. Len(db'.log) : i \in 1 .. Len(db.log) /\ i + 1 \in 1 .. Len(db.log)
  BY <1>1
<1>3. \A i \in 1 .. Len(db'.log) : db'.log[i] < pgLeft'.line
  BY <1>1, <1>2 DEF LogShape
<1>4. \A i, j \in 1 .. Len(db'.log) : i < j => db'.log[i] < db'.log[j]
  <2> SUFFICES ASSUME NEW i \in 1 .. Len(db'.log), NEW j \in 1 .. Len(db'.log), i < j
               PROVE  db'.log[i] < db'.log[j]
    OBVIOUS
  <2>1. i + 1 < j + 1 /\ i + 1 \in 1 .. Len(db.log) /\ j + 1 \in 1 .. Len(db.log)
    BY <1>1, <1>2
  <2> QED
    BY <1>1, <2>1 DEF LogShape
<1> QED
  BY <1>1, <1>3, <1>4 DEF LogShape

\* The oldest line goes: a cursor never again finds its line where it was.
LEMMA LineRotated ==
  ASSUME LogShape, NEW l, LatchShape(l), Len(db.log) > 1,
         db'.log = Tail(db.log), db'.container = db.container,
         db'.timeline = db.timeline, {"container", "timeline", "log"} \subseteq DOMAIN db',
         {"line", "faults"} \subseteq DOMAIN pgLeft', pgLeft'.line = pgLeft.line
  PROVE  /\ LogShape' /\ LatchShape(l)'
         /\ (OfDatabase(l) /\ l.lines > 0) => WillNotice(l)'
<1>1. /\ db'.log \in Seq(Nat) /\ Len(db'.log) = Len(db.log) - 1 /\ Len(db.log) \in Nat
      /\ \A i \in 1 .. Len(db'.log) : db'.log[i] = db.log[i + 1] /\ db.log[i] \in Nat /\ db.log[i + 1] \in Nat
  BY DEF LogShape
<1>2. \A i \in 1 .. Len(db'.log) : i \in 1 .. Len(db.log) /\ i + 1 \in 1 .. Len(db.log)
  BY <1>1
<1>3. LogShape'
  BY LogShrinks
<1>4. ASSUME l.lines > 0, l.container = db.container, Len(db'.log) >= l.lines
      PROVE  l.last < db'.log[l.lines]
  <2>1. l.lines \in 1 .. Len(db'.log) /\ l.last \in Nat
    BY <1>1, <1>4 DEF LatchShape
  <2>2. l.lines \in 1 .. Len(db.log) /\ l.lines + 1 \in 1 .. Len(db.log) /\ l.lines < l.lines + 1
    BY <1>2, <2>1
  <2>3. db.log[l.lines] < db.log[l.lines + 1] /\ db'.log[l.lines] = db.log[l.lines + 1]
    BY <1>1, <2>1, <2>2 DEF LogShape
  <2>4. l.last <= db.log[l.lines]
    BY <1>1, <1>4, <2>2 DEF LatchShape, CursorSound
  <2> QED
    BY <1>1, <2>1, <2>3, <2>4
<1>5. LatchShape(l)'
  <2>1. CursorSound(l)'
    <3> SUFFICES ASSUME l.lines > 0, l.container = db.container
                 PROVE  /\ l.last < pgLeft.line
                        /\ Len(db'.log) >= l.lines => l.last <= db'.log[l.lines]
      BY DEF CursorSound
    <3>1. Len(db'.log) >= l.lines => l.lines \in 1 .. Len(db'.log)
      BY <1>1 DEF LatchShape
    <3>2. Len(db'.log) >= l.lines => db'.log[l.lines] \in Nat /\ l.last \in Nat
      BY <1>1, <3>1 DEF LatchShape
    <3> QED
      BY <1>4, <3>2 DEF LatchShape, CursorSound
  <2> QED
    BY <2>1 DEF LatchShape, Trusted
<1>6. (OfDatabase(l) /\ l.lines > 0) => ~Continues(l)'
  <2> SUFFICES ASSUME OfDatabase(l), l.lines > 0, Len(db'.log) >= l.lines, db'.log[l.lines] = l.last
               PROVE  FALSE
    BY DEF Continues, LatchShape
  <2>1. l.last < l.last /\ l.last \in Nat
    BY <1>4 DEF OfDatabase, LatchShape
  <2> QED
    BY <2>1
<1> QED
  BY <1>3, <1>5, <1>6 DEF WillNotice

\* A latch of the job's database that trusts nothing.
LEMMA RebindFacts ==
  ASSUME LogShape, LatchSound, job.container = db.container, job.timeline = db.timeline
  PROVE  LET b == Rebind(latch) IN
         /\ DOMAIN b = LatchField /\ b.version \in Nat /\ b.lines = 0 /\ b.last = 0
         /\ b.container = db.container /\ b.timeline = db.timeline /\ b.latched = TRUE
         /\ \A l \in latch : b.version = l.version + 1
<1> DEFINE v == (IF latch = {} THEN 0 ELSE (CHOOSE l \in latch : TRUE).version) + 1
<1>1. v \in Nat /\ \A l \in latch : v = l.version + 1
  <2>1. CASE latch = {}
    BY <2>1
  <2>2. ASSUME NEW l, latch = {l}
        PROVE  v \in Nat /\ \A m \in latch : v = m.version + 1
    <3>1. (CHOOSE m \in latch : TRUE) = l /\ l.version \in Nat
      BY <2>2 DEF LatchSound, LatchShape
    <3> QED
      BY <2>2, <3>1
  <2> QED
    BY <2>1, <2>2 DEF LatchSound
<1> HIDE DEF v
<1>2. Rebind(latch) = [container |-> job.container, timeline |-> job.timeline, version |-> v,
                       latched |-> TRUE, lines |-> 0, last |-> 0]
  BY DEF Rebind, v
<1> QED
  BY <1>1, <1>2 DEF LatchField

\* The cursor moves to the end of the log.
Advanced(b, gone) ==
  [b EXCEPT !.version = IF gone THEN @ + 1 ELSE @, !.latched = @ \/ gone,
            !.lines = Len(db.log), !.last = db.log[Len(db.log)]]

LEMMA AdvancedFacts ==
  ASSUME NEW b, DOMAIN b = LatchField, NEW gone
  PROVE  LET o == Advanced(b, gone) IN
         /\ DOMAIN o = LatchField /\ o.container = b.container /\ o.timeline = b.timeline
         /\ o.lines = Len(db.log) /\ o.last = db.log[Len(db.log)]
         /\ o.version = IF gone THEN b.version + 1 ELSE b.version
         /\ Trusted(o) => Trusted(b) /\ ~gone
<1> DEFINE w == IF gone THEN b.version + 1 ELSE b.version
           t == b.latched \/ gone
           b1 == [b EXCEPT !.version = w]
           b2 == [b1 EXCEPT !.latched = t]
           b3 == [b2 EXCEPT !.lines = Len(db.log)]
           b4 == [b3 EXCEPT !.last = db.log[Len(db.log)]]
<1> HIDE DEF w, t
<1>1. /\ DOMAIN b1 = LatchField /\ b1.version = w /\ b1.container = b.container /\ b1.timeline = b.timeline
      /\ b1.latched = b.latched
  BY DEF LatchField
<1> HIDE DEF b1
<1>2. /\ DOMAIN b2 = LatchField /\ b2.version = w /\ b2.container = b.container /\ b2.timeline = b.timeline
      /\ b2.latched = t
  BY <1>1 DEF LatchField
<1> HIDE DEF b2
<1>3. /\ DOMAIN b4 = LatchField /\ b4.version = w /\ b4.container = b.container /\ b4.timeline = b.timeline
      /\ b4.latched = t /\ b4.lines = Len(db.log) /\ b4.last = db.log[Len(db.log)]
  BY <1>2 DEF LatchField
<1>4. Advanced(b, gone) = b4
  BY DEF Advanced, w, t, b1, b2, b3, b4
<1> HIDE DEF b4
<1>5. Trusted(b4) => Trusted(b) /\ ~gone
  BY <1>3 DEF Trusted, t
<1> QED
  BY <1>3, <1>4, <1>5 DEF w

\* Observing: what comes back trusted is a latch that was, under which nothing was dropped;
\* and the version stays only where there was nothing to notice.
LEMMA ObservedFacts ==
  ASSUME LogShape, LatchSound, job.container = db.container, job.timeline = db.timeline
  PROVE  LET o == Observed IN
         /\ LatchShape(o) /\ OfDatabase(o) /\ o.lines > 0
         /\ Trusted(o) => \E l \in latch : OfDatabase(l) /\ Trusted(l) /\ ~WillNotice(l)
         /\ \A l \in latch : (OfDatabase(l) /\ o.version = l.version) => ~WillNotice(l)
<1> DEFINE ok == \E l \in latch : Bound(l) /\ Continues(l)
           base == IF ok THEN CHOOSE l \in latch : TRUE ELSE Rebind(latch)
           gone == \E i \in base.lines + 1 .. Len(db.log) : db.log[i] \in dropped
           o == Advanced(base, gone)
<1>0. Observed = o
  BY Zenon DEF Observed, Advanced
<1>1. /\ db.log \in Seq(Nat) /\ Len(db.log) \in Nat /\ Len(db.log) >= 1 /\ db.log[Len(db.log)] \in Nat
      /\ db.log[Len(db.log)] < pgLeft.line /\ db.container \in Nat
  BY DEF LogShape
<1>2. \A l : Bound(l) <=> OfDatabase(l)
  BY DEF Bound, OfDatabase
<1>3. ASSUME DOMAIN base = LatchField, base.version \in Nat, OfDatabase(base)
      PROVE  LatchShape(o) /\ OfDatabase(o) /\ o.lines > 0
  <2> HIDE DEF base, gone
  <2>1. /\ DOMAIN o = LatchField /\ o.container = db.container /\ o.timeline = db.timeline
        /\ o.lines = Len(db.log) /\ o.last = db.log[Len(db.log)] /\ o.version \in Nat
    BY <1>3, AdvancedFacts DEF OfDatabase
  <2> HIDE DEF o
  <2> QED
    BY <1>1, <2>1 DEF LatchShape, CursorSound, OfDatabase
<1>4. CASE ok
  <2>1. PICK l \in latch : latch = {l} /\ OfDatabase(l) /\ Continues(l) /\ LatchShape(l)
    BY <1>2, <1>4 DEF LatchSound
  <2>2. base = l
    BY <1>4, <2>1
  <2>3. gone <=> Unseen(l)
    BY <2>2 DEF Unseen
  <2>4. DOMAIN base = LatchField /\ base.version \in Nat /\ OfDatabase(base)
    BY <2>1, <2>2 DEF LatchShape
  <2>5. /\ o.version = IF gone THEN base.version + 1 ELSE base.version
        /\ Trusted(o) => Trusted(base) /\ ~gone
    <3> HIDE DEF base, gone
    <3> QED
      BY <2>4, AdvancedFacts
  <2>6. Trusted(o) => \E m \in latch : OfDatabase(m) /\ Trusted(m) /\ ~WillNotice(m)
    <3> HIDE DEF base, gone, o
    <3> QED
      BY <2>1, <2>2, <2>3, <2>5 DEF WillNotice
  <2>7. o.version = l.version => ~WillNotice(l)
    <3> HIDE DEF base, gone, o
    <3> QED
      BY <2>1, <2>2, <2>3, <2>4, <2>5 DEF WillNotice
  <2>8. \A m \in latch : (OfDatabase(m) /\ o.version = m.version) => ~WillNotice(m)
    <3> HIDE DEF base, gone, o
    <3> QED
      BY <2>1, <2>7
  <2> QED
    BY <1>0, <1>3, <2>4, <2>6, <2>8
<1>5. CASE ~ok
  <2>1. base = Rebind(latch)
    BY <1>5
  <2>2. /\ DOMAIN base = LatchField /\ base.version \in Nat /\ OfDatabase(base) /\ base.latched = TRUE
        /\ \A l \in latch : base.version = l.version + 1
    BY <2>1, RebindFacts DEF OfDatabase
  <2>3. /\ o.version = IF gone THEN base.version + 1 ELSE base.version
        /\ Trusted(o) => Trusted(base)
    <3> HIDE DEF base, gone
    <3> QED
      BY <2>2, AdvancedFacts
  <2>4. ~Trusted(o)
    <3> HIDE DEF base, gone, o
    <3> QED
      BY <2>2, <2>3 DEF Trusted
  <2>5. ASSUME NEW l \in latch
        PROVE  o.version # l.version
    <3> HIDE DEF base, gone, o
    <3>1. l.version \in Nat /\ base.version = l.version + 1
      BY <2>2 DEF LatchSound, LatchShape
    <3> QED
      BY <2>3, <3>1
  <2> QED
    BY <1>0, <1>3, <2>2, <2>4, <2>5
<1> QED
  BY <1>4, <1>5

\* Nothing happens to the log or to the latch.
LEMMA LogKept ==
  ASSUME ContinuityInv, UNCHANGED <<dropped, latch, astray>>, gap' => gap,
         {"container", "timeline", "log"} \subseteq DOMAIN db', db'.log = db.log,
         db'.container = db.container, db'.timeline = db.timeline,
         {"line", "faults"} \subseteq DOMAIN pgLeft', pgLeft'.line = pgLeft.line
  PROVE  /\ LogShape' /\ LatchSound'
         /\ \A l : (OfDatabase(l)' <=> OfDatabase(l)) /\ (WillNotice(l)' <=> WillNotice(l))
<1>1. LogShape'
  BY DEF ContinuityInv, LogShape
<1>2. \A l : (OfDatabase(l)' <=> OfDatabase(l)) /\ (WillNotice(l)' <=> WillNotice(l))
  BY DEF OfDatabase, WillNotice, Unseen, Continues
<1>3. \A l \in latch : LatchShape(l)'
  BY DEF ContinuityInv, LatchSound, LatchShape, CursorSound, Trusted
<1> QED
  BY <1>1, <1>2, <1>3 DEF ContinuityInv, LatchSound

\* No run is in progress.
LEMMA NoRun ==
  ASSUME JobField \subseteq DOMAIN job', job'.pc \notin RunStage
  PROVE  JobSound' /\ DiffIsContinuous'
  BY DEF JobSound, DiffIsContinuous, RunStage, Chosen, JobAt

LEMMA NoJobRun ==
  ASSUME job' = NoJob
  PROVE  JobSound' /\ DiffIsContinuous'
<1>1. JobField \subseteq DOMAIN job' /\ job'.pc \notin RunStage
  BY DEF NoJob, RunStage, JobField
<1> QED
  BY <1>1, NoRun

\* Under a run that sees, the one latch there is is of the database.
LEMMA RunLatch ==
  ASSUME ContinuityInv, job.pc \in Chosen, ~Blind
  PROVE  \A l \in latch : OfDatabase(l) /\ l.version = job.version
<1>1. PICK l \in latch : OfDatabase(l) /\ l.version = job.version
  BY DEF ContinuityInv, JobSound
<1>2. latch = {l}
  BY <1>1 DEF ContinuityInv, LatchSound
<1> QED
  BY <1>1, <1>2

\* A job step that leaves the database, the log and the latch alone.
LEMMA QuietJob ==
  ASSUME ContinuityInv, UNCHANGED <<db, dropped, latch, gap, astray>>,
         {"line", "faults"} \subseteq DOMAIN pgLeft', pgLeft'.line = pgLeft.line,
         JobSound', DiffIsContinuous'
  PROVE  ContinuityInv'
<1>1. {"container", "timeline", "log"} \subseteq DOMAIN db
  BY DEF ContinuityInv, LogShape
<1> QED
  BY <1>1, LogKept DEF ContinuityInv

LEMMA SameJob ==
  ASSUME ContinuityInv, UNCHANGED <<db, dropped, latch, gap, astray, job>>
  PROVE  JobSound' /\ DiffIsContinuous'
<1>1. \A l : (OfDatabase(l)' <=> OfDatabase(l)) /\ (WillNotice(l)' <=> WillNotice(l))
  BY DEF OfDatabase, WillNotice, Unseen, Continues
<1>2. (Dirty' <=> Dirty) /\ (Blind' <=> Blind)
  BY DEF Dirty, Blind
<1> QED
  BY <1>1, <1>2 DEF ContinuityInv, JobSound, DiffIsContinuous, JobAt

\* The backup finishes: a full one answers for what was dropped before it began, not for
\* what was dropped while it ran.
LEMMA FinishedGap ==
  ASSUME ContinuityInv, JobAt("backup"), Finished
  PROVE  /\ gap' => gap
         /\ (job.type = "full" /\ gap' /\ ~Blind) => \A l \in latch : WillNotice(l)
<1>1. gap' = IF job.type = "full" THEN ~job.clean ELSE gap
  BY DEF Finished
<1>2. Dirty => gap /\ (~Blind => \A l \in latch : WillNotice(l))
  BY DEF ContinuityInv, JobSound, JobAt
<1>3. CASE job.type = "full"
  <2>1. gap' => Dirty
    BY <1>1, <1>3 DEF Dirty
  <2> QED
    BY <1>2, <2>1
<1>4. CASE job.type # "full"
  BY <1>1, <1>4
<1> QED
  BY <1>3, <1>4

\* A latch chosen or written by the run, of the database as it is.
LEMMA LatchWritten ==
  ASSUME ContinuityInv, UNCHANGED <<db, dropped, gap>>,
         {"line", "faults"} \subseteq DOMAIN pgLeft', pgLeft'.line = pgLeft.line,
         NEW m, latch' = {m}, LatchShape(m), (~astray' /\ Trusted(m)) => ~gap
  PROVE  LogShape' /\ LatchSound'
<1>1. LogShape'
  BY DEF ContinuityInv, LogShape
<1>2. LatchShape(m)'
  BY DEF LatchShape, CursorSound, Trusted
<1>3. ~astray' => ((OfDatabase(m)' /\ Trusted(m)' /\ gap') => WillNotice(m)')
  BY DEF Trusted
<1> QED
  BY <1>1, <1>2, <1>3 DEF LatchSound

\* The latch a failed reading of the log leaves.
LEMMA RebindShape ==
  ASSUME LogShape, LatchSound, job.container = db.container, job.timeline = db.timeline
  PROVE  LatchShape(Rebind(latch)) /\ OfDatabase(Rebind(latch)) /\ ~Trusted(Rebind(latch))
<1> DEFINE m == Rebind(latch)
<1>1. /\ DOMAIN m = LatchField /\ m.version \in Nat /\ m.lines = 0 /\ m.last = 0
      /\ m.container = db.container /\ m.timeline = db.timeline /\ m.latched = TRUE
  BY RebindFacts, Zenon
<1> HIDE DEF m
<1>2. ~Trusted(m)
  BY <1>1, Zenon DEF Trusted
<1>3. db.container \in Nat /\ 0 \in Nat /\ ~(0 > 0)
  BY DEF LogShape
<1>4. CursorSound(m) /\ OfDatabase(m)
  BY <1>1, <1>3 DEF CursorSound, OfDatabase
<1>5. LatchShape(m)
  BY <1>1, <1>2, <1>3, <1>4 DEF LatchShape
<1> QED
  BY <1>2, <1>4, <1>5 DEF m

LEMMA ChooseContinues ==
  ASSUME ContinuityInv, NEW due \in BOOLEAN, Choose(due)
  PROVE  ContinuityInv'
<1>0. /\ LogShape /\ LatchSound /\ job.pc = "choose" /\ ~Dirty /\ JobField \subseteq DOMAIN job
      /\ job.container = db.container /\ job.timeline = db.timeline
  BY DEF ContinuityInv, JobSound, Choose, JobAt, RunStage, JobField
<1>1. /\ UNCHANGED <<db, dropped, gap, astray>>
      /\ {"line", "faults"} \subseteq DOMAIN pgLeft' /\ pgLeft'.line = pgLeft.line
  BY <1>0 DEF Choose, PgFault, LogShape
<1>2. PICK m : /\ latch' = {m}
               /\ m = Observed \/ m = Rebind(latch)
               /\ job' = [job EXCEPT !.pc = "backup", !.version = m.version, !.gapSeen = gap,
                                     !.type = ChooseType(~m.latched, due)]
  <2>1. \/ latch' = {Observed}
        \/ latch' = {Rebind(latch)}
    BY DEF Choose
  <2>2. \E l \in latch' : job' = [job EXCEPT !.pc = "backup", !.version = l.version, !.gapSeen = gap,
                                     !.type = ChooseType(~l.latched, due)]
    BY DEF Choose
  <2> QED
    BY <2>1, <2>2, Zenon
<1>3. LatchShape(m) /\ OfDatabase(m) /\ ((~astray /\ Trusted(m)) => ~gap)
  <2>1. CASE m = Observed
    <3>1. /\ LatchShape(m) /\ OfDatabase(m)
          /\ Trusted(m) => \E l \in latch : OfDatabase(l) /\ Trusted(l) /\ ~WillNotice(l)
      BY <1>0, <2>1, ObservedFacts
    <3> QED
      BY <1>0, <3>1 DEF LatchSound
  <2>2. CASE m = Rebind(latch)
    BY <1>0, <2>2, RebindShape
  <2> QED
    BY <1>2, <2>1, <2>2
<1>4. LogShape' /\ LatchSound'
  BY <1>1, <1>2, <1>3, LatchWritten
<1> DEFINE ty == ChooseType(~m.latched, due)
<1>5. ty = "diff" => Trusted(m)
  BY DEF ChooseType, Trusted
<1>6. /\ JobField \subseteq DOMAIN job' /\ job'.pc = "backup" /\ job'.version = m.version /\ job'.gapSeen = gap
      /\ job'.type = ty /\ job'.clean = job.clean /\ job'.container = job.container
      /\ job'.timeline = job.timeline
  <2> HIDE DEF ty
  <2>1. job' = [job EXCEPT !.pc = "backup", !.version = m.version, !.gapSeen = gap, !.type = ty]
    BY <1>2 DEF ty
  <2> QED
    BY <1>0, <2>1 DEF JobField
<1> HIDE DEF ty
<1>7. ~Dirty'
  BY <1>0, <1>6 DEF Dirty
<1>8. OfDatabase(m)' /\ m \in latch'
  BY <1>1, <1>2, <1>3 DEF OfDatabase
<1>9. JobSound'
  BY <1>0, <1>1, <1>6, <1>7, <1>8 DEF JobSound, JobField, RunStage
<1>10. DiffIsContinuous'
  <2>1. ty = "diff" => astray' \/ ~job'.gapSeen
    BY <1>1, <1>3, <1>5, <1>6
  <2> QED
    BY <1>6, <2>1 DEF DiffIsContinuous
<1> QED
  BY <1>4, <1>9, <1>10 DEF ContinuityInv

LEMMA AcceptedContinues ==
  ASSUME ContinuityInv, FullAccepted
  PROVE  ContinuityInv'
<1>0. /\ LogShape /\ LatchSound /\ job.pc = "clear"
      /\ job.container = db.container /\ job.timeline = db.timeline
      /\ UNCHANGED <<db, dropped, gap>> /\ job' = NoJob
      /\ {"line", "faults"} \subseteq DOMAIN pgLeft' /\ pgLeft'.line = pgLeft.line
  BY DEF ContinuityInv, JobSound, FullAccepted, PgFault, JobAt, RunStage, LogShape
<1>1. JobSound' /\ DiffIsContinuous'
  BY <1>0, NoJobRun
<1>2. CASE job.type # "full"
  <2>1. UNCHANGED <<latch, astray>>
    BY <1>2 DEF FullAccepted
  <2> QED
    BY <1>0, <1>1, <2>1, QuietJob
<1>3. CASE job.type = "full" /\ latch' = {Rebind(latch)}
  <2>1. LatchShape(Rebind(latch)) /\ ~Trusted(Rebind(latch))
    BY <1>0, RebindShape
  <2> QED
    BY <1>0, <1>1, <1>3, <2>1, LatchWritten DEF ContinuityInv
<1>4. CASE /\ job.type = "full"
           /\ latch' = {[Observed EXCEPT !.latched = @ /\ Observed.version # job.version]}
  <2> DEFINE same == Observed.version = job.version
             t == Observed.latched /\ Observed.version # job.version
             m == [Observed EXCEPT !.latched = t]
  <2>1. latch' = {m}
    BY <1>4, Zenon
  <2>2. /\ LatchShape(Observed) /\ OfDatabase(Observed) /\ Observed.lines > 0
        /\ Trusted(Observed) => \E l \in latch : OfDatabase(l) /\ Trusted(l) /\ ~WillNotice(l)
        /\ \A l \in latch : (OfDatabase(l) /\ Observed.version = l.version) => ~WillNotice(l)
    BY <1>0, ObservedFacts
  <2>3. ~astray' => ~Blind
    BY <1>4 DEF FullAccepted, Blind
  <2>9. ~astray' => (gap => \A l \in latch : WillNotice(l))
    BY <1>0, <1>4, <2>3 DEF ContinuityInv, JobSound
  <2>10. (~astray' /\ same) => ~gap
    <3>1. ~astray' => \A l \in latch : OfDatabase(l) /\ l.version = job.version
      BY <1>0, <2>3, RunLatch DEF Chosen
    <3>2. ~astray' => \E l \in latch : TRUE
      BY <1>0, <2>3 DEF ContinuityInv, JobSound, Chosen
    <3> QED
      BY <2>2, <2>9, <3>1, <3>2, Zenon
  <2>4. (Trusted(Observed) \/ same) <=> ~t
    BY DEF Trusted
  <2> HIDE DEF t, same
  <2>5. /\ DOMAIN m = LatchField /\ m.version = Observed.version /\ m.lines = Observed.lines
        /\ m.last = Observed.last /\ m.container = Observed.container /\ m.timeline = Observed.timeline
        /\ m.latched = t
    <3> DEFINE ob == Observed
    <3>1. DOMAIN ob = LatchField
      BY <2>2 DEF LatchShape
    <3> HIDE DEF ob
    <3>2. m = [ob EXCEPT !.latched = t]
      BY DEF ob
    <3>3. /\ DOMAIN m = LatchField /\ m.version = ob.version /\ m.lines = ob.lines
          /\ m.last = ob.last /\ m.container = ob.container /\ m.timeline = ob.timeline
          /\ m.latched = t
      BY <3>1, <3>2 DEF LatchField
    <3> QED
      BY <3>3 DEF ob
  <2> HIDE DEF m
  <2>6. (~astray' /\ Trusted(m)) => ~gap
    <3>1. Trusted(m) => Trusted(Observed) \/ same
      BY <2>4, <2>5 DEF Trusted
    <3> QED
      BY <2>2, <2>9, <2>10, <3>1
  <2>7. LatchShape(m)
    BY <2>2, <2>5 DEF LatchShape, CursorSound
  <2> QED
    BY <1>0, <1>1, <2>1, <2>6, <2>7, LatchWritten DEF ContinuityInv
<1> QED
  BY <1>2, <1>3, <1>4 DEF FullAccepted

\* The fields of the run stay as they are but for the step it has reached.
LEMMA JobMoves ==
  ASSUME ContinuityInv, NEW pc, JobTo(pc)
  PROVE  /\ JobField \subseteq DOMAIN job' /\ job'.pc = pc /\ job'.type = job.type
         /\ job'.container = job.container /\ job'.timeline = job.timeline
         /\ job'.version = job.version /\ (Dirty' <=> Dirty) /\ (Blind' <=> Blind)
<1>1. /\ JobField \subseteq DOMAIN job' /\ job'.pc = pc /\ job'.type = job.type
      /\ job'.container = job.container /\ job'.timeline = job.timeline
      /\ job'.version = job.version /\ job'.clean = job.clean /\ job'.blind = job.blind
  BY DEF ContinuityInv, JobSound, JobTo, JobField
<1> QED
  BY <1>1 DEF Dirty, Blind

\* A step of the placement or between runs: the database keeps its log and its container.
LEMMA PlacementContinues ==
  ASSUME ContinuityInv, UNCHANGED <<dropped, latch, gap, astray, pgLeft>>,
         \/ UNCHANGED db
         \/ \E v : db' = [db EXCEPT !.setting = v]
         \/ \E v : db' = [db EXCEPT !.live = v],
         \/ job' = NoJob
         \/ \E pc : JobTo(pc) /\ pc \notin RunStage
  PROVE  ContinuityInv'
<1>1. /\ {"container", "timeline", "log"} \subseteq DOMAIN db' /\ db'.log = db.log
      /\ db'.container = db.container /\ db'.timeline = db.timeline
  BY DEF ContinuityInv, LogShape
<1>2. {"line", "faults"} \subseteq DOMAIN pgLeft' /\ pgLeft'.line = pgLeft.line
  BY DEF ContinuityInv, LogShape
<1>3. JobSound' /\ DiffIsContinuous'
  <2>1. CASE job' = NoJob
    BY <2>1, NoJobRun
  <2>2. ASSUME NEW pc, JobTo(pc), pc \notin RunStage
        PROVE  JobSound' /\ DiffIsContinuous'
    <3>1. JobField \subseteq DOMAIN job' /\ job'.pc \notin RunStage
      BY <2>2, JobMoves
    <3> QED
      BY <3>1, NoRun DEF JobField
  <2> QED
    BY <2>1, <2>2
<1>4. LogShape' /\ LatchSound'
  BY <1>1, <1>2, LogKept
<1> QED
  BY <1>3, <1>4 DEF ContinuityInv

LEMMA BackupContinues ==
  ASSUME ContinuityInv, JobAt("backup"), Finished, UNCHANGED <<db, dropped, latch, astray>>,
         {"line", "faults"} \subseteq DOMAIN pgLeft', pgLeft'.line = pgLeft.line,
         job' = NoJob \/ JobTo("report")
  PROVE  ContinuityInv'
<1>1. /\ gap' => gap
      /\ (job.type = "full" /\ gap' /\ ~Blind) => \A l \in latch : WillNotice(l)
  BY FinishedGap
<1>2. /\ LogShape' /\ LatchSound'
      /\ \A l : (OfDatabase(l)' <=> OfDatabase(l)) /\ (WillNotice(l)' <=> WillNotice(l))
  <2>1. /\ {"container", "timeline", "log"} \subseteq DOMAIN db' /\ db'.log = db.log
        /\ db'.container = db.container /\ db'.timeline = db.timeline
    BY DEF ContinuityInv, LogShape
  <2> QED
    BY <1>1, <2>1, LogKept
<1>3. JobSound' /\ DiffIsContinuous'
  <2>1. CASE job' = NoJob
    BY <2>1, NoJobRun
  <2>2. CASE JobTo("report")
    <3>1. /\ JobField \subseteq DOMAIN job' /\ job'.pc = "report" /\ job'.type = job.type
          /\ job'.container = job.container /\ job'.timeline = job.timeline
          /\ job'.version = job.version /\ (Blind' <=> Blind)
      BY <2>2, JobMoves
    <3>2. /\ job.container = db.container /\ job.timeline = db.timeline
          /\ ~Blind => \E l \in latch : OfDatabase(l) /\ l.version = job.version
      BY DEF ContinuityInv, JobSound, JobAt, RunStage, Chosen
    <3>3. JobSound'
      BY <1>1, <1>2, <3>1, <3>2 DEF JobSound, JobField
    <3>4. DiffIsContinuous'
      BY <3>1 DEF DiffIsContinuous, JobAt
    <3> QED
      BY <3>3, <3>4
  <2> QED
    BY <2>1, <2>2
<1> QED
  BY <1>2, <1>3 DEF ContinuityInv

LEMMA ReportContinues ==
  ASSUME ContinuityInv, Report
  PROVE  ContinuityInv'
<1>1. /\ job.pc = "report" /\ UNCHANGED <<db, dropped, latch, gap, astray>>
      /\ {"line", "faults"} \subseteq DOMAIN pgLeft' /\ pgLeft'.line = pgLeft.line
  BY DEF Report, JobAt, PgFault, ContinuityInv, LogShape
<1>2. \/ job' = NoJob
      \/ JobTo("clear")
      \/ job' = [job EXCEPT !.attempt = job.attempt + 1]
  BY Zenon DEF Report
<1>3. JobSound' /\ DiffIsContinuous'
  <2>1. CASE job' = NoJob
    BY <2>1, NoJobRun
  <2>2. CASE JobTo("clear") \/ job' = [job EXCEPT !.attempt = job.attempt + 1]
    <3>1. /\ JobField \subseteq DOMAIN job' /\ job'.pc \in {"report", "clear"} /\ job'.type = job.type
          /\ job'.container = job.container /\ job'.timeline = job.timeline
          /\ job'.version = job.version /\ job'.blind = job.blind
      BY <1>1, <2>2 DEF ContinuityInv, JobSound, JobTo, JobField
    <3>2. \A l : (OfDatabase(l)' <=> OfDatabase(l)) /\ (WillNotice(l)' <=> WillNotice(l))
      BY <1>1 DEF OfDatabase, WillNotice, Unseen, Continues
    <3>5. Blind' <=> Blind
      BY <3>1 DEF Blind
    <3>3. JobSound'
      BY <1>1, <3>1, <3>2, <3>5 DEF ContinuityInv, JobSound, JobField, RunStage, Chosen
    <3>4. DiffIsContinuous'
      BY <3>1 DEF DiffIsContinuous, JobAt
    <3> QED
      BY <3>3, <3>4
  <2> QED
    BY <1>2, <2>1, <2>2
<1> QED
  BY <1>1, <1>3, QuietJob

\* A line is logged: what it says is unseen by every latch of the database.
LEMMA LineContinues ==
  ASSUME ContinuityInv, NEW drop \in BOOLEAN, LogLine(drop)
  PROVE  ContinuityInv'
<1>1. /\ db'.log = Append(db.log, pgLeft.line) /\ db'.container = db.container
      /\ db'.timeline = db.timeline /\ {"container", "timeline", "log"} \subseteq DOMAIN db'
      /\ {"line", "faults"} \subseteq DOMAIN pgLeft' /\ pgLeft'.line = pgLeft.line + 1
  BY DEF LogLine, ContinuityInv, LogShape
<1>2. /\ dropped \subseteq dropped' /\ UNCHANGED <<latch, astray>> /\ (drop => pgLeft.line \in dropped')
  BY DEF LogLine
<1>3. gap' => gap \/ drop
  BY DEF LogLine
<1>4. ASSUME NEW l \in latch
      PROVE  /\ LatchShape(l)'
             /\ (OfDatabase(l) /\ WillNotice(l)) => WillNotice(l)'
             /\ (OfDatabase(l) /\ drop) => WillNotice(l)'
  BY <1>1, <1>2, LineWritten DEF ContinuityInv, LatchSound
<1>5. \A l : OfDatabase(l)' <=> OfDatabase(l)
  BY <1>1 DEF OfDatabase
<1>6. LogShape'
  BY <1>1, LogGrows DEF ContinuityInv
<1>7. LatchSound'
  BY <1>2, <1>3, <1>4, <1>5 DEF ContinuityInv, LatchSound, Trusted
<1> DEFINE c == job.clean /\ ~(drop /\ JobAt("backup"))
<1>8. /\ JobField \subseteq DOMAIN job' /\ job'.pc = job.pc /\ job'.type = job.type
      /\ job'.container = job.container /\ job'.timeline = job.timeline
      /\ job'.version = job.version /\ job'.gapSeen = job.gapSeen /\ job'.clean = c
      /\ job'.blind = job.blind
  <2>1. job' = [job EXCEPT !.clean = c]
    BY DEF LogLine
  <2> HIDE DEF c
  <2> QED
    BY <2>1 DEF ContinuityInv, JobSound, JobField
<1>9. Dirty' => Dirty \/ (drop /\ job.pc = "backup")
  BY <1>8 DEF Dirty, JobAt
<1> HIDE DEF c
<1>10. (gap \/ drop) => gap'
  BY DEF LogLine
<1>11. (job.pc \in Chosen /\ ~Blind) => \A l \in latch : OfDatabase(l) /\ l.version = job.version
  BY RunLatch
<1>14. Blind' <=> Blind
  BY <1>8 DEF Blind
<1>12. JobSound'
  <2>1. job'.pc \in RunStage => job'.container = db'.container /\ job'.timeline = db'.timeline
    BY <1>1, <1>8 DEF ContinuityInv, JobSound
  <2>2. (job'.pc \in Chosen /\ ~Blind') => \E l \in latch' : OfDatabase(l)' /\ l.version = job'.version
    BY <1>2, <1>5, <1>8, <1>14 DEF ContinuityInv, JobSound
  <2>3. (job'.pc = "backup" /\ Dirty') => gap'
    BY <1>8, <1>9, <1>10 DEF ContinuityInv, JobSound
  <2>6. (job'.pc = "backup" /\ Dirty' /\ ~Blind') => \A l \in latch' : WillNotice(l)'
    BY <1>2, <1>4, <1>8, <1>9, <1>11, <1>14 DEF ContinuityInv, JobSound, Chosen
  <2>4. (job'.pc \in {"report", "clear"} /\ job'.type = "full" /\ gap' /\ ~Blind') =>
          \A l \in latch' : WillNotice(l)'
    BY <1>2, <1>3, <1>4, <1>8, <1>11, <1>14 DEF ContinuityInv, JobSound, Chosen
  <2>5. job'.pc = "choose" => ~Dirty'
    BY <1>8, <1>9 DEF ContinuityInv, JobSound
  <2> QED
    BY <1>8, <2>1, <2>2, <2>3, <2>4, <2>5, <2>6 DEF JobSound, JobField
<1>13. DiffIsContinuous'
  BY <1>2, <1>8 DEF ContinuityInv, DiffIsContinuous, JobAt
<1> QED
  BY <1>6, <1>7, <1>12, <1>13 DEF ContinuityInv

\* What making the run blind leaves as it was.
LEMMA BlindedJob ==
  ASSUME JobSound, job' \in {job, Blinded}
  PROVE  /\ JobField \subseteq DOMAIN job' /\ job'.pc = job.pc /\ job'.type = job.type
         /\ job'.container = job.container /\ job'.timeline = job.timeline
         /\ job'.version = job.version /\ job'.gapSeen = job.gapSeen /\ (Dirty' <=> Dirty)
         /\ (job' = Blinded /\ job.pc \in Chosen) => Blind'
         /\ job' = job => (Blind' <=> Blind)
<1> DEFINE b == job.pc \in Chosen
<1>1. CASE job' = Blinded
  <2>1. job' = [job EXCEPT !.blind = b]
    BY <1>1 DEF Blinded, Chosen
  <2> HIDE DEF b
  <2>2. /\ JobField \subseteq DOMAIN job' /\ job'.pc = job.pc /\ job'.type = job.type
        /\ job'.container = job.container /\ job'.timeline = job.timeline
        /\ job'.version = job.version /\ job'.gapSeen = job.gapSeen /\ job'.clean = job.clean
        /\ job'.blind = b
    BY <2>1 DEF JobSound, JobField
  <2>3. b => Blind'
    BY <2>2 DEF Blind
  <2>4. job' = job => (Blind' <=> Blind)
    BY DEF Blind
  <2> QED
    BY <2>2, <2>3, <2>4 DEF Dirty, b
<1>2. CASE job' = job
  <2>1. (job.blind = TRUE) => Blind'
    BY <1>2 DEF Blind
  <2>2. job' = Blinded => job.blind = (job.pc \in Chosen)
    <3>1. job' = Blinded => job = [job EXCEPT !.blind = b]
      BY <1>2 DEF Blinded, Chosen
    <3> HIDE DEF b
    <3>2. job' = Blinded => job.blind = b
      BY <3>1 DEF JobSound, JobField
    <3> QED
      BY <3>2 DEF b
  <2> QED
    BY <1>2, <2>1, <2>2 DEF Dirty, Blind, JobSound
<1> QED
  BY <1>1, <1>2

\* A line rotates away: every latch with a cursor into the log is one that no longer
\* continues, and a run that goes by another is blind.
LEMMA RotationContinues ==
  ASSUME ContinuityInv, LogRotates
  PROVE  ContinuityInv'
<1>1. /\ Len(db.log) > 1 /\ db'.log = Tail(db.log) /\ db'.container = db.container
      /\ db'.timeline = db.timeline /\ {"container", "timeline", "log"} \subseteq DOMAIN db'
      /\ {"line", "faults"} \subseteq DOMAIN pgLeft' /\ pgLeft'.line = pgLeft.line
  BY DEF LogRotates, PgFault, ContinuityInv, LogShape
<1>2. UNCHANGED <<dropped, latch, gap, astray>> /\ job' \in {job, Blinded}
  BY DEF LogRotates
<1>11. /\ JobField \subseteq DOMAIN job' /\ job'.pc = job.pc /\ job'.type = job.type
       /\ job'.container = job.container /\ job'.timeline = job.timeline
       /\ job'.version = job.version /\ job'.gapSeen = job.gapSeen /\ (Dirty' <=> Dirty)
       /\ (job' = Blinded /\ job.pc \in Chosen) => Blind'
       /\ job' = job => (Blind' <=> Blind)
  BY <1>2, BlindedJob DEF ContinuityInv
<1>3. ASSUME NEW l \in latch
      PROVE  /\ LatchShape(l)' /\ (Trusted(l) => l.lines > 0)
             /\ (OfDatabase(l) /\ l.lines > 0) => WillNotice(l)'
  BY <1>1, LineRotated DEF ContinuityInv, LatchSound, LatchShape
<1>4. \A l : OfDatabase(l)' <=> OfDatabase(l)
  BY <1>1 DEF OfDatabase
<1>5. LogShape'
  BY <1>1, LogShrinks DEF ContinuityInv
<1>6. LatchSound'
  BY <1>2, <1>3, <1>4 DEF ContinuityInv, LatchSound, Trusted
\* A run that still sees chose by a latch with a cursor.
<1>7. (job.pc \in Chosen /\ ~Blind') => ~Blind /\ \A l \in latch : l.lines # 0
  BY <1>11 DEF LogRotates
<1>8. (job.pc \in Chosen /\ ~Blind') => \A l \in latch : WillNotice(l)'
  <2>1. (job.pc \in Chosen /\ ~Blind') => \A l \in latch : OfDatabase(l) /\ l.lines # 0
    BY <1>7, RunLatch
  <2>2. \A l \in latch : l.lines \in Nat
    BY DEF ContinuityInv, LatchSound, LatchShape
  <2> QED
    BY <1>3, <2>1, <2>2
<1>9. JobSound'
  <2>1. (job'.pc \in Chosen /\ ~Blind') => \E l \in latch' : OfDatabase(l)' /\ l.version = job'.version
    BY <1>2, <1>4, <1>7, <1>11 DEF ContinuityInv, JobSound
  <2> QED
    BY <1>1, <1>2, <1>8, <1>11, <2>1 DEF ContinuityInv, JobSound, Chosen
<1>10. DiffIsContinuous'
  BY <1>2, <1>11 DEF ContinuityInv, DiffIsContinuous, JobAt
<1> QED
  BY <1>5, <1>6, <1>9, <1>10 DEF ContinuityInv

\* A new container: no latch there is of it, and no run is in progress.
LEMMA FreshContinues ==
  ASSUME ContinuityInv, NEW t, db' = Fresh(db.container + 1, t),
         latch' \in {latch, {}}, UNCHANGED astray, {"line", "faults"} \subseteq DOMAIN pgLeft',
         pgLeft'.line = pgLeft.line + 1, job'.pc \notin RunStage, JobField \subseteq DOMAIN job'
  PROVE  ContinuityInv'
<1>1. /\ db'.container = db.container + 1 /\ db.container \in Nat /\ db'.log = <<pgLeft.line>>
      /\ {"container", "timeline", "log"} \subseteq DOMAIN db' /\ pgLeft.line \in Nat
  <2> DEFINE d1 == [db EXCEPT !.container = db.container + 1, !.timeline = t]
  <2>1. db' = [d1 EXCEPT !.log = <<pgLeft.line>>, !.live = db.setting]
    BY DEF Fresh
  <2>2. {"container", "timeline", "log"} \subseteq DOMAIN d1 /\ d1.container = db.container + 1
    BY DEF ContinuityInv, LogShape
  <2> HIDE DEF d1
  <2> QED
    BY <2>1, <2>2 DEF ContinuityInv, LogShape
<1>2. LogShape'
  <2>0. \A n \in Nat : <<n>> \in Seq(Nat) /\ Len(<<n>>) = 1 /\ <<n>>[1] = n
    OBVIOUS
  <2>1. db'.log \in Seq(Nat) /\ Len(db'.log) = 1 /\ db'.log[1] = pgLeft.line
    BY <1>1, <2>0, Zenon
  <2>2. \A i \in 1 .. Len(db'.log) : i = 1
    <3>1. \A i \in 1 .. 1 : i = 1
      OBVIOUS
    <3> QED
      BY <2>1, <3>1, Zenon
  <2>3. /\ \A i \in 1 .. Len(db'.log) : db'.log[i] < pgLeft'.line
        /\ \A i, j \in 1 .. Len(db'.log) : i < j => db'.log[i] < db'.log[j]
    BY <1>1, <2>1, <2>2
  <2> QED
    BY <1>1, <2>1, <2>3 DEF LogShape
<1>3. ASSUME NEW l \in latch
      PROVE  LatchShape(l)' /\ ~OfDatabase(l)'
  <2>1. l.container \in Nat /\ l.container <= db.container /\ l.container # db'.container
    BY <1>1 DEF ContinuityInv, LatchSound, LatchShape
  <2>2. CursorSound(l)' /\ ~OfDatabase(l)' /\ l.container <= db'.container
    BY <1>1, <2>1 DEF CursorSound, OfDatabase
  <2>3. LatchShape(l)
    BY DEF ContinuityInv, LatchSound
  <2> QED
    BY <2>2, <2>3 DEF LatchShape, Trusted
<1>4. LatchSound'
  BY <1>3 DEF ContinuityInv, LatchSound
<1>5. JobSound' /\ DiffIsContinuous'
  BY NoRun DEF JobField
<1> QED
  BY <1>2, <1>4, <1>5 DEF ContinuityInv

LEMMA ContinuityInit == PgInit => ContinuityInv
<1> SUFFICES ASSUME PgInit
             PROVE  ContinuityInv
  OBVIOUS
<1>1. LogShape
  BY DEF PgInit, LogShape
<1>2. LatchSound
  BY DEF PgInit, LatchSound
<1>3. JobSound /\ DiffIsContinuous
  BY DEF PgInit, NoJob, JobSound, RunStage, Chosen, JobField, DiffIsContinuous, JobAt
<1> QED
  BY <1>1, <1>2, <1>3 DEF ContinuityInv

LEMMA ContinuityStep == ContinuityInv /\ [PgNext]_pgVars => ContinuityInv'
<1> SUFFICES ASSUME ContinuityInv, [PgNext]_pgVars
             PROVE  ContinuityInv'
  OBVIOUS
<1>0. /\ {"line", "faults"} \subseteq DOMAIN pgLeft /\ pgLeft.line \in Nat
      /\ JobField \subseteq DOMAIN job
  BY DEF ContinuityInv, LogShape, JobSound, JobField
<1>1. CASE PlaceBegins
  <2>1. JobField \subseteq DOMAIN job' /\ job'.pc \notin RunStage
    BY <1>1 DEF PlaceBegins, NoJob, JobField, RunStage
  <2>2. JobSound' /\ DiffIsContinuous'
    BY <2>1, NoRun DEF JobField
  <2> QED
    BY <1>0, <1>1, <2>2, QuietJob DEF PlaceBegins
<1>2. CASE RecordStanza
  BY <1>2, PlacementContinues DEF RecordStanza, RunStage
<1>3. CASE StanzaCreate
  BY <1>3, PlacementContinues DEF StanzaCreate, RunStage
<1>4. CASE EnableArchiving
  BY <1>4, PlacementContinues DEF EnableArchiving, RunStage
<1>5. CASE RestartDatabase
  BY <1>5, PlacementContinues DEF RestartDatabase, RunStage
<1>6. CASE ReportPlaced
  BY <1>6, PlacementContinues DEF ReportPlaced
<1>7. CASE RunBegins
  <2>1. /\ JobField \subseteq DOMAIN job' /\ job'.pc = "choose" /\ job'.clean = TRUE
        /\ job'.container = db.container /\ job'.timeline = db.timeline
    <3> DEFINE c == TRUE
    <3>1. NoJob = [pc |-> "idle", gen |-> 0, container |-> 0, timeline |-> 0, version |-> 0,
          type |-> "none", gapSeen |-> FALSE, clean |-> c, blind |-> FALSE, id |-> 0, attempt |-> 0]
      BY DEF NoJob
    <3> HIDE DEF c
    <3>2. /\ JobField \subseteq DOMAIN job' /\ job'.pc = "choose" /\ job'.clean = c
          /\ job'.container = db.container /\ job'.timeline = db.timeline
      BY <1>7, <3>1 DEF RunBegins, JobField
    <3> QED
      BY <3>2 DEF c
  <2>2. ~Dirty'
    BY <2>1, Zenon DEF Dirty
  <2>3. UNCHANGED <<db, dropped, latch, gap, astray>>
    BY <1>7 DEF RunBegins
  <2>4. {"line", "faults"} \subseteq DOMAIN pgLeft' /\ pgLeft'.line = pgLeft.line
    BY <1>0, <1>7 DEF RunBegins
  <2>5. JobSound'
    BY <2>1, <2>2, <2>3 DEF JobSound, JobField, Chosen
  <2>6. DiffIsContinuous'
    BY <2>1 DEF DiffIsContinuous, JobAt
  <2> QED
    BY <2>3, <2>4, <2>5, <2>6, QuietJob
<1>8. ASSUME NEW due \in BOOLEAN, Choose(due)
      PROVE  ContinuityInv'
  BY <1>8, ChooseContinues
<1>9. CASE RunBackup
  BY <1>0, <1>9, BackupContinues DEF RunBackup
<1>10. CASE BackupUnobserved
  <2>1. {"line", "faults"} \subseteq DOMAIN pgLeft' /\ pgLeft'.line = pgLeft.line
    BY <1>0, <1>10 DEF BackupUnobserved, PgFault
  <2> QED
    BY <1>10, <2>1, BackupContinues DEF BackupUnobserved
<1>11. CASE Report
  BY <1>11, ReportContinues
<1>12. ASSUME NEW r \in late, LateReport(r)
       PROVE  ContinuityInv'
  BY <1>0, <1>12, SameJob, QuietJob DEF LateReport
<1>13. CASE FullAccepted
  BY <1>13, AcceptedContinues
<1>14. CASE JobEnds
  <2>1. {"line", "faults"} \subseteq DOMAIN pgLeft' /\ pgLeft'.line = pgLeft.line
    BY <1>0, <1>14 DEF JobEnds, PgFault
  <2>2. JobSound' /\ DiffIsContinuous'
    BY <1>14, NoJobRun DEF JobEnds
  <2> QED
    BY <1>14, <2>1, <2>2, QuietJob DEF JobEnds
<1>15. ASSUME NEW drop \in BOOLEAN, LogLine(drop)
       PROVE  ContinuityInv'
  BY <1>15, LineContinues
<1>16. CASE LogRotates
  BY <1>16, RotationContinues
<1>17. CASE LatchLost
  <2>1. /\ {"line", "faults"} \subseteq DOMAIN pgLeft' /\ pgLeft'.line = pgLeft.line
        /\ UNCHANGED <<db, dropped, gap, astray>> /\ latch' = {} /\ job' = Blinded
    BY <1>0, <1>17 DEF LatchLost, PgFault
  <2>2. /\ JobField \subseteq DOMAIN job' /\ job'.pc = job.pc /\ job'.type = job.type
        /\ job'.container = job.container /\ job'.timeline = job.timeline
        /\ job'.version = job.version /\ job'.gapSeen = job.gapSeen /\ (Dirty' <=> Dirty)
        /\ job.pc \in Chosen => Blind'
    BY <2>1, BlindedJob DEF ContinuityInv
  <2>3. LogShape'
    BY <2>1 DEF ContinuityInv, LogShape
  <2>4. LatchSound'
    BY <2>1 DEF LatchSound
  <2>5. JobSound'
    BY <2>1, <2>2 DEF ContinuityInv, JobSound, Chosen
  <2>6. DiffIsContinuous'
    BY <2>1, <2>2 DEF ContinuityInv, DiffIsContinuous, JobAt
  <2> QED
    BY <2>3, <2>4, <2>5, <2>6 DEF ContinuityInv
<1>18. CASE ContainerRecreated
  <2>1. /\ {"line", "faults"} \subseteq DOMAIN pgLeft' /\ pgLeft'.line = pgLeft.line + 1
        /\ UNCHANGED <<latch, astray, job>> /\ job'.pc \notin RunStage
    BY <1>0, <1>18 DEF ContainerRecreated, JobAt, RunStage
  <2>2. db' = Fresh(db.container + 1, db.timeline)
    BY <1>18 DEF ContainerRecreated
  <2> QED
    BY <1>0, <2>1, <2>2, FreshContinues
<1>19. CASE Moves
  <2>1. /\ {"line", "faults"} \subseteq DOMAIN pgLeft' /\ pgLeft'.line = pgLeft.line + 1
        /\ latch' \in {latch, {}} /\ UNCHANGED astray
    BY <1>0, <1>19 DEF Moves
  <2>2. JobField \subseteq DOMAIN job' /\ job'.pc \notin RunStage
    BY <1>19 DEF Moves, NoJob, JobField, RunStage
  <2>3. db' = Fresh(db.container + 1, db.timeline + 1)
    BY <1>19 DEF Moves
  <2> QED
    BY <2>1, <2>2, <2>3, FreshContinues
<1>20. CASE UNCHANGED pgVars
  BY <1>0, <1>20, SameJob, QuietJob DEF pgVars
<1> QED
  BY <1>1, <1>2, <1>3, <1>4, <1>5, <1>6, <1>7, <1>8, <1>9, <1>10, <1>11, <1>12, <1>13, <1>14,
     <1>15, <1>16, <1>17, <1>18, <1>19, <1>20 DEF PgNext

\* A differential backup is chosen only when no WAL was dropped since the newest full
\* backup began (observe and chooseType of pgdiff.go), whatever lines the log rotates away,
\* whenever the latch file or the container is lost, and wherever a run ends; unless the
\* last full accepted was of a run during which the latch was lost, or the log rotated
\* under a latch that had not been able to read it.
THEOREM DifferentialsAreContinuous == PgSpec => []DiffIsContinuous
<1>1. ContinuityInv => DiffIsContinuous
  BY DEF ContinuityInv
<1> QED
  BY <1>1, ContinuityInit, ContinuityStep, PTL DEF PgSpec
================================================================================
