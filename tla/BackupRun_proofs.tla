--------------------------- MODULE BackupRun_proofs ---------------------------
(***************************************************************************)
(* BackupRun implements RestorePoint, for any number of Nodes, volumes and *)
(* retained generations, and prunes no generation of another lifetime.     *)
(***************************************************************************)
EXTENDS BackupRun, FiniteSetTheorems, WellFoundedInduction, TLAPS

\* A nonempty set of numbers has a smallest.
LEMMA LeastNat ==
  ASSUME NEW T \in SUBSET Nat, T # {}
  PROVE  \E x \in T : \A y \in T : x <= y
<1> DEFINE R == OpToRel(<, Nat)
<1>1. IsWellFoundedOn(R, Nat)
  BY NatLessThanWellFounded
<1>2. \A x, y \in Nat : y < x => <<y, x>> \in R
  BY DEF OpToRel
<1> HIDE DEF R
<1>3. PICK x \in T : \A y \in T : ~ (<<y, x>> \in R)
  BY <1>1, WFMin
<1>4. \A y \in T : ~(y < x)
  BY <1>2, <1>3
<1> QED
  BY <1>4

\* A nonempty set of numbers with a bound has a largest.
LEMMA GreatestNat ==
  ASSUME NEW T \in SUBSET Nat, T # {}, NEW b \in Nat, \A x \in T : x <= b
  PROVE  \E x \in T : \A y \in T : y <= x
<1> DEFINE D == {b - x : x \in T}
<1>0. PICK z : z \in T
  OBVIOUS
<1>1. D \in SUBSET Nat /\ D # {}
  <2>1. \A x \in T : b - x \in Nat
    OBVIOUS
  <2>2. b - z \in D
    BY <1>0
  <2> QED
    BY <2>1, <2>2
<1>2. PICK d \in D : \A y \in D : d <= y
  BY <1>1, LeastNat
<1>3. PICK x \in T : d = b - x
  OBVIOUS
<1>4. \A y \in T : b - y \in D
  OBVIOUS
<1>5. \A y \in T : y <= x
  BY <1>2, <1>3, <1>4
<1> QED
  BY <1>5

------------------------------------------------------------------------------
(* The invariant.                                                          *)

Grant == [uid: Nat, gen: Nat]
Objects == [manifest: Nat, whole: SUBSET Volume, short: SUBSET Volume]
Step == {"idle", "claimed", "capture", "commit", "prune", "delete"}
RunRecord == [pc: Step, of: Grant, id: Nat, doomed: SUBSET [id: Nat, listed: Objects]]

\* Assignments in the order they are granted, lifetime by lifetime.
Leq(a, b) == a.uid < b.uid \/ (a.uid = b.uid /\ a.gen <= b.gen)
Before(a, b) == Leq(a, b) /\ a # b

Active(n) == run[n].pc # "idle"
Begun(n) == run[n].pc \in {"claimed", "capture", "commit"}
Writing(n) == run[n].pc \in {"claimed", "capture"}
Pruning(n) == run[n].pc \in {"prune", "delete"}

BackupType ==
  /\ DOMAIN record = {"uid", "node", "gen", "terminating", "committed"}
  /\ record.uid \in Nat /\ record.uid # 0 /\ record.gen \in Nat /\ record.committed \in Nat
  /\ issued \in Nat /\ limit \in Limits /\ issued <= limit.runs /\ record.uid <= limit.uids
  /\ bucket \in [ID -> Objects] /\ entry \in [Node -> Grant] /\ run \in [Node -> RunRecord]
  /\ lateCommits \subseteq [node: Node, of: Grant, id: Nat]

\* What an Agent works for was granted to its Node; of what is granted now, to no other.
Granted ==
  /\ \A n \in Node : Leq(entry[n], Assignment) /\ (entry[n] # Gone => entry[n].uid # 0)
  /\ \A n \in Node : Active(n) => Leq(run[n].of, Assignment) /\ run[n].of.uid # 0
  /\ \A c \in lateCommits : Leq(c.of, Assignment)
  /\ \A n \in Node : entry[n] = Assignment => record.node = n
  /\ \A n \in Node : (Active(n) /\ run[n].of = Assignment) => record.node = n
  /\ \A c \in lateCommits : c.of = Assignment => record.node = c.node

IdsIssued ==
  /\ \A n \in Node : Active(n) => run[n].id \in 1..issued
  /\ \A c \in lateCommits : c.id \in 1..issued /\ ~Active(c.node)
  /\ \A i \in ID : bucket[i] # NoObjects => i <= issued

\* A generation being written is its run's alone, and has no manifest and nothing short.
WritingSound == \A n \in Node : Writing(n) =>
  /\ bucket[run[n].id].manifest = 0 /\ bucket[run[n].id].short = {}
  /\ \A m \in Node : (Writing(m) /\ run[m].id = run[n].id) => m = n

IsWhole(i, uid) == bucket[i].manifest = uid /\ bucket[i].whole = Volume

\* A commit the server would accept, from a run or late, is of a complete generation.
CommitSound ==
  /\ \A n \in Node : (run[n].pc = "commit" /\ run[n].of = Assignment) => IsWhole(run[n].id, record.uid)
  /\ \A c \in lateCommits : c.of = Assignment => IsWhole(c.id, record.uid)
  /\ record.committed # 0 => record.committed \in 1..issued /\ IsWhole(record.committed, record.uid)

\* While an Agent prunes, a run of a later assignment has a later ID, by at most Retain.
PruneOrder == \A n \in Node : Pruning(n) =>
  /\ \A m \in Node : (Begun(m) /\ Before(run[n].of, run[m].of)) =>
       run[n].id < run[m].id /\ issued - run[n].id <= Retain
  /\ \A c \in lateCommits : Before(run[n].of, c.of) =>
       run[n].id < c.id /\ issued - run[n].id <= Retain
  /\ run[n].of.uid = record.uid =>
       \/ run[n].id = record.committed
       \/ run[n].id < record.committed /\ issued - run[n].id <= Retain

\* What is about to be deleted is neither the restore point nor may become it; and its
\* manifest, if it has one, is of the lifetime that prunes.
Spared(n, d) ==
  /\ d.id \in 1..issued /\ d.id # record.committed
  /\ \A m \in Node : (Begun(m) /\ run[m].of = Assignment) => d.id # run[m].id
  /\ \A c \in lateCommits : c.of = Assignment => d.id # c.id
  /\ HasManifest(d) => /\ d.listed.manifest = run[n].of.uid
                       /\ bucket[d.id].manifest \in {0, run[n].of.uid}
                       /\ \A m \in Node : Writing(m) => run[m].id # d.id

DeleteSound == \A n \in Node : run[n].pc = "delete" => \A d \in run[n].doomed : Spared(n, d)

BackupInv ==
  /\ BackupType /\ Granted /\ IdsIssued /\ WritingSound /\ CommitSound /\ PruneOrder /\ DeleteSound

------------------------------------------------------------------------------
(* Facts about assignments, IDs and what is pruned.                        *)

LEMMA OrderFacts ==
  /\ \A a, b \in Grant : Leq(a, b) /\ Leq(b, a) => a = b
  /\ \A a, b, c \in Grant : Leq(a, b) /\ Leq(b, c) => Leq(a, c)
  /\ \A a \in Grant : Leq(a, a) /\ Leq(Gone, a)
  /\ \A a, b \in Grant : Leq(a, b) \/ Leq(b, a)
  /\ Gone \in Grant
<1>1. \A a, b \in Grant : Leq(a, b) /\ Leq(b, a) => a = b
  BY DEF Grant, Leq
<1>2. \A a, b, c \in Grant : Leq(a, b) /\ Leq(b, c) => Leq(a, c)
  BY DEF Grant, Leq
<1>3. \A a \in Grant : Leq(a, a) /\ Leq(Gone, a)
  BY DEF Grant, Leq, Gone
<1>4. \A a, b \in Grant : Leq(a, b) \/ Leq(b, a)
  BY DEF Grant, Leq
<1>5. Gone \in Grant
  BY DEF Grant, Gone
<1> QED
  BY <1>1, <1>2, <1>3, <1>4, <1>5

LEMMA AssignmentType ==
  ASSUME BackupType
  PROVE  Assignment \in Grant /\ Assignment.uid = record.uid /\ Assignment # Gone
  BY DEF BackupType, Assignment, Grant, Gone

LEMMA IdType ==
  ASSUME BackupType
  PROVE  ID \subseteq Nat \ {0} /\ 1..issued \subseteq ID
<1>1. ID \subseteq Nat \ {0}
  BY BackupConstants DEF ID
<1>2. limit.runs \in Nat /\ limit \in Limits
  BY BackupConstants DEF BackupType
<1>3. 1..issued \subseteq 1..limit.runs
  BY <1>2 DEF BackupType
<1> QED
  BY <1>1, <1>2, <1>3 DEF ID

\* Nothing newer than a pruning run, by at most Retain IDs, is pruned by it.
LEMMA NotDoomed ==
  ASSUME BackupType, \A i \in ID : bucket[i] # NoObjects => i <= issued,
         NEW u \in Nat, u # 0, NEW id \in Nat, NEW j \in ID, id < j, issued - id <= Retain
  PROVE  j \notin Doomed(u, id)
<1> SUFFICES ASSUME j \in Doomed(u, id)
             PROVE  FALSE
  OBVIOUS
<1>1. /\ ID \subseteq Nat /\ issued \in Nat /\ Retain \in Nat /\ j \in Nat /\ Retain # 0
  BY IdType, BackupConstants DEF BackupType
<1>2. Ours(u) \subseteq 1..issued
  <2> SUFFICES ASSUME NEW i \in ID, bucket[i].manifest = u
               PROVE  i \in 1..issued
    BY DEF Ours
  <2>1. bucket[i] # NoObjects
    BY DEF NoObjects
  <2> QED
    BY <2>1, IdType
<1>3. IsFiniteSet(Ours(u)) /\ Cardinality(Ours(u)) \in Nat
  <2>1. IsFiniteSet(1..issued)
    BY <1>1, FS_Interval
  <2>2. IsFiniteSet(Ours(u))
    BY <1>2, <2>1, FS_Subset
  <2> QED
    BY <2>2, FS_CardinalityType
<1>4. /\ Cardinality(Ours(u)) >= Retain
      /\ \/ j \in Ours(u) /\ j \notin Kept(u)
         \/ j \in Abandoned /\ j < Min(Kept(u))
  BY <1>1, <1>3 DEF Doomed
\* The members of a set of IDs after k are at most issued - k.
<1>5. ASSUME NEW k \in Nat, NEW S, S \subseteq k + 1 .. issued
      PROVE  /\ IsFiniteSet(S) /\ Cardinality(S) \in Nat
             /\ k <= issued => Cardinality(S) <= issued - k
  <2> DEFINE a == k + 1
  <2>0. a \in Int /\ issued \in Int /\ a = k + 1
    BY <1>1
  <2> HIDE DEF a
  <2>1. IsFiniteSet(a .. issued) /\ Cardinality(a .. issued) = IF a > issued THEN 0 ELSE issued - a + 1
    BY <2>0, FS_Interval
  <2>2. IsFiniteSet(S) /\ Cardinality(S) <= Cardinality(a .. issued)
    BY <1>5, <2>0, <2>1, FS_Subset
  <2>3. Cardinality(S) \in Nat
    BY <2>2, FS_CardinalityType
  <2> QED
    BY <1>1, <2>0, <2>1, <2>2, <2>3
<1>6. CASE j \in Ours(u) /\ j \notin Kept(u)
  <2>1. Newer(Ours(u), j) \subseteq j + 1 .. issued /\ j <= issued
    BY <1>1, <1>2, <1>6 DEF Newer
  <2>2. Cardinality(Newer(Ours(u), j)) <= issued - j /\ Cardinality(Newer(Ours(u), j)) \in Nat
    BY <1>1, <1>5, <2>1
  <2>3. Cardinality(Newer(Ours(u), j)) < Retain
    BY <1>1, <2>1, <2>2
  <2> QED
    BY <1>6, <2>3 DEF Kept
<1>7. CASE j \in Abandoned /\ j < Min(Kept(u))
  <2> DEFINE N == {x \in Ours(u) : x > id}
             T == {x \in Ours(u) : x <= id}
  <2>1. j \notin Ours(u) /\ j <= issued
    <3>1. bucket[j].manifest = 0 /\ bucket[j].whole \union bucket[j].short # {}
      BY <1>7 DEF Abandoned
    <3>2. bucket[j] # NoObjects
      BY <3>1 DEF NoObjects
    <3> QED
      BY <3>1, <3>2 DEF Ours
  <2>2. N \union {j} \subseteq id + 1 .. issued /\ j \notin N /\ id <= issued
    BY <1>1, <1>2, <2>1
  <2>3. Cardinality(N) < Retain /\ Cardinality(N) \in Nat
    <3>1. Cardinality(N \union {j}) <= issued - id /\ IsFiniteSet(N) /\ Cardinality(N) \in Nat
      BY <1>1, <1>5, <2>2
    <3>2. Cardinality(N \union {j}) = Cardinality(N) + 1
      BY <2>2, <3>1, FS_AddElement
    <3> QED
      BY <1>1, <3>1, <3>2
  <2>4. T # {}
    <3>1. Ours(u) # N
      BY <1>1, <1>3, <1>4, <2>3
    <3> QED
      BY <1>1, <1>2, <3>1
  <2>5. PICK k \in T : \A y \in T : y <= k
    <3>1. T \in SUBSET Nat /\ \A x \in T : x <= id
      BY <1>1, <1>2
    <3> HIDE DEF T
    <3> QED
      BY <2>4, <3>1, GreatestNat
  <2>6. Newer(Ours(u), k) = N
    BY <1>1, <1>2, <2>5 DEF Newer
  <2>7. k \in Kept(u) /\ k \in Nat
    BY <1>1, <1>2, <2>3, <2>5, <2>6 DEF Kept
  <2>8. Min(Kept(u)) <= k /\ Min(Kept(u)) \in Nat
    <3>1. Kept(u) \in SUBSET Nat /\ Kept(u) # {}
      BY <1>1, <1>2, <2>7 DEF Kept
    <3>2. \E x \in Kept(u) : \A y \in Kept(u) : x <= y
      BY <3>1, LeastNat
    <3>3. Min(Kept(u)) \in Kept(u) /\ \A y \in Kept(u) : Min(Kept(u)) <= y
      BY <3>2 DEF Min
    <3> QED
      BY <2>7, <3>1, <3>3
  <2> QED
    BY <1>1, <1>7, <2>5, <2>7, <2>8
<1> QED
  BY <1>4, <1>6, <1>7

------------------------------------------------------------------------------
(* The steps of an Agent.                                                  *)

\* A run that returns gives up what it was about; its Agent may forget the Project too.
LEMMA ReturnsKeeps ==
  ASSUME BackupInv, NEW n \in Node, Returns(n), UNCHANGED <<record, bucket, lateCommits, issued, limit>>,
         entry' = entry \/ entry' = [entry EXCEPT ![n] = Gone]
  PROVE  BackupInv'
<1> USE DEF Returns
<1>1. run' \in [Node -> RunRecord] /\ \A m \in Node : run'[m] = IF m = n THEN IdleRun ELSE run[m]
  <2>1. IdleRun \in RunRecord
    BY OrderFacts DEF IdleRun, RunRecord, Step
  <2> QED
    BY <2>1 DEF BackupInv, BackupType
<1>2. entry' \in [Node -> Grant] /\ \A m \in Node : entry'[m] = entry[m] \/ entry'[m] = Gone
  BY OrderFacts DEF BackupInv, BackupType
<1>3. IdleRun.pc = "idle" /\ Assignment' = Assignment
  BY DEF IdleRun, Assignment
<1>4. BackupType'
  BY <1>1, <1>2 DEF BackupInv, BackupType
<1>5. Granted'
  <2>1. Assignment \in Grant /\ Assignment # Gone
    BY AssignmentType DEF BackupInv
  <2>2. \A m \in Node : Leq(entry'[m], Assignment) /\ (entry'[m] # Gone => entry'[m].uid # 0)
                        /\ (entry'[m] = Assignment => record.node = m)
    BY <1>2, <2>1, OrderFacts DEF BackupInv, Granted
  <2> QED
    BY <1>1, <1>3, <2>2 DEF BackupInv, Granted, Active
<1>6. IdsIssued'
  BY <1>1, <1>3 DEF BackupInv, IdsIssued, Active
<1>7. WritingSound'
  BY <1>1, <1>3 DEF BackupInv, WritingSound, Writing
<1>8. CommitSound'
  BY <1>1, <1>3 DEF BackupInv, CommitSound, IsWhole
<1>9. PruneOrder'
  BY <1>1, <1>3 DEF BackupInv, PruneOrder, Pruning, Begun
<1>10. DeleteSound'
  BY <1>1, <1>3 DEF BackupInv, DeleteSound, Spared, Begun, Writing
<1> QED
  BY <1>4, <1>5, <1>6, <1>7, <1>8, <1>9, <1>10 DEF BackupInv

LEMMA SyncKeeps ==
  ASSUME BackupInv, NEW n \in Node, Sync(n)
  PROVE  BackupInv'
<1>1. /\ entry' \in [Node -> Grant] /\ Assignment' = Assignment
      /\ UNCHANGED <<record, bucket, run, lateCommits, issued, limit>>
      /\ \A m \in Node : entry'[m] \in {entry[m], Gone} \/ (m = n /\ record.node = n /\ entry'[m] = Assignment)
  BY OrderFacts, AssignmentType DEF Sync, BackupInv, BackupType, Assignment
<1>2. BackupType'
  BY <1>1 DEF BackupInv, BackupType
<1>3. Granted'
  <2>1. Assignment \in Grant /\ Assignment # Gone /\ Assignment.uid # 0
    BY AssignmentType DEF BackupInv, BackupType
  <2>2. \A m \in Node : Leq(entry'[m], Assignment) /\ (entry'[m] # Gone => entry'[m].uid # 0)
                        /\ (entry'[m] = Assignment => record.node = m)
    BY <1>1, <2>1, OrderFacts DEF BackupInv, Granted
  <2> QED
    BY <1>1, <2>2 DEF BackupInv, Granted, Active
<1>4. IdsIssued' /\ WritingSound' /\ CommitSound' /\ PruneOrder' /\ DeleteSound'
  BY <1>1 DEF BackupInv, IdsIssued, WritingSound, CommitSound, PruneOrder, DeleteSound,
              Active, Writing, Begun, Pruning, IsWhole, Spared
<1> QED
  BY <1>2, <1>3, <1>4 DEF BackupInv

\* A new run's ID is later than every other, and by at most Retain than a run's that prunes.
LEMMA BeginKeeps ==
  ASSUME BackupInv, NEW n \in Node, Begin(n)
  PROVE  BackupInv'
<1> DEFINE r == [IdleRun EXCEPT !.pc = "claimed", !.of = entry[n], !.id = issued']
<1>0. /\ BackupType /\ Assignment' = Assignment /\ issued \in Nat /\ issued' = issued + 1
      /\ UNCHANGED <<record, bucket, entry, limit>>
      /\ Retain \in Nat /\ \A m \in Node : run[m] \in RunRecord
  BY BackupConstants DEF BackupInv, BackupType, Begin, Assignment
<1>1. /\ run' \in [Node -> RunRecord] /\ \A m \in Node : run'[m] = IF m = n THEN r ELSE run[m]
  <2>1. r \in RunRecord
    <3>1. \A g \in Grant, k \in Nat : [IdleRun EXCEPT !.pc = "claimed", !.of = g, !.id = k] \in RunRecord
      BY DEF RunRecord, Step, IdleRun
    <3>2. entry[n] \in Grant /\ issued' \in Nat
      BY <1>0 DEF BackupType
    <3> QED
      BY <3>1, <3>2, Zenon
  <2>2. run' = [run EXCEPT ![n] = r]
    BY DEF Begin
  <2> QED
    BY <1>0, <2>1, <2>2 DEF BackupType
<1>2. r.pc = "claimed" /\ r.of = entry[n] /\ r.id = issued + 1
  BY <1>0 DEF IdleRun
<1>3. ~Active(n) /\ entry[n] # Gone /\ \A c \in lateCommits' : c \in lateCommits /\ c.node # n
  BY DEF Begin, Active
<1>4. lateCommits' \subseteq lateCommits
  BY DEF Begin
<1> HIDE DEF r
<1>5. BackupType'
  <2>1. limit.runs \in Nat /\ issued + 1 <= limit.runs
    BY <1>0, BackupConstants DEF Begin, BackupType
  <2> QED
    BY <1>0, <1>1, <1>4, <2>1 DEF BackupType
<1>6. Granted'
  BY <1>0, <1>1, <1>2, <1>3, <1>4 DEF BackupInv, Granted, Active
<1>7. IdsIssued'
  <2>1. \A m \in Node : Active(m)' => run'[m].id \in 1..issued'
    BY <1>0, <1>1, <1>2 DEF BackupInv, IdsIssued, Active
  <2>2. \A c \in lateCommits' : c.id \in 1..issued' /\ ~Active(c.node)'
    <3>1. \A c \in lateCommits : c.node \in Node
      BY <1>0 DEF BackupType
    <3> QED
      BY <1>0, <1>1, <1>3, <3>1 DEF BackupInv, IdsIssued, Active
  <2>3. (\A i \in ID : bucket[i] # NoObjects => i <= issued)'
    BY <1>0, IdType DEF BackupInv, IdsIssued
  <2> QED
    BY <2>1, <2>2, <2>3 DEF IdsIssued
<1>8. WritingSound'
  <2>1. bucket[issued + 1] = NoObjects
    <3>1. limit \in Limits /\ limit.runs \in Nat /\ issued + 1 \in 1..limit.runs
      BY <1>0, BackupConstants DEF Begin, BackupType
    <3>2. issued + 1 \in ID
      BY <3>1 DEF ID
    <3> QED
      BY <1>0, <3>2 DEF BackupInv, IdsIssued
  <2>2. \A m \in Node : Writing(m) => run[m].id <= issued
    BY <1>0 DEF BackupInv, IdsIssued, Writing, Active
  <2> QED
    BY <1>0, <1>1, <1>2, <2>1, <2>2 DEF BackupInv, WritingSound, Writing, NoObjects, RunRecord
<1>9. CommitSound'
  <2>1. record.committed \in 1..issued => record.committed \in 1..issued'
    BY <1>0
  <2> QED
    BY <1>0, <1>1, <1>2, <1>4, <2>1 DEF BackupInv, CommitSound, IsWhole
<1>10. PruneOrder'
  <2> SUFFICES ASSUME NEW m \in Node, Pruning(m)'
               PROVE  /\ \A k \in Node : (Begun(k)' /\ Before(run'[m].of, run'[k].of)) =>
                           run'[m].id < run'[k].id /\ issued' - run'[m].id <= Retain
                      /\ \A c \in lateCommits' : Before(run'[m].of, c.of) =>
                           run'[m].id < c.id /\ issued' - run'[m].id <= Retain
                      /\ run'[m].of.uid = record'.uid =>
                           \/ run'[m].id = record'.committed
                           \/ run'[m].id < record'.committed /\ issued' - run'[m].id <= Retain
    BY DEF PruneOrder
  <2>1. Pruning(m) /\ m # n /\ run'[m] = run[m] /\ run[m].id \in 1..issued
    BY <1>1, <1>2 DEF Pruning, Active, BackupInv, IdsIssued
  <2>2. issued - run[m].id < Retain
    BY <2>1 DEF Begin, Pruning
  <2>3. issued' - run[m].id <= Retain /\ run[m].id < issued + 1
    BY <1>0, <2>1, <2>2
  <2> QED
    BY <1>0, <1>1, <1>2, <1>4, <2>1, <2>3 DEF BackupInv, PruneOrder, Begun
<1>11. DeleteSound'
  <2> SUFFICES ASSUME NEW m \in Node, run'[m].pc = "delete", NEW d \in run'[m].doomed
               PROVE  Spared(m, d)'
    BY DEF DeleteSound
  <2>1. run'[m] = run[m] /\ Spared(m, d)
    BY <1>1, <1>2 DEF BackupInv, DeleteSound
  <2>2. d.id \in 1..issued /\ d.id # issued + 1
    BY <1>0, <2>1 DEF Spared
  <2>3. d.id \in 1..issued'
    BY <1>0, <2>2
  <2> QED
    BY <1>0, <1>1, <1>2, <1>4, <2>1, <2>2, <2>3 DEF Spared, Begun, Writing
<1> QED
  BY <1>5, <1>6, <1>7, <1>8, <1>9, <1>10, <1>11 DEF BackupInv

LEMMA MaintenanceKeeps ==
  ASSUME BackupInv, NEW n \in Node, run[n].pc = "claimed", Goes(n, "capture"),
         UNCHANGED <<record, bucket, entry, lateCommits, issued, limit>>
  PROVE  BackupInv'
<1>1. /\ run' \in [Node -> RunRecord] /\ Assignment' = Assignment
      /\ \A m \in Node : /\ run'[m].of = run[m].of /\ run'[m].id = run[m].id /\ run'[m].doomed = run[m].doomed
                         /\ run'[m].pc = IF m = n THEN "capture" ELSE run[m].pc
  BY DEF BackupInv, BackupType, Goes, RunRecord, Step, Assignment
<1>2. \A m \in Node : /\ Active(m)' <=> Active(m)
                      /\ Begun(m)' <=> Begun(m)
                      /\ Writing(m)' <=> Writing(m)
                      /\ Pruning(m)' <=> Pruning(m)
  BY <1>1 DEF Active, Begun, Writing, Pruning
<1>3. BackupType'
  BY <1>1 DEF BackupInv, BackupType
<1>4. Granted'
  BY <1>1, <1>2 DEF BackupInv, Granted
<1>5. IdsIssued'
  <2>1. \A c \in lateCommits : c.node \in Node
    BY DEF BackupInv, BackupType
  <2> QED
    BY <1>1, <1>2, <2>1 DEF BackupInv, IdsIssued
<1>6. WritingSound'
  BY <1>1, <1>2 DEF BackupInv, WritingSound
<1>7. CommitSound'
  BY <1>1 DEF BackupInv, CommitSound, IsWhole
<1>8. PruneOrder'
  BY <1>1, <1>2 DEF BackupInv, PruneOrder
<1>9. DeleteSound'
  BY <1>1, <1>2 DEF BackupInv, DeleteSound, Spared
<1> QED
  BY <1>3, <1>4, <1>5, <1>6, <1>7, <1>8, <1>9 DEF BackupInv

\* An archive goes into the generation of its run, which has no manifest yet.
LEMMA CaptureKeeps ==
  ASSUME BackupInv, NEW n \in Node, NEW v \in Volume, NEW stored \in {"whole", "short"}, Capture(n, v, stored)
  PROVE  BackupInv'
<1> DEFINE i == run[n].id
<1>0. /\ BackupType /\ Assignment' = Assignment /\ UNCHANGED <<record, entry, lateCommits, issued, limit>>
      /\ i \in 1..issued /\ 1..issued \subseteq ID /\ bucket[i].manifest = 0 /\ bucket[i].short = {}
      /\ run[n].pc = "capture"
  BY IdType DEF BackupInv, Capture, Assignment, IdsIssued, WritingSound, Active, Writing
<1>1. /\ bucket' \in [ID -> Objects]
      /\ \A j \in ID : j # i => bucket'[j] = bucket[j]
      /\ \A j \in ID : bucket'[j].manifest = bucket[j].manifest
      /\ stored = "whole" => bucket'[i].short = {}
  <2>1. CASE stored = "whole"
    <3>1. bucket' = [bucket EXCEPT ![i].whole = @ \union {v}]
      BY <2>1 DEF Capture, Archive
    <3> QED
      BY <1>0, <3>1 DEF BackupType, Objects
  <2>2. CASE stored = "short"
    <3>1. bucket' = [bucket EXCEPT ![i].short = @ \union {v}]
      BY <2>2 DEF Capture, Archive
    <3> QED
      BY <1>0, <2>2, <3>1 DEF BackupType, Objects
  <2> QED
    BY <2>1, <2>2
<1>2. /\ run' \in [Node -> RunRecord]
      /\ \A m \in Node : run'[m] = run[m] \/ (m = n /\ run'[m] = IdleRun)
      /\ stored # "whole" => run'[n] = IdleRun
      /\ IdleRun.pc = "idle"
  <2>1. IdleRun \in RunRecord
    BY OrderFacts DEF IdleRun, RunRecord, Step
  <2>2. run' = run \/ run' = [run EXCEPT ![n] = IdleRun]
    BY DEF Capture, Returns
  <2>3. stored # "whole" => run' = [run EXCEPT ![n] = IdleRun]
    BY DEF Capture, Returns
  <2> QED
    BY <1>0, <2>1, <2>2, <2>3 DEF BackupType, IdleRun
<1> HIDE DEF i
<1>3. BackupType'
  BY <1>0, <1>1, <1>2 DEF BackupType
<1>4. Granted'
  BY <1>0, <1>2 DEF BackupInv, Granted, Active
<1>5. IdsIssued'
  <2>1. \A c \in lateCommits : c.node \in Node
    BY <1>0 DEF BackupType
  <2>2. i <= issued
    BY <1>0 DEF BackupType
  <2> QED
    BY <1>0, <1>1, <1>2, <2>1, <2>2 DEF BackupInv, IdsIssued, Active
<1>6. WritingSound'
  <2> SUFFICES ASSUME NEW m \in Node, Writing(m)'
               PROVE  /\ bucket'[run'[m].id].manifest = 0 /\ bucket'[run'[m].id].short = {}
                      /\ \A k \in Node : (Writing(k)' /\ run'[k].id = run'[m].id) => k = m
    BY DEF WritingSound
  <2>1. run'[m] = run[m] /\ Writing(m) /\ run[m].id \in ID
    BY <1>0, <1>2 DEF BackupInv, IdsIssued, Writing, Active
  <2>2. \A k \in Node : Writing(k)' => Writing(k) /\ run'[k] = run[k]
    BY <1>2 DEF Writing
  <2>3. m = n => stored = "whole"
    BY <1>2, <2>1 DEF Writing
  <2>4. m # n => run[m].id # i
    BY <1>0, <2>1 DEF BackupInv, WritingSound, Writing, i
  <2> QED
    BY <1>0, <1>1, <2>1, <2>2, <2>3, <2>4 DEF BackupInv, WritingSound, i
<1>7. CommitSound'
  <2>1. \A j \in 1..issued : IsWhole(j, record.uid) => IsWhole(j, record.uid)'
    BY <1>0, <1>1 DEF IsWhole, BackupType
  <2>2. \A m \in Node : run[m].pc = "commit" => run[m].id \in 1..issued
    BY DEF BackupInv, IdsIssued, Active
  <2>3. \A c \in lateCommits : c.id \in 1..issued
    BY DEF BackupInv, IdsIssued
  <2>4. \A m \in Node : run'[m].pc = "commit" => run'[m] = run[m]
    BY <1>2
  <2> QED
    BY <1>0, <2>1, <2>2, <2>3, <2>4 DEF BackupInv, CommitSound, IsWhole
<1>8. PruneOrder'
  BY <1>0, <1>2 DEF BackupInv, PruneOrder, Pruning, Begun
<1>9. DeleteSound'
  BY <1>0, <1>1, <1>2 DEF BackupInv, DeleteSound, Spared, Begun, Writing
<1> QED
  BY <1>3, <1>4, <1>5, <1>6, <1>7, <1>8, <1>9 DEF BackupInv

\* Nothing short and everything stored: the manifest is of a complete generation.
LEMMA ManifestKeeps ==
  ASSUME BackupInv, NEW n \in Node, WriteManifest(n)
  PROVE  /\ BackupInv'
         /\ run[n].id \in ID /\ bucket[run[n].id].manifest = 0 /\ bucket[run[n].id].whole = Volume
         /\ bucket'[run[n].id].manifest = run[n].of.uid /\ bucket'[run[n].id].whole = Volume
         /\ \A j \in ID : j # run[n].id => bucket'[j] = bucket[j]
<1> DEFINE i == run[n].id
<1>0. /\ BackupType /\ Assignment' = Assignment /\ UNCHANGED <<record, entry, lateCommits, issued, limit>>
      /\ i \in 1..issued /\ 1..issued \subseteq ID /\ bucket[i].manifest = 0 /\ bucket[i].short = {}
      /\ run[n].pc = "capture" /\ bucket[i].whole = Volume
      /\ run[n].of \in Grant /\ run[n].of.uid \in Nat
  <2>1. BackupType /\ Assignment' = Assignment /\ UNCHANGED <<record, entry, lateCommits, issued, limit>> /\ run[n].pc = "capture"
    BY DEF BackupInv, WriteManifest, Assignment
  <2>2. i \in 1..issued /\ 1..issued \subseteq ID /\ bucket[i].manifest = 0 /\ bucket[i].short = {}
    BY <2>1, IdType DEF BackupInv, IdsIssued, WritingSound, Active, Writing
  <2>3. bucket[i].whole = Volume
    BY <2>2 DEF WriteManifest, Captured
  <2>4. run[n].of \in Grant /\ run[n].of.uid \in Nat
    BY <2>1 DEF BackupType, RunRecord, Grant
  <2> QED
    BY <2>1, <2>2, <2>3, <2>4
<1>1. /\ bucket' \in [ID -> Objects]
      /\ \A j \in ID : j # i => bucket'[j] = bucket[j]
      /\ bucket'[i].manifest = run[n].of.uid /\ bucket'[i].whole = Volume
  BY <1>0 DEF WriteManifest, BackupType, Objects
<1>2. /\ run' \in [Node -> RunRecord]
      /\ \A m \in Node : /\ run'[m].of = run[m].of /\ run'[m].id = run[m].id /\ run'[m].doomed = run[m].doomed
                         /\ run'[m].pc = IF m = n THEN "commit" ELSE run[m].pc
  BY <1>0 DEF BackupType, WriteManifest, Goes, RunRecord, Step
<1>20. \A m \in Node : /\ Active(m)' <=> Active(m)
                       /\ Begun(m)' <=> Begun(m)
                       /\ Pruning(m)' <=> Pruning(m)
                       /\ Writing(m)' <=> Writing(m) /\ m # n
  BY <1>0, <1>2 DEF Active, Begun, Writing, Pruning
<1>21. \A m \in Node : Writing(m) /\ m # n => run[m].id # i
  BY <1>0 DEF BackupInv, WritingSound, Writing
<1> HIDE DEF i
<1>3. BackupType'
  BY <1>0, <1>1, <1>2 DEF BackupType
<1>4. Granted'
  BY <1>0, <1>2, <1>20 DEF BackupInv, Granted
<1>5. IdsIssued'
  <2>1. \A c \in lateCommits : c.node \in Node
    BY <1>0 DEF BackupType
  <2>2. i <= issued
    BY <1>0 DEF BackupType
  <2> QED
    BY <1>0, <1>1, <1>2, <1>20, <2>1, <2>2 DEF BackupInv, IdsIssued
<1>6. WritingSound'
  <2>1. \A m \in Node : Writing(m) => run[m].id \in ID
    BY <1>0 DEF BackupInv, IdsIssued, Writing, Active
  <2> QED
    BY <1>1, <1>2, <1>20, <1>21, <2>1 DEF BackupInv, WritingSound
<1>7. CommitSound'
  <2>1. \A j \in 1..issued : IsWhole(j, record.uid) => IsWhole(j, record.uid)'
    BY <1>0, <1>1 DEF IsWhole, BackupType
  <2>2. \A m \in Node : run[m].pc = "commit" => run[m].id \in 1..issued
    BY DEF BackupInv, IdsIssued, Active
  <2>3. \A c \in lateCommits : c.id \in 1..issued
    BY DEF BackupInv, IdsIssued
  <2>4. run[n].of = Assignment => bucket'[i].manifest = record.uid /\ bucket'[i].whole = Volume
    BY <1>0, <1>1, AssignmentType
  <2>5. \A m \in Node : (run'[m].pc = "commit" /\ run'[m].of = Assignment') => IsWhole(run[m].id, record.uid)'
    <3> SUFFICES ASSUME NEW m \in Node, run'[m].pc = "commit", run'[m].of = Assignment
                 PROVE  bucket'[run'[m].id].manifest = record.uid /\ bucket'[run'[m].id].whole = Volume
      BY <1>0 DEF IsWhole
    <3>1. CASE m = n
      BY <1>2, <2>4, <3>1 DEF i
    <3>2. CASE m # n
      <4>1. run'[m].id = run[m].id /\ run[m].pc = "commit" /\ run[m].of = Assignment
        BY <1>2, <3>2
      <4>2. IsWhole(run[m].id, record.uid) /\ run[m].id \in 1..issued
        BY <2>2, <4>1 DEF BackupInv, CommitSound
      <4> QED
        BY <1>0, <2>1, <4>1, <4>2 DEF IsWhole
    <3> QED
      BY <3>1, <3>2
  <2>6. \A c \in lateCommits : c.of = Assignment' => IsWhole(c.id, record.uid)'
    BY <1>0, <2>1, <2>3 DEF BackupInv, CommitSound, IsWhole
  <2>7. record.committed # 0 => record.committed \in 1..issued /\ IsWhole(record.committed, record.uid)'
    BY <1>0, <2>1 DEF BackupInv, CommitSound, IsWhole
  <2> QED
    BY <1>0, <2>5, <2>6, <2>7 DEF CommitSound
<1>8. PruneOrder'
  BY <1>0, <1>2, <1>20 DEF BackupInv, PruneOrder
<1>9. DeleteSound'
  <2> SUFFICES ASSUME NEW m \in Node, run'[m].pc = "delete", NEW d \in run'[m].doomed
               PROVE  Spared(m, d)'
    BY DEF DeleteSound
  <2>1. Spared(m, d) /\ run'[m].of = run[m].of
    BY <1>2 DEF BackupInv, DeleteSound
  <2>2. HasManifest(d) => d.id # i
    BY <1>0, <2>1 DEF Spared, Writing, i
  <2> QED
    BY <1>0, <1>1, <1>2, <1>20, <2>1, <2>2 DEF Spared
<1> QED
  BY <1>0, <1>1, <1>3, <1>4, <1>5, <1>6, <1>7, <1>8, <1>9 DEF BackupInv, i

------------------------------------------------------------------------------
(* Commits.                                                                *)

\* The server accepts a commit of what it granted last only.
LEMMA AcceptedGrant ==
  ASSUME NEW n, NEW of, Accepts(n, of)
  PROVE  record.node = n /\ Assignment = of
  BY Zenon DEF Accepts, Fenced

\* Moving the restore point leaves the assignment as it is.
LEMMA PointMoves ==
  ASSUME BackupType, NEW id \in Nat, record' = [record EXCEPT !.committed = id]
  PROVE  /\ DOMAIN record' = {"uid", "node", "gen", "terminating", "committed"}
         /\ record'.uid = record.uid /\ record'.node = record.node /\ record'.gen = record.gen
         /\ record'.committed = id /\ Assignment' = Assignment
<1>1. /\ DOMAIN record' = {"uid", "node", "gen", "terminating", "committed"}
      /\ record'.uid = record.uid /\ record'.node = record.node /\ record'.gen = record.gen
      /\ record'.committed = id
  BY DEF BackupType
<1> QED
  BY <1>1 DEF Assignment

\* The run's commit is accepted; whoever prunes does so for an earlier assignment.
LEMMA CommitKeeps ==
  ASSUME BackupInv, NEW n \in Node, run[n].pc = "commit", Accepts(n, run[n].of), Goes(n, "prune"),
         record' = [record EXCEPT !.committed = run[n].id], UNCHANGED <<bucket, entry, lateCommits, issued, limit>>
  PROVE  BackupInv'
<1>0. /\ BackupType /\ run[n].id \in 1..issued /\ run[n].id \in Nat /\ record.node = n /\ run[n].of = Assignment
      /\ IsWhole(run[n].id, record.uid) /\ Assignment \in Grant /\ Assignment.uid = record.uid
  BY AcceptedGrant, AssignmentType DEF BackupInv, BackupType, RunRecord, IdsIssued, Active, CommitSound
<1>1. /\ DOMAIN record' = {"uid", "node", "gen", "terminating", "committed"}
      /\ record'.uid = record.uid /\ record'.node = record.node /\ record'.gen = record.gen
      /\ record'.committed = run[n].id /\ Assignment' = Assignment
  BY <1>0, PointMoves
<1>2. /\ run' \in [Node -> RunRecord]
      /\ \A m \in Node : /\ run'[m].of = run[m].of /\ run'[m].id = run[m].id /\ run'[m].doomed = run[m].doomed
                         /\ run'[m].pc = IF m = n THEN "prune" ELSE run[m].pc
  BY <1>0 DEF BackupType, Goes, RunRecord, Step
<1>3. \A m \in Node : /\ Active(m)' <=> Active(m)
                      /\ Begun(m)' <=> Begun(m) /\ m # n
                      /\ Pruning(m)' <=> Pruning(m) \/ m = n
                      /\ Writing(m)' <=> Writing(m)
  BY <1>2 DEF Active, Begun, Writing, Pruning
<1>4. BackupType'
  BY <1>0, <1>1, <1>2 DEF BackupType
<1>5. Granted'
  BY <1>1, <1>2, <1>3 DEF BackupInv, Granted
<1>6. IdsIssued'
  <2>1. \A c \in lateCommits : c.node \in Node
    BY <1>0 DEF BackupType
  <2> QED
    BY <1>2, <1>3, <2>1 DEF BackupInv, IdsIssued
<1>7. WritingSound'
  BY <1>2, <1>3 DEF BackupInv, WritingSound
<1>8. CommitSound'
  BY <1>0, <1>1, <1>2 DEF BackupInv, CommitSound, IsWhole
<1>9. PruneOrder'
  <2> SUFFICES ASSUME NEW m \in Node, Pruning(m)'
               PROVE  /\ \A k \in Node : (Begun(k)' /\ Before(run[m].of, run[k].of)) =>
                           run[m].id < run[k].id /\ issued - run[m].id <= Retain
                      /\ \A c \in lateCommits : Before(run[m].of, c.of) =>
                           run[m].id < c.id /\ issued - run[m].id <= Retain
                      /\ run[m].of.uid = record'.uid =>
                           \/ run[m].id = record'.committed
                           \/ run[m].id < record'.committed /\ issued - run[m].id <= Retain
    BY <1>2 DEF PruneOrder
  <2>1. CASE m = n
    <3>1. \A b \in Grant : Leq(b, Assignment) => ~Before(Assignment, b)
      BY <1>0, OrderFacts DEF Before
    <3>2. \A k \in Node : Begun(k)' => Leq(run[k].of, Assignment) /\ run[k].of \in Grant
      BY <1>0, <1>3 DEF BackupInv, Granted, Begun, Active, BackupType, RunRecord
    <3>3. \A c \in lateCommits : Leq(c.of, Assignment) /\ c.of \in Grant
      BY <1>0 DEF BackupInv, Granted, BackupType
    <3> QED
      BY <1>0, <1>1, <2>1, <3>1, <3>2, <3>3
  <2>2. CASE m # n
    <3>1. Pruning(m) /\ Active(m)
      BY <1>3, <2>2 DEF Pruning, Active
    <3>2. Before(run[m].of, run[n].of)
      BY <1>0, <2>2, <3>1 DEF BackupInv, Granted, Before
    <3>3. run[m].id < run[n].id /\ issued - run[m].id <= Retain
      BY <3>1, <3>2 DEF BackupInv, PruneOrder, Begun
    <3> QED
      BY <1>1, <1>3, <3>1, <3>3 DEF BackupInv, PruneOrder
  <2> QED
    BY <2>1, <2>2
<1>10. DeleteSound'
  <2> SUFFICES ASSUME NEW m \in Node, run[m].pc = "delete", NEW d \in run[m].doomed
               PROVE  Spared(m, d)'
    BY <1>2 DEF DeleteSound
  <2>1. Spared(m, d)
    BY DEF BackupInv, DeleteSound
  <2>2. d.id # run[n].id
    BY <1>0, <2>1 DEF Spared, Begun
  <2> QED
    BY <1>1, <1>2, <1>3, <2>1, <2>2 DEF Spared
<1> QED
  BY <1>4, <1>5, <1>6, <1>7, <1>8, <1>9, <1>10 DEF BackupInv

LEMMA TimeoutKeeps ==
  ASSUME BackupInv, NEW n \in Node, CommitTimesOut(n)
  PROVE  BackupInv'
<1> DEFINE late == [node |-> n, of |-> run[n].of, id |-> run[n].id]
<1>0. /\ BackupType /\ Assignment' = Assignment /\ UNCHANGED <<record, bucket, entry, issued, limit>>
      /\ run[n].pc = "commit" /\ Begun(n) /\ Active(n)
  BY DEF BackupInv, CommitTimesOut, Assignment, Begun, Active
<1>1. /\ run' \in [Node -> RunRecord] /\ \A m \in Node : run'[m] = IF m = n THEN IdleRun ELSE run[m]
      /\ IdleRun.pc = "idle"
  <2>1. IdleRun \in RunRecord
    BY OrderFacts DEF IdleRun, RunRecord, Step
  <2> QED
    BY <1>0, <2>1 DEF BackupType, CommitTimesOut, Returns, IdleRun
<1>2. lateCommits' = lateCommits \union {late} /\ late \in [node: Node, of: Grant, id: Nat]
  BY <1>0 DEF CommitTimesOut, BackupType, RunRecord
<1>3. late.node = n /\ late.of = run[n].of /\ late.id = run[n].id
  OBVIOUS
<1>4. \A c \in lateCommits' : c \in lateCommits \/ c = late
  BY <1>2
<1> HIDE DEF late
<1>5. BackupType'
  BY <1>0, <1>1, <1>2 DEF BackupType
<1>6. Granted'
  BY <1>0, <1>1, <1>3, <1>4 DEF BackupInv, Granted, Active
<1>7. IdsIssued'
  <2>1. \A c \in lateCommits : c.node \in Node
    BY <1>0 DEF BackupType
  <2> QED
    BY <1>0, <1>1, <1>3, <1>4, <2>1 DEF BackupInv, IdsIssued, Active
<1>8. WritingSound'
  BY <1>0, <1>1 DEF BackupInv, WritingSound, Writing
<1>9. CommitSound'
  BY <1>0, <1>1, <1>3, <1>4 DEF BackupInv, CommitSound, IsWhole
<1>10. PruneOrder'
  BY <1>0, <1>1, <1>3, <1>4 DEF BackupInv, PruneOrder, Pruning, Begun
<1>11. DeleteSound'
  BY <1>0, <1>1, <1>3, <1>4 DEF BackupInv, DeleteSound, Spared, Begun, Writing
<1> QED
  BY <1>5, <1>6, <1>7, <1>8, <1>9, <1>10, <1>11 DEF BackupInv

\* A commit its caller gave up on is accepted while that Node runs no other backup.
LEMMA LateKeeps ==
  ASSUME BackupInv, NEW c \in lateCommits, LateCommit(c)
  PROVE  BackupInv'
<1>0. /\ BackupType /\ UNCHANGED <<bucket, entry, run, issued, limit>> /\ lateCommits' \subseteq lateCommits
      /\ c.node \in Node /\ c.id \in Nat /\ c.id \in 1..issued /\ ~Active(c.node)
  BY DEF BackupInv, LateCommit, BackupType, IdsIssued
<1>1. CASE ~Accepts(c.node, c.of)
  <2>1. UNCHANGED record /\ Assignment' = Assignment
    BY <1>1 DEF LateCommit, Assignment
  <2>2. BackupType' /\ Granted'
    BY <1>0, <2>1 DEF BackupInv, BackupType, Granted, Active
  <2>3. IdsIssued' /\ WritingSound' /\ CommitSound' /\ PruneOrder' /\ DeleteSound'
    BY <1>0, <2>1 DEF BackupInv, IdsIssued, WritingSound, CommitSound, PruneOrder, DeleteSound,
                      Active, Writing, Begun, Pruning, IsWhole, Spared
  <2> QED
    BY <2>2, <2>3 DEF BackupInv
<1>2. CASE Accepts(c.node, c.of)
  <2>0. record' = [record EXCEPT !.committed = c.id]
    BY <1>2 DEF LateCommit
  <2>1. /\ DOMAIN record' = {"uid", "node", "gen", "terminating", "committed"}
        /\ record'.uid = record.uid /\ record'.node = record.node /\ record'.gen = record.gen
        /\ record'.committed = c.id /\ Assignment' = Assignment
    BY <1>0, <2>0, PointMoves
  <2>2. c.of = Assignment /\ record.node = c.node /\ IsWhole(c.id, record.uid)
    BY <1>2, AcceptedGrant DEF BackupInv, CommitSound
  <2>3. BackupType' /\ Granted'
    BY <1>0, <2>1 DEF BackupInv, BackupType, Granted, Active
  <2>4. IdsIssued' /\ WritingSound' /\ CommitSound'
    BY <1>0, <2>1, <2>2 DEF BackupInv, IdsIssued, WritingSound, CommitSound, Active, Writing, IsWhole
  <2>5. PruneOrder'
    <3>1. ASSUME NEW m \in Node, Pruning(m)
          PROVE  run[m].id < c.id /\ issued - run[m].id <= Retain
      <4>1. Before(run[m].of, c.of)
        BY <1>0, <2>2, <3>1 DEF BackupInv, Granted, Before, Pruning, Active
      <4> QED
        BY <3>1, <4>1 DEF BackupInv, PruneOrder
    <3> QED
      BY <1>0, <2>1, <3>1 DEF BackupInv, PruneOrder, Pruning, Begun
  <2>6. DeleteSound'
    BY <1>0, <2>1, <2>2 DEF BackupInv, DeleteSound, Spared, Begun, Writing
  <2> QED
    BY <2>3, <2>4, <2>5, <2>6 DEF BackupInv
<1> QED
  BY <1>1, <1>2

------------------------------------------------------------------------------
(* Pruning.                                                                *)

\* Nothing that is, or may become, the restore point is listed for deletion.
LEMMA ListedSpared ==
  ASSUME BackupInv, NEW n \in Node, run[n].pc = "prune", NEW i \in Doomed(run[n].of.uid, run[n].id)
  PROVE  /\ i \in ID /\ i \in 1..issued /\ i # record.committed
         /\ \A m \in Node : (Begun(m) /\ run[m].of = Assignment) => i # run[m].id
         /\ \A c \in lateCommits : c.of = Assignment => i # c.id
         /\ bucket[i].manifest # 0 => bucket[i].manifest = run[n].of.uid
<1> DEFINE u == run[n].of.uid
           id == run[n].id
<1>0. /\ BackupType /\ u \in Nat /\ u # 0 /\ id \in Nat /\ Pruning(n) /\ Active(n) /\ issued \in Nat
      /\ run[n].of \in Grant /\ Leq(run[n].of, Assignment) /\ 1..issued \subseteq ID /\ ID \subseteq Nat \ {0}
      /\ \A j \in ID : bucket[j] # NoObjects => j <= issued
  BY IdType DEF BackupInv, BackupType, RunRecord, Grant, Granted, Active, Pruning, IdsIssued
<1>1. \A j \in 1..issued : id < j /\ issued - id <= Retain => j \notin Doomed(u, id)
  BY <1>0, NotDoomed
<1> HIDE DEF u, id
<1>2. (i \in Ours(u) /\ i # id) \/ i \in Abandoned
  BY DEF Doomed, u, id
<1>3. i \in ID /\ i \in 1..issued /\ (bucket[i].manifest # 0 => bucket[i].manifest = u /\ i # id)
  <2>1. i \in ID /\ (bucket[i].manifest # 0 => bucket[i].manifest = u /\ i # id)
    BY <1>2 DEF Ours, Abandoned
  <2>2. bucket[i] # NoObjects
    BY <1>0, <1>2 DEF Ours, Abandoned, NoObjects
  <2> QED
    BY <1>0, <2>1, <2>2
<1>4. i \in Doomed(u, id)
  BY DEF u, id
<1>5. i # record.committed
  <2> SUFFICES ASSUME i = record.committed
               PROVE  FALSE
    OBVIOUS
  <2>1. IsWhole(i, record.uid) /\ record.uid # 0 /\ i # 0
    BY <1>0, <1>3 DEF BackupInv, BackupType, CommitSound
  <2>2. u = record.uid /\ i # id
    BY <1>3, <2>1 DEF IsWhole
  <2>3. id < record.committed /\ issued - id <= Retain
    BY <1>0, <2>2 DEF BackupInv, PruneOrder, u, id
  <2> QED
    BY <1>1, <1>3, <1>4, <2>3
<1>6. \A m \in Node : (Begun(m) /\ run[m].of = Assignment) => i # run[m].id
  <2> SUFFICES ASSUME NEW m \in Node, Begun(m), run[m].of = Assignment
               PROVE  i # run[m].id
    OBVIOUS
  <2>1. Active(m) /\ m # n
    BY DEF Begun, Active
  <2>2. Before(run[n].of, run[m].of)
    BY <1>0, <2>1 DEF BackupInv, Granted, Before
  <2>3. id < run[m].id /\ issued - id <= Retain /\ run[m].id \in 1..issued
    BY <1>0, <2>1, <2>2 DEF BackupInv, PruneOrder, IdsIssued, id
  <2> QED
    BY <1>1, <1>4, <2>3
<1>7. \A c \in lateCommits : c.of = Assignment => i # c.id
  <2> SUFFICES ASSUME NEW c \in lateCommits, c.of = Assignment
               PROVE  i # c.id
    OBVIOUS
  <2>1. c.node # n /\ c.id \in 1..issued
    BY <1>0 DEF BackupInv, IdsIssued
  <2>2. Before(run[n].of, c.of)
    BY <1>0, <2>1 DEF BackupInv, Granted, Before
  <2>3. id < c.id /\ issued - id <= Retain
    BY <1>0, <2>2 DEF BackupInv, PruneOrder, id
  <2> QED
    BY <1>1, <1>4, <2>1, <2>3
<1> QED
  BY <1>3, <1>5, <1>6, <1>7 DEF u

LEMMA ListKeeps ==
  ASSUME BackupInv, NEW n \in Node, ListGenerations(n)
  PROVE  BackupInv'
<1> DEFINE S == {[id |-> i, listed |-> bucket[i]] : i \in Doomed(run[n].of.uid, run[n].id)}
<1>0. /\ BackupType /\ Assignment' = Assignment /\ run[n].pc = "prune"
      /\ UNCHANGED <<record, bucket, entry, lateCommits, issued, limit>>
  BY DEF BackupInv, ListGenerations, Assignment
<1>1. S \in SUBSET [id: Nat, listed: Objects]
  <2> SUFFICES ASSUME NEW i \in Doomed(run[n].of.uid, run[n].id)
               PROVE  i \in Nat /\ bucket[i] \in Objects
    OBVIOUS
  <2> QED
    BY <1>0, ListedSpared, IdType DEF BackupType
<1>2. /\ run' \in [Node -> RunRecord]
      /\ \A m \in Node : /\ run'[m].of = run[m].of /\ run'[m].id = run[m].id
                         /\ run'[m].pc = IF m = n THEN "delete" ELSE run[m].pc
                         /\ run'[m].doomed = IF m = n THEN S ELSE run[m].doomed
  <2>1. run' = [run EXCEPT ![n].pc = "delete", ![n].doomed = S]
    BY DEF ListGenerations
  <2> HIDE DEF S
  <2> QED
    BY <1>0, <1>1, <2>1 DEF BackupType, RunRecord, Step
<1>3. \A m \in Node : /\ Active(m)' <=> Active(m)
                      /\ Begun(m)' <=> Begun(m)
                      /\ Pruning(m)' <=> Pruning(m)
                      /\ Writing(m)' <=> Writing(m)
  BY <1>0, <1>2 DEF Active, Begun, Writing, Pruning
<1>4. BackupType'
  BY <1>0, <1>2 DEF BackupType
<1>5. Granted'
  BY <1>0, <1>2, <1>3 DEF BackupInv, Granted
<1>6. IdsIssued'
  <2>1. \A c \in lateCommits : c.node \in Node
    BY <1>0 DEF BackupType
  <2> QED
    BY <1>0, <1>2, <1>3, <2>1 DEF BackupInv, IdsIssued
<1>7. WritingSound'
  BY <1>0, <1>2, <1>3 DEF BackupInv, WritingSound
<1>8. CommitSound'
  BY <1>0, <1>2 DEF BackupInv, CommitSound, IsWhole
<1>9. PruneOrder'
  BY <1>0, <1>2, <1>3 DEF BackupInv, PruneOrder
<1>10. DeleteSound'
  <2> SUFFICES ASSUME NEW m \in Node, run'[m].pc = "delete", NEW d \in run'[m].doomed
               PROVE  Spared(m, d)'
    BY DEF DeleteSound
  <2>1. Spared(m, d)
    <3>1. CASE m # n
      BY <1>2, <3>1 DEF BackupInv, DeleteSound
    <3>2. CASE m = n
      <4>1. PICK i \in Doomed(run[n].of.uid, run[n].id) : d = [id |-> i, listed |-> bucket[i]]
        BY <1>2, <3>2
      <4>2. d.id = i /\ d.listed = bucket[i]
        BY <4>1
      <4>3. \A k \in Node : Writing(k) => bucket[run[k].id].manifest = 0
        BY DEF BackupInv, WritingSound
      <4> QED
        BY <1>0, <3>2, <4>2, <4>3, ListedSpared DEF Spared, HasManifest
    <3> QED
      BY <3>1, <3>2
  <2> QED
    BY <1>0, <1>2, <1>3, <2>1 DEF Spared
<1> QED
  BY <1>4, <1>5, <1>6, <1>7, <1>8, <1>9, <1>10 DEF BackupInv

\* What a step that deletes does to the objects and to the list.
LEMMA DeleteStep ==
  ASSUME BackupInv, NEW n \in Node, NEW g \in run[n].doomed, DeleteObjects(n, g)
  PROVE  /\ g.id \in ID /\ g.id \in 1..issued /\ Spared(n, g)
         /\ bucket' \in [ID -> Objects]
         /\ \A j \in ID : j # g.id => bucket'[j] = bucket[j]
         /\ bucket'[g.id].manifest = IF HasManifest(g) THEN 0 ELSE bucket[g.id].manifest
         /\ bucket'[g.id].whole \subseteq bucket[g.id].whole /\ bucket'[g.id].short \subseteq bucket[g.id].short
<1>1. BackupType /\ Spared(n, g) /\ g.id \in 1..issued /\ g.id \in ID
  BY IdType DEF BackupInv, DeleteObjects, DeleteSound, Spared
<1>2. bucket' = IF HasManifest(g) THEN WithoutManifest(g) ELSE WithoutArchives(g)
  BY DEF DeleteObjects, Deletes
<1>3. CASE HasManifest(g)
  BY <1>1, <1>2, <1>3 DEF WithoutManifest, BackupType, Objects
<1>4. CASE ~HasManifest(g)
  BY <1>1, <1>2, <1>4 DEF WithoutArchives, BackupType, Objects
<1> QED
  BY <1>1, <1>3, <1>4

LEMMA DeleteKeeps ==
  ASSUME BackupInv, NEW n \in Node, NEW g \in run[n].doomed, DeleteObjects(n, g)
  PROVE  BackupInv'
<1> DEFINE gone == [g EXCEPT !.listed.manifest = 0]
           rest == (run[n].doomed \ {g}) \union IF HasManifest(g) THEN {gone} ELSE {}
<1>0. /\ BackupType /\ Assignment' = Assignment /\ run[n].pc = "delete"
      /\ UNCHANGED <<record, entry, lateCommits, issued, limit>>
  BY DEF BackupInv, DeleteObjects, Deletes, Assignment
<1>1. /\ g.id \in ID /\ g.id \in 1..issued /\ Spared(n, g)
      /\ bucket' \in [ID -> Objects]
      /\ \A j \in ID : j # g.id => bucket'[j] = bucket[j]
      /\ bucket'[g.id].manifest = IF HasManifest(g) THEN 0 ELSE bucket[g.id].manifest
      /\ bucket'[g.id].whole \subseteq bucket[g.id].whole /\ bucket'[g.id].short \subseteq bucket[g.id].short
  BY DeleteStep
<1>2. gone \in [id: Nat, listed: Objects] /\ gone.id = g.id /\ ~HasManifest(gone)
  <2>1. g \in [id: Nat, listed: Objects]
    BY <1>0 DEF BackupType, RunRecord
  <2> QED
    BY <2>1 DEF Objects, HasManifest
<1>3. \A d \in rest : d \in run[n].doomed \/ d = gone
  OBVIOUS
<1>4. rest \in SUBSET [id: Nat, listed: Objects]
  BY <1>0, <1>2, <1>3 DEF BackupType, RunRecord
<1>5. run' = [run EXCEPT ![n].doomed = rest]
  BY DEF DeleteObjects, Deletes
<1> HIDE DEF gone, rest
<1>6. /\ run' \in [Node -> RunRecord]
      /\ \A m \in Node : /\ run'[m].of = run[m].of /\ run'[m].id = run[m].id /\ run'[m].pc = run[m].pc
                         /\ run'[m].doomed = IF m = n THEN rest ELSE run[m].doomed
  BY <1>0, <1>4, <1>5 DEF BackupType, RunRecord, Step
<1>7. \A m \in Node : /\ Active(m)' <=> Active(m)
                      /\ Begun(m)' <=> Begun(m)
                      /\ Pruning(m)' <=> Pruning(m)
                      /\ Writing(m)' <=> Writing(m)
  BY <1>6 DEF Active, Begun, Writing, Pruning
<1>8. BackupType'
  BY <1>0, <1>1, <1>6 DEF BackupType
<1>9. Granted'
  BY <1>0, <1>6, <1>7 DEF BackupInv, Granted
<1>10. IdsIssued'
  <2>1. \A c \in lateCommits : c.node \in Node
    BY <1>0 DEF BackupType
  <2>2. g.id <= issued
    BY <1>0, <1>1 DEF BackupType
  <2> QED
    BY <1>0, <1>1, <1>6, <1>7, <2>1, <2>2 DEF BackupInv, IdsIssued
<1>11. WritingSound'
  <2>1. \A m \in Node : Writing(m) => run[m].id \in ID
    BY <1>0, IdType DEF BackupInv, IdsIssued, Writing, Active
  <2> QED
    BY <1>1, <1>6, <1>7, <2>1 DEF BackupInv, WritingSound
<1>12. CommitSound'
  <2>1. \A j \in 1..issued : j # g.id => (IsWhole(j, record.uid) => IsWhole(j, record.uid)')
    BY <1>0, <1>1, IdType DEF IsWhole
  <2>2. \A m \in Node : (run[m].pc = "commit" /\ run[m].of = Assignment) => run[m].id \in 1..issued /\ run[m].id # g.id
    BY <1>1 DEF BackupInv, IdsIssued, Active, Spared, Begun
  <2>3. \A c \in lateCommits : c.of = Assignment => c.id \in 1..issued /\ c.id # g.id
    BY <1>1 DEF BackupInv, IdsIssued, Spared
  <2>4. record.committed # g.id
    BY <1>1 DEF Spared
  <2>5. \A m \in Node : (run[m].pc = "commit" /\ run[m].of = Assignment) =>
          bucket'[run[m].id].manifest = record.uid /\ bucket'[run[m].id].whole = Volume
    BY <1>0, <2>1, <2>2 DEF BackupInv, CommitSound, IsWhole
  <2>6. \A c \in lateCommits : c.of = Assignment => bucket'[c.id].manifest = record.uid /\ bucket'[c.id].whole = Volume
    BY <1>0, <2>1, <2>3 DEF BackupInv, CommitSound, IsWhole
  <2>7. record.committed # 0 => /\ record.committed \in 1..issued
                                /\ bucket'[record.committed].manifest = record.uid
                                /\ bucket'[record.committed].whole = Volume
    BY <1>0, <2>1, <2>4 DEF BackupInv, CommitSound, IsWhole
  <2> QED
    BY <1>0, <1>6, <2>5, <2>6, <2>7 DEF CommitSound, IsWhole
<1>13. PruneOrder'
  BY <1>0, <1>6, <1>7 DEF BackupInv, PruneOrder
<1>14. DeleteSound'
  <2> SUFFICES ASSUME NEW m \in Node, run[m].pc = "delete", NEW d \in run'[m].doomed
               PROVE  Spared(m, d)'
    BY <1>6 DEF DeleteSound
  <2>1. d \in run[m].doomed \/ (m = n /\ d = gone)
    BY <1>3, <1>6
  <2>2. CASE d \in run[m].doomed
    <3>1. Spared(m, d) /\ d.id \in ID
      BY <1>0, <2>2, IdType DEF BackupInv, DeleteSound, Spared
    <3> QED
      BY <1>0, <1>1, <1>6, <1>7, <3>1 DEF Spared
  <2>3. CASE m = n /\ d = gone
    BY <1>0, <1>1, <1>2, <1>6, <1>7, <2>3 DEF Spared
  <2> QED
    BY <2>1, <2>2, <2>3
<1> QED
  BY <1>8, <1>9, <1>10, <1>11, <1>12, <1>13, <1>14 DEF BackupInv

LEMMA FailsKeeps ==
  ASSUME BackupInv, NEW n \in Node, NEW g \in run[n].doomed, DeleteFails(n, g)
  PROVE  BackupInv'
<1>0. /\ BackupType /\ Assignment' = Assignment
      /\ UNCHANGED <<record, bucket, entry, lateCommits, issued, limit>>
  BY DEF BackupInv, DeleteFails, Assignment
<1>1. /\ run' \in [Node -> RunRecord]
      /\ \A m \in Node : /\ run'[m].of = run[m].of /\ run'[m].id = run[m].id /\ run'[m].pc = run[m].pc
                         /\ run'[m].doomed \subseteq run[m].doomed
  BY <1>0 DEF BackupType, DeleteFails, RunRecord, Step
<1>2. \A m \in Node : /\ Active(m)' <=> Active(m)
                      /\ Begun(m)' <=> Begun(m)
                      /\ Pruning(m)' <=> Pruning(m)
                      /\ Writing(m)' <=> Writing(m)
  BY <1>1 DEF Active, Begun, Writing, Pruning
<1>3. BackupType' /\ Granted'
  BY <1>0, <1>1, <1>2 DEF BackupInv, BackupType, Granted
<1>4. IdsIssued'
  <2>1. \A c \in lateCommits : c.node \in Node
    BY <1>0 DEF BackupType
  <2> QED
    BY <1>0, <1>1, <1>2, <2>1 DEF BackupInv, IdsIssued
<1>5. WritingSound' /\ PruneOrder'
  BY <1>0, <1>1, <1>2 DEF BackupInv, WritingSound, PruneOrder
<1>6. CommitSound'
  BY <1>0, <1>1 DEF BackupInv, CommitSound, IsWhole
<1>7. DeleteSound'
  BY <1>0, <1>1, <1>2 DEF BackupInv, DeleteSound, Spared
<1> QED
  BY <1>3, <1>4, <1>5, <1>6, <1>7 DEF BackupInv

------------------------------------------------------------------------------
(* The server.                                                             *)

\* A write that grants nothing new.
LEMMA SameGrantKeeps ==
  ASSUME BackupInv, UNCHANGED <<bucket, entry, run, lateCommits, issued, limit>>,
         DOMAIN record' = DOMAIN record, record'.uid = record.uid, record'.node = record.node,
         record'.gen = record.gen, record'.committed = record.committed
  PROVE  BackupInv'
<1>1. Assignment' = Assignment
  BY DEF Assignment
<1>2. BackupType' /\ Granted'
  BY <1>1 DEF BackupInv, BackupType, Granted, Active
<1>3. IdsIssued' /\ WritingSound' /\ CommitSound' /\ PruneOrder' /\ DeleteSound'
  BY <1>1 DEF BackupInv, IdsIssued, WritingSound, CommitSound, PruneOrder, DeleteSound,
              Active, Writing, Begun, Pruning, IsWhole, Spared
<1> QED
  BY <1>2, <1>3 DEF BackupInv

\* A new assignment is nobody's yet; a new lifetime has no restore point.
LEMMA NewGrantKeeps ==
  ASSUME BackupInv, UNCHANGED <<bucket, entry, run, lateCommits, issued, limit>>,
         DOMAIN record' = DOMAIN record, record'.uid \in Nat, record'.gen \in Nat, record'.uid <= limit.uids,
         \/ record'.uid = record.uid /\ record'.gen = record.gen + 1 /\ record'.committed = record.committed
         \/ record'.uid = record.uid + 1 /\ record'.committed = 0
  PROVE  BackupInv'
<1>0. BackupType /\ Assignment \in Grant /\ Assignment.uid = record.uid /\ Assignment.gen = record.gen
  BY AssignmentType DEF BackupInv, Assignment
<1>1. BackupType'
  BY <1>0 DEF BackupType
<1>2. Assignment' \in Grant /\ Assignment'.uid = record'.uid /\ Assignment'.gen = record'.gen
  BY <1>1 DEF Assignment, Grant, BackupType
<1>3. \A a \in Grant : Leq(a, Assignment) => Leq(a, Assignment') /\ a # Assignment'
  BY <1>0, <1>2 DEF Leq, Grant, BackupType
<1>4. \A n \in Node : entry[n] \in Grant /\ run[n].of \in Grant
  BY <1>0 DEF BackupType, RunRecord
<1>5. \A c \in lateCommits : c.of \in Grant
  BY <1>0 DEF BackupType
<1>6. Granted'
  BY <1>3, <1>4, <1>5 DEF BackupInv, Granted, Active
<1>7. \A n \in Node : Active(n) => run[n].of # Assignment'
  BY <1>3, <1>4 DEF BackupInv, Granted
<1>8. \A c \in lateCommits : c.of # Assignment'
  BY <1>3, <1>5 DEF BackupInv, Granted
<1>9. IdsIssued' /\ WritingSound'
  BY DEF BackupInv, IdsIssued, WritingSound, Active, Writing
<1>10. CommitSound'
  BY <1>7, <1>8 DEF BackupInv, CommitSound, IsWhole, Active
<1>11. PruneOrder'
  <2>1. \A n \in Node : Pruning(n) /\ run[n].of.uid = record'.uid =>
                          record'.uid = record.uid /\ record'.committed = record.committed
    <3> SUFFICES ASSUME NEW n \in Node, Pruning(n), run[n].of.uid = record'.uid
                 PROVE  record'.uid = record.uid /\ record'.committed = record.committed
      OBVIOUS
    <3>1. Leq(run[n].of, Assignment) /\ run[n].of \in Grant
      BY <1>4 DEF BackupInv, Granted, Pruning, Active
    <3>2. run[n].of.uid <= record.uid
      BY <1>0, <3>1 DEF Leq, Grant, BackupType
    <3> QED
      BY <1>0, <3>2 DEF BackupType
  <2> QED
    BY <2>1 DEF BackupInv, PruneOrder, Pruning, Begun
<1>12. DeleteSound'
  <2> SUFFICES ASSUME NEW n \in Node, run[n].pc = "delete", NEW d \in run[n].doomed
               PROVE  Spared(n, d)'
    BY DEF DeleteSound
  <2>1. Spared(n, d)
    BY DEF BackupInv, DeleteSound
  <2>2. d.id # record'.committed
    BY <1>0, <2>1 DEF Spared, BackupType
  <2> QED
    BY <1>7, <1>8, <2>1, <2>2 DEF Spared, Begun, Writing, Active
<1> QED
  BY <1>1, <1>6, <1>9, <1>10, <1>11, <1>12 DEF BackupInv

LEMMA AssignKeeps ==
  ASSUME BackupInv, NEW n \in Node, Assign(n)
  PROVE  BackupInv'
<1>1. record' = [record EXCEPT !.node = n, !.gen = @ + 1] /\ UNCHANGED <<bucket, entry, run, lateCommits, issued, limit>>
  BY Zenon DEF Assign, ServerWrites
<1>2. /\ DOMAIN record' = DOMAIN record /\ record'.uid = record.uid
      /\ record'.gen = record.gen + 1 /\ record'.committed = record.committed
  BY <1>1 DEF BackupInv, BackupType
<1>3. record'.uid \in Nat /\ record'.gen \in Nat /\ record'.uid <= limit.uids
  BY <1>2 DEF BackupInv, BackupType
<1> QED
  BY <1>1, <1>2, <1>3, NewGrantKeeps

LEMMA MarkFields ==
  ASSUME BackupType, NEW flag, record' = [record EXCEPT !.terminating = flag]
  PROVE  /\ DOMAIN record' = DOMAIN record /\ record'.uid = record.uid /\ record'.node = record.node
         /\ record'.gen = record.gen /\ record'.committed = record.committed
  BY DEF BackupType

LEMMA MarkKeeps ==
  ASSUME BackupInv, MarkForDeletion
  PROVE  BackupInv' /\ record'.uid = record.uid /\ record'.committed = record.committed /\ UNCHANGED bucket
<1>1. record' = [record EXCEPT !.terminating = TRUE] /\ UNCHANGED <<bucket, entry, run, lateCommits, issued, limit>>
  BY Zenon DEF MarkForDeletion, ServerWrites
<1>2. BackupType
  BY DEF BackupInv
<1>3. /\ DOMAIN record' = DOMAIN record /\ record'.uid = record.uid /\ record'.node = record.node
      /\ record'.gen = record.gen /\ record'.committed = record.committed
  BY <1>1, <1>2, MarkFields, Zenon
<1> QED
  BY <1>1, <1>3, SameGrantKeeps

LEMMA RecreateFields ==
  ASSUME NEW u, NEW node, NEW flag,
         record' = [uid |-> u, node |-> node, gen |-> 0, terminating |-> flag, committed |-> 0]
  PROVE  /\ DOMAIN record' = {"uid", "node", "gen", "terminating", "committed"}
         /\ record'.uid = u /\ record'.gen = 0 /\ record'.committed = 0
  OBVIOUS

LEMMA RecreateKeeps ==
  ASSUME BackupInv, RecreateProject
  PROVE  BackupInv' /\ record'.uid = record.uid + 1 /\ record'.committed = 0 /\ UNCHANGED bucket
<1>1. /\ record' = [uid |-> record.uid + 1, node |-> NoNode, gen |-> 0, terminating |-> FALSE, committed |-> 0]
      /\ UNCHANGED <<bucket, entry, run, lateCommits, issued, limit>> /\ record.uid < limit.uids
  BY Zenon DEF RecreateProject, ServerWrites
<1>2. /\ DOMAIN record' = {"uid", "node", "gen", "terminating", "committed"}
      /\ record'.uid = record.uid + 1 /\ record'.gen = 0 /\ record'.committed = 0
  BY <1>1, RecreateFields, Zenon
<1>3. limit.uids \in Nat
  BY BackupConstants DEF BackupInv, BackupType
<1>4. DOMAIN record' = DOMAIN record /\ record'.uid \in Nat /\ record'.gen \in Nat /\ record'.uid <= limit.uids
  BY <1>1, <1>2, <1>3 DEF BackupInv, BackupType
<1> QED
  BY <1>1, <1>2, <1>4, NewGrantKeeps

------------------------------------------------------------------------------

LEMMA BackupInitially == BackupInit => BackupInv
<1> SUFFICES ASSUME BackupInit
             PROVE  BackupInv
  OBVIOUS
<1>1. /\ DOMAIN record = {"uid", "node", "gen", "terminating", "committed"}
      /\ record.uid = 1 /\ record.gen = 0 /\ record.committed = 0
  <2>1. ASSUME NEW flag, record = [uid |-> 1, node |-> NoNode, gen |-> 0, terminating |-> flag, committed |-> 0]
        PROVE  /\ DOMAIN record = {"uid", "node", "gen", "terminating", "committed"}
               /\ record.uid = 1 /\ record.gen = 0 /\ record.committed = 0
    BY <2>1
  <2> QED
    BY <2>1, Zenon DEF BackupInit
<1>2. /\ bucket = [j \in ID |-> NoObjects] /\ entry = [n \in Node |-> Gone] /\ run = [n \in Node |-> IdleRun]
      /\ lateCommits = {} /\ issued = 0 /\ limit \in Limits
  BY Zenon DEF BackupInit
<1>3. IdleRun \in RunRecord /\ IdleRun.pc = "idle" /\ NoObjects \in Objects
  BY OrderFacts DEF IdleRun, RunRecord, Step, NoObjects, Objects
<1>4. BackupType
  <2>1. limit.runs \in Nat /\ limit.uids \in Nat \ {0}
    BY <1>2, BackupConstants
  <2> QED
    BY <1>1, <1>2, <1>3, <2>1, OrderFacts DEF BackupType
<1>5. Granted
  BY <1>2, <1>3, <1>4, OrderFacts, AssignmentType DEF Granted, Active
<1>6. IdsIssued /\ WritingSound /\ CommitSound /\ PruneOrder /\ DeleteSound
  BY <1>1, <1>2, <1>3 DEF IdsIssued, WritingSound, CommitSound, PruneOrder, DeleteSound, Active, Writing, Pruning
<1> QED
  BY <1>4, <1>5, <1>6 DEF BackupInv

LEMMA BackupStep == BackupInv /\ [BackupNext]_backupVars => BackupInv'
<1> SUFFICES ASSUME BackupInv, [BackupNext]_backupVars
             PROVE  BackupInv'
  OBVIOUS
<1>1. ASSUME NEW n \in Node, Sync(n)
      PROVE  BackupInv'
  BY <1>1, SyncKeeps
<1>2. ASSUME NEW n \in Node, Begin(n)
      PROVE  BackupInv'
  BY <1>2, BeginKeeps
<1>3. ASSUME NEW n \in Node, SetMaintenance(n)
      PROVE  BackupInv'
  BY <1>3, MaintenanceKeeps, ReturnsKeeps DEF SetMaintenance
<1>4. ASSUME NEW n \in Node, WriteManifest(n)
      PROVE  BackupInv'
  BY <1>4, ManifestKeeps
<1>5. ASSUME NEW n \in Node, CommitBackup(n)
      PROVE  BackupInv'
  <2>1. CASE Accepts(n, run[n].of)
    BY <1>5, <2>1, CommitKeeps DEF CommitBackup
  <2>2. CASE ~Accepts(n, run[n].of)
    BY <1>5, <2>2, ReturnsKeeps DEF CommitBackup
  <2> QED
    BY <2>1, <2>2
<1>6. ASSUME NEW n \in Node, CommitTimesOut(n)
      PROVE  BackupInv'
  BY <1>6, TimeoutKeeps
<1>7. ASSUME NEW n \in Node, RunFails(n)
      PROVE  BackupInv'
  BY <1>7, ReturnsKeeps DEF RunFails
<1>8. ASSUME NEW n \in Node, ListGenerations(n)
      PROVE  BackupInv'
  BY <1>8, ListKeeps
<1>9. ASSUME NEW n \in Node, EndRun(n)
      PROVE  BackupInv'
  BY <1>9, ReturnsKeeps DEF EndRun
<1>10. ASSUME NEW n \in Node, AgentRestarts(n)
       PROVE  BackupInv'
  BY <1>10, ReturnsKeeps DEF AgentRestarts, Returns
<1>11. ASSUME NEW n \in Node, Assign(n)
       PROVE  BackupInv'
  BY <1>11, AssignKeeps
<1>12. ASSUME NEW n \in Node, NEW v \in Volume, NEW stored \in {"whole", "short"}, Capture(n, v, stored)
       PROVE  BackupInv'
  BY <1>12, CaptureKeeps
<1>13. ASSUME NEW n \in Node, NEW g \in run[n].doomed, DeleteObjects(n, g) \/ DeleteFails(n, g)
       PROVE  BackupInv'
  BY <1>13, DeleteKeeps, FailsKeeps
<1>14. ASSUME NEW c \in lateCommits, LateCommit(c)
       PROVE  BackupInv'
  BY <1>14, LateKeeps
<1>15. CASE UNCHANGED backupVars
  BY <1>15, SameGrantKeeps DEF backupVars
<1> QED
  BY <1>1, <1>2, <1>3, <1>4, <1>5, <1>6, <1>7, <1>8, <1>9, <1>10, <1>11, <1>12, <1>13, <1>14, <1>15,
     MarkKeeps, RecreateKeeps DEF BackupNext

LEMMA BackupInvariant == BackupSpec => []BackupInv
  BY BackupInitially, BackupStep, PTL DEF BackupSpec

------------------------------------------------------------------------------
(* What a step does to the generations and to the restore point.           *)

Quiet == UNCHANGED bucket /\ record'.uid = record.uid /\ record'.committed = record.committed

Commits(id) ==
  /\ id \in ID /\ IsWhole(id, record.uid)
  /\ UNCHANGED bucket /\ record'.uid = record.uid /\ record'.committed = id

Recreates == UNCHANGED bucket /\ record'.uid = record.uid + 1 /\ record'.committed = 0 /\ record'.uid <= limit.uids

LEMMA StepKinds ==
  ASSUME BackupInv, [BackupNext]_backupVars
  PROVE  \/ Quiet \/ Recreates \/ \E id \in ID : Commits(id)
         \/ \E n \in Node : WriteManifest(n)
         \/ \E n \in Node, v \in Volume, stored \in {"whole", "short"} : Capture(n, v, stored)
         \/ \E n \in Node : \E g \in run[n].doomed : DeleteObjects(n, g)
<1>1. ASSUME NEW n \in Node,
             \/ Sync(n) \/ Begin(n) \/ SetMaintenance(n) \/ CommitTimesOut(n) \/ RunFails(n)
             \/ ListGenerations(n) \/ EndRun(n) \/ AgentRestarts(n)
      PROVE  Quiet
  BY <1>1 DEF Sync, Begin, SetMaintenance, CommitTimesOut, RunFails, ListGenerations, EndRun, AgentRestarts, Quiet
<1>2. ASSUME NEW n \in Node, CommitBackup(n)
      PROVE  Quiet \/ \E id \in ID : Commits(id)
  <2>1. CASE Accepts(n, run[n].of)
    <3>1. BackupType /\ run[n].id \in 1..issued /\ run[n].id \in Nat /\ run[n].id \in ID
      BY <1>2, IdType DEF CommitBackup, BackupInv, IdsIssued, Active, BackupType, RunRecord
    <3>2. IsWhole(run[n].id, record.uid)
      BY <1>2, <2>1, AcceptedGrant DEF CommitBackup, BackupInv, CommitSound
    <3>3. record' = [record EXCEPT !.committed = run[n].id] /\ UNCHANGED bucket
      BY <1>2, <2>1 DEF CommitBackup
    <3> QED
      BY <3>1, <3>2, <3>3, PointMoves DEF Commits
  <2>2. CASE ~Accepts(n, run[n].of)
    BY <1>2, <2>2 DEF CommitBackup, Quiet
  <2> QED
    BY <2>1, <2>2
<1>3. ASSUME NEW c \in lateCommits, LateCommit(c)
      PROVE  Quiet \/ \E id \in ID : Commits(id)
  <2>1. CASE Accepts(c.node, c.of)
    <3>1. BackupType /\ c.id \in 1..issued /\ c.id \in Nat /\ c.id \in ID
      BY IdType DEF BackupInv, IdsIssued, BackupType
    <3>2. IsWhole(c.id, record.uid)
      BY <2>1, AcceptedGrant DEF BackupInv, CommitSound
    <3>3. record' = [record EXCEPT !.committed = c.id] /\ UNCHANGED bucket
      BY <1>3, <2>1 DEF LateCommit
    <3> QED
      BY <3>1, <3>2, <3>3, PointMoves DEF Commits
  <2>2. CASE ~Accepts(c.node, c.of)
    BY <1>3, <2>2 DEF LateCommit, Quiet
  <2> QED
    BY <2>1, <2>2
<1>4. ASSUME NEW n \in Node, Assign(n)
      PROVE  Quiet
  <2>1. record' = [record EXCEPT !.node = n, !.gen = @ + 1] /\ UNCHANGED bucket
    BY <1>4, Zenon DEF Assign, ServerWrites
  <2> QED
    BY <2>1 DEF Quiet, BackupInv, BackupType
<1>5. ASSUME NEW n \in Node, NEW g \in run[n].doomed, DeleteFails(n, g)
      PROVE  Quiet
  BY <1>5 DEF DeleteFails, Quiet
<1>6. MarkForDeletion => Quiet
  BY MarkKeeps DEF Quiet
<1>7. RecreateProject => Recreates
  <2>1. RecreateProject => record.uid < limit.uids
    BY Zenon DEF RecreateProject
  <2>2. limit.uids \in Nat /\ record.uid \in Nat
    BY BackupConstants DEF BackupInv, BackupType
  <2> QED
    BY <2>1, <2>2, RecreateKeeps DEF Recreates
<1>8. UNCHANGED backupVars => Quiet
  BY DEF backupVars, Quiet
<1> QED
  BY <1>1, <1>2, <1>3, <1>4, <1>5, <1>6, <1>7, <1>8 DEF BackupNext

\* An archive changes no manifest, and nothing of another generation.
LEMMA CaptureEffect ==
  ASSUME BackupInv, NEW n \in Node, NEW v \in Volume, NEW stored \in {"whole", "short"}, Capture(n, v, stored)
  PROVE  /\ run[n].id \in ID /\ bucket[run[n].id].manifest = 0
         /\ \A j \in ID : j # run[n].id => bucket'[j] = bucket[j]
         /\ \A j \in ID : bucket'[j].manifest = bucket[j].manifest
         /\ record'.uid = record.uid /\ record'.committed = record.committed
<1> DEFINE i == run[n].id
<1>1. BackupType /\ i \in ID /\ bucket[i].manifest = 0 /\ bucket[i] \in Objects
  BY IdType DEF BackupInv, Capture, IdsIssued, WritingSound, Active, Writing, BackupType
<1>2. bucket' = [bucket EXCEPT ![i].whole = @ \union {v}] \/ bucket' = [bucket EXCEPT ![i].short = @ \union {v}]
  <2>1. CASE stored = "whole"
    BY <2>1 DEF Capture, Archive
  <2>2. CASE stored = "short"
    BY <2>2 DEF Capture, Archive
  <2> QED
    BY <2>1, <2>2
<1>3. record'.uid = record.uid /\ record'.committed = record.committed
  BY DEF Capture
<1> QED
  BY <1>1, <1>2, <1>3 DEF BackupType, Objects

\* Every manifest names a lifetime the Project had.
ManifestsNamed == \A i \in ID : bucket[i].manifest <= record.uid

\* The lifetime a run is of, and any lifetime so far, is one the behaviour has.
LEMMA LifetimeType ==
  ASSUME BackupInv, NEW u \in Nat, u # 0, u <= record.uid \/ u <= limit.uids
  PROVE  u \in UNION {1..l.uids : l \in Limits}
<1>1. limit \in Limits /\ limit.uids \in Nat /\ record.uid \in Nat /\ record.uid <= limit.uids
  BY BackupConstants DEF BackupInv, BackupType
<1>2. u \in 1..limit.uids
  BY <1>1
<1> QED
  BY <1>1, <1>2

LEMMA RunLifetime ==
  ASSUME BackupInv, NEW n \in Node, Active(n)
  PROVE  run[n].of.uid \in Nat /\ run[n].of.uid # 0 /\ run[n].of.uid <= record.uid
<1>1. /\ Leq(run[n].of, Assignment) /\ run[n].of \in Grant /\ run[n].of.uid # 0
      /\ Assignment \in Grant /\ Assignment.uid = record.uid
  BY AssignmentType DEF BackupInv, Granted, BackupType, RunRecord
<1> QED
  BY <1>1 DEF Leq, Grant

LEMMA ManifestsStep ==
  ASSUME BackupInv, ManifestsNamed, [BackupNext]_backupVars
  PROVE  ManifestsNamed'
<1>0. record.uid \in Nat /\ bucket \in [ID -> Objects] /\ \A j \in ID : bucket[j].manifest \in Nat
  BY DEF BackupInv, BackupType, Objects
<1>1. Quiet => ManifestsNamed'
  BY DEF Quiet, ManifestsNamed
<1>2. Recreates => ManifestsNamed'
  BY <1>0 DEF Recreates, ManifestsNamed
<1>3. ASSUME NEW id \in ID, Commits(id)
      PROVE  ManifestsNamed'
  BY <1>3 DEF Commits, ManifestsNamed
<1>4. ASSUME NEW n \in Node, WriteManifest(n)
      PROVE  ManifestsNamed'
  <2>1. Active(n) /\ record' = record
    BY <1>4 DEF WriteManifest, Active
  <2> QED
    BY <1>4, <2>1, ManifestKeeps, RunLifetime DEF ManifestsNamed
<1>5. ASSUME NEW n \in Node, NEW v \in Volume, NEW stored \in {"whole", "short"}, Capture(n, v, stored)
      PROVE  ManifestsNamed'
  BY <1>5, CaptureEffect DEF ManifestsNamed
<1>6. ASSUME NEW n \in Node, NEW g \in run[n].doomed, DeleteObjects(n, g)
      PROVE  ManifestsNamed'
  <2>1. record' = record
    BY <1>6 DEF DeleteObjects, Deletes
  <2> QED
    BY <1>0, <1>6, <2>1, DeleteStep DEF ManifestsNamed
<1> QED
  BY <1>1, <1>2, <1>3, <1>4, <1>5, <1>6, StepKinds

LEMMA ManifestsInvariant == BackupSpec => []ManifestsNamed
<1>1. BackupInit => ManifestsNamed
  <2> SUFFICES ASSUME BackupInit
               PROVE  ManifestsNamed
    OBVIOUS
  <2>1. record.uid \in Nat
    BY BackupInitially DEF BackupInv, BackupType
  <2>2. bucket = [j \in ID |-> NoObjects]
    BY Zenon DEF BackupInit
  <2> QED
    BY <2>1, <2>2 DEF ManifestsNamed, NoObjects
<1> QED
  BY <1>1, BackupInvariant, ManifestsStep, PTL DEF BackupSpec

------------------------------------------------------------------------------
(* The refinement.                                                         *)

\* The restorable generations, as the refinement mapping has them.
Vault == {[id |-> i, uid |-> bucket[i].manifest] : i \in Complete}
Lifetimes == UNION {1..l.uids : l \in Limits}

LEMMA InVault ==
  /\ \A e : e \in Vault <=> \E i \in Complete : e = [id |-> i, uid |-> bucket[i].manifest]
  /\ \A i \in Complete : i \in ID
  BY DEF Vault, Complete

\* Where no generation becomes or ceases to be complete, the vault stays.
LEMMA SameVault ==
  ASSUME Complete' = Complete, \A i \in Complete : bucket'[i].manifest = bucket[i].manifest
  PROVE  Vault' = Vault
  BY DEF Vault

\* The mapped variables, as the proofs below name them.
LEMMA Mapping ==
  /\ Point!PointInit <=> Vault = {} /\ record.committed = 0 /\ record.uid \in Lifetimes
  /\ UNCHANGED Point!pointVars <=> Vault' = Vault /\ record'.committed = record.committed /\ record'.uid = record.uid
  /\ Point!PointNext <=>
       /\ ~(Vault' = Vault /\ record'.committed = record.committed /\ record'.uid = record.uid)
       /\ \/ \E g \in [id: ID, uid: Lifetimes] :
               /\ record'.committed = record.committed /\ record'.uid = record.uid
               /\ \/ g \notin Vault /\ Vault' = Vault \union {g}
                  \/ g # [id |-> record.committed, uid |-> record.uid] /\ Vault' = Vault \ {g}
          \/ \E id \in ID : /\ [id |-> id, uid |-> record.uid] \in Vault
                            /\ record'.committed = id /\ Vault' = Vault /\ record'.uid = record.uid
          \/ \E u \in Lifetimes : u # record.uid /\ record'.uid = u /\ record'.committed = 0 /\ Vault' = Vault
<1>1. Point!PointInit <=> Vault = {} /\ record.committed = 0 /\ record.uid \in Lifetimes
  BY DEF Point!PointInit, Vault, Lifetimes
<1>2. UNCHANGED Point!pointVars <=> Vault' = Vault /\ record'.committed = record.committed /\ record'.uid = record.uid
  BY DEF Point!pointVars, Vault
<1>3. Point!PointNext <=>
       /\ ~(Vault' = Vault /\ record'.committed = record.committed /\ record'.uid = record.uid)
       /\ \/ \E g \in [id: ID, uid: Lifetimes] :
               /\ record'.committed = record.committed /\ record'.uid = record.uid
               /\ \/ g \notin Vault /\ Vault' = Vault \union {g}
                  \/ g # [id |-> record.committed, uid |-> record.uid] /\ Vault' = Vault \ {g}
          \/ \E id \in ID : /\ [id |-> id, uid |-> record.uid] \in Vault
                            /\ record'.committed = id /\ Vault' = Vault /\ record'.uid = record.uid
          \/ \E u \in Lifetimes : u # record.uid /\ record'.uid = u /\ record'.committed = 0 /\ Vault' = Vault
  BY DEF Point!PointNext, Point!pointVars, Point!Complete, Point!Forget, Point!Commit, Point!Recreate, Vault, Lifetimes
<1> QED
  BY <1>1, <1>2, <1>3

LEMMA PointStep ==
  ASSUME BackupInv, ManifestsNamed, [BackupNext]_backupVars
  PROVE  [Point!PointNext]_(Point!pointVars)
<1>0. BackupType /\ bucket \in [ID -> Objects] /\ record.uid \in Nat /\ record.uid # 0
  BY DEF BackupInv, BackupType
<1>1. CASE Quiet
  BY <1>1, SameVault, Mapping DEF Quiet, Complete
<1>2. CASE Recreates
  <2>1. Vault' = Vault /\ record'.uid = record.uid + 1 /\ record'.committed = 0
    BY <1>2, SameVault DEF Recreates, Complete
  <2>2. record.uid + 1 \in Lifetimes /\ record.uid + 1 # record.uid
    BY <1>0, <1>2, LifetimeType DEF Recreates, Lifetimes
  <2> QED
    BY <2>1, <2>2, Mapping
<1>3. ASSUME NEW id \in ID, Commits(id)
      PROVE  [Point!PointNext]_(Point!pointVars)
  <2>1. Vault' = Vault /\ record'.uid = record.uid /\ record'.committed = id
    BY <1>3, SameVault DEF Commits, Complete
  <2>2. [id |-> id, uid |-> record.uid] \in Vault
    BY <1>0, <1>3 DEF Commits, IsWhole, Vault, Complete
  <2> QED
    BY <2>1, <2>2, Mapping
<1>4. ASSUME NEW n \in Node, WriteManifest(n)
      PROVE  [Point!PointNext]_(Point!pointVars)
  <2> DEFINE i == run[n].id
             u == run[n].of.uid
             g == [id |-> i, uid |-> u]
  <2>1. /\ i \in ID /\ bucket[i].manifest = 0 /\ bucket'[i].manifest = u /\ bucket'[i].whole = Volume
        /\ \A j \in ID : j # i => bucket'[j] = bucket[j]
    BY <1>4, ManifestKeeps
  <2>2. record' = record /\ Active(n)
    BY <1>4 DEF WriteManifest, Active
  <2>3. u \in Nat /\ u # 0 /\ u \in Lifetimes
    BY <2>2, RunLifetime, LifetimeType DEF Lifetimes
  <2> HIDE DEF i, u
  <2>4. i \notin Complete /\ Complete' = Complete \union {i}
    BY <2>1, <2>3 DEF Complete
  <2>5. \A j \in Complete : bucket'[j] = bucket[j]
    BY <2>1, <2>4 DEF Complete
  <2>6. g \notin Vault
    BY <2>4 DEF Vault
  <2>7. Vault' = Vault \union {g}
    BY <2>1, <2>4, <2>5 DEF Vault
  <2> QED
    BY <2>1, <2>2, <2>3, <2>6, <2>7, Mapping
<1>5. ASSUME NEW n \in Node, NEW v \in Volume, NEW stored \in {"whole", "short"}, Capture(n, v, stored)
      PROVE  [Point!PointNext]_(Point!pointVars)
  <2>1. Complete' = Complete /\ \A j \in Complete : bucket'[j].manifest = bucket[j].manifest
    BY <1>5, CaptureEffect DEF Complete
  <2> QED
    BY <1>5, <2>1, CaptureEffect, SameVault, Mapping
<1>6. ASSUME NEW n \in Node, NEW d \in run[n].doomed, DeleteObjects(n, d)
      PROVE  [Point!PointNext]_(Point!pointVars)
  <2> DEFINE i == d.id
             g == [id |-> i, uid |-> bucket[i].manifest]
  <2>1. /\ i \in ID /\ i # record.committed /\ bucket[i] \in Objects
        /\ \A j \in ID : j # i => bucket'[j] = bucket[j]
        /\ bucket'[i].manifest \in {0, bucket[i].manifest}
        /\ bucket'[i].whole \subseteq bucket[i].whole
    BY <1>0, <1>6, DeleteStep DEF Spared
  <2>2. record' = record
    BY <1>6 DEF DeleteObjects, Deletes
  <2> HIDE DEF i
  <2>3. CASE i \in Complete' \/ i \notin Complete
    <3>1. Complete' = Complete /\ \A j \in Complete : bucket'[j].manifest = bucket[j].manifest
      BY <2>1, <2>3 DEF Complete, Objects
    <3> QED
      BY <2>2, <3>1, SameVault, Mapping
  <2>4. CASE i \in Complete /\ i \notin Complete'
    <3>1. Complete' = Complete \ {i} /\ \A j \in Complete' : bucket'[j] = bucket[j]
      BY <2>1, <2>4 DEF Complete
    <3>2. g \in Vault /\ Vault' = Vault \ {g}
      BY <2>4, <3>1 DEF Vault
    <3>3. bucket[i].manifest \in Nat /\ bucket[i].manifest # 0 /\ bucket[i].manifest <= record.uid
      BY <2>1, <2>4 DEF Complete, Objects, ManifestsNamed
    <3>4. g \in [id: ID, uid: Lifetimes] /\ g # [id |-> record.committed, uid |-> record.uid]
      BY <2>1, <3>3, LifetimeType DEF Lifetimes
    <3> HIDE DEF g
    <3> QED
      BY <2>2, <3>2, <3>4, Mapping
  <2> QED
    BY <2>3, <2>4
<1> QED
  BY <1>1, <1>2, <1>3, <1>4, <1>5, <1>6, StepKinds

\* Whatever Nodes do at once, wherever an Agent dies and whichever answer is lost
\* (runner.go's Run, the Supervisor, RecordCommittedBackup and pruneGenerations):
\* the backups are a restore point that only moves to a complete generation of this
\* lifetime, and that pruning never takes away.
THEOREM BackupImplementsRestorePoint == BackupSpec => RefinesRestorePoint
<1>1. BackupInit => Point!PointInit
  <2> SUFFICES ASSUME BackupInit
               PROVE  Vault = {} /\ record.committed = 0 /\ record.uid \in Lifetimes
    BY Mapping
  <2>1. BackupInv
    BY BackupInitially
  <2>2. record.committed = 0
    <3>1. ASSUME NEW flag, record = [uid |-> 1, node |-> NoNode, gen |-> 0, terminating |-> flag, committed |-> 0]
          PROVE  record.committed = 0
      BY <3>1
    <3> QED
      BY <3>1, Zenon DEF BackupInit
  <2>3. record.uid \in Lifetimes
    BY <2>1, LifetimeType DEF BackupInv, BackupType, Lifetimes
  <2>4. bucket = [j \in ID |-> NoObjects]
    BY Zenon DEF BackupInit
  <2>5. Vault = {}
    BY <2>4 DEF Vault, Complete, NoObjects
  <2> QED
    BY <2>2, <2>3, <2>5
<1> QED
  BY <1>1, BackupInvariant, ManifestsInvariant, PointStep, PTL DEF BackupSpec, RefinesRestorePoint, Point!PointSpec

\* The promise that the abstract specification makes.
LEMMA PointPromise == Point!PointSpec => []Point!PointIsWhole
<1>1. Point!PointIsWhole <=> (record.committed # 0 => [id |-> record.committed, uid |-> record.uid] \in Vault)
  BY DEF Point!PointIsWhole, Vault
<1>2. Point!PointInit => Point!PointIsWhole
  BY <1>1, Mapping
<1>3. Point!PointIsWhole /\ [Point!PointNext]_(Point!pointVars) => Point!PointIsWhole'
  <2>1. Point!PointIsWhole' <=>
          (record'.committed # 0 => [id |-> record'.committed, uid |-> record'.uid] \in Vault')
    BY DEF Point!PointIsWhole, Vault
  <2>2. ASSUME Point!PointIsWhole, Point!PointNext
        PROVE  record'.committed # 0 => [id |-> record'.committed, uid |-> record'.uid] \in Vault'
    <3>1. record.committed # 0 => [id |-> record.committed, uid |-> record.uid] \in Vault
      BY <1>1, <2>2
    <3>2. \/ \E g \in [id: ID, uid: Lifetimes] :
               /\ record'.committed = record.committed /\ record'.uid = record.uid
               /\ \/ g \notin Vault /\ Vault' = Vault \union {g}
                  \/ g # [id |-> record.committed, uid |-> record.uid] /\ Vault' = Vault \ {g}
          \/ \E id \in ID : /\ [id |-> id, uid |-> record.uid] \in Vault
                            /\ record'.committed = id /\ Vault' = Vault /\ record'.uid = record.uid
          \/ record'.committed = 0
      BY <2>2, Mapping
    <3> QED
      BY <3>1, <3>2
  <2>3. ASSUME Point!PointIsWhole, UNCHANGED Point!pointVars
        PROVE  record'.committed # 0 => [id |-> record'.committed, uid |-> record'.uid] \in Vault'
    BY <1>1, <2>3, Mapping
  <2> QED
    BY <2>1, <2>2, <2>3
<1> QED
  BY <1>2, <1>3, PTL DEF Point!PointSpec

\* The restore point of the current lifetime is, at all times, a complete
\* generation of that lifetime that has not been given up: RecordCommittedBackup
\* moves it only to one, and pruneGenerations never takes it.
THEOREM RestorePointIsWhole == BackupSpec => []Point!PointIsWhole
  BY BackupImplementsRestorePoint, PointPromise, PTL DEF RefinesRestorePoint

\* What an earlier lifetime of the name backed up is never deleted by a later one:
\* deleteGeneration removes a manifest of the lifetime that prunes, or none.
THEOREM OldLifetimesAreKept == BackupSpec => OtherLifetimesKept
<1>1. ASSUME BackupInv, [BackupNext]_backupVars, NEW i \in ID, bucket[i].manifest # 0, bucket'[i].manifest = 0
      PROVE  \E n \in Node : run[n].pc = "delete" /\ run[n].of.uid = bucket[i].manifest
  <2>1. ~Quiet /\ ~Recreates /\ ~(\E id \in ID : Commits(id))
    BY <1>1 DEF Quiet, Recreates, Commits
  <2>2. ASSUME NEW n \in Node, WriteManifest(n)
        PROVE  FALSE
    <3>1. Active(n)
      BY <2>2 DEF WriteManifest, Active
    <3> QED
      BY <1>1, <2>2, <3>1, ManifestKeeps, RunLifetime
  <2>3. ASSUME NEW n \in Node, NEW v \in Volume, NEW stored \in {"whole", "short"}, Capture(n, v, stored)
        PROVE  FALSE
    BY <1>1, <2>3, CaptureEffect
  <2>4. PICK n \in Node : \E g \in run[n].doomed : DeleteObjects(n, g)
    BY <1>1, <2>1, <2>2, <2>3, StepKinds
  <2>5. PICK g \in run[n].doomed : DeleteObjects(n, g)
    BY <2>4
  <2>6. run[n].pc = "delete" /\ g.id = i /\ HasManifest(g) /\ Spared(n, g)
    BY <1>1, <2>5, DeleteStep DEF DeleteObjects
  <2> QED
    BY <1>1, <2>6 DEF Spared
<1>2. BackupInv /\ [BackupNext]_backupVars =>
        [\A i \in ID : (bucket[i].manifest # 0 /\ bucket'[i].manifest = 0) =>
           \E n \in Node : run[n].pc = "delete" /\ run[n].of.uid = bucket[i].manifest]_backupVars
  BY <1>1
<1> QED
  BY <1>2, BackupInvariant, PTL DEF BackupSpec, OtherLifetimesKept
=============================================================================
