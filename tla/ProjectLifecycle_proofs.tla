------------------------ MODULE ProjectLifecycle_proofs ------------------------
(***************************************************************************)
(* Proofs about ProjectLifecycle, for any Nodes, lifetimes and number of   *)
(* assignments.                                                            *)
(***************************************************************************)
EXTENDS ProjectLifecycle, TLAPS

------------------------------------------------------------------------------
(* What the operators on the obligation list return.                       *)

\* A new entry is an obligation, and nothing else is touched (AddObligation).
LEMMA AddObligationType ==
  ASSUME NEW obls \in SUBSET Obligation, NEW n \in Node, NEW g \in Nat,
         NEW auth \in Authorization
  PROVE  AddObligation(obls, n, g, auth) \in SUBSET Obligation
<1> DEFINE new == [node |-> n, gen |-> g, auth |-> auth, removed |-> FALSE,
                   owed |-> FALSE, quarantined |-> FALSE]
<1>1. new \in Obligation
  BY DEF Obligation
<1> HIDE DEF new
<1>2. obls \union {new} \in SUBSET Obligation
  BY <1>1
<1> QED BY <1>2 DEF AddObligation, new

\* Owing data changes entries, never their type (OweManagedData).
LEMMA OweManagedDataType ==
  ASSUME NEW obls \in SUBSET Obligation, NEW n \in Node, NEW g \in Nat, NEW m \in BOOLEAN
  PROVE  OweManagedData(obls, n, g, m) \in SUBSET Obligation
BY DEF OweManagedData, Obligation

\* An override changes entries, never their type (OverrideRelease).
LEMMA OverrideReleaseType ==
  ASSUME NEW obls \in SUBSET Obligation, NEW n \in Node, NEW g \in Nat
  PROVE  OverrideRelease(obls, n, g) \in SUBSET Obligation
<1> DEFINE added == AddObligation(obls, n, g, "OperatorOverride")
<1>1. added \in SUBSET Obligation
  BY AddObligationType DEF Authorization
<1> HIDE DEF added
<1>2. \A o \in added : [o EXCEPT !.auth = "OperatorOverride"] \in Obligation
  BY <1>1 DEF Obligation, Authorization
<1> QED BY <1>1, <1>2 DEF OverrideRelease, added

------------------------------------------------------------------------------
(* Each mutation returns a status.                                         *)

\* A release of an assigned Project yields a status (Released).
LEMMA ReleasedType ==
  ASSUME NEW s \in Status, s.nodeRef \in Node, NEW auth \in Authorization, NEW m \in BOOLEAN
  PROVE  Released(s, auth, m) \in Status
<1> DEFINE owed == OweManagedData(AddObligation(s.obligations, s.nodeRef, s.gen, auth),
                                  s.nodeRef, s.gen, m)
<1>1. s.obligations \in SUBSET Obligation /\ s.gen \in Nat
  BY DEF Status
<1>2. owed \in SUBSET Obligation
  BY <1>1, AddObligationType, OweManagedDataType
<1> HIDE DEF owed
<1>3. [s EXCEPT !.phase = "Pending", !.nodeRef = NoNode, !.takeover = FALSE,
                !.obligations = owed] \in Status
  BY <1>2 DEF Status, Phase
<1> QED BY <1>3 DEF Released, owed

\* Whatever the rescheduler decides about a Node yields a status.
LEMMA UnreachableType ==
  ASSUME NEW s \in Status, NEW n \in Node, NEW g, CanRelease(s, n, g), NEW m \in BOOLEAN,
         NEW r \in BOOLEAN
  PROVE  Unreachable(s, n, g, m, r) \in Status
<1>1. s.nodeRef \in Node
  BY DEF CanRelease
<1>2. [s EXCEPT !.takeover = TRUE] \in Status
  BY DEF Status
<1> QED BY <1>1, <1>2, ReleasedType DEF Unreachable, Authorization

\* Whatever is decided about a Failed Project yields a status.
LEMMA MovedAfterFailureType ==
  ASSUME NEW s \in Status, NEW n \in Node, NEW g, CanMoveFailed(s, n, g), NEW m \in BOOLEAN
  PROVE  MovedAfterFailure(s, n, g, m) \in Status
<1>1. s.nodeRef \in Node
  BY DEF CanMoveFailed
<1>2. [s EXCEPT !.takeover = TRUE] \in Status
  BY DEF Status
<1> DEFINE r == Released(s, "WorkloadStopped", m)
<1>3. r \in Status
  BY <1>1, ReleasedType DEF Authorization
<1> HIDE DEF r
<1>4. [r EXCEPT !.failedNodes = @ \union {n}] \in Status
  BY <1>3 DEF Status
<1> QED BY <1>2, <1>4 DEF MovedAfterFailure, r

\* A takeover yields a status.
LEMMA TakenOverType ==
  ASSUME NEW s \in Status, NEW n \in Node, NEW g \in Nat, NEW m \in BOOLEAN
  PROVE  TakenOver(s, n, g, m) \in Status
<1> DEFINE owed == OweManagedData(OverrideRelease(s.obligations, n, g), n, g, m)
<1>1. owed \in SUBSET Obligation
  BY OverrideReleaseType, OweManagedDataType DEF Status
<1> DEFINE t == IF s.nodeRef = NoNode THEN s.takeover ELSE FALSE
<1>2. t \in BOOLEAN
  BY DEF Status
<1> HIDE DEF owed, t
<1>3. [s EXCEPT !.phase = "Pending", !.nodeRef = NoNode, !.takeover = t,
                !.obligations = owed] \in Status
  BY <1>1, <1>2 DEF Status, Phase
<1> QED BY <1>3 DEF TakenOver, owed, t

\* Marking a Project Terminating yields a status.
LEMMA MarkedTerminatingType ==
  ASSUME NEW s \in Status
  PROVE  MarkedTerminating(s) \in Status
<1> DEFINE obls == IF s.nodeRef = NoNode THEN s.obligations
                   ELSE AddObligation(s.obligations, s.nodeRef, s.gen, "Deletion")
<1>1. obls \in SUBSET Obligation
  BY AddObligationType DEF Status, Authorization
<1> HIDE DEF obls
<1>2. [s EXCEPT !.phase = "Terminating", !.obligations = obls] \in Status
  BY <1>1 DEF Status, Phase
<1> QED BY <1>2 DEF MarkedTerminating, obls

\* Evidence changes entries, never their type.
LEMMA EvidenceType ==
  ASSUME NEW s \in Status, NEW n, NEW g
  PROVE  /\ ResourcesRemovedRecorded(s, n, g) \in Status
         /\ QuarantineRecorded(s, n, g) \in Status
<1> DEFINE F(o) == IF Names(o, n, g) THEN [o EXCEPT !.removed = TRUE] ELSE o
           G(o) == IF Names(o, n, g) THEN [o EXCEPT !.quarantined = TRUE] ELSE o
           fs == {F(o) : o \in s.obligations}
           gs == {G(o) : o \in s.obligations}
<1>1. s.obligations \in SUBSET Obligation
  BY DEF Status
<1>2. fs \in SUBSET Obligation /\ gs \in SUBSET Obligation
  BY <1>1 DEF Obligation
<1> HIDE DEF fs, gs
<1>3. [s EXCEPT !.obligations = fs] \in Status /\ [s EXCEPT !.obligations = gs] \in Status
  BY <1>2 DEF Status
<1> QED BY <1>3 DEF ResourcesRemovedRecorded, QuarantineRecorded, fs, gs

\* The remaining mutations change fields of one value each.
LEMMA FieldTypes ==
  ASSUME NEW s \in Status, NEW n \in Node, NEW g \in Nat, NEW ph \in Phase
  PROVE  /\ Scheduled(s, n) \in Status
         /\ Reported(s, ph) \in Status
         /\ StoppedRecorded(s, n, g) \in Status
         /\ BackupAccepted(s) \in Status
         /\ SpecChanged(s) \in Status
         /\ [s EXCEPT !.failedNodes = {}] \in Status
         /\ [s EXCEPT !.takeover = FALSE] \in Status
<1>0. s.gen + 1 \in Nat /\ NoAssignment \in [node: Node \union {NoNode}, gen: Nat]
  BY DEF Status, NoAssignment
<1>1. Scheduled(s, n) \in Status
  BY <1>0 DEF Scheduled, Status, Phase, History
<1>2. Reported(s, ph) \in Status
  BY DEF Reported, Status
<1>3. StoppedRecorded(s, n, g) \in Status
  BY DEF StoppedRecorded, Status
<1>4. BackupAccepted(s) \in Status
  BY DEF BackupAccepted, Status
<1>5. SpecChanged(s) \in Status /\ [s EXCEPT !.failedNodes = {}] \in Status
  BY DEF SpecChanged, Status
<1>6. [s EXCEPT !.takeover = FALSE] \in Status
  BY DEF Status
<1> QED BY <1>1, <1>2, <1>3, <1>4, <1>5, <1>6

\* The two statuses a record can begin with.
LEMMA InitialStatusType == InitialProjectStatus \in Status /\ MigratedStatus \in Status
<1>1. InitialProjectStatus \in Status
  BY DEF InitialProjectStatus, Status, Phase, History, NoAssignment
<1>2. [InitialProjectStatus EXCEPT !.history = "Unknown"] \in Status
  BY <1>1 DEF Status, History
<1> QED BY <1>1, <1>2 DEF MigratedStatus

------------------------------------------------------------------------------
(* Type correctness.                                                       *)

\* A write of a status keeps the types (Write).
LEMMA WriteType ==
  ASSUME TypeOK, NEW s \in Status, Write(s)
  PROVE  TypeOK'
BY DEF TypeOK, Write

\* So does removing the record (RecordRemoved).
LEMMA RemoveType ==
  ASSUME TypeOK, uid \in UID, NEW how \in Removal, RecordRemoved(how)
  PROVE  TypeOK'
BY InitialStatusType DEF TypeOK, RecordRemoved

\* Every step of every writer keeps the types.
LEMMA TypeStep == TypeOK /\ [Next]_vars => TypeOK'
<1> SUFFICES ASSUME TypeOK, [Next]_vars PROVE TypeOK'
  OBVIOUS
<1> USE DEF Fence
<1>0. /\ status \in Status /\ managed \in BOOLEAN
      /\ uid # NoUID => uid \in UID
      /\ \A f \in Fence : f.node \in Node /\ f.gen \in Nat
  BY MaxGenAssumption DEF TypeOK
<1>1. ASSUME NEW u \in UID, NEW m \in BOOLEAN, CreateProject(u, m) PROVE TypeOK'
  BY <1>1, InitialStatusType DEF CreateProject, TypeOK, Removal
<1>2. ASSUME NEW m \in BOOLEAN, UpdateProjectSpec(m) PROVE TypeOK'
  <2>1. \A gr \in grants : [gr EXCEPT !.managed = @ \/ m] \in Grant
    BY DEF TypeOK, Grant
  <2>2. grants' \in SUBSET Grant
    BY <1>2, <2>1 DEF UpdateProjectSpec, TypeOK
  <2>3. SpecChanged(status) \in Status
    BY <1>0 DEF SpecChanged, Status
  <2> QED BY <1>2, <2>2, <2>3 DEF UpdateProjectSpec, TypeOK
<1>3. ASSUME ForceDelete PROVE TypeOK'
  BY <1>0, <1>3, RemoveType DEF ForceDelete, Removal
<1>4. ASSUME NEW u \in UID, DeleteImmediately(u) PROVE TypeOK'
  BY <1>4, RemoveType DEF DeleteImmediately, Removal
<1>5. ASSUME NEW u \in UID, MarkTerminating(u) PROVE TypeOK'
  BY <1>0, <1>5, MarkedTerminatingType, WriteType DEF MarkTerminating
<1>6. ASSUME NEW n \in Node, SetProjectScheduled(n) PROVE TypeOK'
  <2>1. Scheduled(status, n) \in Status
    <3>1. status.gen + 1 \in Nat /\ NoAssignment \in [node: Node \union {NoNode}, gen: Nat]
      BY <1>0 DEF Status, NoAssignment
    <3> QED BY <1>0, <3>1 DEF Scheduled, Status, Phase, History
  <2>2. [node |-> n, gen |-> status.gen + 1, managed |-> managed] \in Grant
    BY <1>0 DEF Grant, Status
  <2> QED BY <1>6, <2>1, <2>2 DEF SetProjectScheduled, TypeOK
<1>7. ASSUME NEW f \in Fence, ReleaseAssignment(f) PROVE TypeOK'
  BY <1>0, <1>7, UnreachableType, WriteType, OptionAssumption DEF ReleaseAssignment
<1>8. ASSUME NEW f \in Fence, MoveFailedProject(f) PROVE TypeOK'
  BY <1>0, <1>8, MovedAfterFailureType, WriteType DEF MoveFailedProject
<1>9. ASSUME ClearFailedNodes PROVE TypeOK'
  <2>1. [status EXCEPT !.failedNodes = {}] \in Status
    BY <1>0 DEF Status
  <2> QED BY <1>9, <2>1, WriteType DEF ClearFailedNodes
<1>10. ASSUME NEW n \in Node, ClearRescheduleClocks(n) PROVE TypeOK'
  <2>1. [status EXCEPT !.takeover = FALSE] \in Status
    BY <1>0 DEF Status
  <2> QED BY <1>10, <2>1, WriteType DEF ClearRescheduleClocks
<1>11. ASSUME NEW f \in Fence, TakeoverProject(f) PROVE TypeOK'
  BY <1>0, <1>11, TakenOverType, WriteType DEF TakeoverProject
<1>12. ASSUME NEW u \in UID, FinalizeProject(u) PROVE TypeOK'
  BY <1>12, RemoveType DEF FinalizeProject, Removal
<1>13. ASSUME NEW f \in Fence, NEW ph \in Phase, PatchStatus(f, ph) PROVE TypeOK'
  BY <1>0, <1>13, FieldTypes, WriteType DEF PatchStatus
<1>14. ASSUME NEW f \in Fence, RecordWorkloadStopped(f) PROVE TypeOK'
  <2>1. StoppedRecorded(status, f.node, f.gen) \in Status
    BY <1>0 DEF StoppedRecorded, Status
  <2> QED BY <1>14, <2>1, WriteType DEF RecordWorkloadStopped
<1>15. ASSUME NEW f \in Fence, RecordCommittedBackup(f) \/ RecordBackupCompletion(f)
       PROVE  TypeOK'
  <2>1. BackupAccepted(status) \in Status
    BY <1>0 DEF BackupAccepted, Status
  <2> QED BY <1>15, <2>1, WriteType DEF RecordCommittedBackup, RecordBackupCompletion
<1>16. ASSUME NEW f \in Fence, RecordResourcesRemoved(f) \/ RecordManagedDataQuarantined(f)
       PROVE  TypeOK'
  BY <1>0, <1>16, EvidenceType, WriteType
     DEF RecordResourcesRemoved, RecordManagedDataQuarantined
<1>17. ASSUME UNCHANGED vars PROVE TypeOK'
  BY <1>17 DEF vars, TypeOK
<1> QED
  BY <1>1, <1>2, <1>3, <1>4, <1>5, <1>6, <1>7, <1>8, <1>9, <1>10, <1>11, <1>12, <1>13,
     <1>14, <1>15, <1>16, <1>17
     DEF Next, UserStep, ServerStep, AgentStep

\* The variables of a record and its history keep their types, whoever writes
\* and in whatever order.
THEOREM TypeCorrect == Spec => []TypeOK
<1>1. Init => TypeOK
  BY InitialStatusType DEF Init, TypeOK, Removal
<1>2. TypeOK /\ [Next]_vars => TypeOK'
  BY TypeStep
<1> QED BY <1>1, <1>2, PTL DEF Spec

------------------------------------------------------------------------------
(* The inductive invariant.  It is stated about the values it constrains,  *)
(* so that what a mutation does to it is a lemma about values: the phase,  *)
(* the nodeRef ref, the generation g, the obligation list obls and the     *)
(* assignments gs granted so far.                                          *)

\* Grants are numbered 1 .. g, one each.
Counted(g, gs) == \A x \in gs : x.gen \in 1..g /\ (\A y \in gs : y.gen = x.gen => y = x)

\* A Project is assigned exactly in the phases that say so, by a grant; while
\* it may run, that assignment is not owed for yet.
Coherent(ph, ref, g, obls, gs) ==
  /\ ph = "Pending" => ref = NoNode
  /\ ph = "Terminated" => ref # NoNode /\ ResourcesRemovedFor(obls, ref, g)
  /\ ph \in {"Scheduled", "Running", "Failed"} => ref # NoNode /\ (\A o \in obls : o.gen # g)
  /\ ref # NoNode => \E x \in gs : x.node = ref /\ x.gen = g

Accounted(ref, g, obls, gs) ==
  \A x \in gs : (ref = x.node /\ g = x.gen) \/ HasObligation(obls, x.node, x.gen)

Granted(obls, gs) ==
  \A o \in obls : /\ \E x \in gs : Names(o, x.node, x.gen)
                  /\ \A p \in obls : p.gen = o.gen => p = o

\* Only the latest generation can block; the Node that holds the Project has
\* settled every earlier one.
Settled(ref, g, obls) ==
  \A o \in obls : o.gen < g =>
    /\ PermitsAssignment(o)
    /\ o.node = ref => o.removed /\ ~DataOutstanding(o)

Ledger(ph, ref, g, obls, gs) ==
  /\ Counted(g, gs)
  /\ Coherent(ph, ref, g, obls, gs)
  /\ Accounted(ref, g, obls, gs)
  /\ Granted(obls, gs)
  /\ Settled(ref, g, obls)

StatusLedger(s, gs) == Ledger(s.phase, s.nodeRef, s.gen, s.obligations, gs)

IInv == TypeOK /\ StatusLedger(status, grants)

------------------------------------------------------------------------------
(* An obligation list that only makes progress keeps the ledger.           *)

\* Entry p is entry o some steps on; a data debt is added only for generation g.
Advances(o, p, g) ==
  /\ p.node = o.node /\ p.gen = o.gen
  /\ o.removed => p.removed
  /\ o.owed => p.owed
  /\ o.quarantined => p.quarantined
  /\ p.auth \in {o.auth, "OperatorOverride"}
  /\ o.gen # g => (p.owed => o.owed)

Progressed(old, new, g) ==
  /\ \A o \in old : \E p \in new : Advances(o, p, g)
  /\ \A p \in new : \E o \in old : Advances(o, p, g)
  /\ (\A o, q \in old : q.gen = o.gen => q = o) => (\A o, q \in new : q.gen = o.gen => q = o)

\* Owing Managed data for the latest generation is progress (OweManagedData).
LEMMA OweManagedDataProgress ==
  ASSUME NEW obls \in SUBSET Obligation, NEW n, NEW g, NEW m
  PROVE  Progressed(obls, OweManagedData(obls, n, g, m), g)
<1> DEFINE F(o) == IF m /\ Names(o, n, g) THEN [o EXCEPT !.owed = TRUE] ELSE o
<1>1. OweManagedData(obls, n, g, m) = {F(o) : o \in obls}
  BY DEF OweManagedData
<1>2. \A o \in obls : Advances(o, F(o), g)
  BY DEF Advances, Obligation, Names
<1> HIDE DEF F
<1>3. \A o, q \in obls : F(q).gen = F(o).gen => q.gen = o.gen
  BY <1>2 DEF Advances
<1> QED BY <1>1, <1>2, <1>3 DEF Progressed

\* Evidence is progress, for whatever entry it names.
LEMMA EvidenceProgress ==
  ASSUME NEW s \in Status, NEW n, NEW k, NEW g
  PROVE  /\ Progressed(s.obligations, ResourcesRemovedRecorded(s, n, k).obligations, g)
         /\ Progressed(s.obligations, QuarantineRecorded(s, n, k).obligations, g)
<1> DEFINE obls == s.obligations
           F(o) == IF Names(o, n, k) THEN [o EXCEPT !.removed = TRUE] ELSE o
           G(o) == IF Names(o, n, k) THEN [o EXCEPT !.quarantined = TRUE] ELSE o
<1>1. /\ ResourcesRemovedRecorded(s, n, k).obligations = {F(o) : o \in obls}
      /\ QuarantineRecorded(s, n, k).obligations = {G(o) : o \in obls}
  BY DEF ResourcesRemovedRecorded, QuarantineRecorded, Status
<1>2. obls \in SUBSET Obligation
  BY DEF Status
<1>3. \A o \in obls : Advances(o, F(o), g) /\ Advances(o, G(o), g)
  BY <1>2 DEF Advances, Obligation
<1> HIDE DEF F, G, obls
<1>4. \A o, q \in obls : /\ F(q).gen = F(o).gen => q.gen = o.gen
                         /\ G(q).gen = G(o).gen => q.gen = o.gen
  BY <1>3 DEF Advances
<1>5. Progressed(obls, {F(o) : o \in obls}, g) /\ Progressed(obls, {G(o) : o \in obls}, g)
  BY <1>3, <1>4 DEF Progressed
<1> QED BY <1>1, <1>5 DEF obls

\* The override that OverrideRelease applies once the entry is there.
LEMMA OverrideProgress ==
  ASSUME NEW obls \in SUBSET Obligation, NEW n, NEW k, NEW g
  PROVE  Progressed(AddObligation(obls, n, k, "OperatorOverride"), OverrideRelease(obls, n, k), g)
<1> DEFINE added == AddObligation(obls, n, k, "OperatorOverride")
           F(o) == IF Names(o, n, k) THEN [o EXCEPT !.auth = "OperatorOverride"] ELSE o
<1>1. OverrideRelease(obls, n, k) = {F(o) : o \in added}
  BY DEF OverrideRelease
<1>2. \A o \in added : o = [node |-> o.node, gen |-> o.gen, auth |-> o.auth, removed |-> o.removed,
                            owed |-> o.owed, quarantined |-> o.quarantined]
  BY DEF AddObligation, Obligation
<1> HIDE DEF added
<1>3. \A o \in added : Advances(o, F(o), g)
  BY <1>2 DEF Advances
<1> HIDE DEF F
<1>4. \A o, q \in added : F(q).gen = F(o).gen => q.gen = o.gen
  BY <1>3 DEF Advances
<1>5. Progressed(added, {F(o) : o \in added}, g)
  BY <1>3, <1>4 DEF Progressed
<1> QED BY <1>1, <1>5 DEF added

\* Progress keeps the ledger: no assignment is forgotten, none is owed for
\* twice, and what permitted an assignment still does.
LEMMA ProgressKeepsLedger ==
  ASSUME NEW ph, NEW ref, NEW g \in Nat, NEW obls, NEW gs, NEW new,
         \A o \in obls : o.gen \in Nat,
         Ledger(ph, ref, g, obls, gs), Progressed(obls, new, g)
  PROVE  Ledger(ph, ref, g, new, gs)
<1>1. \A o, q \in new : q.gen = o.gen => q = o
  BY DEF Ledger, Granted, Progressed
<1>2. Granted(new, gs)
  BY <1>1 DEF Ledger, Granted, Progressed, Advances, Names
<1>3. Accounted(ref, g, new, gs)
  BY DEF Ledger, Accounted, Progressed, Advances, HasObligation, Names
<1>4. Settled(ref, g, new)
  <2> SUFFICES ASSUME NEW p \in new, p.gen < g
               PROVE  PermitsAssignment(p) /\ (p.node = ref => p.removed /\ ~DataOutstanding(p))
    BY DEF Settled
  <2>1. PICK o \in obls : Advances(o, p, g)
    BY DEF Progressed
  <2>2. o.gen < g /\ o.gen # g /\ o.node = p.node
    BY <2>1 DEF Advances
  <2>3. PermitsAssignment(o) /\ (o.node = ref => o.removed /\ ~DataOutstanding(o))
    BY <2>2 DEF Ledger, Settled
  <2> QED BY <2>1, <2>2, <2>3 DEF Advances, PermitsAssignment, DataOutstanding
<1>5. Coherent(ph, ref, g, new, gs)
  <2>1. ResourcesRemovedFor(obls, ref, g) => ResourcesRemovedFor(new, ref, g)
    BY DEF ResourcesRemovedFor, Progressed, Advances, Names
  <2>2. (\A o \in obls : o.gen # g) => (\A o \in new : o.gen # g)
    BY DEF Progressed, Advances
  <2> QED BY <2>1, <2>2 DEF Ledger, Coherent
<1> QED BY <1>2, <1>3, <1>4, <1>5 DEF Ledger

------------------------------------------------------------------------------
(* What each kind of write does to the ledger.                             *)

\* Every assignment is in the list new, once, and the entries of earlier
\* generations are those of obls.
AllOwed(new, obls, g, gs) ==
  /\ \A x \in gs : HasObligation(new, x.node, x.gen)
  /\ Granted(new, gs)
  /\ \A o \in new : o.gen < g => o \in obls

\* The debt of the assignment that may run is a new entry (AddObligation).
LEMMA NewDebt ==
  ASSUME NEW ph, NEW ref \in Node, NEW g \in Nat, NEW obls \in SUBSET Obligation,
         NEW gs \in SUBSET Grant, NEW auth,
         ph \in {"Scheduled", "Running", "Failed"}, Ledger(ph, ref, g, obls, gs)
  PROVE  AllOwed(AddObligation(obls, ref, g, auth), obls, g, gs)
<1> DEFINE e == [node |-> ref, gen |-> g, auth |-> auth, removed |-> FALSE,
                 owed |-> FALSE, quarantined |-> FALSE]
           new == AddObligation(obls, ref, g, auth)
<1>1. \A o \in obls : o.gen # g
  BY DEF Ledger, Coherent
<1>2. new = obls \union {e}
  BY <1>1 DEF AddObligation, HasObligation, Names
<1>3. e.node = ref /\ e.gen = g
  OBVIOUS
<1> HIDE DEF e, new
<1>4. PICK x \in gs : x.node = ref /\ x.gen = g
  BY NoNodeAssumption DEF Ledger, Coherent
<1>5. HasObligation(new, ref, g)
  BY <1>2, <1>3 DEF HasObligation, Names
<1>6. \A y \in gs : HasObligation(new, y.node, y.gen)
  BY <1>2, <1>5 DEF Ledger, Accounted, HasObligation, Names
<1>7. Granted(new, gs)
  BY <1>1, <1>2, <1>3, <1>4 DEF Ledger, Granted, Names
<1>8. \A o \in new : o.gen < g => o \in obls
  BY <1>2, <1>3
<1> QED BY <1>6, <1>7, <1>8 DEF AllOwed, new

\* A release: the assignment goes and its debt stands (ReleaseAssignment,
\* MoveFailedProject, applyOperatorTakeover).
LEMMA ReleaseLedger ==
  ASSUME NEW ph, NEW ref \in Node, NEW g \in Nat, NEW obls \in SUBSET Obligation,
         NEW gs \in SUBSET Grant, NEW auth,
         ph \in {"Scheduled", "Running", "Failed"}, Ledger(ph, ref, g, obls, gs)
  PROVE  Ledger("Pending", NoNode, g, AddObligation(obls, ref, g, auth), gs)
<1> DEFINE new == AddObligation(obls, ref, g, auth)
<1>1. AllOwed(new, obls, g, gs)
  BY NewDebt
<1> HIDE DEF new
<1>2. \A o \in obls : o.node # NoNode
  BY NoNodeAssumption DEF Obligation
<1>3. Settled(NoNode, g, new)
  BY <1>1, <1>2 DEF Ledger, Settled, AllOwed
<1>4. Coherent("Pending", NoNode, g, new, gs)
  BY DEF Coherent
<1>5. Accounted(NoNode, g, new, gs)
  BY <1>1 DEF Accounted, AllOwed
<1> QED BY <1>1, <1>3, <1>4, <1>5 DEF Ledger, AllOwed, new

\* A deletion is accepted: the assignment stays and its debt stands.
LEMMA TerminateLedger ==
  ASSUME NEW ph, NEW ref \in Node \union {NoNode}, NEW g \in Nat,
         NEW obls \in SUBSET Obligation, NEW gs \in SUBSET Grant,
         ph \in {"Pending", "Scheduled", "Running", "Failed"}, Ledger(ph, ref, g, obls, gs)
  PROVE  Ledger("Terminating", ref, g,
                IF ref = NoNode THEN obls ELSE AddObligation(obls, ref, g, "Deletion"), gs)
<1>1. CASE ref = NoNode
  BY <1>1 DEF Ledger, Coherent
<1>2. CASE ref # NoNode
  <2> DEFINE new == AddObligation(obls, ref, g, "Deletion")
  <2>1. ph \in {"Scheduled", "Running", "Failed"} /\ ref \in Node
    BY <1>2 DEF Ledger, Coherent
  <2>2. AllOwed(new, obls, g, gs)
    BY <2>1, NewDebt
  <2> HIDE DEF new
  <2>3. Settled(ref, g, new)
    BY <2>2 DEF Ledger, Settled, AllOwed
  <2>4. Coherent("Terminating", ref, g, new, gs)
    BY DEF Coherent, Ledger
  <2>5. Accounted(ref, g, new, gs)
    BY <2>2 DEF Accounted, AllOwed
  <2>6. Ledger("Terminating", ref, g, new, gs)
    BY <2>2, <2>3, <2>4, <2>5 DEF Ledger, AllOwed
  <2> QED BY <1>2, <2>6 DEF new
<1> QED BY <1>1, <1>2

\* A grant: nothing blocks, and the Node owes nothing (SetProjectScheduled).
LEMMA ScheduleLedger ==
  ASSUME NEW n \in Node, NEW g \in Nat, NEW obls \in SUBSET Obligation,
         NEW gs \in SUBSET Grant, NEW x, x.node = n, x.gen = g + 1,
         Blocking(obls) = {}, n \notin NodesOwingCleanup(obls),
         Ledger("Pending", NoNode, g, obls, gs)
  PROVE  Ledger("Scheduled", n, g + 1, obls, gs \union {x})
<1>1. \A y \in gs : y.gen \in 1..g /\ y.node # NoNode
  BY NoNodeAssumption DEF Ledger, Counted, Grant
<1>2. Counted(g + 1, gs \union {x})
  <2>1. \A y \in gs : y.gen # x.gen /\ y.gen \in 1..(g + 1)
    BY <1>1
  <2>2. x.gen \in 1..(g + 1)
    OBVIOUS
  <2> QED BY <2>1, <2>2 DEF Ledger, Counted
<1>3. \A o \in obls : o.gen \in 1..g
  BY <1>1 DEF Ledger, Granted, Names
<1>4. Coherent("Scheduled", n, g + 1, obls, gs \union {x})
  BY <1>3, NoNodeAssumption DEF Coherent
<1>5. Accounted(n, g + 1, obls, gs \union {x})
  BY <1>1 DEF Ledger, Accounted
<1>6. Granted(obls, gs \union {x})
  BY DEF Ledger, Granted
<1>7. Settled(n, g + 1, obls)
  <2>1. \A o \in obls : PermitsAssignment(o)
    BY DEF Blocking
  <2>2. \A o \in obls : o.node = n => o.removed /\ ~DataOutstanding(o)
    BY DEF NodesOwingCleanup, Owing
  <2> QED BY <2>1, <2>2 DEF Settled
<1> QED BY <1>2, <1>4, <1>5, <1>6, <1>7 DEF Ledger

\* A report the transition table and the evidence gate accept (patchStatus).
LEMMA ReportLedger ==
  ASSUME NEW s \in Status, NEW ph, CanReport(s, ph), NEW gs \in SUBSET Grant,
         Ledger(s.phase, s.nodeRef, s.gen, s.obligations, gs)
  PROVE  Ledger(ph, s.nodeRef, s.gen, s.obligations, gs)
<1>1. \/ s.phase = ph
      \/ s.phase \in {"Scheduled", "Running"} /\ ph \in {"Running", "Failed"}
      \/ s.phase = "Terminating" /\ ph = "Terminated"
  BY DEF CanReport, PhaseTransitionAllowed, phaseTransitions
<1>2. CASE s.phase = "Terminating" /\ ph = "Terminated"
  <2>1. ResourcesRemovedFor(s.obligations, s.nodeRef, s.gen)
    BY <1>2 DEF CanReport
  <2>2. s.nodeRef # NoNode
    BY <2>1, NoNodeAssumption DEF ResourcesRemovedFor, Names, Status, Obligation
  <2> QED BY <1>2, <2>1, <2>2 DEF Ledger, Coherent
<1>3. CASE s.phase \in {"Scheduled", "Running"} /\ ph \in {"Running", "Failed"}
  BY <1>3 DEF Ledger, Coherent
<1> QED BY <1>1, <1>2, <1>3

------------------------------------------------------------------------------
(* What each mutation of the status does to the ledger.                    *)

\* A mutation that leaves phase, assignment and list alone keeps the ledger.
LEMMA QuietLedger ==
  ASSUME NEW s, NEW t, NEW gs, StatusLedger(s, gs),
         t.phase = s.phase, t.nodeRef = s.nodeRef, t.gen = s.gen, t.obligations = s.obligations
  PROVE  StatusLedger(t, gs)
BY DEF StatusLedger

\* An active phase means an assignment.
LEMMA ActiveIsAssigned ==
  ASSUME NEW s \in Status, NEW gs, StatusLedger(s, gs),
         s.phase \in {"Scheduled", "Running", "Failed"}
  PROVE  s.nodeRef \in Node /\ s.gen \in Nat /\ s.obligations \in SUBSET Obligation
BY DEF Status, StatusLedger, Ledger, Coherent

\* Released, from any phase an assignment can be released in.
LEMMA ReleasedLedger ==
  ASSUME NEW s \in Status, NEW gs \in SUBSET Grant, StatusLedger(s, gs),
         s.phase \in {"Scheduled", "Running", "Failed"},
         NEW auth \in Authorization, NEW m \in BOOLEAN
  PROVE  StatusLedger(Released(s, auth, m), gs)
<1> DEFINE added == AddObligation(s.obligations, s.nodeRef, s.gen, auth)
           owed == OweManagedData(added, s.nodeRef, s.gen, m)
<1>1. s.nodeRef \in Node /\ s.gen \in Nat /\ s.obligations \in SUBSET Obligation
  BY ActiveIsAssigned
<1>2. Ledger("Pending", NoNode, s.gen, added, gs)
  BY <1>1, ReleaseLedger DEF StatusLedger
<1>3. added \in SUBSET Obligation
  BY <1>1, AddObligationType
<1>4. Progressed(added, owed, s.gen)
  BY <1>3, OweManagedDataProgress
<1> HIDE DEF added
<1>5. \A o \in added : o.gen \in Nat
  BY <1>3 DEF Obligation
<1> HIDE DEF owed
<1>6. Ledger("Pending", NoNode, s.gen, owed, gs)
  BY <1>1, <1>2, <1>4, <1>5, ProgressKeepsLedger
<1>7. /\ Released(s, auth, m).phase = "Pending" /\ Released(s, auth, m).nodeRef = NoNode
      /\ Released(s, auth, m).gen = s.gen /\ Released(s, auth, m).obligations = owed
  BY DEF Released, Status, owed, added
<1> QED BY <1>6, <1>7 DEF StatusLedger

\* The rescheduler's write, released or marked (ReleaseAssignment).
LEMMA UnreachableLedger ==
  ASSUME NEW s \in Status, NEW gs \in SUBSET Grant, StatusLedger(s, gs),
         NEW n \in Node, NEW g, CanRelease(s, n, g), NEW m \in BOOLEAN, NEW r \in BOOLEAN
  PROVE  StatusLedger(Unreachable(s, n, g, m, r), gs)
<1>1. s.phase \in {"Scheduled", "Running"}
  BY DEF CanRelease, PhaseTransitionAllowed, phaseTransitions, Status, Phase
<1>2. /\ StatusLedger(Released(s, "WorkloadStopped", m), gs)
      /\ StatusLedger(Released(s, "GraceExpired", m), gs)
  BY <1>1, ReleasedLedger DEF Authorization
<1> DEFINE t == [s EXCEPT !.takeover = TRUE]
<1>3. /\ t.phase = s.phase /\ t.nodeRef = s.nodeRef
      /\ t.gen = s.gen /\ t.obligations = s.obligations
  BY DEF Status
<1> HIDE DEF t
<1>4. StatusLedger(t, gs)
  BY <1>3, QuietLedger
<1> QED BY <1>2, <1>4 DEF Unreachable, t

\* The failed rescheduler's write, moved or marked (MoveFailedProject).
LEMMA MovedLedger ==
  ASSUME NEW s \in Status, NEW gs \in SUBSET Grant, StatusLedger(s, gs),
         NEW n \in Node, NEW g, CanMoveFailed(s, n, g), NEW m \in BOOLEAN
  PROVE  StatusLedger(MovedAfterFailure(s, n, g, m), gs)
<1>1. s.phase = "Failed"
  BY DEF CanMoveFailed, PhaseTransitionAllowed, phaseTransitions, Status, Phase
<1> DEFINE r == Released(s, "WorkloadStopped", m)
           t == [s EXCEPT !.takeover = TRUE]
<1>2. StatusLedger(r, gs)
  BY <1>1, ReleasedLedger DEF Authorization
<1>3. r \in Status
  BY <1>1, ActiveIsAssigned, ReleasedType DEF Authorization
<1>4. /\ t.phase = s.phase /\ t.nodeRef = s.nodeRef
      /\ t.gen = s.gen /\ t.obligations = s.obligations
  BY DEF Status
<1> HIDE DEF r, t
<1> DEFINE v == [r EXCEPT !.failedNodes = @ \union {n}]
<1>5. /\ v.phase = r.phase /\ v.nodeRef = r.nodeRef
      /\ v.gen = r.gen /\ v.obligations = r.obligations
  BY <1>3 DEF Status
<1> HIDE DEF v
<1>6. StatusLedger(t, gs) /\ StatusLedger(v, gs)
  BY <1>2, <1>4, <1>5, QuietLedger
<1> QED BY <1>6 DEF MovedAfterFailure, r, t, v

\* The operator's write, for a held or an already released assignment
\* (TakeoverProject).
LEMMA TakenOverLedger ==
  ASSUME NEW s \in Status, NEW gs \in SUBSET Grant, StatusLedger(s, gs),
         NEW n \in Node, NEW g \in Nat, CanTakeOver(s, n, g), NEW m \in BOOLEAN
  PROVE  StatusLedger(TakenOver(s, n, g, m), gs)
<1> DEFINE added == AddObligation(s.obligations, n, g, "OperatorOverride")
           over == OverrideRelease(s.obligations, n, g)
           owed == OweManagedData(over, n, g, m)
<1>1. s.gen = g /\ s.obligations \in SUBSET Obligation
  BY DEF CanTakeOver, Status
<1>2. Ledger("Pending", NoNode, g, added, gs)
  <2>1. CASE s.nodeRef = NoNode
    <3>1. HasObligation(s.obligations, n, g) /\ s.phase = "Pending"
      BY <2>1 DEF CanTakeOver, Blocking, HasObligation
    <3> QED BY <1>1, <2>1, <3>1 DEF AddObligation, StatusLedger
  <2>2. CASE s.nodeRef # NoNode
    <3>1. s.nodeRef = n /\ s.phase \in {"Scheduled", "Running"}
      BY <2>2 DEF CanTakeOver, PhaseTransitionAllowed, phaseTransitions, Status, Phase
    <3> QED BY <1>1, <3>1, ReleaseLedger DEF StatusLedger
  <2> QED BY <2>1, <2>2
<1>3. /\ added \in SUBSET Obligation /\ over \in SUBSET Obligation
  BY <1>1, AddObligationType, OverrideReleaseType DEF Authorization
<1>4. Progressed(added, over, g) /\ Progressed(over, owed, g)
  BY <1>1, <1>3, OverrideProgress, OweManagedDataProgress
<1> HIDE DEF added, over
<1>5. /\ \A o \in added : o.gen \in Nat
      /\ \A o \in over : o.gen \in Nat
  BY <1>3 DEF Obligation
<1> HIDE DEF owed
<1>6. Ledger("Pending", NoNode, g, over, gs)
  BY <1>2, <1>4, <1>5, ProgressKeepsLedger
<1>7. Ledger("Pending", NoNode, g, owed, gs)
  BY <1>4, <1>5, <1>6, ProgressKeepsLedger
<1> DEFINE t == TakenOver(s, n, g, m)
<1>8. t.phase = "Pending" /\ t.nodeRef = NoNode /\ t.gen = g /\ t.obligations = owed
  BY <1>1 DEF TakenOver, Status, owed, over
<1> QED BY <1>7, <1>8 DEF StatusLedger

\* The delete handler's write.
LEMMA MarkedTerminatingLedger ==
  ASSUME NEW s \in Status, NEW gs \in SUBSET Grant, StatusLedger(s, gs), CanTerminate(s)
  PROVE  StatusLedger(MarkedTerminating(s), gs)
<1> DEFINE obls == IF s.nodeRef = NoNode THEN s.obligations
                   ELSE AddObligation(s.obligations, s.nodeRef, s.gen, "Deletion")
           t == MarkedTerminating(s)
<1>1. s.phase \in {"Pending", "Scheduled", "Running", "Failed"}
  BY DEF CanTerminate, PhaseTransitionAllowed, phaseTransitions, Status, Phase
<1>2. /\ s.nodeRef \in Node \union {NoNode} /\ s.gen \in Nat
      /\ s.obligations \in SUBSET Obligation
  BY DEF Status
<1>3. Ledger("Terminating", s.nodeRef, s.gen, obls, gs)
  BY <1>1, <1>2, TerminateLedger DEF StatusLedger
<1>4. t.phase = "Terminating" /\ t.nodeRef = s.nodeRef /\ t.gen = s.gen /\ t.obligations = obls
  BY DEF MarkedTerminating, Status
<1> QED BY <1>3, <1>4 DEF StatusLedger

\* The evidence writes (RecordResourcesRemoved, RecordManagedDataQuarantined).
LEMMA EvidenceLedger ==
  ASSUME NEW s \in Status, NEW gs \in SUBSET Grant, StatusLedger(s, gs), NEW n, NEW k
  PROVE  /\ StatusLedger(ResourcesRemovedRecorded(s, n, k), gs)
         /\ StatusLedger(QuarantineRecorded(s, n, k), gs)
<1> DEFINE a == ResourcesRemovedRecorded(s, n, k)
           b == QuarantineRecorded(s, n, k)
<1>1. /\ a.phase = s.phase /\ a.nodeRef = s.nodeRef /\ a.gen = s.gen
      /\ b.phase = s.phase /\ b.nodeRef = s.nodeRef /\ b.gen = s.gen
  BY DEF ResourcesRemovedRecorded, QuarantineRecorded, Status
<1>2. s.gen \in Nat /\ \A o \in s.obligations : o.gen \in Nat
  BY DEF Status, Obligation
<1>3. /\ Progressed(s.obligations, a.obligations, s.gen)
      /\ Progressed(s.obligations, b.obligations, s.gen)
  BY EvidenceProgress
<1> HIDE DEF a, b
<1>4. /\ Ledger(s.phase, s.nodeRef, s.gen, a.obligations, gs)
      /\ Ledger(s.phase, s.nodeRef, s.gen, b.obligations, gs)
  BY <1>2, <1>3, ProgressKeepsLedger DEF StatusLedger
<1> QED BY <1>1, <1>4 DEF StatusLedger, a, b

------------------------------------------------------------------------------
(* The invariant is inductive.                                             *)

\* A record begins with an empty ledger, and so does the absence of one.
LEMMA EmptyLedger == StatusLedger(InitialProjectStatus, {}) /\ StatusLedger(MigratedStatus, {})
<1>1. StatusLedger(InitialProjectStatus, {})
  BY DEF StatusLedger, Ledger, Counted, Coherent, Accounted, Granted, Settled, InitialProjectStatus
<1>2. StatusLedger([InitialProjectStatus EXCEPT !.history = "Unknown"], {})
  BY <1>1, QuietLedger DEF InitialProjectStatus
<1> QED BY <1>1, <1>2 DEF MigratedStatus

\* Every step of every writer keeps the ledger.
LEMMA InvariantStep == IInv /\ [Next]_vars => IInv'
<1> SUFFICES ASSUME IInv, [Next]_vars PROVE StatusLedger(status, grants)'
  BY TypeStep DEF IInv
<1> USE DEF Fence
<1>0. /\ status \in Status /\ managed \in BOOLEAN /\ grants \in SUBSET Grant
      /\ StatusLedger(status, grants)
      /\ \A f \in Fence : f.node \in Node /\ f.gen \in Nat
  BY MaxGenAssumption DEF IInv, TypeOK
<1>1. ASSUME NEW u \in UID, NEW m \in BOOLEAN, CreateProject(u, m)
      PROVE  StatusLedger(status, grants)'
  BY <1>1, EmptyLedger DEF CreateProject
<1>2. ASSUME NEW m \in BOOLEAN, UpdateProjectSpec(m) PROVE StatusLedger(status, grants)'
  <2> DEFINE F(gr) == IF status.nodeRef # NoNode /\ gr.gen = status.gen
                        THEN [gr EXCEPT !.managed = @ \/ m] ELSE gr
             new == {F(gr) : gr \in grants}
  <2>1. \A gr \in grants : F(gr).node = gr.node /\ F(gr).gen = gr.gen
    BY <1>0 DEF Grant
  <2>2. status.gen \in Nat
    BY <1>0 DEF Status
  <2> HIDE DEF F
  <2>3. Ledger(status.phase, status.nodeRef, status.gen, status.obligations, new)
    BY <1>0, <2>1, <2>2 DEF StatusLedger, Ledger, Counted, Coherent, Accounted, Granted, Names
  <2>4. grants' = new
    BY <1>2 DEF UpdateProjectSpec, F
  <2>5. /\ status'.phase = status.phase /\ status'.nodeRef = status.nodeRef
        /\ status'.gen = status.gen /\ status'.obligations = status.obligations
    BY <1>0, <1>2 DEF UpdateProjectSpec, SpecChanged, Status
  <2> QED BY <2>3, <2>4, <2>5 DEF StatusLedger
<1>3. ASSUME NEW how, RecordRemoved(how) PROVE StatusLedger(status, grants)'
  BY <1>3, EmptyLedger DEF RecordRemoved
<1>4. ASSUME NEW t, Write(t), StatusLedger(t, grants) PROVE StatusLedger(status, grants)'
  BY <1>4 DEF Write
<1>5. ASSUME NEW u \in UID, MarkTerminating(u) PROVE StatusLedger(status, grants)'
  BY <1>0, <1>4, <1>5, MarkedTerminatingLedger DEF MarkTerminating
<1>6. ASSUME NEW n \in Node, SetProjectScheduled(n) PROVE StatusLedger(status, grants)'
  <2> DEFINE x == [node |-> n, gen |-> status.gen + 1, managed |-> managed]
  <2>1. x.node = n /\ x.gen = status.gen + 1
    OBVIOUS
  <2>2. grants' = grants \union {x}
    BY <1>6 DEF SetProjectScheduled
  <2> HIDE DEF x
  <2>3. /\ status.phase = "Pending" /\ Blocking(status.obligations) = {}
        /\ n \notin NodesOwingCleanup(status.obligations)
    BY <1>6 DEF SetProjectScheduled, CanSchedule, PhaseTransitionAllowed, phaseTransitions
  <2>4. status.nodeRef = NoNode
    BY <1>0, <2>3 DEF StatusLedger, Ledger, Coherent
  <2>5. status.gen \in Nat /\ status.obligations \in SUBSET Obligation
    BY <1>0 DEF Status
  <2>6. Ledger("Scheduled", n, status.gen + 1, status.obligations, grants \union {x})
    BY <1>0, <2>1, <2>3, <2>4, <2>5, ScheduleLedger DEF StatusLedger
  <2>7. /\ status'.phase = "Scheduled" /\ status'.nodeRef = n
        /\ status'.gen = status.gen + 1 /\ status'.obligations = status.obligations
    BY <1>0, <1>6 DEF SetProjectScheduled, Scheduled, Status
  <2> QED BY <2>2, <2>6, <2>7 DEF StatusLedger
<1>7. ASSUME NEW f \in Fence, ReleaseAssignment(f) PROVE StatusLedger(status, grants)'
  BY <1>0, <1>4, <1>7, UnreachableLedger, OptionAssumption DEF ReleaseAssignment
<1>8. ASSUME NEW f \in Fence, MoveFailedProject(f) PROVE StatusLedger(status, grants)'
  BY <1>0, <1>4, <1>8, MovedLedger DEF MoveFailedProject
<1>9. ASSUME NEW f \in Fence, TakeoverProject(f) PROVE StatusLedger(status, grants)'
  BY <1>0, <1>4, <1>9, TakenOverLedger DEF TakeoverProject
<1>10. ASSUME NEW f \in Fence, NEW ph \in Phase, PatchStatus(f, ph)
       PROVE  StatusLedger(status, grants)'
  <2>1. Ledger(ph, status.nodeRef, status.gen, status.obligations, grants)
    BY <1>0, <1>10, ReportLedger DEF PatchStatus, StatusLedger
  <2>2. /\ status'.phase = ph /\ status'.nodeRef = status.nodeRef
        /\ status'.gen = status.gen /\ status'.obligations = status.obligations
        /\ grants' = grants
    BY <1>0, <1>10 DEF PatchStatus, Write, Reported, Status
  <2> QED BY <2>1, <2>2 DEF StatusLedger
<1>11. ASSUME NEW f \in Fence, RecordResourcesRemoved(f) \/ RecordManagedDataQuarantined(f)
       PROVE  StatusLedger(status, grants)'
  BY <1>0, <1>4, <1>11, EvidenceLedger DEF RecordResourcesRemoved, RecordManagedDataQuarantined
<1>12. ASSUME \/ ClearFailedNodes
              \/ \E n \in Node : ClearRescheduleClocks(n)
              \/ \E f \in Fence : \/ RecordWorkloadStopped(f)
                                  \/ RecordCommittedBackup(f)
                                  \/ RecordBackupCompletion(f)
       PROVE  StatusLedger(status, grants)'
  <2>1. /\ status'.phase = status.phase /\ status'.nodeRef = status.nodeRef
        /\ status'.gen = status.gen /\ status'.obligations = status.obligations
        /\ grants' = grants
    BY <1>0, <1>12 DEF ClearFailedNodes, ClearRescheduleClocks, RecordWorkloadStopped,
       RecordCommittedBackup, RecordBackupCompletion, Write, StoppedRecorded, BackupAccepted, Status
  <2> QED BY <1>0, <2>1 DEF StatusLedger
<1>13. ASSUME UNCHANGED vars PROVE StatusLedger(status, grants)'
  BY <1>0, <1>13 DEF vars, StatusLedger
<1>14. ASSUME \/ ForceDelete
              \/ \E u \in UID : DeleteImmediately(u) \/ FinalizeProject(u)
       PROVE  StatusLedger(status, grants)'
  BY <1>3, <1>14 DEF ForceDelete, DeleteImmediately, FinalizeProject
<1> QED
  BY <1>1, <1>2, <1>5, <1>6, <1>7, <1>8, <1>9, <1>10, <1>11, <1>12, <1>13, <1>14
     DEF Next, UserStep, ServerStep, AgentStep

\* The inductive invariant holds throughout.
THEOREM LedgerInvariant == Spec => []IInv
<1>1. Init => IInv
  <2> SUFFICES ASSUME Init PROVE IInv
    OBVIOUS
  <2>1. TypeOK
    BY InitialStatusType DEF Init, TypeOK, Removal
  <2>2. StatusLedger(status, grants)
    BY EmptyLedger DEF Init
  <2> QED BY <2>1, <2>2 DEF IInv
<1>2. IInv /\ [Next]_vars => IInv'
  BY InvariantStep
<1> QED BY <1>1, <1>2, PTL DEF Spec

------------------------------------------------------------------------------
(* What follows for every instance.                                        *)

\* No assignment is ever forgotten.
THEOREM NoAssignmentForgotten == Spec => []GrantsAccounted
<1>1. IInv => GrantsAccounted
  BY DEF IInv, StatusLedger, Ledger, Accounted, GrantsAccounted, Held
<1> QED BY <1>1, LedgerInvariant, PTL

\* Nothing is owed that was never granted, and nothing twice.
THEOREM DebtsAreGrants == Spec => []OneDebtPerGrant
<1>1. IInv => OneDebtPerGrant
  BY DEF IInv, StatusLedger, Ledger, Granted, OneDebtPerGrant
<1> QED BY <1>1, LedgerInvariant, PTL

\* A Project is never assigned over an unsettled debt.
THEOREM NeverAssignedOverDebt == Spec => []NoAssignmentOverDebt
<1>1. IInv => NoAssignmentOverDebt
  BY DEF IInv, StatusLedger, Ledger, Settled, NoAssignmentOverDebt
<1> QED BY <1>1, LedgerInvariant, PTL

\* Terminated is only ever read next to the evidence for it.
THEOREM TerminatedIsProven == Spec => []TerminatedProven
<1>1. IInv => TerminatedProven
  BY DEF IInv, StatusLedger, Ledger, Coherent, TerminatedProven
<1> QED BY <1>1, LedgerInvariant, PTL

\* One takeover lifts every block of a Pending Project: only the latest
\* generation can block, and that is the one an operator may name.
THEOREM OperatorAlwaysCan == Spec => []OperatorCanUnblock
<1>1. IInv => OperatorCanUnblock
  <2> SUFFICES ASSUME IInv, status.phase = "Pending", NEW b \in Blocking(status.obligations)
               PROVE  \E n \in Node :
                        /\ CanTakeOver(status, n, status.gen)
                        /\ Blocking(TakenOver(status, n, status.gen, managed).obligations) = {}
    BY DEF OperatorCanUnblock
  <2> DEFINE obls == status.obligations
             g == status.gen
             n == b.node
             over == OverrideRelease(obls, n, g)
             owed == OweManagedData(over, n, g, managed)
  <2>1. /\ status \in Status /\ obls \in SUBSET Obligation /\ g \in Nat
        /\ b \in obls /\ ~PermitsAssignment(b) /\ n \in Node /\ b.gen \in Nat
    BY DEF IInv, TypeOK, Status, Blocking, Obligation
  <2>2. \A o \in obls : o.gen \in 1..g
    BY DEF IInv, StatusLedger, Ledger, Granted, Counted, Names
  <2>3. b.gen = g
    BY <2>1, <2>2 DEF IInv, StatusLedger, Ledger, Settled
  <2>4. status.nodeRef = NoNode
    BY DEF IInv, StatusLedger, Ledger, Coherent
  <2>5. CanTakeOver(status, n, g)
    BY <2>3, <2>4 DEF CanTakeOver, Names
  <2>6. HasObligation(obls, n, g)
    BY <2>1, <2>3 DEF HasObligation, Names
  <2>7. \A p \in over : PermitsAssignment(p)
    <3> SUFFICES ASSUME NEW o \in obls
                 PROVE  PermitsAssignment(IF Names(o, n, g)
                                            THEN [o EXCEPT !.auth = "OperatorOverride"] ELSE o)
      BY <2>6 DEF OverrideRelease, AddObligation
    <3>1. CASE o.gen = g
      <4>1. o = b
        BY <2>1, <2>3, <3>1 DEF IInv, StatusLedger, Ledger, Granted
      <4> QED BY <2>1, <2>3, <4>1 DEF Names, PermitsAssignment, Obligation
    <3>2. CASE o.gen # g
      BY <2>1, <2>2, <3>2 DEF IInv, StatusLedger, Ledger, Settled, Names
    <3> QED BY <3>1, <3>2
  <2>8. over \in SUBSET Obligation
    BY <2>1, OverrideReleaseType
  <2>9. \A p \in owed : PermitsAssignment(p)
    BY <2>7, <2>8 DEF OweManagedData, PermitsAssignment, Obligation
  <2>10. TakenOver(status, n, g, managed).obligations = owed
    BY <2>1 DEF TakenOver, Status
  <2>11. Blocking(owed) = {}
    BY <2>9 DEF Blocking
  <2> QED BY <2>1, <2>5, <2>10, <2>11
<1> QED BY <1>1, LedgerInvariant, PTL

\* A step removes a record without force only when nothing is left of it.
LEMMA RemovalStep == IInv /\ [Next]_vars => [CleanRemoval]_vars
<1> SUFFICES ASSUME IInv, Next PROVE CleanRemoval
  OBVIOUS
<1>1. /\ removal \in [UID -> Removal]
      /\ status \in Status /\ grants \in SUBSET Grant
      /\ Ledger(status.phase, status.nodeRef, status.gen, status.obligations, grants)
  BY DEF IInv, TypeOK, StatusLedger
<1>2. ASSUME NEW u \in UID, DeleteImmediately(u) PROVE CleanRemoval
  <2>1. grants = {}
    BY <1>1, <1>2 DEF DeleteImmediately, MayDeleteImmediately, Ledger, Counted
  <2>2. removal' = [removal EXCEPT ![uid] = "immediate"]
    BY <1>2 DEF DeleteImmediately, RecordRemoved
  <2> QED BY <1>1, <2>1, <2>2 DEF CleanRemoval
<1>3. ASSUME NEW u \in UID, FinalizeProject(u) PROVE CleanRemoval
  <2>1. \A o \in status.obligations : o.removed
    BY <1>3 DEF FinalizeProject, MayFinalize
  <2>2. status.phase # "Terminated" => status.nodeRef = NoNode
    BY <1>3 DEF FinalizeProject, MayFinalize, AwaitsFinalization
  <2>3. \A gr \in grants : ResourcesRemovedFor(status.obligations, gr.node, gr.gen)
    <3> SUFFICES ASSUME NEW gr \in grants
                 PROVE  ResourcesRemovedFor(status.obligations, gr.node, gr.gen)
      OBVIOUS
    <3>1. CASE HasObligation(status.obligations, gr.node, gr.gen)
      BY <2>1, <3>1 DEF HasObligation, ResourcesRemovedFor
    <3>2. CASE status.nodeRef = gr.node /\ status.gen = gr.gen
      <4>1. status.phase = "Terminated"
        BY <1>1, <2>2, <3>2, NoNodeAssumption DEF Grant
      <4> QED BY <1>3, <3>2, <4>1 DEF FinalizeProject, MayFinalize
    <3> QED BY <1>1, <3>1, <3>2 DEF Ledger, Accounted
  <2>4. removal' = [removal EXCEPT ![uid] = "finalized"]
    BY <1>3 DEF FinalizeProject, RecordRemoved
  <2> QED BY <1>1, <2>3, <2>4 DEF CleanRemoval
<1>4. ASSUME ForceDelete PROVE CleanRemoval
  BY <1>1, <1>4 DEF ForceDelete, RecordRemoved, CleanRemoval
<1>5. ASSUME NEW u \in UID, NEW m \in BOOLEAN, CreateProject(u, m) PROVE CleanRemoval
  BY <1>1, <1>5 DEF CreateProject, CleanRemoval
<1>6. ASSUME removal' = removal PROVE CleanRemoval
  BY <1>6 DEF CleanRemoval
<1> QED
  BY <1>2, <1>3, <1>4, <1>5, <1>6
     DEF Next, UserStep, ServerStep, AgentStep, UpdateProjectSpec, MarkTerminating,
         SetProjectScheduled, ReleaseAssignment, MoveFailedProject, ClearFailedNodes,
         ClearRescheduleClocks, TakeoverProject, PatchStatus, RecordWorkloadStopped,
         RecordCommittedBackup, RecordBackupCompletion, RecordResourcesRemoved,
         RecordManagedDataQuarantined, Write

\* A record that is removed without force leaves nothing behind on any Node
\* that was ever granted the Project.
THEOREM RemovalIsClean == Spec => FinalizedClean
<1>1. IInv /\ [Next]_vars => [CleanRemoval]_vars
  BY RemovalStep
<1> QED BY <1>1, LedgerInvariant, PTL DEF Spec, FinalizedClean

\* No step leads back out of a deletion.
LEMMA DeletionStep == IInv /\ [Next]_vars => [KeepsDeleting]_vars
<1> SUFFICES ASSUME IInv, Next, uid' = uid, status.phase \in {"Terminating", "Terminated"}
             PROVE  /\ status'.phase \in {"Terminating", "Terminated"}
                    /\ status.phase = "Terminated" => status'.phase = "Terminated"
                    /\ status'.nodeRef = status.nodeRef /\ status'.gen = status.gen
  BY DEF KeepsDeleting
<1> DEFINE Kept == /\ status'.phase = status.phase
                   /\ status'.nodeRef = status.nodeRef /\ status'.gen = status.gen
<1>1. status \in Status
  BY DEF IInv, TypeOK
<1>2. \A n, g : /\ ~CanSchedule(status, n) /\ ~CanRelease(status, n, g)
               /\ ~CanMoveFailed(status, n, g) /\ ~CanTerminate(status)
               /\ \A m, k : ~CanChangeSpec(status, m, k)
  BY DEF CanSchedule, CanRelease, CanMoveFailed, CanTerminate, CanChangeSpec,
     PhaseTransitionAllowed, phaseTransitions
<1>3. \A n, g : ~CanTakeOver(status, n, g)
  BY DEF CanTakeOver, PhaseTransitionAllowed, phaseTransitions
<1>4. ASSUME NEW f \in Fence, NEW ph \in Phase, PatchStatus(f, ph)
      PROVE  /\ status'.phase = ph
             /\ ph = "Terminated"
             /\ status'.nodeRef = status.nodeRef /\ status'.gen = status.gen
  BY <1>1, <1>4 DEF PatchStatus, CanReport, Write, Reported, Status,
     PhaseTransitionAllowed, phaseTransitions
<1>5. ASSUME \/ ClearFailedNodes
             \/ \E n \in Node : ClearRescheduleClocks(n)
             \/ \E f \in Fence : \/ RecordWorkloadStopped(f)
                                 \/ RecordCommittedBackup(f)
                                 \/ RecordBackupCompletion(f)
                                 \/ RecordResourcesRemoved(f)
                                 \/ RecordManagedDataQuarantined(f)
      PROVE  Kept
  BY <1>1, <1>5 DEF ClearFailedNodes, ClearRescheduleClocks, RecordWorkloadStopped,
     RecordCommittedBackup, RecordBackupCompletion, RecordResourcesRemoved,
     RecordManagedDataQuarantined, Write, StoppedRecorded, BackupAccepted,
     ResourcesRemovedRecorded, QuarantineRecorded, Status
<1>6. ASSUME \/ ForceDelete
             \/ \E u \in UID : \/ DeleteImmediately(u) \/ FinalizeProject(u)
                               \/ \E m \in BOOLEAN : CreateProject(u, m)
      PROVE  FALSE
  BY <1>6, NoUIDAssumption
     DEF ForceDelete, DeleteImmediately, FinalizeProject, RecordRemoved, CreateProject
<1> QED
  BY <1>2, <1>3, <1>4, <1>5, <1>6
     DEF Next, UserStep, ServerStep, AgentStep, UpdateProjectSpec, MarkTerminating,
         SetProjectScheduled, ReleaseAssignment, MoveFailedProject, TakeoverProject

\* A deletion that was accepted is never undone: the transition table has no
\* way out of Terminating but Terminated, and every writer that moves an
\* assignment asks the table first.
THEOREM DeletionStands == Spec => DeletionIrrevocable
<1>1. IInv /\ [Next]_vars => [KeepsDeleting]_vars
  BY DeletionStep
<1> QED BY <1>1, LedgerInvariant, PTL DEF Spec, DeletionIrrevocable

------------------------------------------------------------------------------
(* The obligation list only makes progress.                                *)

\* Entry p is entry o, no less settled.
NoLessSettled(o, p) ==
  /\ Names(p, o.node, o.gen)
  /\ o.removed => p.removed
  /\ o.owed => p.owed
  /\ o.quarantined => p.quarantined
  /\ p.auth \in {o.auth, "OperatorOverride"}

Onward(old, new) == \A o \in old : \E p \in new : NoLessSettled(o, p)

\* Adding entries is progress.
LEMMA GrowthIsOnward == ASSUME NEW old, NEW new, old \subseteq new PROVE Onward(old, new)
BY DEF Onward, NoLessSettled, Names

\* Steps of progress add up.
LEMMA OnwardTransitive ==
  ASSUME NEW a, NEW b, NEW c, Onward(a, b), Onward(b, c) PROVE Onward(a, c)
<1>1. ASSUME NEW o, NEW q, NEW p, NoLessSettled(o, q), NoLessSettled(q, p)
      PROVE  NoLessSettled(o, p)
  BY <1>1, Zenon DEF NoLessSettled, Names
<1> QED BY <1>1, Zenon DEF Onward

\* What the ledger calls progress is progress here.
LEMMA ProgressedIsOnward ==
  ASSUME NEW old, NEW new, NEW g, Progressed(old, new, g) PROVE Onward(old, new)
<1>1. ASSUME NEW o, NEW p, Advances(o, p, g) PROVE NoLessSettled(o, p)
  BY <1>1, Zenon DEF Advances, NoLessSettled, Names
<1> QED BY <1>1, Zenon DEF Progressed, Onward

\* A release adds the debt and then owes the data (Released).
LEMMA ReleasedOnward ==
  ASSUME NEW s \in Status, s.nodeRef \in Node, NEW auth \in Authorization, NEW m
  PROVE  Onward(s.obligations, Released(s, auth, m).obligations)
<1> DEFINE added == AddObligation(s.obligations, s.nodeRef, s.gen, auth)
           owed == OweManagedData(added, s.nodeRef, s.gen, m)
<1>1. s.gen \in Nat /\ s.obligations \in SUBSET Obligation
  BY DEF Status
<1>2. added \in SUBSET Obligation
  BY <1>1, AddObligationType
<1>3. Onward(s.obligations, added)
  BY GrowthIsOnward DEF AddObligation
<1>4. Progressed(added, owed, s.gen)
  BY <1>2, OweManagedDataProgress
<1>5. Released(s, auth, m).obligations = owed
  BY DEF Released, Status
<1> HIDE DEF added, owed
<1>6. Onward(added, owed)
  BY <1>4, ProgressedIsOnward
<1> QED BY <1>3, <1>5, <1>6, OnwardTransitive

\* A takeover adds the debt, overrides it and owes the data (TakenOver).
LEMMA TakenOverOnward ==
  ASSUME NEW s \in Status, NEW n \in Node, NEW g \in Nat, NEW m
  PROVE  Onward(s.obligations, TakenOver(s, n, g, m).obligations)
<1> DEFINE added == AddObligation(s.obligations, n, g, "OperatorOverride")
           over == OverrideRelease(s.obligations, n, g)
           owed == OweManagedData(over, n, g, m)
<1>1. s.obligations \in SUBSET Obligation
  BY DEF Status
<1>2. over \in SUBSET Obligation
  BY <1>1, OverrideReleaseType
<1>3. Onward(s.obligations, added)
  BY GrowthIsOnward DEF AddObligation
<1>4. Progressed(added, over, g) /\ Progressed(over, owed, g)
  BY <1>1, <1>2, OverrideProgress, OweManagedDataProgress
<1>5. TakenOver(s, n, g, m).obligations = owed
  BY DEF TakenOver, Status
<1> HIDE DEF added, over, owed
<1>6. Onward(added, over) /\ Onward(over, owed)
  BY <1>4, ProgressedIsOnward
<1>7. Onward(added, owed)
  BY <1>6, OnwardTransitive
<1> QED BY <1>3, <1>5, <1>7, OnwardTransitive

\* No step takes anything back from the obligation list.
LEMMA DebtStep == IInv /\ [Next]_vars => [DebtProgress]_vars
<1> SUFFICES ASSUME IInv, Next, uid' = uid
             PROVE  Onward(status.obligations, status'.obligations)
  BY Zenon DEF DebtProgress, Onward, NoLessSettled
<1>1. /\ status \in Status /\ StatusLedger(status, grants)
      /\ \A f \in Fence : f.node \in Node /\ f.gen \in Nat
  BY MaxGenAssumption DEF IInv, TypeOK, Fence
<1>2. ASSUME NEW u \in UID, MarkTerminating(u)
      PROVE  Onward(status.obligations, status'.obligations)
  <2>1. status.obligations \subseteq status'.obligations
    BY <1>1, <1>2 DEF MarkTerminating, Write, MarkedTerminating, AddObligation, Status
  <2> QED BY <2>1, GrowthIsOnward
<1>3. ASSUME NEW f \in Fence, ReleaseAssignment(f)
      PROVE  Onward(status.obligations, status'.obligations)
  <2>1. status.nodeRef \in Node
    BY <1>1, <1>3 DEF ReleaseAssignment, CanRelease
  <2>2. /\ Onward(status.obligations, Released(status, "WorkloadStopped", managed).obligations)
        /\ Onward(status.obligations, Released(status, "GraceExpired", managed).obligations)
    BY <1>1, <2>1, ReleasedOnward DEF Authorization
  <2>3. Onward(status.obligations, [status EXCEPT !.takeover = TRUE].obligations)
    BY <1>1, GrowthIsOnward DEF Status
  <2> QED BY <1>3, <2>2, <2>3 DEF ReleaseAssignment, Write, Unreachable
<1>4. ASSUME NEW f \in Fence, MoveFailedProject(f)
      PROVE  Onward(status.obligations, status'.obligations)
  <2> DEFINE r == Released(status, "WorkloadStopped", managed)
  <2>1. status.nodeRef \in Node
    BY <1>1, <1>4 DEF MoveFailedProject, CanMoveFailed
  <2>2. Onward(status.obligations, r.obligations)
    BY <1>1, <2>1, ReleasedOnward DEF Authorization
  <2>3. r \in Status
    BY <1>1, <2>1, ReleasedType DEF Authorization, IInv, TypeOK
  <2>4. Onward(status.obligations, [status EXCEPT !.takeover = TRUE].obligations)
    BY <1>1, GrowthIsOnward DEF Status
  <2> HIDE DEF r
  <2>5. [r EXCEPT !.failedNodes = @ \union {f.node}].obligations = r.obligations
    BY <2>3 DEF Status
  <2> QED BY <1>4, <2>2, <2>4, <2>5 DEF MoveFailedProject, Write, MovedAfterFailure, r
<1>5. ASSUME NEW f \in Fence, TakeoverProject(f)
      PROVE  Onward(status.obligations, status'.obligations)
  BY <1>1, <1>5, TakenOverOnward DEF TakeoverProject, Write
<1>6. ASSUME NEW f \in Fence, RecordResourcesRemoved(f) \/ RecordManagedDataQuarantined(f)
      PROVE  Onward(status.obligations, status'.obligations)
  <2>1. Progressed(status.obligations, status'.obligations, status.gen)
    BY <1>1, <1>6, EvidenceProgress
       DEF RecordResourcesRemoved, RecordManagedDataQuarantined, Write
  <2> QED BY <2>1, ProgressedIsOnward
<1>7. ASSUME \/ \E m \in BOOLEAN : UpdateProjectSpec(m)
             \/ \E n \in Node : SetProjectScheduled(n) \/ ClearRescheduleClocks(n)
             \/ ClearFailedNodes
             \/ \E f \in Fence : \/ \E ph \in Phase : PatchStatus(f, ph)
                                 \/ RecordWorkloadStopped(f)
                                 \/ RecordCommittedBackup(f)
                                 \/ RecordBackupCompletion(f)
      PROVE  Onward(status.obligations, status'.obligations)
  <2>1. status'.obligations = status.obligations
    BY <1>1, <1>7 DEF UpdateProjectSpec, SpecChanged, SetProjectScheduled, Scheduled,
       ClearRescheduleClocks, ClearFailedNodes, PatchStatus, Reported, RecordWorkloadStopped,
       StoppedRecorded, RecordCommittedBackup, RecordBackupCompletion, BackupAccepted,
       Write, Status
  <2> QED BY <2>1, GrowthIsOnward
<1>8. ASSUME \/ ForceDelete
             \/ \E u \in UID : \/ DeleteImmediately(u) \/ FinalizeProject(u)
                               \/ \E m \in BOOLEAN : CreateProject(u, m)
      PROVE  FALSE
  BY <1>8, NoUIDAssumption
     DEF ForceDelete, DeleteImmediately, FinalizeProject, RecordRemoved, CreateProject
<1> QED
  BY <1>2, <1>3, <1>4, <1>5, <1>6, <1>7, <1>8 DEF Next, UserStep, ServerStep, AgentStep

\* Within a lifetime no entry leaves the obligation list, no evidence is
\* withdrawn and no data debt is waived, by any writer.
THEOREM DebtsOnlySettle == Spec => DebtOnlyProgresses
<1>1. IInv /\ [Next]_vars => [DebtProgress]_vars
  BY DebtStep
<1> QED BY <1>1, LedgerInvariant, PTL DEF Spec, DebtOnlyProgresses

------------------------------------------------------------------------------
(* Managed data and the outage mark.                                       *)

\* What the three properties about data and the mark need besides themselves:
\* while a Node holds the Project, what was declared under its grant still is,
\* and no debt is a deletion's before there is a deletion.
HeldDeclared(s, m, gs) ==
  s.nodeRef # NoNode => \A x \in gs : x.gen = s.gen /\ x.managed => m

DeletionDebts(s) ==
  s.phase \notin {"Terminating", "Terminated"} => \A o \in s.obligations : o.auth # "Deletion"

DataOwed(s, gs) ==
  \A x \in gs, o \in s.obligations :
    (x.managed /\ Names(o, x.node, x.gen) /\ o.auth # "Deletion") => o.owed

CopyKept(s) ==
  \A o \in s.obligations : (o.auth = "GraceExpired" /\ o.owed) => s.hasBackup

MarkHeld(s, m) ==
  s.takeover => /\ s.nodeRef # NoNode
                /\ GraceExpiredRelease => m \/ s.phase \notin {"Scheduled", "Running"}

DataLedger(s, m, gs) ==
  /\ HeldDeclared(s, m, gs)
  /\ DeletionDebts(s)
  /\ DataOwed(s, gs)
  /\ CopyKept(s)
  /\ MarkHeld(s, m)

DataInv == IInv /\ DataLedger(status, managed, grants)

\* A release adds one entry, for the assignment it ends, and owes its data if
\* the spec has some (Released).
LEMMA ReleasedEntries ==
  ASSUME NEW s \in Status, s.nodeRef \in Node, \A o \in s.obligations : o.gen # s.gen,
         NEW auth \in Authorization, NEW m \in BOOLEAN
  PROVE  \A p \in Released(s, auth, m).obligations :
           \/ p \in s.obligations
           \/ Names(p, s.nodeRef, s.gen) /\ p.auth = auth /\ p.owed = m
<1> DEFINE e == [node |-> s.nodeRef, gen |-> s.gen, auth |-> auth, removed |-> FALSE,
                 owed |-> FALSE, quarantined |-> FALSE]
           F(o) == IF m /\ Names(o, s.nodeRef, s.gen) THEN [o EXCEPT !.owed = TRUE] ELSE o
<1>1. AddObligation(s.obligations, s.nodeRef, s.gen, auth) = s.obligations \union {e}
  BY DEF AddObligation, HasObligation, Names
<1>2. Released(s, auth, m).obligations = {F(o) : o \in s.obligations \union {e}}
  BY <1>1 DEF Released, OweManagedData, Status
<1>3. \A o \in s.obligations : F(o) = o
  BY DEF Names
<1>4. Names(F(e), s.nodeRef, s.gen) /\ F(e).auth = auth /\ F(e).owed = m
  BY DEF Names
<1> HIDE DEF F, e
<1> QED BY <1>2, <1>3, <1>4

\* A takeover overrides the entry of the assignment it names, adding it if it is
\* not there, and never waives data (TakenOver).
LEMMA TakenOverEntries ==
  ASSUME NEW s \in Status, NEW n \in Node, NEW g \in Nat, NEW m \in BOOLEAN
  PROVE  \A p \in TakenOver(s, n, g, m).obligations :
           \/ p \in s.obligations
           \/ /\ Names(p, n, g) /\ p.auth = "OperatorOverride" /\ (m => p.owed)
              /\ HasObligation(s.obligations, n, g) =>
                   \E o \in s.obligations : Names(o, n, g) /\ (o.owed => p.owed)
<1> DEFINE e == [node |-> n, gen |-> g, auth |-> "OperatorOverride", removed |-> FALSE,
                 owed |-> FALSE, quarantined |-> FALSE]
           added == AddObligation(s.obligations, n, g, "OperatorOverride")
           F(o) == IF Names(o, n, g) THEN [o EXCEPT !.auth = "OperatorOverride"] ELSE o
           G(o) == IF m /\ Names(o, n, g) THEN [o EXCEPT !.owed = TRUE] ELSE o
<1>1. TakenOver(s, n, g, m).obligations = {G(p) : p \in {F(o) : o \in added}}
  BY DEF TakenOver, OweManagedData, OverrideRelease, Status
<1>2. \A o \in added : o \in Obligation
  BY AddObligationType DEF Status, Authorization
<1>3. /\ \A o \in added : o \in s.obligations \/ o = e
      /\ HasObligation(s.obligations, n, g) => added = s.obligations
  BY DEF AddObligation
<1> HIDE DEF added
<1> DEFINE P(p) == \/ p \in s.obligations
                   \/ /\ Names(p, n, g) /\ p.auth = "OperatorOverride" /\ (m => p.owed)
                      /\ HasObligation(s.obligations, n, g) =>
                           \E o \in s.obligations : Names(o, n, g) /\ (o.owed => p.owed)
<1>4. ASSUME NEW o \in added PROVE P(G(F(o)))
  <2>1. CASE ~Names(o, n, g)
    BY <1>3, <2>1 DEF Names
  <2>2. CASE Names(o, n, g)
    <3>1. /\ Names(F(o), n, g) /\ F(o).auth = "OperatorOverride" /\ F(o).owed = o.owed
          /\ F(o) \in Obligation
      BY <1>2, <2>2 DEF Obligation, Authorization, Names
    <3> HIDE DEF F
    <3>2. /\ Names(G(F(o)), n, g) /\ G(F(o)).auth = "OperatorOverride"
          /\ m => G(F(o)).owed
          /\ F(o).owed => G(F(o)).owed
      BY <3>1 DEF Obligation, Names
    <3> HIDE DEF G
    <3> QED BY <1>3, <2>2, <3>1, <3>2
  <2> QED BY <2>1, <2>2
<1> HIDE DEF F, G, P
<1>5. \A p \in TakenOver(s, n, g, m).obligations : P(p)
  BY <1>1, <1>4
<1> QED BY <1>5 DEF P

\* A release keeps the data ledger if it is by stop evidence, or by grace with
\* nothing to lose or a backup.
LEMMA ReleasedData ==
  ASSUME NEW s \in Status, NEW m \in BOOLEAN, NEW gs \in SUBSET Grant,
         StatusLedger(s, gs), DataLedger(s, m, gs),
         s.phase \in {"Scheduled", "Running", "Failed"},
         NEW auth \in {"WorkloadStopped", "GraceExpired"},
         auth = "GraceExpired" => ~m \/ s.hasBackup
  PROVE  DataLedger(Released(s, auth, m), m, gs)
<1> DEFINE r == Released(s, auth, m)
<1>1. /\ s.nodeRef \in Node /\ s.nodeRef # NoNode
      /\ \A o \in s.obligations : o.gen # s.gen
      /\ auth \in Authorization
  BY ActiveIsAssigned, NoNodeAssumption DEF StatusLedger, Ledger, Coherent, Authorization
<1>2. \A p \in r.obligations :
        \/ p \in s.obligations
        \/ Names(p, s.nodeRef, s.gen) /\ p.auth = auth /\ p.owed = m
  BY <1>1, ReleasedEntries
<1>3. /\ r.phase = "Pending" /\ r.nodeRef = NoNode /\ r.takeover = FALSE
      /\ r.gen = s.gen /\ r.hasBackup = s.hasBackup
  BY DEF Released, Status
<1> HIDE DEF r
<1>4. DataOwed(r, gs)
  BY <1>1, <1>2 DEF DataOwed, DataLedger, HeldDeclared, Names
<1>5. DeletionDebts(r)
  BY <1>2 DEF DeletionDebts, DataLedger
<1>6. CopyKept(r)
  BY <1>2, <1>3 DEF CopyKept, DataLedger
<1> QED BY <1>3, <1>4, <1>5, <1>6 DEF DataLedger, HeldDeclared, MarkHeld, r

\* A write that leaves phase, assignment, list, backup and mark alone keeps it.
LEMMA QuietData ==
  ASSUME NEW s, NEW t, NEW m, NEW gs, DataLedger(s, m, gs),
         t.phase = s.phase, t.nodeRef = s.nodeRef, t.gen = s.gen,
         t.obligations = s.obligations, s.hasBackup => t.hasBackup, t.takeover => s.takeover
  PROVE  DataLedger(t, m, gs)
BY DEF DataLedger, HeldDeclared, DeletionDebts, DataOwed, CopyKept, MarkHeld

\* An operator's override keeps it, of a held and of a released assignment.
LEMMA TakenOverData ==
  ASSUME NEW s \in Status, NEW m \in BOOLEAN, NEW gs \in SUBSET Grant,
         StatusLedger(s, gs), DataLedger(s, m, gs),
         NEW n \in Node, NEW g \in Nat, CanTakeOver(s, n, g)
  PROVE  DataLedger(TakenOver(s, n, g, m), m, gs)
<1> DEFINE t == TakenOver(s, n, g, m)
<1>1. \A p \in t.obligations :
        \/ p \in s.obligations
        \/ /\ Names(p, n, g) /\ p.auth = "OperatorOverride" /\ (m => p.owed)
           /\ HasObligation(s.obligations, n, g) =>
                \E o \in s.obligations : Names(o, n, g) /\ (o.owed => p.owed)
  BY TakenOverEntries
<1>2. /\ t.phase = "Pending" /\ t.nodeRef = NoNode /\ t.hasBackup = s.hasBackup
      /\ t.takeover => s.takeover /\ s.nodeRef = NoNode
  BY DEF TakenOver, Status
<1>3. /\ s.gen = g /\ s.phase \notin {"Terminating", "Terminated"}
      /\ \/ s.nodeRef = NoNode /\ HasObligation(s.obligations, n, g)
         \/ s.nodeRef = n /\ s.nodeRef # NoNode
  BY NoNodeAssumption DEF CanTakeOver, Blocking, HasObligation, PhaseTransitionAllowed, phaseTransitions
<1> HIDE DEF t
<1>4. DataOwed(t, gs)
  <2> SUFFICES ASSUME NEW x \in gs, NEW p \in t.obligations,
                      x.managed, Names(p, x.node, x.gen), p.auth # "Deletion"
               PROVE  p.owed
    BY DEF DataOwed
  <2>1. CASE p \in s.obligations
    BY <2>1 DEF DataLedger, DataOwed
  <2>2. CASE p \notin s.obligations
    <3>1. Names(p, n, g) /\ (m => p.owed) /\ x.node = n /\ x.gen = g
      BY <1>1, <2>2 DEF Names
    <3>2. CASE s.nodeRef # NoNode
      BY <1>3, <3>1, <3>2 DEF DataLedger, HeldDeclared
    <3>3. CASE HasObligation(s.obligations, n, g)
      <4>1. PICK o \in s.obligations : Names(o, n, g) /\ (o.owed => p.owed)
        BY <1>1, <2>2, <3>3
      <4>2. o.auth # "Deletion"
        BY <1>3 DEF DataLedger, DeletionDebts
      <4> QED BY <3>1, <4>1, <4>2 DEF DataLedger, DataOwed
    <3> QED BY <1>3, <3>2, <3>3
  <2> QED BY <2>1, <2>2
<1>5. DeletionDebts(t)
  BY <1>1, <1>3 DEF DeletionDebts, DataLedger
<1>6. CopyKept(t)
  BY <1>1, <1>2 DEF CopyKept, DataLedger
<1>7. MarkHeld(t, m)
  BY <1>2 DEF MarkHeld, DataLedger
<1> QED BY <1>2, <1>4, <1>5, <1>6, <1>7 DEF DataLedger, HeldDeclared, t

\* A deletion adds a debt of its own kind (MarkedTerminating).
LEMMA MarkedTerminatingData ==
  ASSUME NEW s \in Status, NEW m \in BOOLEAN, NEW gs, DataLedger(s, m, gs), CanTerminate(s)
  PROVE  DataLedger(MarkedTerminating(s), m, gs)
<1> DEFINE t == MarkedTerminating(s)
<1>1. \A p \in t.obligations : p \in s.obligations \/ p.auth = "Deletion"
  BY DEF MarkedTerminating, AddObligation, Status
<1>2. /\ t.phase = "Terminating" /\ t.nodeRef = s.nodeRef /\ t.gen = s.gen
      /\ t.hasBackup = s.hasBackup /\ t.takeover = s.takeover
  BY DEF MarkedTerminating, Status
<1> HIDE DEF t
<1> QED BY <1>1, <1>2
        DEF DataLedger, HeldDeclared, DeletionDebts, DataOwed, CopyKept, MarkHeld, t

\* Evidence changes neither authorizations nor data debts.
LEMMA EvidenceData ==
  ASSUME NEW s \in Status, NEW m, NEW gs, NEW n, NEW k, DataLedger(s, m, gs),
         NEW t \in {ResourcesRemovedRecorded(s, n, k), QuarantineRecorded(s, n, k)}
  PROVE  DataLedger(t, m, gs)
<1> DEFINE Same(o, p) == p.node = o.node /\ p.gen = o.gen /\ p.auth = o.auth /\ p.owed = o.owed
<1>1. s.obligations \in SUBSET Obligation
  BY DEF Status
<1>2. \A p \in t.obligations : \E o \in s.obligations : Same(o, p)
  <2> DEFINE F(o) == IF Names(o, n, k) THEN [o EXCEPT !.removed = TRUE] ELSE o
             G(o) == IF Names(o, n, k) THEN [o EXCEPT !.quarantined = TRUE] ELSE o
  <2>1. t.obligations \in {{F(o) : o \in s.obligations}, {G(o) : o \in s.obligations}}
    BY DEF ResourcesRemovedRecorded, QuarantineRecorded, Status
  <2>2. \A o \in s.obligations : Same(o, F(o)) /\ Same(o, G(o))
    BY <1>1 DEF Obligation
  <2> HIDE DEF F, G, Same
  <2> QED BY <2>1, <2>2
<1>3. /\ t.phase = s.phase /\ t.nodeRef = s.nodeRef /\ t.gen = s.gen
      /\ t.hasBackup = s.hasBackup /\ t.takeover = s.takeover
  BY DEF ResourcesRemovedRecorded, QuarantineRecorded, Status
<1>4. DataOwed(t, gs)
  BY <1>2 DEF DataLedger, DataOwed, Names
<1>5. DeletionDebts(t) /\ CopyKept(t)
  BY <1>2, <1>3 DEF DataLedger, DeletionDebts, CopyKept
<1> QED BY <1>3, <1>4, <1>5 DEF DataLedger, HeldDeclared, MarkHeld

\* Every step of every writer keeps the data ledger.
LEMMA DataStep == DataInv /\ [Next]_vars => DataInv'
<1> SUFFICES ASSUME DataInv, [Next]_vars PROVE DataLedger(status, managed, grants)'
  BY InvariantStep DEF DataInv
<1> USE DEF Fence
<1>0. /\ status \in Status /\ managed \in BOOLEAN /\ grants \in SUBSET Grant
      /\ StatusLedger(status, grants) /\ DataLedger(status, managed, grants)
      /\ \A f \in Fence : f.node \in Node /\ f.gen \in Nat
  BY MaxGenAssumption DEF DataInv, IInv, TypeOK
<1>1. ASSUME NEW u \in UID, NEW m \in BOOLEAN, CreateProject(u, m)
      PROVE  DataLedger(status, managed, grants)'
  BY <1>1 DEF CreateProject, DataLedger, HeldDeclared, DeletionDebts, DataOwed, CopyKept,
     MarkHeld, InitialProjectStatus
<1>2. ASSUME NEW m \in BOOLEAN, UpdateProjectSpec(m) PROVE DataLedger(status, managed, grants)'
  <2> DEFINE held(x) == status.nodeRef # NoNode /\ x.gen = status.gen
             F(x) == IF held(x) THEN [x EXCEPT !.managed = @ \/ m] ELSE x
  <2>1. grants' = {F(x) : x \in grants} /\ managed' = m
    BY <1>2 DEF UpdateProjectSpec
  <2>2. /\ status'.phase = status.phase /\ status'.nodeRef = status.nodeRef
        /\ status'.gen = status.gen /\ status'.obligations = status.obligations
        /\ status'.hasBackup = status.hasBackup /\ status'.takeover = status.takeover
    BY <1>0, <1>2 DEF UpdateProjectSpec, SpecChanged, Status
  <2>3. /\ status.phase \in {"Pending", "Scheduled", "Running", "Failed"}
        /\ (status.nodeRef # NoNode /\ managed) => m
    BY <1>2 DEF UpdateProjectSpec, CanChangeSpec
  <2>4. status.nodeRef # NoNode => \A o \in status.obligations : o.gen # status.gen
    BY <1>0, <2>3 DEF StatusLedger, Ledger, Coherent
  <2>5. \A x \in grants : /\ F(x).node = x.node /\ F(x).gen = x.gen
                          /\ held(x) => (F(x).managed <=> x.managed \/ m)
                          /\ ~held(x) => F(x) = x
    BY <1>0 DEF Grant
  <2> HIDE DEF F
  <2>6. HeldDeclared(status, managed, grants)'
    <3> SUFFICES ASSUME status.nodeRef # NoNode, NEW x \in grants, F(x).gen = status.gen, F(x).managed
                 PROVE  m
      BY <2>1, <2>2 DEF HeldDeclared
    <3> QED BY <1>0, <2>3, <2>5 DEF DataLedger, HeldDeclared
  <2>7. DataOwed(status, grants)'
    <3> SUFFICES ASSUME NEW x \in grants, NEW o \in status.obligations, F(x).managed,
                        Names(o, F(x).node, F(x).gen), o.auth # "Deletion"
                 PROVE  o.owed
      BY <2>1, <2>2 DEF DataOwed
    <3>1. ~held(x)
      BY <2>4, <2>5 DEF Names
    <3> QED BY <1>0, <2>5, <3>1 DEF DataLedger, DataOwed
  <2>8. DeletionDebts(status)' /\ CopyKept(status)'
    BY <1>0, <2>2 DEF DataLedger, DeletionDebts, CopyKept
  <2>9. MarkHeld(status, managed)'
    BY <1>0, <2>1, <2>2, <2>3 DEF DataLedger, MarkHeld
  <2> QED BY <2>6, <2>7, <2>8, <2>9 DEF DataLedger
<1>3. ASSUME \/ ForceDelete
             \/ \E u \in UID : DeleteImmediately(u) \/ FinalizeProject(u)
      PROVE  DataLedger(status, managed, grants)'
  BY <1>3 DEF ForceDelete, DeleteImmediately, FinalizeProject, RecordRemoved, DataLedger,
     HeldDeclared, DeletionDebts, DataOwed, CopyKept, MarkHeld, InitialProjectStatus
<1>4. ASSUME NEW u \in UID, MarkTerminating(u) PROVE DataLedger(status, managed, grants)'
  BY <1>0, <1>4, MarkedTerminatingData DEF MarkTerminating, Write
<1>5. ASSUME NEW n \in Node, SetProjectScheduled(n) PROVE DataLedger(status, managed, grants)'
  <2> DEFINE x == [node |-> n, gen |-> status.gen + 1, managed |-> managed]
  <2>1. /\ status'.phase = "Scheduled" /\ status'.nodeRef = n /\ status'.gen = status.gen + 1
        /\ status'.obligations = status.obligations /\ status'.hasBackup = status.hasBackup
        /\ status'.takeover = status.takeover
    BY <1>0, <1>5 DEF SetProjectScheduled, Scheduled, Status
  <2>2. grants' = grants \union {x} /\ managed' = managed
    BY <1>5 DEF SetProjectScheduled
  <2>3. status.phase = "Pending" /\ status.nodeRef = NoNode
    BY <1>0, <1>5 DEF SetProjectScheduled, CanSchedule, PhaseTransitionAllowed, phaseTransitions,
       Status, Phase, StatusLedger, Ledger, Coherent
  <2>4. status.gen \in Nat /\ (\A y \in grants : y.gen \in 1..status.gen)
    BY <1>0 DEF StatusLedger, Ledger, Counted, Status
  <2>5. \A o \in status.obligations : o.gen \in 1..status.gen
    BY <1>0, <2>4 DEF StatusLedger, Ledger, Granted, Names
  <2>6. HeldDeclared(status, managed, grants)'
    <3>1. \A y \in grants : y.gen # status.gen + 1
      BY <2>4
    <3> QED BY <2>1, <2>2, <3>1 DEF HeldDeclared
  <2>7. DataOwed(status, grants)'
    <3>1. \A o \in status.obligations : ~Names(o, x.node, x.gen)
      BY <2>4, <2>5 DEF Names
    <3> HIDE DEF x
    <3> QED BY <1>0, <2>1, <2>2, <3>1 DEF DataLedger, DataOwed
  <2>8. DeletionDebts(status)' /\ CopyKept(status)'
    BY <1>0, <2>1, <2>3 DEF DataLedger, DeletionDebts, CopyKept
  <2>9. MarkHeld(status, managed)'
    BY <1>0, <2>1, <2>3 DEF DataLedger, MarkHeld
  <2> QED BY <2>6, <2>7, <2>8, <2>9 DEF DataLedger
<1>6. ASSUME NEW f \in Fence, ReleaseAssignment(f) PROVE DataLedger(status, managed, grants)'
  <2> DEFINE t == [status EXCEPT !.takeover = TRUE]
  <2>1. status.phase \in {"Scheduled", "Running"}
    BY <1>0, <1>6 DEF ReleaseAssignment, CanRelease, PhaseTransitionAllowed, phaseTransitions,
       Status, Phase
  <2>2. DataLedger(Released(status, "WorkloadStopped", managed), managed, grants)
    BY <1>0, <2>1, ReleasedData
  <2>3. ~managed \/ status.hasBackup =>
          DataLedger(Released(status, "GraceExpired", managed), managed, grants)
    BY <1>0, <2>1, ReleasedData
  <2>4. (GraceExpiredRelease /\ ~(~managed \/ status.hasBackup)) \/ ~GraceExpiredRelease =>
          DataLedger(t, managed, grants)
    <3>1. status.nodeRef # NoNode
      BY <1>0, <2>1 DEF StatusLedger, Ledger, Coherent
    <3>2. /\ t.phase = status.phase /\ t.nodeRef = status.nodeRef /\ t.gen = status.gen
          /\ t.obligations = status.obligations /\ t.hasBackup = status.hasBackup
      BY <1>0 DEF Status
    <3> HIDE DEF t
    <3> QED BY <1>0, <3>1, <3>2
            DEF DataLedger, HeldDeclared, DeletionDebts, DataOwed, CopyKept, MarkHeld
  <2> HIDE DEF t
  <2>5. status' = Unreachable(status, f.node, f.gen, managed, GraceExpiredRelease)
        /\ UNCHANGED <<managed, grants>>
    BY <1>6 DEF ReleaseAssignment, Write
  <2> QED BY <2>2, <2>3, <2>4, <2>5, OptionAssumption DEF Unreachable, t
<1>7. ASSUME NEW f \in Fence, MoveFailedProject(f) PROVE DataLedger(status, managed, grants)'
  <2> DEFINE t == [status EXCEPT !.takeover = TRUE]
             r == Released(status, "WorkloadStopped", managed)
             v == [r EXCEPT !.failedNodes = @ \union {f.node}]
  <2>1. status.phase = "Failed"
    BY <1>0, <1>7 DEF MoveFailedProject, CanMoveFailed, PhaseTransitionAllowed, phaseTransitions,
       Status, Phase
  <2>2. DataLedger(r, managed, grants)
    BY <1>0, <2>1, ReleasedData
  <2>3. r \in Status
    BY <1>0, <2>1, ActiveIsAssigned, ReleasedType DEF Authorization
  <2>4. DataLedger(t, managed, grants)
    <3>1. status.nodeRef # NoNode
      BY <1>0, <2>1 DEF StatusLedger, Ledger, Coherent
    <3>2. /\ t.phase = status.phase /\ t.nodeRef = status.nodeRef /\ t.gen = status.gen
          /\ t.obligations = status.obligations /\ t.hasBackup = status.hasBackup
      BY <1>0 DEF Status
    <3> HIDE DEF t
    <3> QED BY <1>0, <2>1, <3>1, <3>2
            DEF DataLedger, HeldDeclared, DeletionDebts, DataOwed, CopyKept, MarkHeld
  <2> HIDE DEF t, r
  <2>5. /\ v.phase = r.phase /\ v.nodeRef = r.nodeRef /\ v.gen = r.gen
        /\ v.obligations = r.obligations /\ v.hasBackup = r.hasBackup /\ v.takeover = r.takeover
    BY <2>3 DEF Status
  <2> HIDE DEF v
  <2>6. DataLedger(v, managed, grants)
    BY <2>2, <2>5, QuietData
  <2>7. status' = MovedAfterFailure(status, f.node, f.gen, managed) /\ UNCHANGED <<managed, grants>>
    BY <1>7 DEF MoveFailedProject, Write
  <2> QED BY <2>4, <2>6, <2>7 DEF MovedAfterFailure, t, r, v
<1>8. ASSUME NEW f \in Fence, TakeoverProject(f) PROVE DataLedger(status, managed, grants)'
  BY <1>0, <1>8, TakenOverData DEF TakeoverProject, Write
<1>9. ASSUME NEW f \in Fence, NEW ph \in Phase, PatchStatus(f, ph)
      PROVE  DataLedger(status, managed, grants)'
  <2>1. /\ status'.phase = ph /\ status'.nodeRef = status.nodeRef /\ status'.gen = status.gen
        /\ status'.obligations = status.obligations /\ status'.hasBackup = status.hasBackup
        /\ status'.takeover = status.takeover /\ UNCHANGED <<managed, grants>>
    BY <1>0, <1>9 DEF PatchStatus, Reported, Write, Status
  <2>2. /\ status.phase \in {"Terminating", "Terminated"} => ph = "Terminated"
        /\ ph \in {"Scheduled", "Running"} => status.phase \in {"Scheduled", "Running"}
        /\ ph \in {"Terminating", "Terminated"} => status.phase \in {"Terminating", "Terminated"}
    BY <1>9 DEF PatchStatus, CanReport, PhaseTransitionAllowed, phaseTransitions
  <2> QED BY <1>0, <2>1, <2>2
          DEF DataLedger, HeldDeclared, DeletionDebts, DataOwed, CopyKept, MarkHeld
<1>10. ASSUME NEW f \in Fence, RecordResourcesRemoved(f) \/ RecordManagedDataQuarantined(f)
       PROVE  DataLedger(status, managed, grants)'
  BY <1>0, <1>10, EvidenceData DEF RecordResourcesRemoved, RecordManagedDataQuarantined, Write
<1>11. ASSUME \/ ClearFailedNodes
              \/ \E n \in Node : ClearRescheduleClocks(n)
              \/ \E f \in Fence : \/ RecordWorkloadStopped(f)
                                  \/ RecordCommittedBackup(f)
                                  \/ RecordBackupCompletion(f)
       PROVE  DataLedger(status, managed, grants)'
  <2>1. /\ status'.phase = status.phase /\ status'.nodeRef = status.nodeRef
        /\ status'.gen = status.gen /\ status'.obligations = status.obligations
        /\ status.hasBackup => status'.hasBackup
        /\ status'.takeover => status.takeover
        /\ UNCHANGED <<managed, grants>>
    BY <1>0, <1>11 DEF ClearFailedNodes, ClearRescheduleClocks, RecordWorkloadStopped,
       RecordCommittedBackup, RecordBackupCompletion, StoppedRecorded, BackupAccepted, Write, Status
  <2> QED BY <1>0, <2>1, QuietData
<1>12. ASSUME UNCHANGED vars PROVE DataLedger(status, managed, grants)'
  BY <1>0, <1>12 DEF vars
<1> QED
  BY <1>1, <1>2, <1>3, <1>4, <1>5, <1>6, <1>7, <1>8, <1>9, <1>10, <1>11, <1>12
     DEF Next, UserStep, ServerStep, AgentStep

\* The lifecycle and its data ledger hold together, on every write of the record.
LEMMA DataInvariant == Spec => []DataInv
<1>1. Init => DataInv
  <2>1. Init => IInv
    BY InitialStatusType, EmptyLedger DEF Init, IInv, TypeOK, Removal
  <2>2. Init => DataLedger(status, managed, grants)
    BY DEF Init, DataLedger, HeldDeclared, DeletionDebts, DataOwed, CopyKept, MarkHeld,
       InitialProjectStatus, MigratedStatus
  <2> QED BY <2>1, <2>2 DEF DataInv
<1> QED BY <1>1, DataStep, PTL DEF Spec

\* Every Node a Project with Managed data was moved away from owes that data,
\* although the release looks at the spec only when it ends the assignment.
THEOREM MovedDataIsOwed == Spec => []ManagedDataOwed
<1>1. DataInv => ManagedDataOwed
  BY DEF DataInv, DataLedger, DataOwed, ManagedDataOwed
<1> QED BY <1>1, DataInvariant, PTL

\* A release on grace alone leaves Managed data behind only with a backup.
THEOREM OnlyCopyIsKept == Spec => []OnlyCopyKept
<1>1. DataInv => OnlyCopyKept
  BY DEF DataInv, DataLedger, CopyKept, OnlyCopyKept
<1> QED BY <1>1, DataInvariant, PTL

\* The mark that lets an operator take over is about the assignment held now.
THEOREM MarkIsCurrent == Spec => []MarkNamesAssignment
<1>1. DataInv => MarkNamesAssignment
  BY DEF DataInv, DataLedger, MarkHeld, MarkNamesAssignment
<1> QED BY <1>1, DataInvariant, PTL
==============================================================================
