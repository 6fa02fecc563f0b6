--------------------------- MODULE StatusSwap_proofs ---------------------------
(***************************************************************************)
(* The compare-and-swap loops, for any number of calls at once, attempts,  *)
(* Nodes and versions: a call that still holds the row's version holds the *)
(* row, and within a lifetime every committed call is one atomic action of *)
(* ProjectLifecycle.                                                       *)
(***************************************************************************)
EXTENDS StatusSwap, TLAPS

\* A call between its read and its swap.
Holds(c) == calls[c].stage \in {"spec", "swap"}
Working(c) == calls[c].stage \in {"spec", "swap", "again"}

CallField == {"stage", "op", "attempt", "uid", "version", "status", "managed"}

RowShape ==
  /\ uid \in UID \union {NoUID} /\ version \in Nat
  /\ DOMAIN status = DOMAIN InitialProjectStatus
  /\ DOMAIN removal = UID
  /\ uid # NoUID => removal[uid] # "unused"
  /\ DOMAIN calls = Call

\* A lifetime that was read is never given to another record.
ReadShape(c) ==
  /\ DOMAIN calls[c] = CallField
  /\ calls[c].version \in Nat
  /\ calls[c].uid \in UID /\ removal[calls[c].uid] # "unused"
  /\ DOMAIN calls[c].status = DOMAIN InitialProjectStatus

\* The version moves with every write, so what was read at this version is still so.
ReadCurrent(c) ==
  calls[c].uid = uid =>
    /\ calls[c].version <= version
    /\ calls[c].version = version => calls[c].status = status /\ calls[c].managed = managed

\* The closure accepted what was read, for the lifetime and the fence of the call.
ReadAccepted(c) ==
  /\ calls[c].op.kind \notin NameKinds => calls[c].uid = calls[c].op.uid
  /\ calls[c].op.kind \in FenceKinds => /\ calls[c].status.nodeRef = calls[c].op.node
                                        /\ calls[c].status.gen = calls[c].op.gen
  /\ Accepts(calls[c].op, calls[c].status)

SwapInv ==
  /\ RowShape
  /\ \A c \in Call : Working(c) => calls[c].op \in Op
  /\ \A c \in Call : Holds(c) => ReadShape(c) /\ ReadCurrent(c) /\ ReadAccepted(c)

------------------------------------------------------------------------------
(* Facts about the operations.                                             *)

FencedKinds == (UidKinds \ {"terminate"}) \union FenceKinds

LEMMA OpType ==
  ASSUME NEW op \in Op
  PROVE  /\ op.kind \in NameKinds \union UidKinds \union FenceKinds
         /\ op.kind \in {"schedule", "clearClocks"} => op.node \in Node
         /\ op.kind \in UidKinds \union FenceKinds => op.uid \in UID
         /\ op.kind \in FencedKinds => op.node \in Node /\ op.gen \in 1..MaxGen
         /\ op.kind = "phase" => op.phase \in Phase
  BY DEF Op, NameKinds, UidKinds, FenceKinds, FencedKinds, Phase

\* No mutation adds or loses a field of the status.
LEMMA SameFields ==
  /\ \A s, n : DOMAIN Scheduled(s, n) = DOMAIN s
  /\ \A s, x, m : DOMAIN Released(s, x, m) = DOMAIN s
  /\ \A s : DOMAIN MarkedTerminating(s) = DOMAIN s
  /\ \A s, n, g, m : DOMAIN Unreachable(s, n, g, m, GraceExpiredRelease) = DOMAIN s
  /\ \A s, n, g, m : DOMAIN MovedAfterFailure(s, n, g, m) = DOMAIN s
  /\ \A s, n, g, m : DOMAIN TakenOver(s, n, g, m) = DOMAIN s
  /\ \A s, n, g : DOMAIN ResourcesRemovedRecorded(s, n, g) = DOMAIN s
  /\ \A s, n, g : DOMAIN QuarantineRecorded(s, n, g) = DOMAIN s
  /\ \A s : DOMAIN BackupAccepted(s) = DOMAIN s
  /\ \A s, n, g : DOMAIN StoppedRecorded(s, n, g) = DOMAIN s
  /\ \A s, x : DOMAIN Reported(s, x) = DOMAIN s
  /\ \A s : DOMAIN SpecChanged(s) = DOMAIN s
<1>1. \A s, n : DOMAIN Scheduled(s, n) = DOMAIN s
  BY DEF Scheduled
<1>2. \A s, x, m : DOMAIN Released(s, x, m) = DOMAIN s
  BY DEF Released
<1>3. \A s : DOMAIN MarkedTerminating(s) = DOMAIN s
  BY DEF MarkedTerminating
<1>4. \A s, n, g, m : DOMAIN Unreachable(s, n, g, m, GraceExpiredRelease) = DOMAIN s
  BY <1>2 DEF Unreachable
<1>5. \A s, n, g, m : DOMAIN MovedAfterFailure(s, n, g, m) = DOMAIN s
  BY <1>2 DEF MovedAfterFailure
<1>6. \A s, n, g, m : DOMAIN TakenOver(s, n, g, m) = DOMAIN s
  BY DEF TakenOver
<1>7. \A s, n, g : DOMAIN ResourcesRemovedRecorded(s, n, g) = DOMAIN s
  BY DEF ResourcesRemovedRecorded
<1>8. \A s, n, g : DOMAIN QuarantineRecorded(s, n, g) = DOMAIN s
  BY DEF QuarantineRecorded
<1>9. \A s : DOMAIN BackupAccepted(s) = DOMAIN s
  BY DEF BackupAccepted
<1>10. \A s, n, g : DOMAIN StoppedRecorded(s, n, g) = DOMAIN s
  BY DEF StoppedRecorded
<1>11. \A s, x : DOMAIN Reported(s, x) = DOMAIN s
  BY DEF Reported
<1>12. \A s : DOMAIN SpecChanged(s) = DOMAIN s
  BY DEF SpecChanged
<1> QED
  BY <1>1, <1>2, <1>3, <1>4, <1>5, <1>6, <1>7, <1>8, <1>9, <1>10, <1>11, <1>12

LEMMA MutateFields ==
  ASSUME NEW op \in Op, NEW s, NEW m
  PROVE  DOMAIN Mutate(op, s, m) = DOMAIN s
<1>1. DOMAIN [s EXCEPT !.failedNodes = {}] = DOMAIN s /\ DOMAIN [s EXCEPT !.takeover = FALSE] = DOMAIN s
  OBVIOUS
<1>2. op.kind \in {"schedule", "clearFailedNodes", "clearClocks", "terminate", "release", "moveFailed", "takeover",
                   "removed", "quarantined", "completion", "committed", "stopped", "phase"}
  BY OpType DEF NameKinds, UidKinds, FenceKinds
<1>3. op.kind = "schedule" => DOMAIN Mutate(op, s, m) = DOMAIN s
  <2>1. op.kind = "schedule" => Mutate(op, s, m) = Scheduled(s, op.node)
    BY DEF Mutate
  <2>2. DOMAIN Scheduled(s, op.node) = DOMAIN s
    BY SameFields
  <2> QED
    BY <2>1, <2>2
<1>4. op.kind = "clearFailedNodes" => DOMAIN Mutate(op, s, m) = DOMAIN s
  <2>1. op.kind = "clearFailedNodes" => Mutate(op, s, m) = [s EXCEPT !.failedNodes = {}]
    BY DEF Mutate
  <2> QED
    BY <1>1, <2>1, Zenon
<1>5. op.kind = "clearClocks" => DOMAIN Mutate(op, s, m) = DOMAIN s
  <2>1. op.kind = "clearClocks" => Mutate(op, s, m) = [s EXCEPT !.takeover = FALSE]
    BY DEF Mutate
  <2> QED
    BY <1>1, <2>1, Zenon
<1>6. op.kind = "terminate" => DOMAIN Mutate(op, s, m) = DOMAIN s
  <2>1. op.kind = "terminate" => Mutate(op, s, m) = MarkedTerminating(s)
    BY DEF Mutate
  <2>2. DOMAIN MarkedTerminating(s) = DOMAIN s
    BY SameFields
  <2> QED
    BY <2>1, <2>2
<1>7. op.kind = "release" => DOMAIN Mutate(op, s, m) = DOMAIN s
  <2>1. op.kind = "release" => Mutate(op, s, m) = Unreachable(s, op.node, op.gen, m, GraceExpiredRelease)
    BY DEF Mutate
  <2>2. DOMAIN Unreachable(s, op.node, op.gen, m, GraceExpiredRelease) = DOMAIN s
    BY SameFields
  <2> QED
    BY <2>1, <2>2
<1>8. op.kind = "moveFailed" => DOMAIN Mutate(op, s, m) = DOMAIN s
  <2>1. op.kind = "moveFailed" => Mutate(op, s, m) = MovedAfterFailure(s, op.node, op.gen, m)
    BY DEF Mutate
  <2>2. DOMAIN MovedAfterFailure(s, op.node, op.gen, m) = DOMAIN s
    BY SameFields
  <2> QED
    BY <2>1, <2>2
<1>9. op.kind = "takeover" => DOMAIN Mutate(op, s, m) = DOMAIN s
  <2>1. op.kind = "takeover" => Mutate(op, s, m) = TakenOver(s, op.node, op.gen, m)
    BY DEF Mutate
  <2>2. DOMAIN TakenOver(s, op.node, op.gen, m) = DOMAIN s
    BY SameFields
  <2> QED
    BY <2>1, <2>2
<1>10. op.kind = "removed" => DOMAIN Mutate(op, s, m) = DOMAIN s
  <2>1. op.kind = "removed" => Mutate(op, s, m) = ResourcesRemovedRecorded(s, op.node, op.gen)
    BY DEF Mutate
  <2>2. DOMAIN ResourcesRemovedRecorded(s, op.node, op.gen) = DOMAIN s
    BY SameFields
  <2> QED
    BY <2>1, <2>2
<1>11. op.kind = "quarantined" => DOMAIN Mutate(op, s, m) = DOMAIN s
  <2>1. op.kind = "quarantined" => Mutate(op, s, m) = QuarantineRecorded(s, op.node, op.gen)
    BY DEF Mutate
  <2>2. DOMAIN QuarantineRecorded(s, op.node, op.gen) = DOMAIN s
    BY SameFields
  <2> QED
    BY <2>1, <2>2
<1>12. op.kind = "completion" => DOMAIN Mutate(op, s, m) = DOMAIN s
  <2>1. op.kind = "completion" => Mutate(op, s, m) = BackupAccepted(s)
    BY DEF Mutate
  <2>2. DOMAIN BackupAccepted(s) = DOMAIN s
    BY SameFields
  <2> QED
    BY <2>1, <2>2
<1>13. op.kind = "committed" => DOMAIN Mutate(op, s, m) = DOMAIN s
  <2>1. op.kind = "committed" => Mutate(op, s, m) = BackupAccepted(s)
    BY DEF Mutate
  <2>2. DOMAIN BackupAccepted(s) = DOMAIN s
    BY SameFields
  <2> QED
    BY <2>1, <2>2
<1>14. op.kind = "stopped" => DOMAIN Mutate(op, s, m) = DOMAIN s
  <2>1. op.kind = "stopped" => Mutate(op, s, m) = StoppedRecorded(s, op.node, op.gen)
    BY DEF Mutate
  <2>2. DOMAIN StoppedRecorded(s, op.node, op.gen) = DOMAIN s
    BY SameFields
  <2> QED
    BY <2>1, <2>2
<1>15. op.kind = "phase" => DOMAIN Mutate(op, s, m) = DOMAIN s
  <2>1. op.kind = "phase" => Mutate(op, s, m) = Reported(s, op.phase)
    BY DEF Mutate
  <2>2. DOMAIN Reported(s, op.phase) = DOMAIN s
    BY SameFields
  <2> QED
    BY <2>1, <2>2
<1> QED
  BY <1>2, <1>3, <1>4, <1>5, <1>6, <1>7, <1>8, <1>9, <1>10, <1>11, <1>12, <1>13, <1>14, <1>15

\* What a read gives a call.
LEMMA SnapshotFields ==
  ASSUME NEW op, NEW attempt
  PROVE  /\ DOMAIN Snapshot(op, attempt) = CallField
         /\ Snapshot(op, attempt).stage \in {"spec", "swap"}
         /\ Snapshot(op, attempt).op = op
         /\ Snapshot(op, attempt).uid = uid /\ Snapshot(op, attempt).version = version
         /\ Snapshot(op, attempt).status = status /\ Snapshot(op, attempt).managed = managed
  BY DEF Snapshot, CallField

------------------------------------------------------------------------------
(* The invariant.                                                          *)

LEMMA SwapInitially == SwapInit => SwapInv
<1> SUFFICES ASSUME SwapInit
             PROVE  SwapInv
  OBVIOUS
<1>1. /\ uid = NoUID /\ status = InitialProjectStatus /\ version = 0
      /\ removal = [u \in UID |-> "unused"] /\ calls = [c \in Call |-> Idle]
  BY Zenon DEF SwapInit
<1>2. Idle.stage = "idle"
  BY DEF Idle
<1> QED
  BY <1>1, <1>2 DEF SwapInv, RowShape, Holds, Working

\* A step of one call that writes nothing: it ends, comes back for another read, or
\* holds what it has just read.
LEMMA CallStep ==
  ASSUME SwapInv, NEW c \in Call, UNCHANGED row, NEW k, calls' = [calls EXCEPT ![c] = k],
         k.stage \in {"spec", "swap", "again"} => k.op \in Op,
         k.stage \in {"spec", "swap"} =>
           /\ DOMAIN k = CallField /\ k.version \in Nat /\ k.uid \in UID /\ removal[k.uid] # "unused"
           /\ DOMAIN k.status = DOMAIN InitialProjectStatus
           /\ k.uid = uid => /\ k.version <= version
                             /\ k.version = version => k.status = status /\ k.managed = managed
           /\ k.op.kind \notin NameKinds => k.uid = k.op.uid
           /\ k.op.kind \in FenceKinds => k.status.nodeRef = k.op.node /\ k.status.gen = k.op.gen
           /\ Accepts(k.op, k.status)
  PROVE  SwapInv'
<1>1. DOMAIN calls' = Call /\ \A d \in Call : calls'[d] = IF d = c THEN k ELSE calls[d]
  BY DEF SwapInv, RowShape
<1>2. RowShape'
  BY <1>1 DEF SwapInv, RowShape, row
<1>3. \A d \in Call : Working(d)' => calls'[d].op \in Op
  BY <1>1 DEF SwapInv, Working
<1>4. ASSUME NEW d \in Call, Holds(d)'
      PROVE  ReadShape(d)' /\ ReadCurrent(d)' /\ ReadAccepted(d)'
  <2>1. CASE d = c
    BY <1>1, <1>4, <2>1 DEF Holds, ReadShape, ReadCurrent, ReadAccepted, row
  <2>2. CASE d # c
    BY <1>1, <1>4, <2>2 DEF SwapInv, Holds, ReadShape, ReadCurrent, ReadAccepted, row
  <2> QED
    BY <2>1, <2>2
<1> QED
  BY <1>2, <1>3, <1>4 DEF SwapInv

\* A read of a row that the call may have, and whose status its closure accepts.
LEMMA ReadStep ==
  ASSUME SwapInv, NEW c \in Call, UNCHANGED row, NEW op \in Op, NEW attempt,
         ReadMatches(op), Accepts(op, status), calls' = [calls EXCEPT ![c] = Snapshot(op, attempt)]
  PROVE  SwapInv'
<1> DEFINE k == Snapshot(op, attempt)
<1>1. /\ DOMAIN k = CallField /\ k.stage \in {"spec", "swap"} /\ k.op = op
      /\ k.uid = uid /\ k.version = version /\ k.status = status /\ k.managed = managed
  BY SnapshotFields
<1>2. uid \in UID /\ version \in Nat /\ removal[uid] # "unused" /\ DOMAIN status = DOMAIN InitialProjectStatus
  BY DEF SwapInv, RowShape, ReadMatches
<1>3. /\ op.kind \notin NameKinds => uid = op.uid
      /\ op.kind \in FenceKinds => status.nodeRef = op.node /\ status.gen = op.gen
  BY DEF ReadMatches
<1> HIDE DEF k
<1>4. calls' = [calls EXCEPT ![c] = k]
  BY DEF k
<1>5. k.stage \in {"spec", "swap", "again"} => k.op \in Op
  BY <1>1
<1>6. k.stage \in {"spec", "swap"} =>
        /\ DOMAIN k = CallField /\ k.version \in Nat /\ k.uid \in UID /\ removal[k.uid] # "unused"
        /\ DOMAIN k.status = DOMAIN InitialProjectStatus
        /\ k.uid = uid => /\ k.version <= version
                          /\ k.version = version => k.status = status /\ k.managed = managed
        /\ k.op.kind \notin NameKinds => k.uid = k.op.uid
        /\ k.op.kind \in FenceKinds => k.status.nodeRef = k.op.node /\ k.status.gen = k.op.gen
        /\ Accepts(k.op, k.status)
  BY <1>1, <1>2, <1>3
<1> QED
  BY <1>4, <1>5, <1>6, CallStep, Zenon

\* A write of the row moves its version, so no call holds it any more, except that of
\* another lifetime.
LEMMA WriteStep ==
  ASSUME SwapInv, RowShape', uid' = uid, removal' = removal, version' = version + 1,
         \A d \in Call : calls'[d] \in {Idle, calls[d]}
  PROVE  SwapInv'
<1>1. Idle.stage = "idle"
  BY DEF Idle
<1>2. \A d \in Call : Working(d)' => calls'[d].op \in Op
  BY <1>1 DEF SwapInv, Working
<1>3. ASSUME NEW d \in Call, Holds(d)'
      PROVE  ReadShape(d)' /\ ReadCurrent(d)' /\ ReadAccepted(d)'
  <2>1. calls'[d] = calls[d] /\ Holds(d)
    BY <1>1, <1>3 DEF Holds
  <2>2. ReadShape(d) /\ ReadCurrent(d) /\ ReadAccepted(d) /\ version \in Nat
    BY <2>1 DEF SwapInv, RowShape
  <2>3. ReadCurrent(d)'
    BY <2>1, <2>2 DEF ReadCurrent, ReadShape
  <2> QED
    BY <2>1, <2>2, <2>3 DEF ReadShape, ReadAccepted
<1> QED
  BY <1>2, <1>3 DEF SwapInv

\* Another record, or none, under the name: a lifetime is given only once.
LEMMA LifetimeStep ==
  ASSUME SwapInv, RowShape', UNCHANGED calls,
         \/ uid' = NoUID
         \/ uid' \in UID /\ removal[uid'] = "unused",
         \A u \in UID : removal[u] # "unused" => removal'[u] # "unused"
  PROVE  SwapInv'
<1>1. \A d \in Call : Working(d)' => calls'[d].op \in Op
  BY DEF SwapInv, Working
<1>2. ASSUME NEW d \in Call, Holds(d)'
      PROVE  ReadShape(d)' /\ ReadCurrent(d)' /\ ReadAccepted(d)'
  <2>1. Holds(d) /\ ReadShape(d) /\ ReadAccepted(d)
    BY <1>2 DEF SwapInv, Holds
  <2>2. calls[d].uid # uid'
    BY <2>1, SwapConstants DEF ReadShape
  <2> QED
    BY <2>1, <2>2 DEF ReadShape, ReadCurrent, ReadAccepted
<1> QED
  BY <1>1, <1>2 DEF SwapInv

\* The swap writes what the closure made of the row, and nothing else.
LEMMA CommitStep ==
  ASSUME SwapInv, NEW c \in Call, Commit(c)
  PROVE  SwapInv'
<1>0. Idle.stage = "idle" /\ calls' = [calls EXCEPT ![c] = Idle] /\ Holds(c) /\ calls[c].stage = "swap"
  BY DEF Idle, Commit, Holds
<1>1. CASE Written(calls[c]) = calls[c].status
  <2>1. UNCHANGED row
    BY <1>1, Zenon DEF Commit
  <2>2. Idle.stage \notin {"spec", "swap", "again"}
    BY <1>0
  <2> QED
    BY <1>0, <2>1, <2>2, CallStep, Zenon
<1>2. CASE Written(calls[c]) # calls[c].status
  <2>1. status' = Written(calls[c]) /\ version' = version + 1 /\ uid' = uid /\ removal' = removal
    BY <1>2, Zenon DEF Commit
  <2>2. \A d \in Call : calls'[d] \in {Idle, calls[d]}
    BY <1>0 DEF SwapInv, RowShape
  <2>3. DOMAIN calls' = Call
    BY <1>0 DEF SwapInv, RowShape
  <2>4. DOMAIN status' = DOMAIN InitialProjectStatus
    <3>1. calls[c].op \in Op /\ DOMAIN calls[c].status = DOMAIN InitialProjectStatus
      BY <1>0 DEF SwapInv, Working, ReadShape
    <3> QED
      BY <2>1, <3>1, MutateFields DEF Written
  <2>5. RowShape'
    BY <2>1, <2>3, <2>4 DEF SwapInv, RowShape
  <2> QED
    BY <2>1, <2>2, <2>5, WriteStep
<1> QED
  BY <1>1, <1>2

LEMMA SpecStep ==
  ASSUME SwapInv, NEW c \in Call, ReadSpec(c)
  PROVE  SwapInv'
<1>0. /\ UNCHANGED row /\ calls[c].stage = "spec" /\ Holds(c) /\ Working(c)
      /\ ReadShape(c) /\ ReadCurrent(c) /\ ReadAccepted(c) /\ calls[c].op \in Op
  BY DEF ReadSpec, SwapInv, Holds, Working
<1>1. CASE uid = NoUID
  <2>1. calls' = [calls EXCEPT ![c] = Idle]
    BY <1>1 DEF ReadSpec
  <2>2. Idle.stage \notin {"spec", "swap", "again"}
    BY DEF Idle
  <2> QED
    BY <1>0, <2>1, <2>2, CallStep, Zenon
<1>2. CASE uid # NoUID
  <2> DEFINE k == [calls[c] EXCEPT !.stage = "swap", !.managed = managed]
  <2>1. calls' = [calls EXCEPT ![c] = k]
    BY <1>2 DEF ReadSpec
  <2>2. /\ DOMAIN k = CallField /\ k.stage = "swap" /\ k.op = calls[c].op /\ k.uid = calls[c].uid
        /\ k.version = calls[c].version /\ k.status = calls[c].status /\ k.managed = managed
    BY <1>0 DEF ReadShape, CallField
  <2> HIDE DEF k
  <2>3. k.stage \in {"spec", "swap", "again"} => k.op \in Op
    BY <1>0, <2>2
  <2>4. k.stage \in {"spec", "swap"} =>
          /\ DOMAIN k = CallField /\ k.version \in Nat /\ k.uid \in UID /\ removal[k.uid] # "unused"
          /\ DOMAIN k.status = DOMAIN InitialProjectStatus
          /\ k.uid = uid => /\ k.version <= version
                            /\ k.version = version => k.status = status /\ k.managed = managed
          /\ k.op.kind \notin NameKinds => k.uid = k.op.uid
          /\ k.op.kind \in FenceKinds => k.status.nodeRef = k.op.node /\ k.status.gen = k.op.gen
          /\ Accepts(k.op, k.status)
    BY <1>0, <2>2 DEF ReadShape, ReadCurrent, ReadAccepted
  <2> QED
    BY <1>0, <2>1, <2>3, <2>4, CallStep, Zenon
<1> QED
  BY <1>1, <1>2

LEMMA SwapStep == SwapInv /\ [SwapNext]_swapVars => SwapInv'
<1> SUFFICES ASSUME SwapInv, [SwapNext]_swapVars
             PROVE  SwapInv'
  OBVIOUS
<1>1. ASSUME NEW c \in Call, NEW op \in Op, Begin(c, op)
      PROVE  SwapInv'
  <2>1. UNCHANGED row /\ ReadMatches(op) /\ Accepts(op, status) /\ calls' = [calls EXCEPT ![c] = Snapshot(op, 1)]
    BY <1>1, Zenon DEF Begin
  <2> QED
    BY <2>1, ReadStep, Zenon
<1>2. ASSUME NEW c \in Call, Miss(c)
      PROVE  SwapInv'
  <2> DEFINE again == [stage |-> "again", op |-> calls[c].op, attempt |-> calls[c].attempt + 1]
  <2>0. UNCHANGED row /\ calls[c].op \in Op
    BY <1>2 DEF Miss, SwapInv, Working
  <2>1. calls' = [calls EXCEPT ![c] = again] \/ calls' = [calls EXCEPT ![c] = Idle]
    BY <1>2 DEF Miss
  <2>2. Idle.stage \notin {"spec", "swap", "again"} /\ again.stage \notin {"spec", "swap"} /\ again.op \in Op
    BY <2>0 DEF Idle
  <2> HIDE DEF again
  <2>3. CASE calls' = [calls EXCEPT ![c] = again]
    BY <2>0, <2>2, <2>3, CallStep, Zenon
  <2>4. CASE calls' = [calls EXCEPT ![c] = Idle]
    BY <2>0, <2>2, <2>4, CallStep, Zenon
  <2> QED
    BY <2>1, <2>3, <2>4
<1>3. ASSUME NEW c \in Call, ReadAgain(c)
      PROVE  SwapInv'
  <2>0. UNCHANGED row /\ calls[c].op \in Op /\ Idle.stage \notin {"spec", "swap", "again"}
    BY <1>3 DEF ReadAgain, SwapInv, Working, Idle
  <2>1. CASE ReadMatches(calls[c].op) /\ Accepts(calls[c].op, status)
    <3>1. calls' = [calls EXCEPT ![c] = Snapshot(calls[c].op, calls[c].attempt)]
      BY <1>3, <2>1 DEF ReadAgain
    <3> QED
      BY <2>0, <2>1, <3>1, ReadStep, Zenon
  <2>2. CASE ~(ReadMatches(calls[c].op) /\ Accepts(calls[c].op, status))
    <3>1. calls' = [calls EXCEPT ![c] = Idle]
      BY <1>3, <2>2 DEF ReadAgain
    <3> QED
      BY <2>0, <3>1, CallStep, Zenon
  <2> QED
    BY <2>1, <2>2
<1>4. ASSUME NEW u \in UID, NEW m \in BOOLEAN, CreateProject(u, m)
      PROVE  SwapInv'
  <2>1. /\ uid' = u /\ status' = InitialProjectStatus /\ version' = 1 /\ removal[u] = "unused"
        /\ removal' = [removal EXCEPT ![u] = "live"] /\ UNCHANGED calls
    BY <1>4, Zenon DEF CreateProject
  <2>2. RowShape' /\ \A v \in UID : removal[v] # "unused" => removal'[v] # "unused"
    BY <2>1 DEF SwapInv, RowShape
  <2> QED
    BY <2>1, <2>2, LifetimeStep
<1>5. ASSUME NEW m \in BOOLEAN, UpdateProjectSpec(m)
      PROVE  SwapInv'
  <2>1. status' = SpecChanged(status) /\ version' = version + 1 /\ UNCHANGED <<uid, removal, calls>>
    BY <1>5, Zenon DEF UpdateProjectSpec
  <2>2. RowShape'
    BY <2>1, SameFields DEF SwapInv, RowShape
  <2>3. \A d \in Call : calls'[d] \in {Idle, calls[d]}
    BY <2>1
  <2> QED
    BY <2>1, <2>2, <2>3, WriteStep
<1>6. CASE SetCondition
  <2>1. version' = version + 1 /\ UNCHANGED <<uid, status, removal, calls>>
    BY <1>6, Zenon DEF SetCondition
  <2>2. RowShape'
    BY <2>1 DEF SwapInv, RowShape
  <2>3. \A d \in Call : calls'[d] \in {Idle, calls[d]}
    BY <2>1
  <2> QED
    BY <2>1, <2>2, <2>3, WriteStep
<1>7. ASSUME NEW how, how # "unused", uid # NoUID, Remove(how)
      PROVE  SwapInv'
  <2>1. /\ uid' = NoUID /\ status' = InitialProjectStatus /\ version' = 0
        /\ removal' = [removal EXCEPT ![uid] = how] /\ UNCHANGED calls
    BY <1>7, Zenon DEF Remove
  <2>2. RowShape' /\ \A v \in UID : removal[v] # "unused" => removal'[v] # "unused"
    BY <1>7, <2>1 DEF SwapInv, RowShape
  <2> QED
    BY <2>1, <2>2, LifetimeStep
<1>8. CASE DeleteProject
  BY <1>7, <1>8 DEF DeleteProject
<1>9. CASE FinalizeProject
  BY <1>7, <1>9 DEF FinalizeProject
<1>10. CASE UNCHANGED swapVars
  BY <1>10 DEF swapVars, SwapInv, RowShape, Working, Holds, ReadShape, ReadCurrent, ReadAccepted
<1> QED
  BY <1>1, <1>2, <1>3, <1>4, <1>5, <1>6, <1>8, <1>9, <1>10, CommitStep, SpecStep DEF SwapNext

LEMMA SwapInvariant == SwapSpec => []SwapInv
  BY SwapInitially, SwapStep, PTL DEF SwapSpec

\* A call that still holds the row's version holds the row, for any number of calls,
\* lifetimes, Nodes and attempts: no write of status or spec leaves the version alone,
\* and a record created again under the name is not taken for the one that was read
\* (UpdateProjectStatusWithRetry, UpdateProjectStatusForUID, ReportProjectStatusFenced).
THEOREM SnapshotIsCurrent == SwapSpec => []SnapshotCurrent
<1>1. SwapInv => SnapshotCurrent
  BY DEF SwapInv, SnapshotCurrent, Holds, ReadCurrent
<1> QED
  BY <1>1, SwapInvariant, PTL

------------------------------------------------------------------------------
(* The refinement.                                                         *)

\* The record under the name is never replaced by another one.  The loops that find
\* their row by name and version alone may write a later lifetime's row with what they
\* made of an earlier one's, so without this the refinement does not hold.
OneLifetime == \A u, v \in UID : u = v

\* A swap that hits writes what the closure makes of the row as it is.
LEMMA SwapIsCurrent ==
  ASSUME OneLifetime, SwapInv, NEW c \in Call, calls[c].stage = "swap", SwapMatches(calls[c])
  PROVE  /\ uid # NoUID /\ uid \in UID /\ calls[c].op \in Op
         /\ calls[c].status = status /\ calls[c].managed = managed
         /\ Accepts(calls[c].op, status) /\ ReadMatches(calls[c].op)
<1>1. ReadShape(c) /\ ReadCurrent(c) /\ ReadAccepted(c) /\ calls[c].op \in Op
  BY DEF SwapInv, Holds, Working
<1>2. uid # NoUID /\ uid \in UID /\ version = calls[c].version /\ ReadMatches(calls[c].op)
  BY DEF SwapInv, RowShape, SwapMatches, ReadMatches
<1>3. calls[c].uid = uid
  BY <1>1, <1>2 DEF ReadShape, OneLifetime
<1> QED
  BY <1>1, <1>2, <1>3 DEF ReadCurrent, ReadAccepted

\* The fence that a call names.
FenceOf(op) == [uid |-> op.uid, node |-> op.node, gen |-> op.gen]

LEMMA FenceFields ==
  ASSUME NEW op \in Op, op.kind \in FencedKinds
  PROVE  /\ FenceOf(op) \in PL!Fence
         /\ FenceOf(op).uid = op.uid /\ FenceOf(op).node = op.node /\ FenceOf(op).gen = op.gen
<1>1. op.uid \in UID /\ op.node \in Node /\ op.gen \in 1..MaxGen
  BY OpType DEF FencedKinds
<1> QED
  BY <1>1 DEF FenceOf, PL!Fence

\* ProjectLifecycle's mutations are those of ProjectRecord.
LEMMA SameOperators ==
  /\ PL!InitialProjectStatus = InitialProjectStatus
  /\ \A s, m, k : PL!CanChangeSpec(s, m, k) <=> CanChangeSpec(s, m, k)
  /\ \A s : PL!SpecChanged(s) = SpecChanged(s)
  /\ \A s : PL!MayDeleteImmediately(s) <=> MayDeleteImmediately(s)
  /\ \A s : PL!MayFinalize(s) <=> MayFinalize(s)
  /\ \A s : PL!CanTerminate(s) <=> CanTerminate(s)
  /\ \A s : PL!MarkedTerminating(s) = MarkedTerminating(s)
  /\ \A s, n : PL!CanSchedule(s, n) <=> CanSchedule(s, n)
  /\ \A s, n : PL!Scheduled(s, n) = Scheduled(s, n)
  /\ \A s, n, g : PL!CanRelease(s, n, g) <=> CanRelease(s, n, g)
  /\ \A s, n, g, m, x : PL!Unreachable(s, n, g, m, x) = Unreachable(s, n, g, m, x)
  /\ \A s, n, g : PL!CanMoveFailed(s, n, g) <=> CanMoveFailed(s, n, g)
  /\ \A s, n, g, m : PL!MovedAfterFailure(s, n, g, m) = MovedAfterFailure(s, n, g, m)
  /\ \A s, n, g : PL!CanTakeOver(s, n, g) <=> CanTakeOver(s, n, g)
  /\ \A s, n, g, m : PL!TakenOver(s, n, g, m) = TakenOver(s, n, g, m)
  /\ \A s, x : PL!CanReport(s, x) <=> CanReport(s, x)
  /\ \A s, x : PL!Reported(s, x) = Reported(s, x)
  /\ \A s : PL!CanRecordStopped(s) <=> CanRecordStopped(s)
  /\ \A s, n, g : PL!StoppedRecorded(s, n, g) = StoppedRecorded(s, n, g)
  /\ \A s : PL!CanCommitBackup(s) <=> CanCommitBackup(s)
  /\ \A s : PL!CanCompleteBackup(s) <=> CanCompleteBackup(s)
  /\ \A s : PL!BackupAccepted(s) = BackupAccepted(s)
  /\ \A s, n, g : PL!HasObligation(s, n, g) <=> HasObligation(s, n, g)
  /\ \A s, n, g : PL!ResourcesRemovedRecorded(s, n, g) = ResourcesRemovedRecorded(s, n, g)
  /\ \A s, n, g : PL!QuarantineRecorded(s, n, g) = QuarantineRecorded(s, n, g)
<1>1. PL!InitialProjectStatus = InitialProjectStatus
  BY Zenon DEF InitialProjectStatus, PL!InitialProjectStatus, NoAssignment, PL!NoAssignment
<1>2. \A s, m, k : PL!CanChangeSpec(s, m, k) <=> CanChangeSpec(s, m, k)
  BY Zenon DEF CanChangeSpec, PL!CanChangeSpec
<1>3. \A s : PL!SpecChanged(s) = SpecChanged(s)
  BY Zenon DEF SpecChanged, PL!SpecChanged
<1>4. \A s : PL!MayDeleteImmediately(s) <=> MayDeleteImmediately(s)
  BY Zenon DEF MayDeleteImmediately, PL!MayDeleteImmediately
<1>5. \A s : PL!MayFinalize(s) <=> MayFinalize(s)
  BY Zenon DEF MayFinalize, PL!MayFinalize, AwaitsFinalization, PL!AwaitsFinalization,
     ResourcesRemovedFor, PL!ResourcesRemovedFor, Names, PL!Names
<1>6. \A s : PL!CanTerminate(s) <=> CanTerminate(s)
  BY Zenon DEF CanTerminate, PL!CanTerminate, PhaseTransitionAllowed, PL!PhaseTransitionAllowed,
     phaseTransitions, PL!phaseTransitions
<1>7. \A s : PL!MarkedTerminating(s) = MarkedTerminating(s)
  BY Zenon DEF MarkedTerminating, PL!MarkedTerminating, AddObligation, PL!AddObligation,
     HasObligation, PL!HasObligation, Names, PL!Names
<1>8. \A s, n : PL!CanSchedule(s, n) <=> CanSchedule(s, n)
  BY Zenon DEF CanSchedule, PL!CanSchedule, PhaseTransitionAllowed, PL!PhaseTransitionAllowed,
     phaseTransitions, PL!phaseTransitions, Blocking, PL!Blocking, PermitsAssignment,
     PL!PermitsAssignment, NodesOwingCleanup, PL!NodesOwingCleanup, Owing, PL!Owing,
     DataOutstanding, PL!DataOutstanding
<1>9. \A s, n : PL!Scheduled(s, n) = Scheduled(s, n)
  BY Zenon DEF Scheduled, PL!Scheduled, NoAssignment, PL!NoAssignment
<1>10. \A s, n, g : PL!CanRelease(s, n, g) <=> CanRelease(s, n, g)
  BY Zenon DEF CanRelease, PL!CanRelease, PhaseTransitionAllowed, PL!PhaseTransitionAllowed,
     phaseTransitions, PL!phaseTransitions
<1>11. \A s, n, g, m, x : PL!Unreachable(s, n, g, m, x) = Unreachable(s, n, g, m, x)
  BY Zenon DEF Unreachable, PL!Unreachable, WorkloadStoppedFor, PL!WorkloadStoppedFor, Released,
     PL!Released, OweManagedData, PL!OweManagedData, Names, PL!Names, AddObligation,
     PL!AddObligation, HasObligation, PL!HasObligation
<1>12. \A s, n, g : PL!CanMoveFailed(s, n, g) <=> CanMoveFailed(s, n, g)
  BY Zenon DEF CanMoveFailed, PL!CanMoveFailed, PhaseTransitionAllowed, PL!PhaseTransitionAllowed,
     phaseTransitions, PL!phaseTransitions
<1>13. \A s, n, g, m : PL!MovedAfterFailure(s, n, g, m) = MovedAfterFailure(s, n, g, m)
  BY Zenon DEF MovedAfterFailure, PL!MovedAfterFailure, WorkloadStoppedFor, PL!WorkloadStoppedFor,
     Released, PL!Released, OweManagedData, PL!OweManagedData, Names, PL!Names, AddObligation,
     PL!AddObligation, HasObligation, PL!HasObligation
<1>14. \A s, n, g : PL!CanTakeOver(s, n, g) <=> CanTakeOver(s, n, g)
  BY Zenon DEF CanTakeOver, PL!CanTakeOver, Blocking, PL!Blocking, PermitsAssignment,
     PL!PermitsAssignment, Names, PL!Names, PhaseTransitionAllowed, PL!PhaseTransitionAllowed,
     phaseTransitions, PL!phaseTransitions
<1>15. \A s, n, g, m : PL!TakenOver(s, n, g, m) = TakenOver(s, n, g, m)
  BY Zenon DEF TakenOver, PL!TakenOver, OweManagedData, PL!OweManagedData, Names, PL!Names,
     OverrideRelease, PL!OverrideRelease, AddObligation, PL!AddObligation, HasObligation,
     PL!HasObligation
<1>16. \A s, x : PL!CanReport(s, x) <=> CanReport(s, x)
  BY Zenon DEF CanReport, PL!CanReport, PhaseTransitionAllowed, PL!PhaseTransitionAllowed,
     phaseTransitions, PL!phaseTransitions, ResourcesRemovedFor, PL!ResourcesRemovedFor, Names,
     PL!Names
<1>17. \A s, x : PL!Reported(s, x) = Reported(s, x)
  BY Zenon DEF Reported, PL!Reported
<1>18. \A s : PL!CanRecordStopped(s) <=> CanRecordStopped(s)
  BY Zenon DEF CanRecordStopped, PL!CanRecordStopped
<1>19. \A s, n, g : PL!StoppedRecorded(s, n, g) = StoppedRecorded(s, n, g)
  BY Zenon DEF StoppedRecorded, PL!StoppedRecorded
<1>20. \A s : PL!CanCommitBackup(s) <=> CanCommitBackup(s)
  BY Zenon DEF CanCommitBackup, PL!CanCommitBackup
<1>21. \A s : PL!CanCompleteBackup(s) <=> CanCompleteBackup(s)
  BY Zenon DEF CanCompleteBackup, PL!CanCompleteBackup
<1>22. \A s : PL!BackupAccepted(s) = BackupAccepted(s)
  BY Zenon DEF BackupAccepted, PL!BackupAccepted
<1>23. \A s, n, g : PL!HasObligation(s, n, g) <=> HasObligation(s, n, g)
  BY Zenon DEF HasObligation, PL!HasObligation, Names, PL!Names
<1>24. \A s, n, g : PL!ResourcesRemovedRecorded(s, n, g) = ResourcesRemovedRecorded(s, n, g)
  BY Zenon DEF ResourcesRemovedRecorded, PL!ResourcesRemovedRecorded, Names, PL!Names
<1>25. \A s, n, g : PL!QuarantineRecorded(s, n, g) = QuarantineRecorded(s, n, g)
  BY Zenon DEF QuarantineRecorded, PL!QuarantineRecorded, Names, PL!Names
<1> QED
  BY <1>1, <1>2, <1>3, <1>4, <1>5, <1>6, <1>7, <1>8, <1>9, <1>10, <1>11, <1>12, <1>13, <1>14, <1>15,
     <1>16, <1>17, <1>18, <1>19, <1>20, <1>21, <1>22, <1>23, <1>24, <1>25, Zenon

\* Every call that changes the row is, whatever it interleaved with, the one action
\* of ProjectLifecycle that its kind stands for.
LEMMA CommitImplements ==
  ASSUME OneLifetime, SwapInv, NEW c \in Call, Commit(c), Written(calls[c]) # calls[c].status
  PROVE  PL!Next
<1> DEFINE op == calls[c].op
<1>1. SwapMatches(calls[c]) /\ calls[c].stage = "swap"
  BY Zenon DEF Commit
<1>2. /\ uid # NoUID /\ uid \in UID /\ op \in Op /\ Accepts(op, status) /\ ReadMatches(op)
      /\ calls[c].status = status /\ calls[c].managed = managed
  BY <1>1, SwapIsCurrent
<1>3. status' = Mutate(op, status, managed) /\ UNCHANGED <<uid, managed, removal>>
  <2>1. status' = Written(calls[c]) /\ UNCHANGED <<uid, managed, removal>>
    BY Zenon DEF Commit
  <2> QED
    BY <1>2, <2>1 DEF Written
<1>4. /\ op.kind = "schedule" =>
           grants' = grants \union {[node |-> op.node, gen |-> status'.gen, managed |-> managed]}
      /\ op.kind # "schedule" => grants' = grants
  BY Zenon DEF Commit
<1>5. op.kind \notin NameKinds => uid = op.uid /\ op.uid \in UID
  BY <1>2 DEF ReadMatches
<1>6. op.kind \in FenceKinds => status.nodeRef = op.node /\ status.gen = op.gen
  BY <1>2 DEF ReadMatches
<1>7. op.kind \in FencedKinds =>
        /\ FenceOf(op) \in PL!Fence
        /\ FenceOf(op).uid = op.uid /\ FenceOf(op).node = op.node /\ FenceOf(op).gen = op.gen
  BY <1>2, FenceFields
<1>8. op.kind \in {"schedule", "clearFailedNodes", "clearClocks", "terminate", "release", "moveFailed", "takeover",
                   "removed", "quarantined", "completion", "committed", "stopped", "phase"}
  BY <1>2, OpType DEF NameKinds, UidKinds, FenceKinds
<1>9. op.kind \in {"schedule", "clearClocks"} => op.node \in Node
  BY <1>2, OpType
<1>10. op.kind = "phase" => op.phase \in Phase
  BY <1>2, OpType
<1> HIDE DEF op
<1>11. CASE op.kind = "schedule"
  <2>1. status' = Scheduled(status, op.node)
    BY <1>3, <1>11 DEF Mutate
  <2>2. status.gen < MaxGen /\ CanSchedule(status, op.node)
    BY <1>2, <1>11 DEF Accepts
  <2>3. status'.gen = status.gen + 1
    <3>1. "gen" \in DOMAIN status
      BY DEF SwapInv, RowShape, InitialProjectStatus
    <3> QED
      BY <2>1, <3>1 DEF Scheduled
  <2>4. PL!SetProjectScheduled(op.node)
    BY <1>2, <1>3, <1>4, <1>11, <2>1, <2>2, <2>3, SameOperators DEF PL!SetProjectScheduled
  <2> QED
    BY <1>9, <1>11, <2>4 DEF PL!Next, PL!ServerStep
<1>12. CASE op.kind = "clearFailedNodes"
  <2>1. status' = [status EXCEPT !.failedNodes = {}]
    BY <1>3, <1>12 DEF Mutate
  <2>2. PL!ClearFailedNodes
    BY <1>2, <1>3, <1>4, <1>12, <2>1, Zenon DEF PL!ClearFailedNodes, PL!Write
  <2> QED
    BY <2>2, SameOperators DEF PL!Next, PL!ServerStep
<1>13. CASE op.kind = "clearClocks"
  <2>1. status' = [status EXCEPT !.takeover = FALSE]
    BY <1>3, <1>13 DEF Mutate
  <2>2. status.nodeRef = op.node
    BY <1>2, <1>13 DEF Accepts
  <2>3. PL!ClearRescheduleClocks(op.node)
    BY <1>2, <1>3, <1>4, <1>13, <2>1, <2>2, Zenon DEF PL!ClearRescheduleClocks, PL!Write
  <2> QED
    BY <1>9, <1>13, <2>3 DEF PL!Next, PL!ServerStep
<1>14. CASE op.kind = "terminate"
  <2>1. status' = MarkedTerminating(status)
    BY <1>3, <1>14 DEF Mutate
  <2>2. CanTerminate(status)
    BY <1>2, <1>14 DEF Accepts
  <2>3. PL!MarkTerminating(op.uid)
    BY <1>3, <1>4, <1>5, <1>14, <2>1, <2>2, SameOperators DEF PL!MarkTerminating, PL!Write, NameKinds
  <2> QED
    BY <1>5, <1>14, <2>3 DEF PL!Next, PL!UserStep, NameKinds
<1>15. CASE op.kind = "release"
  <2>0. op.kind \in FencedKinds /\ op.kind \notin NameKinds /\ (op.kind \in FenceKinds <=> op.kind \in {"stopped", "committed", "phase"})
    BY <1>15 DEF FencedKinds, UidKinds, FenceKinds, NameKinds
  <2>1. status' = Unreachable(status, op.node, op.gen, managed, GraceExpiredRelease)
    BY <1>3, <1>15 DEF Mutate
  <2>2. CanRelease(status, op.node, op.gen)
    BY <1>2, <1>15 DEF Accepts
  <2>3. PL!ReleaseAssignment(FenceOf(op))
    BY <1>3, <1>4, <1>5, <1>7, <1>15, <2>0, <2>1, <2>2, SameOperators DEF PL!ReleaseAssignment, PL!Write
  <2> QED
    BY <1>7, <1>15, <2>0, <2>3 DEF PL!Next, PL!ServerStep
<1>16. CASE op.kind = "moveFailed"
  <2>0. op.kind \in FencedKinds /\ op.kind \notin NameKinds /\ (op.kind \in FenceKinds <=> op.kind \in {"stopped", "committed", "phase"})
    BY <1>16 DEF FencedKinds, UidKinds, FenceKinds, NameKinds
  <2>1. status' = MovedAfterFailure(status, op.node, op.gen, managed)
    BY <1>3, <1>16 DEF Mutate
  <2>2. CanMoveFailed(status, op.node, op.gen)
    BY <1>2, <1>16 DEF Accepts
  <2>3. PL!MoveFailedProject(FenceOf(op))
    BY <1>3, <1>4, <1>5, <1>7, <1>16, <2>0, <2>1, <2>2, SameOperators DEF PL!MoveFailedProject, PL!Write
  <2> QED
    BY <1>7, <1>16, <2>0, <2>3 DEF PL!Next, PL!ServerStep
<1>17. CASE op.kind = "takeover"
  <2>0. op.kind \in FencedKinds /\ op.kind \notin NameKinds /\ (op.kind \in FenceKinds <=> op.kind \in {"stopped", "committed", "phase"})
    BY <1>17 DEF FencedKinds, UidKinds, FenceKinds, NameKinds
  <2>1. status' = TakenOver(status, op.node, op.gen, managed)
    BY <1>3, <1>17 DEF Mutate
  <2>2. CanTakeOver(status, op.node, op.gen)
    BY <1>2, <1>17 DEF Accepts
  <2>3. PL!TakeoverProject(FenceOf(op))
    BY <1>3, <1>4, <1>5, <1>7, <1>17, <2>0, <2>1, <2>2, SameOperators DEF PL!TakeoverProject, PL!Write
  <2> QED
    BY <1>7, <1>17, <2>0, <2>3 DEF PL!Next, PL!ServerStep
<1>18. CASE op.kind = "removed"
  <2>0. op.kind \in FencedKinds /\ op.kind \notin NameKinds /\ (op.kind \in FenceKinds <=> op.kind \in {"stopped", "committed", "phase"})
    BY <1>18 DEF FencedKinds, UidKinds, FenceKinds, NameKinds
  <2>1. status' = ResourcesRemovedRecorded(status, op.node, op.gen)
    BY <1>3, <1>18 DEF Mutate
  <2>2. HasObligation(status.obligations, op.node, op.gen)
    BY <1>2, <1>18 DEF Accepts
  <2>3. PL!RecordResourcesRemoved(FenceOf(op))
    BY <1>3, <1>4, <1>5, <1>7, <1>18, <2>0, <2>1, <2>2, SameOperators DEF PL!RecordResourcesRemoved, PL!Write
  <2> QED
    BY <1>7, <1>18, <2>0, <2>3 DEF PL!Next, PL!AgentStep
<1>19. CASE op.kind = "quarantined"
  <2>0. op.kind \in FencedKinds /\ op.kind \notin NameKinds /\ (op.kind \in FenceKinds <=> op.kind \in {"stopped", "committed", "phase"})
    BY <1>19 DEF FencedKinds, UidKinds, FenceKinds, NameKinds
  <2>1. status' = QuarantineRecorded(status, op.node, op.gen)
    BY <1>3, <1>19 DEF Mutate
  <2>2. HasObligation(status.obligations, op.node, op.gen)
    BY <1>2, <1>19 DEF Accepts
  <2>3. PL!RecordManagedDataQuarantined(FenceOf(op))
    BY <1>3, <1>4, <1>5, <1>7, <1>19, <2>0, <2>1, <2>2, SameOperators DEF PL!RecordManagedDataQuarantined, PL!Write
  <2> QED
    BY <1>7, <1>19, <2>0, <2>3 DEF PL!Next, PL!AgentStep
<1>20. CASE op.kind = "completion"
  <2>0. op.kind \in FencedKinds /\ op.kind \notin NameKinds /\ (op.kind \in FenceKinds <=> op.kind \in {"stopped", "committed", "phase"})
    BY <1>20 DEF FencedKinds, UidKinds, FenceKinds, NameKinds
  <2>1. status' = BackupAccepted(status)
    BY <1>3, <1>20 DEF Mutate
  <2>2. status.nodeRef = op.node /\ status.gen = op.gen /\ CanCompleteBackup(status)
    BY <1>2, <1>20 DEF Accepts
  <2>3. PL!RecordBackupCompletion(FenceOf(op))
    BY <1>3, <1>4, <1>5, <1>7, <1>20, <2>0, <2>1, <2>2, SameOperators DEF PL!RecordBackupCompletion, PL!Write, PL!FenceMatches
  <2> QED
    BY <1>7, <1>20, <2>0, <2>3 DEF PL!Next, PL!AgentStep
<1>21. CASE op.kind = "committed"
  <2>0. op.kind \in FencedKinds /\ op.kind \notin NameKinds /\ (op.kind \in FenceKinds <=> op.kind \in {"stopped", "committed", "phase"})
    BY <1>21 DEF FencedKinds, UidKinds, FenceKinds, NameKinds
  <2>1. status' = BackupAccepted(status)
    BY <1>3, <1>21 DEF Mutate
  <2>2. CanCommitBackup(status)
    BY <1>2, <1>21 DEF Accepts
  <2>3. PL!RecordCommittedBackup(FenceOf(op))
    BY <1>3, <1>4, <1>5, <1>6, <1>7, <1>21, <2>0, <2>1, <2>2, SameOperators DEF PL!RecordCommittedBackup, PL!Write, PL!FenceMatches
  <2> QED
    BY <1>7, <1>21, <2>0, <2>3 DEF PL!Next, PL!AgentStep
<1>22. CASE op.kind = "stopped"
  <2>0. op.kind \in FencedKinds /\ op.kind \notin NameKinds /\ (op.kind \in FenceKinds <=> op.kind \in {"stopped", "committed", "phase"})
    BY <1>22 DEF FencedKinds, UidKinds, FenceKinds, NameKinds
  <2>1. status' = StoppedRecorded(status, op.node, op.gen)
    BY <1>3, <1>22 DEF Mutate
  <2>2. CanRecordStopped(status)
    BY <1>2, <1>22 DEF Accepts
  <2>3. PL!RecordWorkloadStopped(FenceOf(op))
    BY <1>3, <1>4, <1>5, <1>6, <1>7, <1>22, <2>0, <2>1, <2>2, SameOperators DEF PL!RecordWorkloadStopped, PL!Write, PL!FenceMatches
  <2> QED
    BY <1>7, <1>22, <2>0, <2>3 DEF PL!Next, PL!AgentStep
<1>23. CASE op.kind = "phase"
  <2>0. op.kind \in FencedKinds /\ op.kind \notin NameKinds /\ (op.kind \in FenceKinds <=> op.kind \in {"stopped", "committed", "phase"})
    BY <1>23 DEF FencedKinds, UidKinds, FenceKinds, NameKinds
  <2>1. status' = Reported(status, op.phase)
    BY <1>3, <1>23 DEF Mutate
  <2>2. CanReport(status, op.phase)
    BY <1>2, <1>23 DEF Accepts
  <2>3. PL!PatchStatus(FenceOf(op), op.phase)
    BY <1>3, <1>4, <1>5, <1>6, <1>7, <1>23, <2>0, <2>1, <2>2, SameOperators DEF PL!PatchStatus, PL!Write, PL!FenceMatches
  <2> QED
    BY <1>7, <1>10, <1>23, <2>0, <2>3 DEF PL!Next, PL!AgentStep, Phase, PL!Phase
<1> QED
  BY <1>8, <1>11, <1>12, <1>13, <1>14, <1>15, <1>16, <1>17, <1>18, <1>19, <1>20, <1>21, <1>22, <1>23

LEMMA StepImplements ==
  ASSUME OneLifetime, SwapInv, [SwapNext]_swapVars
  PROVE  [PL!Next]_(PL!vars)
<1>0. uid # NoUID => uid \in UID
  BY DEF SwapInv, RowShape
<1>1. UNCHANGED row => UNCHANGED PL!vars
  BY DEF row, PL!vars
<1>2. ASSUME NEW c \in Call, NEW op \in Op, Begin(c, op)
      PROVE  UNCHANGED row
  BY <1>2, Zenon DEF Begin
<1>3. ASSUME NEW c \in Call, ReadSpec(c) \/ Miss(c) \/ ReadAgain(c)
      PROVE  UNCHANGED row
  BY <1>3, Zenon DEF ReadSpec, Miss, ReadAgain
<1>4. ASSUME NEW c \in Call, Commit(c)
      PROVE  [PL!Next]_(PL!vars)
  <2>1. CASE Written(calls[c]) = calls[c].status
    <3>1. UNCHANGED row
      BY <1>4, <2>1, Zenon DEF Commit
    <3> QED
      BY <1>1, <3>1
  <2>2. CASE Written(calls[c]) # calls[c].status
    BY <1>4, <2>2, CommitImplements
  <2> QED
    BY <2>1, <2>2
<1>5. ASSUME NEW u \in UID, NEW m \in BOOLEAN, CreateProject(u, m)
      PROVE  PL!Next
  <2>1. PL!InitialProjectStatus = InitialProjectStatus
    BY SameOperators, Zenon
  <2>2. PL!CreateProject(u, m)
    BY <1>5, <2>1, Zenon DEF CreateProject, PL!CreateProject
  <2> QED
    BY <2>2, Zenon DEF PL!Next, PL!UserStep
<1>6. ASSUME NEW m \in BOOLEAN, UpdateProjectSpec(m)
      PROVE  PL!Next
  <2>1. PL!CanChangeSpec(status, managed, m) <=> CanChangeSpec(status, managed, m)
    BY SameOperators, Zenon
  <2>2. PL!SpecChanged(status) = SpecChanged(status)
    BY SameOperators, Zenon
  <2>3. PL!UpdateProjectSpec(m)
    BY <1>6, <2>1, <2>2, Zenon DEF UpdateProjectSpec, PL!UpdateProjectSpec
  <2> QED
    BY <2>3, Zenon DEF PL!Next, PL!UserStep
<1>7. ASSUME SetCondition
      PROVE  UNCHANGED PL!vars
  BY <1>7, Zenon DEF SetCondition, PL!vars
<1>8. ASSUME NEW how, Remove(how)
      PROVE  PL!RecordRemoved(how)
  <2>1. PL!InitialProjectStatus = InitialProjectStatus
    BY SameOperators, Zenon
  <2> QED
    BY <1>8, <2>1, Zenon DEF Remove, PL!RecordRemoved
<1>9. ASSUME DeleteProject
      PROVE  PL!Next
  <2>1. PL!ForceDelete
    BY <1>8, <1>9, Zenon DEF DeleteProject, PL!ForceDelete
  <2> QED
    BY <2>1, Zenon DEF PL!Next, PL!UserStep
<1>10. ASSUME FinalizeProject
       PROVE  PL!Next
  <2>1. uid \in UID
    BY <1>0, <1>10 DEF FinalizeProject
  <2>2. CASE MayDeleteImmediately(status) /\ Remove("immediate")
    <3>1. PL!MayDeleteImmediately(status)
      BY <2>2, SameOperators, Zenon
    <3>2. PL!DeleteImmediately(uid)
      BY <1>8, <2>2, <3>1, Zenon DEF PL!DeleteImmediately
    <3> QED
      BY <2>1, <3>2, Zenon DEF PL!Next, PL!UserStep
  <2>3. CASE MayFinalize(status) /\ Remove("finalized")
    <3>1. PL!MayFinalize(status)
      BY <2>3, SameOperators, Zenon
    <3>2. PL!FinalizeProject(uid)
      BY <1>8, <2>3, <3>1, Zenon DEF PL!FinalizeProject
    <3> QED
      BY <2>1, <3>2, Zenon DEF PL!Next, PL!ServerStep
  <2> QED
    BY <1>10, <2>2, <2>3, Zenon DEF FinalizeProject
<1>11. UNCHANGED swapVars => UNCHANGED PL!vars
  BY DEF swapVars, PL!vars
<1> QED
  BY <1>1, <1>2, <1>3, <1>4, <1>5, <1>6, <1>7, <1>9, <1>10, <1>11 DEF SwapNext

\* The loops make every operation atomic, for any number of calls at once, Nodes and
\* attempts: as long as the record under the name is not replaced by another lifetime,
\* the row changes only as one action of ProjectLifecycle would change it, so nothing a
\* concurrent writer committed is lost (UpdateProjectStatusWithRetry,
\* UpdateProjectStatusForUID, ReportProjectStatusFenced and TakeoverProject). The
\* safety theorems about ProjectLifecycle therefore hold of the loops as well.
THEOREM LoopsAreAtomic ==
  ASSUME OneLifetime
  PROVE  SwapSpec => RefinesLifecycle
<1>1. SwapInit => PL!Init
  <2>1. PL!InitialProjectStatus = InitialProjectStatus
    BY SameOperators, Zenon
  <2> QED
    BY <2>1, Zenon DEF SwapInit, PL!Init
<1>2. SwapInv /\ [SwapNext]_swapVars => [PL!Next]_(PL!vars)
  BY StepImplements
<1> QED
  BY <1>1, <1>2, SwapInvariant, PTL DEF SwapSpec, RefinesLifecycle, PL!Spec
=============================================================================
