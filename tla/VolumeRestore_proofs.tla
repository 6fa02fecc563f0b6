-------------------------- MODULE VolumeRestore_proofs --------------------------
(***************************************************************************)
(* VolumeRestore for any volumes and any bounds: containers never run on   *)
(* data of two moments, the current assignment's never on data older than  *)
(* its restore point, and nothing takes back what they wrote, as long as   *)
(* nothing went past the decision.  Basics holds whatever went past it;    *)
(* Sound holds otherwise, and again once the data was moved away.          *)
(***************************************************************************)
EXTENDS VolumeRestore, FiniteSetTheorems, TLAPS

Grant == [uid: Nat, gen: Nat]
Content == [uid: Nat, at: Nat]
Step == {"idle", "ready", "clear", "make", "fetch", "swap", "rename", "mark", "unstage"}

\* The assignment the Agent works for, and the one the server has granted last.
Wanted == GrantOf(listing)
Owned == GrantOf(owner)

\* Assignments in the order they are granted, lifetime by lifetime.
Leq(a, b) == a.uid < b.uid \/ (a.uid = b.uid /\ a.gen <= b.gen)

Here(r) == r.here
StagingLeft == staging

Restoring == {"clear", "make", "fetch", "swap", "rename", "mark"}

\* The data of the granted assignment is in place and is not being replaced.
Settled == marker.of = Owned /\ ~StagingLeft /\ placing.pc \in {"idle", "ready"}

\* What the marker says was restored.
Held == [uid |-> marker.of.uid, at |-> marker.from]

Uniform == \A v, w \in Mount : volume[v] = volume[w]

RecordShape(r) ==
  /\ DOMAIN r = {"uid", "gen", "here", "committed", "base"}
  /\ r.uid \in Nat /\ r.uid # 0 /\ r.gen \in Nat /\ r.committed \in Nat /\ r.base \in Nat
  /\ r.committed <= clock

Job == [pc: Step, of: Grant, from: Nat, todo: SUBSET Mount, done: SUBSET Mount]

DiskType ==
  /\ volume \in [Mount -> Content] /\ aside \in [Mount -> Content]
  /\ marker \in [of: Grant, from: Nat]
  /\ placing \in Job
  /\ \A v \in Mount : volume[v].at <= clock /\ aside[v].at <= clock

RecordType ==
  /\ RecordShape(owner) /\ RecordShape(listing) /\ clock \in Nat
  /\ serving \in Grant /\ wrote \in [of: Grant, at: Nat]

Order ==
  /\ Leq(Wanted, Owned) /\ Leq(marker.of, Wanted) /\ Leq(wrote.of, Wanted) /\ Leq(serving, Wanted)
  /\ marker.of = NoGrant => marker.from = 0

ServerBasic ==
  /\ Here(owner) => debt = NoGrant /\ owner.gen # 0
  /\ owner.gen = 0 => owner.committed = 0
  /\ owner.gen \in {0, 1} => owner.base = 0
  /\ Wanted = Owned => listing.base = owner.base

\* The Agent takes no new listing while it places data.
JobBasic ==
  placing.pc # "idle" =>
    /\ placing.of = Wanted /\ Here(listing)
    /\ placing.from # 0 => placing.from = listing.committed

Basics == RecordType /\ DiskType /\ Order /\ ServerBasic /\ JobBasic

\* The server's record and the Agent's copy of it: while the assignment stands they name
\* the same restore point, unless its data is settled, and none before it was granted.
ServerSound == Here(owner) =>
  /\ owner.base <= owner.committed
  /\ Wanted = Owned =>
       /\ Here(listing) /\ listing.base <= listing.committed
       /\ listing.committed = owner.committed \/ Settled

\* What a marker of the wanted assignment says of the volumes.
Agree == marker.of = Wanted =>
  \A v, w \in Mount : \/ volume[v] = volume[w]
                      \/ marker.from # 0 /\ (volume[v] = Empty \/ volume[w] = Empty)

\* A restore that runs again brings back what the marker names already.
Again == (marker.of = Wanted /\ (StagingLeft \/ placing.pc \in Restoring)) =>
  /\ marker.from # 0
  /\ \A v \in Mount : volume[v] \in {Empty, Held} /\ aside[v] \in {Empty, Held}
  /\ Here(listing) => listing.committed = marker.from

First == (marker.of = Wanted /\ marker.from = 0) => Wanted.gen = 1

Fresher == (Here(owner) /\ marker.of = Owned) =>
  \A v \in Mount : volume[v] = Empty \/ (volume[v].uid = owner.uid /\ volume[v].at >= owner.base)

Swapped(v) == volume[v] = Staged

\* The placement at work.
JobSound ==
  /\ placing.pc \notin {"idle", "ready"} => serving = NoGrant
  /\ placing.pc \in Restoring \ {"mark"} => placing.from # 0
  /\ placing.pc \in {"clear", "make", "fetch"} => placing.done = {}
  /\ placing.pc \in {"swap", "rename"} => placing.todo \union placing.done = Mount
  /\ placing.pc = "swap" => \A v \in placing.done : Swapped(v)
  /\ placing.pc = "rename" => \E w \in placing.done : \A v \in placing.done \ {w} : Swapped(v)
  /\ (placing.pc \in {"mark", "unstage"} /\ placing.from # 0) =>
       \A v \in Mount : Swapped(v) /\ aside[v] = Empty
  /\ (placing.pc \in {"mark", "unstage"} /\ placing.from = 0) =>
       ~StagingLeft /\ placing.of.gen = 1 /\ \A v \in Mount : volume[v] = Empty
  /\ (placing.pc = "mark" /\ placing.from = 0) => marker = NoMarker
  /\ placing.pc = "unstage" => marker.of = placing.of /\ marker.from = placing.from

InPlace == ~StagingLeft /\ Uniform /\ (marker.from = 0 \/ \A v \in Mount : HasData(v))

ReadySound == placing.pc = "ready" => marker.of = Wanted /\ InPlace

ServingSound == serving # NoGrant => marker.of = serving /\ InPlace /\ loose = {}

KeptSound == (Here(owner) /\ wrote.of = Owned) =>
  Settled /\ \A v \in Mount : volume[v].at = wrote.at

MarkerSound == Agree /\ Again /\ First /\ Fresher

Sound == ServerSound /\ MarkerSound /\ JobSound /\ ReadySound /\ ServingSound /\ KeptSound

\* The invariant where nothing went past the decision, and wherever it did.
Whole == Basics /\ Sound

PlaceInv == Basics /\ (amiss = {} => Sound)

------------------------------------------------------------------------------
(* The order of assignments.                                               *)

LEMMA GrantFacts ==
  ASSUME RecordType
  PROVE  /\ Wanted \in Grant /\ Owned \in Grant /\ Wanted # NoGrant /\ Owned # NoGrant
         /\ Wanted.uid = listing.uid /\ Owned.uid = owner.uid
         /\ Wanted.gen = listing.gen /\ Owned.gen = owner.gen
  BY DEF RecordType, RecordShape, Wanted, Owned, GrantOf, Grant, NoGrant

LEMMA OrderFacts ==
  /\ \A a, b \in Grant : Leq(a, b) /\ Leq(b, a) => a = b
  /\ \A a, b, c \in Grant : Leq(a, b) /\ Leq(b, c) => Leq(a, c)
  /\ \A a \in Grant : Leq(a, a) /\ Leq(NoGrant, a)
<1>1. \A a, b \in Grant : Leq(a, b) /\ Leq(b, a) => a = b
  BY DEF Grant, Leq
<1>2. \A a, b, c \in Grant : Leq(a, b) /\ Leq(b, c) => Leq(a, c)
  BY DEF Grant, Leq
<1>3. \A a \in Grant : Leq(a, a) /\ Leq(NoGrant, a)
  BY DEF Grant, Leq, NoGrant
<1> QED
  BY <1>1, <1>2, <1>3

\* What is of the granted assignment is of the wanted one.
LEMMA OwnedIsWanted ==
  ASSUME Basics
  PROVE  /\ marker.of = Owned => Wanted = Owned
         /\ wrote.of = Owned => Wanted = Owned
         /\ serving = Owned => Wanted = Owned
<1>1. marker.of \in Grant /\ wrote.of \in Grant /\ serving \in Grant
  BY DEF Basics, RecordType, DiskType
<1> QED
  BY <1>1, GrantFacts, OrderFacts DEF Basics, Order

LEMMA NotBothEmpty == \A u \in Nat, t \in Nat : t # 0 => [uid |-> u, at |-> t] # Empty
  BY DEF Empty

LEMMA Blank ==
  /\ NoMarker \in [of: Grant, from: Nat] /\ NoMarker.of = NoGrant /\ NoMarker.from = 0
  /\ NoGrant \in Grant /\ Empty \in Content /\ Empty.at = 0
  /\ IdleJob \in Job /\ IdleJob.pc = "idle" /\ IdleJob.from = 0
  BY DEF NoMarker, NoGrant, Grant, Empty, Content, IdleJob, Job, Step

------------------------------------------------------------------------------
(* What holds whatever went past the decision.                             *)

\* The placement moves: it stays what the listing asks for, and so does the marker.
LEMMA BasicJob ==
  ASSUME Basics, UNCHANGED <<owner, debt, listing, clock, wrote>>, placing' \in Job,
         serving' \in Grant, Leq(serving', Wanted),
         placing'.pc # "idle" => /\ placing'.of = Wanted /\ Here(listing)
                                 /\ placing'.from # 0 => placing'.from = listing.committed,
         volume' \in [Mount -> Content], aside' \in [Mount -> Content],
         \A v \in Mount : volume'[v].at <= clock /\ aside'[v].at <= clock,
         \/ UNCHANGED marker
         \/ marker' \in [of: Grant, from: Nat] /\ marker'.of = Wanted
  PROVE  Basics'
<1>1. /\ Wanted' = Wanted /\ Owned' = Owned /\ (Here(owner)' <=> Here(owner))
      /\ (Here(listing)' <=> Here(listing))
  BY DEF Wanted, Owned, GrantOf, Here
<1>2. RecordType'
  BY DEF Basics, RecordType, RecordShape
<1>3. DiskType'
  BY DEF Basics, DiskType
<1>4. Order'
  <2>1. Wanted \in Grant /\ Wanted # NoGrant
    BY GrantFacts DEF Basics
  <2> QED
    BY <1>1, <2>1, OrderFacts DEF Basics, Order
<1>5. ServerBasic' /\ JobBasic'
  BY <1>1 DEF Basics, ServerBasic, JobBasic
<1> QED
  BY <1>2, <1>3, <1>4, <1>5 DEF Basics

LEMMA BasicFacts ==
  ASSUME Basics
  PROVE  /\ placing \in Job /\ clock \in Nat /\ serving \in Grant /\ Leq(serving, Wanted)
         /\ volume \in [Mount -> Content] /\ aside \in [Mount -> Content]
         /\ \A v \in Mount : volume[v].at <= clock /\ aside[v].at <= clock
         /\ listing.committed \in Nat /\ listing.committed <= clock
         /\ Wanted \in Grant /\ Leq(Wanted, Wanted) /\ Leq(NoGrant, Wanted) /\ Wanted # NoGrant
<1>1. Wanted \in Grant /\ Wanted # NoGrant
  BY GrantFacts DEF Basics
<1> QED
  BY <1>1, OrderFacts DEF Basics, RecordType, DiskType, Order, RecordShape

\* Every step of the placement.
LEMMA BasicPlacement ==
  ASSUME Basics,
         \/ EnsureVolumeData \/ EnsureNothing \/ ClearStaging \/ MakeStaging \/ FetchAndExtract
         \/ \E v \in Mount : Displace(v) \/ SwapIn(v)
         \/ \E kept, lost : RollBack(kept, lost)
         \/ DropDisplaced \/ WriteMarker \/ RemoveStaging \/ StagingRemains \/ RestoreFails
         \/ StartContainers \/ AgentDies
  PROVE  Basics'
<1> USE BasicFacts, Blank
<1>1. CASE EnsureVolumeData \/ EnsureNothing
  <2>1. /\ Here(listing) /\ UNCHANGED <<volume, aside, marker>>
        /\ UNCHANGED <<owner, debt, listing, serving, clock, wrote>>
    BY <1>1 DEF EnsureVolumeData, EnsureNothing, Disk, JobMoves, JobGoes, RunRestore, InitializeEmpty, Here
  <2>2. \/ placing' = [IdleJob EXCEPT !.pc = "ready", !.of = Wanted]
        \/ placing' = [IdleJob EXCEPT !.pc = "mark", !.of = Wanted]
        \/ placing' = [IdleJob EXCEPT !.pc = "clear", !.of = Wanted, !.from = listing.committed]
    BY <1>1 DEF EnsureVolumeData, EnsureNothing, Proceed, JobMoves, JobGoes, RunRestore, InitializeEmpty, Wanted
  <2>3. /\ placing' \in Job /\ placing'.of = Wanted
        /\ placing'.from = 0 \/ placing'.from = listing.committed
    BY <2>2 DEF IdleJob, Job, Step
  <2> QED
    BY <2>1, <2>3, BasicJob
<1>2. CASE ClearStaging \/ MakeStaging \/ FetchAndExtract \/ RemoveStaging \/ StagingRemains
  <2>1. /\ UNCHANGED <<volume, aside, marker>> /\ placing.pc # "idle"
        /\ UNCHANGED <<owner, debt, listing, serving, clock, wrote>>
    BY <1>2 DEF ClearStaging, MakeStaging, FetchAndExtract, RemoveStaging, StagingRemains, Disk, JobMoves, JobGoes
  <2>2. PICK pc \in Step : \/ placing' = [placing EXCEPT !.pc = pc]
                           \/ placing' = [placing EXCEPT !.pc = pc, !.todo = Mount]
    BY <1>2 DEF ClearStaging, MakeStaging, FetchAndExtract, RemoveStaging, StagingRemains, JobMoves, JobGoes, Step
  <2>3. placing' \in Job /\ placing'.of = placing.of /\ placing'.from = placing.from
    BY <2>2 DEF Job
  <2> QED
    BY <2>1, <2>3, BasicJob DEF Basics, JobBasic
<1>3. ASSUME NEW v \in Mount, Displace(v)
      PROVE  Basics'
  <2>1. /\ placing.pc = "swap" /\ UNCHANGED marker
        /\ placing' = [placing EXCEPT !.pc = "rename", !.todo = placing.todo \ {v}, !.done = placing.done \union {v}]
        /\ aside' = [aside EXCEPT ![v] = volume[v]] /\ volume' = [volume EXCEPT ![v] = Empty]
        /\ UNCHANGED <<owner, debt, listing, serving, clock, wrote>>
    BY <1>3 DEF Displace, JobGoes
  <2>2. placing' \in Job /\ placing'.of = placing.of /\ placing'.from = placing.from
    BY <2>1 DEF Job, Step
  <2>3. /\ volume' \in [Mount -> Content] /\ aside' \in [Mount -> Content]
        /\ \A w \in Mount : volume'[w].at <= clock /\ aside'[w].at <= clock
    BY <2>1
  <2> QED
    BY <2>1, <2>2, <2>3, BasicJob DEF Basics, JobBasic
<1>4. ASSUME NEW v \in Mount, SwapIn(v)
      PROVE  Basics'
  <2>1. /\ placing.pc = "rename" /\ UNCHANGED <<marker, aside>>
        /\ placing' = [placing EXCEPT !.pc = "swap"] /\ volume' = [volume EXCEPT ![v] = Staged]
        /\ UNCHANGED <<owner, debt, listing, serving, clock, wrote>>
    BY <1>4 DEF SwapIn, JobMoves, JobGoes
  <2>2. /\ placing' \in Job /\ placing'.of = placing.of /\ placing'.from = placing.from
        /\ placing.of \in Grant /\ placing.from \in Nat
    BY <2>1 DEF Job, Step
  <2>3. Staged \in Content /\ Staged.at <= clock
    BY <2>1, <2>2 DEF Staged, Content, Grant, Basics, JobBasic
  <2>4. volume' \in [Mount -> Content] /\ \A w \in Mount : volume'[w].at <= clock
    BY <2>1, <2>3
  <2> QED
    BY <2>1, <2>2, <2>4, BasicJob DEF Basics, JobBasic
<1>5. ASSUME NEW kept, NEW lost, RollBack(kept, lost)
      PROVE  Basics'
  <2>1. /\ UNCHANGED marker /\ placing' = IdleJob
        /\ UNCHANGED <<owner, debt, listing, serving, clock, wrote>>
        /\ volume' = [v \in Mount |-> IF v \notin placing.done THEN volume[v]
                                      ELSE IF v \in kept THEN volume[v]
                                      ELSE IF v \in lost THEN Empty ELSE aside[v]]
        /\ aside' = [v \in Mount |-> IF v \in placing.done \ (kept \union lost) THEN Empty ELSE aside[v]]
    BY <1>5 DEF RollBack, JobMoves, JobGoes
  <2>2. volume' \in [Mount -> Content] /\ aside' \in [Mount -> Content]
    BY <2>1
  <2>3. \A v \in Mount : volume'[v].at <= clock /\ aside'[v].at <= clock
    <3>1. \A v \in Mount : volume'[v] \in {volume[v], aside[v], Empty} /\ aside'[v] \in {aside[v], Empty}
      BY <2>1
    <3> QED
      BY <3>1
  <2> QED
    BY <2>1, <2>2, <2>3, BasicJob
<1>6. CASE DropDisplaced \/ RestoreFails \/ AgentDies
  <2>1. /\ UNCHANGED <<volume, marker>> /\ UNCHANGED <<owner, debt, listing, serving, clock, wrote>>
        /\ UNCHANGED aside \/ aside' = [v \in Mount |-> Empty]
        /\ \/ placing' = IdleJob
           \/ placing' = [placing EXCEPT !.pc = "mark"] /\ placing.pc # "idle"
    BY <1>6 DEF DropDisplaced, RestoreFails, AgentDies, Disk, JobMoves, JobGoes
  <2>2. \/ placing' = IdleJob
        \/ /\ placing' \in Job /\ placing'.of = placing.of /\ placing'.from = placing.from
           /\ placing.pc # "idle"
    BY <2>1 DEF Job, Step
  <2>3. aside' \in [Mount -> Content] /\ \A v \in Mount : aside'[v].at <= clock
    BY <2>1
  <2> QED
    BY <2>1, <2>2, <2>3, BasicJob DEF Basics, JobBasic
<1>7. CASE WriteMarker
  <2>1. /\ UNCHANGED <<volume, aside>> /\ UNCHANGED <<owner, debt, listing, serving, clock, wrote>>
        /\ placing.pc = "mark" /\ placing' = [placing EXCEPT !.pc = "unstage"]
        /\ marker' = [of |-> placing.of, from |-> placing.from]
    BY <1>7 DEF WriteMarker, JobMoves, JobGoes
  <2>2. /\ placing' \in Job /\ placing'.of = placing.of /\ placing'.from = placing.from
        /\ placing.of \in Grant /\ placing.from \in Nat /\ placing.of = Wanted
    BY <2>1 DEF Job, Step, Basics, JobBasic
  <2>3. marker' \in [of: Grant, from: Nat] /\ marker'.of = Wanted
    BY <2>1, <2>2
  <2> QED
    BY <2>1, <2>2, <2>3, BasicJob DEF Basics, JobBasic
<1>8. CASE StartContainers
  <2>1. /\ UNCHANGED <<volume, aside, marker>> /\ UNCHANGED <<owner, debt, listing, clock, wrote>>
        /\ placing.pc = "ready" /\ placing' = IdleJob /\ serving' \in {placing.of, NoGrant, serving}
    BY <1>8 DEF StartContainers, ReconcileProject
  <2>2. placing.of = Wanted
    BY <2>1 DEF Basics, JobBasic
  <2> QED
    BY <2>1, <2>2, BasicJob
<1> QED
  BY <1>1, <1>2, <1>3, <1>4, <1>5, <1>6, <1>7, <1>8

\* The Agent and the containers.
LEMMA BasicAgent ==
  ASSUME Basics,
         \/ ListAssigned \/ SweepStops \/ SweepStarts \/ SweepForgets \/ Quarantine
         \/ ContainersWrite \/ ContainersStop \/ UNCHANGED restoreVars
  PROVE  Basics'
<1> USE BasicFacts, Blank
<1>1. CASE ListAssigned
  <2>1. /\ placing.pc = "idle" /\ listing' = owner
        /\ UNCHANGED <<owner, debt, volume, aside, marker, placing, serving, clock, wrote>>
    BY <1>1 DEF ListAssigned
  <2>2. /\ Wanted' = Owned /\ Owned' = Owned /\ (Here(owner)' <=> Here(owner))
    BY <2>1 DEF Wanted, Owned, GrantOf, Here
  <2>3. RecordType' /\ DiskType' /\ ServerBasic' /\ JobBasic'
    BY <2>1, <2>2 DEF Basics, RecordType, RecordShape, DiskType, ServerBasic, JobBasic
  <2>4. Order'
    <3>1. marker.of \in Grant /\ wrote.of \in Grant /\ Owned \in Grant
      BY GrantFacts DEF Basics, RecordType, DiskType
    <3> QED
      BY <2>1, <2>2, <3>1, OrderFacts DEF Basics, Order
  <2> QED
    BY <2>3, <2>4 DEF Basics
<1>2. CASE SweepStops \/ SweepStarts \/ SweepForgets \/ ContainersStop \/ UNCHANGED restoreVars
  <2>1. /\ UNCHANGED <<owner, debt, listing, clock, wrote, placing, volume, aside, marker>>
        /\ serving' \in {Wanted, NoGrant, serving}
    BY <1>2 DEF SweepStops, SweepStarts, SweepForgets, ContainersStop, restoreVars, ReconcileProject, Wanted
  <2> QED
    BY <2>1, BasicJob DEF Basics, JobBasic
<1>3. CASE Quarantine
  <2>1. /\ serving' = NoGrant /\ debt' = NoGrant /\ debt # NoGrant
        /\ UNCHANGED <<owner, listing, clock, wrote, placing>>
        /\ \/ volume' = [v \in Mount |-> Empty] /\ marker' = NoMarker /\ aside' = [v \in Mount |-> Empty]
           \/ UNCHANGED <<volume, marker, aside>>
    BY <1>3 DEF Quarantine
  <2>2. /\ Wanted' = Wanted /\ Owned' = Owned /\ (Here(owner)' <=> Here(owner))
        /\ (Here(listing)' <=> Here(listing))
    BY <2>1 DEF Wanted, Owned, GrantOf, Here
  <2>3. /\ volume' \in [Mount -> Content] /\ aside' \in [Mount -> Content]
        /\ \A v \in Mount : volume'[v].at <= clock /\ aside'[v].at <= clock
        /\ marker' = NoMarker \/ UNCHANGED marker
    BY <2>1
  <2>4. RecordType' /\ DiskType'
    BY <2>1, <2>3 DEF Basics, RecordType, RecordShape, DiskType
  <2>5. Order' /\ ServerBasic' /\ JobBasic'
    BY <2>1, <2>2, <2>3 DEF Basics, Order, ServerBasic, JobBasic
  <2> QED
    BY <2>4, <2>5 DEF Basics
<1>4. CASE ContainersWrite
  <2> DEFINE d == [uid |-> serving.uid, at |-> clock + 1]
  <2>1. /\ clock' = clock + 1 /\ wrote' = [of |-> serving, at |-> clock + 1]
        /\ UNCHANGED <<owner, debt, listing, aside, marker, placing, serving>>
    BY <1>4 DEF ContainersWrite
  <2>2. PICK gone : volume' = [v \in Mount |-> IF v \in gone THEN volume[v] ELSE d]
    BY <1>4 DEF ContainersWrite
  <2>3. d \in Content /\ d.at = clock + 1
    BY DEF Content, Grant
  <2> HIDE DEF d
  <2>4. /\ Wanted' = Wanted /\ Owned' = Owned /\ (Here(owner)' <=> Here(owner))
        /\ (Here(listing)' <=> Here(listing))
    BY <2>1 DEF Wanted, Owned, GrantOf, Here
  <2>5. RecordType'
    BY <2>1 DEF Basics, RecordType, RecordShape
  <2>6. DiskType'
    <3>1. volume' \in [Mount -> Content]
      BY <2>2, <2>3
    <3>2. \A v \in Mount : volume[v].at \in Nat /\ aside[v].at \in Nat
      BY DEF Content
    <3>3. \A v \in Mount : volume'[v].at <= clock' /\ aside'[v].at <= clock'
      BY <2>1, <2>2, <2>3, <3>2
    <3> QED
      BY <2>1, <3>1, <3>3 DEF Basics, DiskType
  <2>7. Order' /\ ServerBasic' /\ JobBasic'
    BY <2>1, <2>4 DEF Basics, Order, ServerBasic, JobBasic
  <2> QED
    BY <2>5, <2>6, <2>7 DEF Basics
<1> QED
  BY <1>1, <1>2, <1>3, <1>4

\* What the current assignment restores is not older than when it was granted.
LEMMA HeldIsFresh ==
  ASSUME Whole, Here(owner), marker.of = Owned, marker.from = listing.committed
  PROVE  Held.uid = owner.uid /\ Held.at >= owner.base
<1>1. Wanted = Owned
  BY OwnedIsWanted DEF Whole, Basics, Sound
<1>2. listing.base = owner.base /\ listing.base <= listing.committed
  BY <1>1 DEF Whole, Basics, Sound, ServerBasic, ServerSound
<1>3. Held.uid = owner.uid /\ Held.at = listing.committed
  BY GrantFacts DEF Held, Whole, Basics
<1> QED
  BY <1>2, <1>3

\* The decision.
LEMMA DecideFacts ==
  ASSUME NEW w
  PROVE  /\ Decide(w) = "skip" =>
              ~StagingLeft /\ marker.of = w /\ (marker.from = 0 \/ \A v \in Mount : HasData(v))
         /\ Decide(w) = "init" =>
              ~StagingLeft /\ marker = NoMarker /\ w.gen = 1 /\ \A v \in Mount : volume[v] = Empty
         /\ Decide(w) = "restore" => StagingLeft \/ marker = NoMarker
         /\ (~StagingLeft /\ marker # NoMarker) => Decide(w) \in {"skip", "block"}
  BY DEF Decide, StagingLeft, Matches, HasData

\* A step of the placement leaves the records alone; where the data is settled it stays.
LEMMA JobStep ==
  ASSUME Whole, Basics', UNCHANGED <<owner, debt, listing, clock, wrote>>,
         Settled => Settled' /\ volume' = volume, serving' = NoGrant \/ ServingSound',
         MarkerSound', JobSound', ReadySound'
  PROVE  Sound'
<1>1. Wanted' = Wanted /\ Owned' = Owned /\ (Here(owner)' <=> Here(owner)) /\ (Here(listing)' <=> Here(listing))
  BY DEF Wanted, Owned, GrantOf, Here
<1>2. ServerSound'
  BY <1>1 DEF Whole, Basics, Sound, ServerSound
<1>3. ServingSound'
  BY DEF ServingSound
<1>4. KeptSound'
  BY <1>1 DEF Whole, Basics, Sound, KeptSound
<1> QED
  BY <1>2, <1>3, <1>4 DEF Sound

------------------------------------------------------------------------------
(* The placement, step by step.                                            *)

LEMMA EnsureStep ==
  ASSUME Whole, Basics', EnsureVolumeData
  PROVE  Sound'
<1> DEFINE want == GrantOf(listing)
<1>0. want = Wanted
  BY DEF Wanted
<1>1. /\ placing.pc = "idle" /\ UNCHANGED <<volume, aside, staging, marker, loose>>
      /\ UNCHANGED <<owner, debt, listing, serving, clock, wrote>>
  BY DEF EnsureVolumeData, Disk, JobMoves, JobGoes, RunRestore, InitializeEmpty
<1>2. /\ Wanted \in Grant /\ Wanted # NoGrant /\ marker \in [of: Grant, from: Nat]
      /\ listing.committed \in Nat
  BY GrantFacts DEF Whole, Basics, Sound, DiskType, RecordType, RecordShape
<1>3. /\ Wanted' = Wanted /\ Owned' = Owned /\ (StagingLeft' <=> StagingLeft)
      /\ (Here(listing)' <=> Here(listing)) /\ Held' = Held /\ (Here(owner)' <=> Here(owner))
  BY <1>1 DEF Wanted, Owned, GrantOf, StagingLeft, Here, Held
<1>4. \A v \in Mount : HasData(v)' <=> HasData(v)
  BY <1>1 DEF HasData
<1>5. \/ /\ Decide(want) = "skip" /\ placing' = [IdleJob EXCEPT !.pc = "ready", !.of = want]
      \/ /\ Decide(want) = "init" /\ placing' = [IdleJob EXCEPT !.pc = "mark", !.of = want]
      \/ /\ Decide(want) = "restore" /\ listing.committed # 0
         /\ placing' = [IdleJob EXCEPT !.pc = "clear", !.of = want, !.from = listing.committed]
  BY DEF EnsureVolumeData, Proceed, JobMoves, JobGoes, RunRestore, InitializeEmpty
<1> HIDE DEF want
<1>6. /\ placing'.pc \in {"ready", "mark", "clear"} /\ placing'.of = Wanted
      /\ placing'.pc = "ready" => Decide(want) = "skip" /\ placing'.from = 0
      /\ placing'.pc = "mark" => Decide(want) = "init" /\ placing'.from = 0
      /\ placing'.pc = "clear" => /\ Decide(want) = "restore" /\ placing'.from # 0
                                  /\ placing'.from = listing.committed /\ placing'.done = {}
  BY <1>0, <1>5 DEF IdleJob
<1>8. Agree /\ Again /\ First /\ Fresher
  BY DEF Whole, Basics, Sound, MarkerSound
<1>9. MarkerSound'
  <2>1. Agree' /\ First' /\ Fresher'
    BY <1>1, <1>3, <1>8 DEF Agree, First, Fresher
  <2>2. Again'
    <3> SUFFICES ASSUME marker.of = Wanted, StagingLeft \/ placing'.pc \in Restoring
                 PROVE  StagingLeft
      BY <1>1, <1>3, <1>8 DEF Again
    <3>1. marker # NoMarker
      BY <1>2 DEF NoMarker
    <3> QED
      BY <1>6, <3>1, DecideFacts DEF Restoring
  <2> QED
    BY <2>1, <2>2 DEF MarkerSound
<1>10. JobSound'
  <2>1. placing'.pc # "ready" => serving' = NoGrant
    <3> SUFFICES ASSUME serving # NoGrant
                 PROVE  placing'.pc = "ready"
      BY <1>1
    <3>1. ~StagingLeft /\ marker # NoMarker
      BY DEF Whole, Basics, Sound, ServingSound, InPlace, NoMarker
    <3> QED
      BY <1>6, <3>1, DecideFacts
  <2>2. placing'.pc = "mark" =>
          ~StagingLeft' /\ placing'.of.gen = 1 /\ marker' = NoMarker /\ \A v \in Mount : volume'[v] = Empty
    BY <1>0, <1>1, <1>3, <1>6, DecideFacts
  <2> QED
    BY <1>1, <1>6, <2>1, <2>2 DEF JobSound, Restoring
<1>11. ReadySound'
  <2> SUFFICES ASSUME placing'.pc = "ready"
               PROVE  (marker.of = Wanted /\ InPlace)'
    BY DEF ReadySound
  <2>1. ~StagingLeft /\ marker.of = Wanted /\ (marker.from = 0 \/ \A v \in Mount : HasData(v))
    BY <1>0, <1>6, DecideFacts
  <2>2. Uniform
    BY <1>8, <2>1 DEF Uniform, Agree, HasData
  <2> QED
    BY <1>1, <1>3, <1>4, <2>1, <2>2 DEF InPlace, Uniform
<1>12. Settled => Settled' /\ volume' = volume
  <2> SUFFICES ASSUME Settled
               PROVE  placing'.pc = "ready"
    BY <1>1, <1>3 DEF Settled
  <2>1. marker # NoMarker /\ ~StagingLeft
    BY <1>2, GrantFacts DEF Whole, Basics, Sound, Settled, NoMarker
  <2> QED
    BY <1>6, <2>1, DecideFacts
<1>13. ServingSound'
  BY <1>1, <1>3, <1>4 DEF Whole, Basics, Sound, ServingSound, InPlace, Uniform
<1> QED
  BY <1>1, <1>9, <1>10, <1>11, <1>12, <1>13, JobStep

\* The facts every later step of the placement starts from.
LEMMA AtWork ==
  ASSUME Whole, placing.pc \notin {"idle", "ready"}, NEW j, JobGoes(j)
  PROVE  /\ placing.of = Wanted /\ Here(listing) /\ serving = NoGrant /\ placing' = j
         /\ UNCHANGED <<owner, debt, listing, serving, clock, wrote>>
         /\ Wanted' = Wanted /\ Owned' = Owned /\ (Here(listing)' <=> Here(listing))
         /\ (Here(owner)' <=> Here(owner)) /\ ~Settled
         /\ Wanted \in Grant /\ Wanted # NoGrant
         /\ placing \in Job
         /\ volume \in [Mount -> Content] /\ aside \in [Mount -> Content]
         /\ Leq(marker.of, Wanted) /\ (marker.of = NoGrant => marker.from = 0)
<1>1. UNCHANGED <<owner, debt, listing, serving, clock, wrote>> /\ placing' = j
  BY DEF JobGoes
<1>2. placing.of = Wanted /\ Here(listing) /\ serving = NoGrant
  BY DEF Whole, Basics, Sound, JobBasic, JobSound
<1>3. /\ Wanted' = Wanted /\ Owned' = Owned /\ (Here(listing)' <=> Here(listing))
      /\ (Here(owner)' <=> Here(owner))
  BY <1>1 DEF Wanted, Owned, GrantOf, Here
<1>4. ~Settled
  BY DEF Settled
<1>5. Wanted \in Grant /\ Wanted # NoGrant
  BY GrantFacts DEF Whole, Basics, Sound
<1>6. /\ placing \in Job
      /\ volume \in [Mount -> Content] /\ aside \in [Mount -> Content]
  BY DEF Whole, Basics, Sound, DiskType
<1>7. Leq(marker.of, Wanted) /\ (marker.of = NoGrant => marker.from = 0)
  BY DEF Whole, Basics, Sound, Order
<1> QED
  BY <1>1, <1>2, <1>3, <1>4, <1>5, <1>6, <1>7

\* While a restore runs, a marker of its assignment names what it brings back.
LEMMA StagedIsHeld ==
  ASSUME Whole, placing.pc \in Restoring, placing.from # 0, marker.of = Wanted
  PROVE  /\ Staged = Held /\ marker.from # 0 /\ marker.from = listing.committed
         /\ \A v \in Mount : volume[v] \in {Empty, Held} /\ aside[v] \in {Empty, Held}
<1>1. /\ marker.from # 0 /\ (Here(listing) => listing.committed = marker.from)
      /\ \A v \in Mount : volume[v] \in {Empty, Held} /\ aside[v] \in {Empty, Held}
  BY DEF Whole, Basics, Sound, MarkerSound, Again
<1>2. placing.of = Wanted /\ Here(listing) /\ placing.from = listing.committed
  BY DEF Whole, Basics, Sound, JobBasic, Restoring
<1> QED
  BY <1>1, <1>2 DEF Staged, Held

\* A step of the restore that puts in place only what it brings back, or nothing.
LEMMA SwapStep ==
  ASSUME Whole, Basics', placing.pc \in Restoring, placing.from # 0, NEW j, JobGoes(j),
         UNCHANGED marker, JobSound', j.pc # "ready",
         marker.of = Wanted =>
           \A v \in Mount : /\ volume'[v] \in {Empty, Held} /\ aside'[v] \in {Empty, Held}
  PROVE  Sound'
<1>1. placing.pc \notin {"idle", "ready"}
  BY DEF Restoring
<1> USE <1>1, AtWork
<1>2. Held' = Held
  BY DEF Held
<1>3. marker.of = Wanted => marker.from # 0 /\ marker.from = listing.committed
  BY StagedIsHeld
<1>4. Agree' /\ Again' /\ First'
  BY <1>2, <1>3 DEF Agree, Again, First
<1>5. Fresher'
  <2> SUFFICES ASSUME Here(owner), marker.of = Owned, NEW v \in Mount
               PROVE  volume'[v] = Empty \/ (volume'[v].uid = owner.uid /\ volume'[v].at >= owner.base)
    BY DEF Fresher
  <2>1. marker.of = Wanted
    BY OwnedIsWanted DEF Whole, Basics, Sound
  <2>2. Held.uid = owner.uid /\ Held.at >= owner.base
    BY <1>3, <2>1, HeldIsFresh
  <2> QED
    BY <2>1, <2>2
<1>6. ReadySound'
  BY DEF ReadySound
<1> QED
  BY <1>4, <1>5, <1>6, JobStep DEF MarkerSound

\* The steps that only prepare: the volumes and what was set aside stay.
LEMMA PrepareStep ==
  ASSUME Whole, Basics', placing.pc \in {"clear", "make", "fetch"}, UNCHANGED <<volume, aside, marker>>,
         NEW j, JobGoes(j),
         \/ j.pc \in {"make", "fetch"} /\ j = [placing EXCEPT !.pc = j.pc]
         \/ j = [placing EXCEPT !.pc = "swap", !.todo = Mount]
  PROVE  Sound'
<1>1. placing.pc \in Restoring /\ placing.pc \notin {"idle", "ready"} /\ placing.from # 0 /\ placing.done = {}
  BY DEF Whole, Basics, Sound, JobSound, Restoring
<1> USE <1>1, AtWork
<1>2. /\ j \in Job
      /\ j.pc \in {"make", "fetch", "swap"} /\ j.of = placing.of /\ j.from = placing.from
      /\ j.done = placing.done
      /\ j.pc = "swap" => j.todo = Mount /\ j.done = {}
  BY DEF Job, Step
<1>4. JobSound'
  BY <1>2 DEF Whole, Basics, Sound, JobSound, Restoring
<1>5. marker.of = Wanted => \A v \in Mount : volume[v] \in {Empty, Held} /\ aside[v] \in {Empty, Held}
  BY StagedIsHeld
<1> QED
  BY <1>2, <1>4, <1>5, SwapStep

LEMMA DisplaceStep ==
  ASSUME Whole, Basics', NEW v \in Mount, Displace(v)
  PROVE  Sound'
<1> DEFINE j == [placing EXCEPT !.pc = "rename", !.todo = placing.todo \ {v}, !.done = placing.done \union {v}]
<1>1. /\ placing.pc = "swap" /\ v \in placing.todo /\ UNCHANGED marker /\ JobGoes(j)
      /\ aside' = [aside EXCEPT ![v] = volume[v]] /\ volume' = [volume EXCEPT ![v] = Empty]
  BY DEF Displace
<1>2. placing.pc \in Restoring /\ placing.pc \notin {"idle", "ready"} /\ placing.from # 0
  BY <1>1 DEF Whole, Basics, Sound, JobSound, Restoring
<1>3. /\ j \in Job
      /\ j.pc = "rename" /\ j.of = placing.of /\ j.from = placing.from
      /\ j.done = placing.done \union {v} /\ j.todo = placing.todo \ {v}
  BY <1>1, <1>2, AtWork DEF Job, Step
<1> HIDE DEF j
<1> USE <1>2, AtWork
<1>6. Staged' = Staged
  BY <1>1, <1>3 DEF Staged
<1>7. \A w \in j.done \ {v} : Swapped(w)'
  BY <1>1, <1>3, <1>6 DEF Whole, Basics, Sound, JobSound, Swapped
<1>8. placing'.todo \union placing'.done = Mount
  BY <1>1, <1>3 DEF Whole, Basics, Sound, JobSound
<1>9. JobSound'
  BY <1>1, <1>3, <1>7, <1>8 DEF Whole, Basics, Sound, JobSound, Restoring
<1>10. marker.of = Wanted =>
         \A w \in Mount : volume'[w] \in {Empty, Held} /\ aside'[w] \in {Empty, Held}
  BY <1>1, StagedIsHeld
<1> QED
  BY <1>1, <1>3, <1>9, <1>10, SwapStep

LEMMA SwapInStep ==
  ASSUME Whole, Basics', NEW v \in Mount, SwapIn(v)
  PROVE  Sound'
<1> DEFINE j == [placing EXCEPT !.pc = "swap"]
<1>1. /\ placing.pc = "rename" /\ v \in placing.done /\ volume[v] = Empty /\ UNCHANGED marker
      /\ JobGoes(j) /\ UNCHANGED aside /\ volume' = [volume EXCEPT ![v] = Staged]
  BY DEF SwapIn, JobMoves
<1>2. placing.pc \in Restoring /\ placing.pc \notin {"idle", "ready"} /\ placing.from # 0
  BY <1>1 DEF Whole, Basics, Sound, JobSound, Restoring
<1>3. /\ j \in Job
      /\ j.pc = "swap" /\ j.of = placing.of /\ j.from = placing.from
      /\ j.done = placing.done /\ j.todo = placing.todo
  BY <1>1, <1>2, AtWork DEF Job, Step
<1> HIDE DEF j
<1> USE <1>2, AtWork
<1>4. Staged # Empty
  <2>1. placing.of.uid \in Nat /\ placing.from \in Nat /\ placing.from = listing.committed
    BY <1>1 DEF Whole, Basics, Sound, JobBasic, Job, Grant
  <2> QED
    BY <2>1, NotBothEmpty DEF Staged
<1>6. Staged' = Staged
  BY <1>1, <1>3 DEF Staged
<1>7. \A w \in placing.done : Swapped(w)'
  <2>1. PICK x \in placing.done : \A w \in placing.done \ {x} : volume[w] = Staged
    BY <1>1 DEF Whole, Basics, Sound, JobSound, Swapped
  <2>2. x = v
    BY <1>1, <1>4, <2>1
  <2> QED
    BY <1>1, <1>6, <2>1, <2>2 DEF Swapped
<1>8. placing'.todo \union placing'.done = Mount
  BY <1>1, <1>3 DEF Whole, Basics, Sound, JobSound
<1>9. JobSound'
  BY <1>1, <1>3, <1>7, <1>8 DEF Whole, Basics, Sound, JobSound, Restoring
<1>10. marker.of = Wanted =>
         \A w \in Mount : volume'[w] \in {Empty, Held} /\ aside'[w] \in {Empty, Held}
  BY <1>1, StagedIsHeld
<1> QED
  BY <1>1, <1>3, <1>9, <1>10, SwapStep

\* Whatever is put back or lost is what was there, what came in, or nothing.
LEMMA RollBackStep ==
  ASSUME Whole, Basics', NEW kept, NEW lost, RollBack(kept, lost)
  PROVE  Sound'
<1>1. /\ placing.pc = "rename" /\ UNCHANGED marker /\ JobGoes(IdleJob)
      /\ volume' = [v \in Mount |-> IF v \notin placing.done THEN volume[v]
                                ELSE IF v \in kept THEN volume[v]
                                ELSE IF v \in lost THEN Empty ELSE aside[v]]
      /\ aside' = [v \in Mount |-> IF v \in placing.done \ (kept \union lost) THEN Empty ELSE aside[v]]
  BY DEF RollBack, JobMoves
<1>2. placing.pc \in Restoring /\ placing.pc \notin {"idle", "ready"} /\ placing.from # 0
  BY <1>1 DEF Whole, Basics, Sound, JobSound, Restoring
<1> USE <1>2, AtWork
<1>3. IdleJob.pc = "idle" /\ IdleJob.from = 0
  BY Blank
<1>5. \A v \in Mount : volume'[v] \in {volume[v], aside[v], Empty} /\ aside'[v] \in {aside[v], Empty}
  BY <1>1
<1>7. JobSound'
  BY <1>1, <1>3 DEF JobSound, Restoring
<1>8. marker.of = Wanted =>
         \A w \in Mount : volume'[w] \in {Empty, Held} /\ aside'[w] \in {Empty, Held}
  BY <1>5, StagedIsHeld
<1> QED
  BY <1>1, <1>3, <1>7, <1>8, SwapStep

LEMMA DropStep ==
  ASSUME Whole, Basics', DropDisplaced
  PROVE  Sound'
<1> DEFINE j == [placing EXCEPT !.pc = "mark"]
<1>1. /\ placing.pc = "swap" /\ placing.todo = {} /\ UNCHANGED <<volume, marker>>
      /\ JobGoes(j) /\ aside' = [v \in Mount |-> Empty]
  BY DEF DropDisplaced, JobMoves
<1>2. placing.pc \in Restoring /\ placing.pc \notin {"idle", "ready"} /\ placing.from # 0
  BY <1>1 DEF Whole, Basics, Sound, JobSound, Restoring
<1>3. /\ j \in Job
      /\ j.pc = "mark" /\ j.of = placing.of /\ j.from = placing.from
  BY <1>1, <1>2, AtWork DEF Job, Step
<1> HIDE DEF j
<1> USE <1>2, AtWork
<1>6. Staged' = Staged
  BY <1>1, <1>3 DEF Staged
<1>7. \A v \in Mount : Swapped(v)'
  <2>1. placing.done = Mount
    BY <1>1 DEF Whole, Basics, Sound, JobSound
  <2> QED
    BY <1>1, <1>6, <2>1 DEF Whole, Basics, Sound, JobSound, Swapped
<1>8. JobSound'
  BY <1>1, <1>3, <1>7 DEF Whole, Basics, Sound, JobSound, Restoring
<1>9. marker.of = Wanted =>
         \A w \in Mount : volume'[w] \in {Empty, Held} /\ aside'[w] \in {Empty, Held}
  BY <1>1, StagedIsHeld
<1> QED
  BY <1>1, <1>3, <1>8, <1>9, SwapStep

\* The volumes are in place when the marker says so.
LEMMA MarkStep ==
  ASSUME Whole, Basics', WriteMarker
  PROVE  Sound'
<1> DEFINE j == [placing EXCEPT !.pc = "unstage"]
<1>1. /\ placing.pc = "mark" /\ marker' = [of |-> placing.of, from |-> placing.from]
      /\ JobGoes(j) /\ UNCHANGED <<volume, aside, staging>>
  BY DEF WriteMarker, JobMoves
<1>2. placing.pc \notin {"idle", "ready"}
  BY <1>1
<1>3. /\ j \in Job
      /\ j.pc = "unstage" /\ j.of = placing.of /\ j.from = placing.from
  BY <1>1, <1>2, AtWork DEF Job, Step
<1> HIDE DEF j
<1> USE <1>2, AtWork
<1>4. marker' \in [of: Grant, from: Nat] /\ marker'.of = Wanted /\ marker'.from = placing.from
  BY <1>1 DEF Job
<1>6. Staged' = Staged /\ (StagingLeft' <=> StagingLeft)
  BY <1>1, <1>3 DEF Staged, StagingLeft
<1>7. /\ placing.from # 0 => \A v \in Mount : volume[v] = Staged /\ aside[v] = Empty
      /\ placing.from = 0 => /\ ~StagingLeft /\ placing.of.gen = 1 /\ \A v \in Mount : volume[v] = Empty
      /\ placing.from # 0 => placing.from = listing.committed
  BY <1>1 DEF Whole, Basics, Sound, JobBasic, JobSound, Swapped
<1>8. JobSound'
  BY <1>1, <1>3, <1>4, <1>6, <1>7 DEF Whole, Basics, Sound, JobSound, Restoring, Swapped
<1>9. Staged.uid = Wanted.uid /\ Staged.at = placing.from /\ Held' = Staged
  BY <1>1, <1>4 DEF Staged, Held
<1>10. Agree'
  BY <1>1, <1>4, <1>7 DEF Agree
<1>11. Again'
  BY <1>1, <1>3, <1>4, <1>6, <1>7, <1>9 DEF Again, Restoring
<1>12. First'
  BY <1>1, <1>4, <1>7 DEF First
<1>13. Fresher'
  <2> SUFFICES ASSUME Here(owner), Wanted = Owned, NEW v \in Mount, placing.from # 0
               PROVE  volume[v].uid = owner.uid /\ volume[v].at >= owner.base
    BY <1>1, <1>4, <1>7 DEF Fresher
  <2>1. volume[v].uid = Owned.uid /\ volume[v].at = listing.committed
    BY <1>7, <1>9
  <2>2. listing.base = owner.base /\ listing.base <= listing.committed /\ Owned.uid = owner.uid
    BY GrantFacts DEF Whole, Basics, Sound, ServerBasic, ServerSound
  <2> QED
    BY <2>1, <2>2
<1>14. ReadySound'
  BY <1>1, <1>3 DEF ReadySound
<1> QED
  BY <1>1, <1>8, <1>10, <1>11, <1>12, <1>13, <1>14, JobStep DEF MarkerSound

LEMMA UnstageStep ==
  ASSUME Whole, Basics', RemoveStaging
  PROVE  Sound'
<1> DEFINE j == [placing EXCEPT !.pc = "ready"]
<1>1. /\ placing.pc = "unstage" /\ JobGoes(j) /\ UNCHANGED <<volume, aside, marker>>
  BY DEF RemoveStaging, JobMoves
<1>2. placing.pc \notin {"idle", "ready"}
  BY <1>1
<1>3. /\ j \in Job
      /\ j.pc = "ready" /\ j.of = placing.of /\ j.from = placing.from
  BY <1>1, <1>2, AtWork DEF Job, Step
<1> HIDE DEF j
<1> USE <1>2, AtWork
<1>4. ~StagingLeft'
  BY Zenon DEF RemoveStaging, StagingLeft
<1>6. JobSound'
  BY <1>1, <1>3 DEF Whole, Basics, Sound, JobSound, Restoring
<1>7. MarkerSound'
  BY <1>1, <1>3, <1>4 DEF Whole, Basics, Sound, MarkerSound, Agree, Again, First, Fresher, Restoring
<1>8. /\ marker.of = placing.of /\ marker.from = placing.from
      /\ placing.from # 0 => \A v \in Mount : volume[v] = Staged
      /\ placing.from = 0 => \A v \in Mount : volume[v] = Empty
      /\ placing.from \in Nat /\ placing.of.uid \in Nat
  BY <1>1 DEF Whole, Basics, Sound, JobSound, Swapped, Job, Grant
<1>9. placing.from # 0 => Staged # Empty
  BY <1>8, NotBothEmpty DEF Staged
<1>10. ReadySound'
  <2>1. Uniform'
    BY <1>1, <1>8 DEF Uniform
  <2>2. marker'.from = 0 \/ \A v \in Mount : HasData(v)'
    BY <1>1, <1>8, <1>9 DEF HasData
  <2> QED
    BY <1>1, <1>4, <1>8, <2>1, <2>2 DEF ReadySound, InPlace
<1> QED
  BY <1>1, <1>6, <1>7, <1>10, JobStep

\* The placement ends where it is: what it left on disk is sound without it.
LEMMA GivenUp ==
  ASSUME Whole, Basics', placing' = IdleJob, serving' = NoGrant \/ ServingSound',
         UNCHANGED <<owner, debt, listing, clock, wrote, volume, marker, staging>>,
         UNCHANGED aside \/ aside' = [v \in Mount |-> Empty]
  PROVE  Sound'
<1>1. IdleJob.pc = "idle" /\ IdleJob.from = 0
  BY Blank
<1>2. /\ Wanted' = Wanted /\ Owned' = Owned /\ (StagingLeft' <=> StagingLeft)
      /\ (Here(listing)' <=> Here(listing)) /\ Held' = Held /\ (Here(owner)' <=> Here(owner))
  BY DEF Wanted, Owned, GrantOf, StagingLeft, Here, Held
<1>3. \A v \in Mount : aside'[v] = aside[v] \/ aside'[v] = Empty
  OBVIOUS
<1>4. MarkerSound'
  BY <1>1, <1>2, <1>3 DEF Whole, Basics, Sound, MarkerSound, Agree, Again, First, Fresher, Restoring
<1>5. JobSound' /\ ReadySound'
  BY <1>1 DEF JobSound, ReadySound, Restoring
<1>6. Settled => Settled' /\ volume' = volume
  BY <1>1, <1>2 DEF Settled
<1> QED
  BY <1>4, <1>5, <1>6, JobStep

------------------------------------------------------------------------------
(* The Agent and the containers.                                           *)

\* Containers start, or do not, where the data is in place for them.
LEMMA Started ==
  ASSUME Whole, UNCHANGED <<volume, staging, marker>>, NEW w, w # NoGrant, ReconcileProject(w),
         serving' = w => marker.of = w /\ InPlace
  PROVE  ServingSound'
<1>1. InPlace' <=> InPlace
  BY DEF InPlace, StagingLeft, Uniform, HasData
<1>2. /\ serving = NoGrant => serving' \in {w, NoGrant} /\ loose' = {}
      /\ serving # NoGrant => serving' \in {w, NoGrant, serving} /\ loose' = loose
  BY DEF ReconcileProject
<1> QED
  BY <1>1, <1>2 DEF Whole, Basics, Sound, ServingSound

LEMMA StartStep ==
  ASSUME Whole, Basics', StartContainers
  PROVE  Sound'
<1>1. /\ placing.pc = "ready" /\ placing' = IdleJob /\ ReconcileProject(placing.of)
      /\ UNCHANGED <<owner, debt, listing, volume, aside, staging, marker, clock, wrote>>
  BY DEF StartContainers
<1>2. placing.of = Wanted /\ marker.of = Wanted /\ InPlace /\ Wanted # NoGrant
  BY <1>1, GrantFacts DEF Whole, Basics, Sound, JobBasic, ReadySound
<1>3. ServingSound'
  BY <1>1, <1>2, Started
<1> QED
  BY <1>1, <1>3, GivenUp

\* Only which containers run changes.
LEMMA Quiet ==
  ASSUME Whole, Basics', UNCHANGED <<owner, debt, listing, volume, aside, staging, marker, placing, clock, wrote>>,
         placing.pc = "idle" \/ serving' \in {NoGrant, serving}, serving' = NoGrant \/ ServingSound'
  PROVE  Sound'
<1>1. /\ Wanted' = Wanted /\ Owned' = Owned /\ (StagingLeft' <=> StagingLeft) /\ Held' = Held
      /\ (Here(listing)' <=> Here(listing)) /\ (Here(owner)' <=> Here(owner)) /\ (Settled' <=> Settled)
      /\ (InPlace' <=> InPlace) /\ Staged' = Staged /\ \A v : Swapped(v)' <=> Swapped(v)
  BY DEF Wanted, Owned, GrantOf, StagingLeft, Here, Settled, Held, InPlace, Uniform, HasData, Swapped, Staged
<1>2. MarkerSound'
  BY <1>1 DEF Whole, Basics, Sound, MarkerSound, Agree, Again, First, Fresher
<1>3. JobSound' /\ ReadySound'
  BY <1>1 DEF Whole, Basics, Sound, JobSound, ReadySound
<1> QED
  BY <1>1, <1>2, <1>3, JobStep

LEMMA StopStep ==
  ASSUME Whole, Basics', ContainersStop \/ SweepStops \/ SweepForgets \/ UNCHANGED restoreVars
  PROVE  Sound'
<1>1. /\ serving' = NoGrant \/ serving' = serving
      /\ UNCHANGED <<owner, debt, listing, volume, aside, staging, marker, placing, clock, wrote, loose>>
  BY DEF ContainersStop, SweepStops, SweepForgets, restoreVars
<1>2. serving' = NoGrant \/ ServingSound'
  BY <1>1 DEF Whole, Basics, Sound, ServingSound, InPlace, StagingLeft, Uniform, HasData
<1> QED
  BY <1>1, <1>2, Quiet

\* The sweep's start that the decision would have let through.
LEMMA SweepStep ==
  ASSUME Whole, Basics', SweepStarts, amiss' = {}
  PROVE  Sound'
<1> DEFINE want == GrantOf(listing)
<1>1. /\ placing.pc = "idle" /\ ReconcileProject(want) /\ (serving' = want => Decide(want) = "skip")
      /\ UNCHANGED <<owner, debt, listing, volume, aside, staging, marker, placing, clock, wrote>>
  BY DEF SweepStarts
<1>2. want = Wanted
  BY DEF Wanted
<1> HIDE DEF want
<1>3. ASSUME serving' = want
      PROVE  marker.of = want /\ InPlace
  <2>1. ~StagingLeft /\ marker.of = want /\ (marker.from = 0 \/ \A v \in Mount : HasData(v))
    BY <1>1, <1>3, DecideFacts
  <2>2. Uniform
    BY <1>2, <2>1 DEF Whole, Basics, Sound, MarkerSound, Uniform, Agree, HasData
  <2> QED
    BY <2>1, <2>2 DEF InPlace
<1>4. want # NoGrant
  BY <1>2, GrantFacts DEF Whole, Basics, Sound
<1>5. ServingSound'
  BY <1>1, <1>3, <1>4, Started
<1> QED
  BY <1>1, <1>5, Quiet

\* A new listing names what the server has granted; a marker of that is one of what the
\* Agent wanted before.
LEMMA ListStep ==
  ASSUME Whole, Basics', ListAssigned
  PROVE  Sound'
<1>1. /\ placing.pc = "idle" /\ listing' = owner
      /\ UNCHANGED <<owner, debt, volume, aside, staging, marker, placing, serving, loose, clock, wrote>>
  BY DEF ListAssigned
<1>2. /\ Wanted' = Owned /\ Owned' = Owned /\ (StagingLeft' <=> StagingLeft)
      /\ (Here(listing)' <=> Here(owner)) /\ (Here(owner)' <=> Here(owner)) /\ Held' = Held
      /\ (InPlace' <=> InPlace) /\ (Settled' <=> Settled)
  BY <1>1 DEF Wanted, Owned, GrantOf, StagingLeft, Here, Held, InPlace, Uniform, HasData, Settled
<1>3. marker.of = Owned => Wanted = Owned
  BY OwnedIsWanted DEF Whole, Basics, Sound
<1>4. ServerSound'
  BY <1>1, <1>2 DEF Whole, Basics, Sound, ServerSound
<1>5. Again'
  <2> SUFFICES ASSUME marker.of = Owned, StagingLeft
               PROVE  /\ marker.from # 0
                      /\ \A v \in Mount : volume[v] \in {Empty, Held} /\ aside[v] \in {Empty, Held}
                      /\ Here(owner) => owner.committed = marker.from
    BY <1>1, <1>2 DEF Again, Restoring
  <2>1. ~Settled /\ Wanted = Owned
    BY <1>3 DEF Settled
  <2>2. Again /\ ServerSound
    BY DEF Whole, Basics, Sound, MarkerSound
  <2> QED
    BY <2>1, <2>2 DEF Again, ServerSound
<1>6. Agree' /\ First' /\ Fresher'
  BY <1>1, <1>2, <1>3 DEF Whole, Basics, Sound, MarkerSound, Agree, First, Fresher
<1>7. JobSound' /\ ReadySound'
  BY <1>1 DEF Whole, Basics, Sound, JobSound, ReadySound, Restoring
<1>8. ServingSound' /\ KeptSound'
  BY <1>1, <1>2 DEF Whole, Basics, Sound, ServingSound, KeptSound
<1> QED
  BY <1>4, <1>5, <1>6, <1>7, <1>8 DEF Sound, MarkerSound

\* With the data moved away nothing is left of what went past the decision.
LEMMA QuarantineStep ==
  ASSUME PlaceInv, Basics', Quarantine, amiss' = {}
  PROVE  Sound'
<1>1. /\ debt # NoGrant /\ placing.pc = "idle" /\ serving' = NoGrant
      /\ UNCHANGED <<owner, listing, staging, placing, clock, wrote>>
      /\ \/ marker' = NoMarker
         \/ UNCHANGED <<volume, marker, aside, amiss>>
  BY DEF Quarantine
<1>2. ~Here(owner)
  BY <1>1 DEF PlaceInv, Basics, ServerBasic
<1>3. /\ Wanted' = Wanted /\ Owned' = Owned /\ (StagingLeft' <=> StagingLeft)
      /\ (Here(listing)' <=> Here(listing)) /\ (Here(owner)' <=> Here(owner))
  BY <1>1 DEF Wanted, Owned, GrantOf, StagingLeft, Here
<1>4. Wanted # NoGrant /\ Owned # NoGrant
  BY GrantFacts DEF PlaceInv, Basics
<1>5. ServerSound' /\ JobSound' /\ ReadySound' /\ ServingSound' /\ KeptSound'
  BY <1>1, <1>2, <1>3 DEF ServerSound, JobSound, ReadySound, ServingSound, KeptSound, Restoring
<1>6. MarkerSound'
  <2>1. CASE marker' = NoMarker
    BY <1>3, <1>4, <2>1, Blank DEF MarkerSound, Agree, Again, First, Fresher
  <2>2. CASE UNCHANGED <<volume, marker, aside, amiss>>
    <3>1. Held' = Held
      BY <2>2 DEF Held
    <3>2. MarkerSound
      BY <2>2 DEF PlaceInv, Sound
    <3> QED
      BY <1>1, <1>3, <2>2, <3>1, <3>2 DEF MarkerSound, Agree, Again, First, Fresher
  <2> QED
    BY <1>1, <2>1, <2>2
<1> QED
  BY <1>5, <1>6 DEF Sound

LEMMA WriteStep ==
  ASSUME Whole, Basics', ContainersWrite
  PROVE  Sound'
<1> DEFINE d == [uid |-> serving.uid, at |-> clock + 1]
<1>1. /\ serving # NoGrant /\ clock' = clock + 1 /\ wrote' = [of |-> serving, at |-> clock + 1]
      /\ UNCHANGED <<owner, debt, listing, aside, staging, marker, placing, serving, loose>>
  BY DEF ContainersWrite
<1>2. /\ placing.pc \in {"idle", "ready"} /\ marker.of = serving /\ ~StagingLeft /\ clock \in Nat
      /\ serving \in Grant /\ loose = {}
  BY <1>1 DEF Whole, Basics, Sound, ServingSound, JobSound, InPlace, RecordType
<1>3. volume' = [v \in Mount |-> d]
  <2>1. PICK gone \in SUBSET loose : volume' = [v \in Mount |-> IF v \in gone THEN volume[v] ELSE d]
    BY DEF ContainersWrite
  <2> HIDE DEF d
  <2> QED
    BY <1>2, <2>1
<1>4. d.at = clock + 1 /\ d.uid = serving.uid /\ d # Empty
  BY <1>2, NotBothEmpty DEF Grant
<1> HIDE DEF d
<1>5. /\ Wanted' = Wanted /\ Owned' = Owned /\ (StagingLeft' <=> StagingLeft)
      /\ (Here(listing)' <=> Here(listing)) /\ (Here(owner)' <=> Here(owner)) /\ (Settled' <=> Settled)
  BY <1>1 DEF Wanted, Owned, GrantOf, StagingLeft, Here, Settled
<1>6. ServerSound'
  BY <1>1, <1>5 DEF Whole, Basics, Sound, ServerSound
<1>7. MarkerSound'
  <2>1. Agree' /\ Again' /\ First'
    BY <1>1, <1>2, <1>3, <1>5 DEF Whole, Basics, Sound, MarkerSound, Agree, Again, First, Restoring
  <2>2. Fresher'
    <3>1. /\ Owned.uid = owner.uid /\ owner.base \in Nat /\ owner.committed \in Nat
          /\ owner.committed <= clock /\ (Here(owner) => owner.base <= owner.committed)
      BY GrantFacts DEF Whole, Basics, Sound, RecordType, RecordShape, ServerSound
    <3>2. Here(owner) => clock + 1 >= owner.base
      BY <1>2, <3>1
    <3> QED
      BY <1>1, <1>2, <1>3, <1>4, <1>5, <3>1, <3>2 DEF Fresher
  <2> QED
    BY <2>1, <2>2 DEF MarkerSound
<1>8. InPlace'
  BY <1>1, <1>2, <1>3, <1>4, <1>5 DEF InPlace, Uniform, HasData
<1>9. JobSound' /\ ReadySound' /\ ServingSound'
  BY <1>1, <1>2, <1>5, <1>8 DEF Whole, Basics, Sound, JobSound, ReadySound, ServingSound, Restoring
<1>10. KeptSound'
  BY <1>1, <1>2, <1>3, <1>4, <1>5 DEF KeptSound, Settled
<1> QED
  BY <1>6, <1>7, <1>9, <1>10 DEF Sound

------------------------------------------------------------------------------
(* The server.                                                             *)

LEMMA BasicServer ==
  ASSUME Basics, UNCHANGED <<listing, volume, aside, marker, placing, serving, wrote>>,
         clock' \in Nat, clock <= clock', RecordShape(owner)', Leq(Owned, Owned'),
         Owned' = Owned => owner'.base = owner.base,
         Here(owner)' => debt' = NoGrant /\ owner'.gen # 0,
         owner'.gen = 0 => owner'.committed = 0,
         owner'.gen \in {0, 1} => owner'.base = 0
  PROVE  Basics'
<1>1. Wanted' = Wanted /\ (Here(listing)' <=> Here(listing))
  BY DEF Wanted, GrantOf, Here
<1>2. Wanted \in Grant /\ Owned \in Grant
  BY GrantFacts DEF Basics
<1>3. Owned' \in Grant
  BY DEF RecordShape, Owned, GrantOf, Grant
<1>4. Leq(Wanted, Owned) /\ Leq(Wanted, Owned')
  BY <1>2, <1>3, OrderFacts DEF Basics, Order
<1>5. Wanted = Owned' => Owned' = Owned
  BY <1>2, <1>3, <1>4, OrderFacts
<1>6. RecordType'
  BY DEF Basics, RecordType, RecordShape
<1>7. DiskType'
  <2>1. \A v \in Mount : volume[v].at \in Nat /\ aside[v].at \in Nat /\ clock \in Nat
    BY DEF Basics, DiskType, RecordType, Content
  <2> QED
    BY <2>1 DEF Basics, DiskType
<1>8. Order' /\ ServerBasic' /\ JobBasic'
  BY <1>1, <1>4, <1>5 DEF Basics, Order, ServerBasic, JobBasic
<1> QED
  BY <1>6, <1>7, <1>8 DEF Basics

\* A new assignment or a new lifetime: nothing on this Node is of it yet.
LEMMA NewGrant ==
  ASSUME PlaceInv, UNCHANGED <<listing, volume, aside, staging, marker, placing, serving, loose, wrote, amiss>>,
         clock' \in Nat, clock <= clock', RecordShape(owner)',
         Leq(Owned, Owned'), Owned # Owned',
         Here(owner)' => debt' = NoGrant /\ owner'.gen # 0 /\ owner'.base <= owner'.committed,
         owner'.gen = 0 => owner'.committed = 0,
         owner'.gen \in {0, 1} => owner'.base = 0
  PROVE  PlaceInv'
<1>1. Basics'
  BY BasicServer DEF PlaceInv
<1> SUFFICES ASSUME Whole
             PROVE  Sound'
  BY <1>1 DEF PlaceInv, Whole
<1>2. /\ Wanted' = Wanted /\ (StagingLeft' <=> StagingLeft) /\ Held' = Held
      /\ (Here(listing)' <=> Here(listing)) /\ (InPlace' <=> InPlace)
      /\ Staged' = Staged /\ \A v : Swapped(v)' <=> Swapped(v)
  BY DEF Wanted, GrantOf, StagingLeft, Here, Held, InPlace, Uniform, HasData, Swapped, Staged
<1>3. /\ Wanted \in Grant /\ Owned \in Grant /\ marker.of \in Grant /\ wrote.of \in Grant
  BY GrantFacts DEF Whole, Basics, RecordType, DiskType
<1>4. Owned' \in Grant
  BY DEF RecordShape, Owned, GrantOf, Grant
<1>5. Leq(Wanted, Owned) /\ Leq(marker.of, Wanted) /\ Leq(wrote.of, Wanted)
  BY DEF Whole, Basics, Order
<1>6. Wanted # Owned' /\ marker.of # Owned' /\ wrote.of # Owned'
  BY <1>3, <1>4, <1>5, OrderFacts
<1>7. ServerSound' /\ KeptSound'
  BY <1>2, <1>6 DEF ServerSound, KeptSound
<1>8. MarkerSound'
  BY <1>2, <1>6 DEF Whole, Sound, MarkerSound, Agree, Again, First, Fresher
<1>9. JobSound' /\ ReadySound' /\ ServingSound'
  BY <1>2 DEF Whole, Sound, JobSound, ReadySound, ServingSound
<1> QED
  BY <1>7, <1>8, <1>9 DEF Sound

\* The assignment stays; a later restore point is recorded only where its data is settled.
LEMMA SameGrant ==
  ASSUME PlaceInv, UNCHANGED <<listing, volume, aside, staging, marker, placing, serving, loose, wrote, clock, amiss>>,
         RecordShape(owner)', owner'.uid = owner.uid, owner'.gen = owner.gen, owner'.base = owner.base,
         Here(owner)' => Here(owner) /\ debt' = debt, owner.gen # 0,
         Sound => owner'.committed = owner.committed \/ (Settled /\ owner'.base <= owner'.committed)
  PROVE  PlaceInv'
<1>1. /\ Wanted' = Wanted /\ Owned' = Owned /\ (StagingLeft' <=> StagingLeft) /\ Held' = Held
      /\ (Here(listing)' <=> Here(listing)) /\ (InPlace' <=> InPlace)
      /\ Staged' = Staged /\ \A v : Swapped(v)' <=> Swapped(v)
  BY DEF Wanted, Owned, GrantOf, StagingLeft, Here, Held, InPlace, Uniform, HasData, Swapped, Staged
<1>2. Basics'
  <2>1. Leq(Owned, Owned) /\ clock \in Nat
    BY GrantFacts, OrderFacts DEF PlaceInv, Basics, RecordType
  <2>2. /\ owner.gen \in {0, 1} => owner.base = 0
        /\ Here(owner)' => debt' = NoGrant
    BY DEF PlaceInv, Basics, ServerBasic
  <2> QED
    BY <1>1, <2>1, <2>2, BasicServer DEF PlaceInv
<1> SUFFICES ASSUME Whole
             PROVE  Sound'
  BY <1>2 DEF PlaceInv, Whole
<1>3. Settled' <=> Settled
  BY <1>1 DEF Settled
<1>4. ServerSound'
  BY <1>1, <1>3 DEF Whole, Sound, ServerSound
<1>5. MarkerSound'
  BY <1>1 DEF Whole, Sound, MarkerSound, Agree, Again, First, Fresher
<1>6. JobSound' /\ ReadySound'
  BY <1>1 DEF Whole, Sound, JobSound, ReadySound
<1>7. ServingSound' /\ KeptSound'
  BY <1>1, <1>3 DEF Whole, Sound, ServingSound, KeptSound
<1> QED
  BY <1>4, <1>5, <1>6, <1>7 DEF Sound

LEMMA ServerStep ==
  ASSUME PlaceInv,
         GrantedHere \/ BackupAcceptedHere \/ ReleasedHere \/ RunElsewhere \/ RecreatedByForce
  PROVE  PlaceInv'
<1>0. /\ DOMAIN owner = {"uid", "gen", "here", "committed", "base"}
      /\ owner.uid \in Nat /\ owner.uid # 0 /\ owner.gen \in Nat /\ owner.committed \in Nat
      /\ owner.base \in Nat /\ owner.committed <= clock /\ clock \in Nat
      /\ owner.gen = 0 => owner.committed = 0
      /\ owner.gen \in {0, 1} => owner.base = 0
      /\ Owned = [uid |-> owner.uid, gen |-> owner.gen]
      /\ Owned' = [uid |-> owner'.uid, gen |-> owner'.gen]
  BY DEF PlaceInv, Basics, RecordType, RecordShape, ServerBasic, Owned, GrantOf
<1>1. CASE GrantedHere
  <2> DEFINE yes == TRUE
  <2>1. /\ owner' = [owner EXCEPT !.gen = owner.gen + 1, !.here = yes, !.base = owner.committed]
        /\ debt = NoGrant /\ UNCHANGED <<debt, clock>>
        /\ UNCHANGED <<listing, volume, aside, staging, marker, placing, serving, loose, wrote, amiss>>
    BY <1>1 DEF GrantedHere, ServerSets
  <2> HIDE DEF yes
  <2>2. /\ DOMAIN owner' = {"uid", "gen", "here", "committed", "base"}
        /\ owner'.uid = owner.uid /\ owner'.gen = owner.gen + 1 /\ owner'.committed = owner.committed
        /\ owner'.base = owner.committed
    BY <1>0, <2>1
  <2>3. RecordShape(owner)'
    BY <1>0, <2>1, <2>2 DEF RecordShape
  <2>4. Leq(Owned, Owned') /\ Owned # Owned'
    BY <1>0, <2>2 DEF Leq
  <2>5. /\ owner'.gen # 0 /\ (owner'.gen \in {0, 1} => owner'.base = 0)
        /\ owner'.base <= owner'.committed
    BY <1>0, <2>2
  <2> QED
    BY <1>0, <2>1, <2>3, <2>4, <2>5, NewGrant
<1>2. CASE BackupAcceptedHere
  <2>1. PICK v \in Mount : /\ volume[v].at # 0
                           /\ owner' = [owner EXCEPT !.committed = volume[v].at]
    BY <1>2 DEF BackupAcceptedHere, ServerSets
  <2>2. /\ Here(owner) /\ serving = Owned /\ UNCHANGED <<debt, clock>>
        /\ UNCHANGED <<listing, volume, aside, staging, marker, placing, serving, loose, wrote, amiss>>
    BY <1>2 DEF BackupAcceptedHere, ServerSets, Owned, Here
  <2>3. owner.gen # 0 /\ volume[v].at \in Nat /\ volume[v].at <= clock
    BY <2>2 DEF PlaceInv, Basics, ServerBasic, DiskType, Content
  <2>4. Sound => Settled /\ volume[v].at >= owner.base
    <3> SUFFICES ASSUME Sound
                 PROVE  Settled /\ volume[v].at >= owner.base
      OBVIOUS
    <3>1. marker.of = Owned /\ Settled
      BY <2>2, GrantFacts DEF PlaceInv, Basics, Sound, ServingSound, JobSound, InPlace, Settled
    <3>2. volume[v] # Empty
      BY <2>1 DEF Empty
    <3> QED
      BY <2>2, <3>1, <3>2 DEF Sound, MarkerSound, Fresher
  <2>5. /\ DOMAIN owner' = {"uid", "gen", "here", "committed", "base"}
        /\ owner'.uid = owner.uid /\ owner'.gen = owner.gen /\ owner'.committed = volume[v].at
        /\ owner'.base = owner.base
    BY <1>0, <2>1
  <2>6. RecordShape(owner)'
    BY <1>0, <2>2, <2>3, <2>5 DEF RecordShape
  <2>7. Sound => Settled /\ owner'.base <= owner'.committed
    BY <1>0, <2>3, <2>4, <2>5
  <2> QED
    BY <2>2, <2>3, <2>5, <2>6, <2>7, SameGrant
<1>3. CASE ReleasedHere
  <2> DEFINE no == FALSE
  <2>1. /\ owner' = [owner EXCEPT !.here = no] /\ Here(owner) /\ UNCHANGED clock
        /\ UNCHANGED <<listing, volume, aside, staging, marker, placing, serving, loose, wrote, amiss>>
    BY <1>3 DEF ReleasedHere, ServerSets, Here
  <2>2. /\ DOMAIN owner' = {"uid", "gen", "here", "committed", "base"}
        /\ owner'.uid = owner.uid /\ owner'.gen = owner.gen /\ owner'.committed = owner.committed
        /\ owner'.base = owner.base /\ owner'.here = no
    <3> HIDE DEF no
    <3> QED
      BY <1>0, <2>1
  <2>3. ~Here(owner)'
    BY <2>2, Zenon DEF Here
  <2>4. RecordShape(owner)'
    BY <1>0, <2>1, <2>2 DEF RecordShape
  <2>5. owner.gen # 0
    BY <2>1 DEF PlaceInv, Basics, ServerBasic
  <2> QED
    BY <2>1, <2>2, <2>3, <2>4, <2>5, SameGrant
<1>4. CASE RunElsewhere
  <2>1. /\ owner' = [owner EXCEPT !.gen = owner.gen + 1, !.committed = clock + 1] /\ clock' = clock + 1
        /\ ~Here(owner) /\ UNCHANGED debt
        /\ UNCHANGED <<listing, volume, aside, staging, marker, placing, serving, loose, wrote, amiss>>
    BY <1>4 DEF RunElsewhere, ServerSets, Here
  <2>2. /\ DOMAIN owner' = {"uid", "gen", "here", "committed", "base"}
        /\ owner'.uid = owner.uid /\ owner'.gen = owner.gen + 1 /\ owner'.committed = clock + 1
        /\ owner'.base = owner.base /\ owner'.here = owner.here
    BY <1>0, <2>1
  <2>3. ~Here(owner)'
    BY <2>1, <2>2, Zenon DEF Here
  <2>4. RecordShape(owner)'
    BY <1>0, <2>1, <2>2 DEF RecordShape
  <2>5. Leq(Owned, Owned') /\ Owned # Owned'
    BY <1>0, <2>2 DEF Leq
  <2>6. /\ owner'.gen # 0 /\ (owner'.gen \in {0, 1} => owner'.base = 0)
        /\ clock' \in Nat /\ clock <= clock'
    BY <1>0, <2>1, <2>2
  <2> QED
    BY <2>1, <2>3, <2>4, <2>5, <2>6, NewGrant
<1>5. CASE RecreatedByForce
  <2> DEFINE no == FALSE
  <2>1. /\ owner' = [uid |-> owner.uid + 1, gen |-> 0, here |-> no, committed |-> 0, base |-> 0]
        /\ debt' = NoGrant /\ UNCHANGED clock
        /\ UNCHANGED <<listing, volume, aside, staging, marker, placing, serving, loose, wrote, amiss>>
    BY <1>5 DEF RecreatedByForce, ServerSets
  <2>2. /\ DOMAIN owner' = {"uid", "gen", "here", "committed", "base"}
        /\ owner'.uid = owner.uid + 1 /\ owner'.gen = 0 /\ owner'.committed = 0
        /\ owner'.base = 0 /\ owner'.here = no
    <3> HIDE DEF no
    <3> QED
      BY <2>1
  <2>3. ~Here(owner)'
    BY <2>2, Zenon DEF Here
  <2>4. RecordShape(owner)'
    BY <1>0, <2>1, <2>2 DEF RecordShape
  <2>5. Leq(Owned, Owned') /\ Owned # Owned'
    BY <1>0, <2>2 DEF Leq
  <2> QED
    BY <1>0, <2>1, <2>2, <2>3, <2>4, <2>5, NewGrant
<1> QED
  BY <1>1, <1>2, <1>3, <1>4, <1>5

------------------------------------------------------------------------------
(* The theorems.                                                           *)

LEMMA PlaceInit == RestoreInit => PlaceInv
<1> SUFFICES ASSUME RestoreInit
             PROVE  PlaceInv
  OBVIOUS
<1> DEFINE no == FALSE
<1>1. /\ owner = [uid |-> 1, gen |-> 0, here |-> no, committed |-> 0, base |-> 0] /\ listing = owner
      /\ debt = NoGrant /\ volume = [v \in Mount |-> Empty] /\ aside = [v \in Mount |-> Empty]
      /\ marker = NoMarker /\ placing = IdleJob /\ serving = NoGrant /\ clock = 0
      /\ wrote = [of |-> NoGrant, at |-> 0]
  BY DEF RestoreInit
<1>2. /\ DOMAIN owner = {"uid", "gen", "here", "committed", "base"} /\ owner.here = no
      /\ owner.uid = 1 /\ owner.gen = 0 /\ owner.committed = 0 /\ owner.base = 0
  <2> HIDE DEF no
  <2> QED
    BY <1>1
<1>3. ~Here(owner)
  BY <1>2, Zenon DEF Here
<1> USE Blank
<1>6. RecordType
  BY <1>1, <1>2 DEF RecordType, RecordShape
<1>7. DiskType
  <2>1. volume \in [Mount -> Content] /\ aside \in [Mount -> Content]
    BY <1>1
  <2>2. \A v \in Mount : volume[v].at <= clock /\ aside[v].at <= clock
    BY <1>1
  <2> QED
    BY <1>1, <2>1, <2>2 DEF DiskType
<1>8. Wanted = Owned /\ Wanted \in Grant /\ Wanted # NoGrant /\ wrote.of = NoGrant
  BY <1>1, <1>6, GrantFacts DEF Wanted, Owned
<1>9. Order
  BY <1>1, <1>8, OrderFacts DEF Order
<1>10. ServerBasic /\ JobBasic /\ ServerSound
  BY <1>1, <1>2, <1>3 DEF ServerBasic, JobBasic, ServerSound
<1>11. MarkerSound
  BY <1>1, <1>8 DEF MarkerSound, Agree, Again, First, Fresher
<1>12. JobSound /\ ReadySound
  BY <1>1 DEF JobSound, ReadySound, Restoring
<1>13. ServingSound /\ KeptSound
  BY <1>1, <1>3 DEF ServingSound, KeptSound
<1> QED
  BY <1>6, <1>7, <1>9, <1>10, <1>11, <1>12, <1>13 DEF PlaceInv, Basics, Sound

LEMMA PlaceStep == PlaceInv /\ [RestoreNext]_restoreVars => PlaceInv'
<1> SUFFICES ASSUME PlaceInv, [RestoreNext]_restoreVars
             PROVE  PlaceInv'
  OBVIOUS
<1>1. CASE GrantedHere \/ BackupAcceptedHere \/ ReleasedHere \/ RunElsewhere \/ RecreatedByForce
  BY <1>1, ServerStep
<1> DEFINE Servers == GrantedHere \/ BackupAcceptedHere \/ ReleasedHere \/ RunElsewhere \/ RecreatedByForce
<1>2. ASSUME ~Servers
      PROVE  Basics'
  <2>1. Basics
    BY DEF PlaceInv
  <2> QED
    BY <1>2, <2>1, BasicPlacement, BasicAgent DEF RestoreNext
<1>3. ASSUME ~Servers, amiss' = {}
      PROVE  Sound'
  <2>1. CASE Quarantine
    BY <1>2, <1>3, <2>1, QuarantineStep
  <2>2. CASE ~Quarantine
    <3>1. amiss = {} /\ ~EnsureNothing /\ ~StagingRemains
      BY <1>3, <2>2 DEF RestoreNext, restoreVars, EnsureVolumeData, EnsureNothing, RunRestore, InitializeEmpty,
         ClearStaging, MakeStaging, FetchAndExtract, Displace, SwapIn, RollBack, DropDisplaced, WriteMarker,
         RemoveStaging, StagingRemains, RestoreFails, StartContainers, AgentDies, ListAssigned, SweepStops,
         SweepStarts, SweepForgets, ContainersWrite, ContainersStop, JobMoves
    <3>2. Whole /\ Basics'
      BY <1>2, <1>3, <3>1 DEF PlaceInv, Whole
    <3>3. CASE EnsureVolumeData
      BY <3>2, <3>3, EnsureStep
    <3>4. CASE ClearStaging
      <4>1. [placing EXCEPT !.pc = "make"].pc = "make"
        BY <3>2 DEF Basics, DiskType, Job
      <4> QED
        BY <3>2, <3>4, <4>1, PrepareStep DEF ClearStaging, JobMoves
    <3>5. CASE MakeStaging
      <4>1. [placing EXCEPT !.pc = "fetch"].pc = "fetch"
        BY <3>2 DEF Basics, DiskType, Job
      <4> QED
        BY <3>2, <3>5, <4>1, PrepareStep DEF MakeStaging, JobMoves
    <3>6. CASE FetchAndExtract
      BY <3>2, <3>6, PrepareStep DEF FetchAndExtract, JobMoves, Disk
    <3>7. ASSUME NEW v \in Mount, Displace(v) \/ SwapIn(v)
          PROVE  Sound'
      BY <3>2, <3>7, DisplaceStep, SwapInStep
    <3>8. ASSUME NEW kept, NEW lost, RollBack(kept, lost)
          PROVE  Sound'
      BY <3>2, <3>8, RollBackStep
    <3>9. CASE DropDisplaced
      BY <3>2, <3>9, DropStep
    <3>10. CASE WriteMarker
      BY <3>2, <3>10, MarkStep
    <3>11. CASE RemoveStaging
      BY <3>2, <3>11, UnstageStep
    <3>12. CASE RestoreFails \/ AgentDies
      <4>1. /\ placing' = IdleJob
            /\ UNCHANGED aside \/ aside' = [v \in Mount |-> Empty]
            /\ UNCHANGED <<owner, debt, listing, serving, loose, clock, wrote, volume, marker, staging>>
        BY <3>12 DEF RestoreFails, AgentDies, JobMoves, JobGoes, Disk
      <4>2. ServingSound'
        BY <3>2, <4>1 DEF Whole, Sound, ServingSound, InPlace, StagingLeft, Uniform, HasData
      <4> QED
        BY <3>2, <4>1, <4>2, GivenUp
    <3>13. CASE StartContainers
      BY <3>2, <3>13, StartStep
    <3>14. CASE ListAssigned
      BY <3>2, <3>14, ListStep
    <3>15. CASE SweepStarts
      BY <1>3, <3>2, <3>15, SweepStep
    <3>16. CASE ContainersWrite
      BY <3>2, <3>16, WriteStep
    <3>17. CASE ContainersStop \/ SweepStops \/ SweepForgets \/ UNCHANGED restoreVars
      BY <3>2, <3>17, StopStep
    <3> QED
      BY <1>3, <2>2, <3>1, <3>3, <3>4, <3>5, <3>6, <3>7, <3>8, <3>9, <3>10, <3>11, <3>12, <3>13, <3>14,
         <3>15, <3>16, <3>17 DEF RestoreNext
  <2> QED
    BY <2>1, <2>2
<1> QED
  BY <1>1, <1>2, <1>3 DEF PlaceInv

\* Containers run on volumes of one moment, whatever renames of a swap or of its rollback
\* failed before, wherever the Agent died and however old its listing is (Decide,
\* swapAll, writeMarker), unless something went past the decision since the data was
\* last moved away.
THEOREM NeverMixedData == RestoreSpec => []NoMixedData
<1>1. PlaceInv => NoMixedData
  <2> SUFFICES ASSUME Basics, Sound, serving # NoGrant
               PROVE  Cardinality({volume[v] : v \in Mount}) = 1
    BY DEF NoMixedData, PlaceInv
  <2>1. \A v, w \in Mount : volume[v] = volume[w]
    BY DEF Sound, ServingSound, InPlace, Uniform
  <2>2. PICK m : m \in Mount
    BY RestoreConstants
  <2>3. {volume[v] : v \in Mount} = {volume[m]}
    BY <2>1, <2>2
  <2> QED
    BY <2>3, FS_Singleton
<1> QED
  BY <1>1, PlaceInit, PlaceStep, PTL DEF RestoreSpec

\* The containers of the current assignment run on this lifetime's data, not older than
\* the backup committed when the assignment was granted: no marker of an earlier
\* assignment or lifetime lets its data in again, unless an Agent without an object
\* store or the orphan sweep starts them past the decision.
THEOREM DataIsFresh == RestoreSpec => []FreshData
<1>1. PlaceInv => FreshData
  <2> SUFFICES ASSUME Basics, Sound, Here(owner), serving = Owned, NEW v \in Mount
               PROVE  volume[v].uid \in {0, owner.uid} /\ volume[v].at >= owner.base
    BY DEF FreshData, Owned, PlaceInv, Here
  <2>1. marker.of = Owned /\ InPlace /\ Wanted = Owned /\ Owned.gen = owner.gen
    BY GrantFacts, OwnedIsWanted DEF Basics, Sound, ServingSound
  <2>2. CASE volume[v] # Empty
    BY <2>1, <2>2 DEF Sound, MarkerSound, Fresher
  <2>3. CASE volume[v] = Empty
    <3>1. marker.from = 0
      BY <2>1, <2>3 DEF InPlace, HasData
    <3>2. owner.base = 0
      BY <2>1, <3>1 DEF Sound, MarkerSound, First, Basics, ServerBasic
    <3> QED
      BY <2>3, <3>2 DEF Empty
  <2> QED
    BY <2>2, <2>3
<1> QED
  BY <1>1, PlaceInit, PlaceStep, PTL DEF RestoreSpec

\* Within one assignment nothing takes back what its containers wrote: an Agent that
\* restarts and decides again does not restore a backup over it, unless its staging
\* directory could not be removed.
THEOREM WritesAreKept == RestoreSpec => []WritesKept
<1>1. PlaceInv => WritesKept
  <2> SUFFICES ASSUME Basics, Sound, Here(owner), wrote.of = Owned, NEW v \in Mount
               PROVE  volume[v].at >= wrote.at
    BY DEF WritesKept, Owned, Here, PlaceInv
  <2>1. volume[v].at = wrote.at /\ wrote.at \in Nat
    BY DEF Basics, Sound, KeptSound, RecordType
  <2> QED
    BY <2>1
<1> QED
  BY <1>1, PlaceInit, PlaceStep, PTL DEF RestoreSpec
=============================================================================
