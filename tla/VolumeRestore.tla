----------------------------- MODULE VolumeRestore -----------------------------
(***************************************************************************)
(* Putting a Project's Managed volumes in place on one Node: the marker    *)
(* that says which assignment the data on disk belongs to, the decision    *)
(* taken from it, the restore of a committed backup (staging, verified     *)
(* downloads, a swap volume by volume with rollback), the empty start of a *)
(* new Project, and quarantine.  The Agent may die between any two steps   *)
(* and acts on its last listing, which may be out of date.                 *)
(*                                                                         *)
(* What a volume holds is the moment it was last consistent: containers    *)
(* writing move all volumes to a new moment, a backup is of one moment,    *)
(* and a restore brings one back.                                          *)
(*                                                                         *)
(* Three things of the code go past the decision: an Agent without an      *)
(* object store takes none, the orphan sweep starts containers without     *)
(* one, and a staging directory that cannot be removed makes the next one  *)
(* restore again, beneath the running containers.  The history amiss       *)
(* records them; the properties are of what the decision vouches for.      *)
(***************************************************************************)
EXTENDS ProjectRecord, Integers, FiniteSets, FiniteSetsExt

CONSTANTS Mount,          \* the Managed volumes of the Project
          RestoreLimits   \* bounds, each a choice of how many assignments of a lifetime,
                          \* lifetimes, moments, Agent restarts and strays (staging left,
                          \* orphans stopped) a behaviour has, and of whether the Agent has
                          \* an object store

\* A Project with no Managed volume is not decided on at all.
ASSUME RestoreConstants ==
  /\ Mount # {}
  /\ RestoreLimits \subseteq [grants: Nat, uids: Nat, moments: Nat, restarts: Nat, strays: Nat,
                             objectStore: BOOLEAN]

VARIABLES
  owner,     \* the server's record: lifetime, generation, whether it is here, committed backup
  debt,      \* the released assignment of this Node that still owes its data
  listing,   \* the record as the Agent last saw it
  volume,    \* per volume: what its directory holds
  aside,     \* per volume: what its .displaced directory holds
  staging,   \* the restore staging directory exists
  marker,    \* .cara-restore.json
  placing,   \* ensureVolumeData at work
  serving,   \* the assignment whose containers run
  loose,     \* volumes whose directory was moved from under the running containers
  stopped,   \* the lifetime whose containers the orphan sweep stopped, 0 for none
  clock,     \* moments so far
  wrote,     \* the assignment that wrote last on this Node, and when
  amiss,     \* history: what went past the decision since the data was last moved away
  spare      \* what is left of the behaviour's bounds

restoreVars == <<owner, debt, listing, volume, aside, staging, marker, placing, serving, loose, stopped,
                 clock, wrote, amiss, spare>>

NoGrant == [uid |-> 0, gen |-> 0]
Empty == [uid |-> 0, at |-> 0]
NoMarker == [of |-> NoGrant, from |-> 0]
IdleJob == [pc |-> "idle", of |-> NoGrant, from |-> 0, todo |-> {}, done |-> {}]

RestoreInit ==
  /\ owner = [uid |-> 1, gen |-> 0, here |-> FALSE, committed |-> 0, base |-> 0]
  /\ listing = owner /\ debt = NoGrant
  /\ volume = [v \in Mount |-> Empty] /\ aside = [v \in Mount |-> Empty]
  /\ staging = FALSE /\ marker = NoMarker
  /\ placing = IdleJob /\ serving = NoGrant /\ clock = 0
  /\ loose = {} /\ stopped = 0
  /\ wrote = [of |-> NoGrant, at |-> 0] /\ amiss = {}
  /\ spare \in RestoreLimits

GrantOf(r) == [uid |-> r.uid, gen |-> r.gen]

HasData(v) == volume[v] # Empty

------------------------------------------------------------------------------
(* The decision.                                                           *)

\* Seeded fault: the generation in the marker is not compared.
MatchesAnyGeneration(want) == marker.of # NoGrant /\ marker.of.uid = want.uid

Matches(want) == marker.of # NoGrant /\ marker.of = want

\* Seeded fault: data no marker accounts for is taken over.
DecideAdopting(want) ==
  IF staging THEN "restore"
  ELSE IF Matches(want)
    THEN IF marker.from # 0 /\ \E v \in Mount : ~HasData(v) THEN "block" ELSE "skip"
  ELSE IF marker # NoMarker THEN "block"
  ELSE IF \E v \in Mount : HasData(v) THEN "skip"
  ELSE IF want.gen = 1 THEN "init"
  ELSE "restore"

\* Seeded fault: when no containers run, data in place is restored over.
DecideRestoring(want) ==
  IF staging \/ (Matches(want) /\ marker.from # 0 /\ serving = NoGrant) THEN "restore"
  ELSE IF Matches(want)
    THEN IF marker.from # 0 /\ \E v \in Mount : ~HasData(v) THEN "block" ELSE "skip"
  ELSE IF marker # NoMarker \/ \E v \in Mount : HasData(v) THEN "block"
  ELSE IF want.gen = 1 THEN "init"
  ELSE "restore"

\* Decide.  Legacy and unreadable markers, which block, are left out.
Decide(want) ==
  IF staging THEN "restore"
  ELSE IF Matches(want)
    THEN IF marker.from # 0 /\ \E v \in Mount : ~HasData(v) THEN "block" ELSE "skip"
  ELSE IF marker # NoMarker \/ \E v \in Mount : HasData(v) THEN "block"
  ELSE IF want.gen = 1 THEN "init"
  ELSE "restore"

JobGoes(j) ==
  /\ placing' = j
  /\ UNCHANGED <<owner, debt, listing, serving, stopped, clock, wrote, spare>>

JobMoves(j) == JobGoes(j) /\ UNCHANGED <<loose, amiss>>

Disk == <<volume, aside, staging, marker>>

\* runRestore: without a committed backup there is nothing to start from.
RunRestore(want) ==
  /\ listing.committed # 0
  /\ JobMoves([IdleJob EXCEPT !.pc = "clear", !.of = want, !.from = listing.committed])

\* InitializeEmpty: the directories are empty, so only the marker is missing.
InitializeEmpty(want) == JobMoves([IdleJob EXCEPT !.pc = "mark", !.of = want])

Proceed(want) == [IdleJob EXCEPT !.pc = "ready", !.of = want]

\* ensureVolumeData acts on the decision; a blocked placement waits.  Every tick of
\* a Scheduled Project decides, containers running or not.
EnsureVolumeData ==
  LET want == GrantOf(listing) IN
  /\ placing.pc = "idle" /\ listing.here /\ spare.objectStore
  /\ \/ Decide(want) = "skip" /\ JobMoves(Proceed(want))
     \/ Decide(want) = "init" /\ InitializeEmpty(want)
     \/ Decide(want) = "restore" /\ RunRestore(want)
  /\ UNCHANGED Disk

\* Without an object store nothing is decided, and the containers start.
EnsureNothing ==
  /\ placing.pc = "idle" /\ listing.here /\ ~spare.objectStore
  /\ JobGoes(Proceed(GrantOf(listing)))
  /\ amiss' = amiss \union {"no object store"}
  /\ UNCHANGED <<loose, Disk>>

------------------------------------------------------------------------------
(* RestoreGeneration and InitializeEmpty.                                  *)

\* With the manifest at hand, what an earlier attempt staged is removed, and the
\* directory made again.
ClearStaging ==
  /\ placing.pc = "clear"
  /\ staging' = FALSE
  /\ JobMoves([placing EXCEPT !.pc = "make"])
  /\ UNCHANGED <<volume, aside, marker>>

MakeStaging ==
  /\ placing.pc = "make"
  /\ staging' = TRUE
  /\ JobMoves([placing EXCEPT !.pc = "fetch"])
  /\ UNCHANGED <<volume, aside, marker>>

\* Every archive is downloaded and verified before one is extracted.
FetchAndExtract ==
  /\ placing.pc = "fetch"
  /\ JobMoves([placing EXCEPT !.pc = "swap", !.todo = Mount])
  /\ UNCHANGED Disk

\* swapAll, one volume: what is there is set aside, ...
Displace(v) ==
  /\ placing.pc = "swap" /\ v \in placing.todo
  /\ aside' = [aside EXCEPT ![v] = volume[v]]
  /\ volume' = [volume EXCEPT ![v] = Empty]
  /\ JobGoes([placing EXCEPT !.pc = "rename", !.todo = @ \ {v}, !.done = @ \union {v}])
  /\ loose' = IF serving = NoGrant THEN loose ELSE loose \union {v}
  /\ UNCHANGED <<staging, marker, amiss>>

Staged == [uid |-> placing.of.uid, at |-> placing.from]

\* ... and the staged directory takes its place.
SwapIn(v) ==
  /\ placing.pc = "rename" /\ v \in placing.done /\ volume[v] = Empty
  /\ volume' = [volume EXCEPT ![v] = Staged]
  /\ JobMoves([placing EXCEPT !.pc = "swap"])
  /\ UNCHANGED <<aside, staging, marker>>

\* A rename fails: the volumes done so far are put back, each of which may fail
\* too, with the new data still there or with nothing there.  Staging stays.
RollBack(kept, lost) ==
  /\ placing.pc = "rename"
  /\ volume' = [v \in Mount |-> IF v \notin placing.done THEN volume[v]
                                ELSE IF v \in kept THEN volume[v]
                                ELSE IF v \in lost THEN Empty ELSE aside[v]]
  /\ aside' = [v \in Mount |-> IF v \in placing.done \ (kept \union lost) THEN Empty ELSE aside[v]]
  /\ JobMoves(IdleJob)
  /\ UNCHANGED <<staging, marker>>

DropDisplaced ==
  /\ placing.pc = "swap" /\ placing.todo = {}
  /\ aside' = [v \in Mount |-> Empty]
  /\ JobMoves([placing EXCEPT !.pc = "mark"])
  /\ UNCHANGED <<volume, staging, marker>>

\* Atomic, by rename, and only when the data is in place.
WriteMarker ==
  /\ placing.pc = "mark"
  /\ marker' = [of |-> placing.of, from |-> placing.from]
  /\ JobMoves([placing EXCEPT !.pc = "unstage"])
  /\ UNCHANGED <<volume, aside, staging>>

\* The data is whole again and staging goes.
RemoveStaging ==
  /\ placing.pc = "unstage"
  /\ staging' = FALSE
  /\ JobMoves([placing EXCEPT !.pc = "ready"])
  /\ UNCHANGED <<volume, aside, marker>>

\* A removal that fails is a warning: the restore has succeeded, with staging left.
StagingRemains ==
  /\ placing.pc = "unstage" /\ staging /\ spare.strays > 0
  /\ placing' = [placing EXCEPT !.pc = "ready"]
  /\ amiss' = amiss \union {"staging left"}
  /\ spare' = [spare EXCEPT !.strays = @ - 1]
  /\ UNCHANGED <<owner, debt, listing, serving, loose, stopped, clock, wrote, Disk>>

\* An error before the swap, or while writing the marker.
RestoreFails ==
  /\ placing.pc \in {"clear", "make", "fetch", "mark"}
  /\ JobMoves(IdleJob)
  /\ UNCHANGED Disk

\* ReconcileProject: the assignment's containers run, or on an error none of them is
\* left; another assignment's are not taken over.
ReconcileProject(of) ==
  /\ serving' \in IF serving \in {NoGrant, of} THEN {of, NoGrant} ELSE {serving}
  /\ loose' = IF serving = NoGrant THEN {} ELSE loose

\* reconcileContainers.
StartContainers ==
  /\ placing.pc = "ready"
  /\ ReconcileProject(placing.of)
  /\ placing' = IdleJob
  /\ UNCHANGED <<owner, debt, listing, volume, aside, staging, marker, stopped, clock, wrote, amiss, spare>>

------------------------------------------------------------------------------
(* The Agent, the containers and the server.                               *)

\* At startup CleanDisplaced removes what a swap left behind.
AgentDies ==
  /\ spare.restarts > 0
  /\ spare' = [spare EXCEPT !.restarts = @ - 1]
  /\ placing' = IdleJob /\ stopped' = 0
  /\ aside' = [v \in Mount |-> Empty]
  /\ UNCHANGED <<owner, debt, listing, volume, staging, marker, serving, loose, clock, wrote, amiss>>

ListAssigned ==
  /\ listing # owner /\ placing.pc = "idle"
  /\ listing' = owner
  /\ UNCHANGED <<owner, debt, volume, aside, staging, marker, placing, serving, loose, stopped, clock,
                 wrote, amiss, spare>>

\* The orphan sweep goes by the lifetime.  It stops what the listing does not have
\* here, ...
SweepStops ==
  /\ serving # NoGrant /\ placing.pc = "idle" /\ spare.strays > 0
  /\ ~(listing.here /\ listing.uid = serving.uid)
  /\ serving' = NoGrant /\ stopped' = serving.uid
  /\ spare' = [spare EXCEPT !.strays = @ - 1]
  /\ UNCHANGED <<owner, debt, listing, volume, aside, staging, marker, placing, loose, clock, wrote, amiss>>

\* ... starts it again when the listing does, with no decision on the data, ...
SweepStarts ==
  LET want == GrantOf(listing) IN
  /\ stopped = listing.uid /\ listing.here /\ placing.pc = "idle"
  /\ ReconcileProject(want)
  /\ stopped' = IF serving' = want THEN 0 ELSE stopped
  /\ amiss' = IF serving' = want /\ Decide(want) # "skip" THEN amiss \union {"sweep"} ELSE amiss
  /\ UNCHANGED <<owner, debt, listing, volume, aside, staging, marker, placing, clock, wrote, spare>>

\* ... and forgets it when its phase is not to be started, or the grace is over.
SweepForgets ==
  /\ stopped # 0 /\ placing.pc = "idle"
  /\ stopped' = 0
  /\ UNCHANGED <<owner, debt, listing, volume, aside, staging, marker, placing, serving, loose, clock,
                 wrote, amiss, spare>>

\* The debt's containers are gone and its data moves away, marker and all; data
\* proven to be another assignment's stays.
Quarantine ==
  /\ debt # NoGrant /\ placing.pc = "idle"
  /\ serving' = NoGrant
  /\ IF marker.of \in {NoGrant, debt}
       THEN /\ volume' = [v \in Mount |-> Empty] /\ aside' = [v \in Mount |-> Empty]
            /\ marker' = NoMarker /\ amiss' = {}
       ELSE UNCHANGED <<volume, marker, aside, amiss>>
  /\ debt' = NoGrant
  /\ UNCHANGED <<owner, listing, staging, placing, loose, stopped, clock, wrote, spare>>

\* Where its directory was moved away, a volume has what they write only if the
\* directory was put back since.
ContainersWrite ==
  /\ serving # NoGrant /\ clock < spare.moments
  /\ clock' = clock + 1
  /\ \E gone \in SUBSET loose :
       volume' = [v \in Mount |-> IF v \in gone THEN volume[v] ELSE [uid |-> serving.uid, at |-> clock']]
  /\ wrote' = [of |-> serving, at |-> clock']
  /\ UNCHANGED <<owner, debt, listing, aside, staging, marker, placing, serving, loose, stopped, amiss, spare>>

\* They exit while the Project still reads Scheduled.
ContainersStop ==
  /\ serving # NoGrant
  /\ serving' = NoGrant
  /\ UNCHANGED <<owner, debt, listing, volume, aside, staging, marker, placing, loose, stopped, clock,
                 wrote, amiss, spare>>

ServerSets(r) ==
  /\ owner' = r
  /\ UNCHANGED <<listing, volume, aside, staging, marker, placing, serving, loose, stopped, wrote, amiss, spare>>

\* A Node that owes data is not assigned (NoAssignmentOverDebt).
GrantedHere ==
  /\ ~owner.here /\ owner.gen < spare.grants /\ debt = NoGrant
  /\ ServerSets([owner EXCEPT !.gen = @ + 1, !.here = TRUE, !.base = owner.committed])
  /\ UNCHANGED <<debt, clock>>

BackupAcceptedHere ==
  /\ owner.here /\ serving = GrantOf(owner) /\ spare.objectStore
  /\ \E v \in Mount : /\ volume[v].at \notin {0, owner.committed}
                       /\ ServerSets([owner EXCEPT !.committed = volume[v].at])
  /\ UNCHANGED <<debt, clock>>

ReleasedHere ==
  /\ owner.here
  /\ ServerSets([owner EXCEPT !.here = FALSE])
  /\ debt' = GrantOf(owner)
  /\ UNCHANGED clock

\* Another Node is granted the Project, runs it and backs it up.
RunElsewhere ==
  /\ ~owner.here /\ owner.gen < spare.grants /\ clock < spare.moments
  /\ clock' = clock + 1
  /\ ServerSets([owner EXCEPT !.gen = @ + 1, !.committed = clock'])
  /\ UNCHANGED debt

\* Deleted by force, and created again.
RecreatedByForce ==
  /\ owner.uid < spare.uids
  /\ ServerSets([uid |-> owner.uid + 1, gen |-> 0, here |-> FALSE, committed |-> 0, base |-> 0])
  /\ debt' = NoGrant
  /\ UNCHANGED clock

------------------------------------------------------------------------------

RestoreNext ==
  \/ EnsureVolumeData \/ EnsureNothing \/ ClearStaging \/ MakeStaging \/ FetchAndExtract
  \/ \E v \in Mount : Displace(v) \/ SwapIn(v)
  \/ \E kept, lost \in SUBSET placing.done : RollBack(kept, lost)
  \/ DropDisplaced \/ WriteMarker \/ RemoveStaging \/ StagingRemains \/ RestoreFails \/ StartContainers
  \/ AgentDies \/ ListAssigned \/ SweepStops \/ SweepStarts \/ SweepForgets \/ Quarantine
  \/ ContainersWrite \/ ContainersStop
  \/ GrantedHere \/ BackupAcceptedHere \/ ReleasedHere \/ RunElsewhere \/ RecreatedByForce

RestoreSpec == RestoreInit /\ [][RestoreNext]_restoreVars

------------------------------------------------------------------------------
(* Properties.                                                             *)

\* Containers never run on volumes of two different moments, wherever restores,
\* their rollbacks and the Agent stopped before ("Between losing recent writes and
\* serving a Project data from two different points in time", Decide), unless
\* something went past the decision since the data was last moved away (amiss).
NoMixedData ==
  (amiss = {} /\ serving # NoGrant) => Cardinality({volume[v] : v \in Mount}) = 1

\* The containers of the current assignment run on this lifetime's data, not
\* older than the backup that was committed when the assignment was granted: a
\* copy from before the Project was elsewhere is not used again.  Excepted are an
\* Agent without an object store and a start of the orphan sweep that the decision
\* would not have let through, for which the code promises nothing.
FreshData ==
  (amiss = {} /\ owner.here /\ serving = GrantOf(owner)) =>
    \A v \in Mount : /\ volume[v].uid \in {0, owner.uid}
                     /\ volume[v].at >= owner.base

\* Within one assignment nothing takes back what its containers wrote: an Agent
\* that restarts does not restore a backup over it.  Excepted is a staging
\* directory that could not be removed: restoring over it is the loss Decide
\* accepts.
WritesKept ==
  (amiss = {} /\ owner.here /\ serving = GrantOf(owner) /\ wrote.of = serving) =>
    \A v \in Mount : volume[v].at >= wrote.at
==============================================================================
