------------------------------ MODULE Scheduling ------------------------------
(***************************************************************************)
(* The scheduler and what drives it: the event bus, the deduplicating work *)
(* queue with its one-slot signal, the retry timers, the periodic resync,  *)
(* and Reconcile, which reads the phase, the Ready Nodes, the placement    *)
(* and the booked capacity of each Node in separate queries, and then      *)
(* commits.  The manager starts one worker for it.                         *)
(*                                                                         *)
(* One number stands for CPU and memory, which are booked alike.  Of the   *)
(* other writers only what moves a Project or frees capacity is kept.      *)
(***************************************************************************)
EXTENDS ProjectRecord, Integers, Sequences, FiniteSets, FiniteSetsExt

CONSTANTS Project,         \* Project names
          Primary,         \* the Nodes of the primary tier
          Sizes,           \* what the sizes book
          Offer,           \* what a Node may show: Ready and schedulable, pressure, allocatable
          InitialOffer,    \* what each Node shows at first
          NotReported,     \* the allocatable of an Agent that reports none
          BufSize,         \* capacity of the bus's subscriber channel
          Budget           \* bounds, each a choice of how many changes of Nodes, creations,
                           \* releases and failed store calls a behaviour has

ASSUME SchedulingConstants ==
  /\ Primary \subseteq Node
  /\ Sizes \subseteq Nat \ {0}
  /\ NotReported \notin Nat /\ InitialOffer \in [Node -> Offer]
  /\ Offer \subseteq [ready: BOOLEAN, pressure: BOOLEAN, alloc: Nat \union {NotReported}]
  /\ BufSize \in Nat
  /\ Budget \subseteq [nodes: Nat, creates: Nat, releases: Nat, faults: Nat]

VARIABLES
  placed,   \* per Project: phase, node, size, failedNodes, the Nodes owing cleanup, and
            \* those of them whose obligation does not permit an assignment
  offers,   \* per Node: what it shows
  events,   \* the scheduler's channel of project.created
  dirty,    \* workQueue.dirty
  notify,   \* workQueue.notify holds its signal
  timers,   \* keys waiting to be queued again after an error or a Requeue
  worker,   \* the worker and what its Reconcile has read
  left      \* what is left of the behaviour's budget

schedVars == <<placed, offers, events, dirty, notify, timers, worker, left>>

Absent == [phase |-> "Absent", node |-> NoNode, size |-> 0, failed |-> {}, owing |-> {}, blocking |-> {}]

IdleWorker == [pc |-> "idle", name |-> "none", nodes |-> <<>>, size |-> 0,
               excluded |-> {}, todo |-> {}, used |-> <<>>]

SchedInit ==
  /\ placed = [p \in Project |-> Absent]
  /\ offers = InitialOffer
  /\ events = <<>> /\ dirty = {} /\ notify = FALSE /\ timers = {}
  /\ worker = IdleWorker
  /\ left \in Budget

------------------------------------------------------------------------------
(* The bus and the queue.                                                  *)

\* Bus.Publish never blocks: a full channel loses the event.
Publish(p) == events' = IF Len(events) < BufSize THEN Append(events, p) ELSE events

\* workQueue.Enqueue of each of names: a name already waiting sends no signal.
Enqueue(names) ==
  /\ dirty' = dirty \union names
  /\ notify' = (notify \/ names \ dirty # {})

\* Seed: an event, the resync ticker.
SeedReceives ==
  /\ events # <<>>
  /\ events' = Tail(events)
  /\ Enqueue({Head(events)})
  /\ UNCHANGED <<placed, offers, timers, worker, left>>

\* Seeded fault: the list of a phase that no longer needs the scheduler.
ResyncScheduled ==
  /\ Enqueue({p \in Project : placed[p].phase = "Scheduled"})
  /\ UNCHANGED <<placed, offers, events, timers, worker, left>>

ResyncPending ==
  /\ Enqueue({p \in Project : placed[p].phase = "Pending"})
  /\ UNCHANGED <<placed, offers, events, timers, worker, left>>

TimerFires(p) ==
  /\ p \in timers
  /\ timers' = timers \ {p}
  /\ Enqueue({p})
  /\ UNCHANGED <<placed, offers, events, worker, left>>

\* workQueue.Get takes the signal before it takes the lock.
GetSignal ==
  /\ worker.pc = "idle" /\ notify
  /\ notify' = FALSE
  /\ worker' = [worker EXCEPT !.pc = "awake"]
  /\ UNCHANGED <<placed, offers, events, dirty, timers, left>>

\* Seeded fault: the keys left behind are not announced again.
GetPopSilently(p) ==
  /\ worker.pc = "awake" /\ p \in dirty
  /\ dirty' = dirty \ {p}
  /\ worker' = [IdleWorker EXCEPT !.pc = "phase", !.name = p]
  /\ UNCHANGED <<placed, offers, events, notify, timers, left>>

GetPop(p) ==
  /\ worker.pc = "awake" /\ p \in dirty
  /\ dirty' = dirty \ {p}
  /\ notify' = (notify \/ dirty' # {})
  /\ worker' = [IdleWorker EXCEPT !.pc = "phase", !.name = p]
  /\ UNCHANGED <<placed, offers, events, timers, left>>

------------------------------------------------------------------------------
(* Reconcile.                                                              *)

Reads(w) ==
  /\ worker' = w
  /\ UNCHANGED <<placed, offers, events, dirty, notify, timers, left>>

\* runWorker after Reconcile returned an error or Requeue.
Retries ==
  /\ worker' = IdleWorker
  /\ timers' = timers \union {worker.name}
  /\ UNCHANGED <<placed, offers, events, dirty, notify>>

Reconciling == worker.pc \notin {"idle", "awake", "ended"}

ReconcileFails ==
  /\ Reconciling /\ left.faults > 0
  /\ Retries
  /\ left' = [left EXCEPT !.faults = @ - 1]

\* A store call that returns the error of a context ends the worker for good: at
\* shutdown, or when the driver times out.
WorkerEnds ==
  /\ Reconciling /\ left.faults > 0
  /\ worker' = [IdleWorker EXCEPT !.pc = "ended"]
  /\ left' = [left EXCEPT !.faults = @ - 1]
  /\ UNCHANGED <<placed, offers, events, dirty, notify, timers>>

GetProjectPhase ==
  /\ worker.pc = "phase"
  /\ Reads(IF placed[worker.name].phase = "Pending" THEN [worker EXCEPT !.pc = "nodes"] ELSE IdleWorker)

ReadyNodes == {n \in Node : offers[n].ready}

ListReadyNodes ==
  /\ worker.pc = "nodes"
  /\ IF ReadyNodes = {} THEN Retries /\ UNCHANGED left
     ELSE Reads([worker EXCEPT !.pc = "placement", !.nodes = [n \in ReadyNodes |-> offers[n]]])

GetProjectPlacement ==
  LET p == placed[worker.name] IN
  /\ worker.pc = "placement"
  /\ Reads(IF p.phase = "Absent" THEN IdleWorker
           ELSE [worker EXCEPT !.pc = "filter", !.size = p.size, !.excluded = p.failed \union p.owing,
                               !.todo = DOMAIN worker.nodes])

\* Seeded fault: a Project that has not reported Running yet books nothing.
LedgerPhasesStarted == {"Running", "Terminating"}

LedgerPhases == {"Scheduled", "Running", "Terminating"}

\* CapacityLedger.Used, counting phases.
Used(n, phases) ==
  LET On == {p \in Project : placed[p].node = n /\ placed[p].phase \in phases} IN
  MapThenSumSet(LAMBDA p : placed[p].size, On)

\* Seeded fault: Nodes the Project failed on are not left out.
EligibleAnywhere(n) ==
  /\ ~worker.nodes[n].pressure
  /\ worker.nodes[n].alloc # NotReported

\* filterNodes up to the ledger, which needs no query.
Eligible(n) ==
  /\ n \notin worker.excluded
  /\ ~worker.nodes[n].pressure
  /\ worker.nodes[n].alloc # NotReported

\* filterNodes, one Node: a query of its own.  A Node that fits is kept with its usage.
CheckNode(n) ==
  /\ worker.pc = "filter" /\ n \in worker.todo
  /\ LET fits == Eligible(n) /\ Used(n, LedgerPhases) + worker.size <= worker.nodes[n].alloc
     IN Reads([worker EXCEPT !.todo = @ \ {n},
                             !.used = IF fits THEN [m \in DOMAIN @ \union {n} |->
                                                      IF m = n THEN Used(n, LedgerPhases) ELSE @[m]]
                                      ELSE @])

\* leastAllocated of a against that of b: what stays free, as a share.
Emptier(a, b) ==
  LET Free(n) == worker.nodes[n].alloc - worker.used[n] - worker.size
  IN Free(a) * worker.nodes[b].alloc >= Free(b) * worker.nodes[a].alloc

\* scoreCandidate: the tier decides, then the share left free.  pickBest breaks
\* ties by name; here any of the best may win.
AtLeastAsGood(a, b) ==
  IF (a \in Primary) = (b \in Primary) THEN Emptier(a, b) ELSE a \in Primary

Best == {a \in DOMAIN worker.used : \A b \in DOMAIN worker.used : AtLeastAsGood(a, b)}

NoCandidate ==
  /\ worker.pc = "filter" /\ worker.todo = {} /\ DOMAIN worker.used = {}
  /\ Retries
  /\ UNCHANGED left

\* What the commit looks at again: the phase, BlockingObligation, which refuses every
\* Node, and what this Node owes.
MayBeAssigned(p, n) ==
  placed[p].phase = "Pending" /\ placed[p].blocking = {} /\ n \notin placed[p].owing

\* A refusal is ErrConflictState, which is not retried.
SetProjectScheduled(n) ==
  /\ worker.pc = "filter" /\ worker.todo = {} /\ n \in Best
  /\ LET p == worker.name IN
     IF placed[p].phase = "Absent" THEN Retries /\ UNCHANGED left
     ELSE /\ placed' = IF MayBeAssigned(p, n)
                         THEN [placed EXCEPT ![p].phase = "Scheduled", ![p].node = n]
                         ELSE placed
          /\ worker' = IdleWorker
          /\ UNCHANGED <<offers, events, dirty, notify, timers, left>>

------------------------------------------------------------------------------
(* Everyone else.                                                          *)

CreateProject(p, s) ==
  /\ placed[p].phase = "Absent" /\ left.creates > 0
  /\ placed' = [placed EXCEPT ![p] = [Absent EXCEPT !.phase = "Pending", !.size = s]]
  /\ left' = [left EXCEPT !.creates = @ - 1]
  /\ Publish(p)
  /\ UNCHANGED <<offers, dirty, notify, timers, worker>>

Updates(p, r) ==
  /\ placed' = [placed EXCEPT ![p] = r]
  /\ UNCHANGED <<offers, events, dirty, notify, timers, worker, left>>

\* changeSpec: the size is frozen while the Project is assigned.
UpdateProjectSpec(p, s) ==
  /\ placed[p].phase \in {"Pending", "Scheduled", "Running", "Failed"}
  /\ placed[p].node = NoNode \/ s = placed[p].size
  /\ <<s, {}>> # <<placed[p].size, placed[p].failed>>
  /\ Updates(p, [placed[p] EXCEPT !.size = s, !.failed = {}])

AgentReported(p, ph) ==
  /\ placed[p].phase # ph /\ PhaseTransitionAllowed("Agent", placed[p].phase, ph)
  /\ Updates(p, [placed[p] EXCEPT !.phase = ph])

\* ReleaseAssignment, a takeover, or MoveFailedProject.  A grace-expiry release and a
\* takeover permit the next assignment, WorkloadStopped does not.
AssignmentReleased(p, failed, permits) ==
  /\ placed[p].phase \in IF failed THEN {"Failed"} ELSE {"Scheduled", "Running"}
  /\ failed => ~permits
  /\ left.releases > 0
  /\ placed' = [placed EXCEPT ![p] = [placed[p] EXCEPT !.phase = "Pending", !.node = NoNode,
                                         !.owing = @ \union {placed[p].node},
                                         !.blocking = IF permits THEN @ ELSE @ \union {placed[p].node},
                                         !.failed = IF failed THEN @ \union {placed[p].node} ELSE @]]
  /\ left' = [left EXCEPT !.releases = @ - 1]
  /\ UNCHANGED <<offers, events, dirty, notify, timers, worker>>

\* An operator overrides the release, or the containers are gone and Managed data
\* is still owed.
AssignmentPermitted(p, n) ==
  /\ n \in placed[p].blocking
  /\ Updates(p, [placed[p] EXCEPT !.blocking = @ \ {n}])

ResourcesReported(p, n) ==
  /\ n \in placed[p].owing
  /\ Updates(p, [placed[p] EXCEPT !.owing = @ \ {n}, !.blocking = @ \ {n}])

\* deleteProject marks; FinalizeProject removes once nothing is owed.
MarkedForDeletion(p) ==
  /\ placed[p].phase # "Terminating" /\ PhaseTransitionAllowed("DeleteAPI", placed[p].phase, "Terminating")
  /\ Updates(p, [placed[p] EXCEPT !.phase = "Terminating"])

ProjectRemoved(p) ==
  /\ placed[p].phase = "Terminating" /\ placed[p].owing = {}
  /\ Updates(p, Absent)

NodeReports(n, offer) ==
  /\ left.nodes > 0 /\ offer # offers[n]
  /\ offers' = [offers EXCEPT ![n] = offer]
  /\ left' = [left EXCEPT !.nodes = @ - 1]
  /\ UNCHANGED <<placed, events, dirty, notify, timers, worker>>

------------------------------------------------------------------------------

ReconcileStep ==
  \/ GetSignal \/ GetProjectPhase \/ ListReadyNodes \/ GetProjectPlacement
  \/ \E n \in Node : CheckNode(n) \/ SetProjectScheduled(n)
  \/ NoCandidate

SchedNext ==
  \/ SeedReceives \/ ResyncPending \/ ReconcileStep \/ ReconcileFails \/ WorkerEnds
  \/ \E p \in Project : TimerFires(p) \/ GetPop(p) \/ MarkedForDeletion(p) \/ ProjectRemoved(p)
  \/ \E p \in Project, s \in Sizes : CreateProject(p, s) \/ UpdateProjectSpec(p, s)
  \/ \E p \in Project, ph \in {"Running", "Failed"} : AgentReported(p, ph)
  \/ \E p \in Project, failed, permits \in BOOLEAN : AssignmentReleased(p, failed, permits)
  \/ \E p \in Project, n \in Node : AssignmentPermitted(p, n) \/ ResourcesReported(p, n)
  \/ \E n \in Node, offer \in Offer : NodeReports(n, offer)

\* The ticker, the seed loop, the timers and the worker, until it ends, keep running.  Get takes
\* an arbitrary key; Go's random map order passes over none for ever.
SchedFairness ==
  /\ WF_schedVars(SeedReceives) /\ WF_schedVars(ResyncPending) /\ WF_schedVars(ReconcileStep)
  /\ \A p \in Project : WF_schedVars(TimerFires(p)) /\ SF_schedVars(GetPop(p))

SchedSpec == SchedInit /\ [][SchedNext]_schedVars /\ SchedFairness

------------------------------------------------------------------------------
(* Properties.                                                             *)

\* A key that waits is announced or about to be taken: Enqueue of a waiting key
\* sends no signal, so a wake-up lost here would outlast every resync.
NoLostWakeup == (dirty # {} /\ worker.pc # "awake") => notify

\* The step in which worker.name is bound to n.
Binds(n) == \E p \in Project : placed[p].phase = "Pending" /\ placed'[p].phase = "Scheduled" /\ placed'[p].node = n

\* The placement is decided on usage read Node by Node and committed unchecked.
\* Still, a Project whose size did not change meanwhile never takes a Node whose
\* offer did not change past it: nobody else books Nodes (CapacityLedger).
FitsWhenBound ==
  [][\A n \in Node :
       (Binds(n) /\ worker.size = placed[worker.name].size /\ worker.nodes[n] = offers[n]) =>
          Used(n, {"Scheduled", "Running"}) + worker.size <= offers[n].alloc]_schedVars

\* A Project is never bound to a Node it failed on and was moved off, although
\* SetProjectScheduled does not look at FailedNodes again.
NeverBackToFailed ==
  [][\A n \in Node : Binds(n) => n \notin placed[worker.name].failed]_schedVars

Placeable(p) ==
  /\ placed[p].phase = "Pending" /\ placed[p].blocking = {}
  /\ \E n \in Node : /\ offers[n].ready /\ ~offers[n].pressure /\ offers[n].alloc # NotReported
                     /\ n \notin placed[p].failed \union placed[p].owing
                     /\ Used(n, LedgerPhases) + placed[p].size <= offers[n].alloc

\* No Project stays Pending for ever while no obligation blocks it and some Node can
\* take it, although events are dropped, store calls fail and refusals are not
\* retried.  That is for as long as the one worker lives: nothing starts another.
PendingIsPlaced == \A p \in Project : []<>(~Placeable(p) \/ worker.pc = "ended")
==============================================================================
