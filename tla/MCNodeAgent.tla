----------------------------- MODULE MCNodeAgent -----------------------------
(***************************************************************************)
(* Instances of NodeAgent for TLC.  A behaviour is given one of Limits at  *)
(* the start, so that one run covers several small instances: the Nodes    *)
(* and lifetimes that take part, how many assignments, Agent restarts and   *)
(* delayed reports there are, and whether Managed data is declared.  Limits hold back      *)
(* users, the scheduler and crashes, never a step fairness is asked of.    *)
(***************************************************************************)
EXTENDS NodeAgent, TLC

CONSTANTS n1, n2, u1, u2, Limits

MCNode1 == {n1}
MCNode2 == {n1, n2}
MCUID1 == {u1}
MCUID2 == {u1, u2}
Plain == {FALSE}
Managed == {TRUE}
PlainOrManaged == BOOLEAN

Symmetry == Permutations(MCNode2)

Instance(nodes, uids, gen, restarts, delayed, choices) ==
  [nodes |-> nodes, uids |-> uids, gen |-> gen, restarts |-> restarts, delayed |-> delayed,
   managed |-> choices]

\* As the constants say.
Whole == {Instance(Node, UID, MaxGen, MaxCrash, MaxLate, ManagedChoices)}

\* Two Nodes and two assignments without Managed data, with a restart or a delayed
\* report; one Node and three assignments with Managed data and a restart, or two
\* with both; and one Node on which the Project is deleted and created again.
OverlapManagedRecreated ==
  {Instance(Node, {u1}, 2, 1, 0, Plain), Instance(Node, {u1}, 2, 0, 1, Plain)}
    \union {Instance({n}, {u1}, 3, 1, 0, Managed) : n \in Node}
    \union {Instance({n}, {u1}, 2, 1, 1, Managed) : n \in Node}
    \union {Instance({n}, UID, 1, 1, 1, Plain) : n \in Node}

\* One lifetime on two Nodes; two lifetimes on one Node whose Agent restarts.
DeletionAndLeftovers ==
  {Instance(MCNode2, MCUID1, 2, 0, MaxLate, Plain), Instance(MCNode1, MCUID2, 1, 1, MaxLate, Plain)}

VARIABLE limit

WithinLimit ==
  /\ uid \in limit.uids \union {NoUID}
  /\ uid # NoUID => managed \in limit.managed
  /\ status.nodeRef \in limit.nodes \union {NoNode} /\ status.gen <= limit.gen
  /\ crashes <= limit.restarts /\ Cardinality(inflight) <= limit.delayed

LimitedNext ==
  /\ \/ ServerSide
     \/ \E n \in limit.nodes : AgentSide(n)
     \/ \E m \in inflight : LateArrival(m)
  /\ UNCHANGED limit
  /\ WithinLimit'

LimitedInit == SystemInit /\ limit \in Limits

LimitedSpec == LimitedInit /\ [][LimitedNext]_<<allVars, limit>>

\* Fairness for the Nodes that take part.
LimitedFairness ==
  /\ <>[][\A n \in Node : ~StepFails(n)]_allVars
  /\ \A n \in Node : /\ WF_allVars(n \in limit.nodes /\ TickGoesOn(n))
                     /\ SF_allVars(n \in limit.nodes /\ FullTick(n))
  /\ \A u \in UID : WF_allVars(FinalizeProject(u) /\ UNCHANGED agentVars)

LiveLimitedSpec == LimitedSpec /\ LimitedFairness
==============================================================================
