-------------------------- MODULE MCProjectLifecycle --------------------------
(***************************************************************************)
(* Instances of ProjectLifecycle and OutageClocks for TLC.  A behaviour is *)
(* of one of them, chosen at the start; the other stays as it began.       *)
(***************************************************************************)
EXTENDS ProjectLifecycle, OutageClocks, TLC

CONSTANTS n1, n2, u1

MCNode == {n1, n2}
MCUID1 == {u1}

NodeSymmetry == Permutations(MCNode)

\* An outage behaviour is of one Node for longer, or of two Nodes, one of them
\* never heard from, and two assignments.
OutageBounds ==
  {[nodes |-> {n}, heard |-> {n}, time |-> 5, grants |-> 1] : n \in MCNode}
    \union {[nodes |-> MCNode, heard |-> {n}, time |-> 3, grants |-> 2] : n \in MCNode}

VARIABLES focus, bounds

WithinBounds ==
  /\ now <= bounds.time /\ project.gen <= bounds.grants
  /\ \A n \in Node \ bounds.nodes : n \notin {project.node, health.node, resched.node}
  /\ \A n \in Node \ bounds.heard : heard[n] = Never

ControlPlaneInit ==
  /\ focus \in {"lifecycle", "outage"}
  /\ bounds \in IF focus = "outage" THEN OutageBounds ELSE {"none"}
  /\ Init /\ (focus # "lifecycle" => uid = NoUID)
  /\ OutageInit

ControlPlaneNext ==
  /\ UNCHANGED <<focus, bounds>>
  /\ \/ focus = "lifecycle" /\ Next /\ UNCHANGED outageVars
     \/ focus = "outage" /\ OutageNext /\ WithinBounds' /\ UNCHANGED vars

ControlPlaneSpec == ControlPlaneInit /\ [][ControlPlaneNext]_<<vars, outageVars, focus, bounds>>
==============================================================================
