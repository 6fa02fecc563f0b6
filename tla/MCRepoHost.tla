------------------------------ MODULE MCRepoHost ------------------------------
(***************************************************************************)
(* An instance of RepoHost for TLC: two lifetimes of one Project, which    *)
(* share its network, and one of another.                                  *)
(***************************************************************************)
EXTENDS RepoHost

MCLifetime == {"a1", "a2", "b"}
MCNetworkOf == [u \in MCLifetime |-> IF u = "b" THEN "nb" ELSE "na"]

\* Three calls, of which one fails and one is cut off by the Agent's death.
MCHostLimits == {[calls |-> 3, failures |-> 1, exits |-> 0, deaths |-> 1]}
==============================================================================
