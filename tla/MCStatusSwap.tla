----------------------------- MODULE MCStatusSwap -----------------------------
(***************************************************************************)
(* Instances of StatusSwap for TLC.                                        *)
(***************************************************************************)
EXTENDS StatusSwap, TLC

CONSTANTS n1, n2, u1, u2, c1, c2

MCNode1 == {n1}
MCNode2 == {n1, n2}
MCUID1 == {u1}
MCUID2 == {u1, u2}
MCCall1 == {c1}
MCCall2 == {c1, c2}

CallSymmetry == Permutations(MCCall2)
==============================================================================
