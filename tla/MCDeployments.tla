--------------------------- MODULE MCDeployments ---------------------------
(* Model values and symmetry for the runs of Deployments.                  *)
EXTENDS Deployments, TLC

CONSTANTS a1, a2, u1, u2, u3

OneAgent == {a1}
TwoAgents == {a1, a2}
TwoUsers == {u1, u2}
ThreeUsers == {u1, u2, u3}

AgentUserSymmetry == Permutations(Agents) \union Permutations(Users)
=============================================================================
