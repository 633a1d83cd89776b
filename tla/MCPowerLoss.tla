----------------------------- MODULE MCPowerLoss -----------------------------
(* Deploys of two commits on a host that may lose its power. *)
EXTENDS PowerInvariants, TLC

CONSTANTS c1, c2, g1, g2

MCCommits == {c1, c2}
MCGenerated == {g1, g2}
Symmetry == Permutations(MCCommits) \cup Permutations(MCGenerated)
=============================================================================
