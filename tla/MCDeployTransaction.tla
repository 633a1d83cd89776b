------------------------- MODULE MCDeployTransaction -------------------------
(* The deploy role on small sets of commits, settings and credential pairs.  *)
EXTENDS DeployInvariants, TLC

CONSTANTS c1, c2, g1, g2

MCCommits == {c1, c2}
MCGenerated == {g1, g2}

\* Commits and generated pairs are interchangeable.
Symmetry == Permutations(MCCommits) \cup Permutations(MCGenerated)
=============================================================================
