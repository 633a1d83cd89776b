---------------------------- MODULE MCVerification ----------------------------
(* Deploys, verifications and provisions of two commits, with the invariants *)
(* of the deploy role.                                                       *)
EXTENDS VerificationInvariants, TLC

CONSTANTS c1, c2, g1, g2

MCCommits == {c1, c2}
MCGenerated == {g1, g2}

\* Commits and generated pairs are interchangeable.
Symmetry == Permutations(MCCommits) \cup Permutations(MCGenerated)
=============================================================================
