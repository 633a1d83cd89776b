---------------------------- MODULE MCProvisioning ----------------------------
(* Two checkouts of the repository, two passwords. *)
EXTENDS ProvisioningInvariants, TLC

CONSTANTS v1, v2, p1, p2

MCVersions == {v1, v2}
MCPasswords == {p1, p2}
Symmetric == Permutations(MCVersions) \cup Permutations(MCPasswords)
=============================================================================
