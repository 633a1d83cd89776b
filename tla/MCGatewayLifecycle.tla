-------------------------- MODULE MCGatewayLifecycle --------------------------
(* One host's life on two commits: the first run starts empty, with an archive *)
(* from another host at hand.                                                   *)
EXTENDS LifecycleInvariants, TLC

CONSTANTS c1, c2, g1, g2, s1

MCCommits == {c1, c2}
MCGenerated == {g1, g2}
MCForeign == {[commit |-> c1, env |-> [setting |-> s1, cred |-> g1]]}
=============================================================================
