------------------------ MODULE VerificationInvariants ------------------------
(***************************************************************************)
(* The inductive strengthening of Verification's properties: that of the   *)
(* deploy role, and what a controller command may rely on.                 *)
(***************************************************************************)
EXTENDS DeployInvariants, Verification

\* A command is at one step, and at the deploy exactly while the role runs.
CommandInv ==
    /\ cmd \in {"none", "deploy", "provision", "verify", "credentials"}
    /\ step \in {"none", "deploy", "verify", "show"}
    /\ cmd = "none" <=> step = "none"
    /\ pc # "idle" <=> step = "deploy"

\* From the checks of the candidate on, the pending env is the one this run asked for.
PendingInv ==
    pc \in Check \cup Activate =>
        /\ pending.setting = job.setting
        /\ job.explicit # None => pending.cred = job.explicit

\* A provision verifies and prints only what its deploy has accepted.
DeliveredInv ==
    cmd = "provision" /\ step # "deploy" =>
        /\ recovery = None /\ current # None
        /\ container = Running(current, env)

\* While a transaction is unfinished the container, if there is one, was started from
\* one of its two releases, and with the env that belongs to it.
WholeInv ==
    Readable /\ container # None =>
        \/ /\ container.commit = recovery.meta.previous
           /\ container.env = recovery.previous
        \/ /\ container.commit = recovery.meta.candidate
           /\ container.env = recovery.candidate

\* What verify.yml has seen is still so.
VerifiedInv ==
    verified => pc = "idle" /\ current # None /\ ContainerMatches /\ ServerAccepts

VerIInv == IInv /\ CommandInv /\ PendingInv /\ DeliveredInv /\ WholeInv /\ VerifiedInv
=============================================================================
