--------------------------- MODULE DeployInvariants ---------------------------
(***************************************************************************)
(* The inductive strengthening of DeployTransaction's safety properties,   *)
(* as named parts: what each stage of the role may rely on.  TLC checks it *)
(* as an invariant, DeployTransactionProofs proves it.                     *)
(***************************************************************************)
EXTENDS DeployTransaction

Agree == (current = None) <=> (env = None)

\* Which stage runs which call of runtime_state.py, and how far it may be.
CallInv ==
    /\ pc \in {"idle", "activate", "start", "accept"} \cup Prepare \cup Check => rt = "idle"
    /\ pc \in {"recover", "rescue"} =>
        rt \in {"recover", "purge", "done", "failed"} \cup RollbackSteps \cup StopSteps
    /\ pc = "begin" => rt \in {"begin", "done", "failed"} \cup BeginSteps
    /\ pc = "commit" => rt \in {"commit", "done", "failed"} \cup CommitSteps

\* No snapshot exists while a candidate is prepared and until begin publishes it,
\* nor after a recover or commit that succeeded.
Unpublished == rt \in {"begin", "stage_candidate", "stage_previous", "stage_state", "publish"}
Clean ==
    \/ pc \in Prepare \cup Check
    \/ Unpublished
    \/ rt = "done" /\ pc # "begin"

\* A readable one exists from its publication to the end of acceptance, and
\* while a rollback or a commit works from it.
Published ==
    \/ pc = "begin" /\ rt \in {"sync", "done"}
    \/ pc \in {"activate", "start", "accept"}
    \/ rt \in {"commit"} \cup CommitSteps
Open == Published \/ rt \in RollbackSteps \cup StopSteps

RecoveryInv == (Clean => recovery = None) /\ (Open => Readable)

\* The candidate's release is complete once it is pinned, and so is every
\* release that is current or retained.
ReleaseInv ==
    /\ \A c \in Commits : Complete(c) => "files" \in release[c]
    /\ current # None => Complete(current)
    /\ \A s \in RetainedBar : Complete(s.commit)
    /\ pc \in (Prepare \ {"fetch"}) \cup Check \cup Activate => candidate # None /\ job # None
    /\ pc = "mark" => "files" \in release[candidate]
    /\ pc \in {"pin", "credentials"} \cup Check \cup Activate => Complete(candidate)
    /\ pc \in {"credentials"} \cup Check \cup Activate => "pin" \in release[candidate]
    /\ pc \in {"adapt"} \cup Activate => candidate \in images

\* What begin has staged so far.
StageInv ==
    /\ Unpublished /\ rt # "begin" => stage # None /\ candidate # None /\ Complete(candidate)
    /\ rt = "stage_candidate" => stage = EmptySnapshot
    /\ rt = "stage_previous" =>
        current # None /\ stage = [meta |-> None, candidate |-> pending, previous |-> None]
    /\ rt = "stage_state" => stage = [meta |-> None, candidate |-> pending, previous |-> env]
    /\ rt = "publish" =>
        stage = [meta |-> [previous |-> current, candidate |-> candidate],
                 candidate |-> pending, previous |-> env]

\* A snapshot is a whole transaction: it has a previous env exactly if it names
\* a previous release.
SnapshotInv ==
    /\ Readable => (recovery.meta.previous = None <=> recovery.previous = None)
    /\ Published => candidate = recovery.meta.candidate /\ pending = recovery.candidate
    /\ pc \in {"start", "accept", "commit"} /\ Published => env = recovery.candidate
    /\ pc = "commit" /\ rt = "done" => env = pending /\ current = candidate
    /\ rt \in {"archive", "retain"} => current = recovery.meta.candidate
    /\ rt = "retain" => previous = None

\* Where a rollback is.
RollbackInv ==
    /\ rt \in RollbackSteps => recovery.meta.previous # None
    /\ rt \in {"restart", "repoint"} => env = recovery.previous
    /\ rt \in StopSteps => recovery.meta.previous = None
    /\ rt = "drop_current" => env = None
    /\ rt = "purge" => recovery # None
    /\ rt = "purge" /\ Readable => env = recovery.previous /\ current = recovery.meta.previous

\* Outside a readable transaction pointer and env agree, and a candidate exists
\* for the checks to read.
AgreeInv ==
    /\ ~Readable => Agree
    /\ pc \in Check \cup Activate => pending # None

\* A finished snapshot keeps its metadata.
ArchiveInv == \A s \in Archived : s.meta # None

\* The candidate's pair is the one this run was given, else the accepted one.
Wanted(old) == IF job.explicit # None THEN job.explicit ELSE old
CredentialInv ==
    /\ pc \in Check \/ (pc = "begin" /\ Unpublished) =>
        (env # None => pending.cred = Wanted(env.cred))
    /\ Published /\ recovery.previous # None =>
        recovery.candidate.cred = Wanted(recovery.previous.cred)

\* The pending env is never removed, so the generated pair is always found again.
GenerationInv ==
    /\ minted = {} \/ \E g \in Generated : minted = {g}
    /\ minted # {} => pending # None

\* What runs while a transaction is open.
ContainerInv ==
    /\ rt = "repoint" \/ (rt = "purge" /\ Readable /\ recovery.meta.previous # None) =>
        container = Running(recovery.meta.previous, recovery.previous)
    /\ rt \in {"drop_env", "drop_current"} \/ (rt = "purge" /\ Readable /\ recovery.meta.previous = None) =>
        container = None
    /\ pc = "accept" \/ rt \in {"commit"} \cup CommitSteps \/ (pc = "commit" /\ rt = "done") =>
        container = Running(candidate, env)

\* What holds also on a host that may lose its power (PowerLoss); that a generated pair
\* is found again does not.
CoreInv ==
    /\ TypeOK /\ CallInv /\ RecoveryInv /\ ReleaseInv /\ StageInv /\ SnapshotInv
    /\ RollbackInv /\ AgreeInv /\ ArchiveInv /\ CredentialInv /\ ContainerInv
    /\ QuietServes /\ RollbackStartable

IInv == CoreInv /\ GenerationInv
=============================================================================
