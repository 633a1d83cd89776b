-------------------------- MODULE LifecycleInvariants --------------------------
(***************************************************************************)
(* The inductive strengthening of GatewayLifecycle's properties, as named  *)
(* parts.  runtime_state.py is called by a deploy or by a restore, so the  *)
(* parts speak of what its caller is about, whichever that is.             *)
(***************************************************************************)
EXTENDS GatewayLifecycle

\* One operator at a time.
TurnInv ==
    /\ pc # "idle" => rot = "idle" /\ res = "idle"
    /\ rot # "idle" => res = "idle"

\* What the caller of runtime_state.py is about.
Preparing == pc \in Prepare \cup Check \/ res \in {"load", "copy", "copying", "volumes"}
Beginning == pc = "begin" \/ res = "begin"
Trying == pc \in {"activate", "start", "accept"} \/ res \in {"env", "up", "accept"}
Started == pc \in {"start", "accept"} \/ res \in {"up", "accept"}
Committing == pc = "commit" \/ res = "commit"
Recovering == pc \in {"recover", "rescue"} \/ res = "undo"
CleaningUp == res \in {"rm_volumes", "rm_release"}

CallerInv ==
    /\ (pc = "idle" /\ res = "idle") \/ Preparing \/ Trying \/ CleaningUp => rt = "idle"
    /\ Beginning => rt \in {"begin", "done", "failed"} \cup BeginSteps
    /\ Committing => rt \in {"commit", "done", "failed"} \cup CommitSteps
    /\ Recovering =>
        rt \in {"recover", "purge", "done", "failed"} \cup RollbackSteps \cup StopSteps

\* No snapshot exists until begin publishes it, nor after a recover or a commit that
\* succeeded, nor while a rotation runs; a readable one exists from then to the end.
Unpublished == rt \in {"begin", "stage_candidate", "stage_previous", "stage_state", "publish"}
Published ==
    \/ Beginning /\ rt \in {"sync", "done"}
    \/ Trying
    \/ rt \in {"commit"} \cup CommitSteps
RecordInv ==
    /\ Preparing \/ Unpublished \/ (rt = "done" /\ ~Beginning) \/ CleaningUp \/ rot # "idle" =>
        recovery = None
    /\ Published \/ rt \in RollbackSteps \cup StopSteps => Readable

\* The candidate is known from the fetch on; a restore's is its archive's.
CandidateInv ==
    /\ pc \in (Prepare \ {"fetch"}) \cup Check \cup Activate => candidate # None /\ job # None
    /\ pc \in Check \cup Activate => pending # None
    /\ res # "idle" => arch # None /\ candidate = arch.commit
    /\ res \in {"volumes", "begin", "env", "up", "accept", "commit"} => pending = arch.env

\* What begin has staged so far.
StagedInv ==
    /\ Unpublished /\ rt # "begin" =>
        stage # None /\ candidate # None /\ Complete(candidate) /\ pending # None
        /\ (current # None => Complete(current))
    /\ rt = "stage_candidate" => stage = EmptySnapshot
    /\ rt = "stage_previous" =>
        current # None /\ stage = [meta |-> None, candidate |-> pending, previous |-> None]
    /\ rt = "stage_state" => stage = [meta |-> None, candidate |-> pending, previous |-> env]
    /\ rt = "publish" =>
        stage = [meta |-> [previous |-> current, candidate |-> candidate],
                 candidate |-> pending, previous |-> env]

\* The transaction that is open.
OpenInv ==
    /\ Readable => (recovery.meta.previous = None <=> recovery.previous = None)
    /\ Published => candidate = recovery.meta.candidate /\ pending = recovery.candidate
    /\ Started \/ rt \in {"commit"} \cup CommitSteps => env = recovery.candidate
    /\ rt \in {"archive", "retain"} => current = recovery.meta.candidate
    /\ rt \in RollbackSteps => recovery.meta.previous # None
    /\ rt \in {"restart", "repoint"} => env = recovery.previous
    /\ rt \in StopSteps => recovery.meta.previous = None
    /\ rt = "drop_current" => env = None
    /\ rt = "purge" => recovery # None
    /\ rt = "purge" /\ Readable => env = recovery.previous /\ current = recovery.meta.previous
    /\ ~Readable => (current = None <=> env = None)

\* What a restore has found and made: nothing of a service, and its own volumes, one of
\* which it may not know of when it undoes them.
RestoreInv ==
    /\ res \notin {"idle", "undo"} /\ ~CleaningUp => volumes = made
    /\ \A v, w \in volumes \ made : res # "idle" => v = w
    /\ res \in {"load", "copy", "copying", "volumes"} \/ CleaningUp =>
        current = None /\ env = None /\ container = None
    /\ res = "rm_release" => made = {}
    /\ res # "idle" => good = None \/ (res = "commit" /\ rt = "done")

\* The service that the disk records (AcceptedBar) is the one accepted last; after a
\* rotation that left a copy of the old env, it may have another env.
GoodInv ==
    /\ good = None => kept = {} /\ rot = "idle"
    /\ rot = "idle" =>
        /\ kept = {} => AcceptedBar = good
        /\ good # None =>
            /\ AcceptedBar # None /\ AcceptedBar.commit = good.commit
            /\ good.env \in {AcceptedBar.env} \cup kept
    /\ rot # "idle" =>
        /\ good # None /\ current = good.commit /\ env # None /\ oldEnv # None
        /\ good.env \in {oldEnv} \cup kept
        /\ kept = {} => oldEnv = good.env
        /\ rot \in {"swap", "undo_up"} => env = oldEnv

\* What runs: unless a rotation has left a copy, the accepted service when no
\* transaction is open, and the candidate or the predecessor inside one.
ServesInv ==
    kept = {} =>
        /\ ~Readable /\ rot \in {"idle", "swap"} =>
            container = IF current = None THEN None ELSE Running(current, env)
        /\ rot = "check" => container = Running(current, env)
        /\ rt = "repoint" \/ (rt = "purge" /\ Readable /\ recovery.meta.previous # None) =>
            container = Running(recovery.meta.previous, recovery.previous)
        /\ rt \in {"drop_env", "drop_current"}
                \/ (rt = "purge" /\ Readable /\ recovery.meta.previous = None) =>
            container = None
        /\ (pc = "accept" \/ res = "accept") \/ rt \in {"commit"} \cup CommitSteps =>
            container = Running(candidate, env)

LifeIInv ==
    /\ LifeTypeOK /\ TurnInv /\ CallerInv /\ RecordInv /\ CandidateInv /\ StagedInv
    /\ OpenInv /\ RestoreInv /\ GoodInv /\ ServesInv
=============================================================================
