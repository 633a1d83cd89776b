---------------------------- MODULE RuntimeState ----------------------------
(***************************************************************************)
(* scripts/runtime_state.py: the durable transaction that keeps the        *)
(* runtime env, the release pointer and the gateway container recoverable. *)
(*                                                                         *)
(* The variables are the files below /etc/naive-gateway and                *)
(* /opt/naive-gateway and the container; `rt` is the step that the one     *)
(* running begin / recover / commit call is about to make.  Each step is   *)
(* one durable write (atomic_write, a rename, a Compose call, an unlink),  *)
(* so a crash between two actions is a crash between two writes.           *)
(*                                                                         *)
(* The caller sets `candidate` and moves `rt` from "idle" to the name of   *)
(* the call; the call ends in "done" (exit 0) or "failed" (exit 1).        *)
(***************************************************************************)
EXTENDS Naturals

CONSTANTS
    Commits,     \* source revisions (40 hex digits; also the release's name)
    Settings,    \* the DOMAIN / ACME_EMAIL half of a runtime env
    Explicit,    \* credential pairs an operator supplies
    Generated,   \* credential pairs the deploy role generates
    None,        \* an absent file, pointer, container or argument
    MaxFaults    \* bound: I/O errors, failed rollbacks and crashes of a behaviour

Creds == Explicit \cup Generated
Envs == [setting : Settings, cred : Creds]

\* deployment-recovery/state.json, and a snapshot directory: each field is the
\* content of one of its files, None while that file does not exist.
Metas == [previous : Commits \cup {None}, candidate : Commits]
Snapshots == [meta      : Metas \cup {None},
              candidate : Envs \cup {None},
              previous  : Envs \cup {None}]
EmptySnapshot == [meta |-> None, candidate |-> None, previous |-> None]

Containers == [commit : Commits, env : Envs, healthy : BOOLEAN]

\* What exists of a release: its directory, the complete exported tree,
\* .release-complete, and the deployment.yml that pins its image.
Parts == {"dir", "files", "marker", "pin"}

ASSUME NoneAssumption ==
    None \notin Commits \cup Creds \cup Envs \cup Metas \cup Snapshots \cup Containers

ASSUME MaxFaultsAssumption == MaxFaults \in Nat

VARIABLES
    env,        \* gateway.env: the active runtime env
    pending,    \* gateway.env.pending: the candidate's env
    current,    \* the symlink to the accepted release
    recovery,   \* deployment-recovery: the snapshot of an unfinished deployment
    previous,   \* previous-deployment: the snapshot of the last finished one
    history,    \* deployment-history: older snapshots
    release,    \* [Commits -> SUBSET Parts]
    images,     \* the commits whose image naive-gateway-caddy:git-<commit> exists
    container,  \* the caddy container
    stage,      \* begin's private .deployment-snapshot.XXXX directory
    candidate,  \* the release argument of the call
    rt,         \* the next step of the running call
    faults      \* faults spent so far

records == <<previous, history>>
releases == <<release, images>>
active == <<env, current, container>>
rtVars == <<env, pending, current, recovery, previous, history, release, images,
            container, stage, candidate, rt, faults>>

BeginSteps == {"stage_candidate", "stage_previous", "stage_state", "publish", "sync"}
RollbackSteps == {"restore_env", "restart", "repoint"}
StopSteps == {"stop", "drop_env", "drop_current"}
CommitSteps == {"promote", "archive", "retain"}
Calls == {"begin", "recover", "commit"}
RtSteps == Calls \cup BeginSteps \cup RollbackSteps \cup StopSteps \cup {"purge"} \cup CommitSteps
RtStates == RtSteps \cup {"idle", "done", "failed"}

Goto(from, to) == rt = from /\ rt' = to

-----------------------------------------------------------------------------
(* Validation and the container                                            *)

\* release(): the marker names the commit.
Complete(c) == "marker" \in release[c]

\* state(): the snapshot is whole and names completed releases.
Readable ==
    /\ recovery # None
    /\ recovery.meta # None
    /\ Complete(recovery.meta.candidate)
    /\ recovery.meta.previous # None =>
        Complete(recovery.meta.previous) /\ recovery.previous # None
    /\ recovery.candidate # None

\* compose(): `up --no-build --pull never` needs the release's files, the pin
\* and the image; `down` needs the files and the pin.
Stoppable(c) == {"files", "pin"} \subseteq release[c]
Startable(c) == Stoppable(c) /\ c \in images

Running(c, e) == [commit |-> c, env |-> e, healthy |-> TRUE]

\* A failed or interrupted `up` may leave the old container, none, or the new
\* one in any health.
Interrupted(c, e) ==
    {container, None} \cup [commit : {c}, env : {e}, healthy : BOOLEAN]

-----------------------------------------------------------------------------
(* begin                                                                   *)

CanBegin ==
    /\ recovery = None
    /\ Complete(candidate)
    /\ current # None => Complete(current)
    /\ (current = None) <=> (env = None)
    /\ pending # None

Begin ==
    /\ Goto("begin", "stage_candidate")
    /\ CanBegin
    /\ stage' = EmptySnapshot
    /\ UNCHANGED <<active, pending, recovery, records, releases, candidate, faults>>

StageCandidate ==
    /\ Goto("stage_candidate", IF current # None THEN "stage_previous" ELSE "stage_state")
    /\ stage' = [stage EXCEPT !.candidate = pending]
    /\ UNCHANGED <<active, pending, recovery, records, releases, candidate, faults>>

StagePrevious ==
    /\ Goto("stage_previous", "stage_state")
    /\ stage' = [stage EXCEPT !.previous = env]
    /\ UNCHANGED <<active, pending, recovery, records, releases, candidate, faults>>

StageState ==
    /\ Goto("stage_state", "publish")
    /\ stage' = [stage EXCEPT !.meta = [previous |-> current, candidate |-> candidate]]
    /\ UNCHANGED <<active, pending, recovery, records, releases, candidate, faults>>

\* The rename that makes the whole snapshot the recovery record at once.
Publish ==
    /\ Goto("publish", "sync")
    /\ recovery' = stage
    /\ stage' = None
    /\ UNCHANGED <<active, pending, records, releases, candidate, faults>>

\* sync_directory(config): nothing but an error can come of it.
SyncSnapshot ==
    /\ Goto("sync", "done")
    /\ UNCHANGED <<active, pending, recovery, records, releases, stage, candidate, faults>>

-----------------------------------------------------------------------------
(* recover                                                                 *)

RecoverNothing ==
    /\ recovery = None
    /\ Goto("recover", "done")
    /\ UNCHANGED <<active, pending, recovery, records, releases, stage, candidate, faults>>

Recover ==
    /\ Readable
    /\ Goto("recover", IF recovery.meta.previous # None THEN "restore_env" ELSE "stop")
    /\ UNCHANGED <<active, pending, recovery, records, releases, stage, candidate, faults>>

\* Mutated RestoreEnv: the env of the candidate stays.
RestoreNoEnv ==
    /\ Goto("restore_env", "restart")
    /\ UNCHANGED <<active, pending, recovery, records, releases, stage, candidate, faults>>

RestoreEnv ==
    /\ Goto("restore_env", "restart")
    /\ env' = recovery.previous
    /\ UNCHANGED <<pending, current, container, recovery, records, releases, stage, candidate, faults>>

RestartPrevious ==
    /\ Goto("restart", "repoint")
    /\ Startable(recovery.meta.previous)
    /\ container' = Running(recovery.meta.previous, env)
    /\ UNCHANGED <<env, pending, current, recovery, records, releases, stage, candidate, faults>>

\* Mutated RestartFails: the result of `up` is not checked.
RestartUnchecked ==
    /\ Goto("restart", "repoint")
    /\ container' \in Interrupted(recovery.meta.previous, env)
    /\ UNCHANGED <<env, pending, current, recovery, records, releases, stage, candidate, faults>>

RestartFails ==
    /\ Goto("restart", "failed")
    /\ container' \in Interrupted(recovery.meta.previous, env)
    /\ IF Startable(recovery.meta.previous)
       THEN faults < MaxFaults /\ faults' = faults + 1
       ELSE faults' = faults
    /\ UNCHANGED <<env, pending, current, recovery, records, releases, stage, candidate>>

\* Mutated Repoint: recover returns without removing the snapshot.
RepointOnly ==
    /\ Goto("repoint", "done")
    /\ current' = recovery.meta.previous
    /\ UNCHANGED <<env, container, pending, recovery, records, releases, stage, candidate, faults>>

Repoint ==
    /\ Goto("repoint", "purge")
    /\ current' = recovery.meta.previous
    /\ UNCHANGED <<env, container, pending, recovery, records, releases, stage, candidate, faults>>

StopCandidate ==
    /\ Goto("stop", "drop_env")
    /\ Stoppable(recovery.meta.candidate)
    /\ container' = None
    /\ UNCHANGED <<env, pending, current, recovery, records, releases, stage, candidate, faults>>

StopFails ==
    /\ Goto("stop", "failed")
    /\ container' \in {container, None}
    /\ IF Stoppable(recovery.meta.candidate)
       THEN faults < MaxFaults /\ faults' = faults + 1
       ELSE faults' = faults
    /\ UNCHANGED <<env, pending, current, recovery, records, releases, stage, candidate>>

\* Mutated DropEnv: the env of the stopped candidate stays.
KeepEnv ==
    /\ Goto("drop_env", "drop_current")
    /\ UNCHANGED <<active, pending, recovery, records, releases, stage, candidate, faults>>

DropEnv ==
    /\ Goto("drop_env", "drop_current")
    /\ env' = None
    /\ UNCHANGED <<pending, current, container, recovery, records, releases, stage, candidate, faults>>

DropCurrent ==
    /\ Goto("drop_current", "purge")
    /\ current' = None
    /\ UNCHANGED <<env, container, pending, recovery, records, releases, stage, candidate, faults>>

\* shutil.rmtree(recovery): the files go one by one, in directory order, and
\* the directory itself last.
PurgeFile ==
    /\ rt = "purge"
    /\ \E file \in {"meta", "candidate", "previous"} :
        /\ recovery[file] # None
        /\ recovery' = [recovery EXCEPT ![file] = None]
    /\ UNCHANGED <<active, pending, records, releases, stage, candidate, rt, faults>>

PurgeDirectory ==
    /\ recovery = EmptySnapshot
    /\ Goto("purge", "done")
    /\ recovery' = None
    /\ UNCHANGED <<active, pending, records, releases, stage, candidate, faults>>

-----------------------------------------------------------------------------
(* commit                                                                  *)

CanCommit ==
    /\ Readable
    /\ env # None
    /\ env = recovery.candidate

Commit ==
    /\ Goto("commit", "promote")
    /\ CanCommit
    /\ UNCHANGED <<active, pending, recovery, records, releases, stage, candidate, faults>>

\* Mutated Promote: the pointer is not switched.
PromoteNothing ==
    /\ Goto("promote", "archive")
    /\ UNCHANGED <<active, pending, recovery, records, releases, stage, candidate, faults>>

Promote ==
    /\ Goto("promote", "archive")
    /\ current' = recovery.meta.candidate
    /\ UNCHANGED <<env, container, pending, recovery, records, releases, stage, candidate, faults>>

\* Mutated Archive: previous-deployment is replaced without being archived.
ArchiveNothing ==
    /\ Goto("archive", "retain")
    /\ previous' = None
    /\ UNCHANGED <<active, pending, recovery, history, releases, stage, candidate, faults>>

Archive ==
    /\ Goto("archive", "retain")
    /\ history' = IF previous # None THEN history \cup {previous} ELSE history
    /\ previous' = None
    /\ UNCHANGED <<active, pending, recovery, releases, stage, candidate, faults>>

\* The rename that accepts the candidate: it ends the transaction and keeps the
\* snapshot of what was replaced.
Retain ==
    /\ Goto("retain", "done")
    /\ previous' = recovery
    /\ recovery' = None
    /\ UNCHANGED <<active, pending, history, releases, stage, candidate, faults>>

-----------------------------------------------------------------------------
(* Errors                                                                  *)

\* A check of the call fails: it raises before it writes anything.
Refuse ==
    /\ \/ rt = "begin" /\ ~CanBegin
       \/ rt = "recover" /\ recovery # None /\ ~Readable
       \/ rt = "commit" /\ ~CanCommit
    /\ rt' = "failed"
    /\ UNCHANGED <<active, pending, recovery, records, releases, stage, candidate, faults>>

\* An I/O error at any step.  What the step wrote before it raised is covered by
\* an error at the next step; begin's finally clause removes its stage.
Raise ==
    /\ rt \in RtSteps
    /\ faults < MaxFaults
    /\ faults' = faults + 1
    /\ rt' = "failed"
    /\ stage' = None
    /\ UNCHANGED <<active, pending, recovery, records, releases, candidate>>

\* The host or the process dies.  A Compose call may have got anywhere, a
\* leftover stage directory is never read again.
Die ==
    /\ faults < MaxFaults
    /\ faults' = faults + 1
    /\ rt' = "idle"
    /\ stage' = None
    /\ UNCHANGED <<env, pending, current, recovery, records, releases>>

BeginCall == Begin \/ StageCandidate \/ StagePrevious \/ StageState \/ Publish \/ SyncSnapshot
RecoverCall ==
    \/ RecoverNothing \/ Recover
    \/ RestoreEnv \/ RestartPrevious \/ Repoint
    \/ StopCandidate \/ DropEnv \/ DropCurrent
    \/ PurgeFile \/ PurgeDirectory
CommitCall == Commit \/ Promote \/ Archive \/ Retain

\* The steps a call makes when nothing fails that need not.
RtStep ==
    \/ BeginCall \/ RecoverCall \/ CommitCall \/ Refuse
    \/ RestartFails /\ ~Startable(recovery.meta.previous)
    \/ StopFails /\ ~Stoppable(recovery.meta.candidate)

\* The steps that spend a fault.
RtFault == Raise \/ RestartFails \/ StopFails
=============================================================================
