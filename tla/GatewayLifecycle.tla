--------------------------- MODULE GatewayLifecycle ---------------------------
(***************************************************************************)
(* Everything that changes the gateway's runtime state, on one host:       *)
(* `make deploy` (DeployTransaction), `make rotate-credentials`            *)
(* (scripts/rotate-credentials.sh), `make restore`                         *)
(* (scripts/restore_runtime.py) and `make backup`                          *)
(* (scripts/backup_runtime.py).  The operators take turns, as the README   *)
(* asks them to, but each may fail or die at any step.                     *)
(***************************************************************************)
EXTENDS DeployTransaction

CONSTANTS
    Volumes,     \* the Docker volumes caddy_data and caddy_config
    Foreign      \* the archives brought from another host: a set of Services

ASSUME ForeignAssumption == Foreign \subseteq Services

VARIABLES
    rot,         \* the next step of rotate-credentials.sh
    oldEnv,      \* the running rotation's copy of the env, gateway.env.rotate.XXXXXX
    kept,        \* the copies that rotations which died or failed left behind
    res,         \* the next step of restore_runtime.py
    arch,        \* the archive it restores
    made,        \* the volumes it created
    volumes,     \* the volumes that exist
    archives,    \* the backups there are
    good         \* the service accepted last (history variable)

rotVars == <<rot, oldEnv, kept>>
resVars == <<res, arch, made>>
lifeVars == <<vars, rotVars, resVars, volumes, archives, good>>
hostVars == <<pending, recovery, records, releases, stage, candidate, rt>>
deployVars == <<pc, plan>>

LifeInit ==
    /\ Init
    /\ rot = "idle" /\ oldEnv = None /\ kept = {}
    /\ res = "idle" /\ arch = None /\ made = {}
    /\ volumes = {} /\ archives = Foreign /\ good = None

\* One operator at a time.
Idle == pc = "idle" /\ rot = "idle" /\ res = "idle"

\* commit's last rename accepts what is current.
Accepts ==
    good' = IF rt = "retain" /\ rt' = "done" THEN [commit |-> current, env |-> env] ELSE good

\* `up` creates the project's volumes; when it fails, perhaps not all of them.
UpVolumes(done) ==
    volumes' \in IF done THEN {Volumes} ELSE {volumes \cup v : v \in SUBSET Volumes}

Spend == faults < MaxFaults /\ faults' = faults + 1

-----------------------------------------------------------------------------
(* make deploy                                                             *)

DeployStart == Idle /\ StartDeploy /\ UNCHANGED <<rotVars, resVars, volumes, archives, good>>

DeployGoes ==
    /\ Recovered \/ Prepared \/ Activated \/ Failed \/ Crash
    /\ IF pc = "start" THEN UpVolumes(pc' = "accept") ELSE volumes' = volumes
    /\ UNCHANGED <<rotVars, resVars, archives, good>>

\* A step of begin, recover or commit, for whoever called it.
RuntimeCall ==
    /\ Call \/ CallFault
    /\ Accepts
    /\ UNCHANGED <<rotVars, resVars, volumes, archives>>

-----------------------------------------------------------------------------
(* make rotate-credentials                                                 *)

Rot(from, to) == rot = from /\ rot' = to /\ UNCHANGED <<hostVars, deployVars, resVars, volumes, archives>>

StartRotation ==
    /\ Idle
    /\ Rot("idle", "swap")
    /\ recovery = None /\ env # None /\ current # None
    /\ oldEnv' = env
    /\ UNCHANGED <<active, faults, kept, good>>

SwapEnv ==
    /\ Rot("swap", "up")
    /\ \E g \in Generated \ {env.cred} : env' = [env EXCEPT !.cred = g]
    /\ UNCHANGED <<current, container, faults, oldEnv, kept, good>>

RotateUp ==
    /\ Rot("up", "check")
    /\ Startable(current)
    /\ container' = Running(current, env)
    /\ UNCHANGED <<env, current, faults, oldEnv, kept, good>>

RotateUpFails ==
    /\ Rot("up", "undo")
    /\ container' \in Interrupted(current, env)
    /\ UNCHANGED <<env, current, faults, oldEnv, kept, good>>

RotationPasses ==
    /\ Rot("check", "idle")
    /\ oldEnv' = None
    /\ good' = [commit |-> current, env |-> env]
    /\ UNCHANGED <<active, faults, kept>>

\* The script ends before it has set rotation_active: its copies go, no more.
RotationStops ==
    /\ Rot("swap", "idle")
    /\ oldEnv' = None
    /\ UNCHANGED <<active, faults, kept, good>>

\* Mutated RotationFails: the exit trap only removes the copies.
RotationGivesUp ==
    /\ \E step \in {"swap", "up", "check"} : Rot(step, "idle")
    /\ oldEnv' = None
    /\ UNCHANGED <<active, faults, kept, good>>

\* The rename or check-server.sh fails, or the operator interrupts (INT, TERM).
RotationFails ==
    /\ \E step \in {"swap", "up", "check"} : Rot(step, "undo")
    /\ UNCHANGED <<active, faults, oldEnv, kept, good>>

UndoEnv ==
    /\ Rot("undo", "undo_up")
    /\ env' = oldEnv
    /\ UNCHANGED <<current, container, faults, oldEnv, kept, good>>

UndoUp ==
    /\ Rot("undo_up", "idle")
    /\ Startable(current)
    /\ container' = Running(current, env)
    /\ oldEnv' = None
    /\ UNCHANGED <<env, current, faults, kept, good>>

\* Mutated UndoFails: the copy is removed whatever the rollback did.
UndoFailsBare ==
    /\ \E step \in {"undo", "undo_up"} : Rot(step, "idle")
    /\ container' \in IF rot = "undo_up" THEN Interrupted(current, env) ELSE {container}
    /\ Spend
    /\ oldEnv' = None
    /\ UNCHANGED <<env, current, kept, good>>

\* The rollback itself fails (the copy, the rename or the restart): the old env
\* stays in its copy.
UndoFails ==
    /\ \E step \in {"undo", "undo_up"} : Rot(step, "idle")
    /\ container' \in IF rot = "undo_up" THEN Interrupted(current, env) ELSE {container}
    /\ Spend
    /\ kept' = kept \cup {oldEnv} /\ oldEnv' = None
    /\ UNCHANGED <<env, current, good>>

\* Killed, or the host died: no trap runs.
RotationDies ==
    /\ \E step \in {"swap", "up", "check", "undo", "undo_up"} : Rot(step, "idle")
    /\ container' \in
        IF rot \in {"up", "undo_up"} THEN Interrupted(current, env) ELSE {container}
    /\ Spend
    /\ kept' = kept \cup {oldEnv} /\ oldEnv' = None
    /\ UNCHANGED <<env, current, good>>

Rotation ==
    \/ StartRotation \/ SwapEnv \/ RotateUp \/ RotateUpFails \/ RotationPasses
    \/ RotationStops \/ RotationFails \/ UndoEnv \/ UndoUp \/ UndoFails \/ RotationDies

-----------------------------------------------------------------------------
(* make backup                                                             *)

\* Mutated Backup: an unfinished transaction is no obstacle; nor is a runtime that
\* was never accepted.
BackupInTransaction ==
    /\ Idle
    /\ env # None /\ current # None /\ Complete(current) /\ current \in images
    /\ archives' = archives \cup {[commit |-> current, env |-> env]}
    /\ UNCHANGED <<vars, rotVars, resVars, volumes, good>>
BackupUnaccepted ==
    /\ Idle
    /\ recovery = None
    /\ archives' = archives \cup {[commit |-> current, env |-> env]}
    /\ UNCHANGED <<vars, rotVars, resVars, volumes, good>>

Backup ==
    /\ Idle
    /\ env # None /\ current # None /\ Complete(current) /\ current \in images
    /\ recovery = None
    /\ archives' = archives \cup {[commit |-> current, env |-> env]}
    /\ UNCHANGED <<vars, rotVars, resVars, volumes, good>>

-----------------------------------------------------------------------------
(* make restore                                                            *)

Res(from, to) ==
    res = from /\ res' = to /\ UNCHANGED <<deployVars, rotVars, archives, good>>

\* Mutated StartRestore: the host is not checked.
StartRestoreOver ==
    /\ Idle
    /\ Res("idle", "load")
    /\ arch' \in archives /\ candidate' = arch'.commit /\ made' = {}
    /\ UNCHANGED <<disk, stage, rt, faults, volumes>>

\* Only onto a host without env, pointer, transaction, containers and volumes.
StartRestore ==
    /\ Idle
    /\ Res("idle", "load")
    /\ current = None /\ env = None /\ recovery = None
    /\ container = None /\ volumes = {}
    /\ arch' \in archives /\ candidate' = arch'.commit /\ made' = {}
    /\ UNCHANGED <<disk, stage, rt, faults, volumes>>

LoadImage ==
    /\ Res("load", "copy")
    /\ images' = images \cup {candidate}
    /\ UNCHANGED <<active, pending, recovery, records, release, stage, candidate, rt, faults,
                   arch, made, volumes>>

\* shutil.copytree creates the directory, then copies in directory order.
CopyTree ==
    /\ Res("copy", "copying")
    /\ release[candidate] = {}
    /\ AddPart("dir")
    /\ UNCHANGED <<active, pending, recovery, records, images, stage, candidate, rt, faults,
                   arch, made, volumes>>

CopyFile ==
    /\ Res("copying", "copying")
    /\ \E part \in Parts \ release[candidate] : AddPart(part)
    /\ UNCHANGED <<active, pending, recovery, records, images, stage, candidate, rt, faults,
                   arch, made, volumes>>

SavePending ==
    /\ Res("copying", "volumes")
    /\ release[candidate] = Parts
    /\ pending' = arch.env
    /\ UNCHANGED <<active, recovery, records, releases, stage, candidate, rt, faults,
                   arch, made, volumes>>

CreateVolume ==
    /\ Res("volumes", "volumes")
    /\ \E v \in Volumes \ made : made' = made \cup {v} /\ volumes' = volumes \cup {v}
    /\ UNCHANGED <<disk, stage, candidate, rt, faults, arch>>

\* docker volume create fails although it took effect: the volume is not among those
\* that the undo removes.
CreateVolumeFails ==
    /\ Res("volumes", "undo")
    /\ Spend
    /\ \E v \in Volumes \ made : volumes' = volumes \cup {v}
    /\ rt' = "recover"
    /\ UNCHANGED <<disk, stage, candidate, arch, made>>

RestoreBegins ==
    /\ Res("volumes", "begin")
    /\ made = Volumes
    /\ rt' = "begin"
    /\ UNCHANGED <<disk, stage, candidate, faults, arch, made, volumes>>

RestoreBegun ==
    /\ Res("begin", "env")
    /\ rt = "done" /\ rt' = "idle"
    /\ UNCHANGED <<disk, stage, candidate, faults, arch, made, volumes>>

ActivateArchive ==
    /\ Res("env", "up")
    /\ env' = arch.env
    /\ UNCHANGED <<current, container, pending, recovery, records, releases, stage, candidate,
                   rt, faults, arch, made, volumes>>

RestoreUp ==
    /\ Res("up", "accept")
    /\ Startable(candidate)
    /\ container' = Running(candidate, env)
    /\ UNCHANGED <<env, current, pending, recovery, records, releases, stage, candidate,
                   rt, faults, arch, made, volumes>>

RestorePasses ==
    /\ Res("accept", "commit")
    /\ rt' = "commit"
    /\ UNCHANGED <<disk, stage, candidate, faults, arch, made, volumes>>

RestoreEnds == arch' = None /\ made' = {} /\ candidate' = None

Restored ==
    /\ Res("commit", "idle")
    /\ rt = "done" /\ rt' = "idle"
    /\ RestoreEnds
    /\ UNCHANGED <<disk, stage, faults, volumes>>

\* An error before the try: nothing is undone.
RestoreRefuses ==
    /\ \E step \in {"load", "copy", "copying"} : Res(step, "idle")
    /\ RestoreEnds
    /\ UNCHANGED <<disk, stage, rt, faults, volumes>>

\* An error inside it: recover first.
RestoreFails ==
    /\ \/ \E step \in {"volumes", "env", "accept"} : Res(step, "undo")
       \/ rt = "failed" /\ \E step \in {"begin", "commit"} : Res(step, "undo")
    /\ rt' = "recover"
    /\ UNCHANGED <<disk, stage, candidate, faults, arch, made, volumes>>

RestoreUpFails ==
    /\ Res("up", "undo")
    /\ container' \in Interrupted(candidate, env)
    /\ rt' = "recover"
    /\ UNCHANGED <<env, current, pending, recovery, records, releases, stage, candidate, faults,
                   arch, made, volumes>>

UndoRecovered ==
    /\ Res("undo", "rm_volumes")
    /\ rt = "done" /\ rt' = "idle"
    /\ UNCHANGED <<disk, stage, candidate, faults, arch, made, volumes>>

UndoRecoverFails ==
    /\ Res("undo", "idle")
    /\ rt = "failed" /\ rt' = "idle"
    /\ RestoreEnds
    /\ UNCHANGED <<disk, stage, faults, volumes>>

RemoveVolume ==
    /\ Res("rm_volumes", "rm_volumes")
    /\ \E v \in made : made' = made \ {v} /\ volumes' = volumes \ {v}
    /\ UNCHANGED <<disk, stage, candidate, rt, faults, arch>>

\* Mutated RemoveRelease: volumes of the failed restore are left.
RemoveReleaseOnly ==
    /\ Res("rm_volumes", "rm_release")
    /\ UNCHANGED <<disk, stage, candidate, rt, faults, arch, made, volumes>>

RemoveRelease ==
    /\ Res("rm_volumes", "rm_release")
    /\ made = {}
    /\ UNCHANGED <<disk, stage, candidate, rt, faults, arch, made, volumes>>

\* shutil.rmtree, in directory order, the directory itself last.
RemovePart ==
    /\ Res("rm_release", "rm_release")
    /\ \E part \in release[candidate] :
        /\ part = "dir" => release[candidate] = {"dir"}
        /\ release' = [release EXCEPT ![candidate] = @ \ {part}]
    /\ UNCHANGED <<active, pending, recovery, records, images, stage, candidate, rt, faults,
                   arch, made, volumes>>

RestoreUndone ==
    /\ Res("rm_release", "idle")
    /\ release[candidate] = {}
    /\ RestoreEnds
    /\ UNCHANGED <<disk, stage, rt, faults, volumes>>

\* An error of the clean-up, or the process or host dies.
RestoreDies ==
    /\ res # "idle"
    /\ Die
    /\ res' = "idle"
    /\ container' \in CASE res = "up"    -> Interrupted(candidate, env)
                        [] rt = "stop"    -> {container, None}
                        [] OTHER          -> {container}
    /\ RestoreEnds
    /\ UNCHANGED <<deployVars, rotVars, volumes, archives, good>>

Restore ==
    \/ StartRestore \/ LoadImage \/ CopyTree \/ CopyFile \/ SavePending \/ CreateVolume
    \/ CreateVolumeFails
    \/ RestoreBegins \/ RestoreBegun \/ ActivateArchive \/ RestoreUp \/ RestorePasses
    \/ Restored \/ RestoreRefuses \/ RestoreFails \/ RestoreUpFails \/ UndoRecovered
    \/ UndoRecoverFails \/ RemoveVolume \/ RemoveRelease \/ RemovePart \/ RestoreUndone
    \/ RestoreDies

LifeNext == DeployStart \/ DeployGoes \/ RuntimeCall \/ Rotation \/ Backup \/ Restore

LifeSpec == LifeInit /\ [][LifeNext]_lifeVars

-----------------------------------------------------------------------------
(* Properties                                                              *)

RotSteps == {"idle", "swap", "up", "check", "undo", "undo_up"}
ResSteps == {"idle", "load", "copy", "copying", "volumes", "begin", "env", "up", "accept",
             "commit", "undo", "rm_volumes", "rm_release"}

LifeTypeOK ==
    /\ TypeOK
    /\ rot \in RotSteps /\ oldEnv \in Envs \cup {None} /\ kept \subseteq Envs
    /\ res \in ResSteps /\ arch \in Services \cup {None} /\ made \subseteq Volumes
    /\ volumes \subseteq Volumes /\ archives \subseteq Services
    /\ good \in Services \cup {None}

\* The service accepted last is never lost from the disk, whatever deploys,
\* rotations and restores fail or die after it: its release is named by the
\* pointer or the readable snapshot, its env is the active one, the snapshot's
\* or a rotation's copy.
LastAcceptedOnDisk ==
    good # None =>
        /\ good.commit \in {current} \cup (IF Readable THEN {recovery.meta.previous} ELSE {})
        /\ good.env \in {env, oldEnv} \cup kept
                          \cup (IF Readable THEN {recovery.previous} ELSE {})

\* Between the operators' turns, outside a readable transaction, pointer and env
\* are what was accepted last and that is what runs, unless a rotation died or
\* could not be rolled back and so left a copy of the old env.
AcceptedServes ==
    Idle /\ ~Readable /\ kept = {} =>
        IF good = None THEN current = None /\ env = None /\ container = None
        ELSE current = good.commit /\ env = good.env /\ container = Running(current, env)

\* A restore that fails and completes its clean-up leaves a host without env, pointer,
\* transaction, container and release, and without the volumes it has created: the only
\* one that may be left is one that Docker reported as not created (the next restore
\* refuses it); and no volume is removed (Docker would refuse) while a container uses it.
UndoneIsEmpty ==
    /\ res = "rm_volumes" => container = None
    /\ res = "rm_release" /\ release[candidate] = {} =>
        /\ current = None /\ env = None /\ recovery = None /\ container = None
        /\ made = {} /\ \A v, w \in volumes : v = w

\* A restore never touches a service that was accepted before it: the only one it
\* can replace is the one it accepted itself.
RestoreKeepsAccepted ==
    [][res # "idle" /\ good # None => UNCHANGED <<good, env, current, container>>]_lifeVars

\* A backup holds the service accepted last (as long as no rotation left a copy).
BackupIsAccepted ==
    [][archives' # archives /\ kept = {} => archives' = archives \cup {good}]_lifeVars

\* runtime_state.py release(): releases with a marker are completed releases.
MarkedIsComplete == Idle => \A c \in Commits : Complete(c) => "files" \in release[c]

\* runtime_state.py begin(): the snapshot is of the accepted state.
SnapshotIsAccepted ==
    Readable /\ good # None =>
        recovery.meta.previous = good.commit /\ recovery.previous = good.env
=============================================================================
