------------------------------- MODULE PowerLoss -------------------------------
(***************************************************************************)
(* DeployTransaction on a host that may lose its power.  The variables of  *)
(* RuntimeState are what running processes see; `durable` is what a reboot *)
(* would find.  sync_directory (and atomic_write and point_current, which  *)
(* end in it) makes everything written so far durable; the renames at the  *)
(* end of commit, rmtree, the unlinks and Ansible's own copies become      *)
(* durable some time later.  The file system journals in order: it never   *)
(* keeps a write and loses an earlier one.  Releases, images and Docker's  *)
(* own records are taken as durable.                                       *)
(***************************************************************************)
EXTENDS DeployTransaction

VARIABLES
    durable,     \* the files a reboot would find
    reported     \* the service of the last successful deploy, until the next is accepted

files == [env |-> env, pending |-> pending, current |-> current,
          recovery |-> recovery, previous |-> previous, history |-> history]
powerVars == <<vars, durable, reported>>

PowerInit == Init /\ durable = files /\ reported = None

\* Mutated Syncing: begin returns without sync_directory(config); or nothing is synced.
SyncingNoBegin ==
    {"stage_candidate", "stage_previous", "stage_state", "restore_env", "repoint", "promote"}
SyncingNothing == {}

\* The steps whose success ends in sync_directory.
Syncing == {"stage_candidate", "stage_previous", "stage_state", "sync",
            "restore_env", "repoint", "promote"}

\* A step of the deploy; its files are durable at once if it syncs them.
Step ==
    /\ Next
    /\ durable' = IF rt \in Syncing /\ rt' \notin {"failed", "idle"} THEN files' ELSE durable
    /\ reported' = CASE Committed -> [commit |-> candidate, env |-> env]
                     [] rt = "retain" /\ rt' = "done" -> None
                     [] OTHER -> reported

\* The kernel writes its journal back.
WriteBack ==
    /\ durable # files
    /\ durable' = files
    /\ UNCHANGED <<vars, reported>>

\* The host goes down at any moment and comes up with what is durable.
LosePower ==
    /\ faults < MaxFaults
    /\ faults' = faults + 1
    /\ rt' = "idle" /\ stage' = None
    /\ env' = durable.env /\ pending' = durable.pending
    /\ current' = durable.current
    /\ recovery' = durable.recovery
    /\ previous' = durable.previous /\ history' = durable.history
    /\ Finish
    /\ container' \in CASE pc = "start"   -> Interrupted(candidate, env)
                        [] rt = "restart" -> Interrupted(recovery.meta.previous, env)
                        [] rt = "stop"    -> {container, None}
                        [] OTHER          -> {container}
    /\ UNCHANGED <<releases, deploys, minted, durable, reported>>

PowerNext == Step \/ WriteBack \/ LosePower

PowerSpec == PowerInit /\ [][PowerNext]_powerVars

-----------------------------------------------------------------------------
(* Properties                                                              *)

\* What the snapshot s would restore.
Replaced(s) ==
    IF s.meta.previous = None THEN None ELSE [commit |-> s.meta.previous, env |-> s.previous]

\* The accepted service changes when commit accepts, or when a power loss takes
\* the last acceptance back: then it is exactly the service which that one had
\* replaced, never an older one and never a mixture (runtime_state.py commit,
\* whose last renames are not synced).
OnlyLastUndone ==
    [][AcceptedBar' # AcceptedBar =>
        \/ rt = "retain" /\ rt' = "done"
        \/ previous # None /\ AcceptedBar' = Replaced(previous)]_powerVars

\* The pair that runs is never lost to a power failure: the next deploy finds it
\* in the active env, in pending or in a snapshot it can roll back to.
ServedPairOnDisk ==
    container # None =>
        container.env \in {env, pending}
                            \cup (IF Readable THEN {recovery.previous, recovery.candidate} ELSE {})

\* runtime_state.py:2 and :29: a deployment transaction is durable, a successful
\* deploy stays accepted until another one is.
ReportedIsDurable == reported # None => AcceptedBar = reported
=============================================================================
