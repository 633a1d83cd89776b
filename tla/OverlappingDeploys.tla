-------------------------- MODULE OverlappingDeploys --------------------------
(***************************************************************************)
(* What a deploy leaves behind on the host when its SSH connection drops.  *)
(* ansible.cfg sets pipelining, so a task has no terminal: the remote      *)
(* command (a runtime_state.py call, or the Compose call that waits up to  *)
(* 180 seconds) is not told and runs to its end, while the operator may    *)
(* already have started `make deploy` again.  Each deploy is a process     *)
(* with a private copy of what runtime_state.py read; the files, the       *)
(* pointer and the container are shared and nothing locks them.            *)
(*                                                                         *)
(* Deploy d prepares service d, a release with its env; 0 is an absent     *)
(* file, pointer or container.                                             *)
(***************************************************************************)
EXTENDS Naturals

CONSTANTS
    N,           \* bound: the deploys of a behaviour
    MaxFaults    \* bound: connections lost, Compose calls and candidates that fail

ASSUME OverlapAssumption == N \in Nat \ {0} /\ MaxFaults \in Nat

Deploys == 1..N
Before == N + 1   \* the service accepted before these deploys
NoRecord == [prev |-> 0, cand |-> 0, env |-> 0, torn |-> FALSE]

VARIABLES
    env,         \* gateway.env
    current,     \* the pointer to the accepted release
    container,   \* the caddy container: its release and env
    recovery,    \* deployment-recovery: state.json, previous.env, partly removed or not
    at,          \* each deploy's next step
    snap,        \* each call's copy of state.json
    rescuing,    \* the deploys whose rescue section runs
    controller,  \* the deploy whose playbook still runs, 0 if none
    good,        \* the service accepted last (history variable)
    crossed,     \* has a recover run beside a transaction (history variable)?
    faults

files == <<env, current, recovery>>
process == <<snap, rescuing, controller>>
overVars == <<files, container, at, process, good, crossed, faults>>

Off == [commit |-> 0, env |-> 0]
On(c, e) == [commit |-> c, env |-> e]

\* The steps inside a command on the host, which outlives its connection.
RecoverSteps == {"recover", "restore", "up_previous", "wait_previous", "repoint",
                 "stop", "drop_env", "drop_current", "purge", "rmdir"}
Compose == {"up_previous", "wait_previous", "stop", "up", "wait"}
Transaction == {"activate", "up", "wait", "commit", "promote", "retain"}

\* A transaction that still changes something, or will: a Compose call that only waits
\* and that no playbook follows does neither.
Transacts(d) == at[d] \in Transaction /\ (at[d] = "wait" => controller = d)

\* A recover works from what it read of a snapshot while another deploy's transaction runs.
Crossing == \E d, e \in Deploys :
    d # e /\ at[d] \in RecoverSteps \ {"recover"} /\ Transacts(e)

OverInit ==
    /\ \E s \in {0, Before} :
        /\ env = s /\ current = s /\ good = s
        /\ container = IF s = 0 THEN Off ELSE On(s, s)
    /\ recovery = NoRecord /\ snap = [d \in Deploys |-> NoRecord]
    /\ at = [d \in Deploys |-> "new"]
    /\ rescuing = {} /\ controller = 0 /\ crossed = FALSE /\ faults = 0

Go(d, from, to) == at[d] = from /\ at' = [at EXCEPT ![d] = to] /\ UNCHANGED <<process, good>>
Spend == faults < MaxFaults /\ faults' = faults + 1

\* The command of deploy d is over; if its playbook still runs, that goes on at
\* `next`, or ends.
Over(d, next) ==
    LET then == IF controller = d THEN next ELSE "end" IN
    /\ at' = [at EXCEPT ![d] = then]
    /\ controller' = IF controller = d /\ then = "end" THEN 0 ELSE controller

\* It failed: the rescue section recovers, unless the recover itself failed.
Fails(d) ==
    /\ Over(d, IF at[d] \in RecoverSteps THEN "end" ELSE "recover")
    /\ rescuing' = IF controller = d /\ at[d] \notin RecoverSteps
                   THEN rescuing \cup {d} ELSE rescuing
    /\ UNCHANGED <<snap, good>>

-----------------------------------------------------------------------------
(* The operator                                                            *)

\* At any time after the last playbook ended: nothing tells the operator, and nothing in
\* make deploy asks, whether a command of a lost deploy still runs.
StartDeploy(d) ==
    /\ controller = 0 /\ at[d] = "new"
    /\ \A e \in 1..(d - 1) : at[e] # "new"
    /\ at' = [at EXCEPT ![d] = "recover"] /\ controller' = d
    /\ UNCHANGED <<files, container, snap, rescuing, good, faults>>

\* The connection drops, or the controller is killed, during a command or between
\* two: an unreachable host runs no rescue section.
LoseConnection(d) ==
    /\ controller = d /\ Spend
    /\ controller' = 0
    /\ at' \in {at, [at EXCEPT ![d] = "end"]}
    /\ UNCHANGED <<files, container, snap, rescuing, good>>

\* What release.yml, credentials.yml and the checks before begin do is not shared;
\* any of them may fail.
PrepareFails(d) ==
    /\ at[d] = "begin"
    /\ Over(d, "end")
    /\ UNCHANGED <<files, container, snap, rescuing, good, faults>>

-----------------------------------------------------------------------------
(* recover                                                                 *)

RecoverOver(d) ==
    /\ Over(d, IF d \in rescuing THEN "end" ELSE "begin")
    /\ UNCHANGED <<snap, rescuing, good>>

RecoverNothing(d) ==
    /\ at[d] = "recover" /\ recovery = NoRecord
    /\ RecoverOver(d)
    /\ UNCHANGED <<files, container, faults>>

ReadState(d) ==
    /\ at[d] = "recover" /\ recovery # NoRecord
    /\ IF recovery.torn
       THEN Fails(d)
       ELSE /\ snap' = [snap EXCEPT ![d] = recovery]
            /\ at' = [at EXCEPT ![d] = IF recovery.prev # 0 THEN "restore" ELSE "stop"]
            /\ UNCHANGED <<rescuing, controller, good>>
    /\ UNCHANGED <<files, container, faults>>

\* Mutated Restore: a previous.env that is not there is taken for an absent env.
RestoreMissing(d) ==
    /\ Go(d, "restore", "up_previous")
    /\ env' = recovery.env
    /\ UNCHANGED <<current, container, recovery, faults>>

\* previous.env is read from the directory as it is now, which may have gone, or be
\* another deployment's by now.
Restore(d) ==
    /\ at[d] = "restore"
    /\ \/ /\ recovery.env # 0
          /\ env' = recovery.env
          /\ Go(d, "restore", "up_previous")
       \/ /\ recovery.env = 0 \/ recovery.torn
          /\ env' = env
          /\ Fails(d)
    /\ UNCHANGED <<current, container, recovery, faults>>

UpPrevious(d) ==
    /\ Go(d, "up_previous", "wait_previous")
    /\ env # 0
    /\ container' = On(snap[d].prev, env)
    /\ UNCHANGED <<files, faults>>

\* --wait: another call may replace the container meanwhile; Compose then reports
\* either.
WaitPrevious(d) ==
    /\ Go(d, "wait_previous", "repoint")
    /\ UNCHANGED <<files, container, faults>>

Repoint(d) ==
    /\ Go(d, "repoint", "purge")
    /\ current' = snap[d].prev
    /\ UNCHANGED <<env, recovery, container, faults>>

Stop(d) ==
    /\ Go(d, "stop", "drop_env")
    /\ recovery # NoRecord
    /\ container' = Off
    /\ UNCHANGED <<files, faults>>

DropEnv(d) ==
    /\ Go(d, "drop_env", "drop_current")
    /\ env' = 0
    /\ UNCHANGED <<current, recovery, container, faults>>

DropCurrent(d) ==
    /\ Go(d, "drop_current", "purge")
    /\ current' = 0
    /\ UNCHANGED <<env, recovery, container, faults>>

\* rmtree removes whatever deployment-recovery is there by now, file by file.
Purge(d) ==
    /\ at[d] = "purge"
    /\ IF recovery = NoRecord
       THEN Fails(d) /\ recovery' = recovery
       ELSE Go(d, "purge", "rmdir") /\ recovery' = [recovery EXCEPT !.torn = TRUE]
    /\ UNCHANGED <<env, current, container, faults>>

PurgeEnds(d) ==
    /\ at[d] = "rmdir"
    /\ IF recovery.torn
       THEN RecoverOver(d) /\ recovery' = NoRecord
       ELSE Fails(d) /\ recovery' = recovery
    /\ UNCHANGED <<env, current, container, faults>>

-----------------------------------------------------------------------------
(* The transaction                                                         *)

CanBegin == recovery = NoRecord /\ ((current = 0) <=> (env = 0))

Begin(d) ==
    /\ at[d] = "begin"
    /\ IF CanBegin
       THEN /\ recovery' = [prev |-> current, cand |-> d, env |-> env, torn |-> FALSE]
            /\ Over(d, "activate") /\ UNCHANGED <<snap, rescuing, good>>
       ELSE recovery' = recovery /\ Fails(d)
    /\ UNCHANGED <<env, current, container, faults>>

Activate(d) ==
    /\ at[d] = "activate"
    /\ env' = d
    /\ Over(d, "up")
    /\ UNCHANGED <<current, recovery, container, snap, rescuing, good, faults>>

Up(d) ==
    /\ Go(d, "up", "wait")
    /\ env # 0
    /\ container' = On(d, env)
    /\ UNCHANGED <<files, faults>>

\* Healthy, and acceptance passes.
Wait(d) ==
    /\ at[d] = "wait" /\ container # Off
    /\ Over(d, "commit")
    /\ UNCHANGED <<files, container, snap, rescuing, good, faults>>

Commit(d) ==
    /\ at[d] = "commit"
    /\ IF recovery # NoRecord /\ ~recovery.torn /\ env = recovery.cand
       THEN /\ snap' = [snap EXCEPT ![d] = recovery]
            /\ at' = [at EXCEPT ![d] = "promote"]
            /\ UNCHANGED <<rescuing, controller, good>>
       ELSE Fails(d)
    /\ UNCHANGED <<files, container, faults>>

Promote(d) ==
    /\ Go(d, "promote", "retain")
    /\ current' = snap[d].cand
    /\ UNCHANGED <<env, recovery, container, faults>>

Retain(d) ==
    /\ at[d] = "retain"
    /\ IF recovery = NoRecord
       THEN Fails(d)
       ELSE Over(d, "end") /\ good' = d /\ UNCHANGED <<snap, rescuing>>
    /\ recovery' = NoRecord
    /\ UNCHANGED <<env, current, container, faults>>

\* What Compose cannot do without: an env file, and the container it waits for.
Hopeless(d) ==
    \/ at[d] \in {"up_previous", "up"} /\ env = 0
    \/ at[d] = "wait_previous" /\ container.commit # snap[d].prev
    \/ at[d] = "wait" /\ container.commit # d
    \/ at[d] = "stop" /\ (recovery = NoRecord \/ recovery.torn)

\* A Compose call fails, a candidate does not get healthy or is not accepted.
ComposeFails(d) ==
    /\ at[d] \in Compose
    /\ IF Hopeless(d) THEN UNCHANGED faults ELSE Spend
    /\ container' \in {container, Off}
    /\ Fails(d)
    /\ UNCHANGED files

OverNext ==
    /\ \E d \in Deploys :
        \/ StartDeploy(d) \/ LoseConnection(d) \/ PrepareFails(d)
        \/ RecoverNothing(d) \/ ReadState(d) \/ Restore(d) \/ UpPrevious(d) \/ WaitPrevious(d)
        \/ Repoint(d) \/ Stop(d) \/ DropEnv(d) \/ DropCurrent(d) \/ Purge(d) \/ PurgeEnds(d)
        \/ Begin(d) \/ Activate(d) \/ Up(d) \/ Wait(d) \/ Commit(d) \/ Promote(d) \/ Retain(d)
        \/ ComposeFails(d)
    /\ crossed' = (crossed \/ Crossing')

OverSpec == OverInit /\ [][OverNext]_overVars

\* The same with the likely timing: among the commands of lost deploys only a Compose
\* call is slow, and any other step of theirs comes before anyone else's.
Remote == RecoverSteps \cup {"begin"} \cup Transaction
Orphans == {d \in Deploys : at[d] \in Remote /\ controller # d}
OnlyComposeIsSlow == \A o \in Orphans : at[o] \in Compose \/ at'[o] # at[o]
LikelySpec == OverInit /\ [][OverNext /\ OnlyComposeIsSlow]_overVars

-----------------------------------------------------------------------------
(* Properties                                                              *)

\* When no command runs on the host and no snapshot can be restored, pointer and env
\* are those of the service accepted last and nothing else is served (runtime_state.py
\* recover), unless a recover has run beside another deploy's transaction: recovers
\* beside recovers, beside a begin or beside a Compose call left waiting do no harm.
ServesAccepted ==
    ~crossed /\ (\A d \in Deploys : at[d] \in {"new", "end"})
             /\ (recovery = NoRecord \/ recovery.torn) =>
        /\ env = good /\ current = good
        /\ container \in {On(good, good), Off}

\* docs/vps-setup.md:80: an interrupted process is recovered by the next deploy: when
\* the deploys are over and left no snapshot, an accepted service has its pointer and
\* its env back.
InterruptedIsUndone ==
    good # 0 /\ recovery = NoRecord /\ (\A d \in Deploys : at[d] \in {"new", "end"}) =>
        env = good /\ current = good
=============================================================================
