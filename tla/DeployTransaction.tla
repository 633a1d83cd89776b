-------------------------- MODULE DeployTransaction --------------------------
(***************************************************************************)
(* The naive_gateway role that `make deploy` runs on the host              *)
(* (provisioning/roles/naive_gateway/tasks): recover, release.yml,         *)
(* credentials.yml, activate.yml and its rescue, driving the transaction   *)
(* of RuntimeState.  `pc` is the task about to run.  A deploy may die at   *)
(* any point (controller killed, SSH lost, host rebooted): a rescue does   *)
(* not run then, and the next deploy starts from what is on disk.          *)
(***************************************************************************)
EXTENDS RuntimeState, FiniteSets

CONSTANT
    MaxDeploys   \* bound: the candidates prepared in a behaviour

ASSUME MaxDeploysAssumption == MaxDeploys \in Nat

\* The parameters of one `make deploy`.
Jobs == [setting : Settings, explicit : Explicit \cup {None}]

\* A release with the env it runs with.
Services == [commit : Commits, env : Envs]

ASSUME NoRecordAssumption == None \notin Jobs \cup Services

VARIABLES
    pc,          \* the task about to run
    job,         \* the run's variables: its settings and explicit pair, if any
    deploys,     \* candidates prepared so far
    minted       \* generated pairs that were ever persisted

vars == <<rtVars, pc, job, deploys, minted>>
plan == <<job, deploys, minted>>
disk == <<active, pending, recovery, records, releases>>

\* The stages of the role, and those whose tasks lie outside the block that
\* activate.yml rescues.
Prepare == {"fetch", "create", "extract", "unarchive", "mark", "pin", "credentials"}
Check == {"validate", "build", "adapt"}
Activate == {"begin", "activate", "start", "accept", "commit"}
Stages == {"idle", "recover", "rescue"} \cup Prepare \cup Check \cup Activate

Init ==
    /\ env = None /\ pending = None /\ current = None
    /\ recovery = None /\ previous = None /\ history = {}
    /\ release = [c \in Commits |-> {}] /\ images = {} /\ container = None
    /\ stage = None /\ candidate = None /\ rt = "idle" /\ faults = 0
    /\ pc = "idle" /\ job = None /\ deploys = 0 /\ minted = {}

Then(from, to) == pc = from /\ pc' = to

\* The play ends: its facts are gone.
Finish == pc' = "idle" /\ candidate' = None /\ job' = None

-----------------------------------------------------------------------------
(* main.yml: the host checks, then recover                                 *)

StartDeploy ==
    /\ Then("idle", "recover")
    /\ rt' = "recover"
    /\ UNCHANGED <<disk, plan, stage, candidate, faults>>

Recovered ==
    /\ Then("recover", "fetch")
    /\ rt = "done" /\ rt' = "idle"
    /\ UNCHANGED <<disk, plan, stage, candidate, faults>>

RecoverFailed ==
    /\ pc = "recover"
    /\ rt = "failed" /\ rt' = "idle"
    /\ Finish
    /\ UNCHANGED <<disk, deploys, minted, stage, faults>>

-----------------------------------------------------------------------------
(* release.yml                                                             *)

FetchSource ==
    /\ Then("fetch", "create")
    /\ deploys < MaxDeploys
    /\ deploys' = deploys + 1
    /\ candidate' \in Commits
    /\ job' \in Jobs
    /\ UNCHANGED <<disk, minted, stage, rt, faults>>

AddPart(part) == release' = [release EXCEPT ![candidate] = @ \cup {part}]

\* Mutated CreateRelease: the marker is written before the tree is exported.
CreateMarked ==
    /\ Then("create", "extract")
    /\ release' = [release EXCEPT ![candidate] = @ \cup {"dir", "marker"}]
    /\ UNCHANGED <<active, pending, recovery, records, images, plan, stage, candidate, rt, faults>>

CreateRelease ==
    /\ Then("create", "extract")
    /\ AddPart("dir")
    /\ UNCHANGED <<active, pending, recovery, records, images, plan, stage, candidate, rt, faults>>

\* Mutated StartExtract: a completed release is exported again.
ExtractAgain ==
    /\ Then("extract", "unarchive")
    /\ release' = [release EXCEPT ![candidate] = @ \ {"files"}]
    /\ UNCHANGED <<active, pending, recovery, records, images, plan, stage, candidate, rt, faults>>

\* git archive, then unarchive over whatever is there: until it returns the
\* tree is partial.
StartExtract ==
    /\ Then("extract", "unarchive")
    /\ "marker" \notin release[candidate]
    /\ release' = [release EXCEPT ![candidate] = @ \ {"files"}]
    /\ UNCHANGED <<active, pending, recovery, records, images, plan, stage, candidate, rt, faults>>

SkipExtract ==
    /\ Then("extract", "pin")
    /\ "marker" \in release[candidate]
    /\ UNCHANGED <<disk, plan, stage, candidate, rt, faults>>

Unarchive ==
    /\ Then("unarchive", "mark")
    /\ AddPart("files")
    /\ UNCHANGED <<active, pending, recovery, records, images, plan, stage, candidate, rt, faults>>

MarkComplete ==
    /\ Then("mark", "pin")
    /\ AddPart("marker")
    /\ UNCHANGED <<active, pending, recovery, records, images, plan, stage, candidate, rt, faults>>

PinImage ==
    /\ Then("pin", "credentials")
    /\ AddPart("pin")
    /\ UNCHANGED <<active, pending, recovery, records, images, plan, stage, candidate, rt, faults>>

-----------------------------------------------------------------------------
(* credentials.yml                                                         *)

\* Mutated SavedEnv: only the active env counts; or the pending one goes first.
SavedActive == env
SavedPending == IF pending # None THEN pending ELSE env

\* The saved env the pair is taken from: the active one, else the pending one.
SavedEnv == IF env # None THEN env ELSE pending

WritePending(c) == pending' = [setting |-> job.setting, cred |-> c]

UseExplicit ==
    /\ Then("credentials", "validate")
    /\ job.explicit # None
    /\ WritePending(job.explicit)
    /\ UNCHANGED <<active, recovery, records, releases, plan, stage, candidate, rt, faults>>

UseSaved ==
    /\ Then("credentials", "validate")
    /\ job.explicit = None /\ SavedEnv # None
    /\ WritePending(SavedEnv.cred)
    /\ UNCHANGED <<active, recovery, records, releases, plan, stage, candidate, rt, faults>>

Generate ==
    /\ Then("credentials", "validate")
    /\ job.explicit = None /\ SavedEnv = None
    /\ \E g \in Generated : WritePending(g) /\ minted' = minted \cup {g}
    /\ UNCHANGED <<active, recovery, records, releases, job, deploys, stage, candidate, rt, faults>>

-----------------------------------------------------------------------------
(* activate.yml: the block                                                 *)

\* compose config and the container boundary, on pending.
ValidateConfig ==
    /\ Then("validate", "build")
    /\ UNCHANGED <<disk, plan, stage, candidate, rt, faults>>

\* Inspect the image, build it if it is missing.
BuildImage ==
    /\ Then("build", "adapt")
    /\ images' = images \cup {candidate}
    /\ UNCHANGED <<active, pending, recovery, records, release, plan, stage, candidate, rt, faults>>

\* caddy validate in a throw-away container, then the begin command.
ValidateCaddy ==
    /\ Then("adapt", "begin")
    /\ rt' = "begin"
    /\ UNCHANGED <<disk, plan, stage, candidate, faults>>

Begun ==
    /\ Then("begin", "activate")
    /\ rt = "done" /\ rt' = "idle"
    /\ UNCHANGED <<disk, plan, stage, candidate, faults>>

ActivateEnv ==
    /\ Then("activate", "start")
    /\ env' = pending
    /\ UNCHANGED <<pending, current, container, recovery, records, releases, plan, stage, candidate, rt, faults>>

StartCandidate ==
    /\ Then("start", "accept")
    /\ Startable(candidate)
    /\ container' = Running(candidate, env)
    /\ UNCHANGED <<env, pending, current, recovery, records, releases, plan, stage, candidate, rt, faults>>

\* HTTPS and check-server.sh pass (or public acceptance is off).
PassAcceptance ==
    /\ Then("accept", "commit")
    /\ rt' = "commit"
    /\ UNCHANGED <<disk, plan, stage, candidate, faults>>

Committed ==
    /\ pc = "commit"
    /\ rt = "done" /\ rt' = "idle"
    /\ Finish
    /\ UNCHANGED <<disk, deploys, minted, stage, faults>>

-----------------------------------------------------------------------------
(* Failures                                                                *)

\* A task outside the block fails: the play ends there.
PlayFails ==
    /\ pc \in Prepare
    /\ Finish
    /\ UNCHANGED <<disk, deploys, minted, stage, rt, faults>>

\* A task of the block fails (a bad candidate, a failed acceptance, an error of
\* begin or commit): the rescue section recovers.
Rescue == pc' = "rescue" /\ rt' = "recover"

CandidateFails ==
    /\ pc \in Check \cup {"activate", "accept"}
    /\ Rescue
    /\ UNCHANGED <<disk, plan, stage, candidate, faults>>

StartFails ==
    /\ pc = "start"
    /\ container' \in Interrupted(candidate, env)
    /\ Rescue
    /\ UNCHANGED <<env, pending, current, recovery, records, releases, plan, stage, candidate, faults>>

TransactionFails ==
    /\ pc \in {"begin", "commit"}
    /\ rt = "failed"
    /\ Rescue
    /\ UNCHANGED <<disk, plan, stage, candidate, faults>>

\* The rescue's recover returned, well or not: the deploy is reported failed.
Rescued ==
    /\ pc = "rescue"
    /\ rt \in {"done", "failed"} /\ rt' = "idle"
    /\ Finish
    /\ UNCHANGED <<disk, deploys, minted, stage, faults>>

\* The deploy dies.  A Compose command it was waiting for may have got anywhere.
Crash ==
    /\ pc # "idle"
    /\ Die
    /\ Finish
    /\ container' \in CASE pc = "start"   -> Interrupted(candidate, env)
                        [] rt = "restart" -> Interrupted(recovery.meta.previous, env)
                        [] rt = "stop"    -> {container, None}
                        [] OTHER          -> {container}
    /\ UNCHANGED <<deploys, minted>>

-----------------------------------------------------------------------------
Call == RtStep /\ UNCHANGED <<pc, plan>>
CallFault == RtFault /\ UNCHANGED <<pc, plan>>

Prepared ==
    \/ FetchSource \/ CreateRelease \/ StartExtract \/ SkipExtract
    \/ Unarchive \/ MarkComplete \/ PinImage
    \/ UseExplicit \/ UseSaved \/ Generate
    \/ ValidateConfig \/ BuildImage \/ ValidateCaddy
Activated == Begun \/ ActivateEnv \/ StartCandidate \/ PassAcceptance \/ Committed
Failed ==
    \/ RecoverFailed \/ PlayFails \/ CandidateFails \/ StartFails
    \/ TransactionFails \/ Rescued

\* Everything but the faults.
Progress == StartDeploy \/ Recovered \/ Call \/ Prepared \/ Activated \/ Failed
Fault == CallFault \/ Crash

Next == Progress \/ Fault

Spec == Init /\ [][Next]_vars

\* A process that runs goes on, and the operator runs `make deploy` again until
\* one of them gets past the recovery.  Faults are never forced.
FairSpec == Spec /\ WF_vars(Progress)

-----------------------------------------------------------------------------
(* Properties                                                              *)

TypeOK ==
    /\ env \in Envs \cup {None} /\ pending \in Envs \cup {None}
    /\ current \in Commits \cup {None}
    /\ recovery \in Snapshots \cup {None}
    /\ previous \in Snapshots \cup {None} /\ history \subseteq Snapshots
    /\ release \in [Commits -> SUBSET Parts] /\ images \subseteq Commits
    /\ container \in Containers \cup {None}
    /\ stage \in Snapshots \cup {None} /\ candidate \in Commits \cup {None}
    /\ rt \in RtStates /\ faults \in 0..MaxFaults
    /\ pc \in Stages /\ job \in Jobs \cup {None}
    /\ deploys \in 0..MaxDeploys /\ minted \subseteq Generated

\* The accepted service as the disk records it: what the snapshot would restore
\* while there is a readable one, else what the pointer and the env say.
AcceptedBar ==
    IF Readable
    THEN IF recovery.meta.previous = None THEN None
         ELSE [commit |-> recovery.meta.previous, env |-> recovery.previous]
    ELSE IF current = None THEN None ELSE [commit |-> current, env |-> env]

\* The services that the finished transactions' snapshots keep.
Archived == history \cup ({previous} \ {None})
Kept(snapshots) ==
    {[commit |-> s.meta.previous, env |-> s.previous] :
        s \in {t \in snapshots : t.meta.previous # None}}
RetainedBar == Kept(Archived)

Abstract == INSTANCE AcceptedService WITH accepted <- AcceptedBar, retained <- RetainedBar

\* Whatever fails, crashes or is retried, what the disk makes the accepted
\* service changes only at the last rename of commit, from one whole
\* (release, env) pair to another, and no replaced pair is lost
\* (runtime_state.py begin, recover, commit).
Refines == Abstract!Spec

\* Without an unfinished transaction the container that runs is the accepted
\* one: release pointer, env and container agree, also when an interrupted
\* clean-up left a torn snapshot behind.
QuietServes ==
    ~Readable => container = IF current = None THEN None ELSE Running(current, env)

\* No sequence of failures and crashes reaches a state in which begin finds env
\* and current inconsistent, or commit an env that is not the candidate's: the
\* role never runs into the refusals that would need an explicit recovery.
CallsAdmissible == (rt = "begin" => CanBegin) /\ (rt = "commit" => CanCommit)

\* A deploy that is reported successful has accepted exactly the candidate and the
\* env it prepared, and that is what runs (activate.yml's last task).
SuccessMeansAccepted ==
    pc = "commit" /\ rt = "done" =>
        /\ AcceptedBar = [commit |-> candidate, env |-> pending]
        /\ container = Running(candidate, pending)

\* A rollback always finds what it needs: the release it restarts is complete,
\* pinned and has its image, and so has every service that is retained, although
\* later deploys export, overwrite and build releases next to them.
RollbackStartable ==
    /\ \A s \in RetainedBar \cup ({AcceptedBar} \ {None}) : Startable(s.commit)
    /\ Readable => Stoppable(recovery.meta.candidate)

\* Retries never rotate: however often a first deployment fails or dies before
\* it is accepted, the role generates one pair for the host at most.
GeneratedOnce == Cardinality(minted) <= 1

\* An accepted credential pair survives every later acceptance unless that very
\* run was given another pair: a pair that was supplied to a run that failed
\* never becomes active with a later one.
KeepsCredentials ==
    [][AcceptedBar # None /\ AcceptedBar' # AcceptedBar =>
        AcceptedBar'.env.cred =
            IF job.explicit # None THEN job.explicit ELSE AcceptedBar.env.cred]_vars

\* A transaction that was interrupted is settled by the deploys that follow: its
\* snapshot is not readable for ever (main.yml runs recover first).
Settles == Readable ~> ~Readable

\* docs/vps-setup.md: an interrupted process is recovered by the next deploy.
InterruptedIsRecovered == (recovery # None) ~> (recovery = None)

\* docs/vps-setup.md: the predecessor of the accepted deployment is in
\* previous-deployment.
PredecessorInPlace == RetainedBar # {} /\ recovery = None => previous # None
=============================================================================
