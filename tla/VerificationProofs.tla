-------------------------- MODULE VerificationProofs --------------------------
(***************************************************************************)
(* Proofs about Verification: whatever deploys, verifications and          *)
(* provisions are run, `make verify` agrees with the deploy role, and      *)
(* `make provision` prints nothing but the accepted pair.                  *)
(***************************************************************************)
EXTENDS VerificationInvariants, DeployTransactionProofs

USE NoneAssumption, NoRecordAssumption
    DEF active, records, releases, plan, disk, rtVars, vars, verVars, Then, Goto, Finish,
        Stages, Prepare, Check, Activate

\* The controller's steps run the role's: each is a step of DeployTransaction.
LEMMA RoleStep == ASSUME [VerNext]_verVars PROVE [Next]_vars
  BY DEF VerNext, Deploy, DeployRuns, StartVerify, VerifyPass, VerifyFail,
         StartCredentials, Show, ShowFails, Next, Progress, Fault

\* No step of a call touches the pending env or the run's variables.
LEMMA CallsSparePending == ASSUME Call \/ CallFault PROVE UNCHANGED <<pending, job, pc>>
  BY DEF Call, CallFault, RtStep, RtFault, BeginCall, RecoverCall, CommitCall, Refuse, Raise,
         Begin, StageCandidate, StagePrevious, StageState, Publish, SyncSnapshot,
         RecoverNothing, Recover, RestoreEnv, RestartPrevious, RestartFails, Repoint,
         StopCandidate, StopFails, DropEnv, DropCurrent, PurgeFile, PurgeDirectory,
         Commit, Promote, Archive, Retain

LEMMA PendingKeeps == ASSUME PendingInv, [Next]_vars PROVE PendingInv'
<1>1. CASE Call \/ CallFault
  BY <1>1, CallsSparePending DEF PendingInv
<1>2. CASE StartDeploy \/ Recovered \/ Crash
  BY <1>2 DEF PendingInv, StartDeploy, Recovered, Crash
<1>3. CASE UseExplicit \/ UseSaved \/ Generate
  BY <1>3 DEF PendingInv, UseExplicit, UseSaved, Generate, WritePending
<1>4. CASE Prepared /\ ~(UseExplicit \/ UseSaved \/ Generate)
  BY <1>4 DEF PendingInv, Prepared, FetchSource, CreateRelease, StartExtract, SkipExtract,
              Unarchive, MarkComplete, PinImage, ValidateConfig, BuildImage, ValidateCaddy
<1>5. CASE Activated
  BY <1>5 DEF PendingInv, Activated, Begun, ActivateEnv, StartCandidate, PassAcceptance, Committed
<1>6. CASE Failed
  BY <1>6 DEF PendingInv, Failed, RecoverFailed, PlayFails, CandidateFails, StartFails,
              TransactionFails, Rescued, Rescue
<1>7. CASE UNCHANGED vars
  BY <1>7 DEF PendingInv
<1> QED
  BY <1>1, <1>2, <1>3, <1>4, <1>5, <1>6, <1>7 DEF Next, Progress, Fault

\* Once commit has returned, the deploy ends there or dies, and leaves the host alone.
LEMMA CommitEnds ==
  ASSUME Call \/ CallFault \/ Recovered \/ Prepared \/ Activated \/ Failed \/ Crash,
         pc = "commit", rt = "done", pc' = "idle"
  PROVE  UNCHANGED <<env, current, container, recovery>>
<1>1. ~(Call \/ CallFault)
  BY CallsSparePending
<1>2. ~(Recovered \/ Prepared)
  BY DEF Recovered, Prepared, FetchSource, CreateRelease, StartExtract, SkipExtract, Unarchive,
         MarkComplete, PinImage, UseExplicit, UseSaved, Generate, ValidateConfig, BuildImage,
         ValidateCaddy
<1>3. CASE Activated
  BY <1>3 DEF Activated, Begun, ActivateEnv, StartCandidate, PassAcceptance, Committed
<1>4. ~Failed
  BY DEF Failed, RecoverFailed, PlayFails, CandidateFails, StartFails, TransactionFails, Rescued
<1>5. CASE Crash
  BY <1>5 DEF Crash, Die
<1> QED
  BY <1>1, <1>2, <1>3, <1>4, <1>5

\* What a successful deploy leaves behind is accepted, and runs.
LEMMA AcceptedByCommit ==
  ASSUME CoreInv, pc = "commit", rt = "done"
  PROVE  /\ recovery = None /\ ~Readable /\ current # None /\ current = candidate
         /\ env = pending /\ env # None
         /\ container = Running(current, env)
  BY DEF CoreInv, TypeOK, RecoveryInv, Clean, SnapshotInv, ContainerInv, ReleaseInv, AgreeInv, Agree,
         Readable

\* A container with a release and an env is one.
LEMMA RunningIsSome ==
  ASSUME CoreInv, current # None, env # None
  PROVE  Running(current, env) # None
<1>1. current \in Commits /\ env \in Envs
  BY DEF CoreInv, TypeOK
<1>2. Running(current, env) \in Containers
  BY <1>1 DEF Running, Containers
<1> QED
  BY <1>2

LEMMA CommandKeeps == ASSUME CommandInv, [VerNext]_verVars PROVE CommandInv'
<1> USE DEF CommandInv
<1>1. CASE Deploy
  BY <1>1 DEF Deploy, StartDeploy
<1>2. CASE DeployRuns
  BY <1>2 DEF DeployRuns, Ended
<1>3. CASE StartVerify \/ VerifyPass \/ VerifyFail
  BY <1>3 DEF StartVerify, VerifyPass, VerifyFail, Resting
<1>4. CASE StartCredentials \/ Show \/ ShowFails
  BY <1>4 DEF StartCredentials, Show, ShowFails, Resting
<1>5. CASE UNCHANGED verVars
  BY <1>5
<1> QED
  BY <1>1, <1>2, <1>3, <1>4, <1>5 DEF VerNext

LEMMA DeliveredKeeps == ASSUME VerIInv, [VerNext]_verVars PROVE DeliveredInv'
<1> USE DEF VerIInv, IInv, CommandInv, DeliveredInv
<1>1. CASE Deploy
  BY <1>1 DEF Deploy
<1>2. CASE DeployRuns
  <2> SUFFICES ASSUME cmd' = "provision", step' # "deploy"
               PROVE  recovery' = None /\ current' # None /\ container' = Running(current', env')
    BY DEF Running
  <2>1. pc' = "idle" /\ pc = "commit" /\ rt = "done"
    BY <1>2 DEF DeployRuns, Ended
  <2>2. UNCHANGED <<env, current, container, recovery>>
    BY <1>2, <2>1, CommitEnds DEF DeployRuns
  <2> QED
    BY <2>1, <2>2, AcceptedByCommit
<1>3. CASE StartVerify \/ VerifyPass \/ VerifyFail
  BY <1>3 DEF StartVerify, VerifyPass, VerifyFail, Running
<1>4. CASE StartCredentials \/ Show \/ ShowFails
  BY <1>4 DEF StartCredentials, Show, ShowFails, Running
<1>5. CASE UNCHANGED verVars
  BY <1>5 DEF Running
<1> QED
  BY <1>1, <1>2, <1>3, <1>4, <1>5 DEF VerNext

\* No step of a call but those of a rollback touches the container, and while it is
\* readable none changes the snapshot.
LEMMA WholeInCalls == ASSUME CoreInv, WholeInv, Call \/ CallFault PROVE WholeInv'
<1> USE DEF WholeInv, Readable, Complete, Goto
<1>1. CASE BeginCall
  BY <1>1 DEF BeginCall, Begin, StageCandidate, StagePrevious, StageState, Publish, SyncSnapshot,
              CoreInv, StageInv, QuietServes, Running, RecoveryInv, Clean, Unpublished
<1>2. CASE RecoverCall
  <2>1. CASE PurgeFile
    <3>1. PICK file \in {"meta", "candidate", "previous"} :
            recovery[file] # None /\ recovery' = [recovery EXCEPT ![file] = None]
      BY <2>1 DEF PurgeFile
    <3>2. recovery \in Snapshots /\ recovery # None /\ UNCHANGED <<container, release>>
      BY <2>1 DEF PurgeFile, CoreInv, TypeOK, RollbackInv
    <3>3. CASE file \in {"meta", "candidate"}
      BY <3>1, <3>2, <3>3 DEF Snapshots
    <3>4. CASE file = "previous"
      <4>1. /\ recovery # None /\ recovery \in Snapshots /\ recovery.previous # None
            /\ recovery'.meta = recovery.meta /\ recovery'.candidate = recovery.candidate
            /\ recovery'.previous = None
        BY <3>1, <3>2, <3>4 DEF Snapshots
      <4>2. ASSUME Readable' PROVE FALSE
        <5>1. recovery.meta # None /\ recovery.meta.previous = None /\ recovery.candidate # None
          BY <4>1, <4>2
        <5>2. Readable
          BY <3>2, <4>1, <4>2, <5>1
        <5> QED
          BY <4>1, <5>1, <5>2 DEF CoreInv, SnapshotInv
      <4> QED
        BY <4>2
    <3> QED
      BY <3>1, <3>3, <3>4
  <2>2. CASE ~PurgeFile
    BY <1>2, <2>2 DEF RecoverCall, RecoverNothing, Recover, RestoreEnv, RestartPrevious, Repoint,
              StopCandidate, DropEnv, DropCurrent, PurgeDirectory, CoreInv, RollbackInv, RollbackSteps,
              Running
  <2> QED
    BY <2>1, <2>2
<1>3. CASE CommitCall
  BY <1>3 DEF CommitCall, Commit, Promote, Archive, Retain
<1>4. CASE Refuse \/ Raise
  BY <1>4 DEF Refuse, Raise
<1>5. CASE RestartFails \/ StopFails
  BY <1>5 DEF RestartFails, StopFails, Interrupted, CoreInv, RollbackInv, RollbackSteps
<1> QED
  BY <1>1, <1>2, <1>3, <1>4, <1>5 DEF Call, CallFault, RtStep, RtFault

LEMMA WholeKeeps == ASSUME CoreInv, WholeInv, [Next]_vars PROVE WholeInv'
<1> USE DEF WholeInv, Readable, Complete
<1>1. CASE Call \/ CallFault
  BY <1>1, WholeInCalls
<1>2. CASE StartDeploy \/ Recovered
  BY <1>2 DEF StartDeploy, Recovered
<1>3. CASE Prepared
  <2>1. recovery' = None
    BY <1>3 DEF CoreInv, RecoveryInv, Clean, Prepared, FetchSource, CreateRelease, StartExtract,
                SkipExtract, Unarchive, MarkComplete, PinImage, UseExplicit, UseSaved, Generate,
                ValidateConfig, BuildImage, ValidateCaddy
  <2> QED
    BY <2>1
<1>4. CASE Activated
  BY <1>4 DEF Activated, Begun, ActivateEnv, StartCandidate, PassAcceptance, Committed, Running,
              CoreInv, SnapshotInv, Published
<1>5. CASE Failed
  BY <1>5 DEF Failed, RecoverFailed, PlayFails, CandidateFails, StartFails, TransactionFails,
              Rescued, Rescue, Interrupted, CoreInv, SnapshotInv, Published
<1>6. CASE Crash
  BY <1>6 DEF Crash, Die, Interrupted, CoreInv, SnapshotInv, Published, RollbackInv, RollbackSteps
<1>7. CASE UNCHANGED vars
  BY <1>7
<1> QED
  BY <1>1, <1>2, <1>3, <1>4, <1>5, <1>6, <1>7 DEF Next, Progress, Fault

LEMMA VerifiedKeeps == ASSUME VerIInv, [VerNext]_verVars PROVE VerifiedInv'
<1> USE DEF VerIInv, CommandInv, VerifiedInv, ContainerMatches, ServerAccepts, Stoppable
<1>1. CASE Deploy
  BY <1>1 DEF Deploy
<1>2. CASE DeployRuns
  BY <1>2 DEF DeployRuns
<1>3. CASE StartVerify \/ VerifyFail
  BY <1>3 DEF StartVerify, VerifyFail
<1>4. CASE VerifyPass
  BY <1>4 DEF VerifyPass, VerifyPasses, PointerMatches
<1>5. CASE StartCredentials \/ Show \/ ShowFails
  BY <1>5 DEF StartCredentials, Show, ShowFails
<1>6. CASE UNCHANGED verVars
  BY <1>6
<1> QED
  BY <1>1, <1>2, <1>3, <1>4, <1>5, <1>6 DEF VerNext

-----------------------------------------------------------------------------
(* Theorems                                                                *)

\* The strengthening holds whatever commands are run: those of the role, and what the
\* controller and a provision rely on.
THEOREM VerInvariance == VerSpec => []VerIInv
<1>1. VerInit => VerIInv
  BY InitKeeps DEF VerInit, VerIInv, IInv, GenerationInv, Init, CommandInv, PendingInv,
                   DeliveredInv, WholeInv, VerifiedInv, Readable
<1>2. VerIInv /\ [VerNext]_verVars => VerIInv'
  BY RoleStep, NextKeeps, GenerationKeeps, CommandKeeps, PendingKeeps, DeliveredKeeps,
     WholeKeeps, VerifiedKeeps
     DEF VerIInv, IInv
<1> QED
  BY <1>1, <1>2, PTL DEF VerSpec

\* Role and verification agree: a deploy reported as successful passes verify.yml with
\* its own settings, and the accepted service keeps passing it whenever no transaction
\* is unfinished.
THEOREM AcceptedServiceVerifies == VerSpec => []AcceptedVerifies
<1>1. VerIInv => AcceptedVerifies
  <2> SUFFICES ASSUME VerIInv PROVE AcceptedVerifies
    OBVIOUS
  <2> USE DEF VerIInv, IInv, VerifyPasses, EnvMatches, PointerMatches, ContainerMatches, ServerAccepts,
              Running
  <2>1. ASSUME pc = "commit", rt = "done"
        PROVE  VerifyPasses(job, None) /\ VerifyPasses(job, candidate)
    <3>1. /\ current # None /\ current = candidate /\ env = pending /\ env # None
          /\ container = Running(current, env)
      BY <2>1, AcceptedByCommit
    <3>2. Complete(current) /\ Stoppable(current)
      BY <2>1, <3>1 DEF CoreInv, TypeOK, ReleaseInv, Complete, Stoppable
    <3>3. env.setting = job.setting /\ (job.explicit # None => env.cred = job.explicit)
      BY <2>1, <3>1 DEF PendingInv
    <3>4. container # None
      BY <3>1, RunningIsSome DEF VerIInv, IInv
    <3> QED
      BY <3>1, <3>2, <3>3, <3>4
  <2>2. ASSUME ~Readable, AcceptedBar # None
        PROVE  VerifyPasses([setting |-> env.setting, explicit |-> None], AcceptedBar.commit)
    <3>1. current # None /\ AcceptedBar = [commit |-> current, env |-> env]
      BY <2>2 DEF AcceptedBar
    <3>2. env # None /\ container = Running(current, env)
      BY <2>2, <3>1 DEF CoreInv, AgreeInv, Agree, QuietServes
    <3>3. Complete(current) /\ Stoppable(current)
      BY <2>2, <3>1 DEF CoreInv, ReleaseInv, RollbackStartable, Startable
    <3>4. container # None
      BY <3>1, <3>2, RunningIsSome
    <3> QED
      BY <3>1, <3>2, <3>3, <3>4
  <2> QED
    BY <2>1, <2>2 DEF AcceptedVerifies
<1> QED
  BY VerInvariance, <1>1, PTL

\* verify.yml passes on nothing but one whole service, also in the middle of an
\* interrupted transaction, which it does not look for.
THEOREM VerifiesWholeService == VerSpec => []VerifiedIsWhole
<1>1. VerIInv => VerifiedIsWhole
  <2> SUFFICES ASSUME VerIInv, verified PROVE VerifiedIsWhole
    BY DEF VerifiedIsWhole
  <2>1. /\ container # None /\ current # None
        /\ container.commit = current /\ container.env = env
    BY DEF VerIInv, VerifiedInv, ContainerMatches, ServerAccepts
  <2>2. CASE ~Readable
    BY <2>1, <2>2 DEF VerifiedIsWhole, AcceptedBar
  <2>3. CASE Readable
    BY <2>1, <2>3 DEF VerIInv, WholeInv, VerifiedIsWhole, AcceptedBar
  <2> QED
    BY <2>2, <2>3
<1> QED
  BY VerInvariance, <1>1, PTL

\* A provision prints nothing but the pair of the accepted service, and only while
\* that service runs.
THEOREM ProvisionPrintsAccepted == VerSpec => ProvisionShowsAccepted
<1>1. ASSUME VerIInv, [VerNext]_verVars, cmd = "provision", shown' # shown
      PROVE  /\ AcceptedBar # None /\ shown' = AcceptedBar.env.cred
             /\ container = Running(AcceptedBar.commit, AcceptedBar.env)
  <2>1. step = "show" /\ shown' = env.cred
    BY <1>1 DEF VerNext, Deploy, DeployRuns, StartVerify, VerifyPass, VerifyFail,
                StartCredentials, Show, ShowFails, Resting
  <2>2. recovery = None /\ current # None /\ container = Running(current, env)
    BY <1>1, <2>1 DEF VerIInv, DeliveredInv
  <2>3. AcceptedBar = [commit |-> current, env |-> env]
    BY <2>2 DEF AcceptedBar, Readable
  <2>4. AcceptedBar # None
    BY <1>1, <2>2, <2>3 DEF VerIInv, IInv, CoreInv, TypeOK, AgreeInv, Agree, Readable, Services
  <2> QED
    BY <2>1, <2>2, <2>3, <2>4
<1> QED
  BY VerInvariance, <1>1, PTL DEF VerSpec, ProvisionShowsAccepted

\* What DeployTransaction proves for sequences of deploys holds beside the other
\* commands, too.
THEOREM DeployUndisturbed == VerSpec => Spec
<1>1. VerInit => Init
  BY DEF VerInit
<1> QED
  BY <1>1, RoleStep, PTL DEF VerSpec, Spec
=============================================================================
