---------------------------- MODULE LifecycleProofs ----------------------------
(***************************************************************************)
(* Proofs about GatewayLifecycle, for every set of commits, settings,      *)
(* credential pairs, volumes and foreign archives and every number of      *)
(* deploys and faults.                                                     *)
(***************************************************************************)
EXTENDS LifecycleInvariants, TLAPS

USE NoneAssumption, MaxFaultsAssumption, MaxDeploysAssumption, NoRecordAssumption,
    ForeignAssumption
    DEF active, records, releases, plan, disk, rtVars, vars, rotVars, resVars, hostVars,
        deployVars, lifeVars, Goto, Then, Finish,
        Stages, Prepare, Check, Activate, RtStates, RtSteps, Calls, BeginSteps,
        RollbackSteps, StopSteps, CommitSteps, RotSteps, ResSteps,
        Snapshots, Metas, Envs, Creds, Jobs, Services, Containers, Parts, EmptySnapshot

\* runtime_state.py begin, for a deploy or a restore.
LEMMA BeginKeeps ==
  ASSUME LifeIInv, BeginCall, UNCHANGED <<pc, plan>>, Accepts, UNCHANGED <<rotVars, resVars, volumes, archives>>
  PROVE  LifeIInv'
<1> USE DEF LifeIInv, LifeTypeOK, TypeOK, TurnInv, CallerInv, RecordInv, CandidateInv, StagedInv,
          OpenInv, RestoreInv, GoodInv, ServesInv, Preparing, Beginning, Trying, Started,
          Committing, Recovering, CleaningUp, Published, Unpublished, Readable, Complete,
          AcceptedBar, Running, Accepts
<1>1. CASE Begin
  BY <1>1, SMTT(30) DEF Begin, CanBegin
<1>2. CASE StageCandidate
  BY <1>2, SMTT(30) DEF StageCandidate
<1>3. CASE StagePrevious
  BY <1>3, SMTT(30) DEF StagePrevious
<1>4. CASE StageState
  BY <1>4, SMTT(30) DEF StageState
<1>5. CASE Publish
  BY <1>5, SMTT(30) DEF Publish
<1>6. CASE SyncSnapshot
  BY <1>6, SMTT(30) DEF SyncSnapshot
<1> QED
  BY <1>1, <1>2, <1>3, <1>4, <1>5, <1>6 DEF BeginCall

\* runtime_state.py recover.
LEMMA RecoverKeeps ==
  ASSUME LifeIInv, RecoverCall, UNCHANGED <<pc, plan>>, Accepts, UNCHANGED <<rotVars, resVars, volumes, archives>>
  PROVE  LifeIInv'
<1> USE DEF LifeIInv, LifeTypeOK, TypeOK, TurnInv, CallerInv, RecordInv, CandidateInv, StagedInv,
          OpenInv, RestoreInv, GoodInv, ServesInv, Preparing, Beginning, Trying, Started,
          Committing, Recovering, CleaningUp, Published, Unpublished, Readable, Complete,
          AcceptedBar, Running, Accepts
<1>1. CASE RecoverNothing
  BY <1>1, SMTT(30) DEF RecoverNothing
<1>2. CASE Recover
  BY <1>2, SMTT(30) DEF Recover
<1>3. CASE RestoreEnv
  BY <1>3, SMTT(30) DEF RestoreEnv
<1>4. CASE RestartPrevious
  <2>1. Readable /\ Readable' /\ env = recovery.previous /\ Recovering
    BY <1>4 DEF RestartPrevious
  <2>2. LifeTypeOK' /\ TurnInv' /\ CallerInv' /\ RecordInv' /\ CandidateInv' /\ StagedInv'
    BY <1>4 DEF RestartPrevious
  <2>3. OpenInv' /\ RestoreInv'
    BY <1>4, <2>1 DEF RestartPrevious
  <2>4. GoodInv'
    BY <1>4, <2>1 DEF RestartPrevious
  <2>5. ServesInv'
    BY <1>4, <2>1 DEF RestartPrevious
  <2> QED
    BY <2>2, <2>3, <2>4, <2>5
<1>5. CASE Repoint
  BY <1>5, SMTT(30) DEF Repoint
<1>6. CASE StopCandidate
  BY <1>6, SMTT(30) DEF StopCandidate
<1>7. CASE DropEnv
  BY <1>7, SMTT(30) DEF DropEnv
<1>8. CASE DropCurrent
  BY <1>8, SMTT(30) DEF DropCurrent
<1>9. CASE PurgeFile
  BY <1>9, SMTT(30) DEF PurgeFile
<1>10. CASE PurgeDirectory
  BY <1>10, SMTT(30) DEF PurgeDirectory
<1> QED
  BY <1>1, <1>2, <1>3, <1>4, <1>5, <1>6, <1>7, <1>8, <1>9, <1>10 DEF RecoverCall

\* runtime_state.py commit: its last rename makes the candidate the service accepted last.
LEMMA CommitKeeps ==
  ASSUME LifeIInv, CommitCall, UNCHANGED <<pc, plan>>, Accepts, UNCHANGED <<rotVars, resVars, volumes, archives>>
  PROVE  LifeIInv'
<1> USE DEF LifeIInv, LifeTypeOK, TypeOK, TurnInv, CallerInv, RecordInv, CandidateInv, StagedInv,
          OpenInv, RestoreInv, GoodInv, ServesInv, Preparing, Beginning, Trying, Started,
          Committing, Recovering, CleaningUp, Published, Unpublished, Readable, Complete,
          AcceptedBar, Running, Accepts
<1>1. CASE Commit
  BY <1>1, SMTT(30) DEF Commit, CanCommit
<1>2. CASE Promote
  BY <1>2, SMTT(30) DEF Promote
<1>3. CASE Archive
  BY <1>3, SMTT(30) DEF Archive
<1>4. CASE Retain
  BY <1>4, SMTT(30) DEF Retain
<1> QED
  BY <1>1, <1>2, <1>3, <1>4 DEF CommitCall

\* Errors of a call.
LEMMA ErrorKeeps ==
  ASSUME LifeIInv, Refuse \/ RtFault, UNCHANGED <<pc, plan>>, Accepts, UNCHANGED <<rotVars, resVars, volumes, archives>>
  PROVE  LifeIInv'
<1> USE DEF LifeIInv, LifeTypeOK, TypeOK, TurnInv, CallerInv, RecordInv, CandidateInv, StagedInv,
          OpenInv, RestoreInv, GoodInv, ServesInv, Preparing, Beginning, Trying, Started,
          Committing, Recovering, CleaningUp, Published, Unpublished, Readable, Complete,
          AcceptedBar, Running, Accepts
<1>1. CASE Refuse
  BY <1>1, SMTT(30) DEF Refuse
<1>2. CASE Raise
  BY <1>2, SMTT(30) DEF Raise
<1>3. CASE RestartFails
  BY <1>3, SMTT(30) DEF RestartFails, Interrupted
<1>4. CASE StopFails
  BY <1>4, SMTT(30) DEF StopFails
<1> QED
  BY <1>1, <1>2, <1>3, <1>4 DEF RtFault

\* release.yml, credentials.yml and the checks of the candidate.
LEMMA PreparedKeeps ==
  ASSUME LifeIInv, Prepared, UNCHANGED <<rotVars, resVars, volumes, archives, good>>
  PROVE  LifeIInv'
<1> USE DEF LifeIInv, LifeTypeOK, TypeOK, TurnInv, CallerInv, RecordInv, CandidateInv, StagedInv,
          OpenInv, RestoreInv, GoodInv, ServesInv, Preparing, Beginning, Trying, Started,
          Committing, Recovering, CleaningUp, Published, Unpublished, Readable, Complete,
          AcceptedBar, Running
<1>1. CASE FetchSource
  BY <1>1, SMTT(30) DEF FetchSource
<1>2. CASE CreateRelease
  BY <1>2, SMTT(30) DEF CreateRelease, AddPart
<1>3. CASE StartExtract
  BY <1>3, SMTT(30) DEF StartExtract
<1>4. CASE SkipExtract
  BY <1>4, SMTT(30) DEF SkipExtract
<1>5. CASE Unarchive
  BY <1>5, SMTT(30) DEF Unarchive, AddPart
<1>6. CASE MarkComplete
  BY <1>6, SMTT(30) DEF MarkComplete, AddPart
<1>7. CASE PinImage
  BY <1>7, SMTT(30) DEF PinImage, AddPart
<1>8. CASE UseExplicit
  BY <1>8, SMTT(30) DEF UseExplicit, WritePending
<1>9. CASE UseSaved
  BY <1>9, SMTT(30) DEF UseSaved, SavedEnv, WritePending
<1>10. CASE Generate
  BY <1>10, SMTT(30) DEF Generate, WritePending
<1>11. CASE ValidateConfig
  BY <1>11, SMTT(30) DEF ValidateConfig
<1>12. CASE BuildImage
  BY <1>12, SMTT(30) DEF BuildImage
<1>13. CASE ValidateCaddy
  BY <1>13, SMTT(30) DEF ValidateCaddy
<1> QED
  BY <1>1, <1>2, <1>3, <1>4, <1>5, <1>6, <1>7, <1>8, <1>9, <1>10, <1>11, <1>12, <1>13 DEF Prepared

\* activate.yml's block.
LEMMA ActivatedKeeps ==
  ASSUME LifeIInv, Activated, UpVolumes(pc' = "accept") \/ volumes' = volumes, UNCHANGED <<rotVars, resVars, archives, good>>
  PROVE  LifeIInv'
<1> USE DEF LifeIInv, LifeTypeOK, TypeOK, TurnInv, CallerInv, RecordInv, CandidateInv, StagedInv,
          OpenInv, RestoreInv, GoodInv, ServesInv, Preparing, Beginning, Trying, Started,
          Committing, Recovering, CleaningUp, Published, Unpublished, Readable, Complete,
          AcceptedBar, Running, UpVolumes
<1>1. CASE Begun
  BY <1>1, SMTT(30) DEF Begun
<1>2. CASE ActivateEnv
  BY <1>2, SMTT(30) DEF ActivateEnv
<1>3. CASE StartCandidate
  BY <1>3, SMTT(30) DEF StartCandidate
<1>4. CASE PassAcceptance
  BY <1>4, SMTT(30) DEF PassAcceptance
<1>5. CASE Committed
  BY <1>5, SMTT(30) DEF Committed
<1> QED
  BY <1>1, <1>2, <1>3, <1>4, <1>5 DEF Activated

\* Failures of a deploy, and its rescue section.
LEMMA FailedKeeps ==
  ASSUME LifeIInv, Failed, UpVolumes(pc' = "accept") \/ volumes' = volumes, UNCHANGED <<rotVars, resVars, archives, good>>
  PROVE  LifeIInv'
<1> USE DEF LifeIInv, LifeTypeOK, TypeOK, TurnInv, CallerInv, RecordInv, CandidateInv, StagedInv,
          OpenInv, RestoreInv, GoodInv, ServesInv, Preparing, Beginning, Trying, Started,
          Committing, Recovering, CleaningUp, Published, Unpublished, Readable, Complete,
          AcceptedBar, Running, UpVolumes
<1>1. CASE RecoverFailed
  BY <1>1, SMTT(30) DEF RecoverFailed
<1>2. CASE PlayFails
  BY <1>2, SMTT(30) DEF PlayFails
<1>3. CASE CandidateFails
  BY <1>3, SMTT(30) DEF CandidateFails, Rescue
<1>4. CASE StartFails
  BY <1>4, SMTT(30) DEF StartFails, Rescue, Interrupted
<1>5. CASE TransactionFails
  BY <1>5, SMTT(30) DEF TransactionFails, Rescue
<1>6. CASE Rescued
  BY <1>6, SMTT(30) DEF Rescued
<1> QED
  BY <1>1, <1>2, <1>3, <1>4, <1>5, <1>6 DEF Failed

\* A deploy starts.
LEMMA StartKeeps ==
  ASSUME LifeIInv, DeployStart
  PROVE  LifeIInv'
<1> USE DEF LifeIInv, LifeTypeOK, TypeOK, TurnInv, CallerInv, RecordInv, CandidateInv, StagedInv,
          OpenInv, RestoreInv, GoodInv, ServesInv, Preparing, Beginning, Trying, Started,
          Committing, Recovering, CleaningUp, Published, Unpublished, Readable, Complete,
          AcceptedBar, Running
<1>1. CASE DeployStart
  BY <1>1, SMTT(30) DEF DeployStart, Idle, StartDeploy
<1> QED
  BY <1>1

\* It gets past the recovery, or dies.
LEMMA DiesKeeps ==
  ASSUME LifeIInv, Recovered \/ Crash, UpVolumes(pc' = "accept") \/ volumes' = volumes, UNCHANGED <<rotVars, resVars, archives, good>>
  PROVE  LifeIInv'
<1> USE DEF LifeIInv, LifeTypeOK, TypeOK, TurnInv, CallerInv, RecordInv, CandidateInv, StagedInv,
          OpenInv, RestoreInv, GoodInv, ServesInv, Preparing, Beginning, Trying, Started,
          Committing, Recovering, CleaningUp, Published, Unpublished, Readable, Complete,
          AcceptedBar, Running, UpVolumes
<1>1. CASE Recovered
  BY <1>1, SMTT(30) DEF Recovered
<1>2. CASE Crash
  BY <1>2, SMTT(30) DEF Crash, Die, Interrupted
<1> QED
  BY <1>1, <1>2

\* rotate-credentials.sh.
LEMMA RotationKeeps ==
  ASSUME LifeIInv, Rotation
  PROVE  LifeIInv'
<1> USE DEF LifeIInv, LifeTypeOK, TypeOK, TurnInv, CallerInv, RecordInv, CandidateInv, StagedInv,
          OpenInv, RestoreInv, GoodInv, ServesInv, Preparing, Beginning, Trying, Started,
          Committing, Recovering, CleaningUp, Published, Unpublished, Readable, Complete,
          AcceptedBar, Running, Rot
<1>1. CASE StartRotation
  BY <1>1, SMTT(30) DEF StartRotation, Idle
<1>2. CASE SwapEnv
  BY <1>2, SMTT(30) DEF SwapEnv
<1>3. CASE RotateUp
  BY <1>3, SMTT(30) DEF RotateUp
<1>4. CASE RotateUpFails
  BY <1>4, SMTT(30) DEF RotateUpFails, Interrupted
<1>5. CASE RotationPasses
  BY <1>5, SMTT(30) DEF RotationPasses
<1>6. CASE RotationStops
  BY <1>6, SMTT(30) DEF RotationStops
<1>7. CASE RotationFails
  BY <1>7, SMTT(30) DEF RotationFails
<1>8. CASE UndoEnv
  BY <1>8, SMTT(30) DEF UndoEnv
<1>9. CASE UndoUp
  BY <1>9, SMTT(30) DEF UndoUp
<1>10. CASE UndoFails
  BY <1>10, SMTT(30) DEF UndoFails, Interrupted, Spend
<1>11. CASE RotationDies
  BY <1>11, SMTT(30) DEF RotationDies, Interrupted, Spend
<1> QED
  BY <1>1, <1>2, <1>3, <1>4, <1>5, <1>6, <1>7, <1>8, <1>9, <1>10, <1>11 DEF Rotation

\* restore_runtime.py, as long as all goes well.
LEMMA RestoreForwardKeeps ==
  ASSUME LifeIInv, \/ StartRestore \/ LoadImage \/ CopyTree \/ CopyFile \/ SavePending \/ CreateVolume
         \/ RestoreBegins \/ RestoreBegun \/ ActivateArchive \/ RestoreUp \/ RestorePasses \/ Restored
  PROVE  LifeIInv'
<1> USE DEF LifeIInv, LifeTypeOK, TypeOK, TurnInv, CallerInv, RecordInv, CandidateInv, StagedInv,
          OpenInv, RestoreInv, GoodInv, ServesInv, Preparing, Beginning, Trying, Started,
          Committing, Recovering, CleaningUp, Published, Unpublished, Readable, Complete,
          AcceptedBar, Running, Res
<1>1. CASE StartRestore
  BY <1>1, SMTT(30) DEF StartRestore, Idle
<1>2. CASE LoadImage
  BY <1>2, SMTT(30) DEF LoadImage
<1>3. CASE CopyTree
  BY <1>3, SMTT(30) DEF CopyTree, AddPart
<1>4. CASE CopyFile
  BY <1>4, SMTT(30) DEF CopyFile, AddPart
<1>5. CASE SavePending
  BY <1>5, SMTT(30) DEF SavePending
<1>6. CASE CreateVolume
  BY <1>6, SMTT(30) DEF CreateVolume
<1>7. CASE RestoreBegins
  BY <1>7, SMTT(30) DEF RestoreBegins
<1>8. CASE RestoreBegun
  BY <1>8, SMTT(30) DEF RestoreBegun
<1>9. CASE ActivateArchive
  BY <1>9, SMTT(30) DEF ActivateArchive
<1>10. CASE RestoreUp
  BY <1>10, SMTT(30) DEF RestoreUp
<1>11. CASE RestorePasses
  BY <1>11, SMTT(30) DEF RestorePasses
<1>12. CASE Restored
  BY <1>12, SMTT(30) DEF Restored, RestoreEnds
<1> QED
  BY <1>1, <1>2, <1>3, <1>4, <1>5, <1>6, <1>7, <1>8, <1>9, <1>10, <1>11, <1>12

\* Its failures, and how it undoes what it has made.
LEMMA RestoreUndoKeeps ==
  ASSUME LifeIInv, \/ RestoreRefuses \/ RestoreFails \/ RestoreUpFails \/ UndoRecovered \/ UndoRecoverFails
         \/ RemoveVolume \/ RemoveRelease \/ RemovePart \/ RestoreUndone \/ RestoreDies
         \/ CreateVolumeFails
  PROVE  LifeIInv'
<1> USE DEF LifeIInv, LifeTypeOK, TypeOK, TurnInv, CallerInv, RecordInv, CandidateInv, StagedInv,
          OpenInv, RestoreInv, GoodInv, ServesInv, Preparing, Beginning, Trying, Started,
          Committing, Recovering, CleaningUp, Published, Unpublished, Readable, Complete,
          AcceptedBar, Running, Res
<1>1. CASE RestoreRefuses
  BY <1>1, SMTT(30) DEF RestoreRefuses, RestoreEnds
<1>2. CASE RestoreFails
  BY <1>2, SMTT(30) DEF RestoreFails
<1>3. CASE RestoreUpFails
  BY <1>3, SMTT(30) DEF RestoreUpFails, Interrupted
<1>4. CASE UndoRecovered
  BY <1>4, SMTT(30) DEF UndoRecovered
<1>5. CASE UndoRecoverFails
  BY <1>5, SMTT(30) DEF UndoRecoverFails, RestoreEnds
<1>6. CASE RemoveVolume
  BY <1>6, SMTT(30) DEF RemoveVolume
<1>7. CASE RemoveRelease
  BY <1>7, SMTT(30) DEF RemoveRelease
<1>8. CASE RemovePart
  BY <1>8, SMTT(30) DEF RemovePart
<1>9. CASE RestoreUndone
  BY <1>9, SMTT(30) DEF RestoreUndone, RestoreEnds
<1>10. CASE RestoreDies
  BY <1>10, SMTT(30) DEF RestoreDies, RestoreEnds, Die, Interrupted
<1>11. CASE CreateVolumeFails
  BY <1>11, SMTT(30) DEF CreateVolumeFails, Spend
<1> QED
  BY <1>1, <1>2, <1>3, <1>4, <1>5, <1>6, <1>7, <1>8, <1>9, <1>10, <1>11

\* make backup writes archives only.
LEMMA BackupKeeps == ASSUME LifeIInv, Backup PROVE LifeIInv'
<1>1. [commit |-> current, env |-> env] \in Services
  BY DEF LifeIInv, LifeTypeOK, TypeOK, Backup
<1>2. LifeTypeOK'
  BY <1>1 DEF LifeIInv, LifeTypeOK, TypeOK, Backup
<1>3. TurnInv' /\ CallerInv' /\ RecordInv' /\ CandidateInv' /\ StagedInv' /\ OpenInv'
  BY DEF LifeIInv, Backup, TurnInv, CallerInv, RecordInv, CandidateInv, StagedInv, OpenInv,
         Preparing, Beginning, Trying, Started, Committing, Recovering, CleaningUp, Published,
         Unpublished, Readable, Complete
<1>4. RestoreInv' /\ GoodInv' /\ ServesInv'
  BY DEF LifeIInv, Backup, RestoreInv, GoodInv, ServesInv, CleaningUp, Readable, Complete,
         AcceptedBar, Running
<1> QED
  BY <1>2, <1>3, <1>4 DEF LifeIInv

LEMMA StutterKeeps == ASSUME LifeIInv, UNCHANGED lifeVars PROVE LifeIInv'
<1>1. LifeTypeOK' /\ TurnInv' /\ CallerInv' /\ RecordInv' /\ CandidateInv' /\ StagedInv'
  BY DEF LifeIInv, LifeTypeOK, TypeOK, TurnInv, CallerInv, RecordInv, CandidateInv, StagedInv,
         Preparing, Beginning, Trying, Started, Committing, Recovering, CleaningUp, Published,
         Unpublished, Readable, Complete
<1>2. OpenInv' /\ RestoreInv' /\ GoodInv' /\ ServesInv'
  BY DEF LifeIInv, OpenInv, RestoreInv, GoodInv, ServesInv, Beginning, Trying, Started,
         CleaningUp, Published, Readable, Complete, AcceptedBar, Running
<1> QED
  BY <1>1, <1>2 DEF LifeIInv

LEMMA InitKeeps == LifeInit => LifeIInv
<1> SUFFICES ASSUME LifeInit PROVE LifeIInv
  OBVIOUS
<1> USE DEF LifeInit, Init
<1>1. LifeTypeOK /\ TurnInv /\ CallerInv /\ RecordInv /\ CandidateInv /\ StagedInv
  BY DEF LifeTypeOK, TypeOK, TurnInv, CallerInv, RecordInv, CandidateInv, StagedInv,
         Preparing, Beginning, Trying, Committing, Recovering, CleaningUp, Published, Unpublished
<1>2. OpenInv /\ RestoreInv /\ GoodInv /\ ServesInv
  BY DEF OpenInv, RestoreInv, GoodInv, ServesInv, Beginning, Trying, Started, CleaningUp,
         Published, Readable, AcceptedBar
<1> QED
  BY <1>1, <1>2 DEF LifeIInv

LEMMA RuntimeCallKeeps == ASSUME LifeIInv, RuntimeCall PROVE LifeIInv'
<1>1. CASE BeginCall
  BY <1>1, BeginKeeps DEF RuntimeCall, Call, CallFault
<1>2. CASE RecoverCall
  BY <1>2, RecoverKeeps DEF RuntimeCall, Call, CallFault
<1>3. CASE CommitCall
  BY <1>3, CommitKeeps DEF RuntimeCall, Call, CallFault
<1>4. CASE Refuse \/ RtFault
  BY <1>4, ErrorKeeps DEF RuntimeCall, Call, CallFault
<1> QED
  BY <1>1, <1>2, <1>3, <1>4 DEF RuntimeCall, Call, CallFault, RtStep, RtFault

LEMMA DeployGoesKeeps == ASSUME LifeIInv, DeployGoes PROVE LifeIInv'
<1>1. UpVolumes(pc' = "accept") \/ volumes' = volumes
  BY DEF DeployGoes
<1>2. UNCHANGED <<rotVars, resVars, archives, good>>
  BY DEF DeployGoes
<1>3. UNCHANGED <<rotVars, resVars, volumes, archives, good>> \/ ~Prepared
  BY DEF DeployGoes, Prepared, FetchSource, CreateRelease, StartExtract, SkipExtract, Unarchive,
         MarkComplete, PinImage, UseExplicit, UseSaved, Generate, ValidateConfig, BuildImage,
         ValidateCaddy
<1>4. CASE Prepared
  BY <1>3, <1>4, PreparedKeeps
<1>5. CASE Activated
  BY <1>1, <1>2, <1>5, ActivatedKeeps
<1>6. CASE Failed
  BY <1>1, <1>2, <1>6, FailedKeeps
<1>7. CASE Recovered \/ Crash
  BY <1>1, <1>2, <1>7, DiesKeeps
<1> QED
  BY <1>4, <1>5, <1>6, <1>7 DEF DeployGoes

LEMMA LifeNextKeeps == ASSUME LifeIInv, [LifeNext]_lifeVars PROVE LifeIInv'
<1>1. CASE Restore
  BY <1>1, RestoreForwardKeeps, RestoreUndoKeeps DEF Restore
<1> QED
  BY <1>1, StartKeeps, DeployGoesKeeps, RuntimeCallKeeps, RotationKeeps, BackupKeeps, StutterKeeps
     DEF LifeNext

-----------------------------------------------------------------------------
(* Theorems                                                                *)

\* The strengthening holds whatever the operators do one after the other, and
\* wherever each of them fails or dies.
THEOREM LifeInvariance == LifeSpec => []LifeIInv
<1>1. LifeIInv /\ [LifeNext]_lifeVars => LifeIInv'
  BY LifeNextKeeps
<1> QED
  BY InitKeeps, <1>1, PTL DEF LifeSpec

\* Every variable of the lifecycle keeps its type.
THEOREM LifeTypes == LifeSpec => []LifeTypeOK
<1>1. LifeIInv => LifeTypeOK
  BY DEF LifeIInv
<1> QED
  BY LifeInvariance, <1>1, PTL

\* The service accepted last is never lost from the disk, whatever deploys, rotations
\* and restores fail or die after it.
THEOREM AcceptedNeverLost == LifeSpec => []LastAcceptedOnDisk
<1>1. LifeIInv => LastAcceptedOnDisk
  <2> SUFFICES ASSUME LifeIInv, good # None PROVE LastAcceptedOnDisk
    BY DEF LastAcceptedOnDisk
  <2>1. CASE rot = "idle"
    BY <2>1 DEF LifeIInv, GoodInv, LastAcceptedOnDisk, AcceptedBar
  <2>2. CASE rot # "idle"
    BY <2>2 DEF LifeIInv, GoodInv, LastAcceptedOnDisk
  <2> QED
    BY <2>1, <2>2
<1> QED
  BY LifeInvariance, <1>1, PTL

\* Between the operators' turns the service accepted last is what is current and what
\* runs, unless a transaction is open or a rotation left a copy of the old env.
THEOREM AcceptedIsServed == LifeSpec => []AcceptedServes
<1>1. LifeIInv => AcceptedServes
  <2> SUFFICES ASSUME LifeIInv, Idle, ~Readable, kept = {}
               PROVE  IF good = None THEN current = None /\ env = None /\ container = None
                      ELSE current = good.commit /\ env = good.env
                           /\ container = Running(current, env)
    BY DEF AcceptedServes
  <2>1. AcceptedBar = good /\ AcceptedBar = IF current = None THEN None ELSE [commit |-> current, env |-> env]
    BY DEF LifeIInv, GoodInv, Idle, AcceptedBar
  <2>2. current # None => [commit |-> current, env |-> env] # None
    BY DEF LifeIInv, LifeTypeOK, TypeOK, OpenInv
  <2>3. container = IF current = None THEN None ELSE Running(current, env)
    BY DEF LifeIInv, ServesInv, Idle
  <2>4. current = None => env = None
    BY DEF LifeIInv, OpenInv
  <2> QED
    BY <2>1, <2>2, <2>3, <2>4
<1> QED
  BY LifeInvariance, <1>1, PTL

\* A failed restore that completes its clean-up leaves nothing behind but, at most, a
\* volume that Docker reported as not created, and removes no volume that a container
\* uses.
THEOREM FailedRestoreLeavesNothing == LifeSpec => []UndoneIsEmpty
<1>1. LifeIInv => UndoneIsEmpty
  BY DEF LifeIInv, RestoreInv, RecordInv, CleaningUp, UndoneIsEmpty
<1> QED
  BY LifeInvariance, <1>1, PTL

\* A restore never touches a service that was accepted before it.
THEOREM RestoreLeavesAccepted == LifeSpec => RestoreKeepsAccepted
<1>1. ASSUME LifeIInv, [LifeNext]_lifeVars, res # "idle", good # None
      PROVE  UNCHANGED <<good, env, current, container>>
  <2>1. res = "commit" /\ rt = "done" /\ pc = "idle" /\ rot = "idle"
    BY <1>1 DEF LifeIInv, RestoreInv, TurnInv
  <2>2. ~DeployStart /\ ~Backup /\ ~DeployGoes
    BY <2>1 DEF DeployStart, Backup, Idle, DeployGoes, Recovered, Prepared, Activated, Failed,
                Crash, FetchSource, CreateRelease, StartExtract, SkipExtract, Unarchive,
                MarkComplete, PinImage, UseExplicit, UseSaved, Generate, ValidateConfig,
                BuildImage, ValidateCaddy, Begun, ActivateEnv, StartCandidate, PassAcceptance,
                Committed, RecoverFailed, PlayFails, CandidateFails, StartFails,
                TransactionFails, Rescued
  <2>3. ~RuntimeCall
    BY <2>1 DEF RuntimeCall, Call, CallFault, RtStep, RtFault, BeginCall, RecoverCall, CommitCall,
                Refuse, Raise, Begin, StageCandidate, StagePrevious, StageState, Publish,
                SyncSnapshot, RecoverNothing, Recover, RestoreEnv, RestartPrevious, RestartFails,
                Repoint, StopCandidate, StopFails, DropEnv, DropCurrent, PurgeFile,
                PurgeDirectory, Commit, Promote, Archive, Retain
  <2>4. ~Rotation
    BY <2>1 DEF Rotation, StartRotation, Idle, SwapEnv, RotateUp, RotateUpFails, RotationPasses,
                RotationStops, RotationFails, UndoEnv, UndoUp, UndoFails, RotationDies, Rot
  <2>5. Restore => Restored \/ RestoreDies
    BY <2>1 DEF Restore, StartRestore, Idle, LoadImage, CopyTree, CopyFile, SavePending,
                CreateVolume, CreateVolumeFails, RestoreBegins, RestoreBegun, ActivateArchive, RestoreUp,
                RestorePasses, RestoreRefuses, RestoreFails, RestoreUpFails, UndoRecovered,
                UndoRecoverFails, RemoveVolume, RemoveRelease, RemovePart, RestoreUndone, Res
  <2>6. CASE Restored \/ RestoreDies
    BY <2>1, <2>6 DEF Restored, RestoreDies, Die, Res
  <2>7. CASE UNCHANGED lifeVars
    BY <2>7
  <2> QED
    BY <1>1, <2>2, <2>3, <2>4, <2>5, <2>6, <2>7 DEF LifeNext
<1> QED
  BY LifeInvariance, <1>1, PTL DEF LifeSpec, RestoreKeepsAccepted

\* A backup holds the service accepted last.
THEOREM BackupHoldsAccepted == LifeSpec => BackupIsAccepted
<1>1. ASSUME LifeIInv, [LifeNext]_lifeVars, archives' # archives, kept = {}
      PROVE  archives' = archives \cup {good}
  <2>1. Backup
    BY <1>1 DEF LifeNext, DeployStart, DeployGoes, RuntimeCall, Rotation, StartRotation, SwapEnv,
                RotateUp, RotateUpFails, RotationPasses, RotationStops, RotationFails, UndoEnv,
                UndoUp, UndoFails, RotationDies, Rot, Restore, StartRestore, LoadImage, CopyTree,
                CopyFile, SavePending, CreateVolume, CreateVolumeFails, RestoreBegins, RestoreBegun,
                ActivateArchive, RestoreUp, RestorePasses, Restored, RestoreRefuses,
                RestoreFails, RestoreUpFails, UndoRecovered, UndoRecoverFails, RemoveVolume,
                RemoveRelease, RemovePart, RestoreUndone, RestoreDies, Res
  <2>2. ~Readable /\ rot = "idle" /\ current # None
    BY <2>1 DEF Backup, Idle, Readable
  <2>3. good = [commit |-> current, env |-> env]
    BY <1>1, <2>2 DEF LifeIInv, GoodInv, AcceptedBar
  <2> QED
    BY <2>1, <2>3 DEF Backup
<1> QED
  BY LifeInvariance, <1>1, PTL DEF LifeSpec, BackupIsAccepted
=============================================================================
