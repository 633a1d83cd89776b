----------------------- MODULE DeployTransactionProofs -----------------------
(***************************************************************************)
(* Proofs about DeployTransaction for every set of commits, settings and   *)
(* credential pairs and every number of deploys and faults.                *)
(***************************************************************************)
EXTENDS DeployInvariants, FiniteSetTheorems, TLAPS

USE NoneAssumption, MaxFaultsAssumption, MaxDeploysAssumption, NoRecordAssumption
    DEF active, records, releases, plan, disk, rtVars, vars, Goto, Then, Finish,
        Stages, Prepare, Check, Activate, RtStates, RtSteps, Calls, BeginSteps,
        RollbackSteps, StopSteps, CommitSteps,
        Snapshots, Metas, Envs, Creds, Jobs, Services, Containers, Parts, EmptySnapshot

LEMMA BeginKeeps ==
  ASSUME CoreInv, BeginCall, UNCHANGED <<pc, plan>>
  PROVE  CoreInv'
<1> USE DEF CoreInv, TypeOK, CallInv, RecoveryInv, ReleaseInv, StageInv, SnapshotInv, RollbackInv,
          AgreeInv, ArchiveInv, CredentialInv, ContainerInv, QuietServes,
          RollbackStartable, Clean, Published, Open, Unpublished, Readable, Complete,
          Startable, Stoppable, Agree, Wanted, AcceptedBar, RetainedBar,
          Kept, Archived, Running
<1>1. CASE Begin
  BY <1>1, SMTT(30) DEF Begin, CanBegin
<1>2. CASE StageCandidate
  BY <1>2, SMTT(30) DEF StageCandidate
<1>3. CASE StagePrevious
  BY <1>3, SMTT(30) DEF StagePrevious
<1>4. CASE StageState
  BY <1>4, SMTT(30) DEF StageState
<1>5. CASE Publish
  BY <1>5, SMTT(30) DEF Publish
<1>6. CASE SyncSnapshot
  BY <1>6, SMTT(30) DEF SyncSnapshot
<1> QED
  BY <1>1, <1>2, <1>3, <1>4, <1>5, <1>6 DEF BeginCall

LEMMA RecoverKeeps ==
  ASSUME CoreInv, RecoverCall, UNCHANGED <<pc, plan>>
  PROVE  CoreInv'
<1> USE DEF CoreInv, TypeOK, CallInv, RecoveryInv, ReleaseInv, StageInv, SnapshotInv, RollbackInv,
          AgreeInv, ArchiveInv, CredentialInv, ContainerInv, QuietServes,
          RollbackStartable, Clean, Published, Open, Unpublished, Readable, Complete,
          Startable, Stoppable, Agree, Wanted, AcceptedBar, RetainedBar,
          Kept, Archived, Running
<1>1. CASE RecoverNothing
  BY <1>1, SMTT(30) DEF RecoverNothing
<1>2. CASE Recover
  BY <1>2, SMTT(30) DEF Recover
<1>3. CASE RestoreEnv
  BY <1>3, SMTT(30) DEF RestoreEnv
<1>4. CASE RestartPrevious
  <2>1. ContainerInv'
    <3>1. Readable /\ Readable' /\ env = recovery.previous /\ rt' = "repoint"
      BY <1>4 DEF RestartPrevious
    <3>2. pc \in {"recover", "rescue"}
      BY <1>4 DEF RestartPrevious
    <3> QED
      BY <1>4, <3>1, <3>2 DEF RestartPrevious
  <2>2. TypeOK' /\ RollbackInv' /\ CallInv' /\ RecoveryInv' /\ RollbackStartable' /\ QuietServes'
    BY <1>4 DEF RestartPrevious
  <2>3. ReleaseInv' /\ StageInv' /\ SnapshotInv' /\ AgreeInv' /\ ArchiveInv' /\ CredentialInv'
    BY <1>4 DEF RestartPrevious
  <2> QED
    BY <2>1, <2>2, <2>3
<1>5. CASE Repoint
  BY <1>5, SMTT(30) DEF Repoint
<1>6. CASE StopCandidate
  BY <1>6, SMTT(30) DEF StopCandidate
<1>7. CASE DropEnv
  BY <1>7, SMTT(30) DEF DropEnv
<1>8. CASE DropCurrent
  BY <1>8, SMTT(30) DEF DropCurrent
<1>9. CASE PurgeFile
  BY <1>9, SMTT(30) DEF PurgeFile
<1>10. CASE PurgeDirectory
  BY <1>10, SMTT(30) DEF PurgeDirectory
<1> QED
  BY <1>1, <1>2, <1>3, <1>4, <1>5, <1>6, <1>7, <1>8, <1>9, <1>10 DEF RecoverCall

LEMMA CommitKeeps ==
  ASSUME CoreInv, CommitCall, UNCHANGED <<pc, plan>>
  PROVE  CoreInv'
<1> USE DEF CoreInv, TypeOK, CallInv, RecoveryInv, ReleaseInv, StageInv, SnapshotInv, RollbackInv,
          AgreeInv, ArchiveInv, CredentialInv, ContainerInv, QuietServes,
          RollbackStartable, Clean, Published, Open, Unpublished, Readable, Complete,
          Startable, Stoppable, Agree, Wanted, AcceptedBar, RetainedBar,
          Kept, Archived, Running
<1>1. CASE Commit
  BY <1>1, SMTT(30) DEF Commit, CanCommit
<1>2. CASE Promote
  BY <1>2, SMTT(30) DEF Promote
<1>3. CASE Archive
  BY <1>3, SMTT(30) DEF Archive
<1>4. CASE Retain
  BY <1>4, SMTT(30) DEF Retain
<1> QED
  BY <1>1, <1>2, <1>3, <1>4 DEF CommitCall

LEMMA ErrorKeeps ==
  ASSUME CoreInv, Refuse \/ RtFault, UNCHANGED <<pc, plan>>
  PROVE  CoreInv'
<1> USE DEF CoreInv, TypeOK, CallInv, RecoveryInv, ReleaseInv, StageInv, SnapshotInv, RollbackInv,
          AgreeInv, ArchiveInv, CredentialInv, ContainerInv, QuietServes,
          RollbackStartable, Clean, Published, Open, Unpublished, Readable, Complete,
          Startable, Stoppable, Agree, Wanted, AcceptedBar, RetainedBar,
          Kept, Archived, Running
<1>1. CASE Refuse
  BY <1>1, SMTT(30) DEF Refuse, CanBegin, CanCommit
<1>2. CASE Raise
  BY <1>2, SMTT(30) DEF Raise
<1>3. CASE RestartFails
  BY <1>3, SMTT(30) DEF RestartFails, Interrupted
<1>4. CASE StopFails
  BY <1>4, SMTT(30) DEF StopFails
<1> QED
  BY <1>1, <1>2, <1>3, <1>4 DEF RtFault

LEMMA PreparedKeeps ==
  ASSUME CoreInv, Prepared
  PROVE  CoreInv'
<1> USE DEF CoreInv, TypeOK, CallInv, RecoveryInv, ReleaseInv, StageInv, SnapshotInv, RollbackInv,
          AgreeInv, ArchiveInv, CredentialInv, ContainerInv, QuietServes,
          RollbackStartable, Clean, Published, Open, Unpublished, Readable, Complete,
          Startable, Stoppable, Agree, Wanted, AcceptedBar, RetainedBar,
          Kept, Archived, Running
<1>1. CASE FetchSource
  BY <1>1, SMTT(30) DEF FetchSource
<1>2. CASE CreateRelease
  BY <1>2, SMTT(30) DEF CreateRelease, AddPart
<1>3. CASE StartExtract
  BY <1>3, SMTT(30) DEF StartExtract
<1>4. CASE SkipExtract
  BY <1>4, SMTT(30) DEF SkipExtract
<1>5. CASE Unarchive
  BY <1>5, SMTT(30) DEF Unarchive, AddPart
<1>6. CASE MarkComplete
  BY <1>6, SMTT(30) DEF MarkComplete, AddPart
<1>7. CASE PinImage
  BY <1>7, SMTT(30) DEF PinImage, AddPart
<1>8. CASE UseExplicit
  BY <1>8, SMTT(30) DEF UseExplicit, WritePending
<1>9. CASE UseSaved
  BY <1>9, SMTT(30) DEF UseSaved, SavedEnv, WritePending
<1>10. CASE Generate
  BY <1>10, SMTT(30) DEF Generate, SavedEnv, WritePending
<1>11. CASE ValidateConfig
  BY <1>11, SMTT(30) DEF ValidateConfig
<1>12. CASE BuildImage
  BY <1>12, SMTT(30) DEF BuildImage
<1>13. CASE ValidateCaddy
  BY <1>13, SMTT(30) DEF ValidateCaddy
<1> QED
  BY <1>1, <1>2, <1>3, <1>4, <1>5, <1>6, <1>7, <1>8, <1>9, <1>10, <1>11, <1>12, <1>13 DEF Prepared

LEMMA ActivatedKeeps ==
  ASSUME CoreInv, Activated
  PROVE  CoreInv'
<1> USE DEF CoreInv, TypeOK, CallInv, RecoveryInv, ReleaseInv, StageInv, SnapshotInv, RollbackInv,
          AgreeInv, ArchiveInv, CredentialInv, ContainerInv, QuietServes,
          RollbackStartable, Clean, Published, Open, Unpublished, Readable, Complete,
          Startable, Stoppable, Agree, Wanted, AcceptedBar, RetainedBar,
          Kept, Archived, Running
<1>1. CASE Begun
  BY <1>1, SMTT(30) DEF Begun
<1>2. CASE ActivateEnv
  BY <1>2, SMTT(30) DEF ActivateEnv
<1>3. CASE StartCandidate
  BY <1>3, SMTT(30) DEF StartCandidate
<1>4. CASE PassAcceptance
  BY <1>4, SMTT(30) DEF PassAcceptance
<1>5. CASE Committed
  BY <1>5, SMTT(30) DEF Committed
<1> QED
  BY <1>1, <1>2, <1>3, <1>4, <1>5 DEF Activated

LEMMA FailedKeeps ==
  ASSUME CoreInv, Failed
  PROVE  CoreInv'
<1> USE DEF CoreInv, TypeOK, CallInv, RecoveryInv, ReleaseInv, StageInv, SnapshotInv, RollbackInv,
          AgreeInv, ArchiveInv, CredentialInv, ContainerInv, QuietServes,
          RollbackStartable, Clean, Published, Open, Unpublished, Readable, Complete,
          Startable, Stoppable, Agree, Wanted, AcceptedBar, RetainedBar,
          Kept, Archived, Running
<1>1. CASE RecoverFailed
  BY <1>1, SMTT(30) DEF RecoverFailed
<1>2. CASE PlayFails
  BY <1>2, SMTT(30) DEF PlayFails
<1>3. CASE CandidateFails
  BY <1>3, SMTT(30) DEF CandidateFails, Rescue
<1>4. CASE StartFails
  BY <1>4, SMTT(30) DEF StartFails, Rescue, Interrupted
<1>5. CASE TransactionFails
  BY <1>5, SMTT(30) DEF TransactionFails, Rescue
<1>6. CASE Rescued
  BY <1>6, SMTT(30) DEF Rescued
<1> QED
  BY <1>1, <1>2, <1>3, <1>4, <1>5, <1>6 DEF Failed

LEMMA RestKeeps ==
  ASSUME CoreInv, StartDeploy \/ Recovered \/ Crash
  PROVE  CoreInv'
<1> USE DEF CoreInv, TypeOK, CallInv, RecoveryInv, ReleaseInv, StageInv, SnapshotInv, RollbackInv,
          AgreeInv, ArchiveInv, CredentialInv, ContainerInv, QuietServes,
          RollbackStartable, Clean, Published, Open, Unpublished, Readable, Complete,
          Startable, Stoppable, Agree, Wanted, AcceptedBar, RetainedBar,
          Kept, Archived, Running
<1>1. CASE StartDeploy
  BY <1>1, SMTT(30) DEF StartDeploy
<1>2. CASE Recovered
  BY <1>2, SMTT(30) DEF Recovered
<1>3. CASE Crash
  BY <1>3, SMTT(30) DEF Crash, Die, Interrupted
<1> QED
  BY <1>1, <1>2, <1>3

-----------------------------------------------------------------------------
(* The invariant                                                           *)

LEMMA InitKeeps == Init => CoreInv
  BY DEF Init, CoreInv, TypeOK, CallInv, RecoveryInv, ReleaseInv, StageInv, SnapshotInv,
         RollbackInv, AgreeInv, ArchiveInv, CredentialInv, ContainerInv,
         QuietServes, RollbackStartable, Clean, Published, Open, Unpublished, Readable,
         Complete, Startable, Stoppable, Agree, AcceptedBar, RetainedBar, Kept, Archived

LEMMA StutterKeeps == ASSUME CoreInv, UNCHANGED vars PROVE CoreInv'
  BY DEF CoreInv, TypeOK, CallInv, RecoveryInv, ReleaseInv, StageInv, SnapshotInv,
         RollbackInv, AgreeInv, ArchiveInv, CredentialInv, ContainerInv,
         QuietServes, RollbackStartable, Clean, Published, Open, Unpublished, Readable,
         Complete, Startable, Stoppable, Agree, Wanted, AcceptedBar, RetainedBar, Kept,
         Archived, Running

\* A step of a call is a step of begin, recover or commit, or an error.
LEMMA CallKeeps == ASSUME CoreInv, Call \/ CallFault PROVE CoreInv'
<1>1. CASE BeginCall /\ UNCHANGED <<pc, plan>>
  BY <1>1, BeginKeeps
<1>2. CASE RecoverCall /\ UNCHANGED <<pc, plan>>
  BY <1>2, RecoverKeeps
<1>3. CASE CommitCall /\ UNCHANGED <<pc, plan>>
  BY <1>3, CommitKeeps
<1>4. CASE (Refuse \/ RtFault) /\ UNCHANGED <<pc, plan>>
  BY <1>4, ErrorKeeps
<1> QED
  BY <1>1, <1>2, <1>3, <1>4 DEF Call, CallFault, RtStep, RtFault

LEMMA NextKeeps == ASSUME CoreInv, [Next]_vars PROVE CoreInv'
<1>1. CASE Call \/ CallFault
  BY <1>1, CallKeeps
<1>2. CASE StartDeploy \/ Recovered \/ Crash
  BY <1>2, RestKeeps
<1>3. CASE Prepared
  BY <1>3, PreparedKeeps
<1>4. CASE Activated
  BY <1>4, ActivatedKeeps
<1>5. CASE Failed
  BY <1>5, FailedKeeps
<1>6. CASE UNCHANGED vars
  BY <1>6, StutterKeeps
<1> QED
  BY <1>1, <1>2, <1>3, <1>4, <1>5, <1>6 DEF Next, Progress, Fault

\* A pair is generated only when no env is on the disk, not even a pending one.
LEMMA GenerationKeeps ==
  ASSUME CoreInv, GenerationInv, [Next]_vars
  PROVE  GenerationInv'
<1> USE DEF CoreInv, TypeOK, GenerationInv
<1>1. CASE Call \/ CallFault
  BY <1>1 DEF Call, CallFault, RtStep, RtFault, BeginCall, RecoverCall, CommitCall, Refuse, Raise,
              Begin, StageCandidate, StagePrevious, StageState, Publish, SyncSnapshot,
              RecoverNothing, Recover, RestoreEnv, RestartPrevious, RestartFails, Repoint,
              StopCandidate, StopFails, DropEnv, DropCurrent, PurgeFile, PurgeDirectory,
              Commit, Promote, Archive, Retain
<1>2. CASE Generate
  BY <1>2 DEF Generate, SavedEnv, WritePending, ReleaseInv
<1>3. CASE Prepared /\ ~Generate
  <2>1. CASE UseExplicit \/ UseSaved
    BY <2>1 DEF UseExplicit, UseSaved, SavedEnv, WritePending, ReleaseInv
  <2>2. CASE ~(UseExplicit \/ UseSaved)
    BY <1>3, <2>2 DEF Prepared, FetchSource, CreateRelease, StartExtract, SkipExtract, Unarchive,
                      MarkComplete, PinImage, ValidateConfig, BuildImage, ValidateCaddy
  <2> QED
    BY <2>1, <2>2
<1>4. CASE Activated
  BY <1>4 DEF Activated, Begun, ActivateEnv, StartCandidate, PassAcceptance, Committed
<1>5. CASE Failed
  BY <1>5 DEF Failed, RecoverFailed, PlayFails, CandidateFails, StartFails, TransactionFails,
              Rescued, Rescue
<1>6. CASE StartDeploy \/ Recovered \/ Crash
  BY <1>6 DEF StartDeploy, Recovered, Crash, Die
<1>7. CASE UNCHANGED vars
  BY <1>7
<1> QED
  BY <1>1, <1>2, <1>3, <1>4, <1>5, <1>6, <1>7 DEF Next, Progress, Fault

LEMMA CoreInvariance == Spec => []CoreInv
<1>1. CoreInv /\ [Next]_vars => CoreInv'
  BY NextKeeps
<1> QED
  BY InitKeeps, <1>1, PTL DEF Spec

\* The whole strengthening holds in every reachable state.
THEOREM Invariance == Spec => []IInv
<1>1. Init => IInv
  BY InitKeeps DEF Init, IInv, GenerationInv
<1>2. IInv /\ [Next]_vars => IInv'
  BY NextKeeps, GenerationKeeps DEF IInv
<1> QED
  BY <1>1, <1>2, PTL DEF Spec

\* Every variable keeps its type (the files, pointers and stages of the role).
THEOREM TypeCorrectness == Spec => []TypeOK
<1>1. IInv => TypeOK
  BY DEF IInv, CoreInv
<1> QED
  BY Invariance, <1>1, PTL

\* Outside a readable transaction the container that runs is the accepted one
\* (runtime_state.py recover and commit).
THEOREM ServiceAgreement == Spec => []QuietServes
<1>1. IInv => QuietServes
  BY DEF IInv, CoreInv
<1> QED
  BY Invariance, <1>1, PTL

\* Rollbacks and retained services always find their release and image.
THEOREM RollbackMaterial == Spec => []RollbackStartable
<1>1. IInv => RollbackStartable
  BY DEF IInv, CoreInv
<1> QED
  BY Invariance, <1>1, PTL

\* begin and commit never meet the states they refuse.
THEOREM NoSpuriousRefusal == Spec => []CallsAdmissible
<1>1. IInv => CallsAdmissible
  <2> SUFFICES ASSUME IInv PROVE CallsAdmissible
    OBVIOUS
  <2> USE DEF IInv, CoreInv, TypeOK, CallInv, RecoveryInv, Clean, Open, Published, Unpublished
  <2>1. ASSUME rt = "begin" PROVE CanBegin
    BY <2>1 DEF CanBegin, ReleaseInv, AgreeInv, Agree, Readable
  <2>2. ASSUME rt = "commit" PROVE CanCommit
    BY <2>2 DEF CanCommit, SnapshotInv, Readable
  <2> QED
    BY <2>1, <2>2 DEF CallsAdmissible
<1> QED
  BY Invariance, <1>1, PTL

\* A deploy reported successful has accepted, and runs, what it prepared.
THEOREM SuccessfulDeploy == Spec => []SuccessMeansAccepted
<1>1. IInv => SuccessMeansAccepted
  BY DEF IInv, CoreInv, TypeOK, RecoveryInv, Clean, SnapshotInv, ContainerInv, ReleaseInv,
         SuccessMeansAccepted, AcceptedBar, Readable
<1> QED
  BY Invariance, <1>1, PTL

\* A host gets at most one generated pair.
THEOREM GenerationOnce == Spec => []GeneratedOnce
<1>1. IInv => GeneratedOnce
  <2> SUFFICES ASSUME IInv PROVE Cardinality(minted) <= 1
    BY DEF GeneratedOnce
  <2>1. CASE minted = {}
    BY <2>1, FS_EmptySet
  <2>2. CASE \E g \in Generated : minted = {g}
    <3>1. PICK g \in Generated : minted = {g}
      BY <2>2
    <3>2. Cardinality({g}) = 1
      BY FS_Singleton
    <3> QED
      BY <3>1, <3>2
  <2> QED
    BY <2>1, <2>2 DEF IInv, GenerationInv
<1> QED
  BY Invariance, <1>1, PTL

-----------------------------------------------------------------------------
(* The refinement                                                          *)

\* The last rename of commit accepts the candidate: one step of the abstract
\* specification, with the pair this run wanted.
LEMMA RetainAccepts ==
  ASSUME CoreInv, Retain, UNCHANGED <<pc, plan>>
  PROVE  /\ AcceptedBar' = [commit |-> candidate, env |-> recovery.candidate]
         /\ AcceptedBar' \in Services
         /\ AcceptedBar # None => AcceptedBar'.env.cred = Wanted(AcceptedBar.env.cred)
         /\ RetainedBar' = RetainedBar \cup ({AcceptedBar} \ {None})
<1>1. Published /\ Readable /\ ~Readable' /\ recovery \in Snapshots /\ previous = None
  BY DEF CoreInv, TypeOK, RecoveryInv, SnapshotInv, Open, Published, Readable, Retain
<1>2. /\ recovery.meta.candidate = candidate /\ current = candidate /\ env = recovery.candidate
      /\ candidate \in Commits /\ env \in Envs
  BY <1>1 DEF CoreInv, TypeOK, CallInv, SnapshotInv, ReleaseInv, Readable, Retain
<1>3. AcceptedBar' = [commit |-> candidate, env |-> recovery.candidate]
  BY <1>1, <1>2 DEF AcceptedBar, Retain
<1>4. recovery.meta.previous # None =>
        AcceptedBar = [commit |-> recovery.meta.previous, env |-> recovery.previous] /\ AcceptedBar # None
  BY <1>1 DEF AcceptedBar, Readable
<1>5. recovery.meta.previous = None => AcceptedBar = None
  BY <1>1 DEF AcceptedBar
<1>6. AcceptedBar # None => AcceptedBar'.env.cred = Wanted(AcceptedBar.env.cred)
  BY <1>1, <1>3, <1>4, <1>5 DEF CoreInv, CredentialInv, Readable
<1>7. Archived' = Archived \cup {recovery}
  BY <1>1 DEF Archived, Retain, Readable
<1>8. RetainedBar' = RetainedBar \cup ({AcceptedBar} \ {None})
  BY <1>4, <1>5, <1>7 DEF RetainedBar, Kept
<1> QED
  BY <1>2, <1>3, <1>6, <1>8

\* begin: the published snapshot restores what was accepted when it was taken.
LEMMA BeginStutters ==
  ASSUME CoreInv, BeginCall, UNCHANGED <<pc, plan>>
  PROVE  UNCHANGED <<AcceptedBar, RetainedBar>>
<1> USE DEF CoreInv, TypeOK, CallInv, RecoveryInv, StageInv, SnapshotInv, RollbackInv, AgreeInv,
          ReleaseInv, Clean, Published, Open, Unpublished, Readable, Complete, Agree,
          AcceptedBar, RetainedBar, Kept, Archived
<1>1. CASE Begin
  BY <1>1 DEF Begin
<1>2. CASE StageCandidate
  BY <1>2 DEF StageCandidate
<1>3. CASE StagePrevious
  BY <1>3 DEF StagePrevious
<1>4. CASE StageState
  BY <1>4 DEF StageState
<1>5. CASE Publish
  BY <1>5 DEF Publish
<1>6. CASE SyncSnapshot
  BY <1>6 DEF SyncSnapshot
<1> QED
  BY <1>1, <1>2, <1>3, <1>4, <1>5, <1>6 DEF BeginCall

\* recover: the env and the pointer are the snapshot's before the first of its
\* files goes.
LEMMA RecoverStutters ==
  ASSUME CoreInv, RecoverCall, UNCHANGED <<pc, plan>>
  PROVE  UNCHANGED <<AcceptedBar, RetainedBar>>
<1> USE DEF CoreInv, TypeOK, CallInv, RecoveryInv, StageInv, SnapshotInv, RollbackInv, AgreeInv,
          ReleaseInv, Clean, Published, Open, Unpublished, Readable, Complete, Agree,
          AcceptedBar, RetainedBar, Kept, Archived
<1>1. CASE RecoverNothing
  BY <1>1 DEF RecoverNothing
<1>2. CASE Recover
  BY <1>2 DEF Recover
<1>3. CASE RestoreEnv
  BY <1>3 DEF RestoreEnv
<1>4. CASE RestartPrevious
  BY <1>4 DEF RestartPrevious
<1>5. CASE Repoint
  BY <1>5 DEF Repoint
<1>6. CASE StopCandidate
  BY <1>6 DEF StopCandidate
<1>7. CASE DropEnv
  BY <1>7 DEF DropEnv
<1>8. CASE DropCurrent
  BY <1>8 DEF DropCurrent
<1>9. CASE PurgeFile
  BY <1>9 DEF PurgeFile
<1>10. CASE PurgeDirectory
  BY <1>10 DEF PurgeDirectory
<1> QED
  BY <1>1, <1>2, <1>3, <1>4, <1>5, <1>6, <1>7, <1>8, <1>9, <1>10 DEF RecoverCall

\* commit, up to its last rename.
LEMMA CommitStutters ==
  ASSUME CoreInv, Commit \/ Promote \/ Archive, UNCHANGED <<pc, plan>>
  PROVE  UNCHANGED <<AcceptedBar, RetainedBar>>
<1> USE DEF CoreInv, TypeOK, CallInv, RecoveryInv, StageInv, SnapshotInv, RollbackInv, AgreeInv,
          ReleaseInv, Clean, Published, Open, Unpublished, Readable, Complete, Agree,
          AcceptedBar, RetainedBar, Kept, Archived
<1>1. CASE Commit
  BY <1>1 DEF Commit
<1>2. CASE Promote
  BY <1>2 DEF Promote
<1>3. CASE Archive
  BY <1>3 DEF Archive
<1> QED
  BY <1>1, <1>2, <1>3

\* Errors write nothing but the container.
LEMMA ErrorStutters ==
  ASSUME CoreInv, Refuse \/ RtFault, UNCHANGED <<pc, plan>>
  PROVE  UNCHANGED <<AcceptedBar, RetainedBar>>
<1> USE DEF CoreInv, TypeOK, CallInv, RecoveryInv, StageInv, SnapshotInv, RollbackInv, AgreeInv,
          ReleaseInv, Clean, Published, Open, Unpublished, Readable, Complete, Agree,
          AcceptedBar, RetainedBar, Kept, Archived
<1>1. CASE Refuse
  BY <1>1 DEF Refuse
<1>2. CASE Raise
  BY <1>2 DEF Raise
<1>3. CASE RestartFails
  BY <1>3 DEF RestartFails
<1>4. CASE StopFails
  BY <1>4 DEF StopFails
<1> QED
  BY <1>1, <1>2, <1>3, <1>4 DEF RtFault

\* The role itself writes releases, the pending env and, once a snapshot is
\* published, the active env.
LEMMA RoleStutters ==
  ASSUME CoreInv, StartDeploy \/ Recovered \/ Prepared \/ Activated \/ Failed \/ Crash
  PROVE  UNCHANGED <<AcceptedBar, RetainedBar>>
<1> USE DEF CoreInv, TypeOK, CallInv, RecoveryInv, StageInv, SnapshotInv, RollbackInv, AgreeInv,
          ReleaseInv, Clean, Published, Open, Unpublished, Readable, Complete, Agree,
          AcceptedBar, RetainedBar, Kept, Archived
<1>1. CASE StartDeploy
  BY <1>1 DEF StartDeploy
<1>2. CASE Recovered
  BY <1>2 DEF Recovered
<1>3. CASE FetchSource
  BY <1>3 DEF FetchSource
<1>4. CASE CreateRelease
  BY <1>4 DEF CreateRelease, AddPart
<1>5. CASE StartExtract
  BY <1>5 DEF StartExtract
<1>6. CASE SkipExtract
  BY <1>6 DEF SkipExtract
<1>7. CASE Unarchive
  BY <1>7 DEF Unarchive, AddPart
<1>8. CASE MarkComplete
  BY <1>8 DEF MarkComplete, AddPart
<1>9. CASE PinImage
  BY <1>9 DEF PinImage, AddPart
<1>10. CASE UseExplicit
  BY <1>10 DEF UseExplicit
<1>11. CASE UseSaved
  BY <1>11 DEF UseSaved
<1>12. CASE Generate
  BY <1>12 DEF Generate
<1>13. CASE ValidateConfig
  BY <1>13 DEF ValidateConfig
<1>14. CASE BuildImage
  BY <1>14 DEF BuildImage
<1>15. CASE ValidateCaddy
  BY <1>15 DEF ValidateCaddy
<1>16. CASE Activated
  BY <1>16 DEF Activated, Begun, ActivateEnv, StartCandidate, PassAcceptance, Committed
<1>17. CASE Failed
  BY <1>17 DEF Failed, RecoverFailed, PlayFails, CandidateFails, StartFails, TransactionFails, Rescued, Rescue
<1>18. CASE Crash
  BY <1>18 DEF Crash, Die
<1> QED
  BY <1>1, <1>2, <1>3, <1>4, <1>5, <1>6, <1>7, <1>8, <1>9, <1>10, <1>11, <1>12, <1>13, <1>14, <1>15, <1>16, <1>17, <1>18 DEF Prepared

LEMMA OthersStutter ==
  ASSUME CoreInv, [Next]_vars, ~(Retain /\ UNCHANGED <<pc, plan>>)
  PROVE  UNCHANGED <<AcceptedBar, RetainedBar>>
<1>1. CASE BeginCall /\ UNCHANGED <<pc, plan>>
  BY <1>1, BeginStutters
<1>2. CASE RecoverCall /\ UNCHANGED <<pc, plan>>
  BY <1>2, RecoverStutters
<1>3. CASE CommitCall /\ UNCHANGED <<pc, plan>>
  BY <1>3, CommitStutters DEF CommitCall
<1>4. CASE (Refuse \/ RtFault) /\ UNCHANGED <<pc, plan>>
  BY <1>4, ErrorStutters
<1>5. CASE StartDeploy \/ Recovered \/ Prepared \/ Activated \/ Failed \/ Crash
  BY <1>5, RoleStutters
<1>6. CASE UNCHANGED vars
  BY <1>6 DEF AcceptedBar, RetainedBar, Kept, Archived, Readable, Complete
<1> QED
  BY <1>1, <1>2, <1>3, <1>4, <1>5, <1>6
     DEF Next, Progress, Fault, Call, CallFault, RtStep, RtFault

\* Every step of the role and of its crashes is a step of AcceptedService or a
\* stutter: what is accepted changes only at commit's last rename, from one whole
\* pair to another, and no replaced pair is lost.
THEOREM Refinement == Spec => Refines
<1>1. Init => Abstract!Init
  BY DEF Init, Abstract!Init, AcceptedBar, RetainedBar, Kept, Archived, Readable
<1>2. CoreInv /\ [Next]_vars => [Abstract!Next]_(Abstract!vars)
  <2> SUFFICES ASSUME CoreInv, [Next]_vars PROVE [Abstract!Next]_(Abstract!vars)
    OBVIOUS
  <2>1. CASE Retain /\ UNCHANGED <<pc, plan>>
    <3>1. Abstract!Accept(AcceptedBar')
      <4>1. AcceptedBar # None => AcceptedBar'.env.cred \in Explicit \cup {AcceptedBar.env.cred}
        BY <2>1, RetainAccepts DEF Wanted, CoreInv, TypeOK, ReleaseInv, CallInv, Retain
      <4> QED
        BY <2>1, <4>1, RetainAccepts DEF Abstract!Accept
    <3>2. AcceptedBar' \in Abstract!Services
      BY <2>1, RetainAccepts DEF Abstract!Services, Abstract!Envs
    <3> QED
      BY <3>1, <3>2 DEF Abstract!Next
  <2>2. CASE ~(Retain /\ UNCHANGED <<pc, plan>>)
    BY <2>2, OthersStutter DEF Abstract!vars
  <2> QED
    BY <2>1, <2>2
<1> QED
  BY CoreInvariance, <1>1, <1>2, PTL DEF Spec, Refines, Abstract!Spec

\* An accepted pair changes only in a run that was given another.
THEOREM CredentialsKept == Spec => KeepsCredentials
<1>1. CoreInv /\ [Next]_vars =>
        [AcceptedBar # None /\ AcceptedBar' # AcceptedBar =>
            AcceptedBar'.env.cred =
                IF job.explicit # None THEN job.explicit ELSE AcceptedBar.env.cred]_vars
  BY RetainAccepts, OthersStutter DEF Wanted
<1> QED
  BY CoreInvariance, <1>1, PTL DEF Spec, KeepsCredentials

=============================================================================
