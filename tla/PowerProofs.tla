------------------------------ MODULE PowerProofs ------------------------------
(***************************************************************************)
(* Proofs about PowerLoss for every set of commits, settings and pairs and *)
(* every number of deploys, faults and power failures.                     *)
(***************************************************************************)
EXTENDS PowerInvariants, DeployTransactionProofs

USE NoneAssumption, MaxFaultsAssumption, MaxDeploysAssumption, NoRecordAssumption
    DEF active, records, releases, plan, disk, rtVars, vars, Goto, Then, Finish,
        Stages, Prepare, Check, Activate, RtStates, RtSteps, Calls, BeginSteps,
        RollbackSteps, StopSteps, CommitSteps,
        Snapshots, Metas, Envs, Creds, Jobs, Services, Containers, Parts, EmptySnapshot

-----------------------------------------------------------------------------
(* Lemmas about single steps                                               *)

\* A completed release only gains parts: no later deploy overwrites it.
LEMMA PartsStay ==
  ASSUME CoreInv, [Next]_vars
  PROVE  /\ \A c \in Commits : Complete(c) => release[c] \subseteq release'[c]
         /\ images \subseteq images'
<1> USE DEF CoreInv, TypeOK, Complete
<1>1. CASE Call \/ CallFault
  BY <1>1 DEF Call, CallFault, RtStep, RtFault, BeginCall, RecoverCall, CommitCall, Refuse, Raise,
              Begin, StageCandidate, StagePrevious, StageState, Publish, SyncSnapshot,
              RecoverNothing, Recover, RestoreEnv, RestartPrevious, RestartFails, Repoint,
              StopCandidate, StopFails, DropEnv, DropCurrent, PurgeFile, PurgeDirectory,
              Commit, Promote, Archive, Retain
<1>2. CASE Prepared
  BY <1>2 DEF Prepared, FetchSource, CreateRelease, StartExtract, SkipExtract, Unarchive,
              MarkComplete, PinImage, ValidateConfig, BuildImage, ValidateCaddy, AddPart,
              UseExplicit, UseSaved, Generate
<1>3. CASE Activated
  BY <1>3 DEF Activated, Begun, ActivateEnv, StartCandidate, PassAcceptance, Committed
<1>4. CASE Failed
  BY <1>4 DEF Failed, RecoverFailed, PlayFails, CandidateFails, StartFails, TransactionFails,
              Rescued, Rescue
<1>5. CASE StartDeploy \/ Recovered \/ Crash
  BY <1>5 DEF StartDeploy, Recovered, Crash, Die
<1>6. CASE UNCHANGED vars
  BY <1>6
<1> QED
  BY <1>1, <1>2, <1>3, <1>4, <1>5, <1>6 DEF Next, Progress, Fault


\* What a reboot finds right after a write-back is a state of an idle host.
LEMMA NothingLags ==
  CoreInv /\ durable = files => FoundInv /\ StagedInv /\ SyncedInv /\ LagInv
<1> SUFFICES ASSUME CoreInv, durable = files
             PROVE  FoundInv /\ StagedInv /\ SyncedInv /\ LagInv
  OBVIOUS
<1> USE DEF CoreInv, TypeOK, Readable, Complete, Startable, Stoppable
<1>1. /\ durable.env = env /\ durable.pending = pending /\ durable.current = current
      /\ durable.recovery = recovery /\ durable.previous = previous
      /\ durable.history = history
  BY DEF files
<1>2. durable \in FileStates
  BY DEF files, FileStates
<1>3. Whole(durable.recovery) <=> Readable
  BY <1>1 DEF Whole
<1>4. Lasting = Archived
  BY <1>1 DEF Lasting, Archived
<1>5. ASSUME NEW s \in Archived
      PROVE  s.meta # None /\ (s.meta.previous # None => Lasts(s.meta.previous))
  <2>1. s.meta # None
    BY DEF ArchiveInv
  <2>2. ASSUME s.meta.previous # None PROVE Lasts(s.meta.previous)
    <3> DEFINE k == [commit |-> s.meta.previous, env |-> s.previous]
    <3>1. k \in RetainedBar
      BY <2>2 DEF RetainedBar, Kept
    <3>2. Complete(k.commit) /\ Startable(k.commit)
      BY <3>1 DEF ReleaseInv, RollbackStartable
    <3> QED
      BY <3>2 DEF Lasts
  <2> QED
    BY <2>1, <2>2
<1>6. ASSUME Readable PROVE FoundInv
  <2>1. ASSUME recovery.meta.previous # None PROVE Startable(recovery.meta.previous)
    <3> DEFINE k == [commit |-> recovery.meta.previous, env |-> recovery.previous]
    <3>1. AcceptedBar = k /\ k \in Services
      BY <1>6, <2>1 DEF AcceptedBar
    <3> QED
      BY <3>1 DEF RollbackStartable
  <2>2. /\ Stoppable(recovery.meta.candidate)
        /\ (recovery.meta.previous = None <=> recovery.previous = None)
        /\ current # None => Complete(current)
    BY <1>6 DEF RollbackStartable, SnapshotInv, ReleaseInv
  <2> QED
    BY <1>1, <1>2, <1>3, <1>4, <1>5, <1>6, <2>1, <2>2 DEF FoundInv
<1>7. ASSUME ~Readable PROVE FoundInv
  <2>1. ASSUME current # None PROVE Startable(current)
    <3> DEFINE k == [commit |-> current, env |-> env]
    <3>1. AcceptedBar = k /\ k \in Services
      BY <1>7, <2>1 DEF AcceptedBar, AgreeInv, Agree
    <3> QED
      BY <3>1 DEF RollbackStartable
  <2>2. /\ current # None => Complete(current)
        /\ (current = None <=> env = None)
        /\ container = IF current = None THEN None ELSE Running(current, env)
    BY <1>7 DEF ReleaseInv, AgreeInv, Agree, QuietServes
  <2> QED
    BY <1>1, <1>2, <1>3, <1>4, <1>5, <1>7, <2>1, <2>2 DEF FoundInv
<1>8. FoundInv
  BY <1>6, <1>7
<1>9. StagedInv /\ SyncedInv /\ LagInv
  BY <1>1, <1>3 DEF StagedInv, SyncedInv, LagInv
<1> QED
  BY <1>8, <1>9

\* Coming up with what is durable, the host satisfies the role's own invariant.
LEMMA LosePowerCore ==
  ASSUME PowerIInv, LosePower
  PROVE  CoreInv'
<1> USE DEF PowerIInv, FoundInv, FileStates, Whole, Lasting, Lasts, LosePower
<1>1. TypeOK'
  <2>1. container' \in Containers \cup {None}
    <3>1. CASE pc = "start"
      BY <3>1 DEF CoreInv, TypeOK, Interrupted, ReleaseInv, SnapshotInv, RecoveryInv, CallInv,
                  Open, Published, Readable
    <3>2. CASE pc # "start" /\ rt = "restart"
      BY <3>2 DEF CoreInv, TypeOK, Interrupted, RecoveryInv, RollbackInv, Open, Readable
    <3>3. CASE pc # "start" /\ rt = "stop"
      BY <3>3 DEF CoreInv, TypeOK
    <3>4. CASE pc # "start" /\ rt \notin {"restart", "stop"}
      BY <3>4 DEF CoreInv, TypeOK, Interrupted
    <3> QED
      BY <3>1, <3>2, <3>3, <3>4
  <2> QED
    BY <2>1 DEF CoreInv, TypeOK
<1>2. CallInv' /\ RecoveryInv' /\ StageInv' /\ RollbackInv' /\ CredentialInv' /\ ContainerInv'
  BY DEF CallInv, RecoveryInv, StageInv, RollbackInv, CredentialInv, ContainerInv, Clean, Open,
         Published, Unpublished
<1>3. ReleaseInv'
  BY DEF CoreInv, ReleaseInv, Complete, RetainedBar, Kept, Archived
<1>4. SnapshotInv' /\ AgreeInv' /\ ArchiveInv'
  BY DEF SnapshotInv, AgreeInv, Agree, ArchiveInv, Archived, Readable, Complete, Published
<1>5. QuietServes'
  BY SMTT(30) DEF QuietServes, Readable, Complete, Running, SyncedInv, Unsynced, CoreInv, CallInv,
         RecoveryInv, RollbackInv, Published, Open
<1>6. RollbackStartable'
  BY DEF RollbackStartable, RetainedBar, AcceptedBar, Kept, Archived, Readable, Complete,
         Startable, Stoppable
<1> QED
  BY <1>1, <1>2, <1>3, <1>4, <1>5, <1>6 DEF CoreInv
-----------------------------------------------------------------------------
(* A step that writes nothing back                                         *)

\* Only a Compose command changes the container, and it runs only while the snapshot a
\* reboot would find is whole (or there is no container to change).
LEMMA ContainerStays ==
  ASSUME PowerIInv, [Next]_vars, ~Whole(durable.recovery)
  PROVE  container' = container
<1> USE DEF PowerIInv, CoreInv, TypeOK, CallInv, RecoveryInv, RollbackInv, SyncedInv, Unsynced,
            Whole, Readable, Open, Published
<1>1. CASE Call \/ CallFault
  BY <1>1 DEF Call, CallFault, RtStep, RtFault, BeginCall, RecoverCall, CommitCall, Refuse, Raise,
              Begin, StageCandidate, StagePrevious, StageState, Publish, SyncSnapshot,
              RecoverNothing, Recover, RestoreEnv, RestartPrevious, RestartFails, Repoint,
              StopCandidate, StopFails, DropEnv, DropCurrent, PurgeFile, PurgeDirectory,
              Commit, Promote, Archive, Retain
<1>2. CASE Prepared
  BY <1>2 DEF Prepared, FetchSource, CreateRelease, StartExtract, SkipExtract, Unarchive,
              MarkComplete, PinImage, ValidateConfig, BuildImage, ValidateCaddy, AddPart,
              UseExplicit, UseSaved, Generate
<1>3. CASE Activated
  BY <1>3 DEF Activated, Begun, ActivateEnv, StartCandidate, PassAcceptance, Committed
<1>4. CASE Failed
  BY <1>4 DEF Failed, RecoverFailed, PlayFails, CandidateFails, StartFails, TransactionFails,
              Rescued, Rescue
<1>5. CASE StartDeploy \/ Recovered \/ Crash
  BY <1>5 DEF StartDeploy, Recovered, Crash, Die, Interrupted
<1>6. CASE UNCHANGED vars
  BY <1>6
<1> QED
  BY <1>1, <1>2, <1>3, <1>4, <1>5, <1>6 DEF Next, Progress, Fault

\* What is durable keeps its meaning: its releases only gain parts.
LEMMA FoundKeeps ==
  ASSUME PowerIInv, [Next]_vars, durable' = durable
  PROVE  FoundInv' /\ Names(durable.recovery)'
<1> USE DEF PowerIInv
<1>1. \A c \in Commits : Complete(c) => Complete(c)'
  BY PartsStay DEF Complete
<1>2. \A c \in Commits : Complete(c) /\ Stoppable(c) => Stoppable(c)'
  BY PartsStay DEF Stoppable
<1>3. \A c \in Commits : Complete(c) /\ Startable(c) => Startable(c)'
  BY <1>2, PartsStay DEF Startable
<1>4. /\ durable.recovery # None /\ durable.recovery.meta # None =>
            /\ durable.recovery.meta.candidate \in Commits
            /\ durable.recovery.meta.previous \in Commits \cup {None}
      /\ durable.current \in Commits \cup {None}
      /\ \A s \in Lasting : s.meta # None => s.meta.previous \in Commits \cup {None}
  BY DEF FoundInv, FileStates, Lasting
<1>5. Names(durable.recovery)'
  BY <1>1, <1>4 DEF NamesInv, Names
<1>6. Whole(durable.recovery)' <=> Whole(durable.recovery)
  BY <1>1, <1>4 DEF NamesInv, Names, Whole
<1>7. ~Whole(durable.recovery) => container' = container
  BY ContainerStays
<1>8. \A s \in Lasting : s.meta.previous # None => Lasts(s.meta.previous)'
  BY <1>1, <1>3, <1>4 DEF FoundInv, Lasts
<1>9. Lasting' = Lasting
  BY DEF Lasting
<1>10. FoundInv'
  BY <1>1, <1>2, <1>3, <1>4, <1>6, <1>7, <1>8, <1>9 DEF FoundInv, Whole, Running, FileStates
<1> QED
  BY <1>5, <1>10
-----------------------------------------------------------------------------
(* How far the disk is behind                                              *)

\* The parts of PowerIInv about what a reboot would find; the last three hold after a
\* write-back anyway (NothingLags).
DistanceInv ==
    /\ Names(recovery)' /\ ServedInv'
    /\ durable' # files' => StagedInv' /\ SyncedInv' /\ LagInv'

\* begin publishes its snapshot over durable files, and syncs it before it returns.
LEMMA BeginDistance ==
  ASSUME PowerIInv, BeginCall, UNCHANGED <<pc, plan>>, Step
  PROVE  DistanceInv
<1> USE DEF PowerIInv, CoreInv, TypeOK, CallInv, RecoveryInv, ReleaseInv, StageInv, SnapshotInv, RollbackInv,
          AgreeInv, ContainerInv, QuietServes, Clean, Published, Open, Unpublished, Readable,
          Complete, Agree, Running, FoundInv, FileStates, Whole, NamesInv, Names, ServedInv,
          StagedInv, Unsynced, SyncedInv, LagInv, DistanceInv, Step, Syncing, Committed
<1>1. CASE StageCandidate
  BY <1>1, SMTT(30) DEF StageCandidate
<1>2. CASE StagePrevious
  BY <1>2, SMTT(30) DEF StagePrevious
<1>3. CASE StageState
  BY <1>3, SMTT(30) DEF StageState
<1>4. CASE Publish
  BY <1>4, SMTT(30) DEF Publish
<1>5. CASE SyncSnapshot
  BY <1>5, SMTT(30) DEF SyncSnapshot
<1>6. CASE Begin
  BY <1>6, SMTT(30) DEF Begin, CanBegin
<1> QED
  BY <1>1, <1>2, <1>3, <1>4, <1>5, <1>6 DEF BeginCall

\* A rollback activates what the durable snapshot restores, and takes the snapshot away last.
LEMMA RecoverDistance ==
  ASSUME PowerIInv, RecoverCall, UNCHANGED <<pc, plan>>, Step
  PROVE  DistanceInv
<1> USE DEF PowerIInv, CoreInv, TypeOK, CallInv, RecoveryInv, ReleaseInv, StageInv, SnapshotInv, RollbackInv,
          AgreeInv, ContainerInv, QuietServes, Clean, Published, Open, Unpublished, Readable,
          Complete, Agree, Running, FoundInv, FileStates, Whole, NamesInv, Names, ServedInv,
          StagedInv, Unsynced, SyncedInv, LagInv, DistanceInv, Step, Syncing, Committed
<1>1. CASE RecoverNothing
  BY <1>1, SMTT(30) DEF RecoverNothing
<1>2. CASE Recover
  BY <1>2, SMTT(30) DEF Recover
<1>3. CASE RestoreEnv
  BY <1>3, SMTT(30) DEF RestoreEnv
<1>4. CASE RestartPrevious
  BY <1>4, SMTT(30) DEF RestartPrevious
<1>5. CASE Repoint
  BY <1>5, SMTT(30) DEF Repoint
<1>6. CASE StopCandidate
  BY <1>6, SMTT(30) DEF StopCandidate
<1>7. CASE DropEnv
  BY <1>7, SMTT(30) DEF DropEnv
<1>8. CASE DropCurrent
  BY <1>8, SMTT(30) DEF DropCurrent
<1>9. CASE PurgeFile
  BY <1>9, SMTT(30) DEF PurgeFile
<1>10. CASE PurgeDirectory
  BY <1>10, SMTT(30) DEF PurgeDirectory
<1> QED
  BY <1>1, <1>2, <1>3, <1>4, <1>5, <1>6, <1>7, <1>8, <1>9, <1>10 DEF RecoverCall

\* commit moves the pointer and the snapshots, its last renames unsynced.
LEMMA CommitDistance ==
  ASSUME PowerIInv, CommitCall, UNCHANGED <<pc, plan>>, Step
  PROVE  DistanceInv
<1> USE DEF PowerIInv, CoreInv, TypeOK, CallInv, RecoveryInv, ReleaseInv, StageInv, SnapshotInv, RollbackInv,
          AgreeInv, ContainerInv, QuietServes, Clean, Published, Open, Unpublished, Readable,
          Complete, Agree, Running, FoundInv, FileStates, Whole, NamesInv, Names, ServedInv,
          StagedInv, Unsynced, SyncedInv, LagInv, DistanceInv, Step, Syncing, Committed
<1>1. CASE Commit
  BY <1>1, SMTT(30) DEF Commit, CanCommit
<1>2. CASE Promote
  BY <1>2, SMTT(30) DEF Promote
<1>3. CASE Archive
  BY <1>3, SMTT(30) DEF Archive
<1>4. CASE Retain
  BY <1>4, SMTT(30) DEF Retain
<1> QED
  BY <1>1, <1>2, <1>3, <1>4 DEF CommitCall

\* An error writes nothing back.
LEMMA ErrorDistance ==
  ASSUME PowerIInv, Refuse \/ RtFault, UNCHANGED <<pc, plan>>, Step
  PROVE  DistanceInv
<1> USE DEF PowerIInv, CoreInv, TypeOK, CallInv, RecoveryInv, ReleaseInv, StageInv, SnapshotInv, RollbackInv,
          AgreeInv, ContainerInv, QuietServes, Clean, Published, Open, Unpublished, Readable,
          Complete, Agree, Running, FoundInv, FileStates, Whole, NamesInv, Names, ServedInv,
          StagedInv, Unsynced, SyncedInv, LagInv, DistanceInv, Step, Syncing, Committed
<1>1. CASE Refuse
  BY <1>1, SMTT(30) DEF Refuse, CanBegin, CanCommit
<1>2. CASE Raise
  BY <1>2, SMTT(30) DEF Raise
<1>3. CASE RestartFails
  BY <1>3, SMTT(30) DEF RestartFails, Interrupted
<1>4. CASE StopFails
  BY <1>4, SMTT(30) DEF StopFails
<1> QED
  BY <1>1, <1>2, <1>3, <1>4 DEF RtFault

\* Preparing a candidate touches no file of a transaction.
LEMMA PreparedDistance ==
  ASSUME PowerIInv, Prepared, Step
  PROVE  DistanceInv
<1> USE DEF PowerIInv, CoreInv, TypeOK, CallInv, RecoveryInv, ReleaseInv, StageInv, SnapshotInv, RollbackInv,
          AgreeInv, ContainerInv, QuietServes, Clean, Published, Open, Unpublished, Readable,
          Complete, Agree, Running, FoundInv, FileStates, Whole, NamesInv, Names, ServedInv,
          StagedInv, Unsynced, SyncedInv, LagInv, DistanceInv, Step, Syncing, Committed
<1>1. CASE FetchSource
  BY <1>1, SMTT(30) DEF FetchSource, AddPart, WritePending
<1>2. CASE CreateRelease
  BY <1>2, SMTT(30) DEF CreateRelease, AddPart, WritePending
<1>3. CASE StartExtract
  BY <1>3, SMTT(30) DEF StartExtract, AddPart, WritePending
<1>4. CASE SkipExtract
  BY <1>4, SMTT(30) DEF SkipExtract, AddPart, WritePending
<1>5. CASE Unarchive
  BY <1>5, SMTT(30) DEF Unarchive, AddPart, WritePending
<1>6. CASE MarkComplete
  BY <1>6, SMTT(30) DEF MarkComplete, AddPart, WritePending
<1>7. CASE PinImage
  BY <1>7, SMTT(30) DEF PinImage, AddPart, WritePending
<1>8. CASE UseExplicit
  BY <1>8, SMTT(30) DEF UseExplicit, AddPart, WritePending
<1>9. CASE UseSaved
  BY <1>9, SMTT(30) DEF UseSaved, AddPart, WritePending
<1>10. CASE Generate
  BY <1>10, SMTT(30) DEF Generate, AddPart, WritePending
<1>11. CASE ValidateConfig
  BY <1>11, SMTT(30) DEF ValidateConfig, AddPart, WritePending
<1>12. CASE BuildImage
  BY <1>12, SMTT(30) DEF BuildImage, AddPart, WritePending
<1>13. CASE ValidateCaddy
  BY <1>13, SMTT(30) DEF ValidateCaddy, AddPart, WritePending
<1> QED
  BY <1>1, <1>2, <1>3, <1>4, <1>5, <1>6, <1>7, <1>8, <1>9, <1>10, <1>11, <1>12, <1>13 DEF Prepared

\* The candidate is activated over a durable snapshot.
LEMMA ActivatedDistance ==
  ASSUME PowerIInv, Activated, Step
  PROVE  DistanceInv
<1> USE DEF PowerIInv, CoreInv, TypeOK, CallInv, RecoveryInv, ReleaseInv, StageInv, SnapshotInv, RollbackInv,
          AgreeInv, ContainerInv, QuietServes, Clean, Published, Open, Unpublished, Readable,
          Complete, Agree, Running, FoundInv, FileStates, Whole, NamesInv, Names, ServedInv,
          StagedInv, Unsynced, SyncedInv, LagInv, DistanceInv, Step, Syncing, Committed
<1>1. CASE Begun
  BY <1>1, SMTT(30) DEF Begun
<1>2. CASE ActivateEnv
  BY <1>2, SMTT(30) DEF ActivateEnv
<1>3. CASE StartCandidate
  BY <1>3, SMTT(30) DEF StartCandidate
<1>4. CASE PassAcceptance
  BY <1>4, SMTT(30) DEF PassAcceptance
<1>5. CASE Committed
  BY <1>5, SMTT(30) DEF Committed
<1> QED
  BY <1>1, <1>2, <1>3, <1>4, <1>5 DEF Activated

\* A failing stage leaves the files to the rescue.
LEMMA FailedDistance ==
  ASSUME PowerIInv, Failed, Step
  PROVE  DistanceInv
<1> USE DEF PowerIInv, CoreInv, TypeOK, CallInv, RecoveryInv, ReleaseInv, StageInv, SnapshotInv, RollbackInv,
          AgreeInv, ContainerInv, QuietServes, Clean, Published, Open, Unpublished, Readable,
          Complete, Agree, Running, FoundInv, FileStates, Whole, NamesInv, Names, ServedInv,
          StagedInv, Unsynced, SyncedInv, LagInv, DistanceInv, Step, Syncing, Committed
<1>1. CASE RecoverFailed
  BY <1>1, SMTT(30) DEF RecoverFailed, Rescue, Interrupted
<1>2. CASE PlayFails
  BY <1>2, SMTT(30) DEF PlayFails, Rescue, Interrupted
<1>3. CASE CandidateFails
  BY <1>3, SMTT(30) DEF CandidateFails, Rescue, Interrupted
<1>4. CASE StartFails
  BY <1>4, SMTT(30) DEF StartFails, Rescue, Interrupted
<1>5. CASE TransactionFails
  BY <1>5, SMTT(30) DEF TransactionFails, Rescue, Interrupted
<1>6. CASE Rescued
  BY <1>6, SMTT(30) DEF Rescued, Rescue, Interrupted
<1> QED
  BY <1>1, <1>2, <1>3, <1>4, <1>5, <1>6 DEF Failed

\* A deploy begins, gets past its recovery or dies.
LEMMA RestDistance ==
  ASSUME PowerIInv, StartDeploy \/ Recovered \/ Crash, Step
  PROVE  DistanceInv
<1> USE DEF PowerIInv, CoreInv, TypeOK, CallInv, RecoveryInv, ReleaseInv, StageInv, SnapshotInv, RollbackInv,
          AgreeInv, ContainerInv, QuietServes, Clean, Published, Open, Unpublished, Readable,
          Complete, Agree, Running, FoundInv, FileStates, Whole, NamesInv, Names, ServedInv,
          StagedInv, Unsynced, SyncedInv, LagInv, DistanceInv, Step, Syncing, Committed
<1>1. CASE StartDeploy
  BY <1>1, SMTT(30) DEF StartDeploy
<1>2. CASE Recovered
  BY <1>2, SMTT(30) DEF Recovered
<1>3. CASE Crash
  BY <1>3, SMTT(30) DEF Crash, Die, Interrupted
<1> QED
  BY <1>1, <1>2, <1>3
-----------------------------------------------------------------------------
(* The invariant                                                           *)

LEMMA NextDistance == ASSUME PowerIInv, Step PROVE DistanceInv
<1>1. CASE BeginCall /\ UNCHANGED <<pc, plan>>
  BY <1>1, BeginDistance
<1>2. CASE RecoverCall /\ UNCHANGED <<pc, plan>>
  BY <1>2, RecoverDistance
<1>3. CASE CommitCall /\ UNCHANGED <<pc, plan>>
  BY <1>3, CommitDistance
<1>4. CASE (Refuse \/ RtFault) /\ UNCHANGED <<pc, plan>>
  BY <1>4, ErrorDistance
<1>5. CASE Prepared
  BY <1>5, PreparedDistance
<1>6. CASE Activated
  BY <1>6, ActivatedDistance
<1>7. CASE Failed
  BY <1>7, FailedDistance
<1>8. CASE StartDeploy \/ Recovered \/ Crash
  BY <1>8, RestDistance
<1> QED
  BY <1>1, <1>2, <1>3, <1>4, <1>5, <1>6, <1>7, <1>8
     DEF Step, Next, Progress, Fault, Call, CallFault, RtStep, RtFault

LEMMA StepKeeps == ASSUME PowerIInv, Step PROVE PowerIInv'
<1>1. CoreInv'
  BY NextKeeps DEF PowerIInv, Step
<1>2. DistanceInv
  BY NextDistance
<1>3. CASE durable' = files'
  <2>1. (durable = files)'
    BY <1>3
  <2>2. FoundInv' /\ StagedInv' /\ SyncedInv' /\ LagInv'
    BY <1>1, <2>1, NothingLags, PTL
  <2>3. NamesInv'
    BY <1>2, <1>3 DEF DistanceInv, NamesInv, Names, files
  <2> QED
    BY <1>1, <1>2, <2>2, <2>3 DEF PowerIInv, DistanceInv
<1>4. CASE durable' # files'
  <2>1. durable' = durable
    BY <1>4 DEF Step
  <2>2. FoundInv' /\ Names(durable.recovery)'
    BY <2>1, FoundKeeps DEF Step
  <2> QED
    BY <1>1, <1>2, <1>4, <2>2 DEF PowerIInv, DistanceInv, NamesInv
<1> QED
  BY <1>3, <1>4

LEMMA WriteBackKeeps == ASSUME PowerIInv, WriteBack PROVE PowerIInv'
<1>1. CoreInv'
  BY StutterKeeps DEF PowerIInv, WriteBack
<1>2. (durable = files)'
  BY DEF WriteBack, files
<1>3. FoundInv' /\ StagedInv' /\ SyncedInv' /\ LagInv'
  BY <1>1, <1>2, NothingLags, PTL
<1>4. NamesInv' /\ ServedInv'
  BY DEF PowerIInv, WriteBack, files, NamesInv, Names, ServedInv, Readable, Complete
<1> QED
  BY <1>1, <1>3, <1>4 DEF PowerIInv

LEMMA LosePowerKeeps == ASSUME PowerIInv, LosePower PROVE PowerIInv'
<1>1. CoreInv'
  BY LosePowerCore
<1>2. (durable = files)'
  BY DEF LosePower, PowerIInv, FoundInv, FileStates, files
<1>3. FoundInv' /\ StagedInv' /\ SyncedInv' /\ LagInv'
  BY <1>1, <1>2, NothingLags, PTL
<1>4. NamesInv'
  BY DEF PowerIInv, LosePower, NamesInv, Names, Complete
<1>5. ServedInv'
  BY SMTT(60) DEF PowerIInv, LosePower, ServedInv, SyncedInv, Unsynced, LagInv, Readable, Complete,
         Whole, Interrupted, CoreInv, TypeOK, CallInv, RecoveryInv, RollbackInv, SnapshotInv,
         QuietServes, Running, Published, Open, FoundInv, FileStates
<1> QED
  BY <1>1, <1>3, <1>4, <1>5 DEF PowerIInv

\* Whatever the power takes, the running host and what a reboot would find both satisfy
\* the role's invariant, and stay within one unfinished write of each other.
THEOREM PowerInvariance == PowerSpec => []PowerIInv
<1>1. PowerInit => PowerIInv
  <2> SUFFICES ASSUME PowerInit PROVE PowerIInv
    OBVIOUS
  <2>1. CoreInv /\ durable = files
    BY InitKeeps DEF PowerInit
  <2>2. NamesInv /\ ServedInv
    BY DEF PowerInit, Init, files, NamesInv, Names, ServedInv, Readable
  <2> QED
    BY <2>1, <2>2, NothingLags DEF PowerIInv
<1>2. PowerIInv /\ [PowerNext]_powerVars => PowerIInv'
  <2> SUFFICES ASSUME PowerIInv, [PowerNext]_powerVars PROVE PowerIInv'
    OBVIOUS
  <2>1. CASE Step
    BY <2>1, StepKeeps
  <2>2. CASE WriteBack
    BY <2>2, WriteBackKeeps
  <2>3. CASE LosePower
    BY <2>3, LosePowerKeeps
  <2>4. CASE UNCHANGED powerVars
    <3>1. CoreInv'
      BY <2>4, StutterKeeps DEF PowerIInv, powerVars
    <3>2. FoundInv' /\ Names(durable.recovery)'
      BY <2>4, FoundKeeps DEF powerVars
    <3>3. NamesInv' /\ ServedInv' /\ StagedInv' /\ SyncedInv' /\ LagInv'
      BY <2>4, <3>2
         DEF powerVars, PowerIInv, NamesInv, Names, ServedInv, StagedInv, SyncedInv, LagInv,
             Unsynced, Published, Readable, Complete, Whole, Running
    <3> QED
      BY <3>1, <3>2, <3>3 DEF PowerIInv
  <2> QED
    BY <2>1, <2>2, <2>3, <2>4 DEF PowerNext
<1> QED
  BY <1>1, <1>2, PTL DEF PowerSpec

-----------------------------------------------------------------------------
(* The properties                                                          *)

\* Also after a power failure the container that runs outside a transaction is the
\* accepted one (runtime_state.py begin, recover and commit with their fsyncs).
THEOREM PowerServes == PowerSpec => []QuietServes
<1>1. PowerIInv => QuietServes
  BY DEF PowerIInv, CoreInv
<1> QED
  BY PowerInvariance, <1>1, PTL

\* The pair that runs is on the disk, for the next deploy to find.
THEOREM ServedPairKept == PowerSpec => []ServedPairOnDisk
<1>1. PowerIInv => ServedPairOnDisk
  BY DEF PowerIInv, CoreInv, QuietServes, ServedInv, ServedPairOnDisk, Running
<1> QED
  BY PowerInvariance, <1>1, PTL

\* Only the last rename of commit accepts.
LEMMA StepAccepts ==
  ASSUME PowerIInv, Step, AcceptedBar' # AcceptedBar
  PROVE  rt = "retain" /\ rt' = "done"
<1>1. CoreInv /\ Next
  BY DEF PowerIInv, Step
<1>2. CASE Retain /\ UNCHANGED <<pc, plan>>
  BY <1>2 DEF Retain
<1>3. CASE ~(Retain /\ UNCHANGED <<pc, plan>>)
  BY <1>1, <1>3, OthersStutter
<1> QED
  BY <1>2, <1>3

\* Coming up again takes at most the last acceptance back.
LEMMA LosePowerAccepts ==
  ASSUME PowerIInv, LosePower, AcceptedBar' # AcceptedBar
  PROVE  previous # None /\ AcceptedBar' = Replaced(previous)
<1> USE DEF PowerIInv, LosePower, AcceptedBar, Replaced, Complete, FoundInv, FileStates
<1>1. Readable' <=> Whole(durable.recovery)
  BY DEF Readable, Whole
<1>2. CASE Readable
  BY <1>1, <1>2 DEF Readable, Whole, SyncedInv, Unsynced, CoreInv, SnapshotInv
<1>3. CASE ~Readable /\ Whole(durable.recovery)
  BY <1>1, <1>3 DEF Whole, LagInv, CoreInv, AgreeInv, Agree
<1>4. CASE ~Readable /\ ~Whole(durable.recovery)
  BY <1>1, <1>4 DEF LagInv
<1> QED
  BY <1>2, <1>3, <1>4

\* A power failure undoes the last acceptance or nothing: never an older one, and never
\* into a mixture of two services (runtime_state.py commit).
THEOREM PowerUndoesOnlyTheLast == PowerSpec => OnlyLastUndone
<1>1. PowerIInv /\ [PowerNext]_powerVars =>
        [AcceptedBar' # AcceptedBar =>
            \/ rt = "retain" /\ rt' = "done"
            \/ previous # None /\ AcceptedBar' = Replaced(previous)]_powerVars
  <2> SUFFICES ASSUME PowerIInv, PowerNext, AcceptedBar' # AcceptedBar
               PROVE  \/ rt = "retain" /\ rt' = "done"
                      \/ previous # None /\ AcceptedBar' = Replaced(previous)
    OBVIOUS
  <2>1. CASE Step
    BY <2>1, StepAccepts
  <2>2. CASE WriteBack
    BY <2>2 DEF WriteBack, AcceptedBar, Readable, Complete
  <2>3. CASE LosePower
    BY <2>3, LosePowerAccepts
  <2> QED
    BY <2>1, <2>2, <2>3 DEF PowerNext
<1> QED
  BY PowerInvariance, <1>1, PTL DEF PowerSpec, OnlyLastUndone
=============================================================================
