# Verification of the naive gateway: provisioning, deployment and recovery

TLA+ models of this repository: a controller on the operator's machine that prepares a VPS
over SSH with Ansible, and the programs on the VPS that deploy, rotate, back up and restore
one Caddy container. TLC checks the models on small instances; TLAPS proves their safety
properties for every value of the constants.

Paths below are relative to the repository; `naive_gateway/…`, `ssh/…` and so on are roles
under `provisioning/roles/`.

## 1. The system

### Components

| Component | State | Operations | Correct when |
|---|---|---|---|
| runtime transaction, `scripts/runtime_state.py` | `gateway.env`, `gateway.env.pending`, symlink `current`, `deployment-recovery`, `previous-deployment`, `deployment-history`, the container | `begin`, `recover`, `commit`, each a series of atomic writes, renames and Compose calls | the accepted (release, env) pair changes in one step and never by half; everything before it can be rolled back to |
| deploy role, `naive_gateway/tasks/*.yml` | release directories with their `.release-complete` and `deployment.yml`, images, the pending env | recover, export the release, choose or generate credentials, build, validate, begin, activate, accept, commit; a rescue section | no failure or death loses the accepted service; a retry neither rotates credentials nor damages a release that is in use |
| credential rotation, `scripts/rotate-credentials.sh` | `gateway.env.rotate.*` copies | swap the env, restart, check, undo in the exit trap | the accepted credentials survive a failed rotation and a failed undo |
| backup, `scripts/backup_runtime.py`, `backup.sh` | a private staging directory, archives | guards, stage, add members, print the name | it archives only the accepted service; what it printed can be restored, what is torn is refused |
| restore, `scripts/restore_runtime.py`, `playbooks/restore.yml` | release, image and volumes it creates | load, copy, volumes, begin … commit, undo | only onto an empty host; an undone restore leaves no service behind |
| acceptance, `scripts/check-server.sh`, `common.sh` | none | HTTPS and proxy requests, container and log checks | its verdict gates commit, rotation and restore: a broken request is no evidence for either verdict |
| role `user` | managed account, key, `user-managed-<user>` | create, mark, authorize | never adopts or changes an account it did not create |
| roles `ssh`, `ssh_policy`, `files/sshd_policy.py` | the drop-in, the policy that the running sshd loaded | save, install, validate, reload, rescue | hardens only behind a proven login; what is declared safe is in force |
| role `firewall` | UFW rules and default, `after.rules`, the kernel's chains | check, allow, deny, enable, write ingress blocks, reload, require | SSH stays open; Docker's ingress chains precede Docker |
| role `docker` | marker, `daemon.json`, packages, daemon | check, mark, configure, install, restart, require | no daemon without ingress chains; a foreign Docker is untouched |
| role `bootstrap` | python and sudo packages | install, check | (no state relied on later) |
| controller, `cli.py`, `preflight.py`, `provisioning.py`, `ssh.py`, `network.py` | `provisioning/known_hosts` | `make bootstrap`, `deploy`, `provision`, `verify`, `credentials`, `restore` | declares safe only what its probes and roles established; logs in as the user the server permits; prints the accepted pair |
| verification, `playbooks/verify.yml` | none | checks of access, host, env, pointer, container, acceptance | passes on every accepted service |
| configuration, `config.py`, `repository.py`, and the readers of `gateway.env` | `.env`, `gateway.env` | validation, rendering, parsing | what is accepted locally is accepted, and read alike, everywhere |
| tooling, `tooling.py` | none | version checks | refuses before any remote change |
| container, `compose.yml`, `Dockerfile`, `Caddyfile`, `site/` | container, two volumes | up, down | runs one release with one env |

### Interactions

- `make deploy`: controller → SSH → `playbooks/deploy.yml` → role `docker`, then role
  `naive_gateway`, which calls `runtime_state.py` three times: `recover` before anything else
  (and in the rescue), `begin` before the active env is replaced, `commit` after acceptance.
- `restore_runtime.py` imports the same class and calls `begin`, `commit` and `recover` itself.
  `rotate-credentials.sh` does not use it: it only refuses to start while `deployment-recovery`
  exists. `backup_runtime.py` calls none of the three either; it refuses in the same case.
- `verify.yml` and `make credentials` read the env, the pointer and the container, and not
  `deployment-recovery`.
- All four share the env, the pointer, the releases, the images and the container, with no lock
  between them. README.md:270 and docs/vps-setup.md:5 ask operators not to run them in parallel.
- `make bootstrap`: a first play as the bootstrap user (account, marker, key), then a second as
  the managed user (proof of sudo, SSH hardening, firewall), then probes from the controller.
- `make provision` is bootstrap and deploy behind a single preflight: the second part gets a
  report made up from the first one's success.
- Most host settings exist twice, as a file and as what a daemon or the kernel loaded from it.
  A role reloads only what changed in its own run (`changed` or a notified handler).

### What is hard

No two operators run concurrently by design. What makes the system hard is that **every
program may stop between any two writes** (failed task, I/O error, controller killed, SSH lost,
reboot, power loss), that some paths have a rescue, a trap or a `finally` and others none, and
that the next program, perhaps another one, perhaps from another checkout or with other
parameters, starts from what is left. A remote command whose connection was lost does not even
stop: it goes on beside its successor. And much is concluded from what is *not* seen (no
password method offered, no answer, no log line), which a broken connection looks like.
`PROJECT.json` lists the hazards line by line.

## 2. Plan

Done, in this order:

1. `AcceptedService`: what the deployment machinery promises, abstractly.
2. `RuntimeState`: the durable transaction; `DeployTransaction`: the role that drives it.
   They are one behaviour specification, split by source file.
3. `DeployInvariants`, `DeployTransactionProofs`: the inductive invariant, its proof, and the
   proof that `DeployTransaction` implements `AcceptedService`.
4. `GatewayLifecycle`: deploy, rotation, backup and restore on one host.
5. `ManagedHost` (the host and its roles), `Provisioning` (the controller that runs them),
   `ProvisioningInvariants`, `ProvisioningProofs`.

6. `OverlappingDeploys`: what outlives a lost connection. `PowerLoss`: what is synced and what
   is not. Both take the transaction of item 2 to a harsher environment.
7. `Verification`: `make verify`, `credentials` and `provision` over the deploys.
8. `BackupArchive`, `SshAccess`, `AcceptanceCheck`, `RuntimeValues`, `SshdPolicy`,
   `IngressChain`: what the modules above reduce to a predicate or to a choice of outcomes, each
   now a module of its own.

9. Proofs of the rest: `VerificationProofs`, `LifecycleProofs`, `PowerProofs`, `OverlapProofs`,
   `ReadBackProofs` for what is written to be read later (`BackupArchive`, `RuntimeValues`), and
   `VerdictProofs` for the four small modules that end in a verdict.

Next, most important first:

1. **Refinement**: `OverlappingDeploys` and `PowerLoss` against `AcceptedService`, which so far
   only the undisturbed role is shown to implement (`ServesAccepted` and `OnlyLastUndone` say in
   their own terms what lost connections and power loss leave of it).
2. **Deploy against rotation** by two operators: they share the check of `deployment-recovery`
   and no lock, which the documentation leaves to the operators.

## 3. The modules and the code

Each definition of code has its lines in the `map` of `PROJECT.json`. Definitions whose comment
says *Mutated* are deliberate bugs, used only to show that a property can fail.

### `RuntimeState`: `scripts/runtime_state.py`

A variable per file: `env`, `pending`, `current`, `recovery`, `previous`, `history`. `recovery`
is a record with one field per file of the snapshot directory, so that a half removed snapshot
exists in the model. `release[c]` is the set of parts of a release that exist (`dir`, `files`,
`marker`, `pin`), `images` the built images, `container` what runs with which env and health.
`stage` is `begin`'s private directory. `rt` is the next step of the running call:

| Call | Steps |
|---|---|
| `begin` | `Begin` (checks) → `StageCandidate` → `StagePrevious` → `StageState` → `Publish` (rename) → `SyncSnapshot` |
| `recover`, something was accepted | `Recover` → `RestoreEnv` → `RestartPrevious` or `RestartFails` → `Repoint` → `PurgeFile`… → `PurgeDirectory` |
| `recover`, nothing was | `Recover` → `StopCandidate` or `StopFails` → `DropEnv` → `DropCurrent` → purge |
| `commit` | `Commit` (checks) → `Promote` → `Archive` → `Retain` (rename) |

`Refuse` is a check that raises. `Raise` is an I/O error at any step. `Die` is the part of a
crash that concerns these files. A Compose call that fails or is cut off leaves the old
container, none, or the new one in any health (`Interrupted`).

### `DeployTransaction`: role `naive_gateway`

`pc` is the task about to run. The role's tasks appear in source order: `StartDeploy`/`Recovered`
(main.yml), `FetchSource` … `PinImage` (release.yml), `UseExplicit`, `UseSaved`, `Generate`
(credentials.yml), `ValidateConfig` … `Committed` (activate.yml). A task outside the rescued
block fails with `PlayFails`; one inside goes to the rescue, which runs `recover`
(`CandidateFails`, `StartFails`, `TransactionFails`, `Rescued`). `Crash` ends the run anywhere
with no rescue. Ordinary task failures are free; only errors of the transaction itself, failed
rollbacks and crashes count against `MaxFaults`.

### `AcceptedService`

Two variables, `accepted` and `retained`, and one action, `Accept`. `DeployTransaction`
implements it under `AcceptedBar` (what a readable snapshot would restore, otherwise what
pointer and env say) and `RetainedBar` (what `previous-deployment` and `deployment-history`
keep). Everything the role does except the final rename of `commit` is a stuttering step.

### `GatewayLifecycle`: rotation, backup, restore

Extends `DeployTransaction` and reuses its actions and those of `RuntimeState` unchanged.
`rot` and `res` are the steps of the rotation and of the restore; `oldEnv` is the running
rotation's copy and `kept` the copies left by rotations that died or could not be undone;
`made` and `volumes` are volumes; `good` is a history variable, the service whose acceptance
check passed last and which was then accepted. A restore's release is copied and removed part
by part, in any order, as `copytree` and `rmtree` follow directory order. `RestoreFails` and
`RestoreUpFails` model the exception handler, `UndoRecovered` … `RestoreUndone` its clean-up,
`RotationFails` the trap, `RotationDies` and `RestoreDies` a kill. `CreateVolumeFails` is a
`docker volume create` that fails after it took effect: the clean-up removes only what
`created_volumes` lists, so this volume stays (`UndoneIsEmpty` admits one) and the next restore
refuses it.

### `ManagedHost` and `Provisioning`

File against loaded state: `dropin`/`sshd`, `block`/`chain` (per address family),
`daemonFile`/`dockerd`. `due` is what this run changed and has not reloaded. A configuration is
represented by the checkout (`Versions`) that wrote it. `host` is what the project does not
change: whether the bootstrap user is root, whether root accepts the operator's key, the SSH
policy without the drop-in, whether other files override the drop-in. `ManagedHost` has the
tasks of the roles; `Provisioning` has the initial states (with or without a foreign account,
foreign Docker or foreign UFW rules; UFW active or not, with either default and any of the rules
that the project itself makes, as long as SSH is open), the preflight, the probes, the three
commands and the faults: `SshFails` (the rescue runs), `RunDies`, `Reboot`. A fault during a
reload or a restart leaves it done or not done (`Partly`).

`Permits` stands for `sshd -T` and the Include walk; `Behind` is "both families have a managed
chain", and the exact comparison is `chain[f] = run.version`.

### `PowerLoss`: what `sync_directory` makes durable

Extends `DeployTransaction`. Its variables are what running processes see; `durable` is what a
reboot would find. `Step` is a step of the deploy whose files become durable at once if the code
syncs them (`Syncing`: `atomic_write`, `point_current`, the end of `begin`); `WriteBack` is the
kernel, some time later; `LosePower` replaces the files by the durable ones. `reported` is the
service of the last deploy that ended successfully.

### `OverlappingDeploys`: lost connections

Each deploy is a process with a step of its own (`at`) and a private copy of the `state.json`
that its call has read (`snap`); env, pointer, snapshot and container are shared. `controller`
is the deploy whose playbook still runs: `LoseConnection` resets it, and the command on the host
goes on to its end, after which nothing follows (`Over`), no rescue either. `recover` and
`commit` are split where the code reads and then acts. Nothing restrains the interleaving: the
operator starts the next deploy at any time after a playbook ended, and it goes from its recover
to `begin` whatever is still at work on the host. The history variable `crossed` records whether a
recover has ever run beside another deploy's transaction (`Crossing`), the one overlap that does
harm. `LikelySpec`, used by the violation run, restricts the timing to the likely one, in which
only Compose calls are slow enough to be overtaken.

### `Verification`: `verify.yml`, `make credentials`, `make provision`

Extends `DeployTransaction` with the controller command (`cmd`, `step`). `VerifyPasses` is the
playbook, reduced to the conditions that deploys can change; `VerifyFail` is always possible,
since a site or a host may not answer. `Show` prints the pair of the env as it is at that moment.
The playbook does not look at `deployment-recovery`, and so passes on services that are not accepted
yet, or not any more; `VerifiedIsWhole` says that these are whole ones all the same.

### `SshAccess`: `ssh.py`, `network.py`, `preflight.py` and the probes of `provisioning.py`

`pc` is the question the command asks. Each is an OpenSSH session with phases (`ssh`), printed
messages (`err`) and an exit status (`rc`), and `Verdict` is `_classify_result`, which sees only
the last two. `Disconnects` breaks a session at any phase; `KeyFileChanges` and `Reinstall`
change the key file or the machine at any moment, between two questions as well as within one.
`Play` is the whole playbook, which may leave any policy behind.

### `AcceptanceCheck`: `check-server.sh`

`gateway` is what the gateway is like, `up` which test targets answer, `check` the next check.
`Answers` are the exit statuses and CONNECT statuses that curl can report of a request, and
`Rejects` is how the script judges them. `log` is what the container has logged.

### `BackupArchive`: `backup_runtime.py` and what `restore_runtime.py` reads

An archive is the sequence of members written so far, with `whole` (its stream was ended) and
`printed` (its name was). `BackupDies` leaves the file as it is, `Download` may cut it short.
The release that a restore installs consists of the members it found, so that a backup of a
restored host sees what an earlier backup left out.

### `RuntimeValues`: `config.py` and the five readers of `gateway.env`

A value is a sequence of characters, one for each class that a pattern tells apart. `Load` takes
any setting that `load_settings` accepts, `Persist` is the role (which takes the pair from the
saved env if none is given), `Rotate` the rotation. `UpToEnd` is the difference between
`fullmatch` and `^...$`; `ShellValue` is bash's tilde expansion. `Spans` says where the pieces of
a sequence between separators begin and end, without recursion: the labels of a host name and the
lines of a text are both made of it.

### `SshdPolicy` and `IngressChain`

`SshdPolicy` is the recursion of `check_config` over any configuration (`content`), as a stack of
calls, then `sshd -T` for the two connections the role asks about. `Reads`, what sshd itself reads,
is the least set with the main file that contains what its files include. `IngressChain` takes one
packet through the rules of `docker_ingress.yml`, whose text is `UserChain` and `ManagedChain`.

### Modules of invariants and proofs

`DeployInvariants`, `VerificationInvariants`, `LifecycleInvariants`, `PowerInvariants` and
`ProvisioningInvariants` state the inductive invariants and extend the modules they are about; the
MC modules extend them, so that TLC checks what TLAPS proves. The smaller modules have their
invariant at the head of their proofs (section 5).

### Modules for TLC

`MCDeployTransaction`, `MCVerification`, `MCPowerLoss`, `MCGatewayLifecycle` and
`MCProvisioning` give the constants their sets. `MCParts` puts the seven modules that share no
variable side by side: a variable `part` names the one that runs in a behaviour, and the others
wait in one of their initial states, so that a single run explores the sum of their state
spaces, not the product.

## 4. The runs

Constants are model values. `deploy_safety`, `deploy_liveness`, `lifecycle_safety`,
`provisioning_safety` and `power_safety` check for deadlock as well: every program can be started
again, so those systems never stop. Archives, overlapping deploys, a packet, a walk or one
acceptance come to an end, and `parts_safety` says so.

| Run | Result | Question |
|---|---|---|
| `deploy_safety` | holds, about 600 000 states | Do failures, deaths and retries of deploys ever break the accepted service, its rollback, or its credentials? Is the role an implementation of `AcceptedService`? Does `verify` agree with it, and does `provision` print its pair? |
| `deploy_liveness` | holds | Is every readable transaction settled by the deploys that follow? |
| `lifecycle_safety` | holds, about 1.6 million states | The same across deploys, rotations, backups and restores |
| `provisioning_safety` | holds, about 1.8 million states | Lockout, false declaration of safety, Docker without its chains, adoption of foreign state |
| `power_safety` | holds, about 2.4 million states | Can a power loss mix two services, undo more than the last acceptance, or lose the pair that runs? |
| `parts_safety` | holds, about 2.2 million states | Overlapping deploys (1.09 million states), SSH probes (545 000), values (2 700), sshd walk (503 000), ingress (2 900), archives (35 000), acceptance (7 200) |
| `deploy_torn_snapshot`, `lifecycle_marked`, `lifecycle_rotation_death`, `provisioning_stale_sshd`, `overlap_orphans`, `values_shell` | violated | Statements of the docs or of the code's own comments that the code does not keep (section 7) |

The properties, by what they are for:

- `QuietServes`, `RollbackStartable`, `CallsAdmissible`, `SuccessMeansAccepted`: pointer, env,
  container and releases agree whenever nothing is open, and a rollback always can work.
- `Refines`, `KeepsCredentials`, `GeneratedOnce`: what changes, and that retries change nothing
  else.
- `LastAcceptedOnDisk`, `AcceptedServes`, `RestoreKeepsAccepted`, `UndoneIsEmpty`,
  `BackupIsAccepted`: the same promise when several programs follow each other.
- `NoLockout`, `DeclaredSafe`, `DockerBehindPolicy`, `ReadyVerifies`, `NothingAdopted`: the
  host, at every step and after any interruption.
- `AcceptedVerifies`, `ProvisionShowsAccepted`: what `make verify` and the printed credentials
  say of the accepted service. `VerifiedIsWhole`: what a verify that passed says of the service it
  saw, accepted or not.
- `ServedPairOnDisk`, `OnlyLastUndone`, `ServesAccepted`: the transaction on a host that loses
  power, and beside commands of lost runs.
- `ChoiceIsTrue`, `SafeIsTrue`, `PassedIsSound`, `SoundPasses`: no conclusion from an answer that
  was not given, about the server's access and about the gateway.
- `NeverRefused`, `ReadsBack`; `TornChangesNothing`, `PrintedIsRestorable`: the env and the
  archive mean the same to whoever writes and reads them.
- `HoldsForAll`, `RefusedForReason`; `OnlyGatewayReached`, `NothingElseDropped`: a policy check
  and a rule set, each with both directions of its claim.
- `VerIInv` (which contains `IInv`), `LifeIInv`, `PowerIInv`, `HostIInv`: the inductive invariants
  that are proved; each has the types of its module as a part.

### Bounds

- `MaxDeploys` bounds the candidates that are prepared, not the deploys that are started: a
  deploy that only recovers is free. Three candidates give a first acceptance, its replacement
  and a third that archives `previous-deployment`; nothing in the code counts further.
- Two commits suffice for "the candidate is the accepted release", "is a retained one" and "is
  new". Two generated pairs: generating twice would show. Two settings and one explicit pair
  distinguish an env that keeps its pair from one that is mixed from two runs.
- Three faults in `deploy_safety`: a death, a failed rollback of it, and a death in the rollback
  of that. `Raise` and `Die` may strike at every step.
- `lifecycle_safety`: two candidates, two faults, two volumes and one archive of another host,
  next to the backups the run itself takes. The number of rotations, backups and restores is
  not bounded; the sets they draw from are finite. Explicit credentials are left out there:
  `deploy_safety` covers them, and they meet no other operation.
- `provisioning_safety`: two checkouts (old and new), two passwords (the account's and another),
  three faults, any number of runs.
- `power_safety`: the bounds of `deploy_safety`, where a power loss is one of the three faults.
- `parts_safety`: three overlapping deploys and four faults (two lost runs whose recovers are
  still at work when the third begins, with a failure of each); two machines (before and after a
  new installation); host names and contacts of up to four characters, pairs of up to two (a
  label, a dot and a label with a hyphen or a line feed at the end; the patterns have no longer
  memory); three files (an include within an include, a file included twice, a cycle); three
  backups (of the first host, torn and whole, and of the restored one).
- Symmetry is used for commits and generated pairs and for checkouts and passwords, in safety
  runs only; the specifications treat these values alike.

### Fairness

`DeployTransaction!FairSpec` is weak fairness of everything that is not a fault: a process that
runs goes on, and the operator runs `make deploy` again, which is what docs/vps-setup.md tells
the operator to do. Faults are never forced and are finitely many. No fairness is put on any
single outcome: a candidate may fail every time. In `Provisioning!FairSpec` a started run goes
on (weak fairness of controller and roles) and `make bootstrap` is repeated for ever (strong
fairness of `StartBootstrap`, since other commands may be started in between).

### Assumptions about the environment

- A rename is atomic. A completed write is durable, except in `PowerLoss`: there the file system
  journals in order (it never keeps a write and loses an earlier one, as ext4 does for renames
  in its default mode), and releases, images and Docker's own records are durable.
- The remote process of a run that died ends with it, except in `OverlappingDeploys`: there a
  lost connection stops no remote command. `LikelySpec` (only the run `overlap_orphans`) lets only
  Compose calls be overtaken.
- Operators take turns, as the documentation asks.
- In `SshAccess`, OpenSSH prints the messages of its phases to standard error and exits with 255
  on its own errors; a login shell's own status is 0 or 1. In `AcceptanceCheck`, curl reports 56
  for a refused CONNECT, 28 for a time-out, and the status 0 if there was no answer.
- Between `SshAccess` and `Provisioning`: the former shows that the probes' answers are true or
  end the run, which the latter assumes.
- At boot sshd, UFW and Docker load their files; `ufw default` restarts an active firewall and so
  loads `after.rules`; `ufw enable` on an active one does nothing; the Docker packages start the
  daemon.
- Acceptance may pass or fail for a container that started; its result changes no state
  (`AcceptanceCheck` has what it is worth).

## 5. What is proved

TLAPS checks every leaf. The proofs hold for any sets of commits, settings, pairs, checkouts,
passwords and configuration files, and for any number of deploys, faults, machines and backups,
under the named assumptions of the modules: the bounds are naturals, `None` is none of the values
and records (`NoneAssumption`, `NoRecordAssumption`, `NoRunAssumption`), and the kinds of names in
`NamesAssumption` differ. TLC evaluates all of them, and no theorem assumes more.

Every proof has the same shape: an inductive invariant, a lemma for each group of actions that
says they keep it, the theorem that it always holds, and the properties as its consequences.

**Deployment (`DeployTransactionProofs`).** None of the safety properties is inductive: that a
rollback restores the right pair, for instance, depends on what `begin` staged many steps
earlier. `IInv` (`DeployInvariants`) says what each stage may rely on:

| Part | What it carries |
|---|---|
| `CallInv` | which stage runs which call of `runtime_state.py` |
| `RecoveryInv` | no snapshot while preparing, a readable one from publication to the end of the transaction |
| `ReleaseInv` | accepted and retained releases are complete; how far the candidate's is |
| `StageInv`, `SnapshotInv` | what has been staged; that the published snapshot is the pair to return to and the pending env the one to accept |
| `RollbackInv`, `ContainerInv` | how far a rollback is, and what runs meanwhile |
| `AgreeInv`, `ArchiveInv`, `CredentialInv`, `GenerationInv` | pointer and env, retained snapshots, which pair the candidate has, that a generated pair is found again |

`IInv` is `CoreInv` and `GenerationInv`: all but the last part hold of a role whose files go back
to an earlier state, too, which the proofs about power loss use.

There is one lemma per group of actions (`BeginKeeps`, `RecoverKeeps`, `CommitKeeps`,
`ErrorKeeps`, `PreparedKeeps`, `ActivatedKeeps`, `FailedKeeps`, `RestKeeps`), combined in
`Invariance`. From it follow `TypeCorrectness`, `ServiceAgreement`, `RollbackMaterial`,
`NoSpuriousRefusal`, `SuccessfulDeploy` and `GenerationOnce`. For `Refinement`, `RetainAccepts`
shows that `commit`'s last rename is `Accept`, and the `…Stutters` lemmas that every other step
leaves `AcceptedBar` and `RetainedBar` alone. Purging is the delicate step: the first file that
disappears makes the snapshot unreadable, and `AcceptedBar` moves from what the snapshot says
to what the disk says, which `RollbackInv` has made equal. `CredentialsKept` is an action
property from the same lemmas.

**Host (`ProvisioningProofs`).** `HostIInv` has parts for the run, the account, SSH, foreign
state, the firewall, its chains and Docker. Its core is what an interrupted run leaves for the
next one: a loaded chain has a block in its file (`FirewallInv`), a block is written only behind
the closed firewall, and a block that is not loaded yet is either due in this run or will be
loaded by `ufw default` in the next, before `FwReload` could miss it (`ChainInv`). `HostTypes`,
`OperatorNotLockedOut`, `SafetyDeclaration`, `DockerIngress`, `ReadyHostVerifies` and the action
property `ForeignUntouched` follow from `HostInvariance`.

**Controller commands (`VerificationProofs`).** A step of `Verification` is a step of the role or
leaves its files alone (`RoleStep`), hence `DeployUndisturbed` (`VerSpec => Spec`) and everything
proved of the role. `VerIInv` adds that a deploy's pending env is the one this run asked for
(`PendingInv`), from which `AcceptedServiceVerifies` follows, and that a provision past its deploy
stands before an accepted service without a snapshot (`DeliveredInv`), from which
`ProvisionPrintsAccepted` does. For `VerifiesWholeService`, `WholeInv` says that the
container of an unfinished transaction was started from one of its two releases with the env that
belongs to it, and `VerifiedInv` that what verify has seen is still so.

**Lifecycle (`LifecycleProofs`).** Deploy and restore call the same `begin`, `recover` and
`commit`, so `LifeIInv` speaks of what the caller is about, whichever it is (`Preparing`,
`Beginning`, `Trying`, `Committing`, `Recovering`, `CleaningUp`). Its core is `GoodInv`: what the
disk records as accepted (`AcceptedBar`) is the service accepted last, and if rotations have left
copies of the env, the accepted pair is the active one or a copy. `ServesInv` says the same of the
container and needs `kept = {}`: after a dead rotation nothing can be said of what runs.

**Power loss (`PowerProofs`).** `CoreInv` says of the files as processes see them what it says
without power loss; `FoundInv` says of what a reboot would find that it is a state of an idle host
in which the role can go on. The step that needs work is `LosePower`: the durable files become
the files (`LosePowerCore`). The other parts bound how far the durable files may be behind:
`StagedInv` and `SyncedInv` say that nothing is activated or restarted before the snapshot is
durable, unless nothing has changed yet (`Unsynced`); `LagInv` that outside a transaction the power
can take back its end only, which is `PowerUndoesOnlyTheLast`. That a step which is not synced
leaves these true is one lemma for each group of the role's actions (`…Distance`).
`GenerationInv` is no part of `PowerIInv`: a generated pair may be lost with the power.

**Overlapping deploys (`OverlapProofs`).** The operator may deploy again at any time, and any
interleaving is allowed; the invariant is `crossed \/ ApartInv`, where `ApartInv` says what holds as
long as no recover has run beside another deploy's transaction. Every recover, also one that works
from a `state.json` that another recover has removed since, then restores the service accepted last,
and what it has restored stays so (`RecoversInv`); a transaction keeps its snapshot, env and
container even beside Compose calls that only wait (`ProgressInv`); and `begin` snapshots nothing
but that service, because without a snapshot nothing else is on disk (`SettledInv`). So
`OrphansServeAccepted` sets aside one kind of overlap only, the one of which `overlap_orphans`
shows a harmful case.

**Archives (`ReadBackProofs`).** An archive that was ended has all members (`Filled`), a restore
loads an image only from one that it has read to its end (`ReadInv`), and the members contain what
the restore of the host, and the next backup there, look for (`MembersSuffice`).

**Values (`ReadBackProofs`).** `gateway.env` is always what the template writes for settings that
`load_settings` accepts (`ValueIInv`). That this is enough rests on lemmas about any text: a line
appended to a text of whole lines adds exactly one line to those that are read from it
(`AppendedLine`), so the four lines of the template are read as the settings they were written for,
as long as no value holds a line feed (`Rendered`); and a host name all of whose labels pass
`_HOST_LABEL` consists of domain characters, begins with a letter or a digit and has its dot inside
(`DomainIs`), because every character but a dot lies in some label (`Pieced`) and no label is empty.
A rotation reads domain and contact through a shell and finds the same, because neither begins with
a tilde (`AcceptedIs`).

**Verdicts (`VerdictProofs`).** Four programs decide something from a series of small
observations, and in each case the invariant says what the observations so far have shown:
`CheckIInv` of the gateway in `AcceptanceCheck`; `TraversalInv` of the rules that did not match the
packet in `IngressChain`; `AccessIInv` of the machine whose key is known in `SshAccess` (an answer
holds of the machine that gave it, and a machine that was installed anew is not taken for it until
its key was removed from `known_hosts` between two commands); `PolicyIInv` of the
files that the walk has left behind in `SshdPolicy`: `Clean` is the largest set of files from which
no Match block can be reached, and every file a call has included is clean or is the call it waits
for. The walk's claim holds for every number of files, cycles and inclusions; the least set
`Reads` is compared with `Clean` directly, without induction over the depth.

## 6. Only model-checked, or not modelled

- Liveness (`Settles`, `Reconciles`) is beyond the proof system and stays with TLC.
- The inductive invariants of `OverlappingDeploys`, `BackupArchive`, `RuntimeValues` and the four
  verdict modules are proved, and are in no run of their own; `parts_safety` checks their
  consequences.
- *Reduced to a predicate or a choice*: safety checks of paths, modes and owners in
  `runtime_state.py` (a failure there is a `Raise` or a refusal); in `Provisioning`, the walk and
  the rules that `SshdPolicy` and `IngressChain` treat; TLS and the page in `AcceptanceCheck`; the
  bytes of an archive, its member names and its link checks (which concern archives nobody's
  backup wrote); apt repositories, socket and group checks of the Docker role, which fail at their
  step.
- *Validated once and then used as they are*: host, ports, users, key paths, `GATEWAY_REF` and the
  repository URL. Their checks are stateless, and nothing else parses the values again.
- *Not modelled*: `tooling.py` (a straight line of version checks, each of which ends the command;
  nothing is kept, and no state of the host depends on it); role `bootstrap` (keeps nothing that
  later steps rely on); the site, the content of the Caddyfile and what Caddy writes into its
  volumes, which a backup copies while it runs; the tests, Molecule and CI.

## 7. Where the code and its documentation disagree

TLC prints a counterexample for each. Those with a configuration in the first column are
variations or smaller disagreements and are not in the list of runs.

| Run, or configuration | What happens |
|---|---|
| `deploy_torn_snapshot` | `recover` removes its snapshot file by file (`shutil.rmtree`, runtime_state.py:200). Dying in between leaves a directory that `state()` refuses for ever; every later deploy, rotation, backup and restore is refused. The service itself is intact (`QuietServes`). The docs say that the next deploy recovers. |
| `overlap_orphans` | When the connection drops during a Compose call and the operator deploys again at once, the recover of the lost run finishes after the one of the new run and removes whatever `deployment-recovery` is there: the snapshot of the new transaction. If the new deploy is interrupted, nothing undoes it. `ServesAccepted` bounds the damage to this overlap: unless a recover runs beside another deploy's transaction, recovers side by side and Compose calls left waiting do no harm. |
| `lifecycle_marked` | A restore that dies in `copytree` or `rmtree` may leave a release with its completeness marker and without its files; the next deploy of that commit trusts the marker. |
| `lifecycle_rotation_death` | A rotation that is killed leaves credentials active that no acceptance passed; the next deploy's `begin` snapshots them as the state to return to. The accepted ones remain in a `gateway.env.rotate.*` file that no program reads. |
| `provisioning_stale_sshd` | The SSH reload runs only if this run changed the drop-in. After a run that died in between, a repeated bootstrap finds the file unchanged, never reloads, and may still be declared safe when root and passwords happen to be rejected by what sshd loaded before (the host's own policy, or an older drop-in). |
| `values_shell` | `NAIVE_USER=~` (or a password with a leading tilde) passes every validator, and bash expands it where `common.sh` sources `gateway.env`: the acceptance asks with another name than Caddy was given, and every deploy fails. |
| `Provisioning_stale_dockerd.cfg`, `DaemonIsReloaded` | The same for `daemon.json`: the restart handler's notification is lost with a run that fails before it, and no later check compares the daemon with its file. |
| `Provisioning_reconciles.cfg`, `Reconciles` | Where root or passwords were allowed, the lost SSH reload makes every repeated bootstrap fail at its reconnect check; only a reboot or a manual reload helps. The documented case of an account without its marker is excluded. |
| `Deploy_predecessor.cfg`, `PredecessorInPlace` | `commit` moves `previous-deployment` away before it renames the new one there (line 216). If it stops in between, the accepted service has no `previous-deployment`, only an entry of the history. |
| `Power_durable.cfg`, `ReportedIsDurable` | `commit`'s last two renames are not synced: after a power loss the snapshot is back, and the next deploy rolls an acceptance back that was reported. `OnlyLastUndone` bounds the damage: exactly the last one, to exactly what it replaced. |
| `Verify_unfinished.cfg`, `VerifiedIsAccepted` | `make verify` passes on a first deploy that died between `commit`'s switch of the pointer and its last rename; that service was never accepted, and the next deploy takes it down. It is a whole service all the same (`VerifiedIsWhole`). |

The firewall has the same shape (a handler after two writes) and does not fail: the next run's
`ufw default` reloads the files first. `DeclaredSafe` and `ReadyVerifies` show it.

## 8. Running

In this directory, with TLC, the TLA+ community modules and TLAPS 1.4.5:

    tlc -workers 2 -config Deploy_safety.cfg MCVerification.tla
    tlc -workers 2 -config Deploy_liveness.cfg MCDeployTransaction.tla
    tlc -workers 2 -config Lifecycle_safety.cfg MCGatewayLifecycle.tla
    tlc -workers 2 -config Provisioning_safety.cfg MCProvisioning.tla
    tlc -workers 2 -config Power_safety.cfg MCPowerLoss.tla
    tlc -workers 2 -config Parts.cfg MCParts.tla
    tlapm DeployTransactionProofs.tla
    tlapm ProvisioningProofs.tla

The other configurations: `Deploy_torn_snapshot.cfg` and `Deploy_predecessor.cfg` belong to
`MCDeployTransaction`, `Verify_unfinished.cfg` to `MCVerification`, `Power_durable.cfg` to
`MCPowerLoss`, `Lifecycle_*.cfg` to `MCGatewayLifecycle`, `Provisioning_*.cfg` to
`MCProvisioning`, `Overlap_orphans.cfg` to `OverlappingDeploys` and `Values_shell.cfg` to
`RuntimeValues`. `PROJECT.json` lists the runs, the mutants that show
that each property can fail, the map from definitions to source lines, the hazards and the
theorems.
