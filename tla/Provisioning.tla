----------------------------- MODULE Provisioning -----------------------------
(***************************************************************************)
(* The controller (src/naive_gateway_controller: preflight.py and          *)
(* provisioning.py): `make bootstrap`, `make deploy` up to the gateway     *)
(* role, and `make provision`, which runs both behind one preflight.  One  *)
(* run at a time, repeated at the operator's will, with any password and   *)
(* any checkout of the repository; every task may fail, and the run or the *)
(* host may die between any two.                                           *)
(***************************************************************************)
EXTENDS ManagedHost

vars == <<host, hostVars, pc, run, saved, due, faults>>

Kinds == {"bootstrap", "deploy", "provision"}
Runs == [kind : Kinds, version : Versions, password : Passwords,
         managed : BOOLEAN, apply : BOOLEAN]

ASSUME NoRunAssumption == None \notin Runs

\* The host as it was rented: UFW active or not, with any default and rules, as long
\* as the operator's SSH session gets in.
Init ==
    /\ host \in {h \in Hosts : h.bootRoot => h.rootKey /\ h.base.root}
    /\ account \in {None, Foreign} /\ marker = FALSE
    /\ key \in IF account = None THEN {FALSE} ELSE BOOLEAN
    /\ dropin = None /\ sshd = None
    /\ rules \in SUBSET {"ssh", "gateway", "foreign"} /\ deny \in BOOLEAN /\ ufw \in BOOLEAN
    /\ SshOpen
    /\ block = [f \in Families |-> None] /\ chain = block
    /\ docker \in {"absent", "foreign"} /\ dockerMarker = FALSE
    /\ daemonFile = None /\ dockerd = None
    /\ pc = "idle" /\ run = None /\ saved = None /\ due = {} /\ faults = 0

-----------------------------------------------------------------------------
(* The controller's part                                                   *)

Start(kind) ==
    /\ Then("idle", "preflight")
    /\ \E v \in Versions, p \in Passwords :
        run' = [kind |-> kind, version |-> v, password |-> p, managed |-> FALSE, apply |-> FALSE]
    /\ UNCHANGED <<host, hostVars, saved, due, faults>>

StartBootstrap == Start("bootstrap")
StartDeploy == Start("deploy")
StartProvision == Start("provision")

\* The managed user's key is accepted: nothing else is asked.
PreflightManaged ==
    /\ Then("preflight", IF run.kind = "deploy" THEN "docker_check" ELSE "probe")
    /\ ManagedLogin
    /\ run' = [run EXCEPT !.managed = TRUE]
    /\ UNCHANGED <<host, hostVars, saved, due, faults>>

PreflightBootstrap ==
    /\ Then("preflight", "probe")
    /\ ~ManagedLogin /\ BootLogin
    /\ run.kind # "deploy"
    /\ UNCHANGED <<host, hostVars, run, saved, due, faults>>

\* run_bootstrap asks the bootstrap user again, and leaves the first play out only
\* on a managed host that rejects that user.
ProbeBootstrapUser ==
    /\ Then("probe", IF BootLogin THEN "create" ELSE "prove")
    /\ BootLogin \/ run.managed
    /\ run' = [run EXCEPT !.apply = BootLogin]
    /\ UNCHANGED <<host, hostVars, saved, due, faults>>

\* After the playbook: the managed key works, root's is rejected, no password
\* method is offered.
Reconnect ==
    /\ Then("reconnect", "safe")
    /\ ManagedLogin /\ ~RootLogin /\ ~Permits(sshd).password
    /\ UNCHANGED <<host, hostVars, run, saved, due, faults>>

\* run_provision goes on to run_deploy with a report that says MANAGED.
ProvisionDeploys ==
    /\ Then("safe", "docker_check")
    /\ run.kind = "provision"
    /\ UNCHANGED <<host, hostVars, run, saved, due, faults>>

BootstrapDone ==
    /\ pc = "safe" /\ run.kind = "bootstrap"
    /\ End
    /\ UNCHANGED <<host, hostVars, faults>>

\* The host is ready for the gateway role.
DeployGoesOn ==
    /\ pc = "ready"
    /\ End
    /\ UNCHANGED <<host, hostVars, faults>>

RunRefused ==
    /\ \/ Refuses
       \/ pc = "preflight" /\ ~ManagedLogin /\ (~BootLogin \/ run.kind = "deploy")
       \/ pc = "probe" /\ ~run.managed /\ ~BootLogin
       \/ pc = "reconnect" /\ (~ManagedLogin \/ RootLogin \/ Permits(sshd).password)
    /\ End
    /\ UNCHANGED <<host, hostVars, faults>>

-----------------------------------------------------------------------------
(* Faults                                                                  *)

Spend == faults < MaxFaults /\ faults' = faults + 1

\* A reload or a restart that is cut short may have happened or not.
Partly ==
    /\ sshd' \in IF pc = "ssh_reload" /\ "ssh" \in due THEN {sshd, dropin} ELSE {sshd}
    /\ chain' \in IF (pc = "fw_reload" /\ "ufw" \in due) \/ (pc = "fw_deny" /\ ufw)
                  THEN {chain, block} ELSE {chain}
    /\ dockerd' \in IF pc = "docker_restart" /\ "docker" \in due
                    THEN {dockerd, daemonFile} ELSE {dockerd}
    /\ UNCHANGED <<accountVars, dropin, rules, deny, ufw, block, docker, dockerMarker, daemonFile>>

\* A task of the SSH block fails: the rescue section runs.
SshFails ==
    /\ pc \in {"ssh_install", "ssh_validate", "ssh_reload"}
    /\ pc' = "ssh_restore"
    /\ Spend /\ Partly
    /\ UNCHANGED <<host, run, saved, due>>

\* Any other task fails, a probe has a transport error, the controller or the
\* connection dies.
RunDies ==
    /\ pc # "idle"
    /\ End
    /\ Spend /\ Partly
    /\ UNCHANGED host

\* Everything is loaded again from the files; a playbook that runs is cut off.
Reboot ==
    /\ IF pc \in {"idle", "preflight", "probe", "reconnect", "safe"}
       THEN UNCHANGED <<pc, run, saved, due>> ELSE End
    /\ Spend
    /\ sshd' = dropin
    /\ chain' = IF ufw THEN block ELSE chain
    /\ dockerd' = IF docker = "installed" THEN daemonFile ELSE dockerd
    /\ UNCHANGED <<host, accountVars, dropin, rules, deny, ufw, block,
                   docker, dockerMarker, daemonFile>>

-----------------------------------------------------------------------------
Roles ==
    \/ CreateAccount \/ MarkAccount \/ AuthorizeKey \/ ProveSudo
    \/ SshInspect \/ SshInstall \/ SshValidate \/ SshReload \/ SshRejects \/ SshRestore
    \/ FwCheck \/ FwLimit \/ FwAllow \/ FwDeny \/ FwEnable \/ FwWrite4 \/ FwWrite6
    \/ FwReload \/ FwRequire
    \/ DockerCheck \/ DockerMark \/ DockerConfig \/ DockerInstall \/ DockerRestart
    \/ DockerRequire

Controller ==
    \/ PreflightManaged \/ PreflightBootstrap \/ ProbeBootstrapUser \/ Reconnect
    \/ ProvisionDeploys \/ BootstrapDone \/ DeployGoesOn \/ RunRefused

Starts == StartBootstrap \/ StartDeploy \/ StartProvision
Fault == SshFails \/ RunDies \/ Reboot

Next == Starts \/ Controller \/ Roles \/ Fault

Spec == Init /\ [][Next]_vars

\* A run that goes on goes on, and the operator repeats `make bootstrap`.
FairSpec == Spec /\ WF_vars(Controller \/ Roles) /\ SF_vars(StartBootstrap)

-----------------------------------------------------------------------------
(* Properties                                                              *)

TypeOK ==
    /\ host \in Hosts
    /\ account \in Passwords \cup {None, Foreign} /\ marker \in BOOLEAN /\ key \in BOOLEAN
    /\ dropin \in Versions \cup {None} /\ sshd \in Versions \cup {None}
    /\ rules \subseteq {"ssh", "gateway", "foreign"} /\ deny \in BOOLEAN /\ ufw \in BOOLEAN
    /\ block \in [Families -> Versions \cup {None}]
    /\ chain \in [Families -> Versions \cup {None}]
    /\ docker \in {"absent", "foreign", "installed"} /\ dockerMarker \in BOOLEAN
    /\ daemonFile \in Versions \cup {None} /\ dockerd \in Versions \cup {None}
    /\ pc \in Steps /\ run \in Runs \cup {None} /\ saved \in Versions \cup {None}
    /\ due \subseteq {"ssh", "ufw", "docker"} /\ faults \in 0..MaxFaults

\* The operator can always get in and become root: at every step of every run, after
\* any failure, death or reboot, either the bootstrap user still logs in, or the
\* managed account with the operator's key and password does (bootstrap.yml proves
\* sudo before it hardens SSH, and opens the SSH port before it enables UFW).
NoLockout ==
    /\ SshOpen
    /\ ~BootLogin => key /\ marker /\ account \in Passwords

\* What a bootstrap that is declared safe left behind: the managed login with the
\* password that was typed, root and passwords rejected, an active default-deny
\* firewall with exactly the expected rules, and this checkout's Docker ingress
\* chains of both families, whatever an earlier run left half done.
DeclaredSafe ==
    pc = "safe" =>
        /\ ManagedLogin /\ marker /\ account = run.password
        /\ ~RootLogin /\ ~Permits(sshd).password
        /\ ufw /\ deny /\ rules = {"ssh", "gateway"}
        /\ \A f \in Families : chain[f] = run.version

\* No daemon that this project installed ever runs without the ingress chains of
\* both families, also not after a reboot or in the middle of an upgrade.
DockerBehindPolicy == dockerd # None => Behind

\* What is not of this project stays as it is.
KeepsForeign ==
    /\ account # None => account' = account
    /\ account # None /\ ~marker /\ pc # "mark" => UNCHANGED accountVars /\ pc' # "mark"
    /\ docker = "foreign" => UNCHANGED <<dockerVars, firewallVars>>
    /\ "foreign" \in rules => UNCHANGED firewallVars

\* An account, a Docker installation or UFW rules that this project did not make
\* stay as they are, an account of a run that died before marking it included: no
\* later run marks it, or gives it a key; and no run changes the password of an
\* account that exists (README: a repeated run; docs/vps-setup.md: the table).
NothingAdopted == [][KeepsForeign]_vars

\* What the host tasks of verify.yml and the probes of run_verify require.
VerifyFirewall ==
    /\ ufw /\ deny /\ rules = {"ssh", "gateway"}
    /\ \A f \in Families : chain[f] = run.version
VerifyDocker == docker = "installed" /\ daemonFile = run.version
VerifyAccess ==
    /\ ManagedLogin /\ Owned
    /\ ~RootLogin /\ ~Permits(sshd).password
    /\ Permits(dropin) = Denied

\* A deploy that reaches the gateway role has a firewall and a Docker that
\* `make verify` of the same checkout accepts, whatever versions and interrupted
\* runs the host went through; after a provision it accepts the SSH access too.
ReadyVerifies ==
    pc = "ready" =>
        /\ VerifyFirewall /\ VerifyDocker
        /\ run.kind = "provision" => VerifyAccess

\* README: the SSH drop-in is installed and reloaded, and a repeated run reconciles
\* the host: a safe bootstrap has loaded the drop-in it installed.
SafeIsReloaded == pc = "safe" => sshd = dropin

\* docker/tasks/main.yml: a changed daemon configuration is applied.
DaemonIsReloaded == pc = "ready" => dockerd = daemonFile

\* docs/vps-setup.md: after a failure, repeat `make bootstrap`; README: a repeated
\* run reconciles the host.  Left aside is the one failure that the table of
\* docs/vps-setup.md says a retry does not repair: the account exists, its marker
\* does not yet.
CleanHost ==
    /\ account = None /\ rules = {} /\ docker = "absent" /\ ~host.overridden
Unmarked == pc = "idle" /\ account # None /\ ~marker
Reconciles == CleanHost /\ [](~Unmarked) => <>(pc = "safe")
=============================================================================
